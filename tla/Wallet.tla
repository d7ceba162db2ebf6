------------------------------- MODULE Wallet -------------------------------
(***************************************************************************)
(* What topping up promises, whatever locks, goroutines, notifications and *)
(* transactions it is made of: the balance only grows, by the worth of one *)
(* voucher at a time, and a voucher is spent as it is counted.  A payment  *)
(* is a voucher once; a coupon may be withdrawn and issued again.          *)
(***************************************************************************)
EXTENDS Integers

CONSTANTS Payments, Coupons, PaymentWorth, CouponWorth, InitialBalance

VARIABLES balance, payment, coupon

walletVars == <<balance, payment, coupon>>

WalletInit ==
    /\ balance = InitialBalance
    /\ payment = [p \in Payments |-> "open"]
    /\ coupon = [c \in Coupons |-> "valid"]

\* The user pays.
Pay(p) ==
    /\ payment[p] = "open"
    /\ payment' = [payment EXCEPT ![p] = "valid"]
    /\ UNCHANGED <<balance, coupon>>

SpendPayment(p) ==
    /\ payment[p] = "valid"
    /\ payment' = [payment EXCEPT ![p] = "spent"]
    /\ balance' = balance + PaymentWorth[p]
    /\ UNCHANGED coupon

SpendCoupon(c) ==
    /\ coupon[c] = "valid"
    /\ coupon' = [coupon EXCEPT ![c] = "void"]
    /\ balance' = balance + CouponWorth[c]
    /\ UNCHANGED payment

Withdraw(c) ==
    /\ coupon[c] = "valid"
    /\ coupon' = [coupon EXCEPT ![c] = "void"]
    /\ UNCHANGED <<balance, payment>>

Reissue(c) ==
    /\ coupon[c] = "void"
    /\ coupon' = [coupon EXCEPT ![c] = "valid"]
    /\ UNCHANGED <<balance, payment>>

WalletNext ==
    \/ \E p \in Payments : Pay(p) \/ SpendPayment(p)
    \/ \E c \in Coupons : SpendCoupon(c) \/ Withdraw(c) \/ Reissue(c)

WalletSpec == WalletInit /\ [][WalletNext]_walletVars
=============================================================================
