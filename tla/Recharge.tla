------------------------------ MODULE Recharge ------------------------------
(***************************************************************************)
(* How one user's quota is topped up: online orders, whose payment gateway *)
(* notifies PaymentCallback at least once (controller/order.go), and       *)
(* redemption codes (model/redemption.go).  Both end in                    *)
(* CheckAndUpgradeUserGroup (model/user_group.go).                         *)
(*                                                                         *)
(* A callback answers the gateway before it does its work, so a callback   *)
(* that fails is not repeated; a duplicate may run at the same time.       *)
(***************************************************************************)
EXTENDS Integers

CONSTANTS Orders, Callbacks, Codes, Redeemers,
          OrderOf,       \* OrderOf[k]: the order that notification k is about
          GatewayNo,     \* GatewayNo[k]: the payment number it carries
          NodeOf,        \* NodeOf[k]: the process that receives it
          CodeOf,        \* CodeOf[r]: the code that r redeems
          OrderQuota, CodeQuota,
          InitQuota, UsedQuota,
          Promotions,    \* the promotion groups: symbol, min and max
          InitGroup,
          RowLocks,      \* reading a row in a transaction keeps others from
                         \* reading it in theirs
          MaxEdits,      \* bound: administrator edits of codes
          MaxFails       \* bound: database errors in a behaviour

Symbols == {p.symbol : p \in Promotions} \cup {InitGroup}

\* The holder of a free lock.
Nobody == "nobody"

ASSUME RechargeAssumption ==
    /\ OrderOf \in [Callbacks -> Orders]
    /\ CodeOf \in [Redeemers -> Codes]
    /\ OrderQuota \in [Orders -> Nat] /\ CodeQuota \in [Codes -> Nat]
    /\ InitQuota \in Int /\ UsedQuota \in Nat
    /\ \A p \in Promotions : p.min \in Nat /\ p.max \in Nat
    /\ RowLocks \in BOOLEAN
    /\ MaxEdits \in Nat /\ MaxFails \in Nat
    /\ Callbacks \cap Redeemers = {} /\ Nobody \notin Callbacks

VARIABLES order,      \* orders.status
          old,        \* the orders created more than three hours ago
          closing,    \* pending "go CloseUnfinishedOrder" goroutines
          paid,       \* the orders the user paid for at the gateway
          pc,         \* where each callback and each redeemer is
          holder,     \* orderLocks of each process: who holds which lock
          code,       \* redemptions.status
          edit,       \* an administrator's edit under way: the row he read
          quota,      \* users.quota
          group,      \* users.group
          target,     \* the group that CheckAndUpgradeUserGroup chose
          edits,      \* edits so far (bound)
          fails,      \* errors so far (bound)
          credited,   \* history: times an order was credited
          redeemed,   \* history: times a code was redeemed
          reopened    \* history: times an edit made a code enabled that was not

orderVars == <<order, old, closing, paid, holder, credited>>
codeVars == <<code, edit, edits, redeemed, reopened>>
userVars == <<quota, group, target>>
vars == <<orderVars, codeVars, userVars, pc, fails>>

Actors == Callbacks \cup Redeemers

Locks == {<<NodeOf[k], GatewayNo[k]>> : k \in Callbacks}

LockOf(k) == <<NodeOf[k], GatewayNo[k]>>

NoGroup == "none"

NoEdit == [code |-> "none", status |-> "none"]

CodeStatus == {"enabled", "disabled", "used", "deleted"}

RechargeTypeOK ==
    /\ order \in [Orders -> {"none", "pending", "success", "closed"}]
    /\ old \subseteq Orders /\ paid \subseteq Orders
    /\ closing \in Nat
    /\ pc \in [Actors -> {"new", "lock", "read", "save", "credit", "commit",
                          "upgrade", "regroup", "unlock", "done"}]
    /\ holder \in [Locks -> Callbacks \cup {Nobody}]
    /\ code \in [Codes -> CodeStatus]
    /\ edit = NoEdit \/ edit \in [code : Codes, status : CodeStatus]
    /\ quota \in Int
    /\ group \in Symbols
    /\ target \in [Actors -> Symbols \cup {NoGroup}]
    /\ edits \in 0..MaxEdits /\ fails \in 0..MaxFails
    /\ credited \in [Orders -> Nat]
    /\ redeemed \in [Codes -> Nat] /\ reopened \in [Codes -> Nat]

Init ==
    /\ order = [o \in Orders |-> "none"]
    /\ old = {} /\ closing = 0 /\ paid = {}
    /\ pc = [a \in Actors |-> "new"]
    /\ holder = [l \in Locks |-> Nobody]
    /\ code = [c \in Codes |-> "enabled"]
    /\ edit = NoEdit
    /\ quota = InitQuota /\ group = InitGroup
    /\ target = [a \in Actors |-> NoGroup]
    /\ edits = 0 /\ fails = 0
    /\ credited = [o \in Orders |-> 0]
    /\ redeemed = [c \in Codes |-> 0] /\ reopened = [c \in Codes |-> 0]

Goto(a, place) == pc' = [pc EXCEPT ![a] = place]

Fail == fails < MaxFails /\ fails' = fails + 1

-----------------------------------------------------------------------------
(* Orders *)

\* CreateOrder.  The goroutine is started before the payment is made, which
\* the user sees only once the row is there.
CreateOrder(o) ==
    /\ order[o] = "none"
    /\ closing' = closing + 1
    /\ \/ order' = [order EXCEPT ![o] = "pending"] /\ UNCHANGED fails
       \/ Fail /\ UNCHANGED order
    /\ UNCHANGED <<old, paid, holder, credited, codeVars, userVars, pc>>

CloseUnfinishedOrder ==
    /\ closing > 0
    /\ closing' = closing - 1
    /\ \/ /\ order' = [o \in Orders |-> IF order[o] = "pending" /\ o \in old
                                         THEN "closed" ELSE order[o]]
          /\ UNCHANGED fails
       \/ Fail /\ UNCHANGED order
    /\ UNCHANGED <<old, paid, holder, credited, codeVars, userVars, pc>>

\* Three hours pass.
Age(o) ==
    /\ order[o] # "none" /\ o \notin old
    /\ old' = old \cup {o}
    /\ UNCHANGED <<order, closing, paid, holder, credited, codeVars, userVars, pc, fails>>

\* The user pays, even for an order that was closed.
Pay(o) ==
    /\ order[o] # "none" /\ o \notin paid
    /\ paid' = paid \cup {o}
    /\ UNCHANGED <<order, old, closing, holder, credited, codeVars, userVars, pc, fails>>

\* HandleCallback verifies the notification and answers "success".
Notify(k) ==
    /\ pc[k] = "new" /\ OrderOf[k] \in paid
    /\ Goto(k, "lock")
    /\ UNCHANGED <<orderVars, codeVars, userVars, fails>>

LockOrder_Never(k) ==   \* Mutant: the lock is not taken
    /\ pc[k] = "lock"
    /\ Goto(k, "read")
    /\ UNCHANGED <<orderVars, codeVars, userVars, fails>>
LockOrder(k) ==
    /\ pc[k] = "lock"
    /\ holder[LockOf(k)] = Nobody
    /\ holder' = [holder EXCEPT ![LockOf(k)] = k]
    /\ Goto(k, "read")
    /\ UNCHANGED <<order, old, closing, paid, credited, codeVars, userVars, fails>>

\* GetOrderByTradeNo and the test of the status.
ReadOrder_NoTest(k) ==   \* Mutant: the status is not looked at
    /\ pc[k] = "read"
    /\ Goto(k, "save")
    /\ UNCHANGED <<orderVars, codeVars, userVars, fails>>
ReadOrder(k) ==
    /\ pc[k] = "read"
    /\ \/ /\ Goto(k, IF order[OrderOf[k]] = "pending" THEN "save" ELSE "unlock")
          /\ UNCHANGED fails
       \/ Fail /\ Goto(k, "unlock")
    /\ UNCHANGED <<orderVars, codeVars, userVars>>

\* order.Update writes the row as it was read, with its new status.
SaveOrder(k) ==
    /\ pc[k] = "save"
    /\ \/ /\ order' = [order EXCEPT ![OrderOf[k]] = "success"]
          /\ Goto(k, "credit")
          /\ UNCHANGED fails
       \/ Fail /\ Goto(k, "unlock") /\ UNCHANGED order
    /\ UNCHANGED <<old, closing, paid, holder, credited, codeVars, userVars>>

Credit(k) ==
    /\ pc[k] = "credit"
    /\ \/ /\ quota' = quota + OrderQuota[OrderOf[k]]
          /\ credited' = [credited EXCEPT ![OrderOf[k]] = @ + 1]
          /\ Goto(k, "upgrade")
          /\ UNCHANGED fails
       \/ Fail /\ Goto(k, "unlock") /\ UNCHANGED <<quota, credited>>
    /\ UNCHANGED <<order, old, closing, paid, holder, codeVars, group, target>>

UnlockOrder_Forgets(k) ==   \* Mutant: the lock is kept
    /\ pc[k] = "unlock"
    /\ Goto(k, "done")
    /\ UNCHANGED <<orderVars, codeVars, userVars, fails>>
UnlockOrder(k) ==
    /\ pc[k] = "unlock"
    /\ holder' = [holder EXCEPT ![LockOf(k)] = Nobody]
    /\ Goto(k, "done")
    /\ UNCHANGED <<order, old, closing, paid, credited, codeVars, userVars, fails>>

-----------------------------------------------------------------------------
(* CheckAndUpgradeUserGroup, for callbacks and redeemers *)

\* The promotion group of a cumulative amount: of those whose range holds it,
\* one with the highest minimum.
Matches(amount) == {p \in Promotions : amount >= p.min /\ (p.max = 0 \/ amount < p.max)}

Targets(amount) == {p.symbol : p \in {m \in Matches(amount) :
                                        \A other \in Matches(amount) : other.min <= m.min}}

Amount(a) == IF a \in Callbacks THEN OrderQuota[OrderOf[a]] ELSE CodeQuota[CodeOf[a]]

AfterUpgrade(a) == IF a \in Callbacks THEN "unlock" ELSE "done"

\* The user row is read; quota already holds the amount that is added here.
Upgrade(a) ==
    LET best == Targets(quota + UsedQuota + Amount(a))
    IN  /\ pc[a] = "upgrade"
        /\ \/ /\ best \ {group} # {}
              /\ \E g \in best \ {group} : target' = [target EXCEPT ![a] = g]
              /\ Goto(a, "regroup")
              /\ UNCHANGED fails
           \/ /\ best = {} \/ group \in best
              /\ Goto(a, AfterUpgrade(a))
              /\ UNCHANGED <<target, fails>>
           \/ Fail /\ Goto(a, AfterUpgrade(a)) /\ UNCHANGED target
        /\ UNCHANGED <<orderVars, codeVars, quota, group>>

Regroup(a) ==
    /\ pc[a] = "regroup"
    /\ \/ group' = target[a] /\ UNCHANGED fails
       \/ Fail /\ UNCHANGED group
    /\ target' = [target EXCEPT ![a] = NoGroup]
    /\ Goto(a, AfterUpgrade(a))
    /\ UNCHANGED <<orderVars, codeVars, quota>>

-----------------------------------------------------------------------------
(* Redemption codes *)

\* "FOR UPDATE" is asked for through an option that this version of gorm does
\* not read; a database that runs transactions one after the other has
\* RowLocks all the same.
Locked(c) == RowLocks /\ \E r \in Redeemers : CodeOf[r] = c /\ pc[r] = "commit"

\* The first statement of the transaction of Redeem.
RedeemRead(r) ==
    /\ pc[r] = "new"
    /\ ~Locked(CodeOf[r])
    /\ \/ Goto(r, IF code[CodeOf[r]] = "enabled" THEN "commit" ELSE "done") /\ UNCHANGED fails
       \/ Fail /\ Goto(r, "done")
    /\ UNCHANGED <<orderVars, codeVars, userVars>>

\* The two writes and the commit, or a rollback.  tx.Save inserts the row
\* again if it was deleted meanwhile.
RedeemCommit_KeepsCode(r) ==   \* Mutant: the code is not marked as used
    /\ pc[r] = "commit"
    /\ quota' = quota + CodeQuota[CodeOf[r]]
    /\ redeemed' = [redeemed EXCEPT ![CodeOf[r]] = @ + 1]
    /\ Goto(r, "upgrade")
    /\ UNCHANGED <<orderVars, code, edit, edits, reopened, group, target, fails>>
RedeemCommit(r) ==
    /\ pc[r] = "commit"
    /\ \/ /\ quota' = quota + CodeQuota[CodeOf[r]]
          /\ code' = [code EXCEPT ![CodeOf[r]] = "used"]
          /\ redeemed' = [redeemed EXCEPT ![CodeOf[r]] = @ + 1]
          /\ Goto(r, "upgrade")
          /\ UNCHANGED fails
       \/ Fail /\ Goto(r, "done") /\ UNCHANGED <<quota, code, redeemed>>
    /\ UNCHANGED <<orderVars, edit, edits, reopened, group, target>>

\* UpdateRedemption: the row is read ...
EditRead(c) ==
    /\ edit = NoEdit /\ edits < MaxEdits
    /\ code[c] # "deleted"
    /\ edits' = edits + 1
    /\ edit' = [code |-> c, status |-> code[c]]
    /\ UNCHANGED <<orderVars, code, redeemed, reopened, userVars, pc, fails>>

\* ... and its status is written back, as it was read when only the name or
\* the quota is edited, or as the administrator sets it.
EditWrite ==
    /\ edit # NoEdit /\ ~Locked(edit.code)
    /\ \E status \in {edit.status, "enabled", "disabled"} :
          LET c == edit.code
          IN  /\ code' = IF code[c] = "deleted" THEN code ELSE [code EXCEPT ![c] = status]
              /\ reopened' = IF code[c] \in {"used", "disabled"} /\ status = "enabled"
                             THEN [reopened EXCEPT ![c] = @ + 1] ELSE reopened
    /\ edit' = NoEdit
    /\ UNCHANGED <<orderVars, edits, redeemed, userVars, pc, fails>>

DeleteRedemption(c) ==
    /\ edits < MaxEdits /\ code[c] # "deleted" /\ ~Locked(c)
    /\ edits' = edits + 1
    /\ code' = [code EXCEPT ![c] = "deleted"]
    /\ UNCHANGED <<orderVars, edit, redeemed, reopened, userVars, pc, fails>>

Callback(k) ==
    \/ LockOrder(k) \/ ReadOrder(k) \/ SaveOrder(k) \/ Credit(k)
    \/ Upgrade(k) \/ Regroup(k) \/ UnlockOrder(k)

Redeem(r) == RedeemRead(r) \/ RedeemCommit(r) \/ Upgrade(r) \/ Regroup(r)

Next ==
    \/ \E o \in Orders : CreateOrder(o) \/ Age(o) \/ Pay(o)
    \/ CloseUnfinishedOrder
    \/ \E k \in Callbacks : Notify(k) \/ Callback(k)
    \/ \E r \in Redeemers : Redeem(r)
    \/ \E c \in Codes : EditRead(c) \/ DeleteRedemption(c)
    \/ EditWrite

Spec == Init /\ [][Next]_vars

-----------------------------------------------------------------------------
(* Properties *)

\* The notifications of an order carry one payment number and reach one
\* process, whose orderLocks they share.
OneProcess ==
    \A j, k \in Callbacks : OrderOf[j] = OrderOf[k] => LockOf(j) = LockOf(k)

\* An order is credited at most once, and only when it was paid, however many
\* notifications arrive together (LockOrder and the test of the status).
CreditedOnce ==
    \A o \in Orders : credited[o] <= 1 /\ (credited[o] = 1 => o \in paid /\ order[o] = "success")

\* A notification that was dealt with, first or duplicate, means that the
\* money is there: without an error the order has been credited by the end of
\* any callback, unless CloseUnfinishedOrder had closed it.
DoneMeansCredited ==
    \A k \in Callbacks :
        pc[k] = "done" /\ fails = 0 =>
            credited[OrderOf[k]] = 1 \/ order[OrderOf[k]] = "closed"

\* "This code has been used" (redemption.go:75): a code is redeemed once, and
\* again only after an administrator's write made it enabled.
RedeemedOnce == \A c \in Codes : redeemed[c] <= 1 + reopened[c]

\* A wallet as the rows show it: an order is a voucher from its payment until
\* it is credited, a code while it is enabled.
W == INSTANCE Wallet WITH
        Payments <- Orders, Coupons <- Codes,
        PaymentWorth <- OrderQuota, CouponWorth <- CodeQuota,
        InitialBalance <- InitQuota,
        balance <- quota,
        payment <- [o \in Orders |-> IF o \notin paid THEN "open"
                                     ELSE IF credited[o] = 0 THEN "valid" ELSE "spent"],
        coupon <- [c \in Codes |-> IF code[c] = "enabled" THEN "valid" ELSE "void"]

\* PaymentCallback and Redeem implement the wallet: with duplicates, errors,
\* edits and the closing of orders, no step adds quota but by spending one
\* voucher that was still good, and a payment is never good again.
IsWallet == W!WalletSpec

\* No callback is under way, or waits for a lock.
CallbacksOver == \A k \in Callbacks : pc[k] \in {"new", "done"}
=============================================================================
