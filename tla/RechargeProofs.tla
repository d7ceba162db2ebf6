--------------------------- MODULE RechargeProofs ---------------------------
(***************************************************************************)
(* The account of a user, the three sides of it that MCRecharge checks.    *)
(* CreditedOnce and DoneMeansCredited for any number of orders and of      *)
(* notifications that share the locks of one process, RedeemedOnce for any *)
(* number of codes, redeemers and edits on a database with row locks,      *)
(* DecisionsStand for any users, handlers and forms, and TokenFresh for    *)
(* any number of processes.                                                *)
(***************************************************************************)
EXTENDS Recharge, Accounts, Caches, TLAPS

PCs == {"new", "lock", "read", "save", "credit", "commit", "upgrade",
        "regroup", "unlock", "done"}

\* What a callback does while it holds its lock.
Inside == {"read", "save", "credit", "upgrade", "regroup", "unlock"}

\* The states after the status was found not to be pending or the order was
\* credited.
After == {"upgrade", "regroup", "unlock", "done"}

Shape ==
    /\ pc \in [Actors -> PCs]
    /\ holder \in [Locks -> Callbacks \cup {Nobody}]
    /\ order \in [Orders -> {"none", "pending", "success", "closed"}]
    /\ credited \in [Orders -> Nat]
    /\ fails \in Nat

\* Who is between LockOrder and UnlockOrder holds the lock.
Exclusion == \A k \in Callbacks : pc[k] \in Inside => holder[LockOf(k)] = k

\* What the status of an order says about its payment and its credit.
Ledger ==
    \A o \in Orders :
        /\ o \in paid => order[o] # "none"
        /\ credited[o] <= 1
        /\ credited[o] = 1 => order[o] = "success" /\ o \in paid

\* What a callback knows about its order.
Knows ==
    \A k \in Callbacks :
        /\ pc[k] # "new" => OrderOf[k] \in paid
        /\ pc[k] = "save" => order[OrderOf[k]] \in {"pending", "closed"}
        /\ pc[k] = "credit" => order[OrderOf[k]] = "success" /\ credited[OrderOf[k]] = 0

CreditInv == Shape /\ Exclusion /\ Ledger /\ Knows

-----------------------------------------------------------------------------
\* The callbacks of one order are never inside together.
LEMMA Alone ==
    ASSUME OneProcess, Exclusion, NEW j \in Callbacks, NEW k \in Callbacks,
           OrderOf[j] = OrderOf[k], pc[j] \in Inside, pc[k] \in Inside
    PROVE  j = k
  BY DEF OneProcess, Exclusion

\* CreditInv holds at the start.
LEMMA CreditInit == Init => CreditInv
  BY RechargeAssumption DEF Init, CreditInv, Shape, Exclusion, Ledger, Knows, PCs, Inside, Actors

\* Every step of the system keeps CreditInv.
LEMMA CreditStep ==
    ASSUME OneProcess
    PROVE  CreditInv /\ [Next]_vars => CreditInv'
<1> SUFFICES ASSUME CreditInv, [Next]_vars PROVE CreditInv'
  OBVIOUS
<1> USE RechargeAssumption DEF CreditInv, Shape, Goto, Fail, Actors, PCs
<1>1. ASSUME NEW o \in Orders, CreateOrder(o) PROVE CreditInv'
  BY <1>1 DEF CreateOrder, Exclusion, Ledger, Knows, Inside
<1>2. ASSUME NEW o \in Orders, Age(o) PROVE CreditInv'
  BY <1>2 DEF Age, Exclusion, Ledger, Knows
<1>3. ASSUME NEW o \in Orders, Pay(o) PROVE CreditInv'
  BY <1>3 DEF Pay, Exclusion, Ledger, Knows
<1>4. CASE CloseUnfinishedOrder
  BY <1>4 DEF CloseUnfinishedOrder, Exclusion, Ledger, Knows
<1>5. ASSUME NEW k \in Callbacks, Notify(k) PROVE CreditInv'
  BY <1>5 DEF Notify, orderVars, Exclusion, Ledger, Knows, Inside
<1>6. ASSUME NEW k \in Callbacks, LockOrder(k) PROVE CreditInv'
  <2>1. LockOf(k) \in Locks
    BY DEF LockOf, Locks
  <2>2. Shape' /\ Ledger' /\ Knows'
    BY <1>6, <2>1 DEF LockOrder, Ledger, Knows
  <2>3. Exclusion'
    BY <1>6, <2>1 DEF LockOrder, Exclusion, Inside
  <2> QED BY <2>2, <2>3
<1>7. ASSUME NEW k \in Callbacks, ReadOrder(k) PROVE CreditInv'
  BY <1>7 DEF ReadOrder, orderVars, Exclusion, Ledger, Knows, Inside
<1>8. ASSUME NEW k \in Callbacks, SaveOrder(k) PROVE CreditInv'
  <2>1. Shape' /\ Exclusion'
    BY <1>8 DEF SaveOrder, Exclusion, Inside
  <2>2. Ledger'
    BY <1>8 DEF SaveOrder, Ledger, Knows
  <2>3. Knows'
    BY <1>8, Alone DEF SaveOrder, Ledger, Knows, Inside
  <2> QED BY <2>1, <2>2, <2>3
<1>9. ASSUME NEW k \in Callbacks, Credit(k) PROVE CreditInv'
  <2>1. Shape' /\ Exclusion'
    BY <1>9 DEF Credit, Exclusion, Inside
  <2>2. Ledger'
    BY <1>9 DEF Credit, Ledger, Knows
  <2>3. Knows'
    BY <1>9, Alone DEF Credit, Ledger, Knows, Inside
  <2> QED BY <2>1, <2>2, <2>3
<1>10. ASSUME NEW a \in Actors, Upgrade(a) PROVE CreditInv'
  BY <1>10 DEF Upgrade, AfterUpgrade, orderVars, Exclusion, Ledger, Knows, Inside
<1>11. ASSUME NEW a \in Actors, Regroup(a) PROVE CreditInv'
  BY <1>11 DEF Regroup, AfterUpgrade, orderVars, Exclusion, Ledger, Knows, Inside
<1>12. ASSUME NEW k \in Callbacks, UnlockOrder(k) PROVE CreditInv'
  <2>1. LockOf(k) \in Locks
    BY DEF LockOf, Locks
  <2>2. Shape' /\ Ledger' /\ Knows'
    BY <1>12, <2>1 DEF UnlockOrder, Ledger, Knows
  <2>3. Exclusion'
    BY <1>12, <2>1 DEF UnlockOrder, Exclusion, Inside
  <2> QED BY <2>2, <2>3
<1>13. ASSUME NEW r \in Redeemers, RedeemRead(r) PROVE CreditInv'
  BY <1>13 DEF RedeemRead, orderVars, Exclusion, Ledger, Knows
<1>14. ASSUME NEW r \in Redeemers, RedeemCommit(r) PROVE CreditInv'
  BY <1>14 DEF RedeemCommit, orderVars, Exclusion, Ledger, Knows
<1>15. ASSUME NEW c \in Codes, EditRead(c) \/ DeleteRedemption(c) PROVE CreditInv'
  BY <1>15 DEF EditRead, DeleteRedemption, orderVars, Exclusion, Ledger, Knows
<1>16. CASE EditWrite
  BY <1>16 DEF EditWrite, orderVars, Exclusion, Ledger, Knows
<1>17. CASE UNCHANGED vars
  BY <1>17 DEF vars, orderVars, Exclusion, Ledger, Knows
<1> QED
  BY <1>1, <1>2, <1>3, <1>4, <1>5, <1>6, <1>7, <1>8, <1>9, <1>10, <1>11,
     <1>12, <1>13, <1>14, <1>15, <1>16, <1>17 DEF Next, Callback, Redeem

\* No order is credited twice or without a payment, for any number of
\* notifications that share one process and one payment number per order.
THEOREM CreditedOnceAlways ==
    ASSUME OneProcess
    PROVE  Spec => []CreditedOnce
<1>1. Init => CreditInv
  BY CreditInit
<1>2. CreditInv /\ [Next]_vars => CreditInv'
  BY CreditStep
<1>3. CreditInv => CreditedOnce
  BY DEF CreditInv, Ledger, CreditedOnce
<1> QED
  BY <1>1, <1>2, <1>3, PTL DEF Spec

-----------------------------------------------------------------------------
\* While there was no error: a callback that is past the test of the status
\* leaves an order that is credited or closed, and that no other callback can
\* still be about to save; a successful order is credited, or about to be.
Settled ==
    fails = 0 =>
        /\ \A j, k \in Callbacks :
              OrderOf[j] = OrderOf[k] /\ pc[k] \in After =>
                  pc[j] # "save" /\ order[OrderOf[k]] # "pending"
        /\ \A k \in Callbacks :
              pc[k] \in After => credited[OrderOf[k]] = 1 \/ order[OrderOf[k]] = "closed"
        /\ \A o \in Orders :
              order[o] = "success" =>
                  \/ credited[o] = 1
                  \/ \E k \in Callbacks : OrderOf[k] = o /\ pc[k] = "credit"

\* Settled is inductive together with CreditInv.
LEMMA SettledStep ==
    ASSUME OneProcess
    PROVE  CreditInv /\ Settled /\ [Next]_vars => Settled'
<1> SUFFICES ASSUME CreditInv, Settled, [Next]_vars, fails' = 0 PROVE Settled'
  BY DEF Settled
<1> USE RechargeAssumption DEF CreditInv, Shape, Goto, Fail, Actors, PCs
<1>0. fails = 0 /\ (fails' = fails)
  <2>1. fails' = fails \/ fails' = fails + 1
    BY DEF Next, vars, orderVars, codeVars, userVars, CreateOrder, Age, Pay, CloseUnfinishedOrder, Notify,
       Callback, LockOrder, ReadOrder, SaveOrder, Credit, Upgrade, Regroup, UnlockOrder,
       Redeem, RedeemRead, RedeemCommit, EditRead, DeleteRedemption, EditWrite
  <2> QED BY <2>1
<1>1. ASSUME NEW o \in Orders, CreateOrder(o) PROVE Settled'
  BY <1>0, <1>1 DEF CreateOrder, Settled, Ledger, Knows, After
<1>2. ASSUME NEW o \in Orders, Age(o) PROVE Settled'
  BY <1>0, <1>2 DEF Age, Settled
<1>3. ASSUME NEW o \in Orders, Pay(o) PROVE Settled'
  BY <1>0, <1>3 DEF Pay, Settled
<1>4. CASE CloseUnfinishedOrder
  BY <1>0, <1>4 DEF CloseUnfinishedOrder, Settled
<1>5. ASSUME NEW k \in Callbacks, Notify(k) PROVE Settled'
  BY <1>0, <1>5 DEF Notify, orderVars, Settled, After
<1>6. ASSUME NEW k \in Callbacks, LockOrder(k) PROVE Settled'
  BY <1>0, <1>6 DEF LockOrder, Settled, After
<1>7. ASSUME NEW k \in Callbacks, ReadOrder(k) PROVE Settled'
  <2> USE <1>0, <1>7
  <2>1. \A j \in Callbacks : OrderOf[j] = OrderOf[k] /\ pc[j] \in Inside => j = k
    BY Alone DEF ReadOrder, Inside
  <2>2. order[OrderOf[k]] # "none"
    BY DEF ReadOrder, Ledger, Knows
  <2>3. CASE order[OrderOf[k]] = "pending"
    BY <2>1, <2>3 DEF ReadOrder, orderVars, Settled, After, Inside
  <2>4. CASE order[OrderOf[k]] # "pending"
    BY <2>1, <2>2, <2>4 DEF ReadOrder, orderVars, Settled, After, Inside
  <2> QED BY <2>3, <2>4
<1>8. ASSUME NEW k \in Callbacks, SaveOrder(k) PROVE Settled'
  <2> USE <1>0, <1>8
  <2>1. \A j \in Callbacks : OrderOf[j] = OrderOf[k] => pc[j] \notin After
    BY DEF SaveOrder, Settled
  <2> QED BY <2>1 DEF SaveOrder, Settled, After
<1>9. ASSUME NEW k \in Callbacks, Credit(k) PROVE Settled'
  <2> USE <1>0, <1>9
  <2>1. \A j \in Callbacks : OrderOf[j] = OrderOf[k] /\ pc[j] \in Inside => j = k
    BY Alone DEF Credit, Inside
  <2>2. order[OrderOf[k]] = "success" /\ credited[OrderOf[k]] = 0
    BY DEF Credit, Knows
  <2> QED BY <2>1, <2>2 DEF Credit, Settled, After, Inside
<1>10. ASSUME NEW a \in Actors, Upgrade(a) PROVE Settled'
  BY <1>0, <1>10 DEF Upgrade, AfterUpgrade, orderVars, Settled, After
<1>11. ASSUME NEW a \in Actors, Regroup(a) PROVE Settled'
  BY <1>0, <1>11 DEF Regroup, AfterUpgrade, orderVars, Settled, After
<1>12. ASSUME NEW k \in Callbacks, UnlockOrder(k) PROVE Settled'
  BY <1>0, <1>12 DEF UnlockOrder, Settled, After
<1>13. ASSUME NEW r \in Redeemers, RedeemRead(r) PROVE Settled'
  BY <1>0, <1>13 DEF RedeemRead, orderVars, Settled, After
<1>14. ASSUME NEW r \in Redeemers, RedeemCommit(r) PROVE Settled'
  BY <1>0, <1>14 DEF RedeemCommit, orderVars, Settled, After
<1>15. ASSUME NEW c \in Codes, EditRead(c) \/ DeleteRedemption(c) PROVE Settled'
  BY <1>0, <1>15 DEF EditRead, DeleteRedemption, orderVars, Settled
<1>16. CASE EditWrite
  BY <1>0, <1>16 DEF EditWrite, orderVars, Settled
<1>17. CASE UNCHANGED vars
  BY <1>0, <1>17 DEF vars, orderVars, Settled
<1> QED
  BY <1>1, <1>2, <1>3, <1>4, <1>5, <1>6, <1>7, <1>8, <1>9, <1>10, <1>11,
     <1>12, <1>13, <1>14, <1>15, <1>16, <1>17 DEF Next, Callback, Redeem

\* Without an error every callback that ended left its order credited or
\* found it closed, for any number of duplicates in any interleaving.
THEOREM DoneMeansCreditedAlways ==
    ASSUME OneProcess
    PROVE  Spec => []DoneMeansCredited
<1>1. Init => CreditInv /\ Settled
  BY CreditInit, RechargeAssumption DEF Init, Settled, After, Actors
<1>2. CreditInv /\ Settled /\ [Next]_vars => (CreditInv /\ Settled)'
  BY CreditStep, SettledStep
<1>3. CreditInv /\ Settled => DoneMeansCredited
  BY DEF Settled, DoneMeansCredited, After
<1> QED
  BY <1>1, <1>2, <1>3, PTL DEF Spec

-----------------------------------------------------------------------------
\* A code that may be redeemed, because it is enabled or because a transaction
\* has read it so, was redeemed no more often than it was reopened.
CodeInv ==
    /\ pc \in [Actors -> PCs]
    /\ code \in [Codes -> CodeStatus]
    /\ redeemed \in [Codes -> Nat]
    /\ reopened \in [Codes -> Nat]
    /\ edit = NoEdit \/ edit \in [code : Codes, status : CodeStatus]
    /\ \A c \in Codes :
          /\ redeemed[c] <= 1 + reopened[c]
          /\ code[c] = "enabled" => redeemed[c] <= reopened[c]
    /\ \A r \in Redeemers : pc[r] = "commit" => code[CodeOf[r]] = "enabled"
    /\ \A r, s \in Redeemers :
          pc[r] = "commit" /\ pc[s] = "commit" /\ CodeOf[r] = CodeOf[s] => r = s

\* Every step keeps CodeInv when rows are locked.
LEMMA CodeStep ==
    ASSUME RowLocks
    PROVE  CodeInv /\ [Next]_vars => CodeInv'
<1> SUFFICES ASSUME CodeInv, [Next]_vars PROVE CodeInv'
  OBVIOUS
<1> USE RechargeAssumption DEF CodeInv, Goto, Actors, PCs
<1>1. ASSUME NEW r \in Redeemers, RedeemRead(r) PROVE CodeInv'
  BY <1>1 DEF RedeemRead, Locked, codeVars
<1>2. ASSUME NEW r \in Redeemers, RedeemCommit(r) PROVE CodeInv'
  <2>1. CASE UNCHANGED code
    BY <1>2, <2>1 DEF RedeemCommit, CodeStatus
  <2>2. CASE ~ UNCHANGED code
    BY <1>2, <2>2 DEF RedeemCommit, CodeStatus
  <2> QED BY <2>1, <2>2
<1>3. ASSUME NEW c \in Codes, EditRead(c) PROVE CodeInv'
  BY <1>3 DEF EditRead, NoEdit
<1>4. CASE EditWrite
  <2>1. edit \in [code : Codes, status : CodeStatus]
    BY <1>4 DEF EditWrite
  <2>2. \A r \in Redeemers : pc[r] = "commit" => CodeOf[r] # edit.code
    BY <1>4 DEF EditWrite, Locked
  <2> QED BY <1>4, <2>1, <2>2 DEF EditWrite, CodeStatus
<1>5. ASSUME NEW c \in Codes, DeleteRedemption(c) PROVE CodeInv'
  BY <1>5 DEF DeleteRedemption, Locked, CodeStatus
<1>6. ASSUME NEW a \in Actors, Upgrade(a) PROVE CodeInv'
  BY <1>6 DEF Upgrade, AfterUpgrade, codeVars
<1>7. ASSUME NEW a \in Actors, Regroup(a) PROVE CodeInv'
  BY <1>7 DEF Regroup, AfterUpgrade, codeVars
<1>8. ASSUME NEW k \in Callbacks,
             Notify(k) \/ LockOrder(k) \/ ReadOrder(k) \/ SaveOrder(k) \/ Credit(k) \/ UnlockOrder(k)
      PROVE  CodeInv'
  BY <1>8 DEF Notify, LockOrder, ReadOrder, SaveOrder, Credit, UnlockOrder, codeVars
<1>9. ASSUME NEW o \in Orders, CreateOrder(o) \/ Age(o) \/ Pay(o) PROVE CodeInv'
  BY <1>9 DEF CreateOrder, Age, Pay, codeVars
<1>10. CASE CloseUnfinishedOrder
  BY <1>10 DEF CloseUnfinishedOrder, codeVars
<1>11. CASE UNCHANGED vars
  BY <1>11 DEF vars, codeVars
<1> QED
  BY <1>1, <1>2, <1>3, <1>4, <1>5, <1>6, <1>7, <1>8, <1>9, <1>10, <1>11
     DEF Next, Callback, Redeem

\* On a database that locks the row a code is redeemed once per opening, for
\* any number of redeemers and of administrator edits.
THEOREM RedeemedOnceAlways ==
    ASSUME RowLocks
    PROVE  Spec => []RedeemedOnce
<1>1. Init => CodeInv
  BY RechargeAssumption DEF Init, CodeInv, PCs, Actors, CodeStatus
<1>2. CodeInv /\ [Next]_vars => CodeInv'
  BY CodeStep
<1>3. CodeInv => RedeemedOnce
  BY DEF CodeInv, RedeemedOnce
<1> QED
  BY <1>1, <1>2, <1>3, PTL DEF Spec

-----------------------------------------------------------------------------
\* Steps that leave payments, credits, codes and quota alone stutter.
LEMMA WalletStutter ==
    ASSUME UNCHANGED <<paid, credited, code, quota>>
    PROVE  UNCHANGED W!walletVars
  BY DEF W!walletVars

\* Every step of Recharge is a step of the wallet or leaves it as it is.
LEMMA WalletStep ==
    ASSUME OneProcess, RowLocks
    PROVE  CreditInv /\ CodeInv /\ [Next]_vars => [W!WalletNext]_(W!walletVars)
<1> SUFFICES ASSUME CreditInv, CodeInv, [Next]_vars PROVE [W!WalletNext]_(W!walletVars)
  OBVIOUS
<1> USE RechargeAssumption
<1>1. ASSUME NEW o \in Orders, Pay(o) PROVE W!Pay(o)
  <2>1. credited[o] = 0
    BY <1>1 DEF Pay, CreditInv, Shape, Ledger
  <2>2. UNCHANGED <<code, quota, credited>> /\ paid' = paid \cup {o} /\ o \notin paid
    BY <1>1 DEF Pay, codeVars, userVars
  <2> QED BY <2>1, <2>2 DEF W!Pay
<1>2. ASSUME NEW k \in Callbacks, Credit(k) PROVE W!SpendPayment(OrderOf[k]) \/ UNCHANGED W!walletVars
  <2>1. OrderOf[k] \in Orders /\ OrderOf[k] \in paid /\ credited[OrderOf[k]] = 0
    BY <1>2 DEF Credit, CreditInv, Knows
  <2>2. UNCHANGED <<code, paid>> /\ credited \in [Orders -> Nat]
    BY <1>2 DEF Credit, codeVars, CreditInv, Shape
  <2>3. CASE UNCHANGED <<quota, credited>>
    BY <2>2, <2>3, WalletStutter
  <2>4. CASE /\ quota' = quota + OrderQuota[OrderOf[k]]
             /\ credited' = [credited EXCEPT ![OrderOf[k]] = @ + 1]
    <3>1. credited'[OrderOf[k]] = 1 /\ \A o \in Orders : o # OrderOf[k] => credited'[o] = credited[o]
      BY <2>1, <2>2, <2>4
    <3>2. quota' = quota + OrderQuota[OrderOf[k]] /\ paid' = paid /\ code' = code
      BY <2>2, <2>4
    <3> DEFINE Payment == [o \in Orders |-> IF o \notin paid THEN "open"
                                         ELSE IF credited[o] = 0 THEN "valid" ELSE "spent"]
    <3>3. Payment[OrderOf[k]] = "valid"
      BY <2>1
    <3>4. Payment' = [Payment EXCEPT ![OrderOf[k]] = "spent"]
      <4>1. \A o \in Orders : Payment'[o] = IF o = OrderOf[k] THEN "spent" ELSE Payment[o]
        BY <2>1, <3>1, <3>2
      <4> QED BY <4>1
    <3> QED BY <3>2, <3>3, <3>4 DEF W!SpendPayment
  <2> QED BY <1>2, <2>3, <2>4 DEF Credit
<1>3. ASSUME NEW r \in Redeemers, RedeemCommit(r) PROVE W!SpendCoupon(CodeOf[r]) \/ UNCHANGED W!walletVars
  <2>1. CodeOf[r] \in Codes /\ code[CodeOf[r]] = "enabled"
    BY <1>3 DEF RedeemCommit, CodeInv
  <2>2. UNCHANGED <<paid, credited>> /\ code \in [Codes -> CodeStatus]
    BY <1>3 DEF RedeemCommit, orderVars, CodeInv
  <2>3. CASE UNCHANGED <<quota, code>>
    BY <2>2, <2>3, WalletStutter
  <2>4. CASE /\ quota' = quota + CodeQuota[CodeOf[r]]
             /\ code' = [code EXCEPT ![CodeOf[r]] = "used"]
    BY <2>1, <2>2, <2>4 DEF W!SpendCoupon
  <2> QED BY <1>3, <2>3, <2>4 DEF RedeemCommit
<1>4. ASSUME NEW c \in Codes, NEW status \in CodeStatus, UNCHANGED <<quota, paid, credited>>,
             code' = [code EXCEPT ![c] = status]
      PROVE  W!Withdraw(c) \/ W!Reissue(c) \/ UNCHANGED W!walletVars
  <2>1. code \in [Codes -> CodeStatus]
    BY DEF CodeInv
  <2>2. CASE code[c] = "enabled" /\ status # "enabled"
    BY <1>4, <2>1, <2>2 DEF W!Withdraw
  <2>3. CASE code[c] # "enabled" /\ status = "enabled"
    BY <1>4, <2>1, <2>3 DEF W!Reissue
  <2>4. CASE (code[c] = "enabled") <=> (status = "enabled")
    BY <1>4, <2>1, <2>4 DEF W!walletVars
  <2> QED BY <2>2, <2>3, <2>4
<1>5. ASSUME NEW c \in Codes, DeleteRedemption(c)
      PROVE  W!Withdraw(c) \/ W!Reissue(c) \/ UNCHANGED W!walletVars
  BY <1>4, <1>5 DEF DeleteRedemption, orderVars, userVars, CodeStatus
<1>6. CASE EditWrite
  <2>1. edit.code \in Codes /\ edit.status \in CodeStatus
    BY <1>6 DEF EditWrite, CodeInv
  <2>2. UNCHANGED <<quota, paid, credited>>
    BY <1>6 DEF EditWrite, orderVars, userVars
  <2>3. CASE UNCHANGED code
    BY <2>2, <2>3, WalletStutter
  <2>4. CASE \E status \in CodeStatus : code' = [code EXCEPT ![edit.code] = status]
    BY <1>4, <2>1, <2>2, <2>4 DEF W!WalletNext
  <2> QED BY <1>6, <2>1, <2>3, <2>4 DEF EditWrite, CodeStatus
<1>7. ASSUME UNCHANGED <<paid, credited, code, quota>> PROVE [W!WalletNext]_(W!walletVars)
  BY <1>7, WalletStutter
<1>8. ASSUME NEW o \in Orders, CreateOrder(o) \/ Age(o) PROVE UNCHANGED <<paid, credited, code, quota>>
  BY <1>8 DEF CreateOrder, Age, codeVars, userVars
<1>9. ASSUME CloseUnfinishedOrder PROVE UNCHANGED <<paid, credited, code, quota>>
  BY <1>9 DEF CloseUnfinishedOrder, codeVars, userVars
<1>10. ASSUME NEW k \in Callbacks,
              Notify(k) \/ LockOrder(k) \/ ReadOrder(k) \/ SaveOrder(k) \/ UnlockOrder(k)
       PROVE  UNCHANGED <<paid, credited, code, quota>>
  BY <1>10 DEF Notify, LockOrder, ReadOrder, SaveOrder, UnlockOrder, orderVars, codeVars, userVars
<1>11. ASSUME NEW a \in Actors, Upgrade(a) \/ Regroup(a) PROVE UNCHANGED <<paid, credited, code, quota>>
  BY <1>11 DEF Upgrade, Regroup, orderVars, codeVars
<1>12. ASSUME NEW r \in Redeemers, RedeemRead(r) PROVE UNCHANGED <<paid, credited, code, quota>>
  BY <1>12 DEF RedeemRead, orderVars, codeVars, userVars
<1>13. ASSUME NEW c \in Codes, EditRead(c) PROVE UNCHANGED <<paid, credited, code, quota>>
  BY <1>13 DEF EditRead, orderVars, userVars
<1>14. CASE UNCHANGED vars
  BY <1>7, <1>14 DEF vars, orderVars, codeVars, userVars
<1>15. OrderOf \in [Callbacks -> Orders] /\ CodeOf \in [Redeemers -> Codes]
  OBVIOUS
<1>16. ASSUME NEW k \in Callbacks, Callback(k) PROVE [W!WalletNext]_(W!walletVars)
  BY <1>2, <1>7, <1>10, <1>11, <1>15, <1>16 DEF Callback, Actors, W!WalletNext
<1>17. ASSUME NEW r \in Redeemers, Redeem(r) PROVE [W!WalletNext]_(W!walletVars)
  BY <1>3, <1>7, <1>11, <1>12, <1>15, <1>17 DEF Redeem, Actors, W!WalletNext
<1>18. ASSUME NEW o \in Orders, CreateOrder(o) \/ Age(o) \/ Pay(o) PROVE [W!WalletNext]_(W!walletVars)
  BY <1>1, <1>7, <1>8, <1>18 DEF W!WalletNext
<1>19. ASSUME NEW c \in Codes, EditRead(c) \/ DeleteRedemption(c) PROVE [W!WalletNext]_(W!walletVars)
  BY <1>5, <1>7, <1>13, <1>19 DEF W!WalletNext
<1> QED
  BY <1>6, <1>7, <1>9, <1>10, <1>14, <1>16, <1>17, <1>18, <1>19 DEF Next

\* The orders and codes of any instance implement the wallet, where the
\* notifications of an order reach one process and rows are locked.
THEOREM RechargeIsWallet ==
    ASSUME OneProcess, RowLocks
    PROVE  Spec => IsWallet
<1>1. Init => CreditInv /\ CodeInv
  BY CreditInit, RechargeAssumption DEF Init, CodeInv, PCs, Actors, CodeStatus
<1>2. CreditInv /\ CodeInv /\ [Next]_vars => (CreditInv /\ CodeInv)'
  BY CreditStep, CodeStep
<1>3. Init => W!WalletInit
  BY DEF Init, W!WalletInit
<1>4. CreditInv /\ CodeInv /\ [Next]_vars => [W!WalletNext]_(W!walletVars)
  BY WalletStep
<1> QED
  BY <1>1, <1>2, <1>3, <1>4, PTL DEF Spec, IsWallet, W!WalletSpec

-----------------------------------------------------------------------------
(* Users and their rows (Accounts), tokens and their keys (Caches). *)

StoredRows == [status : {"absent", "enabled", "disabled", "deleted"}, role : Roles,
               group : {"default", "vip"}]

Work == [who : Users \cup {0}, late : BOOLEAN, copy : Rows, whole : BOOLEAN, meant : BOOLEAN]

RowShape ==
    /\ user \in [Users -> StoredRows] /\ want \in [Users -> StoredRows]
    /\ given \in [Users -> SUBSET Roles]
    /\ session \in [Users -> Roles \cup {0}]
    /\ work \in [Handlers -> Work]

\* A handler that means no change saves what the row holds, unless the row was
\* written after it was read, and in any case a role the user was given.
Copies ==
    \A h \in Handlers :
        work[h].who # 0 /\ work[h].whole /\ ~work[h].meant =>
            /\ work[h].copy.role \in given[work[h].who]
            /\ ~work[h].late /\ Exists(work[h].who) => work[h].copy = user[work[h].who]

\* Handlers are about users who are in the table.
Held == \A h \in Handlers : work[h].who # 0 => user[work[h].who].status # "absent"

RowInv == RowShape /\ Copies /\ Held /\ DecisionsStand

-----------------------------------------------------------------------------
\* A new row has the shape of a row.
LEMMA FreshRow == ASSUME NEW role \in Roles PROVE Fresh(role) \in Rows
  BY DEF Fresh, Rows

LEMMA StoredRow == Rows \subseteq StoredRows
  BY DEF Rows, StoredRows

LEMMA LiveRow == ASSUME NEW u \in Users, user[u] \in StoredRows, Exists(u) PROVE user[u] \in Rows
  BY DEF Exists, Rows, StoredRows

\* The invariant holds of the rows the table starts with.
LEMMA RowInit == AccInit => RowInv
<1> SUFFICES ASSUME AccInit PROVE RowInv
  OBVIOUS
<1> USE AccountsAssumption
<1>1. Nothing \in Work
  BY FreshRow DEF Nothing, Work, Roles
<1>2. \A u \in Users : Fresh(Role[u]) \in StoredRows /\ [Fresh(Role[u]) EXCEPT !.status = "absent"] \in StoredRows
  BY FreshRow, StoredRow DEF Fresh, StoredRows
<1>3. user \in [Users -> StoredRows]
  BY <1>2 DEF AccInit
<1>4. RowShape
  BY <1>1, <1>3 DEF AccInit, RowShape
<1>5. \A u \in Users : user[u].role \in given[u]
  <2> SUFFICES ASSUME NEW u \in Users PROVE user[u].role \in given[u]
    OBVIOUS
  <2>1. Fresh(Role[u]).role = Role[u] /\ [Fresh(Role[u]) EXCEPT !.status = "absent"].role = Role[u]
    BY DEF Fresh
  <2> QED BY <2>1 DEF AccInit
<1>6. DecisionsStand
  BY <1>5 DEF AccInit, DecisionsStand
<1> QED
  BY <1>4, <1>6 DEF RowInv, Copies, Held, AccInit, Nothing

\* A handler that begins with the row as it is, or with one it means.
LEMMA BeginKeeps ==
    ASSUME RowInv, NEW h \in Handlers, NEW u \in Users, NEW copy \in Rows, NEW meant \in BOOLEAN,
           Begin(h, u, copy, meant), meant \/ copy = user[u],
           UNCHANGED <<user, given, want, overtaken>>, session' \in [Users -> Roles \cup {0}]
    PROVE  RowInv'
<1> USE AccountsAssumption DEF RowInv
<1> DEFINE job == [who |-> u, late |-> FALSE, copy |-> copy, whole |-> TRUE, meant |-> meant]
<1>1. job \in Work /\ work' = [work EXCEPT ![h] = job]
  BY DEF Begin, Work
<1>2. RowShape'
  BY <1>1 DEF RowShape
<1>3. DecisionsStand'
  BY DEF DecisionsStand
<1>4. copy = user[u] => copy.role \in given[u]
  BY DEF DecisionsStand
<1>5. Copies'
  BY <1>1, <1>4 DEF Copies, RowShape, Exists
<1>6. Held'
  BY <1>1 DEF Held, RowShape, Begin, Exists
<1> QED BY <1>2, <1>3, <1>5, <1>6

\* A statement that writes one row and what it is meant to be, and that marks
\* the copies of it that are under way.
LEMMA WriteKeeps ==
    ASSUME RowInv, NEW u \in Users, NEW row \in StoredRows, NEW meantRow \in StoredRows,
           user' = [user EXCEPT ![u] = row], want' = [want EXCEPT ![u] = meantRow],
           work' = [h \in Handlers |-> [work[h] EXCEPT !.late = @ \/ work[h].who = u]],
           u \notin overtaken => row = meantRow, row.role = user[u].role, row.status # "absent",
           UNCHANGED <<session, given, overtaken>>
    PROVE  RowInv'
<1> USE AccountsAssumption DEF RowInv
<1>1. \A h \in Handlers : work[h] \in Work
  BY DEF RowShape
<1>2. \A h \in Handlers :
         /\ work'[h] \in Work
         /\ work'[h].who = work[h].who /\ work'[h].whole = work[h].whole
         /\ work'[h].meant = work[h].meant /\ work'[h].copy = work[h].copy
         /\ ~work'[h].late => ~work[h].late /\ work[h].who # u
  BY <1>1 DEF Work
<1>3. RowShape'
  BY <1>2 DEF RowShape
<1>4. DecisionsStand'
  <2> SUFFICES ASSUME NEW v \in Users
               PROVE  (v \notin overtaken => user'[v] = want'[v]) /\ user'[v].role \in given[v]
    BY DEF DecisionsStand
  <2>1. CASE v = u
    BY <2>1 DEF DecisionsStand, RowShape
  <2>2. CASE v # u
    BY <2>2 DEF DecisionsStand, RowShape
  <2> QED BY <2>1, <2>2
<1>5. Copies'
  <2> SUFFICES ASSUME NEW h \in Handlers, work'[h].who # 0, work'[h].whole, ~work'[h].meant
               PROVE  /\ work'[h].copy.role \in given[work'[h].who]
                      /\ ~work'[h].late /\ Exists(work[h].who)' => work'[h].copy = user'[work'[h].who]
    BY DEF Copies
  <2>1. work[h].who \in Users /\ work[h].copy.role \in given[work[h].who]
    BY <1>1, <1>2 DEF Copies, Work
  <2>2. ASSUME ~work'[h].late, Exists(work[h].who)' PROVE work'[h].copy = user'[work'[h].who]
    <3>1. user'[work[h].who] = user[work[h].who]
      BY <1>2, <2>1, <2>2 DEF RowShape
    <3> QED BY <1>2, <2>1, <2>2, <3>1 DEF Copies, Exists
  <2> QED BY <1>2, <2>1, <2>2
<1>6. Held'
  BY <1>1, <1>2 DEF Held, RowShape, Work
<1> QED BY <1>3, <1>4, <1>5, <1>6

\* User.Update, from a copy or for fields that are not among these.
LEMMA SaveKeeps ==
    ASSUME RowInv, NEW h \in Handlers, Save(h)
    PROVE  RowInv'
<1> USE AccountsAssumption DEF RowInv
<1> DEFINE u == work[h].who
           row == IF work[h].whole THEN work[h].copy ELSE user[u]
           changed == Exists(u) /\ row # user[u]
<1>1. \A g \in Handlers : work[g] \in Work
  BY DEF RowShape
<1>2. Nothing \in Work /\ Nothing.who = 0
  BY FreshRow DEF Nothing, Work, Roles
<1>3. \A g \in Handlers :
         /\ work'[g] \in Work
         /\ work'[g].who # 0 =>
              /\ g # h
              /\ work'[g].who = work[g].who /\ work'[g].whole = work[g].whole
              /\ work'[g].meant = work[g].meant /\ work'[g].copy = work[g].copy
              /\ ~work'[g].late => ~work[g].late /\ (work[g].who = u => ~changed)
  BY <1>1, <1>2 DEF Save, Work
<1>4. u \in Users /\ row \in StoredRows /\ row.status # "absent"
  BY <1>1, StoredRow DEF Save, Free, Work, RowShape, Held, Rows
<1>5. CASE ~Exists(u)
  <2>1. UNCHANGED <<user, want, given, overtaken, session>> /\ ~changed
    BY <1>5 DEF Save
  <2>2. RowShape' /\ DecisionsStand'
    BY <1>3, <2>1 DEF RowShape, DecisionsStand, Save
  <2>3. Copies'
    BY <1>1, <1>3, <2>1 DEF Copies, Exists, Work
  <2>4. Held'
    BY <1>3, <2>1 DEF Held
  <2> QED BY <2>2, <2>3, <2>4
<1>6. CASE Exists(u)
  <2>1. /\ user' = [user EXCEPT ![u] = row]
        /\ want' = IF work[h].meant THEN [want EXCEPT ![u] = row] ELSE want
        /\ given' = IF work[h].meant THEN [given EXCEPT ![u] = @ \cup {row.role}] ELSE given
        /\ overtaken' = IF work[h].late /\ changed THEN overtaken \cup {u}
                        ELSE IF work[h].meant THEN overtaken \ {u} ELSE overtaken
        /\ UNCHANGED session
    BY <1>6 DEF Save
  <2>2. row.role \in Roles
    BY <1>4 DEF StoredRows
  <2>3. RowShape'
    BY <1>3, <1>4, <2>1, <2>2 DEF RowShape, Save
  <2>4. \A v \in Users : given[v] \subseteq given'[v]
    BY <1>4, <2>1 DEF RowShape
  <2>5. ~work[h].meant => row.role \in given[u] /\ (~work[h].late => row = user[u])
    BY <1>4, <1>6 DEF Copies, DecisionsStand, Save, Free
  <2>6. DecisionsStand'
    <3> SUFFICES ASSUME NEW v \in Users
                 PROVE  (v \notin overtaken' => user'[v] = want'[v]) /\ user'[v].role \in given'[v]
      BY DEF DecisionsStand
    <3>1. CASE v # u
      BY <1>4, <2>1, <3>1 DEF DecisionsStand, RowShape
    <3>2. CASE v = u
      <4>1. user'[u] = row
        BY <1>4, <2>1 DEF RowShape
      <4>2. row.role \in given'[u]
        BY <1>4, <2>1, <2>4, <2>5 DEF RowShape
      <4>3. CASE work[h].meant
        BY <1>4, <2>1, <4>1, <4>2, <4>3, <3>2 DEF RowShape
      <4>4. CASE ~work[h].meant
        <5>1. u \notin overtaken' => row = user[u] /\ u \notin overtaken
          BY <1>6, <2>1, <2>5, <4>4
        <5> QED BY <2>1, <3>2, <4>1, <4>2, <4>4, <5>1 DEF DecisionsStand
      <4> QED BY <4>3, <4>4
    <3> QED BY <3>1, <3>2
  <2>7. Copies'
    <3> SUFFICES ASSUME NEW g \in Handlers, work'[g].who # 0, work'[g].whole, ~work'[g].meant
                 PROVE  /\ work'[g].copy.role \in given'[work'[g].who]
                        /\ ~work'[g].late /\ Exists(work[g].who)' => work'[g].copy = user'[work'[g].who]
      BY DEF Copies
    <3>1. work[g].who \in Users /\ work[g].copy.role \in given[work[g].who]
      BY <1>1, <1>3 DEF Copies, Work
    <3>2. ASSUME ~work'[g].late, Exists(work[g].who)' PROVE work'[g].copy = user'[work'[g].who]
      <4>1. user'[work[g].who] = user[work[g].who]
        BY <1>3, <1>4, <1>6, <2>1, <3>1, <3>2 DEF RowShape
      <4> QED BY <1>3, <3>1, <3>2, <4>1 DEF Copies, Exists
    <3> QED BY <1>3, <2>4, <3>1, <3>2
  <2>8. Held'
    BY <1>3, <1>4, <2>1 DEF Held, RowShape
  <2> QED BY <2>3, <2>6, <2>7, <2>8
<1> QED BY <1>5, <1>6

\* A user who registers: nobody holds a copy of a row that was not there.
LEMMA InsertKeeps ==
    ASSUME RowInv, NEW u \in Users, NEW role \in Roles, Insert(u, role)
    PROVE  RowInv'
<1> USE AccountsAssumption DEF RowInv
<1> DEFINE row == Fresh(role)
<1>1. row \in StoredRows /\ row.role = role /\ row.status = "enabled"
  BY FreshRow, StoredRow DEF Fresh
<1>2. /\ user' = [user EXCEPT ![u] = row] /\ want' = [want EXCEPT ![u] = row]
      /\ given' = [given EXCEPT ![u] = @ \cup {role}]
      /\ UNCHANGED <<work, session, overtaken>> /\ user[u].status = "absent"
  BY DEF Insert
<1>3. RowShape'
  BY <1>1, <1>2 DEF RowShape
<1>4. DecisionsStand'
  BY <1>1, <1>2 DEF DecisionsStand, RowShape
<1>5. Copies'
  <2> SUFFICES ASSUME NEW h \in Handlers, work[h].who # 0, work[h].whole, ~work[h].meant
               PROVE  /\ work[h].copy.role \in given'[work[h].who]
                      /\ ~work[h].late /\ Exists(work[h].who)' => work[h].copy = user'[work[h].who]
    BY <1>2 DEF Copies
  <2>1. work[h].who \in Users /\ work[h].who # u
    BY <1>2 DEF Held, RowShape, Work
  <2>2. user'[work[h].who] = user[work[h].who] /\ given'[work[h].who] = given[work[h].who]
    BY <1>2, <2>1 DEF RowShape
  <2> QED BY <1>2, <2>2 DEF Copies, Exists
<1>6. Held'
  BY <1>1, <1>2 DEF Held, RowShape
<1> QED BY <1>3, <1>4, <1>5, <1>6

\* Every step keeps the invariant.
LEMMA RowStep == RowInv /\ [AccNext]_accVars => RowInv'
<1> SUFFICES ASSUME RowInv, [AccNext]_accVars PROVE RowInv'
  OBVIOUS
<1> USE AccountsAssumption
<1>1. \A u \in Users : user[u] \in StoredRows /\ want[u] \in StoredRows
  BY DEF RowInv, RowShape
<1>0. \A u \in Users : Exists(u) => user[u] \in Rows
  BY <1>1, LiveRow
<1>2. ASSUME NEW h \in Handlers, NEW u \in Users, SetupLogin(h, u) PROVE RowInv'
  <2>1. user[u].role \in Roles
    BY <1>1 DEF StoredRows
  <2> QED BY <1>0, <1>2, <2>1, BeginKeeps DEF SetupLogin, Begin, RowInv, RowShape
<1>3. ASSUME NEW h \in Handlers, NEW u \in Users, Touch(h, u) PROVE RowInv'
  BY <1>0, <1>3, BeginKeeps DEF Touch, Begin, RowInv, RowShape
<1>4. ASSUME NEW h \in Handlers, NEW u \in Users, UpdateSelf(h, u) PROVE RowInv'
  <2>1. [Nothing EXCEPT !.who = u] \in Work /\ ~[Nothing EXCEPT !.who = u].whole /\ [Nothing EXCEPT !.who = u].who = u
    BY FreshRow DEF Nothing, Work, Roles
  <2> QED BY <1>4, <2>1 DEF UpdateSelf, RowInv, RowShape, Copies, Held, DecisionsStand, Exists
<1>5. ASSUME NEW h \in Handlers, NEW a \in Users, NEW u \in Users, ManageUser(h, a, u) PROVE RowInv'
  <2>1. \A action \in {"disable", "enable", "promote", "demote", "set_reliable"} :
           Managed(a, u, action) \in Rows
    BY <1>0, <1>5 DEF ManageUser, Managed, Rows, Roles
  <2> QED BY <1>5, <2>1, BeginKeeps DEF ManageUser, RowInv, RowShape
<1>6. ASSUME NEW h \in Handlers, NEW a \in Users, NEW u \in Users, UpdateUser(h, a, u) PROVE RowInv'
  BY <1>6, BeginKeeps DEF UpdateUser, RowInv, RowShape
<1>7. ASSUME NEW a \in Users, NEW u \in Users, DeleteUser(a, u) PROVE RowInv'
  <2> DEFINE row == [user[u] EXCEPT !.status = "deleted"]
             meantRow == [want[u] EXCEPT !.status = "deleted"]
  <2>1. row \in StoredRows /\ meantRow \in StoredRows /\ row.role = user[u].role /\ row.status # "absent"
    BY <1>1 DEF StoredRows
  <2>2. user' = [user EXCEPT ![u] = row] /\ want' = [want EXCEPT ![u] = meantRow]
    BY <1>7 DEF DeleteUser, RowInv, RowShape
  <2>3. u \notin overtaken => row = meantRow
    BY DEF RowInv, DecisionsStand
  <2>4. /\ work' = [h \in Handlers |-> [work[h] EXCEPT !.late = @ \/ work[h].who = u]]
        /\ UNCHANGED <<session, given, overtaken>>
    BY <1>7 DEF DeleteUser
  <2> HIDE DEF row, meantRow
  <2> QED BY <2>1, <2>2, <2>3, <2>4, WriteKeeps
<1>8. ASSUME NEW u \in Users, UpgradeGroup(u) PROVE RowInv'
  <2> DEFINE row == [user[u] EXCEPT !.group = "vip"]
             meantRow == [want[u] EXCEPT !.group = "vip"]
  <2>1. row \in StoredRows /\ meantRow \in StoredRows /\ row.role = user[u].role /\ row.status # "absent"
    BY <1>1, <1>8 DEF UpgradeGroup, Exists, StoredRows
  <2>2. user' = [user EXCEPT ![u] = row] /\ want' = [want EXCEPT ![u] = meantRow]
    BY <1>8 DEF UpgradeGroup, RowInv, RowShape
  <2>3. u \notin overtaken => row = meantRow
    BY DEF RowInv, DecisionsStand
  <2>4. /\ work' = [h \in Handlers |-> [work[h] EXCEPT !.late = @ \/ work[h].who = u]]
        /\ UNCHANGED <<session, given, overtaken>>
    BY <1>8 DEF UpgradeGroup
  <2> HIDE DEF row, meantRow
  <2> QED BY <2>1, <2>2, <2>3, <2>4, WriteKeeps
<1>9. ASSUME NEW u \in Users, Logout(u) PROVE RowInv'
  BY <1>9 DEF Logout, RowInv, RowShape, Copies, Held, DecisionsStand, Exists
<1>10. CASE UNCHANGED accVars
  BY <1>10 DEF accVars, RowInv, RowShape, Copies, Held, DecisionsStand, Exists
<1>11. ASSUME NEW h \in Handlers, NEW u \in Users, SignIn(h, u) PROVE RowInv'
  BY <1>2, <1>11, InsertKeeps
     DEF SignIn, Login, GitHubOAuth, LarkOAuth, OIDCAuth, WeChatAuth, OAuth2Auth, WebauthnFinishLogin, Roles
<1>12. ASSUME NEW h \in Handlers, NEW u \in Users, OwnRow(h, u) PROVE RowInv'
  BY <1>3, <1>12 DEF OwnRow, EmailBind, GenerateAccessToken, GetAffCode, GitHubBind, LarkBind, WeChatBind,
              OAuth2Bind
<1>13. ASSUME NEW u \in Users, Register(u) \/ \E a \in Users : CreateUser(a, u) PROVE RowInv'
  BY <1>13, InsertKeeps DEF Register, CreateUser, Roles
<1> QED
  BY <1>4, <1>5, <1>6, <1>7, <1>8, <1>9, <1>10, <1>11, <1>12, <1>13, SaveKeeps DEF AccNext

\* For any users and any handlers at once: a status, role or group differs from
\* the last decision only for a user saved from an outdated copy, and no user
\* has a role he was never given.
THEOREM DecisionsStandAlways == AccSpec => []DecisionsStand
<1>1. AccInit => RowInv
  BY RowInit
<1>2. RowInv /\ [AccNext]_accVars => RowInv'
  BY RowStep
<1>3. RowInv => DecisionsStand
  BY DEF RowInv
<1> QED
  BY <1>1, <1>2, <1>3, PTL DEF AccSpec

-----------------------------------------------------------------------------
(* The key of a token *)

TokenInv ==
    /\ table = [k \in Keys |-> table[k]] /\ key = [k \in Keys |-> key[k]]
    /\ TokenFresh

\* What Set leaves in the key of a token is marked when it is out of date.
LEMMA TokenStep == TokenInv /\ [CachesNext]_cacheVars => TokenInv'
<1> SUFFICES ASSUME TokenInv, [CachesNext]_cacheVars PROVE TokenInv'
  OBVIOUS
<1> USE DEF TokenInv, Keys, TokenFresh, Missing
<1>1. ASSUME NEW n \in CacheNodes, NEW k \in Keys, Load(n, k) PROVE TokenInv'
  BY <1>1 DEF Load
<1>2. ASSUME NEW n \in CacheNodes, NEW k \in Keys, Fill(n, k) PROVE TokenInv'
  <2> DEFINE value == loading[n][k][1]
  <2>1. /\ key' = [key EXCEPT ![k] = <<value, TRUE>>] /\ UNCHANGED <<table, purging>>
        /\ crossed' = IF k = "token" THEN value # table[k] ELSE crossed
    BY <1>2 DEF Fill, Set
  <2> HIDE DEF value
  <2> QED BY <2>1
<1>3. ASSUME NEW k \in Keys, Expire(k) \/ Purge(k) PROVE TokenInv'
  BY <1>3 DEF Expire, Purge
<1>4. ASSUME NEW n \in CacheNodes, Grant(n) PROVE TokenInv'
  BY <1>4 DEF Grant
<1>5. ASSUME NEW n \in CacheNodes, Decrease(n) PROVE TokenInv'
  BY <1>5 DEF Decrease
<1>6. ASSUME NEW n \in CacheNodes, SettleDraw(n) PROVE TokenInv'
  BY <1>6 DEF SettleDraw
<1>7. CASE EditToken
  BY <1>7 DEF EditToken, Edit, Enabled, Disabled, Gone
<1>8. CASE EditQuota
  BY <1>8 DEF EditQuota, Edit
<1>9. CASE EditUser
  <2>1. PICK status : table' = [table EXCEPT !["user"] = status]
    BY <1>9 DEF EditUser, Edit
  <2>2. UNCHANGED <<key, purging, crossed>>
    BY <1>9 DEF EditUser, Edit
  <2> QED BY <2>1, <2>2
<1>10. CASE UNCHANGED cacheVars
  BY <1>10 DEF cacheVars
<1> QED
  BY <1>1, <1>2, <1>3, <1>4, <1>5, <1>6, <1>7, <1>8, <1>9, <1>10 DEF CachesNext, CacheSteps

\* For any number of processes a token's key agrees with its row, but while an
\* update is under way and after a load that crossed one.
THEOREM TokenFreshAlways == CachesSpec => []TokenFresh
<1>1. CachesInit => TokenInv
  BY DEF CachesInit, TokenInv, TokenFresh, Missing, Keys
<1>2. TokenInv /\ [CachesNext]_cacheVars => TokenInv'
  BY TokenStep
<1>3. TokenInv => TokenFresh
  BY DEF TokenInv
<1> QED
  BY <1>1, <1>2, <1>3, PTL DEF CachesSpec
=============================================================================
