---------------------------- MODULE QuotaProofs ----------------------------
(***************************************************************************)
(* Proofs about Quota, for every set of attempts, tokens, jobs and usages  *)
(* and for every setting of RedisEnabled and BatchUpdateEnabled.  The last *)
(* part is about sums over the attempts, of which it asks that they are    *)
(* finitely many (FiniteAttempts).                                         *)
(***************************************************************************)
EXTENDS MCQuota, FiniteSums

-----------------------------------------------------------------------------
\* The arithmetic: what is reserved and what is billed are natural numbers.

\* The product of two natural numbers is one (stated once for the provers).
LEMMA ProductNat == \A m, n \in Nat : m * n \in Nat
OBVIOUS

\* Rounding a natural number down (int()) or up (math.Ceil) to whole quota
\* gives a natural number.
LEMMA QuotientNat ==
    \A n \in Nat : n \div RatioUnit \in Nat /\ CeilDiv(n, RatioUnit) \in Nat
BY QuotaMathAssumption DEF CeilDiv

\* The ratios NewQuota computes are never negative, whatever price is stored.
LEMMA RatioNat ==
    ASSUME NEW j \in Job
    PROVE  InputRatio(j) \in Nat /\ OutputRatio(j) \in Nat
<1>1. GetInput(j.price) \in Nat /\ GetOutput(j.price) \in Nat
  BY DEF Job, Price, GetInput, GetOutput
<1>2. j.groupRatio \in Nat
  BY DEF Job
<1>. QED
  BY <1>1, <1>2, ProductNat DEF InputRatio, OutputRatio

\* PreQuotaConsumption never reserves a negative amount.
LEMMA PreConsumeNat ==
    ASSUME NEW j \in Job
    PROVE  PreConsume(j) \in Nat
<1>1. InputRatio(j) \in Nat
  BY RatioNat
<1>2. j.promptTokens \in Nat
  BY DEF Job
<1>3. 1000 * InputRatio(j) \in Nat /\ j.promptTokens * InputRatio(j) \in Nat
  BY <1>1, <1>2, ProductNat
<1>4. /\ (1000 * InputRatio(j)) \div RatioUnit \in Nat
      /\ (j.promptTokens * InputRatio(j)) \div RatioUnit \in Nat
  BY <1>3, QuotientNat
<1>. QED
  BY <1>4, QuotaMathAssumption DEF PreConsume

\* A bill is never negative, even when the tokens of a cheap key outweigh the
\* prompt: a priced request costs at least 1.
LEMMA BillNat ==
    ASSUME NEW j \in Job, NEW u \in Usage
    PROVE  GetTotalQuotaByUsage(j, u) \in Nat
<1> DEFINE p == ComputePromptTokens(u)
           c == u.completionTokens
           ir == InputRatio(j)
           or == OutputRatio(j)
           n == p * ir + c * or
           times == (1000 * ir) \div RatioUnit
<1>1. ir \in Nat /\ or \in Nat
  BY RatioNat
<1>2. c \in Nat /\ u.extraBilling \in Nat /\ j.groupRatio \in Nat
  BY DEF Usage, Job
<1>3. p \in Int
  <2>1. /\ u.promptTokens \in Nat
        /\ u.extraTokens * (u.extraRatio - RatioUnit) \in Int
    BY QuotaMathAssumption DEF Usage
  <2>2. \A m \in Int : Trunc(m, RatioUnit) \in Int
    BY QuotaMathAssumption DEF Trunc
  <2>. QED
    BY <2>1, <2>2 DEF ComputePromptTokens, GetIncreaseTokens
<1>4. times \in Nat
  <2>1. 1000 * ir \in Nat
    BY <1>1, ProductNat
  <2>. QED
    BY <2>1, QuotientNat
<1>5. u.extraBilling * j.groupRatio \in Nat
  BY <1>2, ProductNat
<1>6. n \in Int /\ CeilDiv(n, RatioUnit) \in Int
  <2>1. p * ir \in Int /\ c * or \in Int
    BY <1>1, <1>2, <1>3
  <2>2. \A m \in Int : CeilDiv(m, RatioUnit) \in Int
    BY QuotaMathAssumption DEF CeilDiv
  <2>. QED
    BY <2>1, <2>2
<1>7. ir = 0 => CeilDiv(n, RatioUnit) \in Nat
  <2>1. ir = 0 => p * ir = 0
    BY <1>3
  <2>2. c * or \in Nat
    BY <1>1, <1>2, ProductNat
  <2>3. ir = 0 => n \in Nat
    BY <2>1, <2>2
  <2>. QED
    BY <2>3, QuotientNat
<1> DEFINE base == IF j.price.type = "times" THEN times ELSE CeilDiv(n, RatioUnit)
           billed == base + u.extraBilling * j.groupRatio
<1>8. base \in Int /\ (ir = 0 => base \in Nat)
  BY <1>4, <1>6, <1>7
<1> HIDE DEF base
<1>9. billed \in Int /\ (ir = 0 => billed \in Nat)
  BY <1>5, <1>8
<1>10. GetTotalQuotaByUsage(j, u) =
          IF p + c = 0 THEN 0
          ELSE IF ir # 0 /\ billed <= 0 THEN 1 ELSE billed
  BY DEF GetTotalQuotaByUsage, GetTotalQuota, base
<1> HIDE DEF billed, ir, p, c
<1>. QED
  BY <1>1, <1>9, <1>10

-----------------------------------------------------------------------------
\* Type correctness.

\* The vocabulary of labels and counters the steps below draw from.
LEMMA CountersFacts ==
    /\ Columns \subseteq Counters /\ Tokens \subseteq Counters
    /\ {"quota", "used", "count", "channel"} \subseteq Counters
    /\ \A a \in Attempts : TokenOf[a] \in Counters
    /\ \A a \in Attempts : TokenOf[a] # "quota"
BY QuotaAssumption DEF Counters, Columns

\* The initial state is well typed.
LEMMA InitTypeOK == Init => TypeOK
<1> SUFFICES ASSUME Init PROVE TypeOK
  OBVIOUS
<1>1. InitCounters \in [Counters -> Int] /\ Zero \in [Counters -> Int]
  BY QuotaAssumption DEF InitCounters, Zero
<1>2. NoEntry \in Entry
  BY DEF NoEntry, Entry
<1>3. NoJob \in Job
  BY DEF NoJob, Job, Price
<1>4. NotLogged \in Int
  BY DEF NotLogged
<1>5. "idle" \in PCs
  BY DEF PCs
<1>. QED
  BY <1>1, <1>2, <1>3, <1>4, <1>5, QuotaAssumption DEF Init, TypeOK

\* Every step of the reservation keeps the types.
LEMMA ReserveTypeOK ==
    ASSUME TypeOK, NEW a \in Attempts, Reserve(a)
    PROVE  TypeOK'
<1> USE CountersFacts, QuotaAssumption
        DEF TypeOK, vars, counters, batch, local, environment, nets, Goto,
            Fails, NoError, Write, WriteFails, WriteUser, WriteToken, PCs, Over
<1>1. CASE Begin(a)
  <2>1. PICK j \in Jobs : /\ job' = [job EXCEPT ![a] = j]
                          /\ pre' = [pre EXCEPT ![a] = PreConsume(j)]
    BY <1>1 DEF Begin
  <2>2. j \in Job /\ PreConsume(j) \in Nat
    BY PreConsumeNat
  <2>3. pc' \in [Attempts -> PCs]
    BY <1>1 DEF Begin
  <2>. QED
    BY <1>1, <2>1, <2>2, <2>3 DEF Begin
<1>2. CASE GetQuotaHit(a)
  BY <1>2 DEF GetQuotaHit, AfterRead, Entry
<1>3. CASE GetQuotaRow(a)
  BY <1>3 DEF GetQuotaRow, AfterRead
<1>4. CASE FillCache(a)
  BY <1>4 DEF FillCache, AfterRead, Entry
<1>5. CASE DecrCache(a)
  BY <1>5 DEF DecrCache, Decrease, Entry
<1>6. CASE ReadToken(a)
  BY <1>6 DEF ReadToken
<1>7. CASE ReadUser(a)
  BY <1>7 DEF ReadUser
<1>8. CASE PreToken(a)
  BY <1>8 DEF PreToken
<1>9. CASE PreUser(a)
  <2>1. handel' \in [Attempts -> BOOLEAN]
    BY <1>9 DEF PreUser
  <2>2. CASE WriteUser(a, pre[a]) /\ Goto(a, "sending") /\ NoError
    BY <1>9, <2>1, <2>2 DEF PreUser
  <2>3. CASE WriteFails(a, "rejected")
    BY <1>9, <2>1, <2>3 DEF PreUser
  <2>. QED
    BY <1>9, <2>2, <2>3 DEF PreUser
<1>. QED
  BY <1>1, <1>2, <1>3, <1>4, <1>5, <1>6, <1>7, <1>8, <1>9 DEF Reserve

\* Every step after the reservation keeps the types.
LEMMA SettleTypeOK ==
    ASSUME TypeOK, NEW a \in Attempts, Settle(a)
    PROVE  TypeOK'
<1> USE CountersFacts, QuotaAssumption
        DEF TypeOK, vars, counters, batch, local, environment, nets, Goto,
            Fails, NoError, Write, WriteFails, WriteUser, WriteToken, PCs, Over
<1>1. CASE SendFails(a)
  BY <1>1 DEF SendFails
<1>2. CASE SendSucceeds(a)
  <2>1. PICK u \in Usages :
          /\ bill' = [bill EXCEPT ![a] = GetTotalQuotaByUsage(job[a], u)]
          /\ pc' = [pc EXCEPT ![a] = AfterSend(GetTotalQuotaByUsage(job[a], u), pre[a])]
    BY <1>2 DEF SendSucceeds
  <2>2. GetTotalQuotaByUsage(job[a], u) \in Nat
    BY BillNat
  <2>3. pc' \in [Attempts -> PCs]
    BY <2>1 DEF AfterSend
  <2>. QED
    BY <1>2, <2>1, <2>2, <2>3 DEF SendSucceeds
<1>3. CASE UndoUser(a)
  BY <1>3 DEF UndoUser
<1>4. CASE UndoToken(a)
  BY <1>4 DEF UndoToken
<1>5. CASE PostUser(a)
  BY <1>5 DEF PostUser, QuotaDelta
<1>6. CASE PostToken(a)
  BY <1>6 DEF PostToken, QuotaDelta
<1>7. CASE CacheRead(a)
  BY <1>7 DEF CacheRead
<1>8. CASE CacheSet(a)
  BY <1>8 DEF CacheSet, Entry
<1>9. CASE ChannelUsed(a)
  BY <1>9 DEF ChannelUsed
<1>10. CASE RecordLog(a)
  BY <1>10 DEF RecordLog
<1>11. CASE UpdateUsed(a)
  BY <1>11 DEF UpdateUsed
<1>12. CASE UpdateCount(a)
  BY <1>12 DEF UpdateCount
<1>. QED
  BY <1>1, <1>2, <1>3, <1>4, <1>5, <1>6, <1>7, <1>8, <1>9, <1>10, <1>11,
     <1>12 DEF Settle

\* So do the batch updater and the surroundings.
LEMMA BatchTypeOK ==
    ASSUME TypeOK, Batch \/ Environment
    PROVE  TypeOK'
<1> USE CountersFacts, QuotaAssumption
        DEF TypeOK, vars, counters, batch, local, environment, nets, attempts
<1>1. ASSUME NEW i \in 1..5, BatchSwap(i) PROVE TypeOK'
  <2>1. BatchTypes[i] \subseteq Counters
    BY DEF BatchTypes
  <2>. QED
    BY <1>1, <2>1 DEF BatchSwap
<1>2. ASSUME NEW c \in Counters, BatchApply(c) PROVE TypeOK'
  BY <1>2 DEF BatchApply
<1>3. CASE BatchSleep
  BY <1>3 DEF BatchSleep
<1>4. CASE CacheExpires
  BY <1>4 DEF CacheExpires, NoEntry, Entry
<1>5. CASE ChangeQuotaRow
  BY <1>5 DEF ChangeQuotaRow
<1>6. CASE ChangeQuotaDelete
  BY <1>6 DEF ChangeQuotaDelete, NoEntry, Entry
<1>. QED
  BY <1>1, <1>2, <1>3, <1>4, <1>5, <1>6 DEF Batch, Environment

\* Every reachable state of the billing is well typed; in particular no
\* reservation and no bill is ever negative.
THEOREM TypeCorrect == Spec => []TypeOK
<1>1. TypeOK /\ [Next]_vars => TypeOK'
  <2> SUFFICES ASSUME TypeOK, [Next]_vars PROVE TypeOK'
    OBVIOUS
  <2>1. CASE Next
    BY <2>1, ReserveTypeOK, SettleTypeOK, BatchTypeOK DEF Next
  <2>2. CASE UNCHANGED vars
    BY <2>2 DEF TypeOK, vars, counters, batch, local, environment, nets
  <2>. QED
    BY <2>1, <2>2
<1>. QED
  BY InitTypeOK, <1>1, PTL DEF Spec

-----------------------------------------------------------------------------
\* The books of one attempt.

\* What the attempt's token owes when the user owes x.
TokenPart(a, x) == IF TokenOf[a] \in Unlimited THEN 0 ELSE x

\* What a successful attempt keeps: its bill, or its reservation when the
\* bill is 0.
KeptOf(a) == IF bill[a] > 0 THEN bill[a] ELSE pre[a]

\* The user and the token have been charged x for attempt a.
Charged(a, x) == userNet[a] = x /\ tokenNet[a] = TokenPart(a, x)

\* The inductive invariant: at each label, what the attempt has taken so far.
\* An error moves an attempt only to the labels that end it, or past a write
\* that is not part of its charge.
Books(a) ==
    /\ pc[a] \in {"idle", "getQuota", "fillCache", "decrCache", "readToken",
                  "readUser", "preToken", "refused"} => Charged(a, 0)
    /\ pc[a] \in {"preToken", "undoToken", "postToken"}
          => TokenOf[a] \notin Unlimited
    /\ pc[a] = "preUser" => userNet[a] = 0 /\ tokenNet[a] = TokenPart(a, pre[a])
    /\ pc[a] \in {"sending", "undoUser", "postUser"} => Charged(a, pre[a])
    /\ pc[a] = "sending" /\ ~handel[a] => pre[a] = 0
    /\ pc[a] = "undoToken" => userNet[a] = 0 /\ tokenNet[a] = pre[a]
    /\ pc[a] = "postToken" => userNet[a] = bill[a] /\ tokenNet[a] = pre[a]
    /\ pc[a] \in {"postUser", "postToken", "cacheRead", "cacheSet", "channel"}
          => bill[a] > 0
    /\ pc[a] \in {"cacheRead", "cacheSet", "channel"} => Charged(a, bill[a])
    /\ pc[a] \in {"log", "used", "count", "done"} => Charged(a, KeptOf(a))
    /\ pc[a] \in {"rejected", "failed"} /\ a \notin failed => Charged(a, 0)
    /\ pc[a] = "aborted" => a \in failed
    /\ userNet[a] >= 0 /\ tokenNet[a] >= 0

BooksInv == \A a \in Attempts : Books(a)

\* The books depend on the attempt's own variables only.
LEMMA BooksFrame ==
    ASSUME NEW b \in Attempts, Books(b), pc'[b] = pc[b], pre'[b] = pre[b],
           handel'[b] = handel[b], bill'[b] = bill[b], userNet'[b] = userNet[b],
           tokenNet'[b] = tokenNet[b], b \in failed' <=> b \in failed
    PROVE  Books(b)'
BY DEF Books, Charged, TokenPart, KeptOf

\* A step of attempt a leaves the variables of every other attempt alone.
LEMMA OthersUntouched ==
    ASSUME TypeOK, NEW a \in Attempts, Reserve(a) \/ Settle(a),
           NEW b \in Attempts, b # a
    PROVE  /\ pc'[b] = pc[b] /\ pre'[b] = pre[b] /\ handel'[b] = handel[b]
           /\ bill'[b] = bill[b] /\ userNet'[b] = userNet[b]
           /\ tokenNet'[b] = tokenNet[b] /\ (b \in failed' <=> b \in failed)
<1> USE DEF TypeOK, local, nets, Goto, Fails, NoError, WriteFails, WriteUser,
            WriteToken
<1>1. CASE Reserve(a)
  BY <1>1 DEF Reserve, Begin, GetQuotaHit, GetQuotaRow, FillCache, DecrCache,
              ReadToken, ReadUser, PreToken, PreUser
<1>2. CASE Settle(a)
  BY <1>2 DEF Settle, SendFails, SendSucceeds, UndoUser, UndoToken, PostUser,
              PostToken, CacheRead, CacheSet, ChannelUsed, RecordLog,
              UpdateUsed, UpdateCount
<1>. QED
  BY <1>1, <1>2

\* A step of the reservation keeps the attempt's own books.
LEMMA ReserveBooks ==
    ASSUME TypeOK, NEW a \in Attempts, Books(a), Reserve(a)
    PROVE  Books(a)'
<1> USE DEF TypeOK, local, nets, Goto, Fails, NoError, WriteFails, WriteUser,
            WriteToken, Limited, Books, Charged, TokenPart, KeptOf
<1>1. CASE Begin(a)
  <2>1. PICK j \in Jobs :
          /\ pre' = [pre EXCEPT ![a] = PreConsume(j)]
          /\ Goto(a, IF PreConsume(j) = 0 THEN "sending" ELSE "getQuota")
    BY <1>1 DEF Begin
  <2>2. PreConsume(j) \in Nat
    BY PreConsumeNat, QuotaAssumption
  <2>. QED
    BY <1>1, <2>1, <2>2 DEF Begin
<1>2. CASE GetQuotaHit(a)
  BY <1>2 DEF GetQuotaHit, AfterRead
<1>3. CASE GetQuotaRow(a)
  BY <1>3 DEF GetQuotaRow, AfterRead
<1>4. CASE FillCache(a)
  BY <1>4 DEF FillCache, AfterRead
<1>5. CASE DecrCache(a)
  BY <1>5 DEF DecrCache
<1>6. CASE ReadToken(a)
  BY <1>6 DEF ReadToken
<1>7. CASE ReadUser(a)
  BY <1>7 DEF ReadUser
<1>8. CASE PreToken(a)
  BY <1>8 DEF PreToken
<1>9. CASE PreUser(a)
  BY <1>9 DEF PreUser
<1>. QED
  BY <1>1, <1>2, <1>3, <1>4, <1>5, <1>6, <1>7, <1>8, <1>9 DEF Reserve

\* So does every step after it.
LEMMA SettleBooks ==
    ASSUME TypeOK, NEW a \in Attempts, Books(a), Settle(a)
    PROVE  Books(a)'
<1> USE DEF TypeOK, local, nets, Goto, Fails, NoError, WriteFails, WriteUser,
            WriteToken, Limited, Books, Charged, TokenPart, KeptOf
<1>12. CASE SendSucceeds(a)
  <2>1. PICK u \in Usages :
          /\ bill' = [bill EXCEPT ![a] = GetTotalQuotaByUsage(job[a], u)]
          /\ Goto(a, AfterSend(GetTotalQuotaByUsage(job[a], u), pre[a]))
    BY <1>12 DEF SendSucceeds
  <2>2. GetTotalQuotaByUsage(job[a], u) \in Nat
    BY BillNat, QuotaAssumption
  <2>. QED
    BY <1>12, <2>1, <2>2 DEF SendSucceeds, AfterSend
<1>1. CASE SendFails(a)
  BY <1>1 DEF SendFails
<1>2. CASE UndoUser(a)
  BY <1>2 DEF UndoUser
<1>3. CASE UndoToken(a)
  BY <1>3 DEF UndoToken
<1>4. CASE PostUser(a)
  BY <1>4 DEF PostUser, QuotaDelta
<1>5. CASE PostToken(a)
  BY <1>5 DEF PostToken, QuotaDelta
<1>6. CASE CacheRead(a)
  BY <1>6 DEF CacheRead
<1>7. CASE CacheSet(a)
  BY <1>7 DEF CacheSet
<1>8. CASE ChannelUsed(a)
  BY <1>8 DEF ChannelUsed
<1>9. CASE RecordLog(a)
  BY <1>9 DEF RecordLog
<1>10. CASE UpdateUsed(a)
  BY <1>10 DEF UpdateUsed
<1>11. CASE UpdateCount(a)
  BY <1>11 DEF UpdateCount
<1>. QED
  BY <1>1, <1>2, <1>3, <1>4, <1>5, <1>6, <1>7, <1>8, <1>9, <1>10, <1>11,
     <1>12 DEF Settle

\* The batch updater and the surroundings touch no attempt.
LEMMA AttemptsUntouched ==
    ASSUME Batch \/ Environment
    PROVE  UNCHANGED <<pc, pre, handel, bill, failed, userNet, tokenNet>>
BY DEF Batch, Environment, BatchSwap, BatchApply, BatchSleep, CacheExpires,
       ChangeQuotaRow, ChangeQuotaDelete, attempts, local, nets

\* The books of every attempt are in order in every reachable state.
LEMMA BooksInvariant == Spec => []BooksInv
<1>1. Init => BooksInv
  <2> SUFFICES ASSUME Init, NEW a \in Attempts PROVE Books(a)
    BY DEF BooksInv
  <2>. QED
    BY DEF Init, Books, Charged, TokenPart
<1>2. TypeOK /\ BooksInv /\ [Next]_vars => BooksInv'
  <2> SUFFICES ASSUME TypeOK, BooksInv, [Next]_vars, NEW b \in Attempts
               PROVE  Books(b)'
    BY DEF BooksInv
  <2>1. Books(b)
    BY DEF BooksInv
  <2>2. ASSUME NEW a \in Attempts, Reserve(a) \/ Settle(a) PROVE Books(b)'
    <3>1. CASE a = b
      BY <2>1, <2>2, <3>1, ReserveBooks, SettleBooks
    <3>2. CASE a # b
      BY <2>1, <2>2, <3>2, OthersUntouched, BooksFrame
    <3>. QED
      BY <3>1, <3>2
  <2>3. CASE Batch \/ Environment
    BY <2>1, <2>3, AttemptsUntouched, BooksFrame
  <2>4. CASE UNCHANGED vars
    BY <2>1, <2>4, BooksFrame DEF vars, local, nets
  <2>. QED
    BY <2>2, <2>3, <2>4 DEF Next
<1>. QED
  BY <1>1, <1>2, TypeCorrect, PTL DEF Spec

\* A finished attempt that met no error took its bill from the user, and a
\* refused or failed one took nothing, in every interleaving.
THEOREM BillSettledAlways == Spec => []BillSettled
<1>1. BooksInv /\ TypeOK => BillSettled
  BY DEF BooksInv, Books, Charged, KeptOf, BillSettled, Over, TypeOK
<1>. QED
  BY <1>1, BooksInvariant, TypeCorrect, PTL

\* The token's books follow the user's in every interleaving.
THEOREM TokenFollowsUserAlways == Spec => []TokenFollowsUser
<1>1. BooksInv /\ TypeOK => TokenFollowsUser
  <2> SUFFICES ASSUME BooksInv, TypeOK, NEW a \in Attempts \ failed
               PROVE  IF TokenOf[a] \in Unlimited THEN tokenNet[a] = 0
                      ELSE tokenNet[a] - userNet[a] =
                             CASE pc[a] = "preUser" -> pre[a]
                               [] pc[a] = "undoToken" -> pre[a]
                               [] pc[a] = "postToken" -> pre[a] - bill[a]
                               [] OTHER -> 0
    BY DEF TokenFollowsUser
  <2>1. Books(a)
    BY DEF BooksInv
  <2>2. pc[a] \in PCs /\ pre[a] \in Nat /\ bill[a] \in Nat
        /\ userNet[a] \in Int /\ tokenNet[a] \in Int
    BY DEF TypeOK
  <2>. QED
    BY <2>1, <2>2 DEF Books, Charged, TokenPart, KeptOf, PCs, Over
<1>. QED
  BY <1>1, BooksInvariant, TypeCorrect, PTL

\* No attempt ever leaves the user or the token richer than before it, with
\* or without database errors.
THEOREM NoCreditAlways == Spec => []NoCreditFromNothing
<1>1. BooksInv => NoCreditFromNothing
  BY DEF BooksInv, Books, NoCreditFromNothing
<1>. QED
  BY <1>1, BooksInvariant, PTL

-----------------------------------------------------------------------------
\* The batch updater.

\* Inductive: the sum itself, and that nothing lies in the flush but under
\* the keys still to be applied (the next swap overwrites the rest).
BatchInv ==
    /\ BatchConserves
    /\ \A c \in Counters : c \notin keys => flush[c] = 0

\* One counter's share of the sum.
Balanced(c) ==
    db[c] + store[c] + flush[c] + lost[c] = InitCounters[c] + issued[c]

\* Where a counter starts is a number.
LEMMA InitCountersType == \A c \in Counters : InitCounters[c] \in Int
BY QuotaAssumption DEF InitCounters

\* The writes of an attempt add the same amount on both sides of the sum.
LEMMA AttemptsConserve ==
    ASSUME TypeOK, NEW a \in Attempts, Reserve(a) \/ Settle(a), BatchInv
    PROVE  BatchInv'
<1>1. UNCHANGED <<flush, keys, lost>>
  BY DEF Reserve, Settle, Begin, GetQuotaHit, GetQuotaRow, FillCache,
         DecrCache, ReadToken, ReadUser, PreToken, PreUser, SendFails,
         SendSucceeds, UndoUser, UndoToken, PostUser, PostToken, CacheRead,
         CacheSet, ChannelUsed, RecordLog, UpdateUsed, UpdateCount, batch
<1>2. \/ UNCHANGED counters
      \/ \E c \in Counters, d \in Int : Write(c, d)
      \/ UpdateUsed(a) /\ ~BatchUpdateEnabled
  <2> USE CountersFacts DEF TypeOK
  <2>1. CASE Reserve(a)
    BY <2>1 DEF Reserve, Begin, GetQuotaHit, GetQuotaRow, FillCache,
                DecrCache, ReadToken, ReadUser, PreToken, PreUser, WriteUser,
                WriteToken, WriteFails
  <2>2. CASE Settle(a)
    BY <2>2 DEF Settle, SendFails, SendSucceeds, UndoUser, UndoToken,
                PostUser, PostToken, CacheRead, CacheSet, ChannelUsed,
                RecordLog, UpdateUsed, UpdateCount, WriteUser, WriteToken,
                WriteFails, QuotaDelta
  <2>. QED
    BY <2>1, <2>2
<1>3. CASE UNCHANGED counters
  BY <1>1, <1>3 DEF BatchInv, BatchConserves, counters
<1>4. ASSUME NEW c \in Counters, NEW d \in Int, Write(c, d)
      PROVE  BatchInv'
  <2> SUFFICES ASSUME NEW e \in Counters PROVE Balanced(e)'
    BY <1>1 DEF BatchInv, BatchConserves, Balanced
  <2>1. Balanced(e)
    BY DEF BatchInv, BatchConserves, Balanced
  <2>2. \/ db'[e] = db[e] /\ store'[e] = store[e] /\ issued'[e] = issued[e]
        \/ db'[e] = db[e] + d /\ store'[e] = store[e] /\ issued'[e] = issued[e] + d
        \/ db'[e] = db[e] /\ store'[e] = store[e] + d /\ issued'[e] = issued[e] + d
    BY <1>4 DEF Write, TypeOK
  <2>. QED
    BY <1>1, <2>1, <2>2, InitCountersType DEF Balanced, TypeOK
<1>5. CASE UpdateUsed(a) /\ ~BatchUpdateEnabled
  <2> SUFFICES ASSUME NEW e \in Counters PROVE Balanced(e)'
    BY <1>1 DEF BatchInv, BatchConserves, Balanced
  <2>1. Balanced(e)
    BY DEF BatchInv, BatchConserves, Balanced
  <2>2. /\ store'[e] = store[e]
        /\ \E d \in Int : db'[e] = db[e] + d /\ issued'[e] = issued[e] + d
    <3>1. CASE UNCHANGED counters
      BY <3>1 DEF counters, TypeOK
    <3>2. CASE /\ UNCHANGED store
               /\ db' = [db EXCEPT !["used"] = @ + bill[a], !["count"] = @ + 1]
               /\ issued' = [issued EXCEPT !["used"] = @ + bill[a],
                                           !["count"] = @ + 1]
      <4>1. CASE e = "used"
        BY <3>2, <4>1, CountersFacts DEF TypeOK
      <4>2. CASE e = "count"
        BY <3>2, <4>2, CountersFacts DEF TypeOK
      <4>3. CASE e \notin {"used", "count"}
        BY <3>2, <4>3, CountersFacts DEF TypeOK
      <4>. QED
        BY <4>1, <4>2, <4>3
    <3>. QED
      BY <1>5, <3>1, <3>2 DEF UpdateUsed
  <2>. QED
    BY <1>1, <2>1, <2>2, InitCountersType DEF Balanced, TypeOK
<1>. QED
  BY <1>2, <1>3, <1>4, <1>5

\* The updater moves amounts from one term of the sum to another.
LEMMA UpdaterConserves ==
    ASSUME TypeOK, Batch, BatchInv
    PROVE  BatchInv'
<1> USE DEF TypeOK, BatchInv, BatchConserves, counters
<1>1. ASSUME NEW i \in 1..5, BatchSwap(i) PROVE BatchInv'
  <2>1. /\ keys = {} /\ keys' = {c \in BatchTypes[i] : store[c] # 0}
        /\ flush' = [c \in Counters |-> IF c \in BatchTypes[i] THEN store[c]
                                        ELSE flush[c]]
        /\ store' = [c \in Counters |-> IF c \in BatchTypes[i] THEN 0
                                        ELSE store[c]]
        /\ UNCHANGED <<db, issued, lost>>
    BY <1>1 DEF BatchSwap
  <2>. QED
    BY <2>1
<1>2. ASSUME NEW c \in Counters, BatchApply(c) PROVE BatchInv'
  BY <1>2 DEF BatchApply
<1>3. CASE BatchSleep
  BY <1>3 DEF BatchSleep
<1>. QED
  BY <1>1, <1>2, <1>3 DEF Batch

\* The surroundings write the row directly.
LEMMA EnvironmentConserves ==
    ASSUME TypeOK, Environment, BatchInv
    PROVE  BatchInv'
<1>1. UNCHANGED <<store, flush, keys, lost>>
  BY DEF Environment, CacheExpires, ChangeQuotaRow, ChangeQuotaDelete,
         counters, batch
<1>2. CASE ChangeQuotaRow
  <2> SUFFICES ASSUME NEW e \in Counters PROVE Balanced(e)'
    BY <1>1 DEF BatchInv, BatchConserves, Balanced
  <2>1. Balanced(e)
    BY DEF BatchInv, BatchConserves, Balanced
  <2>2. PICK n \in TopUps : /\ db' = [db EXCEPT !["quota"] = @ + n]
                            /\ issued' = [issued EXCEPT !["quota"] = @ + n]
    BY <1>2 DEF ChangeQuotaRow
  <2>3. \E d \in Int : db'[e] = db[e] + d /\ issued'[e] = issued[e] + d
    <3>1. CASE e = "quota"
      BY <2>2, <3>1, QuotaAssumption DEF TypeOK
    <3>2. CASE e # "quota"
      BY <2>2, <3>2 DEF TypeOK
    <3>. QED
      BY <3>1, <3>2
  <2>. QED
    BY <1>1, <2>1, <2>3, InitCountersType DEF Balanced, TypeOK
<1>3. CASE CacheExpires \/ ChangeQuotaDelete
  BY <1>1, <1>3
     DEF CacheExpires, ChangeQuotaDelete, BatchInv, BatchConserves, counters
<1>. QED
  BY <1>2, <1>3 DEF Environment

LEMMA BatchInvariant == Spec => []BatchInv
<1>1. Init => BatchInv
  BY QuotaAssumption
     DEF Init, BatchInv, BatchConserves, InitCounters, Zero
<1>2. TypeOK /\ BatchInv /\ [Next]_vars => BatchInv'
  <2> SUFFICES ASSUME TypeOK, BatchInv, [Next]_vars PROVE BatchInv'
    OBVIOUS
  <2>1. CASE UNCHANGED vars
    BY <2>1 DEF BatchInv, BatchConserves, vars, counters, batch
  <2>. QED
    BY <2>1, AttemptsConserve, UpdaterConserves, EnvironmentConserves DEF Next
<1>. QED
  BY <1>1, <1>2, TypeCorrect, PTL DEF Spec

\* The batch updater neither loses nor repeats a record, whatever is added
\* while it works.
THEOREM BatchConservesAlways == Spec => []BatchConserves
<1>1. BatchInv => BatchConserves
  BY DEF BatchInv
<1>. QED
  BY <1>1, BatchInvariant, PTL

-----------------------------------------------------------------------------
\* The books of all attempts together.

\* The library's sum over the attempts is one of FiniteSums.
LEMMA SumTotals ==
    ASSUME IsFiniteSet(Attempts), NEW f, \A a \in Attempts : f[a] \in Int
    PROVE  Totals(Sum(f), f, Attempts)
<1> DEFINE unfold(g) == [s \in SUBSET Attempts |->
                          IF s = {} THEN 0
                          ELSE LET x == CHOOSE x \in s : TRUE IN f[x] + g[s \ {x}]]
           iter == CHOOSE g : g = unfold(g)
<1>1. Sum(f) = iter[Attempts]
  BY DEF Sum, MapThenSumSet, MapThenFoldSet
<1>2. PICK h \in [SUBSET Attempts -> Int] : Sums(h, f, Attempts)
  BY SumExists
<1>3. h = unfold(h)
  <2>1. \A s \in SUBSET Attempts : h[s] = unfold(h)[s]
    BY <1>2 DEF Sums, Taken
  <2>2. unfold(h) = [s \in SUBSET Attempts |-> unfold(h)[s]] /\ h = [s \in SUBSET Attempts |-> h[s]]
    BY <1>2
  <2> HIDE DEF unfold
  <2> QED BY <2>1, <2>2
<1>4. iter = unfold(iter)
  <2> HIDE DEF unfold
  <2> QED BY <1>3, Zenon
<1>5. Sums(iter, f, Attempts)
  <2> HIDE DEF iter
  <2>1. ASSUME NEW s \in SUBSET Attempts
        PROVE  iter[s] = IF s = {} THEN 0 ELSE f[Taken(s)] + iter[s \ {Taken(s)}]
    <3>1. iter[s] = unfold(iter)[s]
      BY <1>4
    <3> QED BY <3>1 DEF Taken
  <2> QED BY <2>1 DEF Sums
<1>6. IntSums(h, Attempts)
  BY <1>2 DEF IntSums
<1> HIDE DEF iter
<1>7. iter[Attempts] = h[Attempts]
  BY <1>2, <1>5, <1>6, SumUnique
<1> QED BY <1>1, <1>2, <1>7 DEF Totals

\* A total is the sum.
LEMMA TotalIsSum ==
    ASSUME IsFiniteSet(Attempts), NEW f, \A a \in Attempts : f[a] \in Int, NEW n, Totals(n, f, Attempts)
    PROVE  n = Sum(f)
<1>1. PICK g \in [SUBSET Attempts -> Int] : Sums(g, f, Attempts) /\ n = g[Attempts]
  BY DEF Totals
<1>2. PICK k \in [SUBSET Attempts -> Int] : Sums(k, f, Attempts) /\ Sum(f) = k[Attempts]
  BY SumTotals DEF Totals
<1>3. IntSums(g, Attempts)
  BY DEF IntSums
<1> QED BY <1>1, <1>2, <1>3, SumUnique

\* A step of one attempt moves a total as it moves the attempt's own part.
LEMMA TotalMoves ==
    ASSUME IsFiniteSet(Attempts), NEW a \in Attempts, NEW f, NEW g, NEW m \in Int, NEW n \in Int,
           \A b \in Attempts : f[b] \in Int /\ g[b] \in Int,
           \A b \in Attempts \ {a} : g[b] = f[b],
           n - m = g[a] - f[a], Totals(m, f, Attempts)
    PROVE  Totals(n, g, Attempts)
<1> DEFINE d == g[a] - f[a]
<1>1. d \in Int /\ n = m + d
  OBVIOUS
<1>2. \A b \in Attempts : g[b] = f[b] + (IF b = a THEN d ELSE 0)
  OBVIOUS
<1> HIDE DEF d
<1>3. Shifted(f, g, a, d, Attempts)
  BY <1>2 DEF Shifted
<1> QED BY <1>1, <1>3, SumMoves

\* What an attempt has added to each column, by the label it has reached; what
\* it has taken from token t; and whether it is done.
UsedBy == [a \in Attempts |-> IF pc[a] \in {"count", "done"} THEN bill[a] ELSE 0]
ChannelBy == [a \in Attempts |-> IF pc[a] \in {"log", "used", "count", "done"} THEN bill[a] ELSE 0]
CountBy == [a \in Attempts |-> IF pc[a] = "done" THEN 1 ELSE 0]
TokenBy == [t \in Tokens |-> [a \in Attempts |-> IF TokenOf[a] = t THEN tokenNet[a] ELSE 0]]

\* An attempt's log entry, by its label.
LoggedAs(a) ==
    logged[a] = IF pc[a] \in {"used", "count", "done"} THEN bill[a] ELSE NotLogged

\* What was asked of each counter is what the attempts have taken and added, and
\* what the administrator has; the last three as long as no error let an attempt
\* skip a write.
LedgerInv ==
    /\ Totals(added - issued["quota"], userNet, Attempts)
    /\ \A t \in Tokens : Totals(-issued[t], TokenBy[t], Attempts)
    /\ fails = 0 =>
          /\ Totals(issued["used"], UsedBy, Attempts)
          /\ Totals(issued["channel"], ChannelBy, Attempts)
          /\ Totals(issued["count"], CountBy, Attempts)
          /\ \A a \in Attempts : LoggedAs(a)
          /\ \A c \in Counters : lost[c] = 0
          /\ failed = {}

\* One attempt's step: each counter is asked for what the attempt records.
Posts(a) ==
    /\ issued'["quota"] + userNet'[a] = issued["quota"] + userNet[a]
    /\ issued'[TokenOf[a]] + tokenNet'[a] = issued[TokenOf[a]] + tokenNet[a]
    /\ \A t \in Tokens \ {TokenOf[a]} : issued'[t] = issued[t]

Records(a) ==
    /\ issued'["used"] - UsedBy'[a] = issued["used"] - UsedBy[a]
    /\ issued'["channel"] - ChannelBy'[a] = issued["channel"] - ChannelBy[a]
    /\ issued'["count"] - CountBy'[a] = issued["count"] - CountBy[a]
    /\ LoggedAs(a) => LoggedAs(a)'
    /\ failed' = failed


\* Tokens are not columns.
LEMMA CountersApart ==
    /\ \A t \in Tokens : t \in Counters /\ t \notin {"quota", "used", "count", "channel"}
    /\ \A a \in Attempts : TokenOf[a] \in Tokens
    /\ {"quota", "used", "count", "channel"} \subseteq Counters
BY QuotaAssumption DEF Counters, Columns

\* What a write does to what was asked of the counters.
LEMMA Written ==
    ASSUME TypeOK, NEW c \in Counters, NEW d \in Int, Write(c, d)
    PROVE  \A e \in Counters : issued'[e] = issued[e] + (IF e = c THEN d ELSE 0)
BY DEF Write, TypeOK

LEMMA ColumnWritten ==
    ASSUME TypeOK, NEW c \in {"used", "count", "channel"}, NEW d \in Int, Write(c, d)
    PROVE  /\ issued'[c] = issued[c] + d
           /\ \A e \in Counters \ {c} : issued'[e] = issued[e]
           /\ \A e \in {"quota"} \cup Tokens : issued'[e] = issued[e]
<1>1. c \in Counters /\ \A e \in {"quota"} \cup Tokens : e \in Counters /\ e # c
  BY CountersApart
<1>2. \A e \in Counters : issued[e] \in Int
  BY DEF TypeOK
<1>3. \A e \in Counters : issued'[e] = issued[e] + (IF e = c THEN d ELSE 0)
  BY <1>1, Written
<1> QED BY <1>1, <1>2, <1>3

LEMMA UserWritten ==
    ASSUME TypeOK, NEW a \in Attempts, NEW d \in Int, WriteUser(a, d)
    PROVE  /\ Posts(a)
           /\ \A c \in Counters \ {"quota"} : issued'[c] = issued[c]
<1>1. /\ \A e \in Counters : issued'[e] = issued[e] + (IF e = "quota" THEN -d ELSE 0)
      /\ userNet'[a] = userNet[a] + d /\ tokenNet'[a] = tokenNet[a]
  <2>1. "quota" \in Counters /\ -d \in Int /\ Write("quota", -d)
    BY CountersApart DEF WriteUser
  <2>2. userNet'[a] = userNet[a] + d /\ tokenNet'[a] = tokenNet[a]
    BY DEF WriteUser, TypeOK
  <2> QED BY <2>1, <2>2, Written
<1>2. userNet[a] \in Int /\ tokenNet[a] \in Int /\ \A c \in Counters : issued[c] \in Int
  BY DEF TypeOK
<1> QED BY <1>1, <1>2, CountersApart DEF Posts

LEMMA TokenWritten ==
    ASSUME TypeOK, NEW a \in Attempts, NEW d \in Int, WriteToken(a, d)
    PROVE  /\ Posts(a)
           /\ \A c \in Counters \ {TokenOf[a]} : issued'[c] = issued[c]
<1>1. /\ \A e \in Counters : issued'[e] = issued[e] + (IF e = TokenOf[a] THEN -d ELSE 0)
      /\ tokenNet'[a] = tokenNet[a] + d /\ userNet'[a] = userNet[a]
  <2>1. TokenOf[a] \in Counters /\ -d \in Int /\ Write(TokenOf[a], -d)
    BY CountersApart DEF WriteToken
  <2>2. tokenNet'[a] = tokenNet[a] + d /\ userNet'[a] = userNet[a]
    BY DEF WriteToken, TypeOK
  <2> QED BY <2>1, <2>2, Written
<1>2. userNet[a] \in Int /\ tokenNet[a] \in Int /\ \A c \in Counters : issued[c] \in Int
  BY DEF TypeOK
<1> QED BY <1>1, <1>2, CountersApart DEF Posts

\* A write of neither.
LEMMA NothingWritten ==
    ASSUME TypeOK, NEW a \in Attempts, UNCHANGED nets,
           \A c \in {"quota"} \cup Tokens : issued'[c] = issued[c]
    PROVE  Posts(a)
BY CountersApart DEF Posts, nets

\* The reservation posts to the user and to the token and records nothing.
LEMMA ReservePosts ==
    ASSUME TypeOK, NEW a \in Attempts, Reserve(a)
    PROVE  /\ Posts(a) /\ logged' = logged /\ bill' = bill /\ added' = added /\ lost' = lost
           /\ \A c \in {"used", "channel", "count"} : issued'[c] = issued[c]
           /\ (failed' = failed /\ fails' = fails) \/ fails' = fails + 1
<1> USE DEF local, environment, batch, Goto, Fails, NoError
<1>1. logged' = logged /\ bill' = bill /\ added' = added /\ lost' = lost
  BY DEF Reserve, Begin, GetQuotaHit, GetQuotaRow, FillCache, DecrCache, ReadToken, ReadUser,
         PreToken, PreUser
<1>2. (failed' = failed /\ fails' = fails) \/ fails' = fails + 1
  BY DEF Reserve, Begin, GetQuotaHit, GetQuotaRow, FillCache, DecrCache, ReadToken, ReadUser,
         PreToken, PreUser, WriteFails
<1>3. \/ UNCHANGED <<counters, nets>>
      \/ WriteUser(a, pre[a])
      \/ WriteToken(a, pre[a])
  BY DEF Reserve, Begin, GetQuotaHit, GetQuotaRow, FillCache, DecrCache, ReadToken, ReadUser,
         PreToken, PreUser, WriteFails
<1>4. pre[a] \in Int
  BY DEF TypeOK
<1>5. Posts(a) /\ \A c \in {"used", "channel", "count"} : issued'[c] = issued[c]
  <2>1. CASE UNCHANGED <<counters, nets>>
    BY <2>1, NothingWritten DEF counters
  <2>2. CASE WriteUser(a, pre[a])
    BY <1>4, <2>2, UserWritten, CountersApart
  <2>3. CASE WriteToken(a, pre[a])
    BY <1>4, <2>3, TokenWritten, CountersApart
  <2> QED BY <1>3, <2>1, <2>2, <2>3
<1> QED BY <1>1, <1>2, <1>5

\* So does the settlement, which also records the bill.
LEMMA SettlePosts ==
    ASSUME TypeOK, NEW a \in Attempts, Settle(a)
    PROVE  /\ Posts(a) /\ added' = added /\ lost' = lost
           /\ (failed' = failed /\ fails' = fails) \/ fails' = fails + 1
<1> USE DEF local, environment, batch, Goto, Fails, NoError
<1>1. added' = added /\ lost' = lost
  BY DEF Settle, SendFails, SendSucceeds, UndoUser, UndoToken, PostUser, PostToken, CacheRead,
         CacheSet, ChannelUsed, RecordLog, UpdateUsed, UpdateCount
<1>2. (failed' = failed /\ fails' = fails) \/ fails' = fails + 1
  BY DEF Settle, SendFails, SendSucceeds, UndoUser, UndoToken, PostUser, PostToken, CacheRead,
         CacheSet, ChannelUsed, RecordLog, UpdateUsed, UpdateCount, WriteFails
<1>3. \/ UNCHANGED <<counters, nets>>
      \/ \E d \in {-pre[a], QuotaDelta(a)} : WriteUser(a, d) \/ WriteToken(a, d)
      \/ /\ UNCHANGED nets
         /\ ChannelUsed(a) \/ UpdateUsed(a) \/ UpdateCount(a)
  BY DEF Settle, SendFails, SendSucceeds, UndoUser, UndoToken, PostUser, PostToken, CacheRead,
         CacheSet, ChannelUsed, RecordLog, UpdateUsed, UpdateCount, WriteFails
<1>4. -pre[a] \in Int /\ QuotaDelta(a) \in Int /\ bill[a] \in Int
  BY DEF TypeOK, QuotaDelta
<1>5. CASE UNCHANGED <<counters, nets>>
  <2>1. Posts(a)
    BY <1>5, NothingWritten DEF counters
  <2> QED BY <1>1, <1>2, <2>1
<1>6. CASE \E d \in {-pre[a], QuotaDelta(a)} : WriteUser(a, d) \/ WriteToken(a, d)
  <2>1. PICK d \in {-pre[a], QuotaDelta(a)} : WriteUser(a, d) \/ WriteToken(a, d)
    BY <1>6
  <2>2. d \in Int
    BY <1>4
  <2>3. Posts(a)
    BY <2>1, <2>2, UserWritten, TokenWritten
  <2> QED BY <1>1, <1>2, <2>3
<1>7. CASE UNCHANGED nets /\ (ChannelUsed(a) \/ UpdateUsed(a) \/ UpdateCount(a))
  <2>1. \A c \in {"quota"} \cup Tokens : issued'[c] = issued[c]
    <3>1. CASE ChannelUsed(a)
      <4>1. CASE Write("channel", bill[a])
        BY <1>4, <4>1, ColumnWritten
      <4>2. CASE UNCHANGED counters
        BY <4>2 DEF counters
      <4> QED BY <3>1, <4>1, <4>2 DEF ChannelUsed
    <3>2. CASE UpdateUsed(a)
      <4>1. CASE Write("used", bill[a])
        BY <1>4, <4>1, ColumnWritten
      <4>2. CASE issued' = [issued EXCEPT !["used"] = @ + bill[a], !["count"] = @ + 1]
        BY <4>2, CountersApart DEF TypeOK
      <4> QED BY <3>2, <4>1, <4>2 DEF UpdateUsed, counters
    <3>3. CASE UpdateCount(a)
      <4>1. Write("count", 1)
        BY <3>3 DEF UpdateCount
      <4> QED BY <4>1, ColumnWritten
    <3> QED BY <1>7, <3>1, <3>2, <3>3
  <2>2. Posts(a)
    BY <1>7, <2>1, NothingWritten
  <2> QED BY <1>1, <1>2, <2>2
<1> QED BY <1>3, <1>5, <1>6, <1>7


\* The columns and the log at each label, for one attempt.
LEMMA PartsOf ==
    ASSUME NEW a \in Attempts
    PROVE  /\ UsedBy[a] = IF pc[a] \in {"count", "done"} THEN bill[a] ELSE 0
           /\ ChannelBy[a] = IF pc[a] \in {"log", "used", "count", "done"} THEN bill[a] ELSE 0
           /\ CountBy[a] = IF pc[a] = "done" THEN 1 ELSE 0
           /\ UsedBy'[a] = IF pc'[a] \in {"count", "done"} THEN bill'[a] ELSE 0
           /\ ChannelBy'[a] = IF pc'[a] \in {"log", "used", "count", "done"} THEN bill'[a] ELSE 0
           /\ CountBy'[a] = IF pc'[a] = "done" THEN 1 ELSE 0
BY DEF UsedBy, ChannelBy, CountBy

\* Before the bill is known nothing is recorded.
Early == {"idle", "getQuota", "fillCache", "decrCache", "readToken", "readUser", "preToken",
          "preUser", "sending", "undoUser", "undoToken", "postUser", "postToken", "cacheRead",
          "cacheSet", "channel", "failed", "refused", "rejected", "aborted"}

LEMMA EarlyRecords ==
    ASSUME NEW a \in Attempts, pc[a] \in Early, pc'[a] \in Early, logged' = logged, failed' = failed,
           \A c \in {"used", "channel", "count"} : issued'[c] = issued[c]
    PROVE  Records(a)
<1>1. /\ UsedBy[a] = 0 /\ ChannelBy[a] = 0 /\ CountBy[a] = 0
      /\ UsedBy'[a] = 0 /\ ChannelBy'[a] = 0 /\ CountBy'[a] = 0
  BY PartsOf DEF Early
<1>2. LoggedAs(a) => LoggedAs(a)'
  BY DEF LoggedAs, Early
<1> QED BY <1>1, <1>2 DEF Records

LEMMA ReserveRecords ==
    ASSUME TypeOK, NEW a \in Attempts, Reserve(a), fails' = 0
    PROVE  Records(a)
<1>1. pc[a] \in Early /\ pc'[a] \in Early
  BY DEF Early, TypeOK, Reserve, Begin, GetQuotaHit, GetQuotaRow, FillCache, DecrCache, ReadToken,
         ReadUser, PreToken, PreUser, Goto, Fails, WriteFails, AfterRead
<1>2. logged' = logged /\ failed' = failed /\ \A c \in {"used", "channel", "count"} : issued'[c] = issued[c]
  BY ReservePosts DEF TypeOK
<1> QED BY <1>1, <1>2, EarlyRecords

LEMMA SettleRecords ==
    ASSUME TypeOK, NEW a \in Attempts, Settle(a), fails' = 0
    PROVE  Records(a)
<1>0. /\ bill[a] \in Nat /\ pre[a] \in Nat /\ \A c \in Counters : issued[c] \in Int
      /\ fails \in Nat /\ fails' # fails + 1 /\ pc \in [Attempts -> PCs]
  BY DEF TypeOK
<1>1. failed' = failed
  BY <1>0, SettlePosts
<1>2. CASE SendFails(a) \/ UndoUser(a) \/ UndoToken(a) \/ PostUser(a) \/ PostToken(a) \/ CacheRead(a) \/ CacheSet(a)
  <2>1. pc[a] \in Early /\ pc'[a] \in Early
    BY <1>0, <1>2 DEF Early, SendFails, UndoUser, UndoToken, PostUser, PostToken, CacheRead, CacheSet, Goto,
                      Fails, WriteFails
  <2>2. logged' = logged
    BY <1>2 DEF SendFails, UndoUser, UndoToken, PostUser, PostToken, CacheRead, CacheSet
  <2>3. \/ UNCHANGED counters
        \/ \E d \in {-pre[a], QuotaDelta(a)} : WriteUser(a, d) \/ WriteToken(a, d)
    BY <1>0, <1>2 DEF SendFails, UndoUser, UndoToken, PostUser, PostToken, CacheRead, CacheSet, WriteFails
  <2>4. \A c \in {"used", "channel", "count"} : issued'[c] = issued[c]
    <3>1. \A d \in {-pre[a], QuotaDelta(a)} : d \in Int
      BY <1>0 DEF QuotaDelta
    <3>2. CASE UNCHANGED counters
      BY <3>2 DEF counters
    <3>3. ASSUME NEW d \in {-pre[a], QuotaDelta(a)}, WriteUser(a, d) \/ WriteToken(a, d)
          PROVE  \A c \in {"used", "channel", "count"} : issued'[c] = issued[c]
      BY <3>1, <3>3, UserWritten, TokenWritten, CountersApart
    <3> QED BY <2>3, <3>2, <3>3
  <2> QED BY <1>1, <2>1, <2>2, <2>4, EarlyRecords
<1>3. CASE SendSucceeds(a)
  <2>1. PICK u \in Usages :
          /\ bill' = [bill EXCEPT ![a] = GetTotalQuotaByUsage(job[a], u)]
          /\ Goto(a, AfterSend(GetTotalQuotaByUsage(job[a], u), pre[a]))
    BY <1>3 DEF SendSucceeds
  <2>2. GetTotalQuotaByUsage(job[a], u) \in Nat
    BY BillNat, QuotaAssumption DEF TypeOK
  <2>3. bill'[a] \in Nat /\ pc'[a] \in {"cacheRead", "postUser", "log"} /\ (pc'[a] = "log" => bill'[a] = 0)
    BY <1>0, <2>1, <2>2 DEF Goto, AfterSend, TypeOK
  <2>4. pc[a] = "sending" /\ UNCHANGED <<counters, logged>>
    BY <1>3 DEF SendSucceeds
  <2>5. /\ UsedBy[a] = 0 /\ ChannelBy[a] = 0 /\ CountBy[a] = 0
        /\ UsedBy'[a] = 0 /\ ChannelBy'[a] = 0 /\ CountBy'[a] = 0
    BY <2>3, <2>4, PartsOf
  <2>6. LoggedAs(a) => LoggedAs(a)'
    BY <2>3, <2>4 DEF LoggedAs
  <2> QED BY <1>1, <2>4, <2>5, <2>6 DEF Records, counters
<1>4. CASE ChannelUsed(a)
  <2>1. pc[a] = "channel" /\ pc'[a] = "log" /\ bill' = bill /\ logged' = logged /\ Write("channel", bill[a])
    BY <1>0, <1>4 DEF ChannelUsed, Goto, Fails, local
  <2>2. issued'["channel"] = issued["channel"] + bill[a] /\ issued'["used"] = issued["used"]
        /\ issued'["count"] = issued["count"]
    BY <1>0, <2>1, ColumnWritten, CountersApart
  <2>3. /\ UsedBy[a] = 0 /\ ChannelBy[a] = 0 /\ CountBy[a] = 0
        /\ UsedBy'[a] = 0 /\ ChannelBy'[a] = bill[a] /\ CountBy'[a] = 0
    BY <2>1, PartsOf
  <2>4. LoggedAs(a) => LoggedAs(a)'
    BY <2>1 DEF LoggedAs
  <2>5. issued["channel"] \in Int
    BY <1>0, CountersApart
  <2> QED BY <1>0, <1>1, <2>2, <2>3, <2>4, <2>5 DEF Records
<1>5. CASE RecordLog(a)
  <2>1. /\ pc[a] = "log" /\ pc'[a] = "used" /\ bill' = bill /\ logged' = [logged EXCEPT ![a] = bill[a]]
        /\ issued' = issued
    BY <1>0, <1>5 DEF RecordLog, Goto, Fails, local, counters
  <2>2. /\ UsedBy[a] = 0 /\ ChannelBy[a] = bill[a] /\ CountBy[a] = 0
        /\ UsedBy'[a] = 0 /\ ChannelBy'[a] = bill[a] /\ CountBy'[a] = 0
    BY <2>1, PartsOf
  <2>3. LoggedAs(a)'
    BY <2>1 DEF LoggedAs, TypeOK
  <2> QED BY <1>1, <2>1, <2>2, <2>3 DEF Records
<1>6. CASE UpdateUsed(a)
  <2>1. pc[a] = "used" /\ bill' = bill /\ logged' = logged
    BY <1>6 DEF UpdateUsed, local
  <2>2. \/ /\ pc'[a] = "done"
           /\ issued' = [issued EXCEPT !["used"] = @ + bill[a], !["count"] = @ + 1]
        \/ pc'[a] = "count" /\ Write("used", bill[a])
    BY <1>0, <1>6 DEF UpdateUsed, Goto, Fails
  <2>3. LoggedAs(a) => LoggedAs(a)'
    BY <2>1, <2>2 DEF LoggedAs
  <2>4. UsedBy[a] = 0 /\ ChannelBy[a] = bill[a] /\ CountBy[a] = 0
    BY <2>1, PartsOf
  <2>5. issued["used"] \in Int /\ issued["count"] \in Int /\ DOMAIN issued = Counters
    BY <1>0, CountersApart DEF TypeOK
  <2>6. CASE pc'[a] = "done" /\ issued' = [issued EXCEPT !["used"] = @ + bill[a], !["count"] = @ + 1]
    <3>1. issued'["used"] = issued["used"] + bill[a] /\ issued'["count"] = issued["count"] + 1
          /\ issued'["channel"] = issued["channel"]
      BY <2>5, <2>6, CountersApart
    <3>2. UsedBy'[a] = bill[a] /\ ChannelBy'[a] = bill[a] /\ CountBy'[a] = 1
      BY <2>1, <2>6, PartsOf
    <3> QED BY <1>0, <1>1, <2>3, <2>4, <2>5, <3>1, <3>2 DEF Records
  <2>7. CASE pc'[a] = "count" /\ Write("used", bill[a])
    <3>1. issued'["used"] = issued["used"] + bill[a] /\ issued'["count"] = issued["count"]
          /\ issued'["channel"] = issued["channel"]
      BY <1>0, <2>7, ColumnWritten, CountersApart
    <3>2. UsedBy'[a] = bill[a] /\ ChannelBy'[a] = bill[a] /\ CountBy'[a] = 0
      BY <2>1, <2>7, PartsOf
    <3> QED BY <1>0, <1>1, <2>3, <2>4, <2>5, <3>1, <3>2 DEF Records
  <2> QED BY <2>2, <2>6, <2>7
<1>7. CASE UpdateCount(a)
  <2>1. pc[a] = "count" /\ pc'[a] = "done" /\ bill' = bill /\ logged' = logged /\ Write("count", 1)
    BY <1>0, <1>7 DEF UpdateCount, local, Goto
  <2>2. issued'["count"] = issued["count"] + 1 /\ issued'["used"] = issued["used"]
        /\ issued'["channel"] = issued["channel"] /\ issued["count"] \in Int
    BY <1>0, <2>1, ColumnWritten, CountersApart
  <2>3. /\ UsedBy[a] = bill[a] /\ ChannelBy[a] = bill[a] /\ CountBy[a] = 0
        /\ UsedBy'[a] = bill[a] /\ ChannelBy'[a] = bill[a] /\ CountBy'[a] = 1
    BY <2>1, PartsOf
  <2>4. LoggedAs(a) => LoggedAs(a)'
    BY <2>1 DEF LoggedAs
  <2> QED BY <1>1, <2>2, <2>3, <2>4 DEF Records
<1> QED BY <1>2, <1>3, <1>4, <1>5, <1>6, <1>7 DEF Settle


LEMMA TotalZero ==
    ASSUME NEW f, \A a \in Attempts : f[a] = 0
    PROVE  Totals(0, f, Attempts)
<1> DEFINE g == [s \in SUBSET Attempts |-> 0]
<1>1. \A s \in SUBSET Attempts : s # {} => f[Taken(s)] = 0 /\ s \ {Taken(s)} \in SUBSET Attempts
  BY TakenIn
<1>2. Sums(g, f, Attempts)
  BY <1>1 DEF Sums
<1>3. g \in [SUBSET Attempts -> Int] /\ g[Attempts] = 0
  OBVIOUS
<1> QED BY <1>2, <1>3 DEF Totals

\* f gives every attempt a number.
Typed(f) == \A a \in Attempts : f[a] \in Int

LEMMA PartsTyped ==
    ASSUME TypeOK
    PROVE  \A a \in Attempts :
              /\ userNet[a] \in Int /\ UsedBy[a] \in Int /\ ChannelBy[a] \in Int /\ CountBy[a] \in Int
              /\ \A t \in Tokens : TokenBy[t][a] \in Int
BY DEF TypeOK, UsedBy, ChannelBy, CountBy, TokenBy

LEMMA IssuedTyped ==
    ASSUME TypeOK
    PROVE  /\ added \in Int /\ added - issued["quota"] \in Int
           /\ issued["quota"] \in Int /\ issued["used"] \in Int /\ issued["channel"] \in Int
           /\ issued["count"] \in Int
           /\ \A t \in Tokens : issued[t] \in Int /\ -issued[t] \in Int
BY CountersApart DEF TypeOK

LEMMA LedgerInvInit == Init => LedgerInv
<1> SUFFICES ASSUME Init PROVE LedgerInv
  OBVIOUS
<1>1. \A c \in Counters : issued[c] = 0 /\ lost[c] = 0
  BY DEF Init, Zero
<1>2. /\ added - issued["quota"] = 0 /\ issued["used"] = 0 /\ issued["channel"] = 0 /\ issued["count"] = 0
      /\ \A t \in Tokens : -issued[t] = 0
  BY <1>1, CountersApart DEF Init
<1>3. \A a \in Attempts : /\ userNet[a] = 0 /\ UsedBy[a] = 0 /\ ChannelBy[a] = 0 /\ CountBy[a] = 0
                          /\ \A t \in Tokens : TokenBy[t][a] = 0
  BY DEF Init, UsedBy, ChannelBy, CountBy, TokenBy
<1>4. \A a \in Attempts : LoggedAs(a)
  BY DEF Init, LoggedAs
<1>5. /\ Totals(0, userNet, Attempts) /\ Totals(0, UsedBy, Attempts) /\ Totals(0, ChannelBy, Attempts)
      /\ Totals(0, CountBy, Attempts) /\ \A t \in Tokens : Totals(0, TokenBy[t], Attempts)
  BY <1>3, TotalZero
<1>6. failed = {}
  BY DEF Init
<1> QED BY <1>1, <1>2, <1>4, <1>5, <1>6 DEF LedgerInv

\* One attempt's step moves every total by the attempt's part.
LEMMA AttemptLedger ==
    ASSUME IsFiniteSet(Attempts), TypeOK, TypeOK', LedgerInv, NEW a \in Attempts, Reserve(a) \/ Settle(a)
    PROVE  LedgerInv'
<1>1. /\ Posts(a) /\ added' = added /\ lost' = lost
      /\ (failed' = failed /\ fails' = fails) \/ fails' = fails + 1
  BY ReservePosts, SettlePosts
<1>2. fails' = 0 => fails = 0 /\ Records(a)
  BY <1>1, ReserveRecords, SettleRecords DEF TypeOK
<1>3. \A b \in Attempts \ {a} :
         /\ userNet'[b] = userNet[b] /\ UsedBy'[b] = UsedBy[b] /\ ChannelBy'[b] = ChannelBy[b]
         /\ CountBy'[b] = CountBy[b] /\ \A t \in Tokens : TokenBy'[t][b] = TokenBy[t][b]
  BY OthersUntouched DEF UsedBy, ChannelBy, CountBy, TokenBy
<1>4. \A b \in Attempts \ {a} : logged'[b] = logged[b] /\ pc'[b] = pc[b] /\ bill'[b] = bill[b]
  <2>1. logged' = logged \/ logged' = [logged EXCEPT ![a] = bill[a]]
    BY DEF Reserve, Begin, GetQuotaHit, GetQuotaRow, FillCache, DecrCache, ReadToken, ReadUser, PreToken,
           PreUser, Settle, SendFails, SendSucceeds, UndoUser, UndoToken, PostUser, PostToken, CacheRead,
           CacheSet, ChannelUsed, RecordLog, UpdateUsed, UpdateCount
  <2> QED BY <2>1, OthersUntouched DEF TypeOK
<1>5. /\ Typed(userNet) /\ Typed(userNet') /\ Typed(UsedBy) /\ Typed(UsedBy')
      /\ Typed(ChannelBy) /\ Typed(ChannelBy') /\ Typed(CountBy) /\ Typed(CountBy')
      /\ \A t \in Tokens : Typed(TokenBy[t]) /\ Typed(TokenBy'[t])
  BY DEF Typed, TypeOK, UsedBy, ChannelBy, CountBy, TokenBy
<1>6. /\ added \in Int /\ \A c \in {"quota", "used", "channel", "count"} : issued[c] \in Int /\ issued'[c] \in Int
      /\ \A t \in Tokens : issued[t] \in Int /\ issued'[t] \in Int
  BY CountersApart DEF TypeOK
<1>7. Totals(added' - issued'["quota"], userNet', Attempts)
  <2> DEFINE m == added - issued["quota"]
             n == added' - issued'["quota"]
  <2>1. m \in Int /\ n \in Int /\ n - m = userNet'[a] - userNet[a]
    <3>1. issued'["quota"] + userNet'[a] = issued["quota"] + userNet[a]
      BY <1>1 DEF Posts
    <3> QED BY <1>1, <1>5, <1>6, <3>1 DEF Typed
  <2>2. Totals(m, userNet, Attempts)
    BY DEF LedgerInv
  <2> HIDE DEF m, n
  <2>3. Totals(n, userNet', Attempts)
    BY <1>3, <1>5, <2>1, <2>2, TotalMoves DEF Typed
  <2> QED BY <2>3 DEF n
<1>8. ASSUME NEW t \in Tokens PROVE Totals(-issued'[t], TokenBy'[t], Attempts)
  <2> DEFINE m == -issued[t]
             n == -issued'[t]
  <2>1. m \in Int /\ n \in Int /\ n - m = TokenBy'[t][a] - TokenBy[t][a]
    <3>1. CASE TokenOf[a] = t
      <4>1. TokenBy'[t][a] = tokenNet'[a] /\ TokenBy[t][a] = tokenNet[a]
        BY <3>1 DEF TokenBy
      <4>2. issued'[t] + tokenNet'[a] = issued[t] + tokenNet[a]
        BY <1>1, <3>1 DEF Posts
      <4>3. tokenNet'[a] \in Int /\ tokenNet[a] \in Int
        BY DEF TypeOK
      <4> QED BY <1>6, <4>1, <4>2, <4>3
    <3>2. CASE TokenOf[a] # t
      <4>1. TokenBy'[t][a] = 0 /\ TokenBy[t][a] = 0
        BY <3>2 DEF TokenBy
      <4>2. issued'[t] = issued[t]
        BY <1>1, <3>2 DEF Posts
      <4> QED BY <1>6, <4>1, <4>2
    <3> QED BY <3>1, <3>2
  <2>2. Totals(m, TokenBy[t], Attempts)
    BY DEF LedgerInv
  <2> HIDE DEF m, n
  <2>3. \A b \in Attempts \ {a} : TokenBy'[t][b] = TokenBy[t][b]
    BY <1>3
  <2>4. Totals(n, TokenBy'[t], Attempts)
    BY <1>5, <2>1, <2>2, <2>3, TotalMoves DEF Typed
  <2> QED BY <2>4 DEF n
<1>9. ASSUME fails' = 0
      PROVE  /\ Totals(issued'["used"], UsedBy', Attempts)
             /\ Totals(issued'["channel"], ChannelBy', Attempts)
             /\ Totals(issued'["count"], CountBy', Attempts)
             /\ \A b \in Attempts : LoggedAs(b)'
             /\ failed' = {} /\ \A c \in Counters : lost'[c] = 0
  <2>1. /\ Totals(issued["used"], UsedBy, Attempts) /\ Totals(issued["channel"], ChannelBy, Attempts)
        /\ Totals(issued["count"], CountBy, Attempts) /\ \A b \in Attempts : LoggedAs(b)
        /\ failed = {} /\ \A c \in Counters : lost[c] = 0
    BY <1>2, <1>9 DEF LedgerInv
  <2>2. /\ issued'["used"] - issued["used"] = UsedBy'[a] - UsedBy[a]
        /\ issued'["channel"] - issued["channel"] = ChannelBy'[a] - ChannelBy[a]
        /\ issued'["count"] - issued["count"] = CountBy'[a] - CountBy[a]
        /\ LoggedAs(a)' /\ failed' = failed
    <3>1. /\ issued'["used"] - UsedBy'[a] = issued["used"] - UsedBy[a]
          /\ issued'["channel"] - ChannelBy'[a] = issued["channel"] - ChannelBy[a]
          /\ issued'["count"] - CountBy'[a] = issued["count"] - CountBy[a]
      BY <1>2, <1>9, Zenon DEF Records
    <3>0. LoggedAs(a)' /\ failed' = failed
      BY <1>2, <1>9, <2>1, Zenon DEF Records
    <3>2. /\ issued["used"] \in Int /\ issued'["used"] \in Int /\ UsedBy[a] \in Int /\ UsedBy'[a] \in Int
          /\ issued["channel"] \in Int /\ issued'["channel"] \in Int /\ ChannelBy[a] \in Int
          /\ ChannelBy'[a] \in Int /\ issued["count"] \in Int /\ issued'["count"] \in Int
          /\ CountBy[a] \in Int /\ CountBy'[a] \in Int
      BY <1>5, <1>6 DEF Typed
    <3>3. issued'["used"] - issued["used"] = UsedBy'[a] - UsedBy[a]
      <4> DEFINE i == issued'["used"]
                 j == issued["used"]
                 v == UsedBy'[a]
                 u == UsedBy[a]
      <4>1. i \in Int /\ j \in Int /\ u \in Int /\ v \in Int /\ i - v = j - u
        BY <3>1, <3>2
      <4> HIDE DEF i, j, u, v
      <4>2. i - j = v - u
        BY <4>1
      <4> QED BY <4>2 DEF i, j, u, v
    <3>4. issued'["channel"] - issued["channel"] = ChannelBy'[a] - ChannelBy[a]
      <4> DEFINE i == issued'["channel"]
                 j == issued["channel"]
                 v == ChannelBy'[a]
                 u == ChannelBy[a]
      <4>1. i \in Int /\ j \in Int /\ u \in Int /\ v \in Int /\ i - v = j - u
        BY <3>1, <3>2
      <4> HIDE DEF i, j, u, v
      <4>2. i - j = v - u
        BY <4>1
      <4> QED BY <4>2 DEF i, j, u, v
    <3>5. issued'["count"] - issued["count"] = CountBy'[a] - CountBy[a]
      <4> DEFINE i == issued'["count"]
                 j == issued["count"]
                 v == CountBy'[a]
                 u == CountBy[a]
      <4>1. i \in Int /\ j \in Int /\ u \in Int /\ v \in Int /\ i - v = j - u
        BY <3>1, <3>2
      <4> HIDE DEF i, j, u, v
      <4>2. i - j = v - u
        BY <4>1
      <4> QED BY <4>2 DEF i, j, u, v
    <3> QED BY <3>0, <3>3, <3>4, <3>5
  <2>3. Totals(issued'["used"], UsedBy', Attempts)
    BY <1>3, <1>5, <1>6, <2>1, <2>2, TotalMoves DEF Typed
  <2>4. Totals(issued'["channel"], ChannelBy', Attempts)
    BY <1>3, <1>5, <1>6, <2>1, <2>2, TotalMoves DEF Typed
  <2>5. Totals(issued'["count"], CountBy', Attempts)
    BY <1>3, <1>5, <1>6, <2>1, <2>2, TotalMoves DEF Typed
  <2>6. \A b \in Attempts : LoggedAs(b)'
    <3>1. \A b \in Attempts \ {a} : LoggedAs(b)'
      BY <1>4, <2>1 DEF LoggedAs
    <3> QED BY <2>2, <3>1
  <2> QED BY <1>1, <2>1, <2>2, <2>3, <2>4, <2>5, <2>6
<1> QED BY <1>7, <1>8, <1>9 DEF LedgerInv


\* The updater and the surroundings move no attempt; what the administrator
\* adds is asked of the user's counter.
LEMMA OthersLedger ==
    ASSUME TypeOK, TypeOK', LedgerInv, Batch \/ Environment
    PROVE  LedgerInv'
<1>1. UNCHANGED <<pc, bill, logged, failed, userNet, tokenNet>>
  BY DEF Batch, Environment, BatchSwap, BatchApply, BatchSleep, CacheExpires, ChangeQuotaRow,
         ChangeQuotaDelete, attempts, local, nets
<1>2. UsedBy' = UsedBy /\ ChannelBy' = ChannelBy /\ CountBy' = CountBy /\ TokenBy' = TokenBy
  BY <1>1 DEF UsedBy, ChannelBy, CountBy, TokenBy
<1>3. \A a \in Attempts : LoggedAs(a) => LoggedAs(a)'
  BY <1>1 DEF LoggedAs
<1>4. fails' = 0 => fails = 0 /\ lost' = lost
  <2>1. fails \in Nat
    BY DEF TypeOK
  <2>2. (fails' = fails /\ lost' = lost) \/ fails' = fails + 1
    BY DEF Batch, Environment, BatchSwap, BatchApply, BatchSleep, CacheExpires, ChangeQuotaRow,
           ChangeQuotaDelete, batch
  <2> QED BY <2>1, <2>2
<1>5. /\ added' - issued'["quota"] = added - issued["quota"]
      /\ \A c \in Counters \ {"quota"} : issued'[c] = issued[c]
  <2>1. CASE Batch \/ CacheExpires \/ ChangeQuotaDelete
    <3>1. issued' = issued /\ added' = added
      BY <2>1 DEF Batch, BatchSwap, BatchApply, BatchSleep, CacheExpires, ChangeQuotaDelete, counters,
                  attempts, environment
    <3> QED BY <3>1
  <2>2. CASE ChangeQuotaRow
    <3>1. PICK n \in TopUps : issued' = [issued EXCEPT !["quota"] = @ + n] /\ added' = added + n
      BY <2>2 DEF ChangeQuotaRow
    <3>2. n \in Int /\ added \in Int /\ issued["quota"] \in Int /\ issued'["quota"] = issued["quota"] + n
          /\ \A c \in Counters \ {"quota"} : issued'[c] = issued[c]
      BY <3>1, QuotaAssumption, CountersApart DEF TypeOK
    <3> QED BY <3>1, <3>2
  <2> QED BY <2>1, <2>2 DEF Environment
<1>6. /\ issued'["used"] = issued["used"] /\ issued'["channel"] = issued["channel"]
      /\ issued'["count"] = issued["count"] /\ \A t \in Tokens : issued'[t] = issued[t]
  BY <1>5, CountersApart
<1>7. Totals(added' - issued'["quota"], userNet', Attempts)
  BY <1>1, <1>5 DEF LedgerInv
<1>8. \A t \in Tokens : Totals(-issued'[t], TokenBy'[t], Attempts)
  BY <1>2, <1>6 DEF LedgerInv
<1>9. fails' = 0 =>
        /\ Totals(issued'["used"], UsedBy', Attempts) /\ Totals(issued'["channel"], ChannelBy', Attempts)
        /\ Totals(issued'["count"], CountBy', Attempts) /\ \A a \in Attempts : LoggedAs(a)'
        /\ (\A c \in Counters : lost'[c] = 0) /\ failed' = {}
  BY <1>1, <1>2, <1>3, <1>4, <1>6 DEF LedgerInv
<1> QED BY <1>7, <1>8, <1>9 DEF LedgerInv

LEMMA LedgerInvariant == Spec => []LedgerInv
<1>1. TypeOK /\ TypeOK' /\ LedgerInv /\ [Next]_vars => LedgerInv'
  <2> SUFFICES ASSUME TypeOK, TypeOK', LedgerInv, [Next]_vars PROVE LedgerInv'
    OBVIOUS
  <2>1. CASE Next
    BY <2>1, FiniteAttempts, AttemptLedger, OthersLedger DEF Next
  <2>2. CASE UNCHANGED vars
    BY <2>2 DEF vars, counters, batch, local, environment, nets, LedgerInv, UsedBy, ChannelBy, CountBy,
                TokenBy, LoggedAs
  <2> QED BY <2>1, <2>2
<1> QED BY <1>1, LedgerInvInit, TypeCorrect, PTL DEF Spec

\* A sum of ones counts.
LEMMA SumCounts ==
    ASSUME IsFiniteSet(Attempts), NEW n, Totals(n, CountBy, Attempts)
    PROVE  n = Cardinality({a \in Attempts : pc[a] = "done"})
<1> DEFINE in(s) == {a \in s : pc[a] = "done"}
           k == [s \in SUBSET Attempts |-> Cardinality(in(s))]
<1>1. ASSUME NEW s \in SUBSET Attempts
      PROVE  Cardinality(in(s)) \in Int
                /\ Cardinality(in(s)) = IF s = {} THEN 0
                     ELSE CountBy[Taken(s)] + Cardinality(in(s \ {Taken(s)}))
  <2>1. IsFiniteSet(in(s))
    BY FS_Subset
  <2>2. Cardinality(in(s)) \in Nat
    BY <2>1, FS_CardinalityType
  <2>3. CASE s = {}
    <3>1. in(s) = {}
      BY <2>3
    <3> QED BY <2>3, <3>1, FS_EmptySet
  <2>4. CASE s # {}
    <3> DEFINE x == Taken(s)
    <3>1. x \in s /\ x \in Attempts
      BY <2>4, TakenIn
    <3> HIDE DEF x
    <3>2. CASE pc[x] = "done"
      <4>1. in(s \ {x}) = in(s) \ {x} /\ x \in in(s)
        BY <3>1, <3>2
      <4>2. CountBy[x] = 1
        BY <3>1, <3>2 DEF CountBy
      <4> HIDE DEF in
      <4>3. Cardinality(in(s) \ {x}) = Cardinality(in(s)) - 1
        BY <2>1, <4>1, FS_RemoveElement
      <4>4. Cardinality(in(s \ {x})) = Cardinality(in(s)) - 1
        BY <4>1, <4>3, Zenon
      <4> DEFINE m == Cardinality(in(s))
                 r == Cardinality(in(s \ {x}))
      <4>5. m \in Nat /\ r = m - 1
        BY <2>2, <4>4
      <4> HIDE DEF m, r
      <4>6. m = CountBy[x] + r
        BY <4>2, <4>5
      <4> QED BY <2>2, <2>4, <4>6 DEF x, m, r
    <3>3. CASE pc[x] # "done"
      <4>1. in(s \ {x}) = in(s)
        BY <3>1, <3>3
      <4>2. CountBy[x] = 0
        BY <3>1, <3>3 DEF CountBy
      <4> HIDE DEF in
      <4>3. Cardinality(in(s)) = CountBy[x] + Cardinality(in(s \ {x}))
        BY <2>2, <4>1, <4>2
      <4> QED BY <2>2, <2>4, <4>3 DEF x
    <3> QED BY <3>2, <3>3
  <2> QED BY <2>2, <2>3, <2>4
<1>2. k \in [SUBSET Attempts -> Int] /\ \A s \in SUBSET Attempts : k[s] = Cardinality(in(s))
  BY <1>1
<1>3. Sums(k, CountBy, Attempts)
  <2> HIDE DEF k, in
  <2>1. \A s \in SUBSET Attempts : s \ {Taken(s)} \in SUBSET Attempts
    OBVIOUS
  <2> QED BY <1>1, <1>2, <2>1 DEF Sums
<1>4. Totals(k[Attempts], CountBy, Attempts)
  BY <1>2, <1>3 DEF Totals
<1>5. \A a \in Attempts : CountBy[a] \in Int
  BY DEF CountBy
<1>6. n = Sum(CountBy) /\ k[Attempts] = Sum(CountBy)
  BY <1>4, <1>5, TotalIsSum
<1>7. k[Attempts] = Cardinality({a \in Attempts : pc[a] = "done"})
  OBVIOUS
<1> QED BY <1>6, <1>7

\* At rest the parts are what BooksAgree sums.
LEMMA PartsAtRest ==
    ASSUME TypeOK, BooksInv, LedgerInv, Settled
    PROVE  /\ userNet = OfDone(Kept) /\ UsedBy = OfDone(bill) /\ ChannelBy = OfDone(bill)
           /\ OfDone(bill) = [a \in Attempts |-> IF logged[a] = NotLogged THEN 0 ELSE logged[a]]
           /\ \A t \in Tokens \ Unlimited :
                 TokenBy[t] = [a \in Attempts |-> IF TokenOf[a] = t THEN OfDone(Kept)[a] ELSE 0]
           /\ \A t \in Tokens \cap Unlimited : \A a \in Attempts : TokenBy[t][a] = 0
<1>1. failed = {} /\ \A a \in Attempts : LoggedAs(a)
  BY DEF LedgerInv, Settled
<1>2. ASSUME NEW a \in Attempts
      PROVE  /\ userNet[a] = OfDone(Kept)[a] /\ UsedBy[a] = OfDone(bill)[a] /\ ChannelBy[a] = OfDone(bill)[a]
             /\ tokenNet[a] = IF TokenOf[a] \in Unlimited THEN 0 ELSE OfDone(Kept)[a]
             /\ OfDone(bill)[a] = IF logged[a] = NotLogged THEN 0 ELSE logged[a]
  <2>1. pc[a] \in {"done", "failed", "refused", "rejected", "aborted", "idle"}
    BY DEF Settled, Over
  <2>2. bill[a] \in Nat /\ pre[a] \in Nat
    BY DEF TypeOK
  <2>3. userNet[a] = OfDone(Kept)[a] /\ tokenNet[a] = IF TokenOf[a] \in Unlimited THEN 0 ELSE OfDone(Kept)[a]
    BY <1>1, <2>1 DEF BooksInv, Books, Charged, KeptOf, TokenPart, OfDone, Kept
  <2>4. UsedBy[a] = OfDone(bill)[a] /\ ChannelBy[a] = OfDone(bill)[a]
    BY <2>1 DEF UsedBy, ChannelBy, OfDone
  <2>5. OfDone(bill)[a] = IF logged[a] = NotLogged THEN 0 ELSE logged[a]
    BY <1>1, <2>1, <2>2 DEF LoggedAs, NotLogged, OfDone
  <2> QED BY <2>3, <2>4, <2>5
<1>3. userNet = [a \in Attempts |-> userNet[a]]
  BY DEF TypeOK
<1>4. userNet = OfDone(Kept)
  BY <1>2, <1>3 DEF OfDone
<1>5. UsedBy = OfDone(bill) /\ ChannelBy = OfDone(bill)
  BY <1>2 DEF UsedBy, ChannelBy, OfDone
<1>6. OfDone(bill) = [a \in Attempts |-> IF logged[a] = NotLogged THEN 0 ELSE logged[a]]
  BY <1>2 DEF OfDone
<1>7. ASSUME NEW t \in Tokens \ Unlimited
      PROVE  TokenBy[t] = [a \in Attempts |-> IF TokenOf[a] = t THEN OfDone(Kept)[a] ELSE 0]
  <2>1. \A a \in Attempts : TokenOf[a] = t => tokenNet[a] = OfDone(Kept)[a]
    BY <1>2
  <2> QED BY <2>1 DEF TokenBy
<1>8. \A t \in Tokens \cap Unlimited : \A a \in Attempts : TokenBy[t][a] = 0
  BY <1>2 DEF TokenBy
<1> QED BY <1>4, <1>5, <1>6, <1>7, <1>8

\* Once everything has settled without an error the rows of the user, of each
\* token and of the channel, the request count and the consume log agree
\* (relay/relay_util/quota.go, model/utils.go), for any number of attempts and
\* tokens, with direct and with batched writes.
THEOREM BooksAgreeAlways == Spec => []BooksAgree
<1>1. TypeOK /\ BooksInv /\ BatchInv /\ LedgerInv => BooksAgree
  <2> SUFFICES ASSUME TypeOK, BooksInv, BatchInv, LedgerInv, Settled
               PROVE  LET billed == Sum(OfDone(bill))
                      IN  /\ db["quota"] + Sum(OfDone(Kept)) = InitQuota + added
                          /\ db["used"] = billed
                          /\ db["channel"] = billed
                          /\ db["count"] = Cardinality({a \in Attempts : pc[a] = "done"})
                          /\ billed = Sum([a \in Attempts |-> IF logged[a] = NotLogged THEN 0 ELSE logged[a]])
                          /\ \A t \in Tokens \ Unlimited :
                                db[t] + Sum([a \in Attempts |-> IF TokenOf[a] = t THEN OfDone(Kept)[a] ELSE 0])
                                    = InitToken
                          /\ \A t \in Tokens \cap Unlimited : db[t] = InitToken
    BY DEF BooksAgree
  <2>1. \A c \in Counters : db[c] = InitCounters[c] + issued[c]
    <3> SUFFICES ASSUME NEW c \in Counters PROVE db[c] = InitCounters[c] + issued[c]
      OBVIOUS
    <3>1. store[c] = 0 /\ flush[c] = 0 /\ lost[c] = 0
      BY DEF Settled, LedgerInv
    <3>2. db[c] + store[c] + flush[c] + lost[c] = InitCounters[c] + issued[c] /\ db[c] \in Int
      BY DEF BatchInv, BatchConserves, TypeOK
    <3> QED BY <3>1, <3>2
  <2>2. /\ InitCounters["quota"] = InitQuota /\ InitCounters["used"] = 0 /\ InitCounters["channel"] = 0
        /\ InitCounters["count"] = 0 /\ \A t \in Tokens : InitCounters[t] = InitToken
    BY CountersApart DEF InitCounters
  <2>3. /\ db["quota"] = InitQuota + issued["quota"] /\ db["used"] = issued["used"]
        /\ db["channel"] = issued["channel"] /\ db["count"] = issued["count"]
        /\ \A t \in Tokens : db[t] = InitToken + issued[t]
    BY <2>1, <2>2, IssuedTyped, CountersApart
  <2>4. /\ Typed(userNet) /\ Typed(UsedBy) /\ Typed(ChannelBy) /\ \A t \in Tokens : Typed(TokenBy[t])
    BY PartsTyped DEF Typed
  <2>5. /\ added - issued["quota"] = Sum(userNet) /\ issued["used"] = Sum(UsedBy)
        /\ issued["channel"] = Sum(ChannelBy)
        /\ issued["count"] = Cardinality({a \in Attempts : pc[a] = "done"})
        /\ \A t \in Tokens : -issued[t] = Sum(TokenBy[t])
    <3>1. \A f, n : Typed(f) /\ Totals(n, f, Attempts) => n = Sum(f)
      BY FiniteAttempts, TotalIsSum DEF Typed
    <3>2. /\ Totals(added - issued["quota"], userNet, Attempts) /\ Totals(issued["used"], UsedBy, Attempts)
          /\ Totals(issued["channel"], ChannelBy, Attempts) /\ Totals(issued["count"], CountBy, Attempts)
          /\ \A t \in Tokens : Totals(-issued[t], TokenBy[t], Attempts)
      BY DEF LedgerInv, Settled
    <3> QED BY <2>4, <3>1, <3>2, FiniteAttempts, SumCounts
  <2>6. db["quota"] + Sum(OfDone(Kept)) = InitQuota + added
    <3>1. added - issued["quota"] = Sum(OfDone(Kept))
      BY <2>5, PartsAtRest
    <3> QED BY <2>3, <3>1, IssuedTyped, QuotaAssumption
  <2>7. db["used"] = Sum(OfDone(bill)) /\ db["channel"] = Sum(OfDone(bill))
    BY <2>3, <2>5, PartsAtRest
  <2>8. ASSUME NEW t \in Tokens \ Unlimited
        PROVE  db[t] + Sum([a \in Attempts |-> IF TokenOf[a] = t THEN OfDone(Kept)[a] ELSE 0]) = InitToken
    <3>1. -issued[t] = Sum([a \in Attempts |-> IF TokenOf[a] = t THEN OfDone(Kept)[a] ELSE 0])
      BY <2>5, PartsAtRest
    <3> QED BY <2>3, <3>1, IssuedTyped, QuotaAssumption
  <2>9. ASSUME NEW t \in Tokens \cap Unlimited PROVE db[t] = InitToken
    <3>1. Totals(0, TokenBy[t], Attempts)
      BY PartsAtRest, TotalZero
    <3>2. -issued[t] = 0
      BY <2>4, <2>5, <3>1, FiniteAttempts, TotalIsSum DEF Typed
    <3> QED BY <2>3, <3>2, IssuedTyped, QuotaAssumption
  <2>10. Sum(OfDone(bill)) = Sum([a \in Attempts |-> IF logged[a] = NotLogged THEN 0 ELSE logged[a]])
    BY PartsAtRest
  <2> QED BY <2>3, <2>5, <2>6, <2>7, <2>8, <2>9, <2>10
<1> QED BY <1>1, TypeCorrect, BooksInvariant, BatchInvariant, LedgerInvariant, PTL
=============================================================================
