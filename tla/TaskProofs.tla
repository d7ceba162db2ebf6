------------------------------ MODULE TaskProofs -----------------------------
(***************************************************************************)
(* The Midjourney proxy (Midjourney), TaskPoller, TaskSubmit and the three *)
(* together: what was paid, what was paid back and who is left behind, for *)
(* any tasks, jobs, prices, answers of the services and bounds, and, where *)
(* it says so, any finite number of nodes.                                 *)
(*                                                                         *)
(* The inductive invariant of the proxy has five parts, each of which      *)
(* needs the ones before: the types, how the tables agree (MjStored), what *)
(* a submission has paid (MjOwed), what the poller paid back (MjRepaid),   *)
(* and when the poller may sleep (MjAwake).                                *)
(***************************************************************************)
EXTENDS MCTaskPoller, FiniteSums

-----------------------------------------------------------------------------
(* The types, and what the steps of a handler do *)

\* What may be told of a job, and of the poller under 0.
Marks == {"notified", "unsaved", "unpaid", "given up", "settled twice", "missed"}

Steps == {"new", "send", "relax", "resend", "insert", "check", "signal", "settle", "over", "gone"}

\* A submission, a row and an answer of the service.
Job == [pc : Steps, kind : Kinds, mode : {"fast", "relax"}, held : Nat,
        code : AllCodes \cup {"none"}, id : Jobs \cup {0}]

JobRows == [at : {"absent", "open", "100%"}, status : {"", "SUCCESS", "FAILURE"}]

Answers == {"unknown", "running", "SUCCESS", "FAILURE"}

\* The type invariant with the variables that MjTypeOK leaves out.
MjTyped ==
    /\ job \in [Jobs -> Job] /\ mjrow \in [Jobs -> JobRows] /\ service \in [Jobs -> Answers]
    /\ old \subseteq Jobs /\ listed \subseteq Jobs /\ mjactive \in BOOLEAN
    /\ paid \in [Jobs -> Int] /\ back \in [Jobs -> Nat] /\ faults \in 0..MaxFaults
    /\ mjpoller \in {"wait", "list", "empty", "work", "items", "dead"}
    /\ told \in [Jobs \cup {0} -> SUBSET Marks]
    /\ writing = <<>> \/ writing \in Jobs \X {"running", "SUCCESS", "FAILURE"}

\* It implies the type invariant of the model.
LEMMA MjTypedMeans == MjTyped => MjTypeOK
BY DEF MjTyped, MjTypeOK, Job, Steps, JobRows, Answers

\* A handler's step moves its own job.
LEMMA GoType ==
    ASSUME job \in [Jobs -> Job], NEW j \in Jobs, NEW r \in Job, Go(j, r)
    PROVE  job' \in [Jobs -> Job] /\ job'[j] = r /\ \A k \in Jobs : k # j => job'[k] = job[k]
BY DEF Go

\* The ways a handler rewrites its job keep its type.
LEMMA AtType ==
    ASSUME NEW J \in Job, NEW pc \in Steps
    PROVE  [J EXCEPT !.pc = pc] \in Job
BY DEF Job

\* ... when it ends,
LEMMA OverType ==
    ASSUME NEW J \in Job
    PROVE  [J EXCEPT !.pc = "over", !.held = 0] \in Job
BY DEF Job, Steps

\* ... when it has its reservation,
LEMMA SentType ==
    ASSUME NEW J \in Job, NEW kind \in Kinds, NEW mode \in {"fast", "relax"}, NEW held \in Nat
    PROVE  [[J EXCEPT !.pc = "send"] EXCEPT !.kind = kind, !.mode = mode, !.held = held] \in Job
BY DEF Job, Steps

\* ... when it has one for relax mode,
LEMMA RelaxedType ==
    ASSUME NEW J \in Job, NEW held \in Nat
    PROVE  [[J EXCEPT !.pc = "resend"] EXCEPT !.mode = "relax", !.held = held] \in Job
BY DEF Job, Steps

\* ... and when the service has answered.
LEMMA RepliedType ==
    ASSUME NEW J \in Job, NEW code \in AllCodes, NEW id \in Jobs \cup {0}
    PROVE  [[J EXCEPT !.pc = "insert"] EXCEPT !.code = code, !.id = id] \in Job
BY DEF Job, Steps

\* What a step of j's handler may do to the rest.
LEMMA PayType ==
    ASSUME paid \in [Jobs -> Int], NEW j \in Jobs, NEW amount \in Int, Pay(j, amount)
    PROVE  paid' \in [Jobs -> Int] /\ paid'[j] = paid[j] + amount /\ \A k \in Jobs : k # j => paid'[k] = paid[k]
BY DEF Pay

\* A price is never zero, so that what was paid tells whether it was paid.
LEMMA PriceNat == \A J \in Job : Price[J.mode] \in Nat /\ Price[J.mode] > 0 /\ J.held \in Nat
BY MidjourneyAssumption DEF Job

\* A fault keeps the bound of the faults.
LEMMA FaultType == faults \in 0..MaxFaults /\ Fault => faults' \in 0..MaxFaults
BY MidjourneyAssumption DEF Fault

\* Telling adds to the history of one job.
LEMMA TellType ==
    ASSUME told \in [Jobs \cup {0} -> SUBSET Marks], NEW j \in Jobs \cup {0}, NEW what \in Marks, Tell(j, what)
    PROVE  /\ told' \in [Jobs \cup {0} -> SUBSET Marks] /\ told'[j] = told[j] \cup {what}
           /\ \A k \in Jobs \cup {0} : k # j => told'[k] = told[k]
BY DEF Tell

\* What RelayMidjourneySubmit's steps have in common: the own job moves on, the payment of another is left alone
Handled(j) ==
    /\ job' \in [Jobs -> Job] /\ \A k \in Jobs : k # j => job'[k] = job[k]
    /\ paid' \in [Jobs -> Int] /\ \A k \in Jobs : k # j => paid'[k] = paid[k]
    /\ UNCHANGED <<old, mjpoller, listed, items, writing, back>>

\* The two functions that every handler writes.
LEMMA TypedJob == MjTyped => job \in [Jobs -> Job] /\ paid \in [Jobs -> Int]
BY DEF MjTyped

\* Request reserves the price of the mode, or nothing.
LEMMA RequestDoes ==
    ASSUME MjTyped, NEW j \in Jobs, Request(j)
    PROVE  /\ Handled(j) /\ UNCHANGED <<mjrow, service, mjactive, faults, told>>
           /\ job[j].pc = "new" /\ job'[j].pc = "send" /\ job'[j].held \in {0, Price[job'[j].mode]}
           /\ job'[j].code = job[j].code /\ job'[j].id = job[j].id
           /\ paid'[j] = paid[j] + job'[j].held
<1>1. PICK ask \in Asked[j] :
         LET held == IF ask.rich THEN 0 ELSE Price[ask.mode]
         IN  Go(j, [At(j, "send") EXCEPT !.kind = ask.kind, !.mode = ask.mode, !.held = held]) /\ Pay(j, held)
  BY DEF Request
<1>2. ask \in Asks
  BY MidjourneyAssumption
<1>3. ask.kind \in Kinds /\ ask.mode \in {"fast", "relax"}
  BY <1>2 DEF Asks
<1> DEFINE held == IF ask.rich THEN 0 ELSE Price[ask.mode]
           r == [At(j, "send") EXCEPT !.kind = ask.kind, !.mode = ask.mode, !.held = held]
<1>4. held \in Nat /\ held \in {0, Price[ask.mode]}
  BY <1>3, MidjourneyAssumption
<1>5. job[j] \in Job /\ job \in [Jobs -> Job] /\ paid \in [Jobs -> Int]
  BY TypedJob
<1>6. r \in Job
  <2> HIDE DEF held
  <2> QED
    BY <1>3, <1>4, <1>5, SentType DEF At
<1>7. r.pc = "send" /\ r.held = held /\ r.mode = ask.mode /\ r.code = job[j].code /\ r.id = job[j].id
  <2> HIDE DEF held
  <2> QED
    BY <1>5 DEF At, Job
<1>8. Go(j, r) /\ Pay(j, held)
  BY <1>1
<1> HIDE DEF r, held
<1>9. job' \in [Jobs -> Job] /\ job'[j] = r /\ \A k \in Jobs : k # j => job'[k] = job[k]
  BY <1>5, <1>6, <1>8, GoType
<1>10. paid' \in [Jobs -> Int] /\ paid'[j] = paid[j] + held /\ \A k \in Jobs : k # j => paid'[k] = paid[k]
  BY <1>4, <1>5, <1>8, PayType
<1> QED
  BY <1>4, <1>7, <1>9, <1>10 DEF Request, Handled

\* The job is sent to the service: what stays of it, and what the service knows now.
Replied(j) ==
    /\ job' \in [Jobs -> Job] /\ \A k \in Jobs : k # j => job'[k] = job[k]
    /\ job'[j].pc = "insert" /\ job'[j].code # "none"
    /\ job'[j].held = job[j].held /\ job'[j].mode = job[j].mode
    /\ service' \in [Jobs -> {"unknown", "running", "SUCCESS", "FAILURE"}]
    /\ \A k \in Jobs : k # j => service'[k] = service[k]

\* Replies leaves the reservation alone and moves only its own job.
LEMMA RepliesDoes ==
    ASSUME MjTyped, NEW j \in Jobs, NEW code \in Codes, Replies(j, code)
    PROVE  Replied(j)
<1>1. PICK id \in Jobs \cup {0} :
         /\ Go(j, [At(j, "insert") EXCEPT !.code = code, !.id = id])
         /\ IF id # j THEN UNCHANGED service
            ELSE \E s \in IF code \in Accepted THEN {"running"} ELSE {"unknown", "FAILURE"} :
                     service' = [service EXCEPT ![j] = s]
  BY DEF Replies
<1>2. code \in AllCodes /\ code # "none"
  BY MidjourneyAssumption DEF AllCodes
<1> DEFINE r == [At(j, "insert") EXCEPT !.code = code, !.id = id]
<1>3. job[j] \in Job /\ job \in [Jobs -> Job]
  BY TypedJob
<1>4. r \in Job
  BY <1>2, <1>3, RepliedType DEF At
<1>5. r.pc = "insert" /\ r.held = job[j].held /\ r.mode = job[j].mode /\ r.code = code
  BY <1>3 DEF At, Job
<1>6. Go(j, r)
  BY <1>1
<1> HIDE DEF r
<1>7. job' \in [Jobs -> Job] /\ job'[j] = r /\ \A k \in Jobs : k # j => job'[k] = job[k]
  BY <1>3, <1>4, <1>6, GoType
<1>8. service \in [Jobs -> {"unknown", "running", "SUCCESS", "FAILURE"}]
  BY DEF MjTyped, Answers
<1>9. service' = service \/ \E s \in {"unknown", "running", "FAILURE"} : service' = [service EXCEPT ![j] = s]
  BY <1>1
<1>10. /\ service' \in [Jobs -> {"unknown", "running", "SUCCESS", "FAILURE"}]
       /\ \A k \in Jobs : k # j => service'[k] = service[k]
  BY <1>8, <1>9
<1> QED
  BY <1>2, <1>5, <1>7, <1>10 DEF Replied

\* A handler that ends, or that only moves on.
LEMMA EndDoes ==
    ASSUME MjTyped, NEW j \in Jobs, Go(j, Over(j))
    PROVE  /\ job' \in [Jobs -> Job] /\ \A k \in Jobs : k # j => job'[k] = job[k]
           /\ job'[j].pc = "over" /\ job'[j].held = 0 /\ job'[j].mode = job[j].mode
           /\ job'[j].kind = job[j].kind /\ job'[j].code = job[j].code /\ job'[j].id = job[j].id
<1>1. job[j] \in Job /\ job \in [Jobs -> Job]
  BY TypedJob
<1>2. Over(j) \in Job
  BY <1>1, OverType DEF Over
<1>3. /\ Over(j).pc = "over" /\ Over(j).held = 0 /\ Over(j).mode = job[j].mode
      /\ Over(j).kind = job[j].kind /\ Over(j).code = job[j].code /\ Over(j).id = job[j].id
  BY <1>1 DEF Over, Job
<1> QED
  BY <1>1, <1>2, <1>3, GoType

\* A handler that only goes on to the next step.
LEMMA MoveDoes ==
    ASSUME MjTyped, NEW j \in Jobs, NEW pc \in Steps, Go(j, At(j, pc))
    PROVE  /\ job' \in [Jobs -> Job] /\ \A k \in Jobs : k # j => job'[k] = job[k]
           /\ job'[j].pc = pc /\ job'[j].held = job[j].held /\ job'[j].mode = job[j].mode
           /\ job'[j].kind = job[j].kind /\ job'[j].code = job[j].code /\ job'[j].id = job[j].id
<1>1. job[j] \in Job /\ job \in [Jobs -> Job]
  BY TypedJob
<1>2. At(j, pc) \in Job
  BY <1>1, AtType DEF At
<1> QED
  BY <1>1, <1>2, GoType DEF At, Job

\* Undo and Consume change what one job paid, by its reservation.
LEMMA PayDoes ==
    ASSUME MjTyped, NEW j \in Jobs
    PROVE  /\ Undo(j) => paid' \in [Jobs -> Int] /\ paid'[j] = paid[j] - job[j].held
           /\ Consume(j) => paid' \in [Jobs -> Int] /\ paid'[j] = paid[j] + Price[job[j].mode] - job[j].held
           /\ Undo(j) \/ Consume(j) => \A k \in Jobs : k # j => paid'[k] = paid[k]
<1>1. paid \in [Jobs -> Int] /\ job[j] \in Job
  BY TypedJob
<1>2. job[j].held \in Int /\ Price[job[j].mode] \in Int
  BY <1>1, PriceNat
<1> QED
  BY <1>1, <1>2, PayType DEF Undo, Consume

\* Send hands the job on, or undoes the reservation.
LEMMA SendDoes ==
    ASSUME MjTyped, NEW j \in Jobs, Send(j)
    PROVE  /\ Handled(j) /\ UNCHANGED <<mjrow, mjactive, told>> /\ job[j].pc = "send"
           /\ faults' \in 0..MaxFaults
           /\ \/ /\ Replied(j) /\ UNCHANGED paid
              \/ /\ job'[j].pc \in {"over", "relax"} /\ paid'[j] = paid[j] - job[j].held
                 /\ UNCHANGED service /\ job'[j].code = job[j].code /\ job'[j].mode = job[j].mode
                 /\ job'[j].held \in {0, job[j].held}
<1>1. /\ job[j].pc = "send"
      /\ UNCHANGED <<mjrow, old, mjactive, mjpoller, listed, items, writing, back, told>>
  BY DEF Send
<1>2. faults \in 0..MaxFaults /\ paid \in [Jobs -> Int]
  BY TypedJob DEF MjTyped
<1>3. CASE Fault /\ Undo(j) /\ Go(j, Over(j)) /\ UNCHANGED service
  BY <1>1, <1>2, <1>3, EndDoes, PayDoes, FaultType DEF Handled
<1>4. CASE Undo(j) /\ Go(j, At(j, "relax")) /\ UNCHANGED <<service, faults>>
  <2>1. "relax" \in Steps
    BY DEF Steps
  <2> QED
    BY <1>1, <1>2, <1>4, <2>1, MoveDoes, PayDoes DEF Handled
<1>5. ASSUME NEW code \in Codes, Replies(j, code), UNCHANGED <<paid, faults>>
      PROVE  Handled(j) /\ Replied(j) /\ faults' \in 0..MaxFaults
  <2>1. Replied(j)
    BY <1>5, RepliesDoes
  <2> QED
    BY <1>1, <1>2, <1>5, <2>1 DEF Handled, Replied
<1>6. \/ Fault /\ Undo(j) /\ Go(j, Over(j)) /\ UNCHANGED service
      \/ Undo(j) /\ Go(j, At(j, "relax")) /\ UNCHANGED <<service, faults>>
      \/ \E code \in Codes : Replies(j, code) /\ UNCHANGED <<paid, faults>>
  BY DEF Send
<1> QED
  BY <1>1, <1>3, <1>4, <1>5, <1>6

\* Relax makes a new reservation, or ends with none.
LEMMA RelaxDoes ==
    ASSUME MjTyped, NEW j \in Jobs, Relax(j)
    PROVE  /\ Handled(j) /\ UNCHANGED <<mjrow, service, mjactive, told>> /\ job[j].pc = "relax"
           /\ faults' \in 0..MaxFaults /\ job'[j].code = job[j].code
           /\ \/ job'[j].pc = "over" /\ job'[j].held = 0 /\ job'[j].mode = job[j].mode /\ UNCHANGED paid
              \/ /\ job'[j].pc = "resend" /\ job'[j].mode = "relax"
                 /\ job'[j].held \in {0, Price["relax"]} /\ paid'[j] = paid[j] + job'[j].held
<1>1. /\ job[j].pc = "relax"
      /\ UNCHANGED <<mjrow, service, old, mjactive, mjpoller, listed, items, writing, back, told>>
  BY DEF Relax
<1>2. faults \in 0..MaxFaults /\ paid \in [Jobs -> Int] /\ job \in [Jobs -> Job] /\ job[j] \in Job
  BY TypedJob DEF MjTyped
<1>3. CASE Fault /\ Go(j, Over(j)) /\ UNCHANGED paid
  BY <1>1, <1>2, <1>3, EndDoes, FaultType DEF Handled
<1>4. ASSUME NEW held \in {0, Price["relax"]}, UNCHANGED faults, Pay(j, held),
             Go(j, [At(j, "resend") EXCEPT !.mode = "relax", !.held = held])
      PROVE  /\ Handled(j) /\ job'[j].pc = "resend" /\ job'[j].mode = "relax" /\ job'[j].held = held
             /\ paid'[j] = paid[j] + held /\ job'[j].code = job[j].code
  <2> DEFINE r == [At(j, "resend") EXCEPT !.mode = "relax", !.held = held]
  <2>1. held \in Nat /\ held \in Int
    BY MidjourneyAssumption
  <2>2. r \in Job
    BY <1>2, <2>1, RelaxedType DEF At
  <2>3. r.pc = "resend" /\ r.mode = "relax" /\ r.held = held /\ r.code = job[j].code
    BY <1>2 DEF At, Job
  <2>4. Go(j, r)
    BY <1>4
  <2> HIDE DEF r
  <2>5. job' \in [Jobs -> Job] /\ job'[j] = r /\ \A k \in Jobs : k # j => job'[k] = job[k]
    BY <1>2, <2>2, <2>4, GoType
  <2>6. paid' \in [Jobs -> Int] /\ paid'[j] = paid[j] + held /\ \A k \in Jobs : k # j => paid'[k] = paid[k]
    BY <1>2, <1>4, <2>1, PayType
  <2> QED
    BY <1>1, <2>3, <2>5, <2>6 DEF Handled
<1>5. \/ Fault /\ Go(j, Over(j)) /\ UNCHANGED paid
      \/ \E held \in {0, Price["relax"]} :
            /\ UNCHANGED faults /\ Pay(j, held)
            /\ Go(j, [At(j, "resend") EXCEPT !.mode = "relax", !.held = held])
  BY DEF Relax
<1>6. CASE \E held \in {0, Price["relax"]} :
            /\ UNCHANGED faults /\ Pay(j, held)
            /\ Go(j, [At(j, "resend") EXCEPT !.mode = "relax", !.held = held])
  BY <1>1, <1>2, <1>4, <1>6
<1> QED
  BY <1>3, <1>5, <1>6

\* Resend hands the job on, or ends a job that is settled twice.
LEMMA ResendDoes ==
    ASSUME MjTyped, NEW j \in Jobs, Resend(j)
    PROVE  /\ Handled(j) /\ UNCHANGED <<mjrow, mjactive>> /\ job[j].pc = "resend"
           /\ faults' \in 0..MaxFaults
           /\ \/ Replied(j) /\ UNCHANGED <<paid, told>>
              \/ /\ job'[j].pc = "over" /\ job'[j].held = 0 /\ job'[j].mode = job[j].mode
                 /\ job'[j].code = job[j].code /\ UNCHANGED service /\ Tell(j, "settled twice")
<1>1. /\ job[j].pc = "resend"
      /\ UNCHANGED <<mjrow, old, mjactive, mjpoller, listed, items, writing, back>>
  BY DEF Resend
<1>2. faults \in 0..MaxFaults /\ paid \in [Jobs -> Int] /\ job[j] \in Job
  BY TypedJob DEF MjTyped
<1>3. CASE /\ Fault /\ Tell(j, "settled twice") /\ Go(j, Over(j)) /\ UNCHANGED service
           /\ \/ Pay(j, -2 * job[j].held)
              \/ job[j].kind \notin {"free", "swap"} /\ Pay(j, Price["relax"] - 2 * job[j].held)
  <2>1. -2 * job[j].held \in Int /\ Price["relax"] - 2 * job[j].held \in Int
    BY <1>2, PriceNat, MidjourneyAssumption
  <2>2. paid' \in [Jobs -> Int] /\ \A k \in Jobs : k # j => paid'[k] = paid[k]
    BY <1>2, <1>3, <2>1, PayType
  <2> QED
    BY <1>1, <1>2, <1>3, <2>2, EndDoes, FaultType DEF Handled
<1>4. ASSUME NEW code \in Codes, Replies(j, code), UNCHANGED <<paid, faults, told>>
      PROVE  Handled(j) /\ Replied(j) /\ faults' \in 0..MaxFaults
  <2>1. Replied(j)
    BY <1>4, RepliesDoes
  <2> QED
    BY <1>1, <1>2, <1>4, <2>1 DEF Handled, Replied
<1>5. \/ /\ Fault /\ Tell(j, "settled twice") /\ Go(j, Over(j)) /\ UNCHANGED service
         /\ \/ Pay(j, -2 * job[j].held)
            \/ job[j].kind \notin {"free", "swap"} /\ Pay(j, Price["relax"] - 2 * job[j].held)
      \/ \E code \in Codes : Replies(j, code) /\ UNCHANGED <<paid, faults, told>>
  BY DEF Resend
<1> QED
  BY <1>1, <1>3, <1>4, <1>5

\* Insert, Check, Signal: the handler only moves on.
Moved(j) ==
    /\ Handled(j) /\ UNCHANGED <<service, paid>>
    /\ job'[j].held = job[j].held /\ job'[j].mode = job[j].mode
    /\ job'[j].kind = job[j].kind /\ job'[j].code = job[j].code /\ job'[j].id = job[j].id

\* MjInsert writes the row of its own job, or none.
LEMMA InsertDoes ==
    ASSUME MjTyped, NEW j \in Jobs, MjInsert(j)
    PROVE  /\ Moved(j) /\ UNCHANGED <<mjactive, told>> /\ job[j].pc = "insert"
           /\ faults' \in 0..MaxFaults
           /\ \/ job'[j].pc = "check" /\ mjrow' = [mjrow EXCEPT ![j] = Stored(j)]
              \/ job'[j].pc = "settle" /\ UNCHANGED mjrow
BY MoveDoes, TypedJob, FaultType DEF MjInsert, Moved, Handled, Steps, MjTyped

\* MjCheck tells of a poller it believed to be awake.
LEMMA CheckDoes ==
    ASSUME MjTyped, NEW j \in Jobs, MjCheck(j)
    PROVE  /\ Moved(j) /\ UNCHANGED <<mjrow, mjactive, faults>> /\ job[j].pc = "check"
           /\ job'[j].pc = (IF mjactive THEN "settle" ELSE "signal")
           /\ IF mjactive /\ mjpoller = "empty" THEN Tell(0, "missed") ELSE UNCHANGED told
<1>1. (IF mjactive THEN "settle" ELSE "signal") \in Steps
  BY DEF Steps
<1> QED
  BY <1>1, MoveDoes, TypedJob DEF MjCheck, Moved, Handled

\* MjSignal wakes the poller.
LEMMA SignalDoes ==
    ASSUME MjTyped, NEW j \in Jobs, MjSignal(j)
    PROVE  /\ Moved(j) /\ UNCHANGED <<mjrow, faults, told>> /\ mjactive' = TRUE
           /\ job[j].pc = "signal" /\ job'[j].pc = "settle"
<1>1. "settle" \in Steps
  BY DEF Steps
<1> QED
  BY <1>1, MoveDoes, TypedJob DEF MjSignal, Moved, Handled

\* Settle takes the price, or gives the reservation back.
LEMMA SettleDoes ==
    ASSUME MjTyped, NEW j \in Jobs, Settle(j)
    PROVE  /\ Handled(j) /\ UNCHANGED <<mjrow, service, mjactive, faults, told>> /\ job[j].pc = "settle"
           /\ job'[j].pc = "over" /\ job'[j].held = 0 /\ job'[j].mode = job[j].mode
           /\ job'[j].kind = job[j].kind /\ job'[j].code = job[j].code /\ job'[j].id = job[j].id
           /\ paid'[j] = IF Charged(j) THEN paid[j] + Price[job[j].mode] - job[j].held
                                       ELSE paid[j] - job[j].held
BY EndDoes, PayDoes DEF Settle, Handled

\* The types hold at the start.
LEMMA MjTypedInit == MjInit => MjTyped
<1>1. Idle \in Job /\ NoRow \in JobRows
  BY DEF Idle, Job, Steps, Kinds, NoRow, JobRows
<1> QED
  BY <1>1, MidjourneyAssumption DEF MjInit, MjTyped, Answers, Marks

\* A stored row is a row.
LEMMA StoredType == \A j \in Jobs : Stored(j) \in JobRows
BY DEF Stored, JobRows

\* So is a row an item was copied into.
LEMMA RowOfType == \A s \in {"running", "SUCCESS", "FAILURE"} : RowOf(s) \in JobRows
BY DEF RowOf, JobRows

\* A report is about the first of the rows that carry the id.
LEMMA FirstShares ==
    ASSUME NEW j \in Jobs, Sharing({j}) # {}
    PROVE  (CHOOSE k \in Sharing({j}) : \A l \in Sharing({j}) : k <= l) \in Sharing({j})
<1>1. Sharing({j}) \in SUBSET Nat
  BY MidjourneyAssumption DEF Sharing
<1>2. \E k \in Sharing({j}) : \A l \in Sharing({j}) : k <= l
  BY <1>1, LeastNat
<1> QED
  BY <1>2

-----------------------------------------------------------------------------
(* How the tables agree *)

\* Where a handler is before the service has answered, and after the row was
\* written.
Early == {"new", "send", "relax", "resend"}

Late == {"check", "signal", "settle", "over", "gone"}

\* What the tables say of each other: the service knows a job only after it was
\* sent, a row is written after that, the poller works on rows that are open (or
\* that a notification ended behind its back), and an item it works on was the
\* service's answer.
MjStored ==
    /\ \A j \in Jobs : job[j].pc \in Early => job[j].code = "none" /\ service[j] = "unknown"
    /\ \A j \in Jobs : mjrow[j].at # "absent" => job[j].pc \in Late
    /\ \A j \in listed : mjrow[j].at = "open" \/ (mjrow[j].at = "100%" /\ "notified" \in told[j])
    /\ writing # <<>> =>
          /\ mjpoller = "items" /\ writing[1] \notin listed
          /\ mjrow[writing[1]].at = "open" \/ (mjrow[writing[1]].at = "100%" /\ "notified" \in told[writing[1]])
    /\ mjpoller = "items" => \A j \in listed :
          /\ job[j].id # 0 /\ items[job[j].id] \in Answers
          /\ items[job[j].id] = "FAILURE" => service[job[j].id] = "FAILURE"

\* Every step keeps the types.
LEMMA MjTypedStep == MjTyped /\ MjStored /\ [MjNext]_mjvars => MjTyped'
<1> SUFFICES ASSUME MjTyped, MjStored, [MjNext]_mjvars PROVE MjTyped'
  OBVIOUS
<1>1. ASSUME NEW j \in Jobs, Request(j) PROVE MjTyped'
  BY <1>1, RequestDoes DEF MjTyped, Handled
<1>2. ASSUME NEW j \in Jobs, Send(j) PROVE MjTyped'
  BY <1>2, SendDoes DEF MjTyped, Handled, Replied, Answers
<1>3. ASSUME NEW j \in Jobs, Relax(j) PROVE MjTyped'
  BY <1>3, RelaxDoes DEF MjTyped, Handled
<1>4. ASSUME NEW j \in Jobs, Resend(j) PROVE MjTyped'
  <2>1. told' = told \/ Tell(j, "settled twice")
    BY <1>4, ResendDoes
  <2>2. told' \in [Jobs \cup {0} -> SUBSET Marks]
    BY <2>1, TellType DEF MjTyped, Marks
  <2> QED
    BY <1>4, <2>2, ResendDoes DEF MjTyped, Handled, Replied, Answers
<1>5. ASSUME NEW j \in Jobs, MjInsert(j) PROVE MjTyped'
  <2>1. mjrow' \in [Jobs -> JobRows]
    BY <1>5, InsertDoes, StoredType DEF MjTyped
  <2> QED
    BY <1>5, <2>1, InsertDoes DEF MjTyped, Moved, Handled
<1>6. ASSUME NEW j \in Jobs, MjCheck(j) PROVE MjTyped'
  <2>1. told' \in [Jobs \cup {0} -> SUBSET Marks]
    BY <1>6, CheckDoes, TellType DEF MjTyped, Marks
  <2> QED
    BY <1>6, <2>1, CheckDoes DEF MjTyped, Moved, Handled
<1>7. ASSUME NEW j \in Jobs, MjSignal(j) PROVE MjTyped'
  BY <1>7, SignalDoes DEF MjTyped, Moved, Handled
<1>8. ASSUME NEW j \in Jobs, Settle(j) PROVE MjTyped'
  BY <1>8, SettleDoes DEF MjTyped, Handled
<1>9. ASSUME NEW j \in Jobs, MjFinish(j) PROVE MjTyped'
  BY <1>9 DEF MjFinish, MjTyped, Answers
<1>10. ASSUME NEW j \in Jobs, GrowsOld(j) PROVE MjTyped'
  BY <1>10, FaultType DEF GrowsOld, MjTyped
<1>11. ASSUME NEW j \in Jobs, RelayMidjourneyNotify(j) PROVE MjTyped'
  <2> DEFINE first == CHOOSE k \in Sharing({j}) : \A l \in Sharing({j}) : k <= l
  <2>1. first \in Jobs
    BY <1>11, FirstShares DEF RelayMidjourneyNotify, Sharing
  <2>2. Tell(first, "notified") /\ Fault
    BY <1>11 DEF RelayMidjourneyNotify
  <2>3. PICK s \in {"running", service[j]} : mjrow' = [mjrow EXCEPT ![first] = RowOf(s)]
    BY <1>11 DEF RelayMidjourneyNotify
  <2>4. service[j] \in {"running", "SUCCESS", "FAILURE"}
    BY <1>11 DEF RelayMidjourneyNotify, MjTyped, Answers
  <2>5. UNCHANGED <<job, service, old, mjactive, mjpoller, listed, items, writing, paid, back>>
    BY <1>11 DEF RelayMidjourneyNotify
  <2> HIDE DEF first
  <2>6. mjrow' \in [Jobs -> JobRows]
    <3>1. RowOf(s) \in JobRows
      BY <2>4, RowOfType
    <3> QED
      BY <2>3, <3>1 DEF MjTyped
  <2>7. told' \in [Jobs \cup {0} -> SUBSET Marks]
    BY <2>1, <2>2, TellType DEF MjTyped, Marks
  <2> QED
    BY <2>2, <2>5, <2>6, <2>7, FaultType DEF MjTyped
<1>12. CASE MjWake \/ MjDeactivate \/ MjFetch \/ MjSleep \/ MjPanic
  BY <1>12, FaultType DEF MjWake, MjDeactivate, MjFetch, MjSleep, MjPanic, MjTyped
<1>13. CASE MjList
  <2>1. MjOpen \subseteq Jobs
    BY DEF MjOpen
  <2>2. told' \in [Jobs \cup {0} -> SUBSET Marks]
    BY <1>13, TellType DEF MjList, MjTyped, Marks
  <2> QED
    BY <1>13, <2>1, <2>2, FaultType DEF MjList, MjTyped
<1>14. ASSUME NEW lost, MjGiveUp(lost), listed' \subseteq listed, mjpoller' \in {"list", "work", "items"}
       PROVE  MjTyped'
  <2>1. CASE /\ mjrow' = [j \in Jobs |-> IF j \in lost THEN [at |-> "100%", status |-> "FAILURE"] ELSE mjrow[j]]
             /\ told' = [j \in Jobs \cup {0} |-> IF j \in lost THEN told[j] \cup {"given up"} ELSE told[j]]
             /\ UNCHANGED faults
    <3>1. [at |-> "100%", status |-> "FAILURE"] \in JobRows
      BY DEF JobRows
    <3>2. mjrow' \in [Jobs -> JobRows]
      BY <2>1, <3>1 DEF MjTyped
    <3>3. told' \in [Jobs \cup {0} -> SUBSET Marks]
      BY <2>1 DEF MjTyped, Marks
    <3> QED
      BY <1>14, <2>1, <3>2, <3>3 DEF MjGiveUp, MjTyped
  <2>2. CASE Fault /\ UNCHANGED <<mjrow, told>>
    BY <1>14, <2>2, FaultType DEF MjGiveUp, MjTyped
  <2> QED
    BY <1>14, <2>1, <2>2 DEF MjGiveUp
<1>15. ASSUME NEW j \in Jobs, MjSkip(j) PROVE MjTyped'
  BY <1>15 DEF MjSkip, MjTyped
<1>16. ASSUME NEW j \in Jobs, MjUpdate(j) PROVE MjTyped'
  <2>1. Item(j) \in {"running", "SUCCESS", "FAILURE"}
    BY <1>16 DEF MjUpdate, Handling, Item, MjStored, Answers
  <2>2. writing' \in Jobs \X {"running", "SUCCESS", "FAILURE"}
    BY <1>16, <2>1 DEF MjUpdate
  <2>3. Price[job[j].mode] \in Nat
    BY PriceNat DEF MjTyped
  <2>4. back' \in [Jobs -> Nat]
    BY <1>16, <2>3 DEF MjUpdate, MjTyped
  <2>5. told' \in [Jobs \cup {0} -> SUBSET Marks]
    BY <1>16, TellType DEF MjUpdate, MjTyped, Marks
  <2>6. faults' \in 0..MaxFaults
    BY <1>16, FaultType DEF MjUpdate, MjTyped
  <2> QED
    BY <1>16, <2>2, <2>4, <2>5, <2>6 DEF MjUpdate, MjTyped
<1>17. CASE MjSave
  <2>1. PICK j \in Jobs, s \in {"running", "SUCCESS", "FAILURE"} : writing = <<j, s>>
    BY <1>17 DEF MjSave, MjTyped
  <2>2. writing[1] = j /\ writing[2] = s
    BY <2>1
  <2>3. mjrow' \in [Jobs -> JobRows]
    BY <1>17, <2>2, RowOfType DEF MjSave, MjTyped
  <2>4. told' \in [Jobs \cup {0} -> SUBSET Marks]
    BY <1>17, <2>2, TellType DEF MjSave, MjTyped, Marks
  <2> QED
    BY <1>17, <2>3, <2>4, FaultType DEF MjSave, MjTyped
<1>18. CASE MjRestart
  <2>1. \A j \in Jobs : [job[j] EXCEPT !.pc = "gone"] \in Job
    BY AtType DEF MjTyped, Steps
  <2>2. job' \in [Jobs -> Job]
    BY <1>18, <2>1 DEF MjRestart, MjTyped
  <2>3. told' \in [Jobs \cup {0} -> SUBSET Marks]
    <3>1. CASE writing = <<>>
      BY <1>18, <3>1 DEF MjRestart, MjTyped
    <3>2. CASE writing # <<>>
      <4>1. PICK j \in Jobs : j = writing[1]
        BY <3>2 DEF MjTyped
      <4>2. told' = [told EXCEPT ![0] = {}, ![j] = @ \cup {"unsaved"}]
        BY <1>18, <3>2, <4>1, Zenon DEF MjRestart
      <4> QED
        BY <4>2 DEF MjTyped, Marks
    <3> QED
      BY <3>1, <3>2
  <2> QED
    BY <1>18, <2>2, <2>3, FaultType DEF MjRestart, MjTyped
<1>19. CASE UNCHANGED mjvars
  BY <1>19 DEF mjvars, MjTyped
<1> QED
  BY <1>1, <1>2, <1>3, <1>4, <1>5, <1>6, <1>7, <1>8, <1>9, <1>10, <1>11, <1>12, <1>13, <1>14, <1>15, <1>16, <1>17, <1>18, <1>19
     DEF MjNext, MjHandle, MjPoll, MjFixNullIds, MjChannelGone

\* MjStored holds at the start.
LEMMA MjStoredInit == MjInit => MjStored
<1> SUFFICES ASSUME MjInit PROVE MjStored
  OBVIOUS
<1>1. \A j \in Jobs : job[j].code = "none" /\ service[j] = "unknown" /\ mjrow[j].at = "absent"
  BY DEF MjInit, Idle, NoRow
<1>2. listed = {} /\ writing = <<>>
  BY DEF MjInit
<1> QED
  BY <1>1, <1>2 DEF MjStored

\* A row is stored only after the service was asked.
LEMMA HandlerKeepsStored ==
    ASSUME MjTyped, MjStored, NEW j \in Jobs, Handled(j),
           \A k \in Jobs : mjrow'[k] = mjrow[k] \/ (k = j /\ mjrow[j].at = "absent"),
           job'[j].pc \in Early => job'[j].code = "none" /\ service'[j] = "unknown",
           mjrow'[j].at # "absent" => job'[j].pc \in Late,
           mjrow[j].at # "absent" => job'[j].id = job[j].id,
           \A k \in Jobs : k # j => service'[k] = service[k],
           service[j] = "FAILURE" => service'[j] = "FAILURE",
           \A k \in Jobs : told[k] \subseteq told'[k]
    PROVE  MjStored'
<1>1. \A k \in Jobs : job'[k].pc \in Early => job'[k].code = "none" /\ service'[k] = "unknown"
  BY DEF MjStored, Handled
<1>2. \A k \in Jobs : mjrow'[k].at # "absent" => job'[k].pc \in Late
  BY DEF MjStored, Handled
<1>3. \A k \in listed' : mjrow'[k].at = "open" \/ (mjrow'[k].at = "100%" /\ "notified" \in told'[k])
  <2> SUFFICES ASSUME NEW k \in listed
               PROVE  mjrow'[k].at = "open" \/ (mjrow'[k].at = "100%" /\ "notified" \in told'[k])
    BY DEF Handled
  <2>1. k \in Jobs /\ (mjrow[k].at = "open" \/ (mjrow[k].at = "100%" /\ "notified" \in told[k]))
    BY DEF MjStored, MjTyped
  <2>2. mjrow'[k] = mjrow[k] /\ told[k] \subseteq told'[k]
    BY <2>1
  <2> QED
    BY <2>1, <2>2
<1>4. writing' # <<>> =>
          /\ mjpoller' = "items" /\ writing'[1] \notin listed'
          /\ mjrow'[writing'[1]].at = "open" \/ (mjrow'[writing'[1]].at = "100%" /\ "notified" \in told'[writing'[1]])
  <2>1. writing # <<>> => writing[1] \in Jobs
    BY DEF MjTyped
  <2> QED
    BY <2>1 DEF MjStored, Handled
<1>5. mjpoller' = "items" => \A k \in listed' :
          /\ job'[k].id # 0 /\ items'[job'[k].id] \in Answers
          /\ items'[job'[k].id] = "FAILURE" => service'[job'[k].id] = "FAILURE"
  <2> SUFFICES ASSUME mjpoller = "items", NEW k \in listed
               PROVE  /\ job'[k].id # 0 /\ items[job'[k].id] \in Answers
                      /\ items[job'[k].id] = "FAILURE" => service'[job'[k].id] = "FAILURE"
    BY DEF Handled
  <2>1. k \in Jobs /\ mjrow[k].at # "absent"
    BY DEF MjTyped, MjStored
  <2>2. job'[k].id = job[k].id
    BY <2>1 DEF Handled
  <2>3. job[k].id # 0 /\ items[job[k].id] \in Answers
        /\ (items[job[k].id] = "FAILURE" => service[job[k].id] = "FAILURE")
    BY DEF MjStored
  <2>4. job[k].id \in Jobs
    BY <2>1, <2>3 DEF MjTyped, Job
  <2> QED
    BY <2>2, <2>3, <2>4
<1> QED
  BY <1>1, <1>2, <1>3, <1>4, <1>5 DEF MjStored

\* Every step keeps MjStored.
LEMMA MjStoredStep == MjTyped /\ MjStored /\ [MjNext]_mjvars => MjStored'
<1> SUFFICES ASSUME MjTyped, MjStored, [MjNext]_mjvars PROVE MjStored'
  OBVIOUS
<1>0. \A j \in Jobs : job[j].pc \notin Late => mjrow[j].at = "absent" 
  BY DEF MjStored
<1>1. ASSUME NEW j \in Jobs, Request(j) \/ Relax(j) PROVE MjStored'
  <2>1. job[j].pc \in {"new", "relax"} /\ job'[j].code = job[j].code /\ UNCHANGED <<mjrow, service, told>> /\ Handled(j)
    BY <1>1, RequestDoes, RelaxDoes
  <2>2. job'[j].pc \in {"send", "over", "resend"}
    BY <1>1, RequestDoes, RelaxDoes
  <2>3. job[j].pc \in Early /\ job[j].pc \notin Late
    BY <2>1 DEF Early, Late
  <2> QED
    BY <1>0, <2>1, <2>2, <2>3, HandlerKeepsStored DEF MjStored
<1>2. ASSUME NEW j \in Jobs, Send(j) \/ Resend(j) PROVE MjStored'
  <2>1. job[j].pc \in {"send", "resend"} /\ UNCHANGED mjrow /\ Handled(j)
    BY <1>2, SendDoes, ResendDoes
  <2>2. job[j].pc \in Early /\ job[j].pc \notin Late
    BY <2>1 DEF Early, Late
  <2>3. service[j] = "unknown" /\ job[j].code = "none" /\ mjrow[j].at = "absent"
    BY <1>0, <2>2 DEF MjStored
  <2>4. \A k \in Jobs : told[k] \subseteq told'[k]
    <3>1. told' = told \/ Tell(j, "settled twice")
      BY <1>2, SendDoes, ResendDoes
    <3> QED
      BY <3>1, TellType DEF MjTyped, Marks
  <2>5. \/ job'[j].pc = "insert" /\ \A k \in Jobs : k # j => service'[k] = service[k]
        \/ job'[j].pc \in {"over", "relax"} /\ service' = service /\ job'[j].code = job[j].code
    BY <1>2, SendDoes, ResendDoes DEF Replied
  <2>6. job'[j].pc \in Early => job'[j].code = "none" /\ service'[j] = "unknown"
    BY <2>3, <2>5 DEF Early
  <2> QED
    BY <2>1, <2>3, <2>4, <2>5, <2>6, HandlerKeepsStored
<1>3. ASSUME NEW j \in Jobs, MjInsert(j) PROVE MjStored'
  <2>1. Moved(j) /\ UNCHANGED told /\ job[j].pc = "insert" /\ job'[j].pc \in {"check", "settle"}
    BY <1>3, InsertDoes
  <2>2. mjrow[j].at = "absent"
    BY <1>0, <2>1 DEF Late
  <2>3. \A k \in Jobs : mjrow'[k] = mjrow[k] \/ k = j
    BY <1>3, InsertDoes DEF MjTyped
  <2>4. job'[j].pc \in Late /\ job'[j].pc \notin Early
    BY <2>1 DEF Late, Early
  <2> QED
    BY <2>1, <2>2, <2>3, <2>4, HandlerKeepsStored DEF Moved
<1>4. ASSUME NEW j \in Jobs, MjCheck(j) \/ MjSignal(j) \/ Settle(j) PROVE MjStored'
  <2>1. Handled(j) /\ UNCHANGED <<mjrow, service>> /\ job'[j].id = job[j].id
    BY <1>4, CheckDoes, SignalDoes, SettleDoes DEF Moved
  <2>2. job'[j].pc \in Late /\ job'[j].pc \notin Early
    BY <1>4, CheckDoes, SignalDoes, SettleDoes DEF Late, Early
  <2>3. \A k \in Jobs : told[k] \subseteq told'[k]
    <3>1. told' = told \/ Tell(0, "missed")
      BY <1>4, CheckDoes, SignalDoes, SettleDoes
    <3> QED
      BY <3>1, TellType, MidjourneyAssumption DEF MjTyped, Marks
  <2> QED
    BY <2>1, <2>2, <2>3, HandlerKeepsStored
<1>5. ASSUME NEW j \in Jobs, MjFinish(j) \/ GrowsOld(j) PROVE MjStored'
  <2>1. UNCHANGED <<job, mjrow, mjpoller, listed, items, writing, told>>
    BY <1>5 DEF MjFinish, GrowsOld
  <2>2. \A k \in Jobs : service[k] \in {"unknown", "FAILURE"} => service'[k] = service[k]
    BY <1>5 DEF MjFinish, GrowsOld, MjTyped
  <2>3. \A k \in listed : mjpoller = "items" => job[k].id \in Jobs
    BY DEF MjStored, MjTyped, Job
  <2> QED
    BY <2>1, <2>2, <2>3 DEF MjStored, MjTyped
<1>6. ASSUME NEW j \in Jobs, RelayMidjourneyNotify(j) PROVE MjStored'
  <2>1. PICK first \in Sharing({j}) :
           /\ \E s : mjrow' = [mjrow EXCEPT ![first] = RowOf(s)]
           /\ Tell(first, "notified")
    BY <1>6, FirstShares DEF RelayMidjourneyNotify
  <2>2. first \in Jobs /\ mjrow[first].at # "absent"
    BY DEF Sharing
  <2>3. UNCHANGED <<job, service, mjpoller, listed, items, writing>>
    BY <1>6 DEF RelayMidjourneyNotify
  <2>4. PICK s : mjrow' = [mjrow EXCEPT ![first] = RowOf(s)]
    BY <2>1
  <2>5. \A k \in Jobs : k # first => mjrow'[k] = mjrow[k]
    BY <2>4 DEF MjTyped
  <2>6. mjrow'[first].at \in {"open", "100%"}
    <3>1. mjrow'[first] = RowOf(s)
      BY <2>2, <2>4 DEF MjTyped
    <3>2. RowOf(s).at \in {"open", "100%"}
      BY DEF RowOf
    <3> QED
      BY <3>1, <3>2
  <2>7. "notified" \in told'[first] /\ \A k \in Jobs : told[k] \subseteq told'[k]
    BY <2>1, <2>2 DEF Tell, MjTyped
  <2>8. writing # <<>> => writing[1] \in Jobs
    BY DEF MjTyped
  <2> QED
    <3>1. \A k \in Jobs : mjrow'[k].at # "absent" => job'[k].pc \in Late
      BY <2>2, <2>3, <2>5 DEF MjStored
    <3>2. \A k \in Jobs : mjrow[k].at = "open" \/ (mjrow[k].at = "100%" /\ "notified" \in told[k])
                       => mjrow'[k].at = "open" \/ (mjrow'[k].at = "100%" /\ "notified" \in told'[k])
      BY <2>5, <2>6, <2>7
    <3>3. listed \subseteq Jobs
      BY DEF MjTyped
    <3> QED
      BY <2>3, <2>8, <3>1, <3>2, <3>3 DEF MjStored
<1>7. CASE MjWake \/ MjDeactivate \/ MjSleep \/ MjPanic
  <2>1. UNCHANGED <<job, mjrow, service, writing, told>>
    BY <1>7 DEF MjWake, MjDeactivate, MjSleep, MjPanic
  <2>2. (UNCHANGED listed \/ listed' = {}) /\ (writing # <<>> => FALSE) /\ mjpoller' # "items"
    BY <1>7 DEF MjWake, MjDeactivate, MjSleep, MjPanic, MjStored
  <2> QED
    BY <2>1, <2>2 DEF MjStored
<1>8. CASE MjList
  <2>1. UNCHANGED <<job, mjrow, service, writing>> /\ writing = <<>> /\ mjpoller' # "items"
    BY <1>8 DEF MjList, MjStored
  <2>2. \A j \in Jobs : told'[j] = told[j]
    <3>1. 0 \notin Jobs
      BY MidjourneyAssumption
    <3>2. told' = [told EXCEPT ![0] = {}] \/ Tell(0, "missed")
      BY <1>8 DEF MjList
    <3> QED
      BY <3>1, <3>2 DEF Tell, MjTyped
  <2>3. listed' = listed \/ listed' = MjOpen
    BY <1>8 DEF MjList
  <2> QED
    BY <2>1, <2>2, <2>3 DEF MjStored, MjOpen, MjTyped
<1>9. ASSUME NEW lost \in SUBSET Jobs, MjGiveUp(lost), mjpoller = "work", mjpoller' # "items" \/ listed' = {},
             listed' \subseteq listed \ lost, \A j \in lost : mjrow[j].at # "absent"
      PROVE  MjStored'
  <2>1. UNCHANGED <<job, service, items, writing>> /\ writing = <<>>
    BY <1>9 DEF MjGiveUp, MjStored
  <2>2. \A j \in Jobs : j \notin lost => mjrow'[j] = mjrow[j] /\ told'[j] = told[j]
    BY <1>9 DEF MjGiveUp, MjTyped
  <2> QED
    BY <1>9, <2>1, <2>2 DEF MjStored, MjTyped
<1>10. CASE MjFixNullIds
  <2>1. NullIds \in SUBSET Jobs /\ \A j \in NullIds : mjrow[j].at # "absent"
    BY DEF NullIds, MjTyped, MjStored
  <2> QED
    BY <1>9, <1>10, <2>1 DEF MjFixNullIds
<1>11. CASE MjChannelGone
  <2>1. Sharing({job[j].id : j \in listed}) \in SUBSET Jobs
        /\ \A j \in Sharing({job[k].id : k \in listed}) : mjrow[j].at # "absent"
    BY DEF Sharing
  <2> QED
    BY <1>9, <1>11, <2>1 DEF MjChannelGone
<1>12. CASE MjFetch
  <2>1. UNCHANGED <<job, mjrow, service, writing, told>> /\ writing = <<>> /\ NullIds = {}
    BY <1>12 DEF MjFetch, MjStored
  <2>2. CASE listed' = {}
    BY <2>1, <2>2 DEF MjStored
  <2>3. CASE items' = [id \in {job[j].id : j \in listed} |-> service[id]] /\ listed' = listed
    <3>1. \A j \in listed : job[j].id # 0 /\ job[j].id \in Jobs /\ items'[job[j].id] = service[job[j].id]
      BY <2>1, <2>3 DEF NullIds, MjTyped, Job
    <3>2. \A k \in Jobs : service[k] \in Answers
      BY DEF MjTyped
    <3> QED
      BY <2>1, <2>3, <3>1, <3>2 DEF MjStored
  <2> QED
    BY <1>12, <2>2, <2>3 DEF MjFetch
<1>13. ASSUME NEW j \in Jobs, MjSkip(j) PROVE MjStored'
  <2>1. UNCHANGED <<job, mjrow, service, mjpoller, items, writing, told>> /\ listed' \subseteq listed /\ writing = <<>>
    BY <1>13 DEF MjSkip
  <2> QED
    BY <2>1 DEF MjStored
<1>14. ASSUME NEW j \in Jobs, MjUpdate(j) PROVE MjStored'
  <2>1. UNCHANGED <<job, mjrow, service, mjpoller, items>> /\ listed' \subseteq listed \ {j}
    BY <1>14 DEF MjUpdate
  <2>2. writing' = <<j, Item(j)>> /\ mjpoller = "items" /\ j \in listed
    BY <1>14 DEF MjUpdate, Handling
  <2>3. \A k \in Jobs : told[k] \subseteq told'[k]
    BY <1>14, TellType DEF MjUpdate, MjTyped, Marks
  <2> QED
    BY <2>1, <2>2, <2>3 DEF MjStored, MjTyped
<1>15. CASE MjSave
  <2>1. PICK j \in Jobs, s \in {"running", "SUCCESS", "FAILURE"} : writing = <<j, s>>
    BY <1>15 DEF MjSave, MjTyped
  <2>2. writing # <<>> /\ writing[1] = j /\ writing[2] = s
    BY <2>1
  <2>3. j \notin listed /\ mjrow[j].at # "absent"
    BY <2>2 DEF MjStored
  <2>4. mjrow' \in {mjrow, [mjrow EXCEPT ![j] = RowOf(s)]}
    BY <1>15, <2>2 DEF MjSave
  <2>5. \A k \in Jobs : told[k] \subseteq told'[k]
    <3>1. told' = told \/ Tell(j, "unsaved")
      BY <1>15, <2>2 DEF MjSave
    <3>2. j \in Jobs \cup {0} /\ "unsaved" \in Marks
      BY DEF Marks
    <3>3. told \in [Jobs \cup {0} -> SUBSET Marks]
      BY DEF MjTyped
    <3> HIDE DEF MjTyped, MjStored
    <3> QED BY <3>1, <3>2, <3>3, TellType
  <2>6. UNCHANGED <<job, service, mjpoller, listed, items>> /\ writing' = <<>>
    BY <1>15 DEF MjSave
  <2>7. \A k \in Jobs : k # j => mjrow'[k] = mjrow[k]
    BY <2>4 DEF MjTyped
  <2>8. \A k \in Jobs : k # j /\ mjrow[k].at # "absent" => job[k].pc \in Late
    BY DEF MjStored
  <2>9. job[j].pc \in Late
    BY <2>3 DEF MjStored
  <2>10. \A k \in listed : mjrow[k].at = "open" \/ (mjrow[k].at = "100%" /\ "notified" \in told[k])
    BY DEF MjStored
  <2>11. listed' = listed /\ listed \subseteq Jobs /\ mjpoller' = mjpoller /\ job' = job /\ service' = service
         /\ items' = items /\ writing' = <<>>
    BY <2>6 DEF MjTyped
  <2>12. \A k \in Jobs : mjrow'[k].at # "absent" => job'[k].pc \in Late
    BY <2>7, <2>8, <2>9, <2>11
  <2>13. \A k \in listed' : mjrow'[k].at = "open" \/ (mjrow'[k].at = "100%" /\ "notified" \in told'[k])
    BY <2>3, <2>5, <2>7, <2>10, <2>11
  <2> QED
    BY <2>11, <2>12, <2>13 DEF MjStored
<1>16. CASE MjRestart
  <2>1. \A j \in Jobs : \/ job'[j] = job[j]
                        \/ job'[j].pc = "gone" /\ job[j].pc # "new"
    BY <1>16 DEF MjRestart, MjTyped, Job
  <2>2. UNCHANGED <<mjrow, service>> /\ listed' = {} /\ writing' = <<>>
    BY <1>16 DEF MjRestart
  <2> QED
    BY <2>1, <2>2 DEF MjStored, Early, Late
<1>17. CASE UNCHANGED mjvars
  BY <1>17 DEF mjvars, MjStored
<1> QED
  BY <1>1, <1>2, <1>3, <1>4, <1>5, <1>6, <1>7, <1>8, <1>10, <1>11, <1>12, <1>13, <1>14, <1>15, <1>16, <1>17
     DEF MjNext, MjHandle, MjPoll

-----------------------------------------------------------------------------
(* What a submission has paid *)

\* The history says that the job was settled twice.
Twice(j) == "settled twice" \in told[j]

\* What a submission has paid so far: its reservation until it is settled, then
\* the price or nothing.
Owed(j) ==
    /\ job[j].held \in {0, Price[job[j].mode]}
    /\ job[j].pc \in {"new", "relax"} => paid[j] = 0
    /\ job[j].pc \in {"send", "resend", "insert", "check", "signal", "settle"} => paid[j] = job[j].held
    /\ Twice(j) => job[j].pc \in {"over", "gone"} /\ job[j].code = "none"
    /\ job[j].pc = "over" /\ ~Twice(j) =>
          /\ paid[j] \in {0, Price[job[j].mode]}
          /\ paid[j] > 0 => job[j].code \in Accepted
          /\ job[j].code \in Accepted \ {"ok 2xx"} /\ job[j].kind \notin {"free", "swap"} => paid[j] > 0

MjOwed == \A j \in Jobs : Owed(j)

\* A handler's step is about its own job.
LEMMA OthersOwed ==
    ASSUME MjOwed, NEW j \in Jobs, Handled(j), Owed(j)',
           \A k \in Jobs : k # j => (Twice(k)' <=> Twice(k))
    PROVE  MjOwed'
<1> SUFFICES ASSUME NEW k \in Jobs, k # j PROVE Owed(k)'
  BY DEF MjOwed
<1>1. job'[k] = job[k] /\ paid'[k] = paid[k] /\ (Twice(k)' <=> Twice(k))
  BY DEF Handled
<1>2. Owed(k)
  BY DEF MjOwed
<1> QED
  BY <1>1, <1>2 DEF Owed

\* A step of the poller changes nothing that was paid.
LEMMA NobodyOwes ==
    ASSUME MjOwed, UNCHANGED <<job, paid>>, \A k \in Jobs : Twice(k)' <=> Twice(k)
    PROVE  MjOwed'
<1> SUFFICES ASSUME NEW k \in Jobs PROVE Owed(k)'
  BY DEF MjOwed
<1>1. job'[k] = job[k] /\ paid'[k] = paid[k] /\ (Twice(k)' <=> Twice(k)) /\ Owed(k)
  BY DEF MjOwed
<1> QED
  BY <1>1 DEF Owed

\* Nothing is owed at the start.
LEMMA MjOwedInit == MjInit => MjOwed
<1> SUFFICES ASSUME MjInit, NEW j \in Jobs PROVE Owed(j)
  BY DEF MjOwed
<1>1. job[j].pc = "new" /\ job[j].held = 0 /\ paid[j] = 0
  BY DEF MjInit, Idle
<1>2. ~Twice(j)
  BY DEF MjInit, Twice
<1> QED
  BY <1>1, <1>2 DEF Owed

\* A job without an answer was not accepted.
LEMMA NotAccepted == "none" \notin Accepted
BY DEF Accepted

\* A handler that gave up before the service took the job owes nothing.
LEMMA NothingOwed ==
    ASSUME NEW j \in Jobs, job'[j].pc \in {"over", "relax"}, job'[j].code = "none",
           job'[j].held \in {0, Price[job'[j].mode]}, paid'[j] = 0, ~Twice(j)'
    PROVE  Owed(j)'
BY NotAccepted DEF Owed

\* Nothing else that is told says that a job was settled twice.
LEMMA TellTwice ==
    ASSUME MjTyped, NEW j \in Jobs \cup {0}, NEW what, what # "settled twice", Tell(j, what)
    PROVE  \A k \in Jobs : Twice(k)' <=> Twice(k)
BY DEF Tell, Twice, MjTyped

\* Every step keeps the books of the submissions.
LEMMA MjOwedStep == MjTyped /\ MjStored /\ MjOwed /\ [MjNext]_mjvars => MjOwed'
<1> SUFFICES ASSUME MjTyped, MjStored, MjOwed, [MjNext]_mjvars PROVE MjOwed'
  OBVIOUS
<1>0. ASSUME NEW j \in Jobs
      PROVE  /\ Owed(j) /\ Price[job[j].mode] \in Nat \ {0} /\ job[j].held \in Nat /\ paid[j] \in Int
             /\ job[j].held \in Int /\ job[j].held \in {0, Price[job[j].mode]}
             /\ job[j].pc \in Early => job[j].code = "none"
  <2>1. Owed(j)
    BY DEF MjOwed
  <2>2. job[j].held \in {0, Price[job[j].mode]}
    BY <2>1 DEF Owed
  <2> QED
    BY <2>1, <2>2, PriceNat DEF MjTyped, MjStored
<1>1. ASSUME NEW j \in Jobs, Request(j) PROVE MjOwed'
  <2>1. Owed(j)'
    <3>1. paid[j] = 0 /\ ~Twice(j)
      BY <1>0, <1>1, RequestDoes DEF Owed
    <3>2. job'[j].pc = "send" /\ job'[j].held \in {0, Price[job'[j].mode]}
          /\ paid'[j] = paid[j] + job'[j].held /\ UNCHANGED told /\ job' \in [Jobs -> Job]
      BY <1>1, RequestDoes DEF Handled
    <3>3. job'[j].held \in Nat
      BY <3>2, PriceNat
    <3>4. paid'[j] = job'[j].held
      BY <3>1, <3>2, <3>3
    <3>5. ~Twice(j)'
      BY <3>1, <3>2 DEF Twice
    <3> QED
      BY <3>2, <3>4, <3>5 DEF Owed
  <2> QED
    BY <1>1, <2>1, RequestDoes, OthersOwed DEF Twice
<1>2. ASSUME NEW j \in Jobs, Send(j) PROVE MjOwed'
  <2>1. paid[j] = job[j].held /\ ~Twice(j) /\ UNCHANGED told /\ job[j].code = "none"
    BY <1>0, <1>2, SendDoes DEF Owed, Early
  <2>2. Owed(j)'
    <3>1. CASE Replied(j) /\ UNCHANGED paid
      BY <1>0, <2>1, <3>1 DEF Replied, Owed, Twice
    <3>2. CASE /\ job'[j].pc \in {"over", "relax"} /\ paid'[j] = paid[j] - job[j].held
               /\ job'[j].code = job[j].code /\ job'[j].mode = job[j].mode
               /\ job'[j].held \in {0, job[j].held}
      <4>1. paid'[j] = 0 /\ job'[j].held \in {0, Price[job'[j].mode]} /\ job'[j].code = "none"
        <5>1. job[j].held \in Int /\ job[j].held \in {0, Price[job[j].mode]}
          BY <1>0
        <5>2. paid'[j] = 0
          BY <2>1, <3>2, <5>1
        <5> QED
          BY <2>1, <3>2, <5>1, <5>2
      <4>2. ~Twice(j)'
        BY <2>1 DEF Twice
      <4> QED
        BY <3>2, <4>1, <4>2, NothingOwed
    <3> QED
      BY <1>2, <3>1, <3>2, SendDoes
  <2> QED
    BY <1>2, <2>2, SendDoes, OthersOwed DEF Twice
<1>3. ASSUME NEW j \in Jobs, Relax(j) PROVE MjOwed'
  <2>1. paid[j] = 0 /\ ~Twice(j) /\ UNCHANGED told /\ job[j].code = "none" /\ job'[j].code = "none"
    BY <1>0, <1>3, RelaxDoes DEF Owed, Early
  <2>2. Owed(j)'
    <3>1. CASE job'[j].pc = "over" /\ job'[j].held = 0 /\ job'[j].mode = job[j].mode /\ UNCHANGED paid
      <4>1. ~Twice(j)'
        BY <2>1 DEF Twice
      <4> QED
        BY <2>1, <3>1, <4>1, NothingOwed
    <3>2. CASE /\ job'[j].pc = "resend" /\ job'[j].mode = "relax"
               /\ job'[j].held \in {0, Price["relax"]} /\ paid'[j] = paid[j] + job'[j].held
      <4>1. job'[j].held \in Int
        BY <3>2, MidjourneyAssumption
      <4>2. paid'[j] = job'[j].held
        BY <2>1, <3>2, <4>1
      <4>3. ~Twice(j)'
        BY <2>1 DEF Twice
      <4> QED
        BY <3>2, <4>2, <4>3 DEF Owed
    <3> QED
      BY <1>3, <3>1, <3>2, RelaxDoes
  <2> QED
    BY <1>3, <2>2, RelaxDoes, OthersOwed DEF Twice
<1>4. ASSUME NEW j \in Jobs, Resend(j) PROVE MjOwed'
  <2>1. paid[j] = job[j].held /\ ~Twice(j) /\ job[j].code = "none"
    BY <1>0, <1>4, ResendDoes DEF Owed, Early
  <2>2. CASE Replied(j) /\ UNCHANGED <<paid, told>>
    <3>1. Owed(j)'
      BY <1>0, <2>1, <2>2 DEF Replied, Owed, Twice
    <3> QED
      BY <1>4, <2>2, <3>1, ResendDoes, OthersOwed DEF Twice
  <2>3. CASE /\ job'[j].pc = "over" /\ job'[j].held = 0 /\ job'[j].mode = job[j].mode
             /\ job'[j].code = job[j].code /\ Tell(j, "settled twice")
    <3>1. Twice(j)' /\ \A k \in Jobs : k # j => (Twice(k)' <=> Twice(k))
      BY <2>3 DEF Tell, Twice, MjTyped
    <3>2. Owed(j)'
      BY <2>1, <2>3, <3>1 DEF Owed
    <3> QED
      BY <1>4, <3>1, <3>2, ResendDoes, OthersOwed
  <2> QED
    BY <1>4, <2>2, <2>3, ResendDoes
<1>5. ASSUME NEW j \in Jobs, MjInsert(j) \/ MjCheck(j) \/ MjSignal(j) PROVE MjOwed'
  <2>1. /\ Moved(j) /\ job[j].pc \in {"insert", "check", "signal"}
        /\ job'[j].pc \in {"check", "signal", "settle"}
    BY <1>5, InsertDoes, CheckDoes, SignalDoes
  <2>2. \A k \in Jobs : Twice(k)' <=> Twice(k)
    <3>1. told' = told \/ Tell(0, "missed")
      BY <1>5, InsertDoes, CheckDoes, SignalDoes
    <3> QED
      BY <3>1, TellTwice DEF Twice
  <2>3. Owed(j)'
    BY <1>0, <2>1, <2>2 DEF Owed, Moved
  <2> QED
    BY <2>1, <2>2, <2>3, OthersOwed DEF Moved
<1>6. ASSUME NEW j \in Jobs, Settle(j) PROVE MjOwed'
  <2>1. paid[j] = job[j].held /\ ~Twice(j) /\ UNCHANGED told
    BY <1>0, <1>6, SettleDoes DEF Owed
  <2>2. paid'[j] = IF Charged(j) THEN Price[job[j].mode] ELSE 0
    BY <1>0, <1>6, <2>1, SettleDoes
  <2>3. Charged(j) => job[j].code \in Accepted
    BY DEF Charged, Accepted
  <2>4. job[j].code \in Accepted \ {"ok 2xx"} /\ job[j].kind \notin {"free", "swap"} => Charged(j)
    BY DEF Charged
  <2>5. Owed(j)'
    <3>1. /\ job'[j].pc = "over" /\ job'[j].held = 0 /\ job'[j].mode = job[j].mode
          /\ job'[j].kind = job[j].kind /\ job'[j].code = job[j].code
      BY <1>6, SettleDoes
    <3>2. paid'[j] \in {0, Price[job[j].mode]} /\ (paid'[j] > 0 <=> Charged(j))
      BY <1>0, <2>2
    <3>3. ~Twice(j)'
      BY <2>1 DEF Twice
    <3> QED
      BY <2>3, <2>4, <3>1, <3>2, <3>3 DEF Owed
  <2> QED
    BY <1>6, <2>1, <2>5, SettleDoes, OthersOwed DEF Twice
<1>7. ASSUME NEW j \in Jobs, MjFinish(j) \/ GrowsOld(j) \/ MjSkip(j) PROVE MjOwed'
  BY <1>7, NobodyOwes DEF MjFinish, GrowsOld, MjSkip, Twice
<1>8. ASSUME NEW j \in Jobs, RelayMidjourneyNotify(j) PROVE MjOwed'
  <2>1. PICK first \in Sharing({j}) : Tell(first, "notified")
    BY <1>8, FirstShares DEF RelayMidjourneyNotify
  <2>2. \A k \in Jobs : Twice(k)' <=> Twice(k)
    BY <2>1, TellTwice DEF Sharing
  <2> QED
    BY <1>8, <2>2, NobodyOwes DEF RelayMidjourneyNotify
<1>9. CASE MjWake \/ MjDeactivate \/ MjFetch \/ MjSleep \/ MjPanic
  BY <1>9, NobodyOwes DEF MjWake, MjDeactivate, MjFetch, MjSleep, MjPanic, Twice
<1>10. CASE MjList
  <2>1. \A k \in Jobs : Twice(k)' <=> Twice(k)
    <3>1. told' = [told EXCEPT ![0] = {}] \/ Tell(0, "missed")
      BY <1>10 DEF MjList
    <3>2. 0 \notin Jobs
      BY MidjourneyAssumption
    <3> QED
      BY <3>1, <3>2, TellTwice DEF Twice, MjTyped
  <2> QED
    BY <1>10, <2>1, NobodyOwes DEF MjList
<1>11. ASSUME NEW lost, MjGiveUp(lost) PROVE MjOwed'
  <2>1. \A k \in Jobs : Twice(k)' <=> Twice(k)
    <3>1. told' = told \/ told' = [j \in Jobs \cup {0} |-> IF j \in lost THEN told[j] \cup {"given up"} ELSE told[j]]
      BY <1>11 DEF MjGiveUp
    <3>2. CASE told' = told
      BY <3>2 DEF Twice
    <3>3. CASE told' = [j \in Jobs \cup {0} |-> IF j \in lost THEN told[j] \cup {"given up"} ELSE told[j]]
      BY <3>3 DEF Twice
    <3> QED
      BY <3>1, <3>2, <3>3
  <2> QED
    BY <1>11, <2>1, NobodyOwes DEF MjGiveUp
<1>12. ASSUME NEW j \in Jobs, MjUpdate(j) PROVE MjOwed'
  <2>1. told' = told \/ Tell(j, "unpaid")
    BY <1>12 DEF MjUpdate
  <2>2. \A k \in Jobs : Twice(k)' <=> Twice(k)
    BY <2>1, TellTwice DEF Twice
  <2> QED
    BY <1>12, <2>2, NobodyOwes DEF MjUpdate
<1>13. CASE MjSave
  <2>1. writing[1] \in Jobs /\ (told' = told \/ Tell(writing[1], "unsaved"))
    BY <1>13 DEF MjSave, MjTyped
  <2>2. \A k \in Jobs : Twice(k)' <=> Twice(k)
    BY <2>1, TellTwice DEF Twice
  <2> QED
    BY <1>13, <2>2, NobodyOwes DEF MjSave
<1>14. CASE MjRestart
  <2>1. \A j \in Jobs : \/ job'[j] = job[j]
                        \/ /\ job'[j].pc = "gone" /\ job'[j].code = job[j].code
                           /\ job'[j].held = job[j].held /\ job'[j].mode = job[j].mode
    BY <1>14 DEF MjRestart, MjTyped, Job
  <2>2. \A k \in Jobs : Twice(k)' <=> Twice(k)
    <3>1. 0 \notin Jobs
      BY MidjourneyAssumption
    <3>2. CASE writing = <<>>
      BY <1>14, <3>1, <3>2 DEF MjRestart, Twice, MjTyped
    <3>3. CASE writing # <<>>
      <4>1. PICK j \in Jobs : j = writing[1]
        BY <3>3 DEF MjTyped
      <4>2. told' = [told EXCEPT ![0] = {}, ![j] = @ \cup {"unsaved"}]
        BY <1>14, <3>3, <4>1, Zenon DEF MjRestart
      <4> QED
        BY <3>1, <4>2 DEF Twice, MjTyped
    <3> QED
      BY <3>2, <3>3
  <2>3. UNCHANGED paid
    BY <1>14 DEF MjRestart
  <2>4. ASSUME NEW j \in Jobs PROVE Owed(j)'
    <3>1. Owed(j) /\ (Twice(j)' <=> Twice(j)) /\ paid'[j] = paid[j]
      BY <1>0, <2>2, <2>3
    <3>2. CASE job'[j] = job[j]
      BY <3>1, <3>2 DEF Owed
    <3>3. CASE /\ job'[j].pc = "gone" /\ job'[j].code = job[j].code
               /\ job'[j].held = job[j].held /\ job'[j].mode = job[j].mode
      BY <3>1, <3>3 DEF Owed
    <3> QED
      BY <2>1, <3>2, <3>3
  <2> QED
    BY <2>4 DEF MjOwed
<1>15. CASE UNCHANGED mjvars
  BY <1>15, NobodyOwes DEF mjvars, Twice
<1> QED
  BY <1>1, <1>2, <1>3, <1>4, <1>5, <1>6, <1>7, <1>8, <1>9, <1>10, <1>11, <1>12, <1>13, <1>14, <1>15
     DEF MjNext, MjHandle, MjPoll, MjFixNullIds, MjChannelGone

-----------------------------------------------------------------------------
(* What the poller paid back *)

\* Something reopened the row, or kept it open.
Again(j) == told[j] \cap {"unsaved", "notified"} # {}

\* The poller is between the refund of a job and its row.
Writing(j) == writing # <<>> /\ writing[1] = j

Fails(j) == Writing(j) /\ writing[2] = "FAILURE"

\* No one of the named ways excuses a missing refund.
Silent(j) == told[j] \cap {"unpaid", "given up", "notified"} = {}

\* The refund comes before the row: a job that was paid back has a row that says
\* so, or one about to be saved, and neither is listed again.
Repaid(j) ==
    /\ mjrow[j].at = "absent" => back[j] = 0 /\ mjrow[j].status # "FAILURE" /\ ~Writing(j)
    /\ back[j] > 0 => job[j].id \in Jobs /\ (service[job[j].id] = "FAILURE" \/ j \in old)
    /\ back[j] > 0 /\ ~Again(j) =>
          back[j] = Price[job[j].mode] /\ (Fails(j) \/ (mjrow[j].at = "100%" /\ ~Writing(j)))
    /\ Fails(j) /\ "unpaid" \notin told[j] => back[j] >= Price[job[j].mode]
    /\ mjrow[j].status = "FAILURE" /\ Silent(j) => back[j] >= Price[job[j].mode]

MjRepaid == \A j \in Jobs : Repaid(j)

\* Nobody is paid back at the start.
LEMMA MjRepaidInit == MjInit => MjRepaid
<1> SUFFICES ASSUME MjInit, NEW j \in Jobs PROVE Repaid(j)
  BY DEF MjRepaid
<1>1. back[j] = 0 /\ writing = <<>>
  BY DEF MjInit
<1>2. ~Writing(j) /\ ~Fails(j)
  BY <1>1, Zenon DEF Fails, Writing
<1>3. ~(back[j] > 0)
  BY <1>1
<1>4. mjrow[j].status # "FAILURE"
  BY Zenon DEF MjInit, NoRow
<1> QED
  BY <1>1, <1>2, <1>3, <1>4 DEF Repaid

\* Together with what was paid for a submission, this bounds the refunds.
LEMMA RepaidImplies ==
    ASSUME MjTyped, MjOwed, MjRepaid
    PROVE  MjRefunds
<1> SUFFICES ASSUME NEW j \in Jobs
             PROVE  /\ back[j] > 0 => service[job[j].id] = "FAILURE" \/ j \in old
                    /\ back[j] <= Price[job[j].mode] \/ Again(j)
                    /\ job[j].pc = "over" /\ ~Unpaid(j) /\ ~Again(j) => back[j] <= paid[j]
                    /\ mjrow[j].status = "FAILURE" /\ told[j] \cap {"unpaid", "given up", "notified"} = {}
                          => back[j] >= Price[job[j].mode]
  BY DEF MjRefunds, Again
<1>1. Repaid(j) /\ Owed(j)
  BY DEF MjRepaid, MjOwed
<1>2. back[j] \in Nat /\ paid[j] \in Int /\ Price[job[j].mode] \in Nat /\ Price[job[j].mode] > 0
  BY PriceNat DEF MjTyped
<1>3. back[j] > 0 /\ ~Again(j) => back[j] = Price[job[j].mode]
  BY <1>1 DEF Repaid
<1>4. job[j].pc = "over" /\ ~Unpaid(j) => paid[j] = Price[job[j].mode]
  <2> SUFFICES ASSUME job[j].pc = "over", ~Unpaid(j) PROVE paid[j] = Price[job[j].mode]
    OBVIOUS
  <2>1. job[j].code \in Accepted \ {"ok 2xx"} /\ job[j].kind \notin {"free", "swap"}
    BY DEF Unpaid
  <2>2. ~Twice(j)
    BY <1>1, <2>1, NotAccepted DEF Owed
  <2>3. paid[j] \in {0, Price[job[j].mode]} /\ paid[j] > 0
    BY <1>1, <2>1, <2>2 DEF Owed
  <2> QED
    BY <2>3
<1>5. back[j] <= Price[job[j].mode] \/ Again(j)
  BY <1>2, <1>3
<1>6. job[j].pc = "over" /\ ~Unpaid(j) /\ ~Again(j) => back[j] <= paid[j]
  BY <1>2, <1>4, <1>5
<1> QED
  BY <1>1, <1>5, <1>6 DEF Repaid, Silent

\* A step that does not touch the row of j, nor what was paid back for it.
LEMMA RepaidKept ==
    ASSUME MjTyped, MjStored, NEW j \in Jobs, Repaid(j),
           back'[j] = back[j], mjrow'[j] = mjrow[j], Writing(j)' <=> Writing(j), Fails(j)' <=> Fails(j),
           told[j] \subseteq told'[j], old \subseteq old',
           mjrow[j].at # "absent" => job'[j].id = job[j].id /\ job'[j].mode = job[j].mode,
           \A k \in Jobs : service[k] = "FAILURE" => service'[k] = "FAILURE"
    PROVE  Repaid(j)'
<1>1. (Again(j) => Again(j)') /\ (Silent(j)' => Silent(j))
  BY DEF Again, Silent
<1>2. CASE mjrow[j].at = "absent"
  <2>1. ~Writing(j)' /\ ~Fails(j)' /\ mjrow'[j].status # "FAILURE" /\ back'[j] = 0
    BY <1>2 DEF Repaid, Fails
  <2>2. ~(back'[j] > 0)
    BY <2>1
  <2> QED
    BY <2>1, <2>2 DEF Repaid
<1>3. CASE mjrow[j].at # "absent"
  <2>1. job'[j].id = job[j].id /\ job'[j].mode = job[j].mode
    BY <1>3
  <2> QED
    BY <1>1, <1>3, <2>1 DEF Repaid
<1> QED
  BY <1>2, <1>3

\* A step that saves nothing leaves the poller between the same two writes.
LEMMA SameWriting ==
    ASSUME UNCHANGED writing
    PROVE  \A j \in Jobs : (Writing(j)' <=> Writing(j)) /\ (Fails(j)' <=> Fails(j))
BY DEF Writing, Fails

\* What an item makes of a row.
LEMMA RowOfIs ==
    \A s : /\ RowOf(s).at # "absent"
           /\ RowOf(s).status = "FAILURE" => s = "FAILURE"
           /\ s = "FAILURE" => RowOf(s).at = "100%"
<1> TAKE s
<1>1. CASE s = "running"
  <2>1. RowOf(s).at = "open" /\ RowOf(s).status = ""
    BY <1>1 DEF RowOf
  <2> QED
    BY <1>1, <2>1, Zenon
<1>2. CASE s # "running"
  <2>1. RowOf(s).at = "100%" /\ RowOf(s).status = s
    BY <1>2 DEF RowOf
  <2> QED
    BY <2>1, Zenon
<1> QED
  BY <1>1, <1>2

\* The fields of a row.
LEMMA Fields == \A stored, at, status : stored = [at |-> at, status |-> status] => stored.at = at /\ stored.status = status
OBVIOUS

\* No row starts as a failure.
LEMMA StoredIs == \A j \in Jobs : Stored(j).at # "absent" /\ Stored(j).status # "FAILURE"
<1> TAKE j \in Jobs
<1>1. Stored(j) = [at |-> "100%", status |-> "SUCCESS"] \/ Stored(j) = [at |-> "open", status |-> ""]
  BY DEF Stored
<1>2. CASE Stored(j) = [at |-> "100%", status |-> "SUCCESS"]
  <2>1. Stored(j).at = "100%" /\ Stored(j).status = "SUCCESS"
    BY <1>2, Fields, Zenon
  <2> QED
    BY <2>1, Zenon
<1>3. CASE Stored(j) = [at |-> "open", status |-> ""]
  <2>1. Stored(j).at = "open" /\ Stored(j).status = ""
    BY <1>3, Fields, Zenon
  <2> QED
    BY <2>1, Zenon
<1> QED
  BY <1>1, <1>2, <1>3

\* Every step keeps the refunds right.
LEMMA MjRepaidStep == MjTyped /\ MjStored /\ MjRepaid /\ [MjNext]_mjvars => MjRepaid'
<1> SUFFICES ASSUME MjTyped, MjStored, MjRepaid, [MjNext]_mjvars PROVE MjRepaid'
  OBVIOUS
<1>0. ASSUME NEW j \in Jobs
      PROVE  Repaid(j) /\ back[j] \in Nat /\ Price[job[j].mode] \in Nat /\ Price[job[j].mode] > 0
  BY PriceNat DEF MjTyped, MjRepaid
<1>1. ASSUME NEW j \in Jobs, Handled(j), UNCHANGED mjrow,
             mjrow[j].at # "absent" => job'[j].id = job[j].id /\ job'[j].mode = job[j].mode,
             \A k \in Jobs : service[k] = "FAILURE" => service'[k] = "FAILURE",
             \A k \in Jobs : told[k] \subseteq told'[k]
      PROVE  MjRepaid'
  <2> SUFFICES ASSUME NEW k \in Jobs PROVE Repaid(k)'
    BY DEF MjRepaid
  <2>1. /\ back'[k] = back[k] /\ mjrow'[k] = mjrow[k] /\ old \subseteq old' /\ writing' = writing
        /\ mjrow[k].at # "absent" => job'[k].id = job[k].id /\ job'[k].mode = job[k].mode
    BY <1>1 DEF Handled
  <2> QED
    BY <1>0, <1>1, <2>1, SameWriting, RepaidKept
<1>2. ASSUME NEW j \in Jobs, Request(j) \/ Send(j) \/ Relax(j) \/ Resend(j) PROVE MjRepaid'
  <2>1. Handled(j) /\ UNCHANGED mjrow /\ job[j].pc \in Early
    BY <1>2, RequestDoes, SendDoes, RelaxDoes, ResendDoes DEF Early
  <2>2. mjrow[j].at = "absent"
    BY <2>1 DEF MjStored, Early, Late
  <2>3. service[j] = "unknown"
    BY <2>1 DEF MjStored
  <2>4. \A k \in Jobs : k # j => service'[k] = service[k]
    BY <1>2, RequestDoes, SendDoes, RelaxDoes, ResendDoes DEF Replied
  <2>5. \A k \in Jobs : told[k] \subseteq told'[k]
    <3>1. told' = told \/ Tell(j, "settled twice")
      BY <1>2, RequestDoes, SendDoes, RelaxDoes, ResendDoes
    <3> QED
      BY <3>1, TellType DEF MjTyped, Marks
  <2> QED
    BY <1>1, <2>1, <2>2, <2>3, <2>4, <2>5
<1>3. ASSUME NEW j \in Jobs, MjCheck(j) \/ MjSignal(j) \/ Settle(j) PROVE MjRepaid'
  <2>1. /\ Handled(j) /\ UNCHANGED <<mjrow, service>>
        /\ job'[j].id = job[j].id /\ job'[j].mode = job[j].mode
    BY <1>3, CheckDoes, SignalDoes, SettleDoes DEF Moved
  <2>2. \A k \in Jobs : told[k] \subseteq told'[k]
    <3>1. told' = told \/ Tell(0, "missed")
      BY <1>3, CheckDoes, SignalDoes, SettleDoes
    <3> QED
      BY <3>1, TellType DEF MjTyped, Marks
  <2> QED
    BY <1>1, <2>1, <2>2
<1>4. ASSUME NEW j \in Jobs, MjInsert(j) PROVE MjRepaid'
  <2>1. Moved(j) /\ UNCHANGED told /\ job[j].pc = "insert"
    BY <1>4, InsertDoes
  <2>2. mjrow[j].at = "absent"
    BY <2>1 DEF MjStored, Late
  <2>3. ASSUME NEW k \in Jobs, mjrow'[k] = mjrow[k] PROVE Repaid(k)'
    <3>1. /\ back'[k] = back[k] /\ old \subseteq old' /\ writing' = writing /\ service' = service
          /\ told'[k] = told[k] /\ job'[k].id = job[k].id /\ job'[k].mode = job[k].mode
      BY <2>1 DEF Moved, Handled
    <3> QED
      BY <1>0, <2>3, <3>1, SameWriting, RepaidKept
  <2>4. CASE mjrow' = [mjrow EXCEPT ![j] = Stored(j)]
    <3>1. mjrow'[j] = Stored(j) /\ \A k \in Jobs : k # j => mjrow'[k] = mjrow[k]
      BY <2>4 DEF MjTyped
    <3>2. mjrow'[j].at # "absent" /\ mjrow'[j].status # "FAILURE"
      BY <3>1, StoredIs, Zenon
    <3>3. back[j] = 0 /\ ~Writing(j)
      BY <1>0, <2>2 DEF Repaid
    <3>4. ~(back'[j] > 0) /\ ~Fails(j)'
      BY <2>1, <3>3 DEF Moved, Handled, Fails, Writing
    <3>5. Repaid(j)'
      BY <3>2, <3>4 DEF Repaid
    <3> QED
      BY <2>3, <3>1, <3>5 DEF MjRepaid
  <2>5. CASE UNCHANGED mjrow
    BY <2>3, <2>5 DEF MjRepaid
  <2> QED
    BY <1>4, <2>4, <2>5, InsertDoes
<1>5. ASSUME UNCHANGED <<job, mjrow, back>>, old \subseteq old',
             \A k \in Jobs : service[k] = "FAILURE" => service'[k] = "FAILURE",
             \A k \in Jobs : told[k] \subseteq told'[k],
             UNCHANGED writing
      PROVE  MjRepaid'
  <2> SUFFICES ASSUME NEW k \in Jobs PROVE Repaid(k)'
    BY DEF MjRepaid
  <2>1. back'[k] = back[k] /\ mjrow'[k] = mjrow[k] /\ job'[k] = job[k]
    BY <1>5
  <2> QED
    BY <1>0, <1>5, <2>1, SameWriting, RepaidKept
<1>6. ASSUME NEW j \in Jobs, MjFinish(j) PROVE MjRepaid'
  <2>1. \A k \in Jobs : service[k] = "FAILURE" => service'[k] = "FAILURE"
    BY <1>6 DEF MjFinish, MjTyped
  <2> QED
    BY <1>5, <1>6, <2>1 DEF MjFinish
<1>7. ASSUME NEW j \in Jobs, GrowsOld(j) \/ MjSkip(j) PROVE MjRepaid'
  <2>1. old \subseteq old' /\ UNCHANGED <<job, mjrow, back, service, told, writing>>
    BY <1>7 DEF GrowsOld, MjSkip
  <2> QED
    BY <1>5, <2>1
<1>8. CASE MjWake \/ MjDeactivate \/ MjFetch \/ MjSleep \/ MjPanic \/ UNCHANGED mjvars
  <2>1. UNCHANGED <<job, mjrow, back, service, told, old, writing>>
    BY <1>8 DEF MjWake, MjDeactivate, MjFetch, MjSleep, MjPanic, mjvars
  <2> QED
    BY <1>5, <2>1
<1>9. CASE MjList
  <2>1. \A k \in Jobs : told[k] \subseteq told'[k]
    <3>1. told' = [told EXCEPT ![0] = {}] \/ Tell(0, "missed")
      BY <1>9 DEF MjList
    <3>2. 0 \notin Jobs
      BY MidjourneyAssumption
    <3> QED
      BY <3>1, <3>2 DEF MjTyped, Tell
  <2> QED
    BY <1>5, <1>9, <2>1 DEF MjList
<1>10. ASSUME NEW j \in Jobs, RelayMidjourneyNotify(j) PROVE MjRepaid'
  <2>1. PICK first \in Sharing({j}), s \in {"running", service[j]} :
           mjrow' = [mjrow EXCEPT ![first] = RowOf(s)] /\ Tell(first, "notified")
    BY <1>10, FirstShares DEF RelayMidjourneyNotify
  <2>2. first \in Jobs
    BY DEF Sharing
  <2>3. UNCHANGED <<job, service, old, writing, back>>
    BY <1>10 DEF RelayMidjourneyNotify
  <2>4. \A k \in Jobs : k # first => mjrow'[k] = mjrow[k] /\ told'[k] = told[k]
    BY <2>1 DEF Tell, MjTyped
  <2>5. ASSUME NEW k \in Jobs, k # first PROVE Repaid(k)'
    <3>1. mjrow'[k] = mjrow[k] /\ told'[k] = told[k] /\ back'[k] = back[k] /\ job'[k] = job[k]
      BY <2>3, <2>4, <2>5
    <3> QED
      BY <1>0, <2>3, <3>1, SameWriting, RepaidKept
  <2>6. Repaid(first)'
    <3>1. mjrow'[first] = RowOf(s) /\ told'[first] = told[first] \cup {"notified"}
      BY <2>1, <2>2 DEF Tell, MjTyped
    <3>2. Again(first)' /\ ~Silent(first)' /\ mjrow'[first].at # "absent"
      BY <3>1, RowOfIs, Zenon DEF Again, Silent
    <3>3. Fails(first)' <=> Fails(first)
      BY <2>2, <2>3, SameWriting
    <3>4. "unpaid" \notin told'[first] => "unpaid" \notin told[first]
      BY <3>1
    <3> QED
      BY <1>0, <2>2, <2>3, <3>2, <3>3, <3>4 DEF Repaid
  <2> QED
    BY <2>5, <2>6 DEF MjRepaid
<1>11. ASSUME NEW lost, MjGiveUp(lost), mjpoller = "work" PROVE MjRepaid'
  <2>1. UNCHANGED <<job, service, old, writing, back>> /\ writing = <<>>
    BY <1>11 DEF MjGiveUp, MjStored
  <2>2. ASSUME NEW k \in Jobs, mjrow'[k] = mjrow[k], told'[k] = told[k] PROVE Repaid(k)'
    <3>1. back'[k] = back[k] /\ job'[k] = job[k]
      BY <2>1
    <3> QED
      BY <1>0, <2>1, <2>2, <3>1, SameWriting, RepaidKept
  <2>3. CASE UNCHANGED <<mjrow, told>>
    BY <2>2, <2>3 DEF MjRepaid
  <2>4. CASE /\ mjrow' = [j \in Jobs |-> IF j \in lost THEN [at |-> "100%", status |-> "FAILURE"] ELSE mjrow[j]]
             /\ told' = [j \in Jobs \cup {0} |-> IF j \in lost THEN told[j] \cup {"given up"} ELSE told[j]]
    <3>1. ASSUME NEW k \in Jobs, k \in lost PROVE Repaid(k)'
      <4>1. mjrow'[k].at = "100%" /\ told'[k] = told[k] \cup {"given up"}
        BY <2>4, <3>1
      <4>2. ~Silent(k)' /\ (Again(k) => Again(k)') /\ mjrow'[k].at # "absent"
        BY <4>1 DEF Silent, Again
      <4>3. ~Writing(k) /\ ~Writing(k)' /\ ~Fails(k) /\ ~Fails(k)'
        BY <2>1, Zenon DEF Writing, Fails
      <4>4. back'[k] = back[k] /\ job'[k] = job[k] /\ service' = service /\ old' = old
        BY <2>1
      <4>5. Repaid(k)
        BY <1>0
      <4> QED
        BY <4>1, <4>2, <4>3, <4>4, <4>5 DEF Repaid
    <3>2. ASSUME NEW k \in Jobs, k \notin lost PROVE Repaid(k)'
      BY <2>2, <2>4, <3>2
    <3> QED
      BY <3>1, <3>2 DEF MjRepaid
  <2> QED
    BY <1>11, <2>3, <2>4 DEF MjGiveUp
<1>12. ASSUME NEW j \in Jobs, MjUpdate(j) PROVE MjRepaid'
  <2>1. /\ UNCHANGED <<job, mjrow, service, old, items>>
        /\ writing = <<>> /\ writing' = <<j, Item(j)>> /\ j \in listed /\ mjpoller = "items"
    BY <1>12 DEF MjUpdate, Handling
  <2>2. told' = told \/ Tell(j, "unpaid")
    BY <1>12 DEF MjUpdate
  <2>3. \A k \in Jobs : k # j => back'[k] = back[k] /\ told'[k] = told[k]
    BY <1>12, <2>2 DEF MjUpdate, MjTyped, Tell
  <2>4. ASSUME NEW k \in Jobs PROVE ~Writing(k) /\ ~Fails(k)
    BY <2>1, Zenon DEF Writing, Fails
  <2>5. ASSUME NEW k \in Jobs, k # j PROVE Repaid(k)'
    <3>1. ~Writing(k)' /\ ~Fails(k)'
      BY <2>1, <2>5 DEF Writing, Fails
    <3>2. back'[k] = back[k] /\ told'[k] = told[k] /\ mjrow'[k] = mjrow[k] /\ job'[k] = job[k]
      BY <2>1, <2>3, <2>5
    <3> QED
      BY <1>0, <2>1, <2>4, <3>1, <3>2, RepaidKept
  <2>6. Repaid(j)'
    <3>1. Repaid(j) /\ back[j] \in Nat /\ Price[job[j].mode] \in Nat /\ Price[job[j].mode] > 0
      BY <1>0
    <3>2. mjrow[j].at = "open" \/ (mjrow[j].at = "100%" /\ "notified" \in told[j])
      BY <2>1 DEF MjStored
    <3>3. Again(j) \/ back[j] = 0
      <4>1. "notified" \in told[j] => Again(j)
        BY DEF Again
      <4> QED
        BY <2>4, <3>1, <3>2, <4>1 DEF Repaid
    <3>4. (Again(j) => Again(j)') /\ (Silent(j)' => Silent(j))
      BY <2>2, TellType DEF Again, Silent, MjTyped, Marks
    <3>5. job[j].id \in Jobs /\ (items[job[j].id] = "FAILURE" => service[job[j].id] = "FAILURE")
      BY <2>1 DEF MjStored, MjTyped, Job
    <3>6. Item(j) = "FAILURE" => service[job[j].id] = "FAILURE" \/ j \in old
      BY <3>5 DEF Item
    <3>7. Writing(j)' /\ (Fails(j)' <=> Item(j) = "FAILURE")
      BY <2>1 DEF Writing, Fails
    <3>8. CASE Item(j) # "FAILURE" /\ UNCHANGED back
      <4>1. Again(j)' \/ ~(back'[j] > 0)
        BY <3>3, <3>4, <3>8
      <4> QED
        BY <2>1, <3>1, <3>2, <3>4, <3>7, <3>8, <4>1 DEF Repaid
    <3>9. CASE Item(j) = "FAILURE" /\ Tell(j, "unpaid") /\ UNCHANGED back
      <4>1. Again(j)' \/ ~(back'[j] > 0)
        BY <3>3, <3>4, <3>9
      <4>2. "unpaid" \in told'[j]
        BY <3>9 DEF Tell, MjTyped
      <4>3. /\ mjrow'[j] = mjrow[j] /\ job'[j] = job[j] /\ service' = service /\ old' = old
            /\ mjrow[j].at # "absent" /\ back'[j] = back[j]
        BY <2>1, <3>2, <3>9
      <4> QED
        BY <3>1, <3>4, <4>1, <4>2, <4>3 DEF Repaid
    <3>10. CASE Item(j) = "FAILURE" /\ back' = [back EXCEPT ![j] = @ + Price[job[j].mode]]
      <4>1. back'[j] = back[j] + Price[job[j].mode]
        BY <3>10 DEF MjTyped
      <4>2. back'[j] >= Price[job[j].mode] /\ (back[j] = 0 => back'[j] = Price[job[j].mode])
        BY <3>1, <4>1
      <4>3. /\ mjrow'[j] = mjrow[j] /\ job'[j] = job[j] /\ service' = service /\ old' = old
            /\ mjrow[j].at # "absent"
        BY <2>1, <3>2
      <4>4. back'[j] > 0 /\ ~Again(j)' => back'[j] = Price[job[j].mode]
        BY <3>3, <3>4, <4>2
      <4> QED
        BY <3>5, <3>6, <3>7, <3>10, <4>2, <4>3, <4>4 DEF Repaid
    <3> QED
      BY <1>12, <3>8, <3>9, <3>10 DEF MjUpdate
  <2> QED
    BY <2>5, <2>6 DEF MjRepaid
<1>13. CASE MjSave
  <2>1. PICK j \in Jobs, s \in {"running", "SUCCESS", "FAILURE"} : writing = <<j, s>>
    BY <1>13 DEF MjSave, MjTyped
  <2>2. writing # <<>> /\ writing[1] = j /\ writing[2] = s
    BY <2>1
  <2>3. UNCHANGED <<job, service, old, back>> /\ writing' = <<>>
    BY <1>13 DEF MjSave
  <2>4. ASSUME NEW k \in Jobs PROVE ~Writing(k)' /\ ~Fails(k)'
    BY <2>3, Zenon DEF Writing, Fails
  <2>5. \/ mjrow' = [mjrow EXCEPT ![j] = RowOf(s)] /\ UNCHANGED told
        \/ Tell(j, "unsaved") /\ UNCHANGED mjrow
    BY <1>13, <2>2 DEF MjSave
  <2>6. Writing(j) /\ (Fails(j) <=> s = "FAILURE") /\ \A k \in Jobs : k # j => ~Writing(k) /\ ~Fails(k)
    BY <2>2 DEF Writing, Fails
  <2>7. ASSUME NEW k \in Jobs, k # j PROVE Repaid(k)'
    <3>1. mjrow'[k] = mjrow[k] /\ told'[k] = told[k] /\ job'[k] = job[k] /\ back'[k] = back[k]
      BY <2>3, <2>5, <2>7 DEF Tell, MjTyped
    <3> QED
      BY <1>0, <2>3, <2>4, <2>6, <2>7, <3>1, RepaidKept
  <2>8. Repaid(j)'
    <3>1. Repaid(j) /\ mjrow[j].at # "absent"
      BY <1>0, <2>6 DEF Repaid
    <3>2. ~Writing(j)' /\ ~Fails(j)' /\ back'[j] = back[j] /\ job'[j] = job[j] /\ service' = service /\ old' = old
      BY <2>3, <2>4
    <3>3. CASE mjrow' = [mjrow EXCEPT ![j] = RowOf(s)] /\ UNCHANGED told
      <4>1. mjrow'[j] = RowOf(s)
        BY <3>3 DEF MjTyped
      <4>2. /\ mjrow'[j].at # "absent" /\ (mjrow'[j].status = "FAILURE" => s = "FAILURE")
            /\ (s = "FAILURE" => mjrow'[j].at = "100%")
        BY <4>1, RowOfIs, Zenon
      <4>3. (Again(j)' <=> Again(j)) /\ (Silent(j)' <=> Silent(j)) /\ (Silent(j) => "unpaid" \notin told[j])
        BY <3>3 DEF Again, Silent
      <4> QED
        BY <2>6, <3>1, <3>2, <4>2, <4>3 DEF Repaid
    <3>4. CASE Tell(j, "unsaved") /\ UNCHANGED mjrow
      <4>1. told'[j] = told[j] \cup {"unsaved"}
        BY <3>4 DEF Tell, MjTyped
      <4>2. Again(j)' /\ (Silent(j)' => Silent(j))
        BY <4>1 DEF Again, Silent
      <4> QED
        BY <3>1, <3>2, <3>4, <4>2 DEF Repaid
    <3> QED
      BY <2>5, <3>3, <3>4
  <2> QED
    BY <2>7, <2>8 DEF MjRepaid
<1>14. CASE MjRestart
  <2>1. UNCHANGED <<mjrow, service, old, back>> /\ writing' = <<>>
    BY <1>14 DEF MjRestart
  <2>2. \A k \in Jobs : job'[k].id = job[k].id /\ job'[k].mode = job[k].mode
    BY <1>14 DEF MjRestart, MjTyped, Job
  <2>3. ASSUME NEW k \in Jobs PROVE ~Writing(k)' /\ ~Fails(k)'
    BY <2>1, Zenon DEF Writing, Fails
  <2>4. 0 \notin Jobs
    BY MidjourneyAssumption
  <2>5. ASSUME NEW k \in Jobs, ~Writing(k) PROVE Repaid(k)'
    <3>1. told[k] \subseteq told'[k]
      <4>1. CASE writing = <<>>
        BY <1>14, <2>4, <4>1 DEF MjRestart, MjTyped
      <4>2. CASE writing # <<>>
        <5>1. PICK j \in Jobs : j = writing[1]
          BY <4>2 DEF MjTyped
        <5>2. told' = [told EXCEPT ![0] = {}, ![j] = @ \cup {"unsaved"}]
          BY <1>14, <4>2, <5>1, Zenon DEF MjRestart
        <5> QED
          BY <2>4, <5>2 DEF MjTyped
      <4> QED
        BY <4>1, <4>2
    <3>2. ~Fails(k)
      BY <2>5 DEF Fails
    <3> QED
      BY <1>0, <2>1, <2>2, <2>3, <2>5, <3>1, <3>2, RepaidKept
  <2>6. ASSUME NEW k \in Jobs, Writing(k) PROVE Repaid(k)'
    <3>1. told' = [told EXCEPT ![0] = {}, ![k] = @ \cup {"unsaved"}]
      BY <1>14, <2>6, Zenon DEF MjRestart, Writing
    <3>2. told'[k] = told[k] \cup {"unsaved"}
      BY <2>4, <3>1 DEF MjTyped
    <3>3. Again(k)' /\ (Silent(k)' => Silent(k))
      BY <3>2 DEF Again, Silent
    <3>4. Repaid(k) /\ mjrow[k].at # "absent"
      BY <1>0, <2>6 DEF Repaid
    <3> QED
      BY <2>1, <2>2, <2>3, <3>3, <3>4 DEF Repaid
  <2> QED
    BY <2>5, <2>6 DEF MjRepaid
<1> QED
  BY <1>2, <1>3, <1>4, <1>6, <1>7, <1>8, <1>9, <1>10, <1>11, <1>12, <1>13, <1>14
     DEF MjNext, MjHandle, MjPoll, MjFixNullIds, MjChannelGone

-----------------------------------------------------------------------------
(* When the poller may sleep *)

\* The poller is active while it works, and what it has not seen when it goes to
\* sleep is a job whose handler will still look at the flag.
MjAwake ==
    /\ mjpoller \in {"list", "empty", "work", "items"} => mjactive
    /\ mjpoller = "empty" /\ "missed" \notin told[0] =>
          \A j \in MjOpen : job[j].pc = "check" \/ "notified" \in told[j]
    /\ MjNoneLeftBehind

\* The poller starts active.
LEMMA MjAwakeInit == MjInit => MjAwake
BY DEF MjInit, MjAwake, MjNoneLeftBehind

\* A poller that was busy and still is.
LEMMA BusyAwake ==
    ASSUME MjAwake, mjpoller \in {"list", "empty", "work", "items"}, mjactive' = mjactive,
           mjpoller' \in {"list", "work", "items"}
    PROVE  MjAwake'
BY DEF MjAwake, MjNoneLeftBehind

\* A step that neither moves the poller nor opens a row for nobody.
LEMMA OpenKept ==
    ASSUME MjTyped, MjAwake, mjpoller' = mjpoller, mjactive' = mjactive,
           "missed" \in told[0] => "missed" \in told'[0],
           \A j \in Jobs : mjrow'[j].at = "open" =>
              \/ /\ mjrow[j].at = "open" /\ (job'[j].pc = job[j].pc \/ job[j].pc \notin {"check", "signal"})
                 /\ told[j] \subseteq told'[j]
              \/ job'[j].pc = "check" \/ "notified" \in told'[j]
    PROVE  MjAwake'
<1>1. ASSUME mjpoller' = "empty", "missed" \notin told'[0], NEW j \in Jobs, mjrow'[j].at = "open"
      PROVE  job'[j].pc = "check" \/ "notified" \in told'[j]
  BY <1>1 DEF MjAwake, MjOpen
<1>2. ASSUME mjpoller' = "wait", ~mjactive', "missed" \notin told'[0], NEW j \in Jobs, mjrow'[j].at = "open"
      PROVE  job'[j].pc \in {"check", "signal"} \/ "notified" \in told'[j]
  BY <1>2 DEF MjAwake, MjNoneLeftBehind, MjOpen
<1>3. mjpoller' \in {"list", "empty", "work", "items"} => mjactive'
  BY DEF MjAwake
<1> QED
  BY <1>1, <1>2, <1>3 DEF MjAwake, MjNoneLeftBehind, MjOpen

\* Every step keeps the poller awake for what is left.
LEMMA MjAwakeStep == MjTyped /\ MjStored /\ MjAwake /\ [MjNext]_mjvars => MjAwake'
<1> SUFFICES ASSUME MjTyped, MjStored, MjAwake, [MjNext]_mjvars PROVE MjAwake'
  OBVIOUS
<1>1. ASSUME NEW j \in Jobs, Handled(j), UNCHANGED <<mjrow, mjactive>>,
             job[j].pc \notin {"check", "signal"},
             \A k \in Jobs \cup {0} : told[k] \subseteq told'[k]
      PROVE  MjAwake'
  BY <1>1, OpenKept DEF Handled
<1>2. ASSUME NEW j \in Jobs, Request(j) \/ Send(j) \/ Relax(j) \/ Resend(j) \/ Settle(j) PROVE MjAwake'
  <2>1. Handled(j) /\ UNCHANGED <<mjrow, mjactive>> /\ job[j].pc \notin {"check", "signal"}
    BY <1>2, RequestDoes, SendDoes, RelaxDoes, ResendDoes, SettleDoes
  <2>2. told' = told \/ Tell(j, "settled twice")
    BY <1>2, RequestDoes, SendDoes, RelaxDoes, ResendDoes, SettleDoes
  <2>3. \A k \in Jobs \cup {0} : told[k] \subseteq told'[k]
    BY <2>2, TellType DEF MjTyped, Marks
  <2> QED
    BY <1>1, <2>1, <2>3
<1>3. ASSUME NEW j \in Jobs, MjInsert(j) PROVE MjAwake'
  <2>1. Handled(j) /\ UNCHANGED <<mjactive, told>> /\ job[j].pc = "insert"
    BY <1>3, InsertDoes DEF Moved
  <2>2. mjrow[j].at = "absent"
    BY <2>1 DEF MjStored, Late
  <2>3. \/ job'[j].pc = "check" /\ \A k \in Jobs : k # j => mjrow'[k] = mjrow[k]
        \/ mjrow' = mjrow
    BY <1>3, InsertDoes DEF MjTyped
  <2> QED
    BY <2>1, <2>2, <2>3, OpenKept DEF Handled
<1>4. ASSUME NEW j \in Jobs, MjCheck(j) PROVE MjAwake'
  <2>1. /\ Handled(j) /\ UNCHANGED <<mjrow, mjactive>> /\ job[j].pc = "check"
        /\ job'[j].pc = (IF mjactive THEN "settle" ELSE "signal")
        /\ IF mjactive /\ mjpoller = "empty" THEN Tell(0, "missed") ELSE UNCHANGED told
    BY <1>4, CheckDoes DEF Moved
  <2>2. mjpoller' = mjpoller
    BY <2>1 DEF Handled
  <2>3. CASE mjactive /\ mjpoller = "empty"
    <3>1. "missed" \in told'[0]
      BY <2>1, <2>3 DEF Tell, MjTyped
    <3> QED
      BY <2>1, <2>2, <2>3, <3>1 DEF MjAwake, MjNoneLeftBehind
  <2>4. CASE mjactive /\ mjpoller # "empty"
    BY <2>1, <2>2, <2>4 DEF MjAwake, MjNoneLeftBehind
  <2>5. CASE ~mjactive
    <3>1. mjpoller # "empty" /\ told' = told /\ job'[j].pc = "signal"
      BY <2>1, <2>5 DEF MjAwake
    <3>2. \A k \in MjOpen' : k \in MjOpen /\ (k # j => job'[k] = job[k])
      BY <2>1 DEF Handled, MjOpen
    <3> QED
      BY <2>1, <2>2, <2>5, <3>1, <3>2 DEF MjAwake, MjNoneLeftBehind
  <2> QED
    BY <2>3, <2>4, <2>5
<1>5. ASSUME NEW j \in Jobs, MjSignal(j) PROVE MjAwake'
  <2>1. Handled(j) /\ UNCHANGED <<mjrow, told>> /\ mjactive' /\ job[j].pc = "signal"
    BY <1>5, SignalDoes DEF Moved
  <2>2. mjpoller' = mjpoller /\ \A k \in MjOpen' : k \in MjOpen /\ (k # j => job'[k] = job[k])
    BY <2>1 DEF Handled, MjOpen
  <2> QED
    BY <2>1, <2>2 DEF MjAwake, MjNoneLeftBehind
<1>6. ASSUME NEW j \in Jobs, MjFinish(j) \/ GrowsOld(j) \/ MjSkip(j) \/ MjUpdate(j) PROVE MjAwake'
  <2>1. UNCHANGED <<job, mjrow, mjactive, mjpoller>>
    BY <1>6 DEF MjFinish, GrowsOld, MjSkip, MjUpdate
  <2>2. \A k \in Jobs \cup {0} : told[k] \subseteq told'[k]
    <3>1. told' = told \/ Tell(j, "unpaid")
      BY <1>6 DEF MjFinish, GrowsOld, MjSkip, MjUpdate
    <3> QED
      BY <3>1, TellType DEF MjTyped, Marks
  <2> QED
    BY <2>1, <2>2, OpenKept
<1>7. ASSUME NEW j \in Jobs, RelayMidjourneyNotify(j) PROVE MjAwake'
  <2>1. PICK first \in Sharing({j}) :
           (\E s : mjrow' = [mjrow EXCEPT ![first] = RowOf(s)]) /\ Tell(first, "notified")
    BY <1>7, FirstShares DEF RelayMidjourneyNotify
  <2>2. first \in Jobs /\ UNCHANGED <<job, mjactive, mjpoller>>
    BY <1>7 DEF Sharing, RelayMidjourneyNotify
  <2>3. \A k \in Jobs : k # first => mjrow'[k] = mjrow[k]
    BY <2>1 DEF MjTyped
  <2>4. "notified" \in told'[first] /\ \A k \in Jobs \cup {0} : told[k] \subseteq told'[k]
    BY <2>1, <2>2 DEF Tell, MjTyped
  <2> QED
    BY <2>2, <2>3, <2>4, OpenKept
<1>8. CASE MjWake \/ MjSleep \/ MjPanic
  <2>1. /\ UNCHANGED <<job, mjrow, mjactive, told>> /\ mjpoller' \in {"list", "dead"}
        /\ mjpoller' = "list" => mjactive \/ mjpoller = "items"
    BY <1>8 DEF MjWake, MjSleep, MjPanic
  <2> QED
    BY <2>1 DEF MjAwake, MjNoneLeftBehind
<1>9. CASE MjList
  <2>1. UNCHANGED <<job, mjrow, mjactive>> /\ mjpoller = "list" /\ mjpoller' \in {"empty", "work"}
    BY <1>9 DEF MjList
  <2>2. mjpoller' = "empty" => MjOpen' = {} \/ "missed" \in told'[0]
    BY <1>9 DEF MjList, MjOpen, Tell, MjTyped
  <2> QED
    BY <2>1, <2>2 DEF MjAwake, MjNoneLeftBehind
<1>10. CASE MjDeactivate
  <2>1. UNCHANGED <<job, mjrow, told>> /\ mjpoller = "empty" /\ mjpoller' = "wait"
    BY <1>10 DEF MjDeactivate
  <2>2. MjOpen' = MjOpen
    BY <2>1 DEF MjOpen
  <2> QED
    BY <2>1, <2>2 DEF MjAwake, MjNoneLeftBehind
<1>11. CASE MjFixNullIds \/ MjChannelGone \/ MjFetch \/ MjSave
  <2>1. /\ mjpoller \in {"work", "items"} /\ mjpoller' \in {"list", "work", "items"}
        /\ UNCHANGED mjactive
    BY <1>11 DEF MjFixNullIds, MjChannelGone, MjFetch, MjSave, MjGiveUp
  <2> QED
    BY <2>1, BusyAwake
<1>12. CASE MjRestart
  BY <1>12 DEF MjRestart, MjAwake, MjNoneLeftBehind
<1>13. CASE UNCHANGED mjvars
  BY <1>13, OpenKept DEF mjvars
<1> QED
  BY <1>2, <1>3, <1>4, <1>5, <1>6, <1>7, <1>8, <1>9, <1>10, <1>11, <1>12, <1>13
     DEF MjNext, MjHandle, MjPoll

\* The inductive invariant.
MjInv == MjTyped /\ MjStored /\ MjOwed /\ MjRepaid /\ MjAwake

\* It holds at the start,
LEMMA MjInvInit == MjInit => MjInv
BY MjTypedInit, MjStoredInit, MjOwedInit, MjRepaidInit, MjAwakeInit DEF MjInv

\* and every step keeps it.
LEMMA MjInvStep == MjInv /\ [MjNext]_mjvars => MjInv'
BY MjTypedStep, MjStoredStep, MjOwedStep, MjRepaidStep, MjAwakeStep DEF MjInv

\* What a submission owes when it is over is what MjSettled says of it.
LEMMA OwedImplies == MjOwed => MjSettled
BY DEF MjOwed, Owed, Twice, MjSettled

\* The invariant implies the properties of the model.
LEMMA MjInvMeans == MjInv => MjTypeOK /\ MjSettled /\ MjRefunds /\ MjNoneLeftBehind
BY MjTypedMeans, OwedImplies, RepaidImplies DEF MjInv, MjAwake

-----------------------------------------------------------------------------
(* The poller of the tasks and its rows. *)

\* The poller of n is between the refund of t and its row.
Saves(n, t) == saving[n] # None /\ saving[n][1] = t

\* What a row has been through: it is stored by its handler, listed after
\* that, and saved with an end by the poller that has listed it.
RowsStored ==
    /\ \A t \in Tasks : row[t] # "absent" => handler[t] \in {"check", "signal", "over"}
    /\ \A n \in Nodes : \A t \in batch[n] : row[t] # "absent"
    /\ \A n \in Nodes : saving[n] # None =>
          poller[n] = "work" /\ saving[n][1] \in batch[n] /\ saving[n][2] \in {"FAILURE", "SUCCESS"}

TaskInv == TaskTypeOK /\ RowsStored

\* What is about to be saved.
LEMMA SavingType ==
    ASSUME TaskTypeOK, NEW n \in Nodes, saving[n] # None
    PROVE  saving[n][1] \in Tasks /\ saving[n][2] \in Rows
BY DEF TaskTypeOK

\* Both hold at the start.
LEMMA TaskInvInit == Init => TaskInv
BY TaskAssumption DEF Init, TaskInv, TaskTypeOK, RowsStored, Rows, Finished, None

\* Every step keeps the types.
LEMMA TaskTypeStep == TaskTypeOK /\ [Next]_vars => TaskTypeOK'
<1> SUFFICES ASSUME TaskTypeOK, [Next]_vars PROVE TaskTypeOK'
  OBVIOUS
<1> USE TaskAssumption DEF TaskTypeOK, Rows, Finished
<1>1. ASSUME NEW t \in Tasks, Submit(t) PROVE TaskTypeOK'
  BY <1>1 DEF Submit
<1>2. ASSUME NEW t \in Tasks, Insert(t) PROVE TaskTypeOK'
  BY <1>2 DEF Insert, Fail
<1>3. ASSUME NEW t \in Tasks, Check(t) PROVE TaskTypeOK'
  BY <1>3 DEF Check
<1>4. ASSUME NEW t \in Tasks, Signal(t) PROVE TaskTypeOK'
  BY <1>4 DEF Signal
<1>5. ASSUME NEW t \in Tasks, Finish(t) PROVE TaskTypeOK'
  BY <1>5 DEF Finish
<1>6. ASSUME NEW n \in Nodes, Wake(n) \/ Deactivate(n) \/ EndOfRound(n) \/ Sleep(n) PROVE TaskTypeOK'
  <2>1. CASE Wake(n)
    BY <2>1 DEF Wake
  <2>2. CASE Deactivate(n)
    BY <2>2 DEF Deactivate
  <2>3. CASE EndOfRound(n)
    BY <2>3 DEF EndOfRound
  <2>4. CASE Sleep(n)
    BY <2>4 DEF Sleep
  <2> QED
    BY <1>6, <2>1, <2>2, <2>3, <2>4
<1>7. ASSUME NEW n \in Nodes, List(n) PROVE TaskTypeOK'
  <2>1. Listed \subseteq Tasks
    BY DEF Listed, Unfinished
  <2>2. batch' \in [Nodes -> SUBSET Tasks]
    BY <1>7, <2>1 DEF List
  <2>3. poller' \in [Nodes -> {"wait", "list", "empty", "work", "sleep", "dead"}]
    BY <1>7 DEF List
  <2> QED
    <3>1. missed' \in [Nodes -> BOOLEAN]
      BY <1>7 DEF List
    <3>2. fails' \in 0..MaxFails
      BY <1>7 DEF List, Fail
    <3> QED BY <1>7, <2>2, <2>3, <3>1, <3>2 DEF List
<1>8. ASSUME NEW n \in Nodes, NEW lost, GiveUp(n, lost) PROVE TaskTypeOK'
  BY <1>8 DEF GiveUp, Fail
<1>9. ASSUME NEW n \in Nodes, NEW t \in Tasks, NoNews(n, t) PROVE TaskTypeOK'
  BY <1>9 DEF NoNews
<1>10. ASSUME NEW n \in Nodes, NEW t \in Tasks, Update(n, t) PROVE TaskTypeOK'
  <2>1. saving' \in [Nodes -> (Tasks \X Rows) \cup {None}]
    BY <1>10 DEF Update
  <2>2. refunds' \in [Tasks -> Nat] /\ unpaid' \in [Tasks -> Nat] /\ fails' \in 0..MaxFails
    BY <1>10 DEF Update, Refund, Fail
  <2> QED
    BY <1>10, <2>1, <2>2 DEF Update
<1>11. ASSUME NEW n \in Nodes, Save(n) PROVE TaskTypeOK'
  <2>1. saving[n][1] \in Tasks /\ saving[n][2] \in Rows
    BY <1>11, SavingType DEF Save
  <2>2. saving' \in [Nodes -> (Tasks \X Rows) \cup {None}] /\ batch' \in [Nodes -> SUBSET Tasks]
    BY <1>11, <2>1 DEF Save
  <2>3. row' \in [Tasks -> Rows] /\ unsaved' \in [Tasks -> Nat] /\ fails' \in 0..MaxFails
    BY <1>11, <2>1 DEF Save, Fail
  <2> QED
    BY <1>11, <2>2, <2>3 DEF Save
<1>12. ASSUME NEW n \in Nodes, NEW c, FetchFails(n, c) PROVE TaskTypeOK'
  BY <1>12 DEF FetchFails, Fail
<1>13. ASSUME NEW n \in Nodes, Panic(n) PROVE TaskTypeOK'
  BY <1>13 DEF Panic, Fail
<1>14. ASSUME NEW n \in Nodes, Restart(n) PROVE TaskTypeOK'
  <2>1. unsaved' \in [Tasks -> Nat]
    <3>1. CASE saving[n] = None
      BY <1>14, <3>1 DEF Restart
    <3>2. CASE saving[n] # None
      <4>1. PICK t \in Tasks : t = saving[n][1]
        BY <3>2, SavingType
      <4>2. unsaved' = [unsaved EXCEPT ![t] = @ + 1]
        BY <1>14, <3>2, <4>1, Zenon DEF Restart
      <4> QED
        BY <4>2
    <3> QED
      BY <3>1, <3>2
  <2>2. saving' \in [Nodes -> (Tasks \X Rows) \cup {None}] /\ handler' \in [Tasks -> {"new", "insert", "check", "signal", "over"}]
    BY <1>14 DEF Restart
  <2> QED
    BY <1>14, <2>1, <2>2 DEF Restart, Fail
<1>15. CASE UNCHANGED vars
  BY <1>15 DEF vars
<1> QED
  BY <1>1, <1>2, <1>3, <1>4, <1>5, <1>6, <1>7, <1>8, <1>9, <1>10, <1>11, <1>12, <1>13, <1>14, <1>15
     DEF Next, Handle, Poll, FixNullIds, ChannelGone

\* Every step keeps RowsStored.
LEMMA StoredStep == TaskTypeOK /\ RowsStored /\ [Next]_vars => RowsStored'
<1> SUFFICES ASSUME TaskTypeOK, RowsStored, [Next]_vars PROVE RowsStored'
  OBVIOUS
<1>1. ASSUME NEW t \in Tasks, Submit(t) PROVE RowsStored'
  BY <1>1 DEF Submit, RowsStored, TaskTypeOK
<1>2. ASSUME NEW t \in Tasks, Insert(t) PROVE RowsStored'
  BY <1>2 DEF Insert, RowsStored, TaskTypeOK
<1>3. ASSUME NEW t \in Tasks, Check(t) PROVE RowsStored'
  BY <1>3 DEF Check, RowsStored, TaskTypeOK
<1>4. ASSUME NEW t \in Tasks, Signal(t) PROVE RowsStored'
  BY <1>4 DEF Signal, RowsStored, TaskTypeOK
<1>5. ASSUME NEW t \in Tasks, Finish(t) PROVE RowsStored'
  BY <1>5 DEF Finish, RowsStored, TaskTypeOK
<1>6. ASSUME NEW n \in Nodes, Wake(n) \/ Deactivate(n) \/ Sleep(n) \/ EndOfRound(n) PROVE RowsStored'
  <2>1. poller[n] # "work" \/ saving[n] = None
    BY <1>6 DEF Wake, Deactivate, EndOfRound, Sleep, Working
  <2>2. \A m \in Nodes : m # n => poller'[m] = poller[m]
    BY <1>6 DEF Wake, Deactivate, EndOfRound, Sleep, TaskTypeOK
  <2>3. UNCHANGED <<row, handler, batch, saving>>
    BY <1>6 DEF Wake, Deactivate, EndOfRound, Sleep
  <2> QED
    BY <2>1, <2>2, <2>3 DEF RowsStored
<1>7. ASSUME NEW n \in Nodes, List(n) PROVE RowsStored'
  <2>1. Listed \subseteq Tasks /\ \A t \in Listed : row[t] # "absent"
    BY DEF Listed, Unfinished
  <2>2. saving[n] = None
    BY <1>7 DEF List, RowsStored
  <2>3. \A m \in Nodes : m # n => poller'[m] = poller[m] /\ batch'[m] = batch[m]
    BY <1>7 DEF List, TaskTypeOK
  <2>4. batch'[n] \in {batch[n], Listed}
    BY <1>7 DEF List, TaskTypeOK
  <2>5. UNCHANGED <<row, handler, saving>>
    BY <1>7 DEF List
  <2> QED
    BY <2>1, <2>2, <2>3, <2>4, <2>5 DEF RowsStored
<1>8. ASSUME NEW n \in Nodes, NEW lost \in SUBSET batch[n], Working(n), GiveUp(n, lost) PROVE RowsStored'
  <2>1. \A t \in Tasks : row'[t] # row[t] => row[t] # "absent" /\ row'[t] # "absent"
    BY <1>8 DEF GiveUp, TaskTypeOK, RowsStored
  <2>2. \A m \in Nodes : batch'[m] \subseteq batch[m] /\ (m # n => batch'[m] = batch[m])
    BY <1>8 DEF GiveUp, TaskTypeOK
  <2>3. UNCHANGED <<handler, saving, poller>> /\ saving[n] = None
    BY <1>8 DEF GiveUp, Working
  <2> QED
    BY <2>1, <2>2, <2>3 DEF RowsStored, TaskTypeOK
<1>9. ASSUME NEW n \in Nodes, NEW t \in Tasks, NoNews(n, t) PROVE RowsStored'
  BY <1>9 DEF NoNews, Working, RowsStored, TaskTypeOK
<1>10. ASSUME NEW n \in Nodes, NEW t \in Tasks, Update(n, t) PROVE RowsStored'
  <2>1. saving'[n] = <<t, upstream[t]>> /\ t \in batch[n] /\ poller[n] = "work"
    BY <1>10 DEF Update, Working, TaskTypeOK
  <2>2. \A m \in Nodes : m # n => saving'[m] = saving[m]
    BY <1>10 DEF Update, TaskTypeOK
  <2>3. upstream[t] \in {"FAILURE", "SUCCESS"}
    BY <1>10 DEF Update, TaskTypeOK
  <2>4. UNCHANGED <<row, handler, batch, poller>>
    BY <1>10 DEF Update
  <2> QED
    BY <2>1, <2>2, <2>3, <2>4 DEF RowsStored
<1>11. ASSUME NEW n \in Nodes, Save(n) PROVE RowsStored'
  <2>1. PICK t \in Tasks : t = saving[n][1]
    BY <1>11, SavingType DEF Save
  <2>2. t \in batch[n] /\ row[t] # "absent" /\ saving[n][2] # "absent"
    BY <1>11, <2>1 DEF Save, RowsStored
  <2>3. row' \in {row, [row EXCEPT ![t] = saving[n][2]]}
    BY <1>11, <2>1, Zenon DEF Save
  <2>4. \A u \in Tasks : row'[u] # "absent" <=> row[u] # "absent"
    BY <2>2, <2>3 DEF TaskTypeOK
  <2>5. saving'[n] = None /\ \A m \in Nodes : m # n => saving'[m] = saving[m] /\ batch'[m] = batch[m]
    BY <1>11 DEF Save, TaskTypeOK
  <2>6. batch'[n] \subseteq batch[n]
    BY <1>11 DEF Save, TaskTypeOK
  <2>7. UNCHANGED <<handler, poller>>
    BY <1>11 DEF Save
  <2> QED
    BY <2>4, <2>5, <2>6, <2>7 DEF RowsStored, TaskTypeOK
<1>12. ASSUME NEW n \in Nodes, NEW c, FetchFails(n, c) PROVE RowsStored'
  BY <1>12 DEF FetchFails, Working, RowsStored, TaskTypeOK
<1>13. ASSUME NEW n \in Nodes, Panic(n) PROVE RowsStored'
  BY <1>13 DEF Panic, Working, RowsStored, TaskTypeOK
<1>14. ASSUME NEW n \in Nodes, Restart(n) PROVE RowsStored'
  <2>1. \A t \in Tasks : handler[t] \in {"check", "signal", "over"} => handler'[t] \in {"check", "signal", "over"}
    BY <1>14 DEF Restart
  <2>2. saving'[n] = None /\ batch'[n] = {}
    BY <1>14 DEF Restart, TaskTypeOK
  <2>3. \A m \in Nodes : m # n => saving'[m] = saving[m] /\ batch'[m] = batch[m] /\ poller'[m] = poller[m]
    BY <1>14 DEF Restart, TaskTypeOK
  <2>4. row' = row
    BY <1>14 DEF Restart
  <2> QED
    BY <2>1, <2>2, <2>3, <2>4 DEF RowsStored
<1>15. CASE UNCHANGED vars
  BY <1>15 DEF vars, RowsStored
<1> QED
  BY <1>1, <1>2, <1>3, <1>4, <1>5, <1>6, <1>7, <1>8, <1>9, <1>10, <1>11, <1>12, <1>13, <1>14, <1>15
     DEF Next, Handle, Poll, FixNullIds, ChannelGone, OnChannel

-----------------------------------------------------------------------------
(* Refunds *)

\* The pollers that may have paid back t and will not list it again: those that
\* are about to save it, and, once its row has ended, all that do not hold a copy.
PaidBy(t) == {n \in Nodes : Saves(n, t) \/ (row[t] \in Finished /\ t \notin batch[n])}

\* Each of them did so at most once, and once more for every row that was lost.
PaidOnce ==
    \A t \in Tasks : refunds[t] + unpaid[t] <= unsaved[t] + Cardinality(PaidBy(t))

\* The refund comes before the row, and only for what failed upstream.
PaidFirst ==
    /\ \A t \in Tasks : refunds[t] > 0 => upstream[t] = "FAILURE"
    /\ \A n \in Nodes : \A t \in Priced :
          saving[n] # None /\ saving[n][1] = t /\ saving[n][2] = "FAILURE" => refunds[t] + unpaid[t] >= 1
    /\ FailureIsRefunded

\* The cardinalities of sets of nodes.
LEMMA SubsetCard ==
    ASSUME NEW S \in SUBSET Nodes, NEW T \in SUBSET Nodes
    PROVE  /\ Cardinality(S) \in Nat /\ Cardinality(T) \in Nat
           /\ S \subseteq T => Cardinality(S) <= Cardinality(T)
           /\ \A n \in T \ S : S \subseteq T => Cardinality(S) + 1 <= Cardinality(T)
           /\ \A n : S \ {n} \subseteq T => Cardinality(S) <= Cardinality(T) + 1
<1>1. IsFiniteSet(S) /\ IsFiniteSet(T)
  BY TaskAssumption, FS_Subset
<1>2. Cardinality(S) \in Nat /\ Cardinality(T) \in Nat
  BY <1>1, FS_CardinalityType
<1>3. S \subseteq T => Cardinality(S) <= Cardinality(T)
  BY <1>1, FS_Subset
<1>4. ASSUME NEW n \in T \ S, S \subseteq T PROVE Cardinality(S) + 1 <= Cardinality(T)
  <2>1. Cardinality(S \cup {n}) = Cardinality(S) + 1 /\ IsFiniteSet(S \cup {n})
    BY <1>1, <1>4, FS_AddElement
  <2>2. S \cup {n} \subseteq T
    BY <1>4
  <2> QED
    BY <1>1, <2>1, <2>2, FS_Subset
<1>5. ASSUME NEW n, S \ {n} \subseteq T PROVE Cardinality(S) <= Cardinality(T) + 1
  <2>1. IsFiniteSet(S \ {n}) /\ Cardinality(S) <= Cardinality(S \ {n}) + 1
    BY <1>1, <1>2, FS_RemoveElement
  <2>2. Cardinality(S \ {n}) <= Cardinality(T) /\ Cardinality(S \ {n}) \in Nat
    BY <1>1, <1>5, <2>1, FS_Subset, FS_CardinalityType
  <2> QED
    BY <1>2, <2>1, <2>2
<1> QED
  BY <1>2, <1>3, <1>4, <1>5

\* The bound of PaidOnce survives a step that, for every task, takes no poller
\* from PaidBy, or pays once and adds one, or takes one and loses a row.
LEMMA PaidOnceKept ==
    ASSUME TaskTypeOK, TaskTypeOK', PaidOnce,
           \A t \in Tasks :
              \/ /\ PaidBy(t) \subseteq PaidBy(t)'
                 /\ refunds'[t] = refunds[t] /\ unpaid'[t] = unpaid[t] /\ unsaved'[t] >= unsaved[t]
              \/ /\ PaidBy(t) \subseteq PaidBy(t)' /\ PaidBy(t)' \ PaidBy(t) # {}
                 /\ refunds'[t] + unpaid'[t] = refunds[t] + unpaid[t] + 1 /\ unsaved'[t] = unsaved[t]
              \/ /\ \E n \in Nodes : PaidBy(t) \ {n} \subseteq PaidBy(t)'
                 /\ refunds'[t] = refunds[t] /\ unpaid'[t] = unpaid[t] /\ unsaved'[t] = unsaved[t] + 1
    PROVE  PaidOnce'
<1> SUFFICES ASSUME NEW t \in Tasks
             PROVE  refunds'[t] + unpaid'[t] <= unsaved'[t] + Cardinality(PaidBy(t)')
  BY DEF PaidOnce
<1>1. PaidBy(t) \in SUBSET Nodes /\ PaidBy(t)' \in SUBSET Nodes
  BY DEF PaidBy
<1>2. /\ refunds[t] \in Nat /\ unpaid[t] \in Nat /\ unsaved[t] \in Nat
      /\ refunds'[t] \in Nat /\ unpaid'[t] \in Nat /\ unsaved'[t] \in Nat
  BY DEF TaskTypeOK
<1>3. refunds[t] + unpaid[t] <= unsaved[t] + Cardinality(PaidBy(t))
  BY DEF PaidOnce
<1> DEFINE S == PaidBy(t)
           T == PaidBy(t)'
<1>4. /\ Cardinality(S) \in Nat /\ Cardinality(T) \in Nat
      /\ S \subseteq T => Cardinality(S) <= Cardinality(T)
      /\ \A n \in T \ S : S \subseteq T => Cardinality(S) + 1 <= Cardinality(T)
      /\ \A n : S \ {n} \subseteq T => Cardinality(S) <= Cardinality(T) + 1
  BY <1>1, SubsetCard
<1>5. refunds[t] + unpaid[t] <= unsaved[t] + Cardinality(S)
  BY <1>3
<1>6. \/ /\ S \subseteq T
         /\ refunds'[t] = refunds[t] /\ unpaid'[t] = unpaid[t] /\ unsaved'[t] >= unsaved[t]
      \/ /\ S \subseteq T /\ T \ S # {}
         /\ refunds'[t] + unpaid'[t] = refunds[t] + unpaid[t] + 1 /\ unsaved'[t] = unsaved[t]
      \/ /\ \E n \in Nodes : S \ {n} \subseteq T
         /\ refunds'[t] = refunds[t] /\ unpaid'[t] = unpaid[t] /\ unsaved'[t] = unsaved[t] + 1
  OBVIOUS
<1>7. refunds'[t] + unpaid'[t] <= unsaved'[t] + Cardinality(T)
  <2> HIDE DEF S, T
  <2>1. CASE S \subseteq T /\ refunds'[t] = refunds[t] /\ unpaid'[t] = unpaid[t] /\ unsaved'[t] >= unsaved[t]
    BY <1>2, <1>4, <1>5, <2>1
  <2>2. CASE S \subseteq T /\ T \ S # {} /\ refunds'[t] + unpaid'[t] = refunds[t] + unpaid[t] + 1 /\ unsaved'[t] = unsaved[t]
    <3>1. Cardinality(S) + 1 <= Cardinality(T)
      BY <1>4, <2>2
    <3> QED BY <1>2, <1>4, <1>5, <2>2, <3>1
  <2>3. CASE (\E n \in Nodes : S \ {n} \subseteq T) /\ refunds'[t] = refunds[t] /\ unpaid'[t] = unpaid[t] /\ unsaved'[t] = unsaved[t] + 1
    <3>1. Cardinality(S) <= Cardinality(T) + 1
      BY <1>4, <2>3
    <3> QED BY <1>2, <1>4, <1>5, <2>3, <3>1
  <2> QED
    BY <1>6, <2>1, <2>2, <2>3
<1> QED
  BY <1>7

\* A step that saves nothing, reopens no row and lists no finished one.
Quiet ==
    /\ UNCHANGED <<saving, refunds, unpaid, unsaved>>
    /\ \A t \in Tasks : row[t] \in Finished =>
          row'[t] \in Finished /\ \A n \in Nodes : t \in batch'[n] => t \in batch[n]

\* ... and so a quiet step.
LEMMA QuietKeeps ==
    ASSUME TaskTypeOK, TaskTypeOK', PaidOnce, Quiet
    PROVE  PaidOnce'
<1>1. \A t \in Tasks : PaidBy(t) \subseteq PaidBy(t)'
  BY DEF Quiet, PaidBy, Saves
<1>2. \A t \in Tasks : refunds'[t] = refunds[t] /\ unpaid'[t] = unpaid[t] /\ unsaved'[t] >= unsaved[t]
  BY DEF Quiet, TaskTypeOK
<1> QED
  BY <1>1, <1>2, PaidOnceKept

\* Every step keeps PaidOnce.
LEMMA PaidOnceStep ==
    TaskTypeOK /\ TaskTypeOK' /\ RowsStored /\ PaidOnce /\ [Next]_vars => PaidOnce'
<1> SUFFICES ASSUME TaskTypeOK, TaskTypeOK', RowsStored, PaidOnce, [Next]_vars PROVE PaidOnce'
  OBVIOUS
<1>1. ASSUME NEW t \in Tasks, Submit(t) \/ Check(t) \/ Signal(t) \/ Finish(t) PROVE Quiet
  BY <1>1 DEF Submit, Check, Signal, Finish, Quiet
<1>2. ASSUME NEW t \in Tasks, Insert(t) PROVE Quiet
  <2>1. row[t] = "absent"
    BY <1>2 DEF Insert, RowsStored
  <2> QED
    BY <1>2, <2>1 DEF Insert, Quiet, Finished, TaskTypeOK
<1>3. ASSUME NEW n \in Nodes, Wake(n) \/ Deactivate(n) \/ Sleep(n) \/ EndOfRound(n) PROVE Quiet
  BY <1>3 DEF Wake, Deactivate, EndOfRound, Sleep, Quiet
<1>4. ASSUME NEW n \in Nodes, List(n) PROVE Quiet
  <2>1. \A t \in Listed : row[t] \notin Finished
    BY DEF Listed, Unfinished, Finished
  <2>2. \A m \in Nodes : batch'[m] = batch[m] \/ batch'[m] = Listed
    BY <1>4 DEF List, TaskTypeOK
  <2>3. UNCHANGED <<row, saving, refunds, unpaid, unsaved>>
    BY <1>4 DEF List
  <2> QED
    BY <2>1, <2>2, <2>3 DEF Quiet
<1>5. ASSUME NEW n \in Nodes, NEW lost, GiveUp(n, lost) PROVE Quiet
  <2>1. \A t \in Tasks : row'[t] = row[t] \/ row'[t] = "LOST"
    BY <1>5 DEF GiveUp, TaskTypeOK
  <2>2. \A m \in Nodes : batch'[m] \subseteq batch[m]
    BY <1>5 DEF GiveUp, TaskTypeOK
  <2>3. UNCHANGED <<saving, refunds, unpaid, unsaved>>
    BY <1>5 DEF GiveUp
  <2> QED
    BY <2>1, <2>2, <2>3 DEF Quiet, Finished
<1>6. ASSUME NEW n \in Nodes, NEW c, FetchFails(n, c) PROVE Quiet
  BY <1>6 DEF FetchFails, Quiet, TaskTypeOK
<1>7. ASSUME NEW n \in Nodes, NEW t \in Tasks, NoNews(n, t) PROVE Quiet
  BY <1>7 DEF NoNews, Quiet, TaskTypeOK
<1>8. ASSUME NEW n \in Nodes, Panic(n) PROVE Quiet
  BY <1>8 DEF Panic, Quiet, TaskTypeOK
<1>9. ASSUME NEW n \in Nodes, NEW u \in Tasks, Update(n, u) PROVE PaidOnce'
  <2>1. u \in batch[n] /\ saving[n] = None /\ saving'[n] = <<u, upstream[u]>>
    BY <1>9 DEF Update, Working, TaskTypeOK
  <2>2. \A m \in Nodes : m # n => saving'[m] = saving[m]
    BY <1>9 DEF Update, TaskTypeOK
  <2>3. UNCHANGED <<row, batch, unsaved>>
    BY <1>9 DEF Update
  <2>4. row[u] \notin Finished => n \notin PaidBy(u)
    BY <2>1 DEF PaidBy, Saves
  <2>5. n \notin PaidBy(u)
    BY <2>1 DEF PaidBy, Saves
  <2>6. <<u, upstream[u]>> # None /\ <<u, upstream[u]>>[1] = u
    BY DEF None
  <2>7. n \in PaidBy(u)'
    BY <2>1, <2>6 DEF PaidBy, Saves
  <2>8. \A t \in Tasks : PaidBy(t) \subseteq PaidBy(t)'
    BY <2>1, <2>2, <2>3 DEF PaidBy, Saves
  <2>9. \A t \in Tasks : t # u => refunds'[t] = refunds[t] /\ unpaid'[t] = unpaid[t]
    BY <1>9 DEF Update, Refund, TaskTypeOK
  <2>10. \/ refunds'[u] = refunds[u] /\ unpaid'[u] = unpaid[u]
         \/ refunds'[u] + unpaid'[u] = refunds[u] + unpaid[u] + 1
    BY <1>9 DEF Update, Refund, TaskTypeOK
  <2>11. \A t \in Tasks : unsaved'[t] = unsaved[t] /\ unsaved'[t] >= unsaved[t]
    BY <2>3 DEF TaskTypeOK
  <2> QED
    BY <2>5, <2>7, <2>8, <2>9, <2>10, <2>11, PaidOnceKept
<1>10. ASSUME NEW n \in Nodes, Save(n) PROVE PaidOnce'
  <2>1. PICK u \in Tasks : u = saving[n][1]
    BY <1>10, SavingType DEF Save
  <2>2. saving[n][2] \in Finished
    BY <1>10 DEF Save, RowsStored, Finished
  <2>3. \A m \in Nodes : m # n => saving'[m] = saving[m]
    BY <1>10 DEF Save, TaskTypeOK
  <2>4. batch'[n] = batch[n] \ {u} /\ \A m \in Nodes : batch'[m] \subseteq batch[m]
    BY <1>10, <2>1 DEF Save, TaskTypeOK
  <2>5. UNCHANGED <<refunds, unpaid>>
    BY <1>10 DEF Save
  <2>6. \/ row' = [row EXCEPT ![u] = saving[n][2]] /\ unsaved' = unsaved
        \/ unsaved' = [unsaved EXCEPT ![u] = @ + 1] /\ row' = row
    BY <1>10, <2>1, Zenon DEF Save
  <2>7. \A t \in Tasks : row[t] \in Finished => row'[t] \in Finished
    BY <2>2, <2>6 DEF TaskTypeOK
  <2>8. \A t \in Tasks : PaidBy(t) \ {n} \subseteq PaidBy(t)'
    BY <2>3, <2>4, <2>7 DEF PaidBy, Saves
  <2>9. \A t \in Tasks : t # u => PaidBy(t) \subseteq PaidBy(t)'
    BY <2>1, <2>3, <2>4, <2>7 DEF PaidBy, Saves
  <2>10. CASE row' = [row EXCEPT ![u] = saving[n][2]] /\ unsaved' = unsaved
    <3>1. row'[u] \in Finished
      BY <2>2, <2>10 DEF TaskTypeOK
    <3>2. n \in PaidBy(u)'
      BY <2>4, <3>1 DEF PaidBy
    <3>3. \A t \in Tasks : PaidBy(t) \subseteq PaidBy(t)'
      BY <2>8, <2>9, <3>2
    <3>4. \A t \in Tasks : unsaved'[t] >= unsaved[t]
      BY <2>10 DEF TaskTypeOK
    <3> QED
      BY <2>5, <3>3, <3>4, PaidOnceKept
  <2>11. CASE unsaved' = [unsaved EXCEPT ![u] = @ + 1] /\ row' = row
    <3>1. unsaved'[u] = unsaved[u] + 1 /\ \A t \in Tasks : t # u => unsaved'[t] = unsaved[t] /\ unsaved'[t] >= unsaved[t]
      BY <2>11 DEF TaskTypeOK
    <3> QED
      BY <2>5, <2>8, <2>9, <3>1, PaidOnceKept
  <2> QED
    BY <2>6, <2>10, <2>11
<1>11. ASSUME NEW n \in Nodes, Restart(n) PROVE PaidOnce'
  <2>1. UNCHANGED <<row, refunds, unpaid>> /\ batch'[n] = {}
    BY <1>11 DEF Restart, TaskTypeOK
  <2>2. \A m \in Nodes : m # n => saving'[m] = saving[m] /\ batch'[m] = batch[m]
    BY <1>11 DEF Restart, TaskTypeOK
  <2>3. CASE saving[n] = None
    <3>1. unsaved' = unsaved
      BY <1>11, <2>3 DEF Restart
    <3>2. \A t \in Tasks : PaidBy(t) \subseteq PaidBy(t)'
      BY <2>1, <2>2, <2>3 DEF PaidBy, Saves
    <3>3. \A t \in Tasks : unsaved'[t] >= unsaved[t]
      BY <3>1 DEF TaskTypeOK
    <3> QED
      BY <2>1, <3>2, <3>3, PaidOnceKept
  <2>4. CASE saving[n] # None
    <3>1. PICK u \in Tasks : u = saving[n][1]
      BY <2>4, SavingType
    <3>2. unsaved' = [unsaved EXCEPT ![u] = @ + 1]
      BY <1>11, <2>4, <3>1, Zenon DEF Restart
    <3>3. unsaved'[u] = unsaved[u] + 1 /\ \A t \in Tasks : t # u => unsaved'[t] = unsaved[t] /\ unsaved'[t] >= unsaved[t]
      BY <3>2 DEF TaskTypeOK
    <3>4. \A t \in Tasks : t # u => PaidBy(t) \subseteq PaidBy(t)'
      BY <2>1, <2>2, <3>1 DEF PaidBy, Saves
    <3>5. PaidBy(u) \ {n} \subseteq PaidBy(u)'
      BY <2>1, <2>2 DEF PaidBy, Saves
    <3> QED
      BY <2>1, <3>3, <3>4, <3>5, PaidOnceKept
  <2> QED
    BY <2>3, <2>4
<1>12. ASSUME UNCHANGED vars PROVE Quiet
  BY <1>12 DEF vars, Quiet
<1> QED
  BY <1>1, <1>2, <1>3, <1>4, <1>5, <1>6, <1>7, <1>8, <1>9, <1>10, <1>11, <1>12, QuietKeeps
     DEF Next, Handle, Poll, FixNullIds, ChannelGone

\* Every step keeps PaidFirst.
LEMMA PaidFirstStep ==
    TaskTypeOK /\ TaskTypeOK' /\ RowsStored /\ PaidFirst /\ [Next]_vars => PaidFirst'
<1> SUFFICES ASSUME TaskTypeOK, TaskTypeOK', RowsStored, PaidFirst, [Next]_vars PROVE PaidFirst'
  OBVIOUS
<1> USE TaskAssumption
<1> DEFINE Kept == /\ UNCHANGED <<saving, refunds, unpaid>>
                   /\ \A t \in Tasks : row'[t] = "FAILURE" => row[t] = "FAILURE"
                   /\ \A t \in Tasks : upstream[t] = "FAILURE" => upstream'[t] = "FAILURE"
<1>0. Kept => PaidFirst'
  BY DEF PaidFirst, FailureIsRefunded
<1>1. ASSUME NEW t \in Tasks, Submit(t) \/ Insert(t) \/ Check(t) \/ Signal(t) \/ Finish(t) PROVE Kept
  <2>1. CASE Insert(t)
    BY <2>1 DEF Insert, TaskTypeOK
  <2>2. CASE Finish(t)
    BY <2>2 DEF Finish, TaskTypeOK
  <2>3. CASE Submit(t) \/ Check(t) \/ Signal(t)
    BY <2>3 DEF Submit, Check, Signal
  <2> QED
    BY <1>1, <2>1, <2>2, <2>3
<1>2. ASSUME NEW n \in Nodes, Wake(n) \/ List(n) \/ Deactivate(n) \/ Sleep(n) \/ EndOfRound(n) \/ Panic(n) PROVE Kept
  BY <1>2 DEF Wake, List, Deactivate, EndOfRound, Sleep, Panic
<1>3. ASSUME NEW n \in Nodes, NEW lost, GiveUp(n, lost) PROVE Kept
  BY <1>3 DEF GiveUp
<1>4. ASSUME NEW n \in Nodes, NEW t \in Tasks, NEW c, NoNews(n, t) \/ FetchFails(n, c) PROVE Kept
  BY <1>4 DEF NoNews, FetchFails
<1>5. ASSUME NEW n \in Nodes, NEW u \in Tasks, Update(n, u) PROVE PaidFirst'
  <2>1. saving'[n] = <<u, upstream[u]>> /\ \A m \in Nodes : m # n => saving'[m] = saving[m]
    BY <1>5 DEF Update, TaskTypeOK
  <2>2. UNCHANGED <<row, upstream>>
    BY <1>5 DEF Update
  <2>3. \A t \in Tasks : refunds'[t] >= refunds[t] /\ unpaid'[t] >= unpaid[t]
    BY <1>5 DEF Update, Refund, TaskTypeOK
  <2>4. \A t \in Tasks : refunds'[t] # refunds[t] => upstream[t] = "FAILURE"
    BY <1>5 DEF Update, Refund, TaskTypeOK
  <2>5. upstream[u] = "FAILURE" /\ u \in Priced => refunds'[u] + unpaid'[u] >= 1
    BY <1>5 DEF Update, Refund, TaskTypeOK
  <2>6. \A t \in Tasks : refunds[t] + unpaid[t] >= 1 => refunds'[t] + unpaid'[t] >= 1
    BY <2>3 DEF TaskTypeOK
  <2>7. \A t \in Tasks : refunds'[t] > 0 => upstream'[t] = "FAILURE"
    BY <2>2, <2>4 DEF PaidFirst
  <2> QED
    BY <2>1, <2>2, <2>5, <2>6, <2>7 DEF PaidFirst, FailureIsRefunded
<1>6. ASSUME NEW n \in Nodes, Save(n) PROVE PaidFirst'
  <2>1. PICK u \in Tasks : u = saving[n][1]
    BY <1>6, SavingType DEF Save
  <2>2. row' \in {row, [row EXCEPT ![u] = saving[n][2]]}
    BY <1>6, <2>1, Zenon DEF Save
  <2>3. saving[n] # None /\ UNCHANGED <<refunds, unpaid, upstream>>
    BY <1>6 DEF Save
  <2>4. \A m \in Nodes : saving'[m] = saving[m] \/ saving'[m] = None
    BY <1>6 DEF Save, TaskTypeOK
  <2>5. \A t \in Priced : row'[t] = "FAILURE" => row[t] = "FAILURE" \/ (t = u /\ saving[n][2] = "FAILURE")
    BY <2>2 DEF TaskTypeOK
  <2> QED
    BY <2>1, <2>3, <2>4, <2>5 DEF PaidFirst, FailureIsRefunded
<1>7. ASSUME NEW n \in Nodes, Restart(n) PROVE PaidFirst'
  <2>1. \A m \in Nodes : saving'[m] = saving[m] \/ saving'[m] = None
    BY <1>7 DEF Restart, TaskTypeOK
  <2>2. UNCHANGED <<row, refunds, unpaid, upstream>>
    BY <1>7 DEF Restart
  <2> QED
    BY <2>1, <2>2 DEF PaidFirst, FailureIsRefunded
<1>8. CASE UNCHANGED vars
  BY <1>8, <1>0 DEF vars
<1> QED
  BY <1>0, <1>1, <1>2, <1>3, <1>4, <1>5, <1>6, <1>7, <1>8
     DEF Next, Handle, Poll, FixNullIds, ChannelGone

-----------------------------------------------------------------------------
(* Wake-ups *)

\* The limit of the list never hides all the unfinished rows.
LEMMA EmptyListMeansNone == Listed = {} => Unfinished = {}
<1> SUFFICES ASSUME Unfinished # {} PROVE Listed # {}
  OBVIOUS
<1>1. Unfinished \in SUBSET Nat /\ Unfinished \subseteq Tasks
  BY TaskAssumption DEF Unfinished
<1>2. PICK m \in Unfinished : \A k \in Unfinished : m <= k
  BY <1>1, LeastNat
<1>3. {u \in Unfinished : u <= m} = {m}
  <2>1. m \in Nat /\ m <= m /\ \A u \in Unfinished : u \in Nat
    BY <1>1
  <2>2. \A u \in Unfinished : u <= m <=> u = m
    BY <1>2, <2>1
  <2> QED
    BY <2>2
<1>4. Cardinality({u \in Unfinished : u <= m}) = 1
  BY <1>3, FS_Singleton
<1>5. 1 <= ListLimit
  BY TaskAssumption
<1> QED
  BY <1>1, <1>2, <1>4, <1>5, Zenon DEF Listed

\* Unfinished rows are left to no more than handlers that are still at these steps.
Left(n, steps) == \A t \in Unfinished : NodeOf[t] = n => handler[t] \in steps

\* A poller is active while it works, and what it has not seen when it goes to
\* sleep is a row whose handler will still look at the flag.
Awake ==
    \A n \in Nodes :
        /\ poller[n] \in {"list", "empty", "work", "sleep"} => active[n]
        /\ poller[n] = "empty" /\ ~missed[n] => Left(n, {"check"})
        /\ poller[n] = "wait" /\ ~active[n] /\ ~missed[n] => Left(n, {"check", "signal"})

\* Every step keeps the pollers awake for what is left.
LEMMA AwakeStep == TaskTypeOK /\ RowsStored /\ Awake /\ [Next]_vars => Awake'
<1> SUFFICES ASSUME TaskTypeOK, RowsStored, Awake, [Next]_vars PROVE Awake'
  OBVIOUS
<1> USE TaskAssumption
<1>1. ASSUME NEW t \in Tasks, Submit(t) \/ Insert(t) PROVE Awake'
  <2>1. \A n \in Nodes, steps \in {{"check"}, {"check", "signal"}} : Left(n, steps) => Left(n, steps)'
    BY <1>1 DEF Submit, Insert, Left, Unfinished, TaskTypeOK
  <2>2. UNCHANGED <<poller, active, missed>>
    BY <1>1 DEF Submit, Insert
  <2> QED
    BY <2>1, <2>2 DEF Awake
<1>2. ASSUME NEW t \in Tasks, Check(t) PROVE Awake'
  <2>1. \A n \in Nodes : n # NodeOf[t] => (Left(n, {"check"}) => Left(n, {"check"})')
    BY <1>2 DEF Check, Left, Unfinished, TaskTypeOK
  <2>2. \A n \in Nodes : n # NodeOf[t] \/ ~active[n] => (Left(n, {"check", "signal"}) => Left(n, {"check", "signal"})')
    BY <1>2 DEF Check, Left, Unfinished, TaskTypeOK
  <2>3. \A n \in Nodes : missed[n] => missed'[n]
    BY <1>2 DEF Check, TaskTypeOK
  <2>4. active[NodeOf[t]] /\ poller[NodeOf[t]] = "empty" => missed'[NodeOf[t]]
    BY <1>2 DEF Check, TaskTypeOK
  <2>5. UNCHANGED <<poller, active>>
    BY <1>2 DEF Check
  <2> QED
    BY <2>1, <2>2, <2>3, <2>4, <2>5 DEF Awake
<1>3. ASSUME NEW t \in Tasks, Signal(t) PROVE Awake'
  <2>1. \A n \in Nodes : Left(n, {"check"}) => Left(n, {"check"})'
    BY <1>3 DEF Signal, Left, Unfinished, TaskTypeOK
  <2>2. \A n \in Nodes : n # NodeOf[t] => (Left(n, {"check", "signal"}) => Left(n, {"check", "signal"})')
    BY <1>3 DEF Signal, Left, Unfinished, TaskTypeOK
  <2>3. active'[NodeOf[t]] /\ \A n \in Nodes : n # NodeOf[t] => active'[n] = active[n]
    BY <1>3 DEF Signal, TaskTypeOK
  <2>4. UNCHANGED <<poller, missed>>
    BY <1>3 DEF Signal
  <2> QED
    BY <2>1, <2>2, <2>3, <2>4 DEF Awake
<1>4. ASSUME NEW n \in Nodes, Wake(n) \/ Deactivate(n) \/ Sleep(n) \/ EndOfRound(n) PROVE Awake'
  <2>1. UNCHANGED <<row, handler, missed>>
    BY <1>4 DEF Wake, Deactivate, EndOfRound, Sleep
  <2>2. \A m, steps : Left(m, steps) => Left(m, steps)'
    BY <2>1 DEF Left, Unfinished
  <2>3. \A m \in Nodes : m # n => poller'[m] = poller[m] /\ active'[m] = active[m]
    BY <1>4 DEF Wake, Deactivate, EndOfRound, Sleep, TaskTypeOK
  <2>4. CASE Deactivate(n)
    <3>1. poller[n] = "empty" /\ poller'[n] = "wait"
      BY <2>4 DEF Deactivate, TaskTypeOK
    <3>2. Left(n, {"check"}) => Left(n, {"check", "signal"})
      BY DEF Left
    <3> QED
      BY <2>1, <2>2, <2>3, <3>1, <3>2 DEF Awake
  <2>5. CASE Wake(n) \/ Sleep(n) \/ EndOfRound(n)
    <3>1. active[n] /\ active' = active /\ poller'[n] \in {"list", "sleep"}
      BY <2>5 DEF Wake, Sleep, EndOfRound, Working, Awake, TaskTypeOK
    <3> QED
      BY <2>1, <2>2, <2>3, <3>1 DEF Awake
  <2> QED
    BY <1>4, <2>4, <2>5
<1>5. ASSUME NEW n \in Nodes, List(n) PROVE Awake'
  <2>1. UNCHANGED <<row, handler, active>> /\ active[n]
    BY <1>5 DEF List, Awake
  <2>2. \A m, steps : Left(m, steps) => Left(m, steps)'
    BY <2>1 DEF Left, Unfinished
  <2>3. \A m \in Nodes : m # n => poller'[m] = poller[m] /\ missed'[m] = missed[m]
    BY <1>5 DEF List, TaskTypeOK
  <2>4. poller'[n] = "work" \/ (poller'[n] = "empty" /\ (missed'[n] \/ Unfinished = {}))
    BY <1>5, EmptyListMeansNone DEF List, TaskTypeOK
  <2>5. Unfinished = {} => Left(n, {"check"})
    BY DEF Left
  <2> QED
    BY <2>1, <2>2, <2>3, <2>4, <2>5 DEF Awake
<1>6. ASSUME NEW n \in Nodes, NEW lost, GiveUp(n, lost) PROVE Awake'
  <2>1. Unfinished' \subseteq Unfinished /\ handler' = handler
    BY <1>6 DEF GiveUp, Unfinished
  <2>2. \A m, steps : Left(m, steps) => Left(m, steps)'
    BY <2>1 DEF Left
  <2>3. UNCHANGED <<poller, active, missed>>
    BY <1>6 DEF GiveUp
  <2> QED
    BY <2>2, <2>3 DEF Awake
<1>7. ASSUME NEW n \in Nodes, NEW t \in Tasks, NEW c,
             Finish(t) \/ NoNews(n, t) \/ Update(n, t) \/ FetchFails(n, c)
      PROVE  Awake'
  <2>1. UNCHANGED <<row, handler, poller, active, missed>>
    BY <1>7 DEF Finish, NoNews, Update, FetchFails
  <2> QED
    BY <2>1 DEF Awake, Left, Unfinished
<1>8. ASSUME NEW n \in Nodes, Save(n) PROVE Awake'
  <2>1. PICK u \in Tasks : u = saving[n][1]
    BY <1>8, SavingType DEF Save
  <2>2. saving[n][2] # "NOT_START"
    BY <1>8 DEF Save, RowsStored
  <2>3. row' \in {row, [row EXCEPT ![u] = saving[n][2]]}
    BY <1>8, <2>1, Zenon DEF Save
  <2>4. Unfinished' \subseteq Unfinished
    BY <2>2, <2>3 DEF Unfinished, TaskTypeOK
  <2>5. UNCHANGED <<handler, poller, active, missed>>
    BY <1>8 DEF Save
  <2>6. \A m, steps : Left(m, steps) => Left(m, steps)'
    BY <2>4, <2>5 DEF Left
  <2> QED
    BY <2>5, <2>6 DEF Awake
<1>9. ASSUME NEW n \in Nodes, Panic(n) \/ Restart(n) PROVE Awake'
  <2>1. \A m \in Nodes : m # n =>
           poller'[m] = poller[m] /\ active'[m] = active[m] /\ missed'[m] = missed[m]
    BY <1>9 DEF Panic, Restart, TaskTypeOK
  <2>2. poller'[n] \in {"dead", "wait"} /\ (poller'[n] = "wait" => active'[n])
    BY <1>9 DEF Panic, Restart, TaskTypeOK
  <2>3. row' = row /\ \A t \in Tasks : NodeOf[t] # n => handler'[t] = handler[t]
    BY <1>9 DEF Panic, Restart, TaskTypeOK
  <2>4. \A m, steps : m # n => (Left(m, steps) => Left(m, steps)')
    BY <2>3 DEF Left, Unfinished
  <2> QED
    BY <2>1, <2>2, <2>4 DEF Awake
<1>10. CASE UNCHANGED vars
  BY <1>10 DEF vars, Awake, Left, Unfinished
<1> QED
  BY <1>1, <1>2, <1>3, <1>4, <1>5, <1>6, <1>7, <1>8, <1>9, <1>10
     DEF Next, Handle, Poll, FixNullIds, ChannelGone

-----------------------------------------------------------------------------
(* Submissions *)

\* The type of a submission.
SubType == [pc : {"init", "provider", "relay", "again", "over"}, platform : {"suno", "kling"},
           origin : BOOLEAN, left : Nat, held : {0, 1}, paid : Int, failed : Nat, err : BOOLEAN,
           stored : BOOLEAN, answered : BOOLEAN]

\* What it has paid at each step: nothing, its reservation, and, in the retry
\* loop, what the undone tries left of it.
SubInv ==
    /\ sub \in SubType
    /\ sub.pc \in {"init", "provider"} => sub.held = 0
    /\ sub.pc \in {"init", "provider", "relay"} => sub.paid = sub.held /\ sub.failed = 0
    /\ sub.pc = "again" =>
          sub.err /\ sub.failed > 0 /\ sub.paid = (IF sub.held = 0 THEN 0 ELSE 1 - sub.failed)
    /\ sub.pc # "over" => ~sub.stored /\ ~sub.answered
    /\ SubmitSettled

\* The fields of a submission.
LEMMA SubFields ==
    \A s \in SubType : /\ s.held \in {0, 1} /\ s.paid \in Int /\ s.failed \in Nat /\ s.left \in Nat
                        /\ s.err \in BOOLEAN /\ s.stored \in BOOLEAN /\ s.answered \in BOOLEAN
BY DEF SubType

\* CompletedTask takes the price and gives back the reservation.
LEMMA CompletedIs ==
    ASSUME NEW s \in SubType
    PROVE  /\ Completed(s) \in SubType /\ Completed(s).pc = "over" /\ Completed(s).stored = TRUE
           /\ Completed(s).paid = s.paid + 1 - s.held /\ Completed(s).held = s.held
           /\ Completed(s).failed = s.failed /\ Completed(s).answered = s.answered
<1> DEFINE total == s.paid + 1 - s.held
<1>1. total \in Int
  BY SubFields
<1>2. Completed(s) = [s EXCEPT !.pc = "over", !.paid = total, !.stored = TRUE]
  BY DEF Completed, SubType
<1>3. total = s.paid + 1 - s.held
  OBVIOUS
<1> HIDE DEF total
<1>4. Completed(s).paid = total
  BY <1>1, <1>2 DEF SubType
<1>5. /\ Completed(s) \in SubType /\ Completed(s).pc = "over" /\ Completed(s).stored = TRUE
      /\ Completed(s).held = s.held /\ Completed(s).failed = s.failed /\ Completed(s).answered = s.answered
  BY <1>1, <1>2 DEF SubType
<1> QED
  BY <1>3, <1>4, <1>5, Zenon

\* A failed try gives back the reservation, whether it is still there or not.
LEMMA UndoneIs ==
    ASSUME NEW s \in SubType
    PROVE  /\ Undone(s) \in SubType /\ Undone(s).pc = s.pc /\ Undone(s).stored = s.stored
           /\ Undone(s).paid = s.paid - s.held /\ Undone(s).held = s.held
           /\ Undone(s).failed = s.failed + 1 /\ Undone(s).err = TRUE /\ Undone(s).answered = s.answered
<1> DEFINE total == s.paid - s.held
           failed == s.failed + 1
<1>1. total \in Int /\ failed \in Nat
  BY SubFields
<1>2. Undone(s) = [s EXCEPT !.paid = total, !.failed = failed, !.err = TRUE]
  BY DEF Undone, SubType
<1>3. total = s.paid - s.held /\ failed = s.failed + 1
  OBVIOUS
<1> HIDE DEF total, failed
<1>4. Undone(s).paid = total /\ Undone(s).failed = failed
  BY <1>1, <1>2 DEF SubType
<1>5. /\ Undone(s) \in SubType /\ Undone(s).pc = s.pc /\ Undone(s).stored = s.stored
      /\ Undone(s).held = s.held /\ Undone(s).err = TRUE /\ Undone(s).answered = s.answered
  BY <1>1, <1>2 DEF SubType
<1> QED
  BY <1>3, <1>4, <1>5, Zenon

\* A submission starts with nothing,
LEMMA SubInvInit == SubInit => SubInv
BY DEF SubInit, SubInv, SubType, SubmitSettled

\* and every step keeps its books.
LEMMA SubInvStep == SubInv /\ [SubNext]_sub => SubInv'
<1> SUFFICES ASSUME SubInv, [SubNext]_sub PROVE SubInv'
  OBVIOUS
<1>0. sub \in SubType /\ sub.held \in {0, 1} /\ sub.paid \in Int /\ sub.failed \in Nat /\ sub.left \in Nat
  BY SubFields DEF SubInv
<1>1. ASSUME sub' = AnswerError, sub.pc \in {"init", "provider", "again"} PROVE SubInv'
  <2>1. /\ sub' \in SubType /\ sub'.pc = "over" /\ sub'.answered /\ sub'.stored = sub.stored
        /\ sub'.paid = sub.paid /\ sub'.held = sub.held /\ sub'.failed = sub.failed
    BY <1>0, <1>1 DEF AnswerError, SubType
  <2>2. ~sub.stored
    BY <1>1 DEF SubInv
  <2>3. sub.paid <= 0 /\ (sub.paid < 0 => sub.held = 1 /\ sub.paid >= 0 - (sub.failed - 1))
    BY <1>0, <1>1 DEF SubInv
  <2> QED
    BY <2>1, <2>2, <2>3 DEF SubInv, SubmitSettled
<1>2. CASE SubmitValidated
  <2>1. CASE \E platform \in {"suno", "kling"}, origin \in BOOLEAN :
               sub' = [sub EXCEPT !.pc = "provider", !.platform = platform, !.origin = origin]
    <3>1. /\ sub' \in SubType /\ sub'.pc = "provider" /\ sub'.stored = sub.stored /\ sub'.answered = sub.answered
          /\ sub'.paid = sub.paid /\ sub'.held = sub.held /\ sub'.failed = sub.failed
      BY <1>0, <2>1 DEF SubType
    <3> QED
      BY <1>2, <3>1 DEF SubmitValidated, SubInv, SubmitSettled
  <2> QED
    BY <1>1, <1>2, <2>1 DEF SubmitValidated
<1>3. CASE SubmitReserved
  <2>1. CASE \E held \in {0, 1} : sub' = [sub EXCEPT !.pc = "relay", !.held = held, !.paid = held]
    <3>0. PICK held \in {0, 1} : sub' = [sub EXCEPT !.pc = "relay", !.held = held, !.paid = held]
      BY <2>1
    <3>1. /\ sub' \in SubType /\ sub'.pc = "relay" /\ sub'.stored = sub.stored /\ sub'.answered = sub.answered
          /\ sub'.paid = sub'.held /\ sub'.failed = sub.failed
      <4>1. held \in Int
        OBVIOUS
      <4> QED
        BY <1>0, <3>0, <4>1 DEF SubType
    <3> QED
      BY <1>3, <3>1 DEF SubmitReserved, SubInv, SubmitSettled
  <2> QED
    BY <1>1, <1>3, <2>1 DEF SubmitReserved
<1>4. CASE FirstRelay
  <2>1. CASE sub' = [Completed(sub) EXCEPT !.answered = TRUE]
    <3>1. /\ sub' \in SubType /\ sub'.pc = "over" /\ sub'.stored = TRUE /\ sub'.answered = TRUE
          /\ sub'.paid = sub.paid + 1 - sub.held
      <4>1. PICK s \in SubType : s = Completed(sub)
        BY <1>0, CompletedIs
      <4>2. sub' = [s EXCEPT !.answered = TRUE]
        BY <2>1, <4>1
      <4>3. /\ sub' \in SubType /\ sub'.pc = s.pc /\ sub'.stored = s.stored /\ sub'.paid = s.paid
            /\ sub'.answered = TRUE
        BY <4>2 DEF SubType
      <4> QED
        BY <1>0, <4>1, <4>3, CompletedIs, Zenon
    <3>2. sub'.paid = 1
      BY <1>0, <1>4, <3>1 DEF FirstRelay, SubInv
    <3> QED
      BY <3>1, <3>2 DEF SubInv, SubmitSettled
  <2>2. ASSUME NEW left \in Nat, sub' = [Undone(sub) EXCEPT !.pc = "again", !.left = left] PROVE SubInv'
    <3>1. /\ sub' \in SubType /\ sub'.pc = "again" /\ sub'.stored = sub.stored /\ sub'.answered = sub.answered
          /\ sub'.paid = sub.paid - sub.held /\ sub'.held = sub.held /\ sub'.failed = sub.failed + 1 /\ sub'.err
      <4>1. ASSUME NEW s \in SubType, sub' = [s EXCEPT !.pc = "again", !.left = left]
            PROVE  /\ sub' \in SubType /\ sub'.pc = "again" /\ sub'.stored = s.stored
                   /\ sub'.answered = s.answered /\ sub'.paid = s.paid /\ sub'.held = s.held
                   /\ sub'.failed = s.failed /\ sub'.err = s.err
        BY <4>1 DEF SubType
      <4> DEFINE u == Undone(sub)
      <4>2. /\ u \in SubType /\ u.stored = sub.stored /\ u.paid = sub.paid - sub.held /\ u.held = sub.held
            /\ u.failed = sub.failed + 1 /\ u.err = TRUE /\ u.answered = sub.answered
        BY <1>0, UndoneIs
      <4>3. sub' = [u EXCEPT !.pc = "again", !.left = left]
        BY <2>2
      <4> HIDE DEF u
      <4>4. /\ sub' \in SubType /\ sub'.pc = "again" /\ sub'.stored = u.stored
            /\ sub'.answered = u.answered /\ sub'.paid = u.paid /\ sub'.held = u.held
            /\ sub'.failed = u.failed /\ sub'.err = u.err
        BY <4>1, <4>2, <4>3, Zenon
      <4> QED
        BY <4>2, <4>4, Zenon
    <3>2. sub'.paid = 0 /\ sub'.failed = 1
      BY <1>0, <1>4, <3>1 DEF FirstRelay, SubInv
    <3> QED
      BY <1>4, <3>1, <3>2 DEF FirstRelay, SubInv, SubmitSettled
  <2>3. \A retry : (IF retry THEN SubmitRetries ELSE 0) \in Nat
    BY SubmitAssumption
  <2> QED
    BY <1>4, <2>1, <2>2, <2>3 DEF FirstRelay
<1>5. CASE RetryRelay
  <2>1. /\ sub.pc = "again" /\ sub.err /\ sub.failed > 0 /\ ~sub.stored /\ ~sub.answered
        /\ sub.paid = (IF sub.held = 0 THEN 0 ELSE 1 - sub.failed) /\ sub.left - 1 \in Nat
    BY <1>0, <1>5 DEF RetryRelay, SubInv
  <2>2. CASE sub' = [sub EXCEPT !.left = @ - 1, !.err = TRUE]
    <3>1. /\ sub' \in SubType /\ sub'.pc = "again" /\ ~sub'.stored /\ ~sub'.answered
          /\ sub'.paid = sub.paid /\ sub'.held = sub.held /\ sub'.failed = sub.failed /\ sub'.err
      BY <1>0, <2>1, <2>2 DEF SubType
    <3> QED
      BY <2>1, <3>1 DEF SubInv, SubmitSettled
  <2>3. CASE sub' = [Completed(sub) EXCEPT !.err = FALSE]
    <3>1. /\ sub' \in SubType /\ sub'.pc = "over" /\ sub'.stored /\ ~sub'.answered
          /\ sub'.paid = sub.paid + 1 - sub.held /\ sub'.held = sub.held /\ sub'.failed = sub.failed
      <4>1. PICK s \in SubType : s = Completed(sub)
        BY <1>0, CompletedIs
      <4>2. sub' = [s EXCEPT !.err = FALSE]
        BY <2>3, <4>1
      <4>3. /\ sub' \in SubType /\ sub'.pc = s.pc /\ sub'.stored = s.stored /\ sub'.paid = s.paid
            /\ sub'.answered = s.answered /\ sub'.held = s.held /\ sub'.failed = s.failed
        BY <4>2 DEF SubType
      <4> QED
        BY <1>0, <2>1, <4>1, <4>3, CompletedIs, Zenon
    <3>2. sub'.paid <= 1 /\ (sub'.paid < 1 => sub'.held = 1 /\ sub'.paid >= 1 - sub'.failed)
      BY <1>0, <2>1, <3>1
    <3> QED
      BY <2>1, <3>1, <3>2 DEF SubInv, SubmitSettled
  <2>4. ASSUME NEW left \in Nat, sub' = [Undone(sub) EXCEPT !.left = left] PROVE SubInv'
    <3>1. /\ sub' \in SubType /\ sub'.pc = "again" /\ ~sub'.stored /\ ~sub'.answered
          /\ sub'.paid = sub.paid - sub.held /\ sub'.held = sub.held /\ sub'.failed = sub.failed + 1 /\ sub'.err
      <4>1. PICK s \in SubType : s = Undone(sub)
        BY <1>0, UndoneIs
      <4>2. sub' = [s EXCEPT !.left = left]
        BY <2>4, <4>1
      <4>3. /\ sub' \in SubType /\ sub'.pc = s.pc /\ sub'.stored = s.stored /\ sub'.paid = s.paid
            /\ sub'.answered = s.answered /\ sub'.held = s.held /\ sub'.failed = s.failed /\ sub'.err = s.err
        BY <4>2 DEF SubType
      <4> QED
        BY <1>0, <2>1, <4>1, <4>3, UndoneIs, Zenon
    <3>2. sub'.paid = (IF sub'.held = 0 THEN 0 ELSE 1 - sub'.failed) /\ sub'.failed > 0
      BY <1>0, <2>1, <3>1
    <3> QED
      BY <3>1, <3>2 DEF SubInv, SubmitSettled
  <2>5. sub' = [Undone(sub) EXCEPT !.left = @ - 1] => sub' = [Undone(sub) EXCEPT !.left = sub.left - 1]
    BY <1>0 DEF Undone, SubType
  <2> QED
    BY <1>5, <2>1, <2>2, <2>3, <2>4, <2>5 DEF RetryRelay
<1>6. CASE GivesUp
  <2>1. sub' = AnswerError
    BY <1>6 DEF GivesUp, SubInv
  <2> QED
    BY <1>1, <1>6, <2>1 DEF GivesUp
<1>7. CASE UNCHANGED sub
  BY <1>7 DEF SubInv, SubmitSettled
<1> QED
  BY <1>2, <1>3, <1>4, <1>5, <1>6, <1>7 DEF SubNext

-----------------------------------------------------------------------------
(* The theorems *)

\* The inductive invariant of the pollers of the tasks.
PollersInv == TaskInv /\ PaidOnce /\ PaidFirst /\ Awake

\* It holds at the start,
LEMMA PollersInvInit == Init => PollersInv
<1> SUFFICES ASSUME Init PROVE PollersInv
  OBVIOUS
<1>1. TaskInv
  BY TaskInvInit
<1>2. PaidOnce
  <2> SUFFICES ASSUME NEW t \in Tasks
               PROVE  refunds[t] + unpaid[t] <= unsaved[t] + Cardinality(PaidBy(t))
    BY DEF PaidOnce
  <2>1. PaidBy(t) \in SUBSET Nodes
    BY DEF PaidBy
  <2>2. Cardinality(PaidBy(t)) \in Nat
    BY <2>1, SubsetCard
  <2> QED
    BY <2>2 DEF Init
<1>3. PaidFirst
  BY TaskAssumption DEF Init, PaidFirst, FailureIsRefunded, None
<1>4. Awake
  BY DEF Init, Awake
<1> QED
  BY <1>1, <1>2, <1>3, <1>4 DEF PollersInv

\* and every step keeps it.
LEMMA PollersInvStep == PollersInv /\ [Next]_vars => PollersInv'
<1> SUFFICES ASSUME PollersInv, [Next]_vars PROVE PollersInv'
  OBVIOUS
<1>1. TaskTypeOK /\ RowsStored
  BY DEF PollersInv, TaskInv
<1>2. TaskTypeOK' /\ RowsStored'
  BY <1>1, TaskTypeStep, StoredStep
<1> QED
  BY <1>1, <1>2, PaidOnceStep, PaidFirstStep, AwakeStep DEF PollersInv, TaskInv

\* A failed task is paid back at most once by every node, and once more for
\* every row that was not saved: refund and save are two writes, and no node
\* claims the rows it polls.
RefundsBounded ==
    \A t \in Tasks :
        /\ refunds[t] > 0 => upstream[t] = "FAILURE"
        /\ refunds[t] + unpaid[t] <= Cardinality(Nodes) + unsaved[t]

\* What the invariant says of the refunds.
LEMMA PollersInvMeans ==
    PollersInv => TaskTypeOK /\ FailureIsRefunded /\ NoTaskLeftBehind /\ RefundsBounded
<1> SUFFICES ASSUME PollersInv
             PROVE  TaskTypeOK /\ FailureIsRefunded /\ NoTaskLeftBehind /\ RefundsBounded
  OBVIOUS
<1>1. TaskTypeOK /\ FailureIsRefunded
  BY DEF PollersInv, TaskInv, PaidFirst
<1>2. NoTaskLeftBehind
  BY DEF PollersInv, Awake, Left, NoTaskLeftBehind
<1>3. ASSUME NEW t \in Tasks
      PROVE  refunds[t] + unpaid[t] <= Cardinality(Nodes) + unsaved[t]
  <2>1. PaidBy(t) \in SUBSET Nodes /\ Nodes \in SUBSET Nodes
    BY DEF PaidBy
  <2>2. /\ Cardinality(PaidBy(t)) \in Nat /\ Cardinality(Nodes) \in Nat
        /\ Cardinality(PaidBy(t)) <= Cardinality(Nodes)
    BY <2>1, SubsetCard
  <2>3. refunds[t] \in Nat /\ unpaid[t] \in Nat /\ unsaved[t] \in Nat
    BY <1>1 DEF TaskTypeOK
  <2>4. refunds[t] + unpaid[t] <= unsaved[t] + Cardinality(PaidBy(t))
    BY DEF PollersInv, PaidOnce
  <2> QED
    BY <2>2, <2>3, <2>4
<1>4. \A t \in Tasks : refunds[t] > 0 => upstream[t] = "FAILURE"
  BY DEF PollersInv, PaidFirst
<1> QED
  BY <1>1, <1>2, <1>3, <1>4 DEF RefundsBounded

\* A step of a behaviour is one of one part, and a stutter of the others.
LEMMA PollSteps == [PollNext]_pollVars => [Next]_vars /\ [SubNext]_sub /\ [MjNext]_mjvars
BY DEF PollNext, pollVars, Submitted, Tasked, Drawn

\* All three invariants together.
PollInv == PollersInv /\ SubInv /\ MjInv

\* They hold in every behaviour.
LEMMA PollInvAlways == PollSpec => []PollInv
<1>1. PollInit => PollInv
  BY PollersInvInit, SubInvInit, MjInvInit DEF PollInit, PollInv
<1>2. PollInv /\ [PollNext]_pollVars => PollInv'
  BY PollSteps, PollersInvStep, SubInvStep, MjInvStep DEF PollInv
<1> QED
  BY <1>1, <1>2, PTL DEF PollSpec

\* The tables, the pollers and the handlers keep their types, for any bounds.
THEOREM PollTypes == PollSpec => [](TaskTypeOK /\ MjTypeOK)
<1>1. PollInv => TaskTypeOK /\ MjTypeOK
  BY PollersInvMeans, MjInvMeans DEF PollInv
<1> QED
  BY <1>1, PollInvAlways, PTL

\* On any number of nodes a task is paid back only when it failed upstream, and
\* at most once by each of them, but for the rows that were not saved.
THEOREM RefundsBoundedAlways == PollSpec => []RefundsBounded
<1>1. PollInv => RefundsBounded
  BY PollersInvMeans DEF PollInv
<1> QED
  BY <1>1, PollInvAlways, PTL

\* On one node, once.
THEOREM RefundsJustifiedAlways ==
    ASSUME NEW n, Nodes = {n}
    PROVE  PollSpec => []RefundsJustified
<1>1. Cardinality(Nodes) = 1
  BY FS_Singleton
<1>2. PollInv => RefundsJustified
  BY <1>1, PollersInvMeans DEF PollInv, RefundsBounded, RefundsJustified
<1> QED
  BY <1>2, PollInvAlways, PTL

\* However many pollers save whole rows over each other's, a row that says
\* FAILURE was paid back, unless the payment failed.
THEOREM FailureIsRefundedAlways == PollSpec => []FailureIsRefunded
<1>1. PollInv => FailureIsRefunded
  BY PollersInvMeans DEF PollInv
<1> QED
  BY <1>1, PollInvAlways, PTL

\* No poller goes to sleep on an unfinished row but in the two ways the
\* property names, whatever the limit of the list.
THEOREM NoneLeftBehindAlways == PollSpec => []NoneLeftBehind
<1>1. PollInv => NoneLeftBehind
  BY PollersInvMeans, MjInvMeans DEF PollInv, NoneLeftBehind
<1> QED
  BY <1>1, PollInvAlways, PTL

\* A submission is settled once, whatever the number of its retries, but for
\* the ways the property names.
THEOREM SubmissionsSettledAlways == PollSpec => []SubmissionsSettled
<1>1. PollInv => SubmissionsSettled
  BY MjInvMeans DEF PollInv, SubInv, SubmissionsSettled
<1> QED
  BY <1>1, PollInvAlways, PTL

\* The Midjourney poller pays back the price of what failed, once, but for the
\* ways the property names.
THEOREM MjRefundsAlways == PollSpec => []MjRefunds
<1>1. PollInv => MjRefunds
  BY MjInvMeans DEF PollInv
<1> QED
  BY <1>1, PollInvAlways, PTL
=============================================================================
