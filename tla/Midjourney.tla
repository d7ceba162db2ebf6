----------------------------- MODULE Midjourney -----------------------------
(***************************************************************************)
(* The Midjourney proxy: RelayMidjourneySubmit and RelaySwapFace reserve   *)
(* the price, send the job to the upstream service, store it and settle    *)
(* the reservation in a deferred function; a poller asks about every job   *)
(* whose progress is not 100% and pays back those that failed; the service *)
(* may also report by itself, to RelayMidjourneyNotify.                    *)
(*                                                                         *)
(* The goroutines of Undo and Consume only add to the user's quota, so     *)
(* they are part of the step that starts them.                             *)
(***************************************************************************)
EXTENDS Integers, FiniteSets

CONSTANTS Jobs,      \* the submissions, in the order of their rows
          Asked,     \* Asked[j]: the requests j may be, a subset of Asks
          Codes,     \* the codes the service answers with, a subset of AllCodes
          Price,     \* Price[m]: the price of a job in mode m
          MaxBusy,   \* bound: handlers at work at one time
          MaxFaults  \* bound: errors, panics, restarts, reports and late polls
                     \* in a behaviour

\* "imagine": and describe, shorten, blend; "change" and "modal" name an
\* earlier job; "free": INPAINT and CUSTOMZOOM; "swap": RelaySwapFace.
Kinds == {"imagine", "change", "modal", "free", "upload", "swap"}

WithOrigin == {"change", "modal"}

\* A request of a user who is rich enough to reserve nothing, or is not.
Asks == [kind : Kinds, mode : {"fast", "relax"}, rich : BOOLEAN]

\* 1, 1 with a status other than 200, 3, 21 (of a finished job or not), 22, the
\* rest.
AllCodes == {"ok", "ok 2xx", "busy", "exists", "done", "queued", "refused"}

Accepted == {"ok", "ok 2xx", "exists", "done", "queued"}

ASSUME MidjourneyAssumption ==
    /\ Jobs \subseteq Nat \ {0}
    /\ Price \in [{"fast", "relax"} -> Nat \ {0}]
    /\ Asked \in [Jobs -> SUBSET Asks] /\ Codes \subseteq AllCodes
    /\ MaxBusy \in Nat \ {0} /\ MaxFaults \in Nat

VARIABLES job,      \* each submission: where its handler is and what it holds
          mjrow,    \* the midjourneys table
          service,  \* what the service would answer about each id
          old,      \* the jobs submitted more than an hour ago
          mjactive, \* taskActive
          mjpoller, \* where the goroutine of midjourneyTask is
          listed,   \* the jobs it has listed and not yet dealt with
          items,    \* the answer of the service it works on
          writing,  \* the row it is about to save
          paid,     \* what the user has paid for each submission, net
          back,     \* what the poller has paid back for it
          faults,   \* errors so far (bound)
          told      \* history: per job, what happened besides: "notified",
                    \* "unsaved", "unpaid", "given up"; and, under 0, "missed"

mjvars == <<job, mjrow, service, old, mjactive, mjpoller, listed, items, writing,
            paid, back, faults, told>>

NoRow == [at |-> "absent", status |-> ""]

Idle == [pc |-> "new", kind |-> "imagine", mode |-> "fast", held |-> 0,
         code |-> "none", id |-> 0]

MjTypeOK ==
    /\ job \in [Jobs -> [pc : {"new", "send", "relax", "resend", "insert", "check",
                               "signal", "settle", "over", "gone"},
                         kind : Kinds, mode : {"fast", "relax"}, held : Nat,
                         code : AllCodes \cup {"none"}, id : Jobs \cup {0}]]
    /\ mjrow \in [Jobs -> [at : {"absent", "open", "100%"}, status : {"", "SUCCESS", "FAILURE"}]]
    /\ service \in [Jobs -> {"unknown", "running", "SUCCESS", "FAILURE"}]
    /\ old \subseteq Jobs /\ listed \subseteq Jobs /\ mjactive \in BOOLEAN
    /\ paid \in [Jobs -> Int] /\ back \in [Jobs -> Nat] /\ faults \in 0..MaxFaults

MjInit ==
    /\ job = [j \in Jobs |-> Idle]
    /\ mjrow = [j \in Jobs |-> NoRow]
    /\ service = [j \in Jobs |-> "unknown"]
    /\ old = {} /\ listed = {} /\ items = <<>> /\ writing = <<>>
    /\ mjactive = TRUE /\ mjpoller = "wait"
    /\ paid = [j \in Jobs |-> 0] /\ back = [j \in Jobs |-> 0]
    /\ faults = 0 /\ told = [j \in Jobs \cup {0} |-> {}]

Fault == faults < MaxFaults /\ faults' = faults + 1

Tell(j, what) == told' = [told EXCEPT ![j] = @ \cup {what}]

-----------------------------------------------------------------------------
(* RelayMidjourneySubmit and RelaySwapFace *)

Go(j, next) == job' = [job EXCEPT ![j] = next]

At(j, pc) == [job[j] EXCEPT !.pc = pc]

Over(j) == [job[j] EXCEPT !.pc = "over", !.held = 0]

Pay(j, amount) == paid' = [paid EXCEPT ![j] = @ + amount]

\* Undo gives back what PreQuotaConsumption took (nothing from a rich user).
Undo(j) == Pay(j, -job[j].held)

Consume(j) == Pay(j, Price[job[j].mode] - job[j].held)

\* The checks of the request: a change needs a finished job, a modal any job.
Admitted(kind) ==
    CASE kind = "change" -> \E k \in Jobs : mjrow[k].status = "SUCCESS"
      [] kind = "modal" -> \E k \in Jobs : mjrow[k].at # "absent"
      [] OTHER -> TRUE

\* getQuota of an admitted request in either mode.
Request(j) ==
    /\ job[j].pc = "new"
    /\ \A k \in Jobs : k < j => job[k].pc # "new"
    /\ Cardinality({k \in Jobs : job[k].pc \notin {"new", "over", "gone"}}) < MaxBusy
    /\ \E ask \in Asked[j] :
          LET held == IF ask.rich THEN 0 ELSE Price[ask.mode]
          IN  /\ Admitted(ask.kind)
              /\ Go(j, [At(j, "send") EXCEPT !.kind = ask.kind, !.mode = ask.mode, !.held = held])
              /\ Pay(j, held)
    /\ UNCHANGED <<mjrow, service, old, mjactive, mjpoller, listed, items, writing,
                   back, faults, told>>

\* The reply with its id: a new job, or one the service already has.
Replies(j, code) ==
    \E id \in Jobs \cup {0} :
        /\ code \in {"exists", "done"} => id # 0 /\ (id = j \/ service[id] # "unknown")
        /\ code = "done" => id # j /\ service[id] = "SUCCESS"
        /\ code \in {"ok", "ok 2xx", "queued"} => id = j
        /\ code = "busy" => id = 0
        /\ code = "refused" => id \in {0, j}
        /\ Go(j, [At(j, "insert") EXCEPT !.code = code, !.id = id])
        /\ IF id # j THEN UNCHANGED service
           ELSE \E s \in IF code \in Accepted THEN {"running"} ELSE {"unknown", "FAILURE"} :
                    service' = [service EXCEPT ![j] = s]

\* Send; a service without a free account is asked again in relax mode.
Send(j) ==
    /\ job[j].pc = "send"
    /\ \/ /\ Fault /\ Undo(j) /\ Go(j, Over(j)) /\ UNCHANGED service
       \/ \E code \in Codes :
             /\ UNCHANGED faults
             /\ IF code = "busy" /\ job[j].mode = "fast" /\ job[j].kind \notin WithOrigin
                THEN Undo(j) /\ Go(j, At(j, "relax")) /\ UNCHANGED service
                ELSE Replies(j, code) /\ UNCHANGED paid
    /\ UNCHANGED <<mjrow, old, mjactive, mjpoller, listed, items, writing, back, told>>

\* getQuota for relax mode.  When it fails quotaInstance is nil, and the
\* deferred function panics on it: the quota is where Undo left it.
Relax(j) ==
    /\ job[j].pc = "relax"
    /\ \/ Fault /\ Go(j, Over(j)) /\ UNCHANGED paid
       \/ \E held \in {0, Price["relax"]} :
             /\ UNCHANGED faults
             /\ Go(j, [At(j, "resend") EXCEPT !.mode = "relax", !.held = held])
             /\ Pay(j, held)
    /\ UNCHANGED <<mjrow, service, old, mjactive, mjpoller, listed, items, writing, back, told>>

\* An error here undoes the reservation, and the deferred function settles it
\* once more: again by Undo, or by Consume when the status had been 200.
Resend(j) ==
    /\ job[j].pc = "resend"
    /\ \/ /\ Fault /\ Tell(j, "settled twice") /\ Go(j, Over(j)) /\ UNCHANGED service
          /\ \/ Pay(j, -2 * job[j].held)
             \/ job[j].kind \notin {"free", "swap"} /\ Pay(j, Price["relax"] - 2 * job[j].held)
       \/ \E code \in Codes : Replies(j, code) /\ UNCHANGED <<paid, faults, told>>
    /\ UNCHANGED <<mjrow, old, mjactive, mjpoller, listed, items, writing, back>>

\* The row is written whatever the code, with the price as its quota.
Stored(j) ==
    CASE job[j].code = "done" /\ job[j].kind # "swap" -> [at |-> "100%", status |-> "SUCCESS"]
      [] job[j].code \in {"ok", "ok 2xx"} /\ job[j].kind = "upload" -> [at |-> "100%", status |-> "SUCCESS"]
      [] OTHER -> [at |-> "open", status |-> ""]

MjInsert(j) ==
    /\ job[j].pc = "insert"
    /\ \/ /\ mjrow' = [mjrow EXCEPT ![j] = Stored(j)]
          /\ Go(j, At(j, "check")) /\ UNCHANGED faults
       \/ Fault /\ Go(j, At(j, "settle")) /\ UNCHANGED mjrow
    /\ UNCHANGED <<service, old, mjactive, mjpoller, listed, items, writing, paid, back, told>>

\* ActivateUpdateMidjourneyTaskBulk, the flag read before the lock.
MjCheck(j) ==
    /\ job[j].pc = "check"
    /\ Go(j, At(j, IF mjactive THEN "settle" ELSE "signal"))
    /\ IF mjactive /\ mjpoller = "empty" THEN Tell(0, "missed") ELSE UNCHANGED told
    /\ UNCHANGED <<mjrow, service, old, mjactive, mjpoller, listed, items, writing,
                   paid, back, faults>>

MjSignal(j) ==
    /\ job[j].pc = "signal"
    /\ mjactive' = TRUE /\ Go(j, At(j, "settle"))
    /\ UNCHANGED <<mjrow, service, old, mjpoller, listed, items, writing,
                   paid, back, faults, told>>

\* The deferred function: consumeQuota, or the code of a swap.
Charged(j) ==
    IF job[j].kind = "swap" THEN job[j].code = "ok"
    ELSE job[j].kind # "free" /\ job[j].code \in Accepted \ {"ok 2xx"}

Settle(j) ==
    /\ job[j].pc = "settle"
    /\ IF Charged(j) THEN Consume(j) ELSE Undo(j)
    /\ Go(j, Over(j))
    /\ UNCHANGED <<mjrow, service, old, mjactive, mjpoller, listed, items, writing,
                   back, faults, told>>

-----------------------------------------------------------------------------
(* midjourneyTask and UpdateMidjourneyTaskBulk *)

MjOpen == {j \in Jobs : mjrow[j].at = "open"}

MjWake ==
    /\ mjpoller = "wait" /\ mjactive
    /\ mjpoller' = "list"
    /\ UNCHANGED <<job, mjrow, service, old, mjactive, listed, items, writing,
                   paid, back, faults, told>>

\* GetAllUnFinishTasks; an error is an empty list.
MjList ==
    /\ mjpoller = "list"
    /\ \/ /\ listed' = MjOpen
          /\ mjpoller' = IF MjOpen = {} THEN "empty" ELSE "work"
          /\ told' = [told EXCEPT ![0] = {}]
          /\ UNCHANGED faults
       \/ Fault /\ mjpoller' = "empty" /\ Tell(0, "missed") /\ UNCHANGED listed
    /\ UNCHANGED <<job, mjrow, service, old, mjactive, items, writing, paid, back>>

MjDeactivate ==
    /\ mjpoller = "empty"
    /\ mjactive' = FALSE /\ mjpoller' = "wait"
    /\ UNCHANGED <<job, mjrow, service, old, listed, items, writing, paid, back, faults, told>>

NullIds == {j \in listed : job[j].id = 0}

Sharing(ids) == {j \in Jobs : mjrow[j].at # "absent" /\ job[j].id \in ids}

\* MjBulkUpdate(ByTaskIds): jobs the poller ends without asking, unpaid.
MjGiveUp(lost) ==
    /\ \/ /\ mjrow' = [j \in Jobs |-> IF j \in lost THEN [at |-> "100%", status |-> "FAILURE"] ELSE mjrow[j]]
          /\ told' = [j \in Jobs \cup {0} |-> IF j \in lost THEN told[j] \cup {"given up"} ELSE told[j]]
          /\ UNCHANGED faults
       \/ Fault /\ UNCHANGED <<mjrow, told>>
    /\ UNCHANGED <<job, service, old, mjactive, items, writing, paid, back>>

\* The rows without an id; without any other it lists again at once.
MjFixNullIds ==
    /\ mjpoller = "work" /\ NullIds # {}
    /\ MjGiveUp(NullIds)
    /\ listed' = listed \ NullIds
    /\ mjpoller' = IF listed \subseteq NullIds THEN "list" ELSE "work"

MjChannelGone ==
    /\ mjpoller = "work" /\ NullIds = {}
    /\ MjGiveUp(Sharing({job[j].id : j \in listed}))
    /\ listed' = {} /\ mjpoller' = "items"

\* MjTaskHandler asks about all of them; an id the service does not know is
\* missing from the answer.
MjFetch ==
    /\ mjpoller = "work" /\ NullIds = {}
    /\ mjpoller' = "items"
    /\ \/ /\ items' = [id \in {job[j].id : j \in listed} |-> service[id]] /\ UNCHANGED <<listed, faults>>
       \/ Fault /\ listed' = {} /\ UNCHANGED items
    /\ UNCHANGED <<job, mjrow, service, old, mjactive, writing, paid, back, told>>

\* What one item makes of the row: taskM holds one row per id; a job of more
\* than an hour has failed, whatever the item says.
Item(j) == IF j \in old THEN "FAILURE" ELSE items[job[j].id]

Handling(j) ==
    /\ mjpoller = "items" /\ writing = <<>> /\ j \in listed
    /\ items[job[j].id] # "unknown"

\* No news (checkMjTaskNeedUpdate), or no item.
MjSkip(j) ==
    /\ mjpoller = "items" /\ writing = <<>> /\ j \in listed
    /\ items[job[j].id] = "unknown" \/ Item(j) = "running"
    /\ listed' = {k \in listed : job[k].id # job[j].id}
    /\ UNCHANGED <<job, mjrow, service, old, mjactive, mjpoller, items, writing,
                   paid, back, faults, told>>

\* A failed job is paid back, then the row is saved.
MjUpdate_NoRefund(j) ==   \* Mutant: the refund is forgotten
    /\ Handling(j)
    /\ writing' = <<j, Item(j)>>
    /\ listed' = {k \in listed : job[k].id # job[j].id}
    /\ UNCHANGED <<job, mjrow, service, old, mjactive, mjpoller, items, paid, back, faults, told>>
MjUpdate(j) ==
    /\ Handling(j)
    /\ writing' = <<j, Item(j)>>
    /\ listed' = {k \in listed : job[k].id # job[j].id}
    /\ IF Item(j) # "FAILURE" THEN UNCHANGED <<back, faults, told>>
       ELSE \/ /\ back' = [back EXCEPT ![j] = @ + Price[job[j].mode]]
               /\ UNCHANGED <<faults, told>>
            \/ Fault /\ Tell(j, "unpaid") /\ UNCHANGED back
    /\ UNCHANGED <<job, mjrow, service, old, mjactive, mjpoller, items, paid>>

\* The row as an item or a notification leaves it.
RowOf(s) == IF s = "running" THEN [at |-> "open", status |-> ""]
            ELSE [at |-> "100%", status |-> s]

MjSave ==
    /\ mjpoller = "items" /\ writing # <<>>
    /\ writing' = <<>>
    /\ \/ mjrow' = [mjrow EXCEPT ![writing[1]] = RowOf(writing[2])] /\ UNCHANGED <<faults, told>>
       \/ Fault /\ Tell(writing[1], "unsaved") /\ UNCHANGED mjrow
    /\ UNCHANGED <<job, service, old, mjactive, mjpoller, listed, items, paid, back>>

\* The sleep of 15 seconds.
MjSleep ==
    /\ mjpoller = "items" /\ writing = <<>> /\ listed = {}
    /\ mjpoller' = "list" /\ items' = <<>>
    /\ UNCHANGED <<job, mjrow, service, old, mjactive, listed, writing, paid, back, faults, told>>

-----------------------------------------------------------------------------
(* The service, the clock, and what goes wrong *)

MjFinish(j) ==
    /\ service[j] = "running"
    /\ \E end \in {"SUCCESS", "FAILURE"} : service' = [service EXCEPT ![j] = end]
    /\ UNCHANGED <<job, mjrow, old, mjactive, mjpoller, listed, items, writing,
                   paid, back, faults, told>>

GrowsOld(j) ==
    /\ mjrow[j].at = "open" /\ j \notin old /\ Fault
    /\ old' = old \cup {j}
    /\ UNCHANGED <<job, mjrow, service, mjactive, mjpoller, listed, items, writing,
                   paid, back, told>>

\* RelayMidjourneyNotify: the first row with the id takes what the report
\* says; reports may be late.  Counted as a fault to bound them.
RelayMidjourneyNotify(j) ==
    LET first == CHOOSE k \in Sharing({j}) : \A l \in Sharing({j}) : k <= l
    IN  /\ service[j] # "unknown" /\ Sharing({j}) # {} /\ Fault
        /\ \E s \in {"running", service[j]} : mjrow' = [mjrow EXCEPT ![first] = RowOf(s)]
        /\ Tell(first, "notified")
        /\ UNCHANGED <<job, service, old, mjactive, mjpoller, listed, items, writing, paid, back>>

\* An item about an id that is not in taskM is a nil dereference; SafeGoroutine
\* recovers from it outside the loop.
MjPanic ==
    /\ mjpoller = "items" /\ writing = <<>> /\ Fault
    /\ mjpoller' = "dead" /\ listed' = {} /\ items' = <<>>
    /\ UNCHANGED <<job, mjrow, service, old, mjactive, writing, paid, back, told>>

MjRestart ==
    /\ Fault
    /\ job' = [j \in Jobs |-> IF job[j].pc \in {"new", "over"} THEN job[j]
                              ELSE [job[j] EXCEPT !.pc = "gone"]]
    /\ mjactive' = TRUE /\ mjpoller' = "wait" /\ listed' = {} /\ items' = <<>> /\ writing' = <<>>
    /\ IF writing = <<>> THEN told' = [told EXCEPT ![0] = {}]
       ELSE told' = [told EXCEPT ![0] = {}, ![writing[1]] = @ \cup {"unsaved"}]
    /\ UNCHANGED <<mjrow, service, old, paid, back>>

MjHandle(j) == Send(j) \/ Relax(j) \/ Resend(j) \/ MjInsert(j) \/ MjCheck(j) \/ MjSignal(j) \/ Settle(j)

MjPoll ==
    \/ MjWake \/ MjList \/ MjDeactivate \/ MjFixNullIds \/ MjFetch
    \/ \E j \in Jobs : MjSkip(j) \/ MjUpdate(j)
    \/ MjSave \/ MjSleep

MjNext ==
    \/ \E j \in Jobs : Request(j) \/ MjHandle(j) \/ MjFinish(j) \/ GrowsOld(j) \/ RelayMidjourneyNotify(j)
    \/ MjPoll \/ MjChannelGone \/ MjPanic \/ MjRestart

-----------------------------------------------------------------------------
(* Properties *)

\* However a submission ended, it was settled once: the user has paid the price
\* of the mode it ended in or nothing, the price only for a job the service
\* took, and for every such job that is not free; but a job that found no
\* account and could then not be sent in relax mode is settled twice.
MjSettled ==
    \A j \in Jobs : job[j].pc = "over" /\ "settled twice" \notin told[j] =>
        /\ paid[j] \in {0, Price[job[j].mode]}
        /\ paid[j] > 0 => job[j].code \in Accepted
        /\ job[j].code \in Accepted \ {"ok 2xx"} /\ job[j].kind \notin {"free", "swap"} => paid[j] > 0

\* Rows stored with a price that nobody paid.
Unpaid(j) == job[j].kind \in {"free", "swap"} \/ job[j].code \notin Accepted \ {"ok 2xx"}

\* The poller pays back the price of what failed, or took over an hour, once,
\* but when a row was not saved after it or a report reopened it; the user gets
\* more than was paid in these two ways, and for rows stored unpaid, only; and
\* a row that says FAILURE was paid back, unless the payment failed, the poller
\* gave the job up, or a notification brought the news: that refunds nobody.
MjRefunds ==
    \A j \in Jobs :
        LET again == told[j] \cap {"unsaved", "notified"} # {}
        IN  /\ back[j] > 0 => service[job[j].id] = "FAILURE" \/ j \in old
            /\ back[j] <= Price[job[j].mode] \/ again
            /\ job[j].pc = "over" /\ ~Unpaid(j) /\ ~again => back[j] <= paid[j]
            /\ mjrow[j].status = "FAILURE" /\ told[j] \cap {"unpaid", "given up", "notified"} = {}
                   => back[j] >= Price[job[j].mode]

\* A poller that waits leaves no job behind but in the two named ways.
MjNoneLeftBehind ==
    mjpoller = "wait" /\ ~mjactive /\ "missed" \notin told[0] =>
        \A j \in MjOpen : job[j].pc \in {"check", "signal"} \/ "notified" \in told[j]

\* A stored job comes to an end in the table, unless the service never heard of
\* it, its poller was left asleep or died.
MjEnded ==
    \A j \in Jobs : mjrow[j].at = "open" =>
        \/ job[j].id # 0 /\ service[job[j].id] = "unknown"
        \/ "missed" \in told[0] \/ "notified" \in told[j] \/ mjpoller = "dead"
=============================================================================
