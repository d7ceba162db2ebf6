----------------------------- MODULE TaskPoller -----------------------------
(***************************************************************************)
(* The asynchronous tasks (songs, videos) of relay/task: a request handler *)
(* that got a task accepted upstream stores it and wakes the poller of its *)
(* node; the poller asks the upstream for all unfinished tasks, pays the   *)
(* user back for those that failed, and goes to sleep when there is none.  *)
(*                                                                         *)
(* Every node runs a poller over the one tasks table.  A poller saves whole *)
(* rows, from the copies it listed.                                        *)
(***************************************************************************)
EXTENDS Integers, FiniteSets

CONSTANTS Nodes,
          Tasks,       \* the ids of the tasks table, in the order of insertion
          NodeOf,      \* NodeOf[t]: the node that handles the submission
          ChannelOf,   \* ChannelOf[t]: the channel that accepted it
          NullId,      \* the tasks the upstream gave no id
          Priced,      \* the tasks with a quota above 0
          ListLimit,   \* the 500 of GetAllUnFinishSyncTasks
          MaxFails     \* bound: errors, panics and restarts in a behaviour

ASSUME TaskAssumption ==
    /\ Tasks \subseteq Nat /\ IsFiniteSet(Nodes)
    /\ NodeOf \in [Tasks -> Nodes]
    /\ NullId \subseteq Tasks /\ Priced \subseteq Tasks
    /\ ListLimit \in Nat \ {0} /\ MaxFails \in Nat

VARIABLES upstream,  \* what the provider would answer for each task
          row,       \* the tasks table
          handler,   \* where CompletedTask is for each task
          active,    \* taskActive of each node
          poller,    \* where the goroutine of Task is on each node
          batch,     \* the tasks the poller has listed and not yet dealt with
          saving,    \* the task whose row it is about to save, and what it
                     \* will write, or None
          fails,     \* errors so far (bound)
          refunds,   \* history: times the user was paid back for a task
          unsaved,   \* history: times a row was not saved after a refund
          unpaid,    \* history: refunds that failed
          missed     \* history: per node, a handler found the poller active
                     \* after its empty list and left the task to it, or an
                     \* error was taken for an empty list

vars == <<upstream, row, handler, active, poller, batch, saving,
          fails, refunds, unsaved, unpaid, missed>>

None == <<>>

\* progress is 100 in the last three.
Finished == {"FAILURE", "SUCCESS", "LOST"}

\* "LOST" is a FAILURE that the poller writes itself, without asking.
Rows == {"absent", "NOT_START"} \cup Finished

Unfinished == {t \in Tasks : row[t] = "NOT_START"}

TaskTypeOK ==
    /\ upstream \in [Tasks -> {"IN_PROGRESS", "FAILURE", "SUCCESS"}]
    /\ row \in [Tasks -> Rows]
    /\ handler \in [Tasks -> {"new", "insert", "check", "signal", "over"}]
    /\ active \in [Nodes -> BOOLEAN]
    /\ poller \in [Nodes -> {"wait", "list", "empty", "work", "sleep", "dead"}]
    /\ batch \in [Nodes -> SUBSET Tasks]
    /\ saving \in [Nodes -> (Tasks \X Rows) \cup {None}]
    /\ fails \in 0..MaxFails
    /\ refunds \in [Tasks -> Nat]
    /\ unsaved \in [Tasks -> Nat]
    /\ unpaid \in [Tasks -> Nat]
    /\ missed \in [Nodes -> BOOLEAN]

\* InitTask starts the goroutine and activates it.
Init ==
    /\ upstream = [t \in Tasks |-> "IN_PROGRESS"]
    /\ row = [t \in Tasks |-> "absent"]
    /\ handler = [t \in Tasks |-> "new"]
    /\ active = [n \in Nodes |-> TRUE]
    /\ poller = [n \in Nodes |-> "wait"]
    /\ batch = [n \in Nodes |-> {}]
    /\ saving = [n \in Nodes |-> None]
    /\ fails = 0
    /\ refunds = [t \in Tasks |-> 0]
    /\ unsaved = [t \in Tasks |-> 0]
    /\ unpaid = [t \in Tasks |-> 0]
    /\ missed = [n \in Nodes |-> FALSE]

\* One of the calls of the step returns an error.
Fail == fails < MaxFails /\ fails' = fails + 1

-----------------------------------------------------------------------------
(* CompletedTask *)

\* The upstream accepted the task and the quota was consumed.  Ids are given
\* out in the order of Insert; handlers may overtake each other later on.
Submit(t) ==
    /\ handler[t] = "new"
    /\ \A u \in Tasks : u < t => handler[u] # "new"
    /\ handler' = [handler EXCEPT ![t] = "insert"]
    /\ UNCHANGED <<upstream, row, active, poller, batch, saving,
                   fails, refunds, unsaved, unpaid, missed>>

\* task.Insert; an error is logged and the handler goes on.
Insert(t) ==
    /\ handler[t] = "insert"
    /\ handler' = [handler EXCEPT ![t] = "check"]
    /\ \/ row' = [row EXCEPT ![t] = "NOT_START"] /\ UNCHANGED fails
       \/ Fail /\ UNCHANGED row
    /\ UNCHANGED <<upstream, active, poller, batch, saving,
                   refunds, unsaved, unpaid, missed>>

\* ActivateUpdateTaskBulk reads taskActive before it takes the lock ...
Check(t) ==
    LET n == NodeOf[t]
    IN  /\ handler[t] = "check"
        /\ handler' = [handler EXCEPT ![t] = IF active[n] THEN "over" ELSE "signal"]
        /\ missed' = [missed EXCEPT ![n] = @ \/ (active[n] /\ poller[n] = "empty")]
        /\ UNCHANGED <<upstream, row, active, poller, batch, saving,
                       fails, refunds, unsaved, unpaid>>

\* ... and sets it and signals under the lock.
Signal_Only(t) ==   \* Mutant: the signal is sent, the flag is not set
    /\ handler[t] = "signal"
    /\ handler' = [handler EXCEPT ![t] = "over"]
    /\ UNCHANGED <<upstream, row, active, poller, batch, saving,
                   fails, refunds, unsaved, unpaid, missed>>
Signal(t) ==
    /\ handler[t] = "signal"
    /\ handler' = [handler EXCEPT ![t] = "over"]
    /\ active' = [active EXCEPT ![NodeOf[t]] = TRUE]
    /\ UNCHANGED <<upstream, row, poller, batch, saving,
                   fails, refunds, unsaved, unpaid, missed>>

-----------------------------------------------------------------------------
(* Task and UpdateTaskBulk *)

\* The goroutine leaves cond.Wait only when it sees the flag set.
Wake(n) ==
    /\ poller[n] = "wait" /\ active[n]
    /\ poller' = [poller EXCEPT ![n] = "list"]
    /\ UNCHANGED <<upstream, row, handler, active, batch, saving,
                   fails, refunds, unsaved, unpaid, missed>>

\* GetAllUnFinishSyncTasks: the first ListLimit unfinished rows.  An error is
\* taken for an empty list.
Listed == {t \in Unfinished : Cardinality({u \in Unfinished : u <= t}) <= ListLimit}

List(n) ==
    /\ poller[n] = "list"
    /\ \/ /\ batch' = [batch EXCEPT ![n] = Listed]
          /\ poller' = [poller EXCEPT ![n] = IF Listed = {} THEN "empty" ELSE "work"]
          /\ missed' = [missed EXCEPT ![n] = FALSE]
          /\ UNCHANGED fails
       \/ /\ Fail
          /\ poller' = [poller EXCEPT ![n] = "empty"]
          /\ missed' = [missed EXCEPT ![n] = TRUE]
          /\ UNCHANGED batch
    /\ UNCHANGED <<upstream, row, handler, active, saving, refunds, unsaved, unpaid>>

\* DeactivateTask, and back to cond.Wait.
Deactivate(n) ==
    /\ poller[n] = "empty"
    /\ active' = [active EXCEPT ![n] = FALSE]
    /\ poller' = [poller EXCEPT ![n] = "wait"]
    /\ UNCHANGED <<upstream, row, handler, batch, saving,
                   fails, refunds, unsaved, unpaid, missed>>

\* The poller is in its loop and between two rows.
Working(n) == poller[n] = "work" /\ saving[n] = None

\* TaskBulkUpdate of the tasks in lost; they leave the batch either way.
GiveUp(n, lost) ==
    /\ lost # {}
    /\ batch' = [batch EXCEPT ![n] = @ \ lost]
    /\ \/ /\ row' = [t \in Tasks |-> IF t \in lost THEN "LOST" ELSE row[t]]
          /\ UNCHANGED fails
       \/ Fail /\ UNCHANGED row
    /\ UNCHANGED <<upstream, handler, active, poller, saving,
                   refunds, unsaved, unpaid, missed>>

FixNullIds(n) ==
    /\ Working(n)
    /\ GiveUp(n, batch[n] \cap NullId)

OnChannel(n, c) == {t \in batch[n] \ NullId : ChannelOf[t] = c}

\* GetChannel finds nothing: the view no longer holds the channel.
ChannelGone(n, c) ==
    /\ Working(n)
    /\ GiveUp(n, OnChannel(n, c))

\* The fetch fails: nothing happens to the tasks of the channel this time.
FetchFails(n, c) ==
    /\ Working(n)
    /\ OnChannel(n, c) # {}
    /\ Fail
    /\ batch' = [batch EXCEPT ![n] = @ \ OnChannel(n, c)]
    /\ UNCHANGED <<upstream, row, handler, active, poller, saving,
                   refunds, unsaved, unpaid, missed>>

\* One item of the answer that shows no progress (checkTaskNeedUpdate).
NoNews(n, t) ==
    /\ Working(n)
    /\ t \in batch[n] \ NullId
    /\ upstream[t] = "IN_PROGRESS"
    /\ batch' = [batch EXCEPT ![n] = @ \ {t}]
    /\ UNCHANGED <<upstream, row, handler, active, poller, saving,
                   fails, refunds, unsaved, unpaid, missed>>

\* One that does: a failed task is paid back, then the row is saved.
Refund_Never(t) == UNCHANGED <<refunds, fails, unpaid>>   \* Mutant: quota < 0
Refund(t) ==
    IF upstream[t] = "FAILURE" /\ t \in Priced
    THEN \/ refunds' = [refunds EXCEPT ![t] = @ + 1] /\ UNCHANGED <<fails, unpaid>>
         \/ Fail /\ unpaid' = [unpaid EXCEPT ![t] = @ + 1] /\ UNCHANGED refunds
    ELSE UNCHANGED <<refunds, fails, unpaid>>

Update_KeepsProgress(n, t) ==   \* Mutant: the progress of a failed task stays
    /\ Working(n)
    /\ t \in batch[n] \ NullId
    /\ upstream[t] # "IN_PROGRESS"
    /\ Refund(t)
    /\ saving' = [saving EXCEPT ![n] =
                     <<t, IF upstream[t] = "FAILURE" THEN "NOT_START" ELSE upstream[t]>>]
    /\ UNCHANGED <<upstream, row, handler, active, poller, batch, unsaved, missed>>
Update(n, t) ==
    /\ Working(n)
    /\ t \in batch[n] \ NullId
    /\ upstream[t] # "IN_PROGRESS"
    /\ Refund(t)
    /\ saving' = [saving EXCEPT ![n] = <<t, upstream[t]>>]
    /\ UNCHANGED <<upstream, row, handler, active, poller, batch, unsaved, missed>>

\* task.Update; an error is logged.
Save(n) ==
    LET t == saving[n][1]
    IN  /\ poller[n] = "work" /\ saving[n] # None
        /\ saving' = [saving EXCEPT ![n] = None]
        /\ batch' = [batch EXCEPT ![n] = @ \ {t}]
        /\ \/ row' = [row EXCEPT ![t] = saving[n][2]] /\ UNCHANGED <<fails, unsaved>>
           \/ Fail /\ unsaved' = [unsaved EXCEPT ![t] = @ + 1] /\ UNCHANGED row
        /\ UNCHANGED <<upstream, handler, active, poller, refunds, unpaid, missed>>

EndOfRound(n) ==
    /\ Working(n) /\ batch[n] = {}
    /\ poller' = [poller EXCEPT ![n] = "sleep"]
    /\ UNCHANGED <<upstream, row, handler, active, batch, saving,
                   fails, refunds, unsaved, unpaid, missed>>

Sleep_Ends(n) ==   \* Mutant: one round, then the flag is cleared
    /\ poller[n] = "sleep"
    /\ poller' = [poller EXCEPT ![n] = "empty"]
    /\ UNCHANGED <<upstream, row, handler, active, batch, saving,
                   fails, refunds, unsaved, unpaid, missed>>
Sleep(n) ==
    /\ poller[n] = "sleep"
    /\ poller' = [poller EXCEPT ![n] = "list"]
    /\ UNCHANGED <<upstream, row, handler, active, batch, saving,
                   fails, refunds, unsaved, unpaid, missed>>

-----------------------------------------------------------------------------
(* What goes wrong around them *)

\* A panic in the round (an answer about a task that is not in taskM, a
\* request that could not be built) ends the goroutine in the recover of
\* SafeGoroutine; taskActive stays set.
Panic(n) ==
    /\ Working(n)
    /\ Fail
    /\ poller' = [poller EXCEPT ![n] = "dead"]
    /\ batch' = [batch EXCEPT ![n] = {}]
    /\ UNCHANGED <<upstream, row, handler, active, saving,
                   refunds, unsaved, unpaid, missed>>

\* The process of n is restarted: its handlers are gone, InitTask runs.
Restart(n) ==
    /\ Fail
    /\ handler' = [t \in Tasks |-> IF NodeOf[t] = n /\ handler[t] # "new" THEN "over" ELSE handler[t]]
    /\ active' = [active EXCEPT ![n] = TRUE]
    /\ poller' = [poller EXCEPT ![n] = "wait"]
    /\ batch' = [batch EXCEPT ![n] = {}]
    /\ saving' = [saving EXCEPT ![n] = None]
    /\ unsaved' = IF saving[n] = None THEN unsaved
                  ELSE [unsaved EXCEPT ![saving[n][1]] = @ + 1]
    /\ missed' = [missed EXCEPT ![n] = FALSE]
    /\ UNCHANGED <<upstream, row, refunds, unpaid>>

\* The provider finishes a task it accepted; about one without an id it is
\* never asked.
Finish(t) ==
    /\ handler[t] # "new" /\ t \notin NullId
    /\ upstream[t] = "IN_PROGRESS"
    /\ \E end \in {"FAILURE", "SUCCESS"} : upstream' = [upstream EXCEPT ![t] = end]
    /\ UNCHANGED <<row, handler, active, poller, batch, saving,
                   fails, refunds, unsaved, unpaid, missed>>

Handle(t) == Insert(t) \/ Check(t) \/ Signal(t)

\* The rounds of a poller, a vanished channel left to the environment.
Poll(n) ==
    \/ Wake(n) \/ List(n) \/ Deactivate(n) \/ FixNullIds(n)
    \/ \E t \in Tasks : NoNews(n, t) \/ Update(n, t)
    \/ Save(n) \/ EndOfRound(n) \/ Sleep(n)

Next ==
    \/ \E t \in Tasks : Submit(t) \/ Handle(t) \/ Finish(t)
    \/ \E n \in Nodes :
          \/ Poll(n) \/ Panic(n) \/ Restart(n)
          \/ \E t \in Tasks : ChannelGone(n, ChannelOf[t]) \/ FetchFails(n, ChannelOf[t])

Spec == Init /\ [][Next]_vars

-----------------------------------------------------------------------------
(* Properties *)

\* The user is paid back only for what failed upstream, and more than once
\* only as often as the row could not be saved after a refund: refund and
\* save are two writes, and the refund comes first.
RefundsJustified ==
    \A t \in Tasks :
        /\ refunds[t] > 0 => upstream[t] = "FAILURE"
        /\ refunds[t] + unpaid[t] <= 1 + unsaved[t]

\* A row that ends in FAILURE was paid back, unless the payment itself failed.
FailureIsRefunded ==
    \A t \in Priced : row[t] = "FAILURE" => refunds[t] + unpaid[t] >= 1

\* A poller that waits for a signal leaves no task behind, whatever errors,
\* panics and restarts there were: the exceptions are a handler that found it
\* active after its empty list (taskActive is read outside the lock) and a
\* list that failed.
NoTaskLeftBehind ==
    \A n \in Nodes :
        poller[n] = "wait" /\ ~active[n] /\ ~missed[n] =>
            \A t \in Unfinished : NodeOf[t] = n => handler[t] \in {"check", "signal"}

\* Every stored task comes to an end, whatever its place in the table, unless
\* its poller was left asleep in one of these two ways or died of a panic.
TaskEnded ==
    \A t \in Tasks : row[t] = "NOT_START" => missed[NodeOf[t]] \/ poller[NodeOf[t]] = "dead"
=============================================================================
