---------------------------- MODULE MCTaskPoller ----------------------------
(***************************************************************************)
(* TaskSubmit and the two pollers, one per behaviour.  TaskPoller: three   *)
(* tasks on two channels of one node, one of them free of charge, one      *)
(* without an upstream id, and a list limit that they exceed.  Midjourney: *)
(* a first job of every kind that needs no other, which may end in either  *)
(* mode, and a change of it.  They share no state: part names the one a    *)
(* behaviour is about, and the others stay as they begin.                  *)
(***************************************************************************)
EXTENDS TaskPoller, TaskSubmit, Midjourney, TLC

CONSTANT n1

VARIABLE part

MCNodeOf == [t \in Tasks |-> n1]

MCChannelOf == [t \in Tasks |-> IF t = 1 THEN "c1" ELSE "c2"]

MCPrice == "fast" :> 2 @@ "relax" :> 1

MCAsked ==
    1 :> {[kind |-> k, mode |-> "fast", rich |-> k = "upload"] : k \in {"imagine", "upload", "free", "swap"}}
    @@ 2 :> {[kind |-> "change", mode |-> "relax", rich |-> FALSE]}

pollVars == <<part, vars, sub, mjvars>>

PollInit == part \in {"submit", "tasks", "midjourney"} /\ Init /\ SubInit /\ MjInit

Tasked(step) == part = "tasks" /\ step /\ UNCHANGED <<part, sub, mjvars>>

Drawn(step) == part = "midjourney" /\ step /\ UNCHANGED <<part, vars, sub>>

Submitted == part = "submit" /\ SubNext /\ UNCHANGED <<part, vars, mjvars>>

PollNext == Submitted \/ Tasked(Next) \/ Drawn(MjNext)

\* Goroutines run, the sleeps of 15 seconds end, and the providers finish every
\* task some day.  Nobody owes the system another submission, which would wake
\* a poller that sleeps.
PollSpec ==
    /\ PollInit /\ [][PollNext]_pollVars
    /\ \A t \in Tasks : WF_pollVars(Tasked(Handle(t))) /\ WF_pollVars(Tasked(Finish(t)))
    /\ \A n \in Nodes : WF_pollVars(Tasked(Poll(n)))
    /\ \A j \in Jobs : WF_pollVars(Drawn(MjHandle(j))) /\ WF_pollVars(Drawn(MjFinish(j)))
    /\ WF_pollVars(Drawn(MjPoll))

\* Every stored task and job comes to an end but in the ways that TaskEnded and
\* MjEnded name, and then stays so.
PolledToTheEnd == <>[](TaskEnded /\ MjEnded)

\* A submission is settled once: a task's but for the undone retries that
\* SubmitSettled names, a Midjourney job's but for the second undo that
\* MjSettled names.
SubmissionsSettled == SubmitSettled /\ MjSettled

\* Neither poller sleeps while a row is unfinished, but for the wake-ups that
\* NoTaskLeftBehind and MjNoneLeftBehind name.
NoneLeftBehind == NoTaskLeftBehind /\ MjNoneLeftBehind
=============================================================================
