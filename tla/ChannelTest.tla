----------------------------- MODULE ChannelTest -----------------------------
(***************************************************************************)
(* controller/channel-test.go over the channels of module Channels: the    *)
(* sweep of testAllChannels, which an administrator (TestAllChannels) or   *)
(* the timer (AutomaticallyTestChannels) starts, and the calls of          *)
(* DisableChannel that failed relay requests and single tests make.        *)
(*                                                                         *)
(* A sweep reads the whole table once and then tests the channels one by   *)
(* one; what it decides about a channel rests on the status it read then.  *)
(***************************************************************************)
EXTENDS Channels

CONSTANTS Callers,                        \* goroutines that call testAllChannels
          AutomaticEnableChannelEnabled,
          AutomaticDisableChannelEnabled,
          MaxSweeps,                      \* bound: sweeps in a behaviour
          MaxErrors                       \* bound: calls from relay errors

ASSUME ChannelTestAssumption ==
    /\ AutomaticEnableChannelEnabled \in BOOLEAN
    /\ AutomaticDisableChannelEnabled \in BOOLEAN
    /\ MaxSweeps \in Nat /\ MaxErrors \in Nat
    /\ Channels \subseteq Nat

VARIABLES running,   \* testAllChannelsRunning
          caller,    \* where each caller is: idle, listing or sweeping
          snapshot,  \* the table a caller's sweep read
          todo,      \* the channels its sweep has still to test
          sweeps,    \* sweeps started (bound)
          errors     \* relay errors that disabled a channel (bound)

testVars == <<running, caller, snapshot, todo, sweeps, errors>>

sweepVars == <<chanVars, testVars>>

TestTypeOK ==
    /\ TypeOK
    /\ running \in BOOLEAN
    /\ caller \in [Callers -> {"idle", "list", "sweep"}]
    /\ snapshot \in [Callers -> Table]
    /\ todo \in [Callers -> SUBSET Channels]
    /\ sweeps \in 0..MaxSweeps
    /\ errors \in 0..MaxErrors

Init ==
    /\ ChanInit
    /\ running = FALSE
    /\ caller = [k \in Callers |-> "idle"]
    /\ snapshot = [k \in Callers |-> InitRows]
    /\ todo = [k \in Callers |-> {}]
    /\ sweeps = 0
    /\ errors = 0

-----------------------------------------------------------------------------
\* testAllChannels under its lock.  A call that finds the flag set returns
\* an error and changes nothing.
Enter_NoCheck(k) ==   \* Mutant: the flag is set and never read
    /\ caller[k] = "idle"
    /\ sweeps < MaxSweeps
    /\ sweeps' = sweeps + 1
    /\ running' = TRUE
    /\ caller' = [caller EXCEPT ![k] = "list"]
    /\ UNCHANGED <<chanVars, snapshot, todo, errors>>
Enter(k) ==
    /\ caller[k] = "idle"
    /\ ~running
    /\ sweeps < MaxSweeps
    /\ sweeps' = sweeps + 1
    /\ running' = TRUE
    /\ caller' = [caller EXCEPT ![k] = "list"]
    /\ UNCHANGED <<chanVars, snapshot, todo, errors>>

\* GetAllChannels, and the start of the goroutine.
List(k) ==
    /\ caller[k] = "list"
    /\ caller' = [caller EXCEPT ![k] = "sweep"]
    /\ snapshot' = [snapshot EXCEPT ![k] = rows]
    /\ todo' = [todo EXCEPT ![k] = {c \in Channels : Stored(rows, c)}]
    /\ UNCHANGED <<chanVars, running, sweeps, errors>>

\* "return err": the flag stays set.
ListFails(k) ==
    /\ caller[k] = "list"
    /\ caller' = [caller EXCEPT ![k] = "idle"]
    /\ UNCHANGED <<chanVars, running, snapshot, todo, sweeps, errors>>

\* What a test of one channel can show: an answer in time, an answer over
\* the threshold, an error for which ShouldDisableChannel is true when the
\* option is on, any other error.
Outcomes == {"ok", "slow", "banned", "error"}

Bans(outcome) ==
    outcome = "slow" \/ (outcome = "banned" /\ AutomaticDisableChannelEnabled)

\* One round of the loop, for the highest id left ("id desc").
Test(k, c, outcome) ==
    /\ caller[k] = "sweep"
    /\ c \in todo[k] /\ \A d \in todo[k] : d <= c
    /\ todo' = [todo EXCEPT ![k] = @ \ {c}]
    /\ CASE snapshot[k][c].status = Enabled /\ Bans(outcome) -> DisableChannel(c)
         [] snapshot[k][c].status = AutoDisabled /\ outcome = "ok"
               /\ AutomaticEnableChannelEnabled -> EnableChannel(c)
         [] OTHER -> UNCHANGED chanVars
    /\ UNCHANGED <<running, caller, snapshot, sweeps, errors>>

Finish_KeepsFlag(k) ==   \* Mutant: the flag is not reset
    /\ caller[k] = "sweep" /\ todo[k] = {}
    /\ caller' = [caller EXCEPT ![k] = "idle"]
    /\ UNCHANGED <<chanVars, running, snapshot, todo, sweeps, errors>>
Finish(k) ==
    /\ caller[k] = "sweep" /\ todo[k] = {}
    /\ running' = FALSE
    /\ caller' = [caller EXCEPT ![k] = "idle"]
    /\ snapshot' = [snapshot EXCEPT ![k] = InitRows]
    /\ UNCHANGED <<chanVars, todo, sweeps, errors>>

\* processChannelRelayError, TestChannel: an error of a request on c.
ChannelError(c) ==
    /\ AutomaticDisableChannelEnabled
    /\ rows[c].status # Unborn
    /\ errors < MaxErrors
    /\ errors' = errors + 1
    /\ DisableChannel(c)
    /\ UNCHANGED <<running, caller, snapshot, todo, sweeps>>

Sweep(k) ==
    \/ List(k) \/ ListFails(k) \/ Finish(k)
    \/ \E c \in Channels, outcome \in Outcomes : Test(k, c, outcome)

Next ==
    \/ (Admin \/ Refresh) /\ UNCHANGED testVars
    \/ \E k \in Callers : Enter(k) \/ Sweep(k)
    \/ \E c \in Channels : ChannelError(c)

TestSpec == Init /\ [][Next]_sweepVars

\* A sweep that was started goes on to its end, since the test requests are
\* bounded by the HTTP client's time-outs, and the goroutines that refresh the
\* view (a Load that was called, a pending ChangeStatus, the endless loop of
\* SyncChannelCache) are not all starved.
FairTestSpec ==
    /\ TestSpec
    /\ WF_sweepVars(\E k \in Callers : Sweep(k))
    /\ WF_sweepVars(Refresh /\ UNCHANGED testVars)

-----------------------------------------------------------------------------
(* Properties *)

\* testAllChannelsLock and testAllChannelsRunning keep two sweeps from
\* running at once, however the timer and the administrators call.
OneSweep == \A j, k \in Callers : caller[j] # "idle" /\ caller[k] # "idle" => j = k

\* Every sweep that read the table ends and leaves the tester free again.
SweepsEnd == \A k \in Callers : caller[k] = "sweep" ~> ~running

\* "A manually disabled channel is not recovered automatically"
\* (channel-test.go:265): only a write of an administrator turns a manually
\* disabled row into an enabled one.
ManualNotRecovered ==
    [][\A c \in Channels :
          rows[c].status = ManuallyDisabled /\ rows'[c].status = Enabled => writes' # writes]_sweepVars
=============================================================================
