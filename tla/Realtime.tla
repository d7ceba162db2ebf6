------------------------------- MODULE Realtime -------------------------------
(***************************************************************************)
(* Realtime sessions: relay/realtime.go over common/requester/ws_proxy.go. *)
(* Two transfer goroutines copy messages between the user's and the        *)
(* supplier's websocket, a third waits for the first of them to end,       *)
(* closes both connections and bills.  While a session runs its usage is   *)
(* held in the Redis key user_realtime_quota, which the sessions of one    *)
(* user share.  Messages other than response.done are copied without a     *)
(* trace in this state and are left out.                                   *)
(***************************************************************************)
EXTENDS Integers, FiniteSetsExt

CONSTANTS Sessions,     \* realtime sessions of one user
          ConnectTries, \* config.RetryTimes
          UserQuota,    \* what CacheGetUserQuota reports
          Price,        \* the quota of one response
          MaxUsages     \* bound: the responses of one session

ASSUME RealtimeAssumption ==
    /\ IsFiniteSet(Sessions) /\ ConnectTries \in Nat
    /\ UserQuota \in Int /\ Price \in Nat \ {0} /\ MaxUsages \in Nat

VARIABLES phase,       \* "connect", "proxy", "aborted", "closing", "bill", "settled"
          tryLeft,     \* tries left of getProvider
          open,        \* the connections that are open
          transfer,    \* "read", "usage", "left" the loop, or "gone"
          waiting,     \* the handler is in wsProxy.Wait
          spent,       \* r.usage, in quota: Merge of every response
          cacheQuota,  \* q.cacheQuota
          bill,        \* what Consume was given
          realtimeKey, \* user_realtime_quota
          overdue,        \* history: usage merged after Consume had read it
          stuck        \* history: the part of it that came after Settle

rtVars == <<phase, tryLeft, open, transfer, waiting, spent, cacheQuota, bill, realtimeKey, overdue, stuck>>

Sides == {"user", "supplier"}

RealtimeTypeOK ==
    /\ phase \in [Sessions -> {"connect", "proxy", "aborted", "closing", "bill", "settled"}]
    /\ tryLeft \in [Sessions -> Nat]
    /\ open \in [Sessions -> SUBSET Sides]
    /\ transfer \in [Sessions -> [Sides -> {"read", "usage", "left", "gone"}]]
    /\ waiting \in [Sessions -> BOOLEAN]
    /\ spent \in [Sessions -> Nat] /\ cacheQuota \in [Sessions -> Nat]
    /\ bill \in [Sessions -> Nat] /\ realtimeKey \in Nat /\ overdue \in [Sessions -> Nat]
    /\ stuck \in [Sessions -> Nat]

RealtimeInit ==
    /\ phase = [s \in Sessions |-> "connect"]
    /\ tryLeft = [s \in Sessions |-> IF ConnectTries = 0 THEN 1 ELSE ConnectTries]
    /\ open = [s \in Sessions |-> {"user"}]
    /\ transfer = [s \in Sessions |-> [side \in Sides |-> "read"]]
    /\ waiting = [s \in Sessions |-> FALSE]
    /\ spent = [s \in Sessions |-> 0] /\ cacheQuota = [s \in Sessions |-> 0]
    /\ bill = [s \in Sessions |-> 0] /\ realtimeKey = 0
    /\ overdue = [s \in Sessions |-> 0] /\ stuck = [s \in Sessions |-> 0]

-----------------------------------------------------------------------------
(* getProvider *)

\* CreateChatRealtime and the first message succeed: Start and Wait.
Connected(s) ==
    /\ phase[s] = "connect" /\ tryLeft[s] > 0
    /\ phase' = [phase EXCEPT ![s] = "proxy"]
    /\ open' = [open EXCEPT ![s] = Sides]
    /\ waiting' = [waiting EXCEPT ![s] = TRUE]
    /\ UNCHANGED <<tryLeft, transfer, spent, cacheQuota, bill, realtimeKey, overdue, stuck>>

\* The dial or the first message fails: the channel is skipped.
ConnectFails(s) ==
    /\ phase[s] = "connect" /\ tryLeft[s] > 0
    /\ tryLeft' = [tryLeft EXCEPT ![s] = @ - 1]
    /\ UNCHANGED <<phase, open, transfer, waiting, spent, cacheQuota, bill, realtimeKey, overdue, stuck>>

\* No tries left, no channel, or one that is no RealtimeInterface.
AbortWithMessage(s) ==
    /\ phase[s] = "connect"
    /\ phase' = [phase EXCEPT ![s] = "aborted"]
    /\ open' = [open EXCEPT ![s] = {}]
    /\ UNCHANGED <<tryLeft, transfer, waiting, spent, cacheQuota, bill, realtimeKey, overdue, stuck>>

-----------------------------------------------------------------------------
(* transfer *)

Move(s, side, place) == transfer' = [transfer EXCEPT ![s][side] = place]

Running(s) == phase[s] \notin {"connect", "aborted"}

\* The read fails (peer left, deadline, Close), the handler reports an error
\* or an error event, or the write fails: the deferred close(closed).
TransferEnds(s, side) ==
    /\ Running(s) /\ transfer[s][side] = "read"
    /\ Move(s, side, "left")
    /\ UNCHANGED <<phase, tryLeft, open, waiting, spent, cacheQuota, bill, realtimeKey, overdue, stuck>>

\* HandleMessage on a response.done of the supplier.
ReadUsage(s) ==
    /\ Running(s) /\ transfer[s]["supplier"] = "read" /\ "supplier" \in open[s]
    /\ spent[s] < MaxUsages * Price
    /\ Move(s, "supplier", "usage")
    /\ UNCHANGED <<phase, tryLeft, open, waiting, spent, cacheQuota, bill, realtimeKey, overdue, stuck>>

Overdue(s) ==
    /\ overdue' = [overdue EXCEPT ![s] = IF phase[s] \in {"bill", "settled"} THEN @ + Price ELSE @]
    /\ stuck' = [stuck EXCEPT ![s] = IF phase[s] = "settled" THEN @ + Price ELSE @]

\* UpdateUserRealtimeQuota: Merge, INCRBY, q.cacheQuota, then the comparison
\* with the user's quota; an error ends the transfer.
UpdateUserRealtimeQuota_NoLimit(s) ==   \* Mutant: the comparison is dropped
    /\ transfer[s]["supplier"] = "usage"
    /\ spent' = [spent EXCEPT ![s] = @ + Price]
    /\ Overdue(s)
    /\ realtimeKey' = realtimeKey + Price
    /\ cacheQuota' = [cacheQuota EXCEPT ![s] = @ + Price]
    /\ Move(s, "supplier", "read")
    /\ UNCHANGED <<phase, tryLeft, open, waiting, bill>>
UpdateUserRealtimeQuota(s) ==
    /\ transfer[s]["supplier"] = "usage"
    /\ spent' = [spent EXCEPT ![s] = @ + Price]
    /\ Overdue(s)
    /\ realtimeKey' = realtimeKey + Price
    /\ cacheQuota' = [cacheQuota EXCEPT ![s] = @ + Price]
    /\ \/ Move(s, "supplier", "left")
       \/ realtimeKey' < UserQuota /\ Move(s, "supplier", "read")
    /\ UNCHANGED <<phase, tryLeft, open, waiting, bill>>

\* p.done is received once, by Wait; the other transfer blocks on it.
Done(s, side) ==
    /\ transfer[s][side] = "left" /\ waiting[s]
    /\ Move(s, side, "gone")
    /\ waiting' = [waiting EXCEPT ![s] = FALSE]
    /\ UNCHANGED <<phase, tryLeft, open, spent, cacheQuota, bill, realtimeKey, overdue, stuck>>

-----------------------------------------------------------------------------
(* The goroutine of ChatRealtime *)

Closed(s) == \E side \in Sides : transfer[s][side] \in {"left", "gone"}

Close(s) ==
    /\ phase[s] = "proxy" /\ Closed(s)
    /\ phase' = [phase EXCEPT ![s] = "closing"]
    /\ open' = [open EXCEPT ![s] = {}]
    /\ UNCHANGED <<tryLeft, transfer, waiting, spent, cacheQuota, bill, realtimeKey, overdue, stuck>>

\* relay.usage.ToChatUsage() is evaluated, the rest is a goroutine.
Consume(s) ==
    /\ phase[s] = "closing"
    /\ phase' = [phase EXCEPT ![s] = "bill"]
    /\ bill' = [bill EXCEPT ![s] = spent[s]]
    /\ UNCHANGED <<tryLeft, open, transfer, waiting, spent, cacheQuota, realtimeKey, overdue, stuck>>

\* completedQuotaConsumption; the deferred CacheDecreaseUserRealtimeQuota.
Settle(s) ==
    /\ phase[s] = "bill"
    /\ phase' = [phase EXCEPT ![s] = "settled"]
    /\ realtimeKey' = realtimeKey - cacheQuota[s]
    /\ UNCHANGED <<tryLeft, open, transfer, waiting, spent, cacheQuota, bill, overdue, stuck>>

RealtimeStep(s) ==
    \/ Connected(s) \/ ConnectFails(s) \/ AbortWithMessage(s)
    \/ \E side \in Sides : TransferEnds(s, side) \/ Done(s, side)
    \/ ReadUsage(s) \/ UpdateUserRealtimeQuota(s)
    \/ Close(s) \/ Consume(s) \/ Settle(s)

RealtimeNext == \E s \in Sessions : RealtimeStep(s)

-----------------------------------------------------------------------------
(* Properties *)

\* A session is billed once for all its responses but the one the supplier's
\* transfer was still handling when the bill was read, and what the sessions
\* hold in user_realtime_quota is what they have not settled yet: after the
\* last one nothing is left but such overdue responses (at most one per session).
RealtimeConserves ==
    /\ realtimeKey = MapThenSumSet(LAMBDA s : IF phase[s] = "settled" THEN stuck[s]
                                             ELSE cacheQuota[s], Sessions)
    /\ \A s \in Sessions :
          /\ phase[s] \in {"bill", "settled"} => bill[s] + overdue[s] = spent[s]
          /\ overdue[s] <= Price

\* A session that reaches the user's quota is ended: what is held exceeds it
\* by no more than one response per session.  A user whose quota is used up is
\* let in (nothing is reserved for a realtime session) and held to the same.
Allowance == IF UserQuota < 1 THEN 1 ELSE UserQuota
RealtimeOverrun == realtimeKey < Allowance + Price * Cardinality(Sessions)

\* A session whose first side ends, for whatever reason, is closed and billed.
RealtimeOver == \A s \in Sessions : phase[s] \in {"aborted", "settled"}
=============================================================================
