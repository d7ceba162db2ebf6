----------------------------- MODULE MCSessions -----------------------------
(***************************************************************************)
(* The life of requests, one component per behaviour: routing and retries  *)
(* (Relay), one relayed request (Session), the conversion of its stream    *)
(* (ResponsesStream), realtime sessions (Realtime).  They share no state,  *)
(* so part names the one a behaviour is about and the others stay as they  *)
(* begin: the state space is the sum of theirs.                            *)
(***************************************************************************)
EXTENDS MCRelay, Realtime

CONSTANTS MaxLines, MaxTries, MaxPings, MaxChoices

VARIABLES part,
          ep, handler, req, tries, body, client, wire, reader, ops, line, lines, closed, responder,
          usage, delivered, erred, billed, beat, stopped, headerSent, pings, late,
          conv, events, choices

Ses == INSTANCE Session
Conv == INSTANCE ResponsesStream

sesVars == <<ep, handler, req, tries, body, client, wire, reader, ops, line, lines, closed, responder,
             usage, delivered, erred, billed, beat, stopped, headerSent, pings, late>>
convVars == <<conv, events, choices>>
allVars == <<part, vars, sesVars, convVars, rtVars>>

NoSession == Ses!SessionInit /\ ep = Ses!RelayChat /\ handler = Ses!NoHandler

LiveInit ==
    /\ part \in {"relay", "session", "converter", "realtime"}
    /\ RelayInit /\ Conv!ConvInit /\ RealtimeInit
    /\ IF part = "session" THEN Ses!SessionInit ELSE NoSession

Relays(step) == /\ part = "relay" /\ step
                /\ UNCHANGED <<part, sesVars, convVars, rtVars>>

Serves(step) == /\ part = "session" /\ step
                /\ UNCHANGED <<part, vars, convVars, rtVars>>

Converts == /\ part = "converter" /\ Conv!ConvNext
            /\ UNCHANGED <<part, vars, sesVars, rtVars>>

Proxies(step) == /\ part = "realtime" /\ step
                 /\ UNCHANGED <<part, vars, sesVars, convVars>>

LiveNext ==
    \/ Relays(RelayNext) \/ Serves(Ses!SessionNext) \/ Converts \/ Proxies(RealtimeNext)

\* Goroutines that can run do.  A heartbeat's timer need not fire; a connection
\* that is closed fails the next read, an open one by its deadline.
LiveSpec ==
    /\ LiveInit /\ [][LiveNext]_allVars
    /\ \A q \in Requests : WF_allVars(Relays(Step(q)))
    /\ WF_allVars(Serves(Ses!Request)) /\ WF_allVars(Serves(Ses!Reader))
    /\ WF_allVars(Serves(Ses!Responder)) /\ WF_allVars(Serves(Ses!BeatWrites))
    /\ WF_allVars(Serves(Ses!BeatCancelled \/ Ses!BeatClientGone))
    /\ \A s \in Sessions : WF_allVars(Proxies(RealtimeStep(s)))

\* The properties of the instances, see their modules.  Every request is
\* routed to an answer, answered and leaves no goroutine behind, and every
\* realtime session is closed and billed.
SessionsEnd ==
    <>[](/\ part = "relay" => Answered
         /\ part = "session" => Ses!SessionOver
         /\ part = "realtime" => RealtimeOver)
\* The client of one request gets one ending.
OneEnding == Ses!OneEnding
\* Text that reached the responder is billed, however the stream ended.
DeliveredIsBilled == Ses!DeliveredIsBilled
\* Every reservation is given back or consumed, but for a panic.
ReservationSettled == Ses!ReservationSettled
\* After Stop the heartbeat writes at most once more.
LateWriteOnce == Ses!LateWriteOnce
\* The events of a converted stream are nested as the protocol asks.
EventsNested == Conv!EventsNested
\* Realtime quota is settled once and conserved, and overrun by no more than
\* one response per session.
RealtimeBilled == RealtimeConserves /\ RealtimeOverrun
=============================================================================
