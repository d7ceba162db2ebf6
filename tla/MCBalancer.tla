----------------------------- MODULE MCBalancer -----------------------------
(***************************************************************************)
(* The routing table of model/balancer.go against reference definitions:   *)
(* every table over RowChoices, every order of the wildcard list, every    *)
(* set of disabled flags and of running cooldowns is one initial state.    *)
(***************************************************************************)
EXTENDS Balancer

CONSTANTS RowChoices,  \* the rows that a channel may have
          Flags,       \* sets of channels whose Disable flag is set
          Cooldowns,   \* sets of running cooldowns, pairs <<channel, model>>
          Requests     \* group, model and filters

ASSUME RoutingAssumption == RowChoices \in [Channels -> SUBSET Row]

VARIABLES view,      \* what some Load installed, with its Disable flags
          cooling,   \* the cooldowns that have not expired
          asked      \* the request

vars == <<view, cooling, asked>>

Tables == {r \in [Channels -> UNION {RowChoices[c] : c \in Channels}] :
              \A c \in Channels : r[c] \in RowChoices[c]}

Init ==
    /\ \E rows \in Tables, off \in Flags : \E loaded \in Load(rows) :
          view = [loaded EXCEPT !.channels =
                    [c \in DOMAIN @ |-> [@[c] EXCEPT !.disable = c \in off]]]
    /\ cooling \in Cooldowns
    /\ asked \in Requests

\* Next reads the table only.
Step == UNCHANGED vars

Spec == Init /\ [][Step]_vars

Answer == NextChannel(view, asked.group, asked.model, asked.filter, cooling)

\* The channels a request could use at all, read off the table row by row.
Usable ==
    {c \in DOMAIN view.channels :
        /\ asked.group \in view.channels[c].channel.group
        /\ RuleKey(view, asked.group, asked.model) \in view.channels[c].channel.models
        /\ ~view.channels[c].disable
        /\ <<c, asked.model>> \notin cooling
        /\ c \notin asked.filter.skip
        /\ view.channels[c].channel.type \in asked.filter.allowTypes
        /\ ~(asked.filter.skipOnlyChat /\ view.channels[c].channel.onlyChat)
        /\ ~(asked.filter.isStream /\ asked.model \in view.channels[c].channel.disabledStream)}

\* What the channel page promises (web/src/i18n/locales/zh_CN.json:145): a
\* channel of a lower priority is used only when all those above it are
\* frozen, disabled or filtered out; and, within one priority, every
\* candidate can be drawn, so Next fails only when nothing is usable.
NextIsBest ==
    Answer = {c \in Usable : \A d \in Usable : Priority(view, d) <= Priority(view, c)}

\* "Within one priority the load is balanced by weight" (zh_CN.json:146):
\* of the totalWeight draws of rand.Intn each candidate is given exactly as
\* many as its weight, a weight of zero counting as the default weight.
DrawsFollowWeights ==
    LET seq   == Seqs!SetToSeq(DOMAIN view.channels)
        total == TotalWeight(view, DOMAIN view.channels)
    IN  \A c \in DOMAIN view.channels :
            /\ view.channels[c].channel.weight > 0
            /\ Cardinality({r \in 0..(total - 1) : Drawn(view, seq, r, c)})
                  = view.channels[c].channel.weight
=============================================================================
