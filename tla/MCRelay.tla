------------------------------- MODULE MCRelay -------------------------------
(***************************************************************************)
(* Instances of Relay: channels 1 and 2 serve the group "default" at two   *)
(* priorities, channel 3 the group "vip", which is the first request's     *)
(* backup group.                                                           *)
(***************************************************************************)
EXTENDS Relay

CONSTANT Upstream   \* the model every channel maps the model "m" to

MCRow(c, status) ==
    [status |-> status, group |-> IF c = 3 THEN {"vip"} ELSE {"default"},
     models |-> {"m"}, priority |-> IF c = 1 THEN 1 ELSE 0, weight |-> 1,
     type |-> "a", onlyChat |-> FALSE, disabledStream |-> {},
     mapping |-> [m \in Models |-> Upstream]]

AllEnabled == [c \in Channels |-> MCRow(c, Enabled)]

\* An administrator may save channel 2 again, with or without a model_mapping
\* that parses.
MCForms ==
    [c \in Channels |->
        IF c = 2 THEN {MCRow(2, Enabled),
                       [MCRow(2, Enabled) EXCEPT !.mapping = [m \in Models |-> NoName]]}
        ELSE {}]

Ask(backup, specific, preMap) ==
    [group |-> "default", backup |-> backup, model |-> "m", specific |-> specific,
     skip |-> {}, preMap |-> preMap, skipOnlyChat |-> FALSE, isStream |-> FALSE,
     allowTypes |-> Types]

\* A chat completion whose token has a backup group, and a second request.
MCAsked == [q \in Requests |-> IF q = 1 THEN Ask("vip", NoChannel, TRUE)
                                        ELSE Ask(NoName, NoChannel, FALSE)]

\* The second request names channel 2 in its key.
SpecificAsked == [q \in Requests |-> IF q = 1 THEN Ask("vip", NoChannel, TRUE)
                                              ELSE Ask("vip", 2, FALSE)]

MCErrors == {{"rate", "retry"}, {"retry", "ban"}, {}}
=============================================================================
