--------------------------- MODULE MCChannelTest ---------------------------
(* Instances of ChannelTest: one channel is enabled at start-up, the other   *)
(* is automatically disabled or still to be inserted.                       *)
EXTENDS ChannelTest

MCRow(status) ==
    [status |-> status, group |-> {"default"}, models |-> {"m"}, priority |-> 0,
     weight |-> 1, type |-> "a", onlyChat |-> FALSE, disabledStream |-> {},
     mapping |-> [m \in Models |-> m]]

MCInitRows == [c \in Channels |-> MCRow(IF c = 1 THEN Enabled ELSE AutoDisabled)]

MCFreshRows == [c \in Channels |-> MCRow(IF c = 1 THEN Enabled ELSE Unborn)]

MCForms == [c \in Channels |-> {MCRow(IF c = 1 THEN ManuallyDisabled ELSE Enabled)}]
============================================================================
