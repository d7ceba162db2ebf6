--------------------------- MODULE ResponsesStream ---------------------------
(***************************************************************************)
(* relay/relay_util/responses_stream.go: chat completion chunks converted  *)
(* into the events of the Responses protocol, one choice after the other.  *)
(* The converter's state is the record conv; the events written are the    *)
(* sequence events.                                                        *)
(***************************************************************************)
EXTENDS Integers, Sequences, FiniteSets

CONSTANT MaxChoices   \* bound: the choices of a stream

VARIABLES conv, events, choices

convVars == <<conv, events, choices>>

None == 0

\* A choice by what the converter looks at: GetResponseType, the choice's
\* index, the index of its first tool call, and its finish reason.
ItemTypes == {"message", "reasoning", "function_call"}

Choice(type, index, tool, finish) ==
    [type |-> type, index |-> index, tool |-> tool, finish |-> finish]

Choices ==
    {Choice("message", i, 0, "") : i \in {0, 1}} \cup {Choice("reasoning", 0, 0, "")}
    \cup {Choice("function_call", 0, t, "") : t \in {0, 1}}
    \cup {Choice("message", 0, 0, f) : f \in {"completed", "incomplete"}}

\* NewOpenAIResponsesStreamConverter.  item and part are None or the number of
\* the open one; output is what responses.Output holds, items by number.
ConvInit ==
    /\ conv = [first |-> TRUE, lastIndex |-> -1, lastType |-> "", lastTool |-> 0,
               item |-> None, items |-> 0, part |-> None, parts |-> 0,
               content |-> <<>>, output |-> <<>>, status |-> "", over |-> FALSE]
    /\ events = <<>> /\ choices = 0

\* sendStreamEvent: the event, the item it names and the part it is about.
Event(name, item, part) == [name |-> name, item |-> item, part |-> part]

\* Every operation maps a pair of converter and events to such a pair.
State(c, out) == [c |-> c, out |-> out]
Emit(s, name) == State(s.c, Append(s.out, Event(name, s.c.item, s.c.part)))

\* doneMessagePart and doneReasoningPart.
DonePart(s) ==
    LET t == Emit(Emit(s, "text.done"), "part.done")
    IN  State([t.c EXCEPT !.content = Append(@, s.c.part), !.part = None], t.out)

Done_KeepsPart(s) ==   \* Mutant: the open part of the last item is not ended
    LET u == Emit(s, "item.done")
    IN  State([u.c EXCEPT !.output = Append(@, [item |-> s.c.item, content |-> s.c.content]),
                          !.item = None, !.content = <<>>], u.out)
Done(s) ==
    LET t == CASE s.c.lastType = "function_call" -> Emit(s, "arguments.done")
               [] s.c.lastType \in {"message", "reasoning"} /\ s.c.part # None -> DonePart(s)
               [] OTHER -> s
        u == Emit(t, "item.done")
    IN  State([u.c EXCEPT !.output = Append(@, [item |-> t.c.item, content |-> t.c.content]),
                          !.item = None, !.content = <<>>], u.out)

CreateNewItem(s) ==
    LET t == IF s.c.item # None THEN Done(s) ELSE s
        n == t.c.items + 1
    IN  Emit(State([t.c EXCEPT !.item = n, !.items = n], t.out), "item.added")

\* processMessage and processReasoning differ in the names of their events.
ProcessText(s, choice) ==
    LET t == IF s.c.lastIndex # choice.index /\ s.c.part # None THEN DonePart(s) ELSE s
        n == t.c.parts + 1
        u == IF t.c.part # None THEN t
             ELSE Emit(State([t.c EXCEPT !.part = n, !.parts = n], t.out), "part.added")
    IN  Emit(u, "text.delta")

\* processChoices for one choice.
ProcessChoice(s, choice) ==
    LET newTool == choice.type = "function_call" /\ s.c.lastTool # choice.tool
        st == State([s.c EXCEPT !.status = IF choice.finish # "" THEN choice.finish ELSE @,
                                !.lastTool = IF newTool THEN choice.tool ELSE @], s.out)
        t == IF newTool \/ s.c.lastType # choice.type THEN CreateNewItem(st) ELSE st
        u == IF choice.type = "function_call" THEN Emit(t, "arguments.delta")
             ELSE ProcessText(t, choice)
    IN  State([u.c EXCEPT !.lastIndex = choice.index, !.lastType = choice.type], u.out)

Started(s) == IF s.c.first
              THEN Emit(Emit(State([s.c EXCEPT !.first = FALSE], s.out), "created"), "in_progress")
              ELSE s

\* finalizeStream
FinalizeStream(s) ==
    LET t == IF s.c.item # None THEN Done(s) ELSE s
    IN  Emit(t, IF s.c.status = "incomplete" THEN "incomplete" ELSE "completed")

Becomes(s, over) ==
    /\ conv' = [s.c EXCEPT !.over = over]
    /\ events' = s.out

Now == State(conv, events)

\* ProcessStreamData on a chunk with one choice.
ProcessStreamData(choice) ==
    /\ ~conv.over /\ choices < MaxChoices
    /\ choices' = choices + 1
    /\ Becomes(ProcessChoice(Started(Now), choice), FALSE)

\* A chunk that does not parse, and ProcessError.
SendError(over) ==
    /\ ~conv.over /\ choices < MaxChoices
    /\ choices' = choices + 1
    /\ Becomes(State(conv, Append(events, Event("error", None, None))), over)

ProcessDone ==
    /\ ~conv.over
    /\ Becomes(FinalizeStream(Now), TRUE)
    /\ UNCHANGED choices

ConvNext ==
    \/ \E choice \in Choices : ProcessStreamData(choice)
    \/ \E over \in BOOLEAN : SendError(over)
    \/ ProcessDone

-----------------------------------------------------------------------------
(* Properties *)

Count(names, n) == Cardinality({i \in 1..n : events[i].name \in names})

\* The events are nested as the protocol asks, whatever the chunks alternate
\* between: an item is open while its parts and deltas are sent, a part while
\* its text is, one of each at a time, a delta belongs to the item and the
\* part that are open, nothing of an item is left open at the end, and the
\* final response lists exactly the items that were added, in order.
EventsNested ==
    /\ \A n \in DOMAIN events :
          LET e    == events[n]
              item == Count({"item.added"}, n) - Count({"item.done"}, n - 1)
              part == Count({"part.added"}, n) - Count({"part.done"}, n - 1)
          IN  /\ item \in {0, 1} /\ part \in {0, 1}
              /\ e.name \in {"item.added", "item.done", "part.added", "part.done", "text.delta",
                             "text.done", "arguments.delta", "arguments.done"}
                    => item = 1 /\ e.item = Count({"item.added"}, n)
              /\ e.name \in {"part.added", "part.done", "text.delta", "text.done"}
                    => part = 1 /\ e.part = Count({"part.added"}, n)
              /\ e.name \in {"item.added", "item.done"} => part = 0
    /\ LET last == Len(events)
       IN  last > 0 /\ events[last].name \in {"completed", "incomplete"} =>
              /\ Count({"item.added"}, last) = Count({"item.done"}, last)
              /\ [i \in DOMAIN conv.output |-> conv.output[i].item]
                    = [i \in 1..Count({"item.added"}, last) |-> i]
=============================================================================
