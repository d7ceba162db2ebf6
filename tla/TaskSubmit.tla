----------------------------- MODULE TaskSubmit -----------------------------
(***************************************************************************)
(* RelayTaskSubmit: how a song or a video is accepted.  One reservation    *)
(* covers all the tries; Undo gives it back after every one that fails,    *)
(* and Consume, after one that succeeds, takes the price less the          *)
(* reservation.  What happens to the stored task is TaskPoller's.          *)
(***************************************************************************)
EXTENDS Integers

CONSTANTS SubmitRetries  \* RetryTimes

ASSUME SubmitAssumption == SubmitRetries \in Nat

VARIABLE sub  \* the request: where it is, its platform and origin, the tries
              \* left, the reservation, what was paid, the tries that failed,
              \* whether taskErr is set, and whether it was stored and answered

SubInit ==
    sub = [pc |-> "init", platform |-> "suno", origin |-> FALSE,
           left |-> 0, held |-> 0, paid |-> 0, failed |-> 0, err |-> FALSE,
           stored |-> FALSE, answered |-> FALSE]

\* HandleError
AnswerError == [sub EXCEPT !.pc = "over", !.answered = TRUE]

\* GetTaskAdaptor, Init with actionValidate, HandleOriginTaskID: a song that continues another is pinned
\* to the channel of that one.
SubmitValidated ==
    /\ sub.pc = "init"
    /\ \/ sub' = AnswerError
       \/ \E platform \in {"suno", "kling"}, origin \in BOOLEAN :
             /\ origin => platform = "suno"
             /\ sub' = [sub EXCEPT !.pc = "provider", !.platform = platform, !.origin = origin]

\* SetProvider, then PreQuotaConsumption: 1 is the price, and nothing is taken
\* from a rich user.
SubmitReserved ==
    /\ sub.pc = "provider"
    /\ \/ sub' = AnswerError
       \/ \E held \in {0, 1} : sub' = [sub EXCEPT !.pc = "relay", !.held = held, !.paid = held]

\* CompletedTask
Completed(s) == [s EXCEPT !.pc = "over", !.paid = @ + 1 - s.held, !.stored = TRUE]

\* Undo
Undone_Never(s) ==   \* Mutant: the failed try keeps the reservation
    [s EXCEPT !.failed = @ + 1, !.err = TRUE]
Undone(s) == [s EXCEPT !.paid = @ - s.held, !.failed = @ + 1, !.err = TRUE]

\* ShouldRetry: Suno retries all but local errors and time-outs, and nothing on
\* a pinned channel; Kling never.
MayRetry == sub.platform = "suno" /\ ~sub.origin

FirstRelay ==
    /\ sub.pc = "relay"
    /\ \/ sub' = [Completed(sub) EXCEPT !.answered = TRUE]
       \/ \E retry \in {FALSE, MayRetry} :
             sub' = [Undone(sub) EXCEPT !.pc = "again", !.left = IF retry THEN SubmitRetries ELSE 0]

\* One turn of the retry loop: a missing provider uses up a try; a success
\* completes the task and answers nothing.
RetryRelay ==
    /\ sub.pc = "again" /\ sub.left > 0
    /\ \/ sub' = [sub EXCEPT !.left = @ - 1, !.err = TRUE]
       \/ sub' = [Completed(sub) EXCEPT !.err = FALSE]
       \/ sub' = [Undone(sub) EXCEPT !.left = @ - 1]
       \/ sub' = [Undone(sub) EXCEPT !.left = 0]

GivesUp ==
    /\ sub.pc = "again" /\ sub.left = 0
    /\ sub' = IF sub.err THEN AnswerError ELSE [sub EXCEPT !.pc = "over"]

SubNext == SubmitValidated \/ SubmitReserved \/ FirstRelay \/ RetryRelay \/ GivesUp

-----------------------------------------------------------------------------
(* Properties *)

\* A task nobody took costs nothing, one that was taken at the first try its
\* price.  Every failed try after the first, and the first of a task that is
\* taken later, hands out the reservation once more: nothing else makes the
\* user pay too little, and nobody pays too much.  The client is answered
\* unless a retry succeeded.
SubmitSettled ==
    sub.pc = "over" =>
        LET price == IF sub.stored THEN 1 ELSE 0
            extra == IF sub.stored THEN sub.failed ELSE sub.failed - 1
        IN  /\ sub.paid <= price
            /\ sub.paid < price => sub.held = 1 /\ sub.paid >= price - extra
            /\ ~sub.answered => sub.stored /\ sub.failed > 0
=============================================================================
