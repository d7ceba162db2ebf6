------------------------------ MODULE MCQuota ------------------------------
(***************************************************************************)
(* Small instances of Quota.  The amounts are chosen so that every branch  *)
(* of PreQuotaConsumption and of the settlement occurs: a reservation of 2 *)
(* against a quota of 201 is trusted (201 > 100 * 2), one of 122 is not    *)
(* and does not fit twice, a free model reserves nothing, and the usages   *)
(* give bills of 0, below, at and above the reservation.                   *)
(***************************************************************************)
EXTENDS Quota, FiniteSetsExt

CONSTANTS a1, a2, t1, t2

TokenPrice(input, output) ==
    [type |-> "tokens", input |-> input, output |-> output]

\* Both attempts on one token, or one token each.
OneToken == [a \in Attempts |-> t1]
TwoTokens == [a \in Attempts |-> IF a = a1 THEN t1 ELSE t2]

\* A job whose prompt is free and which reserves 2, one that reserves 122,
\* one of a free model.
MCJobs ==
    {[price |-> TokenPrice(0, 2), groupRatio |-> 1, promptTokens |-> 120],
     [price |-> TokenPrice(2, 2), groupRatio |-> 1, promptTokens |-> 120],
     [price |-> TokenPrice(0, 0), groupRatio |-> 1, promptTokens |-> 0]}

MCUsages ==
    {[promptTokens |-> n[1], completionTokens |-> n[2], extraTokens |-> 0,
      extraRatio |-> 1, extraBilling |-> 0] :
         n \in {<<0, 0>>, <<0, 1>>, <<122, 0>>, <<120, 11>>}}

-----------------------------------------------------------------------------
\* Sums are over the attempts that have been made.
ASSUME FiniteAttempts == IsFiniteSet(Attempts)

\* A number per attempt, summed over all of them, or over the successful.
Sum(f) == MapThenSumSet(LAMBDA a : f[a], Attempts)
OfDone(f) == [a \in Attempts |-> IF pc[a] = "done" THEN f[a] ELSE 0]

\* Everything has settled without an error.
Settled ==
    /\ \A a \in Attempts : pc[a] \in Over \cup {"idle"}
    /\ \A c \in Counters : store[c] = 0 /\ flush[c] = 0
    /\ fails = 0

\* What an attempt keeps of the user's quota: its bill, or its reservation
\* when the bill is 0.
Kept == [a \in Attempts |-> IF bill[a] > 0 THEN bill[a] ELSE pre[a]]

\* Once everything has settled the books agree with one another: the user's
\* quota went up by the top-ups and down by what the attempts kept, used_quota,
\* the channel's used_quota and the consume log all show the sum of the bills,
\* the request count is the number of successful attempts, and a limited token
\* went down by what its own attempts kept.  Five counters written by separate
\* UPDATEs or flushed type by type.
BooksAgree ==
    Settled =>
        LET billed == Sum(OfDone(bill))
        IN  /\ db["quota"] + Sum(OfDone(Kept)) = InitQuota + added
            /\ db["used"] = billed
            /\ db["channel"] = billed
            /\ db["count"] = Cardinality({a \in Attempts : pc[a] = "done"})
            /\ billed = Sum([a \in Attempts |-> IF logged[a] = NotLogged THEN 0 ELSE logged[a]])
            /\ \A t \in Tokens \ Unlimited :
                   db[t] + Sum([a \in Attempts |-> IF TokenOf[a] = t THEN OfDone(Kept)[a] ELSE 0])
                       = InitToken
            /\ \A t \in Tokens \cap Unlimited : db[t] = InitToken
=============================================================================
