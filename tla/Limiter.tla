------------------------------ MODULE Limiter ------------------------------
(***************************************************************************)
(* The limiters a request meets.  middleware/rate-limit.go keeps the times *)
(* of a client's last requests, in a queue in memory or in a Redis list.   *)
(* middleware/api-limit.go asks the limiter of the user's group, made by   *)
(* NewAPILimiter: a fixed window or a token bucket, in memory or in Redis. *)
(* A behaviour is about one limiter and one of its keys.  Time is counted  *)
(* in ticks, a second of the code.  The figures that limiters keep for the *)
(* page of the user (GetCurrentRate) are left out, and so are the errors   *)
(* of Redis that refuse a request.                                         *)
(***************************************************************************)
EXTENDS Integers, Sequences, FiniteSets

CONSTANTS Clients,             \* requests that run redisRateLimiter at once
          ServerOf,            \* the process a request runs in
          Behind,              \* how far a process's clock is behind
          MaxRequestNum,       \* what rate-limit.go allows
          Duration,            \* within so many ticks
          KeyExpiration,       \* RateLimitKeyExpirationDuration
          GroupRates,          \* requests a minute that groups may have
          Minute,              \* its ticks, and RPMThreshold
          TokenBurstMultiplier,
          MaxClock, MaxRequests, MaxLoads, MaxLost

\* "Shouldn't larger then RateLimitKeyExpirationDuration", rate-limit.go:20; and
\* a bucket is full again (10 seconds) before it is cleared (2 minutes).
ASSUME LimiterAssumption ==
    /\ IsFiniteSet(Clients) /\ Clients # {}
    /\ Duration \in Nat /\ KeyExpiration \in Nat /\ Duration <= KeyExpiration
    /\ MaxRequestNum \in Nat \ {0} /\ GroupRates \subseteq Nat
    /\ Minute \in Nat \ {0} /\ TokenBurstMultiplier \in Nat \ {0}
    /\ TokenBurstMultiplier <= 2 * Minute
    /\ \A c \in Clients : Behind[ServerOf[c]] \in Nat
    /\ MaxClock \in Nat

VARIABLES limiter,    \* its kind, rate, and the size of its bucket
          clock,
          times,      \* queue, list: the stored times, oldest first
          window,     \* fixed window: its count and its start
          bucket,     \* token bucket: its tokens and when they were counted
          touched,    \* when the entry or the key was last renewed
          client,     \* where each client is in redisRateLimiter
          admitted,   \* history: when requests were let through
          requests, loads, lost,   \* how many requests, loads, failed pushes
          regress     \* history: how often a bucket's time was set back, or
                      \* begun anew by a process that is behind

limVars == <<limiter, clock, times, window, bucket, touched, client, admitted, requests, loads, lost, regress>>

NoEntry == [count |-> 0, start |-> 0]
NoBucket == [tokens |-> -1, last |-> 0]

AtLeast1(n) == IF n = 0 THEN 1 ELSE n
Least(a, b) == IF a < b THEN a ELSE b

NewAPILimiter(rpm, redis) ==
    IF rpm < Minute
    THEN [kind |-> IF redis THEN "count" ELSE "window", rate |-> rpm, burst |-> 0]
    ELSE [kind  |-> IF redis THEN "tokens" ELSE "bucket",
          rate  |-> rpm \div Minute,
          burst |-> IF redis THEN (rpm * TokenBurstMultiplier) \div Minute
                             ELSE (rpm \div Minute) * TokenBurstMultiplier]

LimiterInit ==
    /\ limiter \in {[kind |-> k, rate |-> MaxRequestNum, burst |-> 0] : k \in {"queue", "list"}}
                   \cup {NewAPILimiter(r, redis) : r \in GroupRates, redis \in BOOLEAN}
    /\ clock = 0 /\ times = <<>> /\ window = NoEntry /\ bucket = NoBucket /\ touched = 0
    /\ client = [c \in Clients |-> "idle"]
    /\ admitted = <<>> /\ requests = 0 /\ loads = 0 /\ lost = 0 /\ regress = 0

Second == /\ clock < MaxClock
        /\ clock' = clock + 1
        /\ UNCHANGED <<limiter, times, window, bucket, touched, client, admitted, requests, loads, lost, regress>>

ClockOf(c) == clock - Behind[ServerOf[c]]

Admit == admitted' = Append(admitted, clock)
Refuse == UNCHANGED admitted

----------------------------------------------------------------------------
(* One client at a time: under the mutex, or in a script.                  *)

Request ==
    /\ limiter.kind = "queue"
    /\ \/ /\ Len(times) < MaxRequestNum
          /\ times' = Append(times, clock) /\ Admit
       \/ /\ Len(times) >= MaxRequestNum /\ clock - times[1] >= Duration
          /\ times' = Append(Tail(times), clock) /\ Admit
       \/ /\ Len(times) >= MaxRequestNum /\ clock - times[1] < Duration
          /\ UNCHANGED times /\ Refuse
    /\ UNCHANGED <<window, bucket, touched, regress>>

\* A key's first request, and the first of a new window, are not compared
\* with the rate.
AllowFixedWindow ==
    /\ limiter.kind = "window"
    /\ IF window = NoEntry \/ clock - window.start >= Minute
       THEN window' = [count |-> 1, start |-> clock] /\ touched' = clock /\ Admit
       ELSE IF window.count + 1 <= limiter.rate
       THEN window' = [window EXCEPT !.count = @ + 1] /\ touched' = clock /\ Admit
       ELSE UNCHANGED <<window, touched>> /\ Refuse
    /\ UNCHANGED <<times, bucket, regress>>

\* countscript.lua: INCRBY counts refused requests too, and the key lives for
\* one window from its first.
CountReserve ==
    /\ limiter.kind = "count"
    /\ LET alive == window # NoEntry /\ clock - window.start < Minute
       IN  window' = IF alive THEN [window EXCEPT !.count = @ + 1]
                              ELSE [count |-> 1, start |-> clock]
    /\ IF window'.count <= limiter.rate THEN Admit ELSE Refuse
    /\ UNCHANGED <<times, bucket, touched, regress>>

AllowTokenBucket ==
    /\ limiter.kind = "bucket"
    /\ LET filled == Least(limiter.burst, bucket.tokens + (clock - bucket.last) * limiter.rate)
       IN  IF bucket = NoBucket
           THEN bucket' = [tokens |-> limiter.burst - 1, last |-> clock] /\ touched' = clock /\ Admit
           ELSE IF filled >= 1
           THEN bucket' = [tokens |-> filled - 1, last |-> clock] /\ touched' = clock /\ Admit
           ELSE bucket' = [tokens |-> filled, last |-> clock] /\ UNCHANGED touched /\ Refuse
    /\ UNCHANGED <<times, window, regress>>

\* tokenscript.lua: the time is the caller's, and is stored although it may be
\* earlier than the one that was there.  Both keys live twice the filling time.
TokenReserve(c) ==
    /\ limiter.kind = "tokens"
    /\ LET ttl    == (limiter.burst * 2) \div limiter.rate
           alive  == bucket # NoBucket /\ clock - touched < ttl
           delta  == IF ClockOf(c) > bucket.last THEN ClockOf(c) - bucket.last ELSE 0
           filled == IF alive THEN Least(limiter.burst, bucket.tokens + delta * limiter.rate)
                              ELSE limiter.burst
       IN  /\ bucket' = [tokens |-> IF filled >= 1 THEN filled - 1 ELSE filled, last |-> ClockOf(c)]
           /\ IF filled >= 1 THEN Admit ELSE Refuse
           /\ regress' = IF IF alive THEN ClockOf(c) < bucket.last
                                     ELSE bucket # NoBucket /\ ClockOf(c) < clock
                         THEN regress + 1 ELSE regress
    /\ touched' = clock
    /\ UNCHANGED <<times, window>>

\* The middlewares but redisRateLimiter.
Middleware ==
    /\ requests < MaxRequests
    /\ requests' = requests + 1
    /\ Request \/ AllowFixedWindow \/ CountReserve \/ AllowTokenBucket \/ \E c \in Clients : TokenReserve(c)
    /\ UNCHANGED <<limiter, clock, client, loads, lost>>

----------------------------------------------------------------------------
(* redisRateLimiter: a command at a time, any number of clients.           *)

\* The list as Redis shows it: gone once its life is over.
Times == IF clock - touched < KeyExpiration THEN times ELSE <<>>

LLen(c) ==
    /\ limiter.kind = "list" /\ client[c] = "idle" /\ requests < MaxRequests
    /\ requests' = requests + 1
    /\ client' = [client EXCEPT ![c] = IF Len(Times) < MaxRequestNum THEN "push" ELSE "index"]
    /\ UNCHANGED <<times, touched, admitted, lost>>

\* LPush and Expire; their errors are not looked at.
LPush(c) ==
    /\ client[c] \in {"push", "replace"}
    /\ \/ times' = Append(Times, ClockOf(c)) /\ touched' = clock /\ UNCHANGED lost
       \/ lost < MaxLost /\ lost' = lost + 1 /\ UNCHANGED <<times, touched>>
    /\ client' = [client EXCEPT ![c] = IF @ = "push" THEN "idle" ELSE "trim"]
    /\ Admit
    /\ UNCHANGED requests

LIndex(c) ==
    /\ client[c] = "index"
    /\ \/ /\ Times = <<>>     \* no time to parse: 500
          /\ client' = [client EXCEPT ![c] = "idle"] /\ UNCHANGED touched
       \/ /\ Times # <<>> /\ ClockOf(c) - Times[1] < Duration
          /\ client' = [client EXCEPT ![c] = "idle"] /\ touched' = clock
       \/ /\ Times # <<>> /\ ClockOf(c) - Times[1] >= Duration
          /\ client' = [client EXCEPT ![c] = "replace"] /\ UNCHANGED touched
    /\ UNCHANGED <<times, admitted, requests, lost>>

\* Mutant: the list is not cut.
LTrim_KeepsAll(c) ==
    /\ client[c] = "trim"
    /\ touched' = clock
    /\ client' = [client EXCEPT ![c] = "idle"]
    /\ UNCHANGED <<times, admitted, requests, lost>>

\* LTrim keeps the newest entries, and Expire follows.
LTrim(c) ==
    /\ client[c] = "trim"
    /\ times' = IF Len(Times) > MaxRequestNum
                THEN SubSeq(Times, Len(Times) - MaxRequestNum + 1, Len(Times)) ELSE Times
    /\ touched' = clock
    /\ client' = [client EXCEPT ![c] = "idle"]
    /\ UNCHANGED <<admitted, requests, lost>>

RedisRateLimiter ==
    /\ \E c \in Clients : LLen(c) \/ LPush(c) \/ LIndex(c) \/ LTrim(c)
    /\ UNCHANGED <<limiter, clock, window, bucket, loads, regress>>

----------------------------------------------------------------------------
(* What happens to the entries meanwhile.                                  *)

\* clearExpiredItems and removeExpiredEntries.
Clear ==
    /\ \/ /\ limiter.kind = "queue" /\ times # <<>> /\ clock - times[Len(times)] > KeyExpiration
          /\ times' = <<>> /\ UNCHANGED <<window, bucket>>
       \/ /\ limiter.kind = "window" /\ window # NoEntry /\ clock - touched > 2 * Minute
          /\ window' = NoEntry /\ UNCHANGED <<times, bucket>>
       \/ /\ limiter.kind = "bucket" /\ bucket # NoBucket /\ clock - touched > 2 * Minute
          /\ bucket' = NoBucket /\ UNCHANGED <<times, window>>
    /\ UNCHANGED <<limiter, clock, touched, client, admitted, requests, loads, lost, regress>>

\* UserGroupRatio.Load, after each edit of a group and in the loop of a node
\* that is not the master, makes all limiters anew: what those in memory
\* counted is forgotten.
LoadGroups ==
    /\ limiter.kind \in {"window", "bucket"} /\ loads < MaxLoads
    /\ loads' = loads + 1
    /\ window' = NoEntry /\ bucket' = NoBucket
    /\ UNCHANGED <<limiter, clock, times, touched, client, admitted, requests, lost, regress>>

LimiterNext == Second \/ Middleware \/ RedisRateLimiter \/ Clear \/ LoadGroups

LimiterSpec == LimiterInit /\ [][LimiterNext]_limVars

----------------------------------------------------------------------------
Within(ticks) == Cardinality({i \in DOMAIN admitted : clock - admitted[i] < ticks})

MaxBehind == CHOOSE d \in {Behind[ServerOf[c]] : c \in Clients} :
                \A c \in Clients : Behind[ServerOf[c]] <= d

\* No limiter lets through more than it promises, and what it promises.  The
\* queue: MaxRequestNum within Duration.  The Redis list, whose length is read
\* in one command and changed in another: two more for every other client
\* inside (one that finds room for its push, and one that finds the oldest time
\* over before the list is cut), one for every push that failed, and Duration
\* is shorter by the difference of the clocks.  A fixed window: twice the rate around a
\* boundary, once more for each Load, and one request where the rate is 0.  A
\* bucket: its size (again after each Load) and what flowed in since, and,
\* with the scripts, the difference of the clocks, again each time that a
\* lagging process sets the stored time back, or begins a bucket anew whose keys
\* have expired.
LimitHolds ==
    /\ limiter.kind = "queue" => Within(Duration) <= MaxRequestNum
    /\ limiter.kind = "list" =>
          Within(Duration - MaxBehind) <= MaxRequestNum + 2 * (Cardinality(Clients) - 1) + lost
    /\ limiter.kind = "window" => Within(Minute) <= (2 + loads) * AtLeast1(limiter.rate)
    /\ limiter.kind = "count" => Within(Minute) <= 2 * limiter.rate
    /\ \A ticks \in 1..(MaxClock + 1) :
          /\ limiter.kind = "bucket" =>
                Within(ticks) <= (1 + loads) * limiter.burst + limiter.rate * (ticks - 1)
          /\ limiter.kind = "tokens" =>
                Within(ticks) <= limiter.burst + limiter.rate * (ticks - 1 + MaxBehind * (1 + regress))
=============================================================================
