--------------------------- MODULE AdmissionProofs ---------------------------
(***************************************************************************)
(* The limiters a request meets on its way to a channel: what each of them *)
(* lets through, for any rate, any number of clients, processes and clocks *)
(* that lag, and any length of time.  Every limiter keeps an account, from *)
(* each moment s on, of what it let through since.                         *)
(***************************************************************************)
EXTENDS MCAdmission, FiniteSums, SequenceTheorems

\* How many of the requests were let through at s or later.
Since(q, s) == Cardinality({i \in DOMAIN q : s <= q[i]})

\* The same of all requests the limiter let through.
From(s) == Since(admitted, s)

\* The clients that f puts at one of the labels.
Located(f, labels) == {c \in Clients : f[c] \in labels}

\* The clients that are at one of the labels.
At(labels) == Located(client, labels)

\* The last r times of a list are s or later.
Fresh(q, r, s) ==
    /\ r \in 0..Len(q)
    /\ \A i \in DOMAIN q : i > Len(q) - r => s <= q[i]

\* The queue stores every request that was let through in its time.
QueueKept(s) == \E r \in 0..Len(times) : From(s) <= r /\ Fresh(times, r, s)

\* The list has few entries from s on; or enough of them, behind older ones
\* that a trim will cut; or only such entries.
Few(s) ==
    \E r \in 0..(MaxRequestNum - 1) :
        /\ From(s) <= r + lost /\ Fresh(times, r, s - MaxBehind)
        /\ r > 0 => s <= touched

Overfull(s) ==
    /\ Len(times) > MaxRequestNum /\ Fresh(times, MaxRequestNum, s - MaxBehind) /\ s <= touched
    /\ From(s) + Cardinality(At({"push"}))
          <= MaxRequestNum + lost + Cardinality(Clients) - 2 + Cardinality(At({"trim"}))

Full(s) ==
    /\ Len(times) >= MaxRequestNum /\ Fresh(times, Len(times), s - MaxBehind) /\ s <= touched
    /\ From(s) + Cardinality(At({"push", "replace"}))
          <= MaxRequestNum + lost + 2 * (Cardinality(Clients) - 1)

\* In each case no more requests were let through than the list can tell, the
\* failed pushes and the clients inside account for.
ListKept(s) == Few(s) \/ Overfull(s) \/ Full(s)

\* A list that is long was made so by a client that is no longer about to push.
Crossed == Len(Times) >= MaxRequestNum => \E c \in Clients : client[c] # "push"

\* At most one window ended in the minute, besides those that a Load ended.
WindowKept(s) ==
    LET most == AtLeast1(limiter.rate)
    IN  From(s) <= CASE window = NoEntry -> (1 + loads) * most
                     [] window # NoEntry /\ window.start >= s -> (1 + loads) * most + window.count
                     [] window # NoEntry /\ window.start < s -> loads * most + window.count

\* A window counts a request at least and as many as the rate at most.
WindowTyped ==
    window # NoEntry => /\ 1 <= window.count /\ window.count <= AtLeast1(limiter.rate)
                        /\ window.start <= touched

\* The same with the counting script, which counts refused requests too.
CountKept(s) ==
    LET most == Least(window.count, limiter.rate)
    IN  From(s) <= CASE window = NoEntry -> 0
                     [] window # NoEntry /\ window.start >= s -> limiter.rate + most
                     [] window # NoEntry /\ window.start < s -> most

\* A window has begun by now.
CountTyped == window # NoEntry => window.start <= clock

\* What was let through and what is left came from the bucket and the flow.
BucketKept(s) ==
    IF bucket = NoBucket
    THEN From(s) <= loads * limiter.burst + limiter.rate * (clock - s)
    ELSE \/ From(s) = 0
         \/ /\ From(s) + bucket.tokens <= (1 + loads) * limiter.burst + limiter.rate * (bucket.last - s)
            /\ From(s) <= (1 + loads) * limiter.burst + limiter.rate * (touched - s)

\* A bucket holds some of its tokens, counted when it was last asked.
BucketTyped ==
    bucket # NoBucket => /\ 0 <= bucket.tokens /\ bucket.tokens <= limiter.burst
                         /\ touched <= bucket.last /\ bucket.last <= clock

\* The same with the scripts, for which time may flow more than once.
TokensKept(s) ==
    \/ From(s) = 0
    \/ /\ bucket # NoBucket
       /\ From(s) + bucket.tokens
             <= limiter.burst + limiter.rate * (bucket.last - s + MaxBehind * (1 + regress))

\* The same with the scripts.
TokensTyped ==
    bucket # NoBucket => /\ 0 <= bucket.tokens /\ bucket.tokens <= limiter.burst
                         /\ bucket.last <= touched

\* The limiter is one that NewAPILimiter or rate-limit.go makes.
RateTyped ==
    /\ limiter \in [kind : {"queue", "list", "window", "count", "bucket", "tokens"}, rate : Nat, burst : Nat]
    /\ limiter.kind \in {"queue", "list"} => limiter.rate = MaxRequestNum
    /\ limiter.kind = "bucket" =>
          limiter.rate > 0 /\ limiter.burst = limiter.rate * TokenBurstMultiplier
    /\ limiter.kind = "tokens" => limiter.rate > 0 /\ limiter.rate <= limiter.burst

\* Only the list has clients that are inside.
ClientsTyped ==
    /\ client \in [Clients -> {"idle", "push", "index", "replace", "trim"}]
    /\ limiter.kind # "list" => client = [c \in Clients |-> "idle"]

\* The stores.
StoreTyped ==
    /\ times \in Seq(Int)
    /\ window \in [count : Nat, start : Nat]
    /\ bucket \in [tokens : Int, last : Int]

\* The clock and what has happened by it.
HistoryTyped ==
    /\ clock \in Nat /\ touched \in 0..clock
    /\ admitted \in Seq(Nat) /\ \A i \in DOMAIN admitted : admitted[i] <= clock
    /\ loads \in Nat /\ lost \in Nat /\ regress \in Nat

\* The variables of the limiters are typed.
LimiterTyped == RateTyped /\ ClientsTyped /\ StoreTyped /\ HistoryTyped

\* The last moments, of which there are so many.
Moments(ticks) == (clock - ticks + 1)..clock

\* The account of the queue, for every moment that matters.
QueueInv ==
    limiter.kind = "queue" =>
        Len(times) <= MaxRequestNum /\ \A s \in Moments(Duration) : QueueKept(s)

\* The account of the list.
ListInv ==
    limiter.kind = "list" =>
        Crossed /\ \A s \in Moments(Duration - MaxBehind) : ListKept(s)

\* The account of the fixed window in memory.
WindowInv ==
    limiter.kind = "window" => WindowTyped /\ \A s \in Moments(Minute) : WindowKept(s)

\* The account of the fixed window in Redis.
CountInv ==
    limiter.kind = "count" => CountTyped /\ \A s \in Moments(Minute) : CountKept(s)

\* The account of the token bucket in memory.
BucketInv ==
    limiter.kind = "bucket" => BucketTyped /\ \A s \in Moments(MaxClock + 1) : BucketKept(s)

\* The account of the token bucket in Redis.
TokensInv ==
    limiter.kind = "tokens" => TokensTyped /\ \A s \in Moments(MaxClock + 1) : TokensKept(s)

\* The limiter's account, of whatever kind it is.
KindInv == QueueInv /\ ListInv /\ WindowInv /\ CountInv /\ BucketInv /\ TokensInv

-----------------------------------------------------------------------------
(* Counting requests. *)

\* The requests let through since a moment are finitely many.
LEMMA SinceTyped ==
    ASSUME NEW q \in Seq(Int), NEW s \in Int
    PROVE  /\ IsFiniteSet({i \in DOMAIN q : s <= q[i]})
           /\ Since(q, s) \in Nat
<1>1. IsFiniteSet(1..Len(q))
  BY FS_Interval
<1>2. DOMAIN q = 1..Len(q)
  OBVIOUS
<1>3. IsFiniteSet({i \in DOMAIN q : s <= q[i]})
  BY <1>1, <1>2, FS_Subset
<1> QED BY <1>3, FS_CardinalityType DEF Since

\* A request that is let through is one more since every earlier moment.
LEMMA SinceAppend ==
    ASSUME NEW q \in Seq(Int), NEW s \in Int, NEW x \in Int
    PROVE  Since(Append(q, x), s) = Since(q, s) + (IF s <= x THEN 1 ELSE 0)
<1> DEFINE old == {i \in DOMAIN q : s <= q[i]}
           new == {i \in DOMAIN Append(q, x) : s <= Append(q, x)[i]}
           n == Len(q) + 1
<1>1. /\ DOMAIN Append(q, x) = DOMAIN q \cup {n} /\ n \notin DOMAIN q
      /\ Append(q, x)[n] = x /\ \A i \in DOMAIN q : Append(q, x)[i] = q[i]
  OBVIOUS
<1>2. IsFiniteSet(old) /\ Cardinality(old) \in Nat
  BY SinceTyped, FS_CardinalityType
<1>3. n \notin old /\ new = old \cup (IF s <= x THEN {n} ELSE {})
  BY <1>1
<1>4. Since(q, s) = Cardinality(old) /\ Since(Append(q, x), s) = Cardinality(new)
  BY DEF Since
<1> HIDE DEF old, new, n
<1>5. CASE s <= x
  <2>1. new = old \cup {n}
    BY <1>3, <1>5
  <2>2. Cardinality(new) = Cardinality(old) + 1
    BY <1>2, <1>3, <2>1, FS_AddElement
  <2> QED BY <1>2, <1>4, <1>5, <2>2
<1>6. CASE ~(s <= x)
  <2>1. new = old
    BY <1>3, <1>6
  <2> QED BY <1>2, <1>4, <1>6, <2>1
<1> QED BY <1>5, <1>6

\* None were let through since a moment that no time of them reaches.
LEMMA SinceNone ==
    ASSUME NEW q, NEW s, {i \in DOMAIN q : s <= q[i]} = {}
    PROVE  Since(q, s) = 0
BY FS_EmptySet DEF Since

\* The furthest clock behind.
LEMMA MaxBehindIs ==
    /\ MaxBehind \in Nat
    /\ \A c \in Clients : Behind[ServerOf[c]] \in Nat /\ Behind[ServerOf[c]] <= MaxBehind
<1> DEFINE lag(c) == Behind[ServerOf[c]]
           lags == {lag(c) : c \in Clients}
           negative == [c \in Clients |-> 0 - lag(c)]
           ahead == {negative[c] : c \in Clients}
<1>1. \A c \in Clients : lag(c) \in Nat
  BY LimiterAssumption
<1>2. IsFiniteSet(ahead) /\ ahead # {} /\ ahead \subseteq Int
  <2>1. negative \in Surjection(Clients, ahead)
    BY DEF Surjection
  <2>2. IsFiniteSet(ahead)
    <3> HIDE DEF negative, ahead
    <3> QED BY <2>1, LimiterAssumption, FS_Surjection
  <2> QED BY <1>1, <2>2, LimiterAssumption
<1>3. PICK m \in ahead : \A k \in ahead : m <= k
  <2> HIDE DEF ahead
  <2> QED BY <1>2, LeastInt
<1>4. PICK d \in lags : m = 0 - d
  OBVIOUS
<1>5. \A c \in Clients : lag(c) <= d
  <2> SUFFICES ASSUME NEW c \in Clients PROVE lag(c) <= d
    OBVIOUS
  <2>1. 0 - lag(c) \in ahead
    OBVIOUS
  <2>2. m <= 0 - lag(c)
    BY <1>3, <2>1
  <2>3. d \in Nat /\ lag(c) \in Nat
    BY <1>1, <1>4
  <2> HIDE DEF lag
  <2> QED BY <1>4, <2>2, <2>3
<1>6. MaxBehind \in lags /\ \A c \in Clients : lag(c) <= MaxBehind
  BY <1>5, Zenon DEF MaxBehind
<1> QED BY <1>1, <1>6

\* Clients at some labels.
LEMMA AtTyped ==
    ASSUME NEW labels
    PROVE  /\ IsFiniteSet(At(labels)) /\ Cardinality(At(labels)) \in Nat
           /\ At(labels) \subseteq Clients
<1>1. At(labels) \subseteq Clients
  BY DEF At, Located
<1> QED BY <1>1, LimiterAssumption, FS_Subset, FS_CardinalityType

\* There is a client at least.
LEMMA ClientsCounted ==
    Cardinality(Clients) \in Nat /\ Cardinality(Clients) > 0
BY LimiterAssumption, FS_CardinalityType, FS_EmptySet

-----------------------------------------------------------------------------
(* Arithmetic, stated apart for the provers. *)

\* Products of integers: they distribute, and grow with a factor.
LEMMA ProductGrows ==
    /\ \A a, b, c \in Int : a * b + a * c = a * (b + c) /\ b * a + c * a = (b + c) * a
    /\ \A a, b, c \in Int : a * b - a * c = a * (b - c)
    /\ \A a \in Nat : \A b, c \in Int : b <= c => a * b <= a * c
    /\ \A a, b \in Nat : a * b \in Nat
    /\ \A a, b \in Int : a * b \in Int /\ a * b = b * a
    /\ \A a \in Int : a * 0 = 0 /\ a * 1 = a /\ 1 * a = a
OBVIOUS

\* What NewAPILimiter makes of a rate.
LEMMA TokensOf ==
    ASSUME NEW rpm \in Nat, rpm >= Minute
    PROVE  LET rate == rpm \div Minute
               burst == (rpm * TokenBurstMultiplier) \div Minute
           IN  rate \in Nat /\ rate > 0 /\ burst \in Nat /\ rate <= burst
<1> DEFINE rate == rpm \div Minute
           all == rpm * TokenBurstMultiplier
           burst == all \div Minute
<1>1. Minute \in Nat /\ Minute > 0 /\ TokenBurstMultiplier \in Nat /\ TokenBurstMultiplier >= 1
  BY LimiterAssumption
<1>2. all \in Nat /\ rpm <= all
  <2>1. rpm * 1 <= rpm * TokenBurstMultiplier
    BY <1>1, ProductGrows
  <2> QED BY <1>1, <2>1, ProductGrows
<1> HIDE DEF all
<1>3. /\ rate \in Int /\ Minute * rate <= rpm /\ rpm < Minute * rate + Minute
      /\ burst \in Int /\ all < Minute * burst + Minute
  BY <1>1, <1>2
<1>4. burst >= rate
  <2> HIDE DEF rate, burst
  <2>1. SUFFICES ASSUME burst + 1 <= rate PROVE FALSE
    BY <1>3
  <2>2. Minute * (burst + 1) <= Minute * rate
    BY <1>1, <1>3, <2>1, ProductGrows
  <2>3. Minute * (burst + 1) = Minute * burst + Minute
    BY <1>1, <1>3
  <2> QED BY <1>1, <1>2, <1>3, <2>2, <2>3, ProductGrows
<1>5. rate > 0
  <2> HIDE DEF rate, burst
  <2>1. SUFFICES ASSUME rate <= 0 PROVE FALSE
    BY <1>3
  <2>2. Minute * rate <= 0
    BY <1>1, <1>3, <2>1, ProductGrows
  <2> QED BY <1>1, <1>3, <2>2, ProductGrows
<1> HIDE DEF rate, burst
<1>6. rate \in Nat /\ rate > 0 /\ burst \in Nat /\ rate <= burst
  BY <1>3, <1>4, <1>5
<1> QED BY <1>6 DEF rate, burst, all

-----------------------------------------------------------------------------
(* Types. *)

\* Types hold at first, whatever limiter NewAPILimiter makes.
LEMMA LimiterTypedInit == LimiterInit => LimiterTyped
<1> SUFFICES ASSUME LimiterInit PROVE LimiterTyped
  OBVIOUS
<1>1. ASSUME NEW r \in GroupRates, NEW redis \in BOOLEAN, limiter = NewAPILimiter(r, redis)
      PROVE  /\ limiter \in [kind : {"queue", "list", "window", "count", "bucket", "tokens"}, rate : Nat, burst : Nat]
             /\ limiter.kind \notin {"queue", "list"}
             /\ limiter.kind = "bucket" =>
                   limiter.rate > 0 /\ limiter.burst = limiter.rate * TokenBurstMultiplier
             /\ limiter.kind = "tokens" => limiter.rate > 0 /\ limiter.rate <= limiter.burst
  <2>1. r \in Nat /\ Minute \in Nat /\ TokenBurstMultiplier \in Nat
    BY LimiterAssumption
  <2>2. CASE r < Minute
    BY <1>1, <2>1, <2>2 DEF NewAPILimiter
  <2>3. CASE ~(r < Minute)
    <3> DEFINE rate == r \div Minute
               burst == (r * TokenBurstMultiplier) \div Minute
    <3>1. rate \in Nat /\ rate > 0 /\ burst \in Nat /\ rate <= burst
      BY <2>1, <2>3, TokensOf
    <3>2. rate * TokenBurstMultiplier \in Nat
      BY <2>1, <3>1, ProductGrows
    <3>3. limiter = [kind |-> IF redis THEN "tokens" ELSE "bucket", rate |-> rate,
                     burst |-> IF redis THEN burst ELSE rate * TokenBurstMultiplier]
      BY <1>1, <2>3 DEF NewAPILimiter
    <3> HIDE DEF rate, burst
    <3> QED BY <3>1, <3>2, <3>3
  <2> QED BY <2>2, <2>3
<1>2. /\ limiter \in [kind : {"queue", "list", "window", "count", "bucket", "tokens"}, rate : Nat, burst : Nat]
      /\ limiter.kind \in {"queue", "list"} => limiter.rate = MaxRequestNum
      /\ limiter.kind = "bucket" =>
            limiter.rate > 0 /\ limiter.burst = limiter.rate * TokenBurstMultiplier
      /\ limiter.kind = "tokens" => limiter.rate > 0 /\ limiter.rate <= limiter.burst
  <2>1. CASE limiter \in {[kind |-> k, rate |-> MaxRequestNum, burst |-> 0] : k \in {"queue", "list"}}
    BY <2>1, LimiterAssumption
  <2>2. CASE limiter \in {NewAPILimiter(r, redis) : r \in GroupRates, redis \in BOOLEAN}
    <3>1. PICK r \in GroupRates, redis \in BOOLEAN : limiter = NewAPILimiter(r, redis)
      BY <2>2
    <3> QED BY <1>1, <3>1
  <2> QED BY <2>1, <2>2 DEF LimiterInit
<1>3. RateTyped
  BY <1>2 DEF RateTyped
<1>4. ClientsTyped /\ StoreTyped /\ HistoryTyped
  BY DEF LimiterInit, ClientsTyped, StoreTyped, HistoryTyped, NoEntry, NoBucket
<1> QED BY <1>3, <1>4 DEF LimiterTyped

\* What Redis shows of the list, and how far the clocks of the clients lag.
LEMMA TimesTyped ==
    ASSUME LimiterTyped
    PROVE  /\ Times \in Seq(Int)
           /\ \A c \in Clients : ClockOf(c) \in Int /\ ClockOf(c) <= clock
                                 /\ clock - MaxBehind <= ClockOf(c)
<1>1. times \in Seq(Int) /\ <<>> \in Seq(Int) /\ clock \in Nat
  BY DEF LimiterTyped, StoreTyped, HistoryTyped
<1>2. ASSUME NEW c \in Clients
      PROVE  ClockOf(c) \in Int /\ ClockOf(c) <= clock /\ clock - MaxBehind <= ClockOf(c)
  <2> DEFINE lag == Behind[ServerOf[c]]
  <2>1. lag \in Nat /\ lag <= MaxBehind /\ MaxBehind \in Nat
    BY MaxBehindIs
  <2>2. ClockOf(c) = clock - lag
    BY DEF ClockOf
  <2> HIDE DEF lag
  <2> QED BY <1>1, <2>1, <2>2
<1> QED BY <1>1, <1>2 DEF Times

\* Nothing changes what kind of limiter it is.
LEMMA RateTypedNext ==
    ASSUME RateTyped, [LimiterNext]_limVars
    PROVE  RateTyped' /\ limiter' = limiter
BY DEF RateTyped, limVars, LimiterNext, Second, Middleware, RedisRateLimiter, Clear, LoadGroups

\* Clients move only in redisRateLimiter.
LEMMA ClientsTypedNext ==
    ASSUME ClientsTyped, limiter' = limiter, [LimiterNext]_limVars
    PROVE  ClientsTyped'
<1>1. CASE RedisRateLimiter
  <2>1. PICK c \in Clients : LLen(c) \/ LPush(c) \/ LIndex(c) \/ LTrim(c)
    BY <1>1 DEF RedisRateLimiter
  <2>2. limiter.kind = "list"
    BY <2>1 DEF LLen, LPush, LIndex, LTrim, ClientsTyped
  <2>3. PICK label \in {"idle", "push", "index", "replace", "trim"} :
           client' = [client EXCEPT ![c] = label]
    BY <2>1 DEF LLen, LPush, LIndex, LTrim
  <2> QED BY <2>2, <2>3 DEF ClientsTyped
<1>2. CASE client' = client
  BY <1>2 DEF ClientsTyped
<1> QED BY <1>1, <1>2 DEF limVars, LimiterNext, Second, Middleware, Clear, LoadGroups

\* What was let through was let through by now.
LEMMA HistoryTypedNext ==
    ASSUME HistoryTyped, [LimiterNext]_limVars
    PROVE  HistoryTyped'
<1>1. /\ Append(admitted, clock) \in Seq(Nat)
      /\ \A i \in DOMAIN Append(admitted, clock) : Append(admitted, clock)[i] <= clock
  BY DEF HistoryTyped
<1>2. CASE Second
  BY <1>2 DEF Second, HistoryTyped
<1>3. CASE ~Second
  <2>1. clock' = clock
    BY <1>3 DEF limVars, LimiterNext, Second, Middleware, RedisRateLimiter, Clear, LoadGroups
  <2>2. admitted' \in {admitted, Append(admitted, clock)}
    BY <1>3 DEF limVars, LimiterNext, Second, Middleware, RedisRateLimiter, Clear, LoadGroups, Admit, Refuse,
          Request, AllowFixedWindow, CountReserve, AllowTokenBucket, TokenReserve, LLen, LPush, LIndex, LTrim
  <2>3. touched' \in {touched, clock}
    BY <1>3 DEF limVars, LimiterNext, Second, Middleware, RedisRateLimiter, Clear, LoadGroups,
          Request, AllowFixedWindow, CountReserve, AllowTokenBucket, TokenReserve, LLen, LPush, LIndex, LTrim
  <2>4. loads' \in {loads, loads + 1} /\ lost' \in {lost, lost + 1} /\ regress' \in {regress, regress + 1}
    BY <1>3 DEF limVars, LimiterNext, Second, Middleware, RedisRateLimiter, Clear, LoadGroups,
          Request, AllowFixedWindow, CountReserve, AllowTokenBucket, TokenReserve, LLen, LPush, LIndex, LTrim
  <2>5. admitted' \in Seq(Nat) /\ \A i \in DOMAIN admitted' : admitted'[i] <= clock
    BY <1>1, <2>2 DEF HistoryTyped
  <2>6. touched' \in 0..clock
    BY <2>3 DEF HistoryTyped
  <2>7. loads' \in Nat /\ lost' \in Nat /\ regress' \in Nat
    BY <2>4 DEF HistoryTyped
  <2> QED BY <2>1, <2>5, <2>6, <2>7 DEF HistoryTyped
<1> QED BY <1>2, <1>3

\* The stores of the limiters keep their types.
LEMMA StoreTypedNext ==
    ASSUME LimiterTyped, [LimiterNext]_limVars
    PROVE  StoreTyped'
<1> USE DEF StoreTyped
<1>1. /\ clock \in Nat /\ limiter.rate \in Nat /\ limiter.burst \in Nat
      /\ times \in Seq(Int) /\ window \in [count : Nat, start : Nat] /\ bucket \in [tokens : Int, last : Int]
  BY DEF LimiterTyped, RateTyped, HistoryTyped
<1>2. CASE Request
  <2>1. Append(times, clock) \in Seq(Int)
    BY <1>1
  <2>2. Len(times) >= MaxRequestNum => Append(Tail(times), clock) \in Seq(Int)
    <3>1. SUFFICES ASSUME Len(times) >= MaxRequestNum PROVE Append(Tail(times), clock) \in Seq(Int)
      OBVIOUS
    <3>2. times # <<>>
      BY <3>1, LimiterAssumption
    <3>3. Tail(times) \in Seq(Int)
      BY <1>1, <3>2, HeadTailProperties
    <3> QED BY <1>1, <3>3
  <2> QED BY <1>1, <1>2, <2>1, <2>2 DEF Request
<1>3. CASE AllowFixedWindow
  <2>1. window' = window \/ window' = [count |-> 1, start |-> clock]
        \/ window' = [window EXCEPT !.count = @ + 1]
    BY <1>3 DEF AllowFixedWindow
  <2> QED BY <1>1, <1>3, <2>1 DEF AllowFixedWindow
<1>4. CASE CountReserve
  <2>1. window' = [count |-> 1, start |-> clock] \/ window' = [window EXCEPT !.count = @ + 1]
    BY <1>4 DEF CountReserve
  <2> QED BY <1>1, <1>4, <2>1 DEF CountReserve
<1>5. CASE AllowTokenBucket
  <2> DEFINE filled == Least(limiter.burst, bucket.tokens + (clock - bucket.last) * limiter.rate)
  <2>1. (clock - bucket.last) * limiter.rate \in Int
    BY <1>1, ProductGrows
  <2>2. filled \in Int
    BY <1>1, <2>1 DEF Least
  <2>3. PICK n \in {limiter.burst - 1, filled - 1, filled} : bucket' = [tokens |-> n, last |-> clock]
    BY <1>5 DEF AllowTokenBucket
  <2> HIDE DEF filled
  <2> QED BY <1>1, <1>5, <2>2, <2>3 DEF AllowTokenBucket
<1>6. ASSUME NEW c \in Clients, TokenReserve(c) PROVE StoreTyped'
  <2> DEFINE delta == IF ClockOf(c) > bucket.last THEN ClockOf(c) - bucket.last ELSE 0
             filled == Least(limiter.burst, bucket.tokens + delta * limiter.rate)
  <2>1. delta \in Int /\ ClockOf(c) \in Int
    BY <1>1, TimesTyped
  <2>2. delta * limiter.rate \in Int
    BY <1>1, <2>1, ProductGrows
  <2>3. filled \in Int
    BY <1>1, <2>2 DEF Least
  <2>4. PICK n \in {filled, filled - 1, limiter.burst, limiter.burst - 1} :
           bucket' = [tokens |-> n, last |-> ClockOf(c)]
    BY <1>6 DEF TokenReserve
  <2> HIDE DEF delta, filled
  <2> QED BY <1>1, <1>6, <2>1, <2>3, <2>4 DEF TokenReserve
<1>7. ASSUME NEW c \in Clients, LLen(c) \/ LPush(c) \/ LIndex(c) \/ LTrim(c),
             window' = window, bucket' = bucket
      PROVE  StoreTyped'
  <2>1. Times \in Seq(Int) /\ ClockOf(c) \in Int
    BY TimesTyped
  <2>2. Append(Times, ClockOf(c)) \in Seq(Int)
    BY <2>1
  <2>3. Len(Times) > MaxRequestNum =>
           SubSeq(Times, Len(Times) - MaxRequestNum + 1, Len(Times)) \in Seq(Int)
    <3>1. \A i \in (Len(Times) - MaxRequestNum + 1)..Len(Times) : Len(Times) > MaxRequestNum => Times[i] \in Int
      BY <2>1, LimiterAssumption
    <3> QED BY <2>1, <3>1, LimiterAssumption, SubSeqProperties
  <2>4. \/ times' \in {times, Times, Append(Times, ClockOf(c))}
        \/ /\ Len(Times) > MaxRequestNum
           /\ times' = SubSeq(Times, Len(Times) - MaxRequestNum + 1, Len(Times))
    BY <1>7 DEF LLen, LPush, LIndex, LTrim
  <2> QED BY <1>1, <1>7, <2>1, <2>2, <2>3, <2>4
<1>8. CASE Clear \/ LoadGroups
  <2>1. times' \in {times, <<>>} /\ window' \in {window, NoEntry} /\ bucket' \in {bucket, NoBucket}
    BY <1>8 DEF Clear, LoadGroups
  <2>2. /\ NoEntry \in [count : Nat, start : Nat] /\ NoBucket \in [tokens : Int, last : Int]
        /\ <<>> \in Seq(Int)
    BY DEF NoEntry, NoBucket
  <2> QED BY <1>1, <2>1, <2>2
<1>9. CASE Second \/ UNCHANGED limVars
  BY <1>1, <1>9 DEF Second, limVars
<1> QED BY <1>2, <1>3, <1>4, <1>5, <1>6, <1>7, <1>8, <1>9 DEF LimiterNext, Middleware, RedisRateLimiter

\* Types hold after every step.
LEMMA LimiterTypedNext ==
    ASSUME LimiterTyped, [LimiterNext]_limVars
    PROVE  LimiterTyped' /\ limiter' = limiter
BY RateTypedNext, ClientsTypedNext, HistoryTypedNext, StoreTypedNext DEF LimiterTyped

-----------------------------------------------------------------------------
(* The moments from which requests are counted. *)

\* A step lets one request through or none.
LEMMA FromIs ==
    ASSUME HistoryTyped, NEW s \in Int
    PROVE  /\ From(s) \in Nat
           /\ UNCHANGED admitted => From(s)' = From(s)
           /\ s <= clock /\ Admit => From(s)' = From(s) + 1
<1>1. admitted \in Seq(Int) /\ clock \in Int
  BY DEF HistoryTyped
<1>2. Admit => Since(admitted', s) = Since(admitted, s) + (IF s <= clock THEN 1 ELSE 0)
  BY <1>1, SinceAppend DEF Admit
<1>3. UNCHANGED admitted => Since(admitted', s) = Since(admitted, s)
  BY DEF Since
<1>4. Since(admitted, s) \in Nat
  BY <1>1, SinceTyped
<1> QED BY <1>2, <1>3, <1>4 DEF From, Since

\* A moment after a step was one before it, or is the one that has just come,
\* since which there was no request.
LEMMA MomentsNext ==
    ASSUME HistoryTyped, [LimiterNext]_limVars, NEW ticks \in Int, NEW s \in Moments(ticks)'
    PROVE  /\ s \in Int
           /\ \/ s \in Moments(ticks)
              \/ Second /\ s = clock + 1 /\ From(s)' = 0
<1>1. clock' = clock \/ (Second /\ clock' = clock + 1 /\ admitted' = admitted)
  BY DEF limVars, LimiterNext, Second, Middleware, RedisRateLimiter, Clear, LoadGroups
<1>2. clock \in Nat
  BY DEF HistoryTyped
<1>3. s \in Int /\ (s \in Moments(ticks) \/ (Second /\ s = clock + 1 /\ admitted' = admitted))
  BY <1>1, <1>2 DEF Moments
<1>4. CASE Second /\ s = clock + 1 /\ admitted' = admitted
  <2>1. {i \in DOMAIN admitted : s <= admitted[i]} = {}
    BY <1>2, <1>4 DEF HistoryTyped
  <2>2. Since(admitted', s) = 0
    BY <1>4, <2>1, SinceNone
  <2> QED BY <1>3, <1>4, <2>2 DEF From, Since
<1> QED BY <1>3, <1>4

\* What LimitHolds counts is counted from a moment.
LEMMA WithinIsFrom ==
    ASSUME HistoryTyped, NEW ticks \in Int
    PROVE  /\ Within(ticks) = From(clock - ticks + 1)
           /\ ticks >= 1 => clock - ticks + 1 \in Moments(ticks)
           /\ ticks < 1 => Within(ticks) = 0
<1>1. clock \in Nat /\ admitted \in Seq(Nat) /\ \A i \in DOMAIN admitted : admitted[i] <= clock
  BY DEF HistoryTyped
<1>2. {i \in DOMAIN admitted : clock - admitted[i] < ticks}
        = {i \in DOMAIN admitted : clock - ticks + 1 <= admitted[i]}
  BY <1>1
<1>3. Within(ticks) = From(clock - ticks + 1)
  BY <1>2 DEF Within, From, Since
<1>4. ticks < 1 => {i \in DOMAIN admitted : clock - admitted[i] < ticks} = {}
  BY <1>1
<1>5. ticks < 1 => Within(ticks) = 0
  BY <1>4, FS_EmptySet DEF Within
<1>6. ticks >= 1 => clock - ticks + 1 \in Moments(ticks)
  BY <1>1 DEF Moments
<1> QED BY <1>3, <1>5, <1>6

-----------------------------------------------------------------------------
(* The queue. *)

\* Request replaces a time that is over, and stores that of the request.
LEMMA QueueNext ==
    ASSUME LimiterTyped, QueueInv, [LimiterNext]_limVars
    PROVE  QueueInv'
<1> SUFFICES ASSUME limiter.kind = "queue"
             PROVE  Len(times)' <= MaxRequestNum /\ \A s \in Moments(Duration)' : QueueKept(s)'
  BY LimiterTypedNext DEF QueueInv
<1>1. /\ HistoryTyped /\ clock \in Nat /\ times \in Seq(Int) /\ Len(times) <= MaxRequestNum
      /\ MaxRequestNum \in Nat \ {0} /\ Duration \in Nat /\ KeyExpiration \in Nat /\ Duration <= KeyExpiration
      /\ \A s \in Moments(Duration) : QueueKept(s)
  BY LimiterAssumption DEF LimiterTyped, HistoryTyped, StoreTyped, QueueInv
<1>2. \/ UNCHANGED <<times, admitted>>
      \/ Request
      \/ Clear /\ times # <<>> /\ clock - times[Len(times)] > KeyExpiration /\ times' = <<>> /\ UNCHANGED admitted
  <2>1. CASE RedisRateLimiter
    BY <2>1 DEF RedisRateLimiter, LLen, LPush, LIndex, LTrim, LimiterTyped, ClientsTyped
  <2>2. CASE Middleware
    BY <2>2 DEF Middleware, AllowFixedWindow, CountReserve, AllowTokenBucket, TokenReserve
  <2> QED BY <2>1, <2>2 DEF limVars, LimiterNext, Second, Clear, LoadGroups
<1>3. Len(times)' <= MaxRequestNum
  <2>1. CASE Request
    <3>1. Len(times) >= MaxRequestNum => Tail(times) \in Seq(Int) /\ Len(Tail(times)) = Len(times) - 1
      BY <1>1, HeadTailProperties
    <3> QED BY <1>1, <2>1, <3>1 DEF Request
  <2> QED BY <1>1, <1>2, <2>1
<1>4. ASSUME NEW s \in Moments(Duration)' PROVE QueueKept(s)'
  <2>1. s \in Int
    BY <1>1, MomentsNext
  <2>2. CASE Second /\ s = clock + 1 /\ From(s)' = 0
    <3>1. times' = times
      BY <2>2 DEF Second
    <3>2. Fresh(times, 0, s)'
      BY <1>1, <3>1 DEF Fresh
    <3> QED BY <1>1, <2>2, <3>1, <3>2 DEF QueueKept
  <2>3. CASE s \in Moments(Duration)
    <3>1. s <= clock /\ clock - s < Duration
      BY <1>1, <2>3 DEF Moments
    <3>2. PICK r \in 0..Len(times) : From(s) <= r /\ Fresh(times, r, s)
      BY <1>1, <2>3 DEF QueueKept
    <3>3. /\ From(s) \in Nat
          /\ UNCHANGED admitted => From(s)' = From(s)
          /\ Admit => From(s)' = From(s) + 1
      BY <1>1, <2>1, <3>1, FromIs
    <3>4. CASE UNCHANGED <<times, admitted>>
      <4>1. Fresh(times, r, s)'
        BY <3>2, <3>4 DEF Fresh
      <4> QED BY <3>2, <3>3, <3>4, <4>1 DEF QueueKept
    <3>5. CASE times' = Append(times, clock) /\ Admit
      <4>1. Fresh(times, r + 1, s)'
        BY <1>1, <2>1, <3>1, <3>2, <3>5 DEF Fresh
      <4>2. r + 1 \in 0..Len(times')
        BY <1>1, <3>2, <3>5
      <4> QED BY <3>2, <3>3, <3>5, <4>1, <4>2 DEF QueueKept
    <3>6. CASE Len(times) >= MaxRequestNum /\ clock - times[1] >= Duration
               /\ times' = Append(Tail(times), clock) /\ Admit
      <4>1. /\ Tail(times) \in Seq(Int) /\ Len(Tail(times)) = Len(times) - 1
            /\ \A i \in 1..Len(Tail(times)) : Tail(times)[i] = times[i + 1]
        BY <1>1, <3>6, HeadTailProperties
      <4>2. r < Len(times)
        <5>1. 1 \in DOMAIN times /\ times[1] \in Int /\ times[1] < s
          BY <1>1, <2>1, <3>1, <3>6
        <5> QED BY <1>1, <2>1, <3>2, <5>1 DEF Fresh
      <4> DEFINE rest == Tail(times)
      <4>3. /\ Len(times') = Len(times) /\ times'[Len(times)] = clock
            /\ \A i \in 1..(Len(times) - 1) : times'[i] = times[i + 1]
            /\ DOMAIN times' = 1..Len(times)
        <5> HIDE DEF rest
        <5> QED BY <1>1, <3>6, <4>1 DEF rest
      <4>4. Fresh(times, r + 1, s)'
        <5>1. r + 1 \in 0..Len(times')
          BY <3>2, <4>2, <4>3
        <5>2. ASSUME NEW i \in DOMAIN times', i > Len(times') - (r + 1) PROVE s <= times'[i]
          <6>1. CASE i = Len(times)
            BY <3>1, <4>3, <6>1
          <6>2. CASE i # Len(times)
            <7>1. i \in 1..(Len(times) - 1) /\ i + 1 \in DOMAIN times /\ i + 1 > Len(times) - r
              BY <1>1, <3>2, <4>3, <5>2, <6>2
            <7> QED BY <3>2, <4>3, <7>1 DEF Fresh
          <6> QED BY <6>1, <6>2
        <5> QED BY <5>1, <5>2 DEF Fresh
      <4>5. r + 1 \in 0..Len(times')
        BY <3>2, <4>2, <4>3
      <4> QED BY <3>2, <3>3, <3>6, <4>4, <4>5 DEF QueueKept
    <3>7. CASE times # <<>> /\ clock - times[Len(times)] > KeyExpiration /\ times' = <<>> /\ UNCHANGED admitted
      <4>1. Len(times) \in DOMAIN times /\ times[Len(times)] \in Int /\ times[Len(times)] < s
        BY <1>1, <2>1, <3>1, <3>7
      <4>2. r = 0
        BY <1>1, <2>1, <3>2, <4>1 DEF Fresh
      <4>3. Fresh(times, 0, s)'
        BY <3>7 DEF Fresh
      <4> QED BY <3>2, <3>3, <3>7, <4>2, <4>3 DEF QueueKept
    <3> QED BY <1>2, <3>4, <3>5, <3>6, <3>7 DEF Request, Refuse
  <2> QED BY <1>1, <1>4, <2>2, <2>3, MomentsNext
<1> QED BY <1>3, <1>4

-----------------------------------------------------------------------------
(* The fixed windows. *)

\* A window that ends in the minute is followed by one that does not, unless a
\* Load forgets it.
LEMMA WindowNext ==
    ASSUME LimiterTyped, WindowInv, [LimiterNext]_limVars
    PROVE  WindowInv'
<1> DEFINE most == AtLeast1(limiter.rate)
           before == loads * most
<1> SUFFICES ASSUME limiter.kind = "window"
             PROVE  WindowTyped' /\ \A s \in Moments(Minute)' : WindowKept(s)'
  BY LimiterTypedNext DEF WindowInv
<1>1. /\ HistoryTyped /\ clock \in Nat /\ touched \in 0..clock /\ loads \in Nat /\ limiter.rate \in Nat
      /\ window \in [count : Nat, start : Nat] /\ Minute \in Nat \ {0} /\ limiter' = limiter
      /\ WindowTyped /\ \A s \in Moments(Minute) : WindowKept(s)
  BY LimiterAssumption, LimiterTypedNext
     DEF LimiterTyped, RateTyped, HistoryTyped, StoreTyped, WindowInv
<1>2. most \in Nat /\ 1 <= most /\ limiter.rate <= most /\ before \in Nat
      /\ (1 + loads) * most = before + most
      /\ (1 + (loads + 1)) * most = before + 2 * most /\ (loads + 1) * most = before + most
  <2>1. most \in Nat /\ 1 <= most /\ limiter.rate <= most
    BY <1>1 DEF AtLeast1
  <2> HIDE DEF most
  <2> QED BY <1>1, <2>1, ProductGrows
<1>3. \/ UNCHANGED <<window, touched, admitted, loads>>
      \/ AllowFixedWindow /\ UNCHANGED loads
      \/ /\ Clear /\ window # NoEntry /\ clock - touched > 2 * Minute
         /\ window' = NoEntry /\ UNCHANGED <<touched, admitted, loads>>
      \/ window' = NoEntry /\ loads' = loads + 1 /\ UNCHANGED <<touched, admitted>>
  <2>1. CASE RedisRateLimiter
    BY <2>1 DEF RedisRateLimiter, LLen, LPush, LIndex, LTrim, LimiterTyped, ClientsTyped
  <2>2. CASE Middleware
    BY <2>2 DEF Middleware, Request, CountReserve, AllowTokenBucket, TokenReserve
  <2> QED BY <2>1, <2>2 DEF limVars, LimiterNext, Second, Clear, LoadGroups
<1>4. \/ UNCHANGED <<window, touched, admitted, loads>>
      \/ /\ window = NoEntry \/ clock - window.start >= Minute
         /\ window' = [count |-> 1, start |-> clock] /\ touched' = clock /\ Admit /\ UNCHANGED loads
      \/ /\ window # NoEntry /\ window.count + 1 <= limiter.rate
         /\ window' = [window EXCEPT !.count = @ + 1] /\ touched' = clock /\ Admit /\ UNCHANGED loads
      \/ /\ window # NoEntry /\ clock - touched > 2 * Minute
         /\ window' = NoEntry /\ UNCHANGED <<touched, admitted, loads>>
      \/ window' = NoEntry /\ loads' = loads + 1 /\ UNCHANGED <<touched, admitted>>
  BY <1>3 DEF AllowFixedWindow, Refuse
<1> HIDE DEF before, most
<1>5. WindowTyped'
  BY <1>1, <1>2, <1>4 DEF WindowTyped, NoEntry, most
<1>6. ASSUME NEW s \in Moments(Minute)' PROVE WindowKept(s)'
  <2>1. s \in Int
    BY <1>1, MomentsNext
  <2>2. CASE Second /\ s = clock + 1 /\ From(s)' = 0
    <3>1. window' = window /\ loads' = loads
      BY <2>2 DEF Second
    <3>2. window.count \in Nat /\ window.start \in Nat
      BY <1>1
    <3> QED BY <1>1, <1>2, <2>1, <2>2, <3>1, <3>2 DEF WindowKept, before, most
  <2>3. CASE s \in Moments(Minute)
    <3>1. s <= clock /\ clock - s < Minute
      BY <1>1, <2>3 DEF Moments
    <3>2. /\ From(s) \in Nat
          /\ UNCHANGED admitted => From(s)' = From(s)
          /\ Admit => From(s)' = From(s) + 1
      BY <1>1, <2>1, <3>1, FromIs
    <3>3. /\ window = NoEntry => From(s) <= before + most
          /\ window # NoEntry /\ window.start >= s => From(s) <= before + most + window.count
          /\ window # NoEntry /\ window.start < s => From(s) <= before + window.count
      BY <1>1, <1>2, <2>1, <2>3 DEF WindowKept, before, most
    <3>4. window # NoEntry => 1 <= window.count /\ window.count <= most /\ window.start <= touched
      BY <1>1 DEF WindowTyped, most
    <3>5. window.count \in Nat /\ window.start \in Nat
      BY <1>1
    <3> DEFINE later == loads' * most
    <3>6. /\ loads' = loads => later = before
          /\ loads' = loads + 1 => later = before + most
          /\ (1 + loads') * most = later + most /\ later \in Nat
      BY <1>1, <1>2, <1>4 DEF before
    <3> HIDE DEF later
    <3>7. /\ window' = NoEntry => From(s)' <= later + most
          /\ window' # NoEntry /\ window'.start >= s => From(s)' <= later + most + window'.count
          /\ window' # NoEntry /\ window'.start < s => From(s)' <= later + window'.count
      <4>1. CASE UNCHANGED <<window, touched, admitted, loads>>
        BY <3>2, <3>3, <3>6, <4>1
      <4>2. CASE /\ window = NoEntry \/ clock - window.start >= Minute
                 /\ window' = [count |-> 1, start |-> clock] /\ touched' = clock /\ Admit /\ UNCHANGED loads
        <5>1. From(s) <= before + most
          BY <1>1, <1>2, <2>1, <3>1, <3>2, <3>3, <3>4, <3>5, <4>2
        <5>2. window'.count = 1 /\ window'.start = clock /\ window' # NoEntry
          BY <4>2 DEF NoEntry
        <5> QED BY <1>1, <1>2, <2>1, <3>1, <3>2, <3>6, <4>2, <5>1, <5>2
      <4>3. CASE /\ window # NoEntry /\ window.count + 1 <= limiter.rate
                 /\ window' = [window EXCEPT !.count = @ + 1] /\ touched' = clock /\ Admit /\ UNCHANGED loads
        <5>1. window'.count = window.count + 1 /\ window'.start = window.start /\ window' # NoEntry
          BY <1>1, <4>3 DEF NoEntry
        <5> QED BY <1>2, <2>1, <3>2, <3>3, <3>5, <3>6, <4>3, <5>1
      <4>4. CASE /\ window # NoEntry /\ clock - touched > 2 * Minute
                 /\ window' = NoEntry /\ UNCHANGED <<touched, admitted, loads>>
        <5>1. window.start < s
          BY <1>1, <2>1, <3>1, <3>4, <3>5, <4>4
        <5> QED BY <1>2, <3>2, <3>3, <3>4, <3>5, <3>6, <4>4, <5>1
      <4>5. CASE window' = NoEntry /\ loads' = loads + 1 /\ UNCHANGED <<touched, admitted>>
        BY <1>2, <2>1, <3>2, <3>3, <3>4, <3>5, <3>6, <4>5
      <4> QED BY <1>4, <4>1, <4>2, <4>3, <4>4, <4>5
    <3>8. window' \in [count : Nat, start : Nat]
      BY StoreTypedNext DEF StoreTyped
    <3> QED BY <1>1, <2>1, <3>6, <3>7, <3>8 DEF WindowKept, later, most
  <2> QED BY <1>1, <1>6, <2>2, <2>3, MomentsNext
<1> QED BY <1>5, <1>6

\* With the counting script a key ends with its window, and no Load forgets it.
LEMMA CountNext ==
    ASSUME LimiterTyped, CountInv, [LimiterNext]_limVars
    PROVE  CountInv'
<1> SUFFICES ASSUME limiter.kind = "count"
             PROVE  CountTyped' /\ \A s \in Moments(Minute)' : CountKept(s)'
  BY LimiterTypedNext DEF CountInv
<1>1. /\ HistoryTyped /\ clock \in Nat /\ limiter.rate \in Nat /\ limiter' = limiter
      /\ window \in [count : Nat, start : Nat] /\ Minute \in Nat \ {0}
      /\ CountTyped /\ \A s \in Moments(Minute) : CountKept(s)
  BY LimiterAssumption, LimiterTypedNext
     DEF LimiterTyped, RateTyped, HistoryTyped, StoreTyped, CountInv
<1>2. \/ UNCHANGED <<window, admitted>>
      \/ CountReserve /\ UNCHANGED clock
  <2>1. CASE RedisRateLimiter
    BY <2>1 DEF RedisRateLimiter, LLen, LPush, LIndex, LTrim, LimiterTyped, ClientsTyped
  <2>2. CASE Middleware
    BY <2>2 DEF Middleware, Request, AllowFixedWindow, AllowTokenBucket, TokenReserve
  <2> QED BY <2>1, <2>2 DEF limVars, LimiterNext, Second, Clear, LoadGroups
<1>3. \/ UNCHANGED <<window, admitted>>
      \/ /\ window = NoEntry \/ clock - window.start >= Minute
         /\ window' = [count |-> 1, start |-> clock] /\ UNCHANGED clock
         /\ IF 1 <= limiter.rate THEN Admit ELSE UNCHANGED admitted
      \/ /\ window # NoEntry /\ window' = [window EXCEPT !.count = @ + 1] /\ UNCHANGED clock
         /\ IF window.count + 1 <= limiter.rate THEN Admit ELSE UNCHANGED admitted
  BY <1>1, <1>2 DEF CountReserve, Refuse
<1>4. clock' \in {clock, clock + 1}
  BY DEF limVars, LimiterNext, Second, Middleware, RedisRateLimiter, Clear, LoadGroups
<1>5. CountTyped'
  BY <1>1, <1>3, <1>4 DEF CountTyped, NoEntry
<1>6. ASSUME NEW s \in Moments(Minute)' PROVE CountKept(s)'
  <2>1. s \in Int
    BY <1>1, MomentsNext
  <2>2. CASE Second /\ s = clock + 1 /\ From(s)' = 0
    <3>1. window' = window
      BY <2>2 DEF Second
    <3>2. window.count \in Nat /\ window.start \in Nat
      BY <1>1
    <3> QED BY <1>1, <2>1, <2>2, <3>1, <3>2 DEF CountKept, Least
  <2>3. CASE s \in Moments(Minute)
    <3>1. s <= clock /\ clock - s < Minute
      BY <1>1, <2>3 DEF Moments
    <3>2. /\ From(s) \in Nat
          /\ UNCHANGED admitted => From(s)' = From(s)
          /\ Admit => From(s)' = From(s) + 1
      BY <1>1, <2>1, <3>1, FromIs
    <3>3. /\ window = NoEntry => From(s) <= 0
          /\ window # NoEntry /\ window.start >= s => From(s) <= limiter.rate + Least(window.count, limiter.rate)
          /\ window # NoEntry /\ window.start < s => From(s) <= Least(window.count, limiter.rate)
      BY <1>1, <2>1, <2>3 DEF CountKept
    <3>4. window.count \in Nat /\ window.start \in Nat
      BY <1>1
    <3>5. /\ window' = NoEntry => From(s)' <= 0
          /\ window' # NoEntry /\ window'.start >= s =>
                From(s)' <= limiter.rate + Least(window'.count, limiter.rate)
          /\ window' # NoEntry /\ window'.start < s => From(s)' <= Least(window'.count, limiter.rate)
      <4>1. CASE UNCHANGED <<window, admitted>>
        BY <3>2, <3>3, <4>1
      <4>2. CASE /\ window = NoEntry \/ clock - window.start >= Minute
                 /\ window' = [count |-> 1, start |-> clock]
                 /\ IF 1 <= limiter.rate THEN Admit ELSE UNCHANGED admitted
        <5>1. From(s) <= limiter.rate
          BY <1>1, <2>1, <3>1, <3>2, <3>3, <3>4, <4>2 DEF Least
        <5>2. window'.count = 1 /\ window'.start = clock /\ window' # NoEntry
          BY <4>2 DEF NoEntry
        <5> QED BY <1>1, <2>1, <3>1, <3>2, <4>2, <5>1, <5>2 DEF Least
      <4>3. CASE /\ window # NoEntry /\ window' = [window EXCEPT !.count = @ + 1]
                 /\ IF window.count + 1 <= limiter.rate THEN Admit ELSE UNCHANGED admitted
        <5>1. window'.count = window.count + 1 /\ window'.start = window.start /\ window' # NoEntry
          BY <1>1, <4>3 DEF NoEntry
        <5> QED BY <1>1, <2>1, <3>2, <3>3, <3>4, <4>3, <5>1 DEF Least
      <4> QED BY <1>3, <4>1, <4>2, <4>3
    <3>6. window' \in [count : Nat, start : Nat]
      BY StoreTypedNext DEF StoreTyped
    <3> QED BY <1>1, <2>1, <3>5, <3>6 DEF CountKept
  <2> QED BY <1>1, <1>6, <2>2, <2>3, MomentsNext
<1> QED BY <1>5, <1>6

-----------------------------------------------------------------------------
(* The token buckets. *)

\* A bucket gives what it held and what flowed in; what it throws away when full
\* it does not give, and Clear finds it full again.
LEMMA BucketNext ==
    ASSUME LimiterTyped, BucketInv, [LimiterNext]_limVars
    PROVE  BucketInv'
<1> DEFINE burst == limiter.burst
           rate == limiter.rate
           forgotten == loads * burst
           filled == Least(burst, bucket.tokens + (clock - bucket.last) * rate)
<1> SUFFICES ASSUME limiter.kind = "bucket"
             PROVE  BucketTyped' /\ \A s \in Moments(MaxClock + 1)' : BucketKept(s)'
  BY LimiterTypedNext DEF BucketInv
<1>1. /\ HistoryTyped /\ clock \in Nat /\ touched \in 0..clock /\ loads \in Nat
      /\ rate \in Nat /\ rate > 0 /\ burst \in Nat /\ limiter' = limiter
      /\ bucket \in [tokens : Int, last : Int] /\ MaxClock \in Nat
      /\ BucketTyped /\ \A s \in Moments(MaxClock + 1) : BucketKept(s)
  BY LimiterAssumption, LimiterTypedNext
     DEF LimiterTyped, RateTyped, HistoryTyped, StoreTyped, BucketInv
<1>2. burst = rate * TokenBurstMultiplier /\ TokenBurstMultiplier \in Nat \ {0}
      /\ Minute \in Nat /\ TokenBurstMultiplier <= 2 * Minute
  BY LimiterAssumption DEF LimiterTyped, RateTyped
<1>3. burst >= 1 /\ forgotten \in Nat /\ (1 + loads) * burst = forgotten + burst
      /\ (1 + (loads + 1)) * burst = forgotten + 2 * burst
  <2>1. burst >= 1
    <3>1. rate * 1 <= rate * TokenBurstMultiplier
      BY <1>1, <1>2, ProductGrows
    <3> HIDE DEF rate, burst
    <3> QED BY <1>1, <1>2, <3>1, ProductGrows
  <2> HIDE DEF burst
  <2> QED BY <1>1, <2>1, ProductGrows
<1>4. bucket # NoBucket =>
         /\ 0 <= bucket.tokens /\ bucket.tokens <= burst /\ touched <= bucket.last /\ bucket.last <= clock
         /\ filled \in Int /\ 0 <= filled /\ filled <= burst
         /\ filled <= bucket.tokens + rate * (clock - bucket.last)
  <2> SUFFICES ASSUME bucket # NoBucket
               PROVE  /\ 0 <= bucket.tokens /\ bucket.tokens <= burst /\ touched <= bucket.last
                      /\ bucket.last <= clock
                      /\ filled \in Int /\ 0 <= filled /\ filled <= burst
                      /\ filled <= bucket.tokens + rate * (clock - bucket.last)
    OBVIOUS
  <2>1. 0 <= bucket.tokens /\ bucket.tokens <= burst /\ touched <= bucket.last /\ bucket.last <= clock
    BY <1>1 DEF BucketTyped
  <2>2. bucket.last \in Int /\ bucket.tokens \in Int
    BY <1>1
  <2> DEFINE d == clock - bucket.last
             flow == d * rate
  <2>3. d \in Nat
    BY <1>1, <2>1, <2>2
  <2>4. flow \in Nat /\ flow = rate * d
    <3> HIDE DEF d, rate
    <3> QED BY <1>1, <2>3, ProductGrows
  <2> HIDE DEF flow, burst
  <2>5. filled = IF burst < bucket.tokens + flow THEN burst ELSE bucket.tokens + flow
    BY DEF Least, flow, burst
  <2> HIDE DEF filled
  <2>6. filled \in Int /\ 0 <= filled /\ filled <= burst /\ filled <= bucket.tokens + flow
    BY <1>1, <2>1, <2>2, <2>4, <2>5
  <2> QED BY <2>1, <2>4, <2>6
<1>5. \/ UNCHANGED <<bucket, touched, admitted, loads>>
      \/ AllowTokenBucket /\ UNCHANGED <<clock, loads>>
      \/ /\ bucket # NoBucket /\ clock - touched > 2 * Minute
         /\ bucket' = NoBucket /\ UNCHANGED <<clock, touched, admitted, loads>>
      \/ bucket' = NoBucket /\ loads' = loads + 1 /\ UNCHANGED <<clock, touched, admitted>>
  <2>1. CASE RedisRateLimiter
    BY <2>1 DEF RedisRateLimiter, LLen, LPush, LIndex, LTrim, LimiterTyped, ClientsTyped
  <2>2. CASE Middleware
    BY <2>2 DEF Middleware, Request, CountReserve, AllowFixedWindow, TokenReserve
  <2> QED BY <2>1, <2>2 DEF limVars, LimiterNext, Second, Clear, LoadGroups
<1> DEFINE Kept == UNCHANGED <<bucket, touched, admitted, loads>>
           Opens == /\ bucket = NoBucket /\ bucket' = [tokens |-> burst - 1, last |-> clock]
                    /\ touched' = clock /\ Admit /\ UNCHANGED <<clock, loads>>
           Draws == /\ bucket # NoBucket /\ filled >= 1
                    /\ bucket' = [tokens |-> filled - 1, last |-> clock]
                    /\ touched' = clock /\ Admit /\ UNCHANGED <<clock, loads>>
           Refused == /\ bucket # NoBucket /\ filled < 1
                      /\ bucket' = [tokens |-> filled, last |-> clock]
                      /\ UNCHANGED <<clock, touched, admitted, loads>>
           Cleared == /\ bucket # NoBucket /\ clock - touched > 2 * Minute
                      /\ bucket' = NoBucket /\ UNCHANGED <<clock, touched, admitted, loads>>
           Loaded == bucket' = NoBucket /\ loads' = loads + 1 /\ UNCHANGED <<clock, touched, admitted>>
<1>6. Kept \/ Opens \/ Draws \/ Refused \/ Cleared \/ Loaded
  <2>1. CASE AllowTokenBucket /\ UNCHANGED <<clock, loads>>
    <3> DEFINE f == filled
    <3>1. \/ /\ bucket = NoBucket
             /\ bucket' = [tokens |-> burst - 1, last |-> clock] /\ touched' = clock /\ Admit
          \/ /\ bucket # NoBucket /\ f >= 1
             /\ bucket' = [tokens |-> f - 1, last |-> clock] /\ touched' = clock /\ Admit
          \/ /\ bucket # NoBucket /\ ~(f >= 1)
             /\ bucket' = [tokens |-> f, last |-> clock] /\ UNCHANGED touched /\ Refuse
      BY <2>1, Zenon DEF AllowTokenBucket
    <3>2. bucket # NoBucket => f \in Int
      BY <1>4
    <3> HIDE DEF f
    <3>3. bucket # NoBucket /\ ~(f >= 1) => f < 1
      BY <3>2
    <3> QED BY <2>1, <3>1, <3>3 DEF f, Refuse
  <2> QED BY <1>5, <2>1
<1>7. clock' \in {clock, clock + 1}
  BY DEF limVars, LimiterNext, Second, Middleware, RedisRateLimiter, Clear, LoadGroups
<1> HIDE DEF burst, rate, forgotten, filled
<1>8. BucketTyped'
  <2>1. CASE Kept \/ Cleared \/ Loaded
    BY <1>1, <1>4, <1>7, <2>1 DEF BucketTyped, burst
  <2>2. CASE Opens \/ Draws \/ Refused
    BY <1>1, <1>3, <1>4, <2>2 DEF BucketTyped, burst
  <2> QED BY <1>6, <2>1, <2>2
<1>9. ASSUME NEW s \in Moments(MaxClock + 1)' PROVE BucketKept(s)'
  <2>1. s \in Int
    BY <1>1, MomentsNext
  <2> DEFINE F(x) == rate * (x - s)
             later == loads' * burst
             here == clock
             end == bucket.last
  <2>2. /\ \A x, y \in Int : F(y) - F(x) = rate * (y - x)
        /\ F(s) = 0
    BY <1>1, <2>1, ProductGrows
  <2>6. \A x, y \in Int : F(x) \in Int /\ (x <= y => F(x) <= F(y))
    BY <1>1, <2>1, ProductGrows
  <2>3. /\ loads' = loads => later = forgotten
        /\ loads' = loads + 1 => later = forgotten + burst
        /\ (1 + loads') * burst = later + burst /\ later \in Nat
    <3>1. later = forgotten \/ (loads' = loads + 1 /\ later = forgotten + burst)
      BY <1>1, <1>3, <1>6, ProductGrows DEF forgotten
    <3>2. loads' = loads => later = forgotten
      BY DEF forgotten
    <3>3. loads' = loads + 1 => later = forgotten + burst
      BY <1>1, <1>3, ProductGrows DEF forgotten
    <3>4. loads' \in Nat
      BY <1>1, <1>6
    <3>5. (1 + loads') * burst = later + burst
      BY <1>1, <3>4, ProductGrows
    <3> HIDE DEF later
    <3>6. later \in Nat
      BY <1>1, <1>3, <3>1
    <3> QED BY <3>2, <3>3, <3>5, <3>6
  <2>4. CASE Second /\ s = clock + 1 /\ From(s)' = 0
    <3>1. clock' = s
      BY <2>4 DEF Second
    <3>2. bucket' = NoBucket => From(s)' <= later + F(clock')
      BY <2>2, <2>3, <2>4, <3>1
    <3> QED BY <1>1, <2>4, <3>2 DEF BucketKept, burst, rate
  <2>5. CASE s \in Moments(MaxClock + 1)
    <3>1. s <= clock
      BY <1>1, <2>5 DEF Moments
    <3>2. /\ From(s) \in Nat
          /\ UNCHANGED admitted => From(s)' = From(s)
          /\ Admit => From(s)' = From(s) + 1
      BY <1>1, <2>1, <3>1, FromIs
    <3>3. IF bucket = NoBucket THEN From(s) <= forgotten + F(clock)
          ELSE \/ From(s) = 0
               \/ /\ From(s) + bucket.tokens <= forgotten + burst + F(bucket.last)
                  /\ From(s) <= forgotten + burst + F(touched)
      BY <1>1, <1>3, <2>5 DEF BucketKept, burst, rate, forgotten
    <3> SUFFICES IF bucket' = NoBucket THEN From(s)' <= later + F(clock')
                 ELSE \/ From(s)' = 0
                      \/ /\ From(s)' + bucket'.tokens <= later + burst + F(bucket'.last)
                         /\ From(s)' <= later + burst + F(touched')
      BY <1>1, <2>3 DEF BucketKept, burst, rate
    <3>4. F(clock) \in Int /\ F(clock) >= 0 /\ F(touched) \in Int /\ F(touched) <= F(clock)
          /\ F(clock') \in Int /\ F(clock) <= F(clock')
      <4>1. clock \in Int /\ clock' \in Int /\ touched \in Int /\ s <= clock /\ touched <= clock
            /\ clock <= clock'
        BY <1>1, <1>7, <3>1
      <4> HIDE DEF F
      <4>2. 0 <= F(clock)
        BY <2>1, <2>2, <2>6, <4>1
      <4> QED BY <2>6, <4>1, <4>2
    <3>5. bucket # NoBucket => /\ F(bucket.last) \in Int /\ F(bucket.last) <= F(clock)
                               /\ F(clock) - F(bucket.last) = rate * (clock - bucket.last)
      <4> SUFFICES ASSUME bucket # NoBucket
                   PROVE  /\ F(bucket.last) \in Int /\ F(bucket.last) <= F(clock)
                          /\ F(clock) - F(bucket.last) = rate * (clock - bucket.last)
        OBVIOUS
      <4>1. bucket.last \in Int /\ bucket.last <= clock /\ clock \in Int
        BY <1>1, <1>4
      <4> HIDE DEF F
      <4>2. F(clock) - F(bucket.last) = rate * (clock - bucket.last)
        BY <2>2, <4>1, Zenon
      <4> QED BY <2>6, <4>1, <4>2
    <3>6. CASE Kept
      <4> HIDE DEF F, later
      <4> QED BY <1>3, <2>3, <3>2, <3>3, <3>4, <3>6
    <3>7. CASE Opens
      <4>1. bucket' # NoBucket /\ bucket'.tokens = burst - 1 /\ bucket'.last = clock
        BY <1>1, <1>3, <3>7 DEF NoBucket
      <4> HIDE DEF F, later
      <4> QED BY <1>1, <1>3, <2>3, <3>2, <3>3, <3>4, <3>7, <4>1
    <3>8. CASE Draws
      <4>1. bucket' # NoBucket /\ bucket'.tokens = filled - 1 /\ bucket'.last = clock
        BY <1>1, <1>4, <3>8 DEF NoBucket
      <4>2. bucket.tokens \in Int
        BY <1>1
      <4>3. CASE From(s) = 0
        <5> HIDE DEF F, later
        <5> QED BY <1>1, <1>3, <1>4, <2>3, <3>2, <3>4, <3>8, <4>1, <4>3
      <4>4. CASE From(s) # 0
        <5>1. /\ From(s) + bucket.tokens <= forgotten + burst + F(bucket.last)
              /\ From(s) <= forgotten + burst + F(touched)
          BY <3>3, <3>8, <4>4
        <5>2. filled <= bucket.tokens + (F(clock) - F(bucket.last))
          BY <1>4, <3>5, <3>8
        <5> HIDE DEF F, later
        <5> QED BY <1>1, <1>3, <1>4, <2>3, <3>2, <3>4, <3>5, <3>8, <4>1, <4>2, <5>1, <5>2
      <4> QED BY <4>3, <4>4
    <3>9. CASE Refused
      <4>1. bucket' # NoBucket /\ bucket'.tokens = filled /\ bucket'.last = clock
        BY <1>1, <1>4, <3>9 DEF NoBucket
      <4>2. bucket.tokens \in Int
        BY <1>1
      <4>3. CASE From(s) # 0
        <5>1. /\ From(s) + bucket.tokens <= forgotten + burst + F(bucket.last)
              /\ From(s) <= forgotten + burst + F(touched)
          BY <3>3, <3>9, <4>3
        <5>2. filled <= bucket.tokens + (F(clock) - F(bucket.last))
          BY <1>4, <3>5, <3>9
        <5> HIDE DEF F, later
        <5> QED BY <1>1, <1>3, <1>4, <2>3, <3>2, <3>4, <3>5, <3>9, <4>1, <4>2, <5>1, <5>2
      <4> QED BY <3>2, <3>9, <4>1, <4>3
    <3>10. CASE Cleared
      <4>1. burst <= F(clock) - F(touched)
        <5>1. rate * TokenBurstMultiplier <= rate * (clock - touched)
          BY <1>1, <1>2, <3>10, ProductGrows
        <5>2. F(clock) - F(touched) = rate * (clock - touched)
          <6> HIDE DEF F
          <6> QED BY <1>1, <2>2
        <5> HIDE DEF F
        <5> QED BY <1>2, <5>1, <5>2 DEF rate, burst
      <4> HIDE DEF F, later
      <4>2. From(s) <= forgotten + F(clock)
        BY <1>1, <1>3, <3>2, <3>3, <3>4, <3>10, <4>1
      <4> QED BY <2>3, <3>2, <3>10, <4>2
    <3>11. CASE Loaded
      <4> HIDE DEF F, later
      <4>1. From(s) <= forgotten + burst + F(clock)
        <5>1. CASE bucket = NoBucket
          BY <1>1, <1>3, <3>2, <3>3, <3>4, <5>1
        <5>2. CASE bucket # NoBucket
          BY <1>1, <1>3, <3>2, <3>3, <3>4, <5>2
        <5> QED BY <5>1, <5>2
      <4> QED BY <1>1, <1>3, <2>3, <3>2, <3>4, <3>11, <4>1
    <3> QED BY <1>6, <3>6, <3>7, <3>8, <3>9, <3>10, <3>11
  <2> QED BY <1>1, <1>9, <2>4, <2>5, MomentsNext
<1> QED BY <1>8, <1>9

\* A key of the scripts lives long enough for its bucket to fill.
LEMMA TtlFills ==
    ASSUME NEW burst \in Nat, NEW rate \in Nat, rate > 0, rate <= burst
    PROVE  /\ (burst * 2) \div rate \in Nat
           /\ burst <= rate * ((burst * 2) \div rate)
<1> DEFINE n == burst * 2
           q == n \div rate
<1>1. n \in Nat /\ n = burst + burst
  OBVIOUS
<1> HIDE DEF n
<1>2. q \in Nat /\ n < rate * q + rate
  BY <1>1
<1>3. rate * q \in Int
  BY <1>2, ProductGrows
<1> HIDE DEF q
<1>4. burst <= rate * q
  BY <1>1, <1>2, <1>3
<1> QED BY <1>2, <1>4 DEF q, n

\* The same with the scripts, but for the times that are stored: each time that
\* one lies before the last, the time between them flows in again.
LEMMA TokensNext ==
    ASSUME LimiterTyped, TokensInv, [LimiterNext]_limVars
    PROVE  TokensInv'
<1> DEFINE burst == limiter.burst
           rate == limiter.rate
           ttl == (burst * 2) \div rate
           alive == bucket # NoBucket /\ clock - touched < ttl
           delta(c) == IF ClockOf(c) > bucket.last THEN ClockOf(c) - bucket.last ELSE 0
           filled(c) == IF alive THEN Least(burst, bucket.tokens + delta(c) * rate) ELSE burst
<1> SUFFICES ASSUME limiter.kind = "tokens"
             PROVE  TokensTyped' /\ \A s \in Moments(MaxClock + 1)' : TokensKept(s)'
  BY LimiterTypedNext DEF TokensInv
<1>1. /\ HistoryTyped /\ clock \in Nat /\ touched \in 0..clock /\ regress \in Nat
      /\ rate \in Nat /\ rate > 0 /\ burst \in Nat /\ rate <= burst /\ limiter' = limiter
      /\ bucket \in [tokens : Int, last : Int] /\ MaxClock \in Nat
      /\ TokensTyped /\ \A s \in Moments(MaxClock + 1) : TokensKept(s)
  BY LimiterAssumption, LimiterTypedNext
     DEF LimiterTyped, RateTyped, HistoryTyped, StoreTyped, TokensInv
<1>2. ttl \in Nat /\ burst <= rate * ttl
  BY <1>1, TtlFills
<1>3. \/ UNCHANGED <<bucket, touched, admitted, regress>>
      \/ \E c \in Clients : TokenReserve(c) /\ UNCHANGED clock
  <2>1. CASE RedisRateLimiter
    BY <2>1 DEF RedisRateLimiter, LLen, LPush, LIndex, LTrim, LimiterTyped, ClientsTyped
  <2>2. CASE Middleware
    BY <2>2 DEF Middleware, Request, CountReserve, AllowFixedWindow, AllowTokenBucket
  <2> QED BY <2>1, <2>2 DEF limVars, LimiterNext, Second, Clear, LoadGroups
<1>4. ASSUME NEW c \in Clients, TokenReserve(c)
      PROVE  /\ bucket' = [tokens |-> IF filled(c) >= 1 THEN filled(c) - 1 ELSE filled(c), last |-> ClockOf(c)]
             /\ IF filled(c) >= 1 THEN Admit ELSE UNCHANGED admitted
             /\ regress' = IF IF alive THEN ClockOf(c) < bucket.last
                                       ELSE bucket # NoBucket /\ ClockOf(c) < clock
                           THEN regress + 1 ELSE regress
             /\ touched' = clock
  BY <1>4, Zenon DEF TokenReserve, Refuse
<1>5. ASSUME NEW c \in Clients
      PROVE  /\ filled(c) \in Int /\ 0 <= filled(c) /\ filled(c) <= burst
             /\ alive => filled(c) <= bucket.tokens + rate * delta(c)
             /\ ~alive => filled(c) = burst
             /\ delta(c) \in Nat
  <2>1. ClockOf(c) \in Int /\ bucket.last \in Int /\ bucket.tokens \in Int
    BY <1>1, TimesTyped
  <2> DEFINE d == delta(c)
             flow == d * rate
  <2>2. d \in Nat
    BY <2>1
  <2>3. flow \in Nat /\ flow = rate * d
    <3> HIDE DEF d, rate
    <3> QED BY <1>1, <2>2, ProductGrows
  <2>4. CASE alive
    <3>1. 0 <= bucket.tokens
      BY <1>1, <2>4 DEF TokensTyped
    <3> HIDE DEF flow, burst
    <3>2. filled(c) = IF burst < bucket.tokens + flow THEN burst ELSE bucket.tokens + flow
      BY <2>4 DEF Least, flow, burst
    <3> DEFINE f == filled(c)
    <3> HIDE DEF f
    <3>3. f = IF burst < bucket.tokens + flow THEN burst ELSE bucket.tokens + flow
      BY <3>2 DEF f
    <3>4. f \in Int /\ 0 <= f /\ f <= burst /\ f <= bucket.tokens + flow
      BY <1>1, <2>1, <2>3, <3>1, <3>3
    <3> QED BY <2>2, <2>3, <2>4, <3>4 DEF f
  <2>5. CASE ~alive
    <3>1. filled(c) = burst
      BY <2>5
    <3> HIDE DEF burst
    <3> QED BY <1>1, <2>2, <2>5, <3>1
  <2> QED BY <2>4, <2>5
<1> HIDE DEF burst, rate, ttl, filled, delta
<1>6. TokensTyped'
  <2>1. CASE UNCHANGED <<bucket, touched, admitted, regress>>
    BY <1>1, <2>1 DEF TokensTyped
  <2>2. ASSUME NEW c \in Clients, TokenReserve(c), UNCHANGED clock PROVE TokensTyped'
    <3>1. ClockOf(c) \in Int /\ ClockOf(c) <= clock
      BY TimesTyped
    <3>2. touched' = clock /\ bucket'.last = ClockOf(c)
          /\ bucket'.tokens = IF filled(c) >= 1 THEN filled(c) - 1 ELSE filled(c)
      BY <1>4, <2>2
    <3> QED BY <1>1, <1>5, <3>1, <3>2 DEF TokensTyped, burst
  <2> QED BY <1>3, <2>1, <2>2
<1>7. ASSUME NEW s \in Moments(MaxClock + 1)' PROVE TokensKept(s)'
  <2>1. s \in Int
    BY <1>1, MomentsNext
  <2>2. CASE Second /\ s = clock + 1 /\ From(s)' = 0
    BY <2>2 DEF TokensKept
  <2>3. CASE s \in Moments(MaxClock + 1)
    <3>1. s <= clock
      BY <1>1, <2>3 DEF Moments
    <3>2. /\ From(s) \in Nat
          /\ UNCHANGED admitted => From(s)' = From(s)
          /\ Admit => From(s)' = From(s) + 1
      BY <1>1, <2>1, <3>1, FromIs
    <3>3. \/ From(s) = 0
          \/ /\ bucket # NoBucket
             /\ From(s) + bucket.tokens <= burst + rate * (bucket.last - s + MaxBehind * (1 + regress))
      BY <1>1, <2>3 DEF TokensKept, burst, rate
    <3>4. CASE UNCHANGED <<bucket, touched, admitted, regress>>
      BY <1>1, <3>2, <3>3, <3>4 DEF TokensKept, burst, rate
    <3>5. ASSUME NEW c \in Clients, TokenReserve(c), UNCHANGED clock PROVE TokensKept(s)'
      <4> DEFINE before == bucket.last - s + MaxBehind * (1 + regress)
                 after == ClockOf(c) - s + MaxBehind * (1 + regress')
                 lag == MaxBehind * (1 + regress)
                 lag2 == MaxBehind * (1 + regress')
                 f == filled(c)
      <4>1. ClockOf(c) \in Int /\ ClockOf(c) <= clock /\ clock - MaxBehind <= ClockOf(c) /\ MaxBehind \in Nat
            /\ bucket.last \in Int /\ bucket.tokens \in Int
        BY <1>1, TimesTyped, MaxBehindIs
      <4>2. lag \in Nat /\ lag >= MaxBehind /\ lag2 \in Nat /\ lag2 >= MaxBehind
            /\ (regress' = regress => lag2 = lag) /\ (regress' = regress + 1 => lag2 = lag + MaxBehind)
        <5>1. regress' = regress \/ regress' = regress + 1
          BY <1>4, <3>5
        <5> DEFINE a == 1 + regress
                   b == 1 + regress'
        <5>2. a \in Nat /\ a >= 1 /\ b \in Nat /\ b >= 1
              /\ (regress' = regress => b = a) /\ (regress' = regress + 1 => b = a + 1)
          <6>1. regress \in Nat
            BY <1>1
          <6> HIDE DEF lag, lag2, before, after, f
          <6> QED BY <5>1, <6>1
        <5>3. lag = MaxBehind * a /\ lag2 = MaxBehind * b
          OBVIOUS
        <5> HIDE DEF a, b, lag, lag2
        <5>4. MaxBehind * 1 <= MaxBehind * a /\ MaxBehind * 1 <= MaxBehind * b
              /\ MaxBehind * a \in Nat /\ MaxBehind * b \in Nat /\ MaxBehind * 1 = MaxBehind
              /\ MaxBehind * (a + 1) = MaxBehind * a + MaxBehind * 1
          BY <4>1, <5>2, ProductGrows
        <5> QED BY <4>1, <5>2, <5>3, <5>4
      <4> HIDE DEF lag, lag2
      <4>3. before \in Int /\ after \in Int /\ after >= 0
        BY <2>1, <3>1, <4>1, <4>2, <1>1 DEF lag, lag2
      <4>4. /\ rate * before \in Int /\ rate * after \in Int /\ rate * after >= 0
        <5> HIDE DEF before, after
        <5> QED BY <1>1, <4>3, ProductGrows
      <4>5. From(s) # 0 => From(s) + f <= burst + rate * after
        <5> SUFFICES ASSUME From(s) # 0 PROVE From(s) + f <= burst + rate * after
          OBVIOUS
        <5>1. bucket # NoBucket /\ From(s) + bucket.tokens <= burst + rate * before
          BY <3>3
        <5>2. 0 <= bucket.tokens /\ bucket.last <= touched
          BY <1>1, <5>1 DEF TokensTyped
        <5>3. CASE alive
          <6>1. before + delta(c) <= after
            <7>1. CASE ClockOf(c) > bucket.last
              <8>1. delta(c) = ClockOf(c) - bucket.last /\ regress' = regress
                BY <1>4, <3>5, <4>1, <5>3, <7>1 DEF delta
              <8> QED BY <2>1, <4>1, <4>2, <8>1 DEF lag, lag2
            <7>2. CASE ~(ClockOf(c) > bucket.last)
              <8>1. delta(c) = 0
                BY <7>2 DEF delta
              <8>2. CASE ClockOf(c) = bucket.last
                <9>1. regress' = regress
                  BY <1>4, <3>5, <4>1, <5>3, <8>2
                <9> QED BY <2>1, <4>1, <4>2, <8>1, <8>2, <9>1 DEF lag, lag2
              <8>3. CASE ClockOf(c) < bucket.last
                <9>1. regress' = regress + 1
                  BY <1>4, <3>5, <5>3, <8>3
                <9> QED BY <1>1, <2>1, <4>1, <4>2, <5>2, <8>1, <8>3, <9>1 DEF lag, lag2
              <8> QED BY <4>1, <7>2, <8>2, <8>3
            <7> QED BY <7>1, <7>2
          <6>2. delta(c) \in Nat /\ f \in Int /\ f <= bucket.tokens + rate * delta(c)
            BY <1>5, <5>3
          <6> HIDE DEF before, after, f
          <6>3. rate * before + rate * delta(c) <= rate * after
            BY <1>1, <4>3, <6>1, <6>2, ProductGrows
          <6>4. rate * delta(c) \in Int
            BY <1>1, <6>2, ProductGrows
          <6> QED BY <1>1, <3>2, <4>1, <4>4, <5>1, <6>2, <6>3, <6>4
        <5>4. CASE ~alive
          <6>1. clock - touched >= ttl
            BY <1>1, <1>2, <5>1, <5>4
          <6>2. before + ttl <= after
            <7>1. CASE ClockOf(c) < clock
              <8>1. regress' = regress + 1
                BY <1>4, <3>5, <5>1, <5>4, <7>1
              <8> QED BY <1>1, <1>2, <2>1, <4>1, <4>2, <5>2, <6>1, <8>1 DEF lag, lag2
            <7>2. CASE ClockOf(c) = clock
              <8>1. regress' = regress
                BY <1>1, <1>4, <3>5, <5>1, <5>4, <7>2
              <8> QED BY <1>1, <1>2, <2>1, <4>1, <4>2, <5>2, <6>1, <7>2, <8>1 DEF lag, lag2
            <7> QED BY <1>1, <4>1, <7>1, <7>2
          <6>3. f = burst
            BY <1>5, <5>4
          <6> HIDE DEF before, after, f, alive
          <6>4. rate * before + rate * ttl <= rate * after
            BY <1>1, <1>2, <4>3, <6>2, ProductGrows
          <6>5. rate * ttl \in Int
            BY <1>1, <1>2, ProductGrows
          <6> QED BY <1>1, <1>2, <3>2, <4>1, <4>4, <5>1, <5>2, <6>3, <6>4, <6>5
        <5> QED BY <5>3, <5>4
      <4>6. /\ f \in Int /\ f <= burst /\ 0 <= f
            /\ bucket'.tokens = IF f >= 1 THEN f - 1 ELSE f
            /\ bucket'.last = ClockOf(c)
            /\ IF f >= 1 THEN Admit ELSE UNCHANGED admitted
        BY <1>4, <1>5, <3>5
      <4>7. bucket' # NoBucket
        BY <4>6 DEF NoBucket
      <4> HIDE DEF before, after, f
      <4>8. From(s)' = 0 \/ From(s)' + bucket'.tokens <= burst + rate * after
        BY <1>1, <3>2, <4>4, <4>5, <4>6
      <4> QED BY <1>1, <4>6, <4>7, <4>8 DEF TokensKept, after, burst, rate
    <3> QED BY <1>3, <3>4, <3>5
  <2> QED BY <1>1, <1>7, <2>2, <2>3, MomentsNext
<1> QED BY <1>6, <1>7

-----------------------------------------------------------------------------
(* The list. *)

\* A new time at the end is one more.
LEMMA FreshAppend ==
    ASSUME NEW q \in Seq(Int), NEW r, NEW s \in Int, NEW x \in Int, Fresh(q, r, s), s <= x
    PROVE  Fresh(Append(q, x), r + 1, s)
<1>1. r \in 0..Len(q) /\ \A i \in DOMAIN q : i > Len(q) - r => s <= q[i]
  BY DEF Fresh
<1>2. Len(Append(q, x)) = Len(q) + 1 /\ DOMAIN Append(q, x) = 1..(Len(q) + 1)
      /\ Append(q, x)[Len(q) + 1] = x /\ \A i \in 1..Len(q) : Append(q, x)[i] = q[i]
  OBVIOUS
<1>3. ASSUME NEW i \in 1..(Len(q) + 1), i > Len(q) + 1 - (r + 1) PROVE s <= Append(q, x)[i]
  <2>1. CASE i = Len(q) + 1
    BY <1>2, <2>1
  <2>2. CASE i # Len(q) + 1
    <3>1. i \in DOMAIN q /\ i > Len(q) - r
      BY <1>1, <1>3, <2>2
    <3> QED BY <1>1, <1>2, <3>1
  <2> QED BY <2>1, <2>2
<1> QED BY <1>1, <1>2, <1>3 DEF Fresh

\* A part of the new times is new.
LEMMA FreshFewer ==
    ASSUME NEW q \in Seq(Int), NEW r, NEW s \in Int, Fresh(q, r, s), NEW n \in 0..r
    PROVE  Fresh(q, n, s)
BY DEF Fresh

\* LTrim cuts older times first.
LEMMA FreshTrim ==
    ASSUME NEW q \in Seq(Int), NEW r, NEW s \in Int, Fresh(q, r, s), NEW n \in Nat, r <= n, n < Len(q)
    PROVE  /\ Len(SubSeq(q, Len(q) - n + 1, Len(q))) = n
           /\ Fresh(SubSeq(q, Len(q) - n + 1, Len(q)), r, s)
<1> DEFINE cut == SubSeq(q, Len(q) - n + 1, Len(q))
<1>1. \A i \in (Len(q) - n + 1)..Len(q) : q[i] \in Int
  OBVIOUS
<1>2. /\ cut \in Seq(Int) /\ Len(cut) = n
      /\ \A i \in 1..n : cut[i] = q[Len(q) - n + i]
  <2>1. /\ cut \in Seq(Int)
        /\ Len(cut) = IF Len(q) - n + 1 <= Len(q) THEN Len(q) - (Len(q) - n + 1) + 1 ELSE 0
        /\ \A i \in 1..(Len(q) - (Len(q) - n + 1) + 1) : cut[i] = q[(Len(q) - n + 1) + i - 1]
    <3> DEFINE l == Len(q)
               m == Len(q) - n + 1
    <3>1. l \in Int /\ m \in Int
      OBVIOUS
    <3>2. \A i \in m..l : q[i] \in Int
      BY <1>1
    <3>3. cut = SubSeq(q, m, l)
      OBVIOUS
    <3> HIDE DEF l, m, cut
    <3>4. /\ cut \in Seq(Int) /\ Len(cut) = IF m <= l THEN l - m + 1 ELSE 0
          /\ \A i \in 1..(l - m + 1) : cut[i] = q[m + i - 1]
      BY <3>1, <3>2, <3>3, SubSeqProperties
    <3> QED BY <3>4 DEF l, m
  <2>2. Len(cut) = n
    <3> HIDE DEF cut
    <3> QED BY <2>1
  <2>3. ASSUME NEW i \in 1..n PROVE cut[i] = q[Len(q) - n + i]
    <3> DEFINE l == Len(q)
    <3>1. l \in Nat
      OBVIOUS
    <3> HIDE DEF cut, l
    <3>2. i \in 1..(l - (l - n + 1) + 1) /\ (l - n + 1) + i - 1 = l - n + i
      BY <2>3, <3>1
    <3> QED BY <2>1, <3>2 DEF l
  <2> QED BY <2>1, <2>2, <2>3
<1> HIDE DEF cut
<1>3. r \in 0..n /\ DOMAIN cut = 1..n
  BY <1>2 DEF Fresh
<1>4. ASSUME NEW i \in 1..n, i > n - r PROVE s <= cut[i]
  <2>1. Len(q) - n + i \in DOMAIN q /\ Len(q) - n + i > Len(q) - r
    BY <1>3, <1>4
  <2> QED BY <1>2, <2>1 DEF Fresh
<1> QED BY <1>2, <1>3, <1>4 DEF Fresh, cut

\* A client goes from one label to another.
LEMMA AtMoves ==
    ASSUME ClientsTyped, NEW c \in Clients, NEW label, client' = [client EXCEPT ![c] = label], NEW labels
    PROVE  Cardinality(At(labels)') = Cardinality(At(labels)) + (IF label \in labels THEN 1 ELSE 0)
                                      - (IF client[c] \in labels THEN 1 ELSE 0)
<1> DEFINE rest == At(labels) \ {c}
<1>1. IsFiniteSet(At(labels)) /\ Cardinality(At(labels)) \in Nat
  BY AtTyped
<1>2. IsFiniteSet(rest) /\ c \notin rest
  BY <1>1, FS_Subset
<1>3. Cardinality(rest) \in Nat /\ Cardinality(rest \cup {c}) = Cardinality(rest) + 1
  BY <1>2, FS_CardinalityType, FS_AddElement
<1>4. \A d \in Clients : client'[d] = IF d = c THEN label ELSE client[d]
  BY DEF ClientsTyped
<1>5. At(labels)' = IF label \in labels THEN rest \cup {c} ELSE rest
  BY <1>4 DEF At, Located
<1>6. At(labels) = IF client[c] \in labels THEN rest \cup {c} ELSE rest
  BY DEF At, Located
<1> DEFINE n == Cardinality(rest)
<1>7. Cardinality(At(labels)') = n + (IF label \in labels THEN 1 ELSE 0)
  <2> HIDE DEF rest
  <2> QED BY <1>3, <1>5
<1>8. Cardinality(At(labels)) = n + (IF client[c] \in labels THEN 1 ELSE 0)
  <2> HIDE DEF rest
  <2> QED BY <1>3, <1>6
<1>9. n \in Nat
  BY <1>3
<1> HIDE DEF n
<1> QED BY <1>7, <1>8, <1>9

\* The labels share the clients among them.
LEMMA AtApart ==
    /\ Cardinality(At({"push", "replace"})) = Cardinality(At({"push"})) + Cardinality(At({"replace"}))
    /\ Cardinality(At({"replace"})) + Cardinality(At({"trim"})) <= Cardinality(Clients)
<1>1. ASSUME NEW A, NEW B, A \cap B = {}
      PROVE  /\ Cardinality(At(A \cup B)) = Cardinality(At(A)) + Cardinality(At(B))
             /\ Cardinality(At(A)) + Cardinality(At(B)) <= Cardinality(Clients)
  <2> DEFINE a == At(A)
             b == At(B)
  <2>1. At(A \cup B) = a \cup b /\ a \cap b = {} /\ a \cup b \subseteq Clients
    BY <1>1 DEF At, Located
  <2>2. IsFiniteSet(a) /\ IsFiniteSet(b)
    BY AtTyped
  <2> HIDE DEF a, b
  <2>3. Cardinality(a \cup b) = Cardinality(a) + Cardinality(b)
    <3>1. Cardinality(a \cap b) = 0
      BY <2>1, FS_EmptySet
    <3>2. Cardinality(a) \in Nat /\ Cardinality(b) \in Nat
      BY <2>2, FS_CardinalityType
    <3>3. Cardinality(a \cup b) = Cardinality(a) + Cardinality(b) - Cardinality(a \cap b)
      BY <2>2, FS_Union
    <3> QED BY <3>1, <3>2, <3>3
  <2>4. Cardinality(a \cup b) <= Cardinality(Clients)
    BY <2>1, LimiterAssumption, FS_Subset
  <2> QED BY <2>1, <2>3, <2>4 DEF a, b
<1>2. {"push"} \cup {"replace"} = {"push", "replace"} /\ {"push"} \cap {"replace"} = {}
      /\ {"replace"} \cap {"trim"} = {}
  OBVIOUS
<1>3. Cardinality(At({"push"} \cup {"replace"})) = Cardinality(At({"push"})) + Cardinality(At({"replace"}))
  BY <1>1, <1>2, Zenon
<1>4. Cardinality(At({"replace"})) + Cardinality(At({"trim"})) <= Cardinality(Clients)
  BY <1>1, <1>2, Zenon
<1> QED BY <1>2, <1>3, <1>4

\* Whoever is at no label of some leaves one client less for them.
LEMMA AtMost ==
    ASSUME NEW f, NEW labels, NEW c \in Clients, f[c] \notin labels
    PROVE  /\ Cardinality(Located(f, labels)) \in Nat
           /\ Cardinality(Located(f, labels)) <= Cardinality(Clients) - 1
           /\ \A d \in Clients : d # c /\ f[d] \notin labels =>
                 Cardinality(Located(f, labels)) <= Cardinality(Clients) - 2
<1>1. IsFiniteSet(Clients \ {c}) /\ Cardinality(Clients \ {c}) = Cardinality(Clients) - 1
  BY LimiterAssumption, FS_RemoveElement
<1>2. Located(f, labels) \subseteq Clients \ {c}
  BY DEF Located
<1>3. Cardinality(Located(f, labels)) <= Cardinality(Clients) - 1
  BY <1>1, <1>2, FS_Subset
<1>4. ASSUME NEW d \in Clients, d # c, f[d] \notin labels
      PROVE  Cardinality(Located(f, labels)) <= Cardinality(Clients) - 2
  <2>1. d \in Clients \ {c}
    BY <1>4
  <2> DEFINE most == (Clients \ {c}) \ {d}
  <2>2. IsFiniteSet(most) /\ Cardinality(most) = Cardinality(Clients \ {c}) - 1
    BY <1>1, <2>1, FS_RemoveElement
  <2>3. Located(f, labels) \subseteq most
    BY <1>2, <1>4 DEF Located
  <2>4. Cardinality(Located(f, labels)) <= Cardinality(most)
    <3> HIDE DEF most
    <3> QED BY <2>2, <2>3, FS_Subset
  <2> HIDE DEF most
  <2> QED BY <1>1, <2>2, <2>4, ClientsCounted
<1>5. Cardinality(Located(f, labels)) \in Nat
  BY <1>1, <1>2, FS_Subset, FS_CardinalityType
<1> QED BY <1>3, <1>4, <1>5

\* What a list is long enough for, by the numbers of clients at the labels.
LEMMA ListCounts ==
    ASSUME LimiterTyped
    PROVE  /\ Cardinality(At({"push"})) \in Nat /\ Cardinality(At({"trim"})) \in Nat
           /\ Cardinality(At({"push", "replace"})) \in Nat
           /\ Cardinality(At({"push", "replace"})) + Cardinality(At({"trim"}))
                 <= Cardinality(At({"push"})) + Cardinality(Clients)
<1> DEFINE p == Cardinality(At({"push"}))
           r == Cardinality(At({"replace"}))
           t == Cardinality(At({"trim"}))
           u == Cardinality(At({"push", "replace"}))
           n == Cardinality(Clients)
<1>1. p \in Nat /\ r \in Nat /\ t \in Nat /\ u \in Nat /\ n \in Nat
  BY AtTyped, ClientsCounted
<1>2. u = p + r /\ r + t <= n
  BY AtApart
<1> HIDE DEF p, r, t, u, n
<1>3. p \in Nat /\ t \in Nat /\ u \in Nat /\ u + t <= p + n
  BY <1>1, <1>2
<1> QED BY <1>3 DEF p, r, t, u, n

\* A push, by a client that found room or is replacing the oldest time.
LEMMA PushKept ==
    ASSUME LimiterTyped, limiter.kind = "list", Crossed, NEW s \in Moments(Duration - MaxBehind), ListKept(s),
           NEW c \in Clients, LPush(c), UNCHANGED <<clock, limiter>>
    PROVE  ListKept(s)'
<1> DEFINE n == From(s)
           p == Cardinality(At({"push"}))
           t == Cardinality(At({"trim"}))
           u == Cardinality(At({"push", "replace"}))
           all == Cardinality(Clients)
           x == ClockOf(c)
           old == s - MaxBehind
           length == Len(Times)
<1>1. /\ clock \in Nat /\ touched \in 0..clock /\ lost \in Nat /\ times \in Seq(Int)
      /\ MaxRequestNum \in Nat \ {0} /\ Duration <= KeyExpiration /\ Duration \in Nat /\ KeyExpiration \in Nat
      /\ MaxBehind \in Nat /\ ClientsTyped /\ HistoryTyped
  BY LimiterAssumption, MaxBehindIs DEF LimiterTyped, StoreTyped, HistoryTyped
<1>2. s \in Int /\ s <= clock /\ clock - s < Duration - MaxBehind /\ old \in Int
  BY <1>1 DEF Moments
<1>3. n \in Nat /\ n' = n + 1
  <2>1. Admit
    BY DEF LPush
  <2> QED BY <1>1, <1>2, <2>1, FromIs
<1>4. Times \in Seq(Int) /\ x \in Int /\ old <= x
  <2>1. Times \in Seq(Int) /\ x \in Int /\ clock - MaxBehind <= x
    BY TimesTyped
  <2> HIDE DEF x
  <2> QED BY <1>1, <1>2, <2>1
<1>5. s <= touched => Times = times
  BY <1>1, <1>2 DEF Times
<1>6. p \in Nat /\ t \in Nat /\ u \in Nat /\ all \in Nat /\ all >= 1 /\ u + t <= p + all
  BY ListCounts, ClientsCounted
<1>7. \/ client[c] = "push" /\ p' = p - 1 /\ t' = t /\ u' = u - 1
      \/ client[c] = "replace" /\ p' = p /\ t' = t + 1 /\ u' = u - 1
  <2>1. PICK label \in {"idle", "trim"} :
           /\ client' = [client EXCEPT ![c] = label]
           /\ \/ client[c] = "push" /\ label = "idle"
              \/ client[c] = "replace" /\ label = "trim"
    BY DEF LPush
  <2>5. ClientsTyped
    BY <1>1
  <2>2. p' = p + (IF label \in {"push"} THEN 1 ELSE 0) - (IF client[c] \in {"push"} THEN 1 ELSE 0)
    BY <2>5, <2>1, AtMoves
  <2>3. t' = t + (IF label \in {"trim"} THEN 1 ELSE 0) - (IF client[c] \in {"trim"} THEN 1 ELSE 0)
    BY <2>5, <2>1, AtMoves
  <2>4. u' = u + (IF label \in {"push", "replace"} THEN 1 ELSE 0)
             - (IF client[c] \in {"push", "replace"} THEN 1 ELSE 0)
    BY <2>5, <2>1, AtMoves
  <2> HIDE DEF p, t, u
  <2> QED BY <1>6, <2>1, <2>2, <2>3, <2>4
<1>8. /\ u' \in Nat /\ u' <= all - 1 /\ p' \in Nat /\ p' <= all - 1
      /\ length >= MaxRequestNum => p' <= all - 2 + t'
  <2>1. client'[c] \in {"idle", "trim"} /\ \A d \in Clients : d # c => client'[d] = client[d]
    BY <1>1 DEF LPush, ClientsTyped
  <2>2. client'[c] \notin {"push", "replace"} /\ client'[c] \notin {"push"}
    BY <2>1
  <2>3. u' \in Nat /\ u' <= all - 1
    BY <2>2, AtMost DEF At
  <2>4. p' \in Nat /\ p' <= all - 1
    BY <2>2, AtMost DEF At
  <2>5. ASSUME length >= MaxRequestNum PROVE p' <= all - 2 + t'
    <3>1. PICK d \in Clients : client[d] # "push"
      BY <2>5 DEF Crossed
    <3>2. CASE client[c] = "push"
      <4>1. d # c /\ client'[d] \notin {"push"}
        BY <2>1, <3>1, <3>2
      <4>2. p' <= all - 2
        BY <2>2, <4>1, AtMost DEF At
      <4> HIDE DEF p, t, u, all
      <4> QED BY <1>6, <1>7, <2>4, <3>2, <4>2
    <3>3. CASE client[c] = "replace"
      <4> HIDE DEF p, t, u, all
      <4> QED BY <1>6, <1>7, <2>4, <3>3
    <3> QED BY <1>7, <3>2, <3>3
  <2> QED BY <2>3, <2>4, <2>5
<1>9. CASE lost' = lost + 1 /\ UNCHANGED <<times, touched>>
  <2>1. CASE Few(s)
    <3>1. PICK r \in 0..(MaxRequestNum - 1) :
             n <= r + lost /\ Fresh(times, r, old) /\ (r > 0 => s <= touched)
      BY <2>1 DEF Few
    <3> HIDE DEF n
    <3>2. n' <= r + lost'
      BY <1>1, <1>3, <1>9, <3>1
    <3> QED BY <1>9, <3>1, <3>2 DEF ListKept, Few, n
  <2>2. CASE Overfull(s)
    <3>1. Len(times) > MaxRequestNum /\ Fresh(times, MaxRequestNum, old) /\ s <= touched
          /\ n + p <= MaxRequestNum + lost + all - 2 + t
      BY <2>2 DEF Overfull
    <3>2. n' + p' <= MaxRequestNum + lost' + all - 2 + t'
      <4> HIDE DEF n, p, t, u, all
      <4> QED BY <1>1, <1>3, <1>6, <1>7, <1>9, <3>1
    <3> QED BY <1>9, <3>1, <3>2 DEF ListKept, Overfull
  <2>3. CASE Full(s)
    <3>1. Len(times) >= MaxRequestNum /\ Fresh(times, Len(times), old) /\ s <= touched
          /\ n + u <= MaxRequestNum + lost + 2 * (all - 1)
      BY <2>3 DEF Full
    <3>2. n' + u' <= MaxRequestNum + lost' + 2 * (all - 1)
      <4> HIDE DEF n, p, t, u, all
      <4> QED BY <1>1, <1>3, <1>6, <1>7, <1>9, <3>1
    <3> QED BY <1>9, <3>1, <3>2 DEF ListKept, Full
  <2> QED BY <2>1, <2>2, <2>3 DEF ListKept
<1>10. CASE times' = Append(Times, x) /\ touched' = clock /\ UNCHANGED lost
  <2>1. times' \in Seq(Int) /\ Len(times') = length + 1 /\ length \in Nat
    <3> HIDE DEF x
    <3> QED BY <1>4, <1>10
  <2>2. \A r : Fresh(Times, r, old) => Fresh(times', r + 1, old)
    <3> HIDE DEF x, old
    <3> QED BY <1>2, <1>4, <1>10, FreshAppend
  <2>3. CASE Few(s)
    <3>1. PICK r \in 0..(MaxRequestNum - 1) :
             n <= r + lost /\ Fresh(times, r, old) /\ (r > 0 => s <= touched)
      BY <2>3 DEF Few
    <3>2. Fresh(Times, r, old)
      <4>1. CASE r > 0
        BY <1>5, <3>1, <4>1
      <4>2. CASE r = 0
        BY <1>4, <4>2 DEF Fresh
      <4> QED BY <3>1, <4>1, <4>2
    <3>3. Fresh(times', r + 1, old) /\ r <= length
      BY <2>2, <3>2 DEF Fresh
    <3>4. n' <= r + 1 + lost'
      <4> HIDE DEF n
      <4> QED BY <1>1, <1>3, <1>10, <3>1
    <3>5. CASE r + 1 < MaxRequestNum
      <4>1. r + 1 \in 0..(MaxRequestNum - 1) /\ s <= touched'
        BY <1>1, <1>2, <1>10, <3>5
      <4> QED BY <3>3, <3>4, <4>1 DEF ListKept, Few
    <3>6. CASE r + 1 = MaxRequestNum /\ length = r
      <4>1. n' + u' <= MaxRequestNum + lost' + 2 * (all - 1)
        <5>1. u' \in Nat /\ u' <= all - 1 /\ lost' = lost
          BY <1>8, <1>10
        <5>2. lost \in Nat /\ MaxRequestNum \in Nat /\ n' \in Nat /\ all \in Nat /\ all >= 1
          <6> HIDE DEF n
          <6> QED BY <1>1, <1>3, <1>6
        <5> HIDE DEF n, p, t, u, all, length
        <5>3. n' <= MaxRequestNum + lost
          BY <3>4, <3>6, <5>1
        <5>4. n' + u' <= MaxRequestNum + lost + 2 * (all - 1)
          <6>1. \A i, j, k, m, v \in Int :
                   i <= k + m /\ j <= v - 1 /\ v >= 1 => i + j <= k + m + 2 * (v - 1)
            OBVIOUS
          <6>2. n' \in Int /\ u' \in Int /\ all \in Int /\ lost \in Int /\ MaxRequestNum \in Int
            BY <5>1, <5>2
          <6>3. n' <= MaxRequestNum + lost /\ u' <= all - 1 /\ all >= 1
            BY <5>1, <5>2, <5>3
          <6> QED BY <6>1, <6>2, <6>3, Zenon
        <5> QED BY <5>1, <5>4
      <4>2. Len(times') >= MaxRequestNum /\ Fresh(times', Len(times'), old) /\ s <= touched'
        <5> HIDE DEF length
        <5> QED BY <1>1, <1>2, <1>10, <2>1, <3>3, <3>6
      <4> QED BY <4>1, <4>2 DEF ListKept, Full
    <3>7. CASE r + 1 = MaxRequestNum /\ length > r
      <4>1. n' + p' <= MaxRequestNum + lost' + all - 2 + t'
        <5>1. length >= MaxRequestNum
          BY <2>1, <3>7
        <5>2. t' \in Int
          <6> HIDE DEF t
          <6> QED BY <1>6, <1>7
        <5>3. p' \in Nat /\ p' <= all - 2 + t' /\ lost' = lost
          BY <1>8, <1>10, <5>1
        <5>4. lost \in Nat /\ MaxRequestNum \in Nat /\ n' \in Nat /\ all \in Nat
          <6> HIDE DEF n
          <6> QED BY <1>1, <1>3, <1>6
        <5> HIDE DEF n, p, t, u, all, length
        <5>5. n' <= MaxRequestNum + lost
          BY <3>4, <3>7, <5>3
        <5>6. n' + p' <= MaxRequestNum + lost + all - 2 + t'
          <6>1. \A i, j, k, m, v, w \in Int :
                   i <= k + m /\ j <= v - 2 + w => i + j <= k + m + v - 2 + w
            OBVIOUS
          <6>2. n' \in Int /\ p' \in Int /\ all \in Int /\ lost \in Int /\ MaxRequestNum \in Int /\ t' \in Int
            BY <5>2, <5>3, <5>4
          <6>3. n' <= MaxRequestNum + lost /\ p' <= all - 2 + t'
            BY <5>3, <5>5
          <6> QED BY <6>1, <6>2, <6>3, Zenon
        <5> QED BY <5>3, <5>6
      <4>2. Len(times') > MaxRequestNum /\ Fresh(times', MaxRequestNum, old) /\ s <= touched'
        <5> HIDE DEF length
        <5> QED BY <1>1, <1>2, <1>10, <2>1, <3>3, <3>7
      <4> QED BY <4>1, <4>2 DEF ListKept, Overfull
    <3> QED BY <1>1, <2>1, <3>3, <3>5, <3>6, <3>7
  <2>4. CASE Overfull(s)
    <3>1. Len(times) > MaxRequestNum /\ Fresh(times, MaxRequestNum, old) /\ s <= touched
          /\ n + p <= MaxRequestNum + lost + all - 2 + t
      BY <2>4 DEF Overfull
    <3>2. n' + p' <= MaxRequestNum + lost' + all - 2 + t'
      <4> HIDE DEF n, p, t, u, all
      <4> QED BY <1>1, <1>3, <1>6, <1>7, <1>10, <3>1
    <3>3. Fresh(times', MaxRequestNum + 1, old)
      BY <1>5, <2>2, <3>1
    <3>4. Fresh(times', MaxRequestNum, old)
      <4> HIDE DEF old
      <4> QED BY <1>1, <1>2, <2>1, <3>3, FreshFewer
    <3>5. Len(times') > MaxRequestNum
      BY <1>1, <1>5, <2>1, <3>1
    <3> QED BY <1>2, <1>10, <3>2, <3>4, <3>5 DEF ListKept, Overfull
  <2>5. CASE Full(s)
    <3>1. Len(times) >= MaxRequestNum /\ Fresh(times, Len(times), old) /\ s <= touched
          /\ n + u <= MaxRequestNum + lost + 2 * (all - 1)
      BY <2>5 DEF Full
    <3>2. n' + u' <= MaxRequestNum + lost' + 2 * (all - 1)
      <4> HIDE DEF n, p, t, u, all
      <4> QED BY <1>1, <1>3, <1>6, <1>7, <1>10, <3>1
    <3>3. Fresh(times', Len(times'), old) /\ Len(times') >= MaxRequestNum
      BY <1>1, <1>5, <2>1, <2>2, <3>1
    <3> QED BY <1>2, <1>10, <3>2, <3>3 DEF ListKept, Full
  <2> QED BY <2>3, <2>4, <2>5 DEF ListKept
<1> QED BY <1>9, <1>10 DEF LPush

\* LTrim, which leaves only new times in a list that had enough of them.
LEMMA TrimKept ==
    ASSUME LimiterTyped, limiter.kind = "list", NEW s \in Moments(Duration - MaxBehind), ListKept(s),
           NEW c \in Clients, LTrim(c), UNCHANGED <<clock, limiter>>
    PROVE  ListKept(s)'
<1> DEFINE n == From(s)
           p == Cardinality(At({"push"}))
           t == Cardinality(At({"trim"}))
           u == Cardinality(At({"push", "replace"}))
           all == Cardinality(Clients)
           old == s - MaxBehind
<1>1. /\ clock \in Nat /\ touched \in 0..clock /\ lost \in Nat /\ times \in Seq(Int)
      /\ MaxRequestNum \in Nat \ {0} /\ Duration <= KeyExpiration /\ Duration \in Nat /\ KeyExpiration \in Nat
      /\ MaxBehind \in Nat /\ ClientsTyped /\ HistoryTyped
  BY LimiterAssumption, MaxBehindIs DEF LimiterTyped, StoreTyped, HistoryTyped
<1>2. s \in Int /\ s <= clock /\ clock - s < Duration - MaxBehind /\ old \in Int
  BY <1>1 DEF Moments
<1>3. n \in Nat /\ n' = n /\ lost' = lost /\ touched' = clock
  <2>1. UNCHANGED admitted /\ lost' = lost /\ touched' = clock
    BY DEF LTrim
  <2> QED BY <1>1, <1>2, <2>1, FromIs
<1>4. Times \in Seq(Int) /\ (s <= touched => Times = times)
  BY <1>1, <1>2, TimesTyped DEF Times
<1>5. p \in Nat /\ t \in Nat /\ u \in Nat /\ all \in Nat /\ all >= 1 /\ u + t <= p + all
  BY ListCounts, ClientsCounted
<1>6. p' = p /\ u' = u
  <2>0. PICK label \in {"idle"} : client' = [client EXCEPT ![c] = label] /\ client[c] = "trim"
    BY DEF LTrim
  <2>1. client' = [client EXCEPT ![c] = label] /\ client[c] = "trim" /\ label = "idle" /\ ClientsTyped
    BY <1>1, <2>0
  <2>2. p' = p + (IF label \in {"push"} THEN 1 ELSE 0) - (IF client[c] \in {"push"} THEN 1 ELSE 0)
    BY <2>1, AtMoves
  <2>3. u' = u + (IF label \in {"push", "replace"} THEN 1 ELSE 0)
             - (IF client[c] \in {"push", "replace"} THEN 1 ELSE 0)
    BY <2>1, AtMoves
  <2> HIDE DEF p, u
  <2> QED BY <1>5, <2>1, <2>2, <2>3
<1>7. ASSUME NEW r \in 0..MaxRequestNum, Fresh(Times, r, old)
      PROVE  /\ Fresh(times', r, old)
             /\ Len(Times) >= MaxRequestNum => Len(times') = MaxRequestNum
  <2>1. CASE Len(Times) > MaxRequestNum
    <3>1. times' = SubSeq(Times, Len(Times) - MaxRequestNum + 1, Len(Times))
      BY <2>1 DEF LTrim
    <3>2. MaxRequestNum \in Nat /\ r <= MaxRequestNum
      BY <1>1, <1>7
    <3> HIDE DEF old
    <3> QED BY <1>2, <1>4, <1>7, <2>1, <3>1, <3>2, FreshTrim
  <2>2. CASE ~(Len(Times) > MaxRequestNum)
    <3>1. times' = Times
      BY <2>2 DEF LTrim
    <3>2. Len(Times) >= MaxRequestNum => Len(Times) = MaxRequestNum
      BY <1>1, <1>4, <2>2
    <3> QED BY <1>7, <3>1, <3>2
  <2> QED BY <2>1, <2>2
<1>8. CASE Few(s)
  <2>1. PICK r \in 0..(MaxRequestNum - 1) :
           n <= r + lost /\ Fresh(times, r, old) /\ (r > 0 => s <= touched)
    BY <1>8 DEF Few
  <2>2. Fresh(Times, r, old)
    <3>1. CASE r > 0
      BY <1>4, <2>1, <3>1
    <3>2. CASE r = 0
      BY <1>4, <3>2 DEF Fresh
    <3> QED BY <2>1, <3>1, <3>2
  <2>3. r \in 0..MaxRequestNum
    BY <1>1
  <2>4. Fresh(times', r, old)
    BY <1>7, <2>2, <2>3
  <2> HIDE DEF n
  <2>5. n' <= r + lost' /\ s <= touched'
    BY <1>2, <1>3, <2>1
  <2> QED BY <2>1, <2>4, <2>5 DEF ListKept, Few, n
<1>9. CASE Overfull(s) \/ Full(s)
  <2>1. s <= touched /\ Len(times) >= MaxRequestNum /\ n + u <= MaxRequestNum + lost + 2 * (all - 1)
        /\ Fresh(times, MaxRequestNum, old)
    <3>1. CASE Overfull(s)
      <4>1. Len(times) > MaxRequestNum /\ Fresh(times, MaxRequestNum, old) /\ s <= touched
            /\ n + p <= MaxRequestNum + lost + all - 2 + t
        BY <3>1 DEF Overfull
      <4>2. n + u <= MaxRequestNum + lost + 2 * (all - 1)
        <5> HIDE DEF n, p, t, u, all
        <5> QED BY <1>1, <1>3, <1>5, <4>1
      <4>3. Len(times) >= MaxRequestNum
        BY <1>1, <4>1
      <4> QED BY <4>1, <4>2, <4>3
    <3>2. CASE Full(s)
      <4>1. Len(times) >= MaxRequestNum /\ Fresh(times, Len(times), old) /\ s <= touched
            /\ n + u <= MaxRequestNum + lost + 2 * (all - 1)
        BY <3>2 DEF Full
      <4>2. MaxRequestNum \in 0..Len(times)
        BY <1>1, <4>1
      <4>3. Fresh(times, MaxRequestNum, old)
        <5> HIDE DEF old
        <5> QED BY <1>1, <1>2, <4>1, <4>2, FreshFewer
      <4> QED BY <4>1, <4>3
    <3> QED BY <1>9, <3>1, <3>2
  <2>2. MaxRequestNum \in 0..MaxRequestNum
    BY <1>1
  <2>3. Fresh(times', MaxRequestNum, old) /\ Len(times') = MaxRequestNum
    BY <1>4, <1>7, <2>1, <2>2
  <2>4. n' + u' <= MaxRequestNum + lost' + 2 * (all - 1)
    BY <1>3, <1>6, <2>1, Zenon
  <2>5. s <= touched' /\ Len(times') >= MaxRequestNum /\ Fresh(times', Len(times'), old)
    BY <1>1, <1>2, <1>3, <2>3
  <2> QED BY <2>4, <2>5 DEF ListKept, Full
<1> QED BY <1>8, <1>9 DEF ListKept

\* LLen and LIndex: a client that looks while there are enough new times, and
\* none before them, is refused.
LEMMA LookKept ==
    ASSUME LimiterTyped, limiter.kind = "list", NEW s \in Moments(Duration - MaxBehind), ListKept(s),
           NEW c \in Clients, LLen(c) \/ LIndex(c), UNCHANGED <<clock, limiter>>
    PROVE  ListKept(s)'
<1> DEFINE n == From(s)
           p == Cardinality(At({"push"}))
           t == Cardinality(At({"trim"}))
           u == Cardinality(At({"push", "replace"}))
           all == Cardinality(Clients)
           old == s - MaxBehind
<1>1. /\ clock \in Nat /\ touched \in 0..clock /\ lost \in Nat /\ times \in Seq(Int)
      /\ MaxRequestNum \in Nat \ {0} /\ Duration <= KeyExpiration /\ Duration \in Nat /\ KeyExpiration \in Nat
      /\ MaxBehind \in Nat /\ ClientsTyped /\ HistoryTyped
  BY LimiterAssumption, MaxBehindIs DEF LimiterTyped, StoreTyped, HistoryTyped
<1>2. s \in Int /\ s <= clock /\ clock - s < Duration - MaxBehind /\ old \in Int
  BY <1>1 DEF Moments
<1>3. n \in Nat /\ n' = n /\ lost' = lost /\ times' = times /\ touched' \in {touched, clock}
  <2>1. UNCHANGED <<admitted, lost, times>> /\ touched' \in {touched, clock}
    BY DEF LLen, LIndex
  <2> QED BY <1>1, <1>2, <2>1, FromIs
<1>4. s <= touched => Times = times /\ s <= touched'
  BY <1>1, <1>2, <1>3 DEF Times
<1>5. CASE Few(s)
  <2>1. PICK r \in 0..(MaxRequestNum - 1) :
           n <= r + lost /\ Fresh(times, r, old) /\ (r > 0 => s <= touched)
    BY <1>5 DEF Few
  <2>2. n' <= r + lost' /\ Fresh(times', r, old) /\ (r > 0 => s <= touched')
    BY <1>3, <1>4, <2>1, Zenon
  <2> QED BY <2>2 DEF ListKept, Few
<1>6. PICK label \in {"push", "index", "idle", "replace"} :
         /\ client' = [client EXCEPT ![c] = label] /\ client[c] \in {"idle", "index"}
         /\ label = "push" => Len(Times) < MaxRequestNum
         /\ label = "replace" => Times # <<>> /\ ClockOf(c) - Times[1] >= Duration
  BY DEF LLen, LIndex
<1>7. /\ label # "push" => p' = p /\ t' = t
      /\ label \notin {"push", "replace"} => u' = u
  <2>1. client' = [client EXCEPT ![c] = label] /\ client[c] \in {"idle", "index"} /\ ClientsTyped
    BY <1>1, <1>6
  <2>2. p' = p + (IF label \in {"push"} THEN 1 ELSE 0) - (IF client[c] \in {"push"} THEN 1 ELSE 0)
    BY <2>1, AtMoves
  <2>3. t' = t + (IF label \in {"trim"} THEN 1 ELSE 0) - (IF client[c] \in {"trim"} THEN 1 ELSE 0)
    BY <2>1, AtMoves
  <2>4. u' = u + (IF label \in {"push", "replace"} THEN 1 ELSE 0)
             - (IF client[c] \in {"push", "replace"} THEN 1 ELSE 0)
    BY <2>1, AtMoves
  <2>5. p \in Nat /\ t \in Nat /\ u \in Nat
    BY ListCounts
  <2> HIDE DEF p, t, u
  <2> QED BY <1>6, <2>1, <2>2, <2>3, <2>4, <2>5
<1>8. CASE Overfull(s)
  <2>1. Len(times) > MaxRequestNum /\ Fresh(times, MaxRequestNum, old) /\ s <= touched
        /\ n + p <= MaxRequestNum + lost + all - 2 + t
    BY <1>8 DEF Overfull
  <2>2. label # "push"
    BY <1>1, <1>4, <1>6, <2>1
  <2>3. n' + p' <= MaxRequestNum + lost' + all - 2 + t'
    BY <1>3, <1>7, <2>1, <2>2, Zenon
  <2>4. Len(times') > MaxRequestNum /\ Fresh(times', MaxRequestNum, old) /\ s <= touched'
    BY <1>3, <1>4, <2>1, Zenon
  <2> QED BY <2>3, <2>4 DEF ListKept, Overfull
<1>9. CASE Full(s)
  <2>1. Len(times) >= MaxRequestNum /\ Fresh(times, Len(times), old) /\ s <= touched
        /\ n + u <= MaxRequestNum + lost + 2 * (all - 1)
    BY <1>9 DEF Full
  <2>2. label # "push"
    BY <1>1, <1>4, <1>6, <2>1
  <2>3. label # "replace"
    <3>1. Times = times /\ 1 \in DOMAIN times /\ times[1] \in Int
      BY <1>1, <1>4, <2>1
    <3>2. old <= times[1]
      BY <1>1, <2>1, <3>1 DEF Fresh
    <3>3. ClockOf(c) \in Int /\ ClockOf(c) <= clock
      BY TimesTyped
    <3>4. ClockOf(c) - times[1] < Duration
      BY <1>1, <1>2, <3>1, <3>2, <3>3
    <3>5. ~(ClockOf(c) - times[1] >= Duration)
      BY <1>1, <3>1, <3>3, <3>4
    <3> QED BY <1>6, <3>1, <3>5
  <2>4. n' + u' <= MaxRequestNum + lost' + 2 * (all - 1)
    BY <1>3, <1>7, <2>1, <2>2, <2>3, Zenon
  <2>5. Len(times') >= MaxRequestNum /\ Fresh(times', Len(times'), old) /\ s <= touched'
    BY <1>3, <1>4, <2>1, Zenon
  <2> QED BY <2>4, <2>5 DEF ListKept, Full
<1> QED BY <1>5, <1>8, <1>9 DEF ListKept

\* Each command of redisRateLimiter keeps the account of the list.
LEMMA ListNext ==
    ASSUME LimiterTyped, ListInv, [LimiterNext]_limVars
    PROVE  ListInv'
<1> SUFFICES ASSUME limiter.kind = "list"
             PROVE  Crossed' /\ \A s \in Moments(Duration - MaxBehind)' : ListKept(s)'
  BY LimiterTypedNext DEF ListInv
<1>1. /\ HistoryTyped /\ ClientsTyped /\ clock \in Nat /\ touched \in 0..clock /\ times \in Seq(Int)
      /\ limiter' = limiter /\ MaxRequestNum \in Nat \ {0} /\ Duration \in Nat /\ MaxBehind \in Nat
      /\ KeyExpiration \in Nat
      /\ Crossed /\ \A s \in Moments(Duration - MaxBehind) : ListKept(s)
  BY LimiterAssumption, LimiterTypedNext, MaxBehindIs
     DEF LimiterTyped, HistoryTyped, StoreTyped, ListInv
<1>2. \/ UNCHANGED <<times, touched, client, admitted, lost>>
      \/ \E c \in Clients : (LLen(c) \/ LPush(c) \/ LIndex(c) \/ LTrim(c)) /\ UNCHANGED <<clock, limiter>>
  <2>1. CASE Middleware
    BY <2>1 DEF Middleware, Request, AllowFixedWindow, CountReserve, AllowTokenBucket, TokenReserve
  <2> QED BY <2>1 DEF limVars, LimiterNext, Second, Clear, LoadGroups, RedisRateLimiter
<1>3. clock' = clock \/ clock' = clock + 1
  BY DEF limVars, LimiterNext, Second, Middleware, RedisRateLimiter, Clear, LoadGroups
<1>4. Crossed'
  <2>1. CASE UNCHANGED <<times, touched, client, admitted, lost>>
    <3>1. clock - touched < KeyExpiration \/ ~(clock' - touched < KeyExpiration)
      BY <1>1, <1>3
    <3>4. Times' = Times \/ Times' = <<>>
      <4>1. times' = times /\ touched' = touched
        BY <2>1
      <4> QED BY <3>1, <4>1, Zenon DEF Times
    <3>2. Len(<<>>) = 0
      OBVIOUS
    <3> QED BY <1>1, <2>1, <3>2, <3>4 DEF Crossed
  <2>2. ASSUME NEW c \in Clients, LPush(c) \/ LIndex(c) \/ LTrim(c) PROVE Crossed'
    <3>1. client'[c] # "push"
      BY <1>1, <2>2 DEF LPush, LIndex, LTrim, ClientsTyped
    <3> QED BY <3>1 DEF Crossed
  <2>3. ASSUME NEW c \in Clients, LLen(c), UNCHANGED clock PROVE Crossed'
    <3>1. Times' = Times
      BY <2>3 DEF LLen, Times
    <3>2. CASE Len(Times) < MaxRequestNum
      <4>1. ~(Len(Times) >= MaxRequestNum)
        <5>1. Times \in Seq(Int)
          BY TimesTyped
        <5> QED BY <1>1, <3>2, <5>1
      <4> QED BY <3>1, <4>1 DEF Crossed
    <3>3. CASE ~(Len(Times) < MaxRequestNum)
      <4>1. client'[c] # "push"
        BY <1>1, <2>3, <3>3 DEF LLen, ClientsTyped
      <4> QED BY <4>1 DEF Crossed
    <3> QED BY <3>2, <3>3
  <2> QED BY <1>2, <2>1, <2>2, <2>3
<1>5. ASSUME NEW s \in Moments(Duration - MaxBehind)' PROVE ListKept(s)'
  <2>1. s \in Int
    BY <1>1, MomentsNext
  <2>2. CASE Second /\ s = clock + 1 /\ From(s)' = 0
    <3>1. times' \in Seq(Int) /\ lost' \in Nat
      BY LimiterTypedNext DEF LimiterTyped, StoreTyped, HistoryTyped
    <3>2. Fresh(times', 0, s - MaxBehind)
      BY <3>1 DEF Fresh
    <3>3. From(s)' <= 0 + lost' /\ 0 \in 0..(MaxRequestNum - 1) /\ ~(0 > 0)
      BY <1>1, <2>2, <3>1
    <3> QED BY <3>2, <3>3 DEF ListKept, Few
  <2>3. CASE s \in Moments(Duration - MaxBehind)
    <3>1. CASE UNCHANGED <<times, touched, client, admitted, lost>>
      BY <1>1, <2>3, <3>1 DEF ListKept, Few, Overfull, Full, At, From
    <3>2. ASSUME NEW c \in Clients, LLen(c) \/ LPush(c) \/ LIndex(c) \/ LTrim(c), UNCHANGED <<clock, limiter>>
          PROVE  ListKept(s)'
      BY <1>1, <2>3, <3>2, PushKept, TrimKept, LookKept
    <3> QED BY <1>2, <3>1, <3>2
  <2> QED BY <1>1, <1>5, <2>2, <2>3, MomentsNext
<1> QED BY <1>4, <1>5

-----------------------------------------------------------------------------
(* The theorem. *)

\* What every reachable state of the limiters satisfies.
LimiterInv == LimiterTyped /\ KindInv

\* Nothing was let through at first.
LEMMA LimiterInvInit == LimiterInit => LimiterInv
<1> SUFFICES ASSUME LimiterInit PROVE LimiterInv
  OBVIOUS
<1>1. LimiterTyped
  BY LimiterTypedInit
<1>2. /\ clock = 0 /\ times = <<>> /\ window = NoEntry /\ bucket = NoBucket /\ touched = 0 /\ admitted = <<>>
      /\ loads = 0 /\ lost = 0 /\ MaxRequestNum \in Nat \ {0} /\ MaxBehind \in Nat
      /\ limiter.rate \in Nat /\ limiter.burst \in Nat
  BY <1>1, LimiterAssumption, MaxBehindIs DEF LimiterInit, LimiterTyped, RateTyped
<1>3. \A s : From(s) = 0
  BY <1>2, SinceNone DEF From
<1>4. \A s : Fresh(times, 0, s) /\ Len(times) = 0
  BY <1>2 DEF Fresh
<1>5. QueueInv /\ ListInv
  <2>1. QueueInv
    BY <1>2, <1>3, <1>4 DEF QueueInv, QueueKept
  <2>2. Times = <<>>
    BY <1>2 DEF Times
  <2>3. Crossed
    BY <1>2, <1>4, <2>2 DEF Crossed
  <2>4. \A s : ListKept(s)
    <3>1. 0 \in 0..(MaxRequestNum - 1) /\ 0 <= 0 + lost /\ ~(0 > 0)
      BY <1>2
    <3> QED BY <1>3, <1>4, <3>1 DEF ListKept, Few
  <2> QED BY <2>1, <2>3, <2>4 DEF ListInv
<1>6. WindowInv
  <2>1. AtLeast1(limiter.rate) \in Nat
    BY <1>2 DEF AtLeast1
  <2>2. (1 + loads) * AtLeast1(limiter.rate) \in Nat
    BY <1>2, <2>1, ProductGrows
  <2> QED BY <1>2, <1>3, <2>2 DEF WindowInv, WindowTyped, WindowKept
<1>7. CountInv
  BY <1>2, <1>3 DEF CountInv, CountTyped, CountKept
<1>8. BucketInv
  <2>1. ASSUME NEW s \in Moments(MaxClock + 1) PROVE BucketKept(s)
    <3>1. clock - s \in Nat
      BY <1>2, LimiterAssumption DEF Moments
    <3>2. limiter.rate * (clock - s) \in Nat /\ loads * limiter.burst \in Nat
      BY <1>2, <3>1, ProductGrows
    <3> QED BY <1>2, <1>3, <3>2 DEF BucketKept
  <2> QED BY <1>2, <2>1 DEF BucketInv, BucketTyped
<1>9. TokensInv
  BY <1>2, <1>3 DEF TokensInv, TokensTyped, TokensKept
<1> QED BY <1>1, <1>5, <1>6, <1>7, <1>8, <1>9 DEF LimiterInv, KindInv

\* The limiters of all kinds keep their accounts.
LEMMA LimiterInvNext == LimiterInv /\ [LimiterNext]_limVars => LimiterInv'
BY LimiterTypedNext, QueueNext, ListNext, WindowNext, CountNext, BucketNext, TokensNext
   DEF LimiterInv, KindInv

\* The promises follow.
LEMMA LimiterInvMeans == LimiterInv => LimitHolds
<1> SUFFICES ASSUME LimiterInv PROVE LimitHolds
  OBVIOUS
<1>1. HistoryTyped /\ RateTyped /\ StoreTyped /\ clock \in Nat /\ loads \in Nat /\ lost \in Nat /\ regress \in Nat
      /\ times \in Seq(Int) /\ touched \in 0..clock
      /\ window \in [count : Nat, start : Nat] /\ bucket \in [tokens : Int, last : Int]
      /\ limiter.rate \in Nat /\ limiter.burst \in Nat
  BY DEF LimiterInv, LimiterTyped, HistoryTyped, StoreTyped, RateTyped
<1>2. /\ MaxRequestNum \in Nat \ {0} /\ Duration \in Nat /\ Minute \in Nat \ {0} /\ MaxClock \in Nat
      /\ MaxBehind \in Nat
  BY LimiterAssumption, MaxBehindIs
<1>3. limiter.kind = "queue" => Within(Duration) <= MaxRequestNum
  <2> SUFFICES ASSUME limiter.kind = "queue" PROVE Within(Duration) <= MaxRequestNum
    OBVIOUS
  <2> DEFINE s == clock - Duration + 1
  <2>1. CASE Duration >= 1
    <3>1. Len(times) <= MaxRequestNum /\ QueueKept(s)
      BY <1>1, <1>2, <2>1, WithinIsFrom DEF LimiterInv, KindInv, QueueInv
    <3>2. s \in Int
      BY <1>1, <1>2
    <3>3. PICK r \in 0..Len(times) : From(s) <= r
      BY <3>1 DEF QueueKept
    <3>4. From(s) \in Nat
      BY <1>1, <3>2, FromIs
    <3>5. From(s) <= MaxRequestNum
      <4> HIDE DEF s
      <4> QED BY <1>1, <1>2, <3>1, <3>3, <3>4
    <3> QED BY <1>1, <1>2, <3>5, WithinIsFrom
  <2>2. CASE ~(Duration >= 1)
    BY <1>1, <1>2, <2>2, WithinIsFrom
  <2> QED BY <2>1, <2>2
<1>4. limiter.kind = "list" =>
         Within(Duration - MaxBehind) <= MaxRequestNum + 2 * (Cardinality(Clients) - 1) + lost
  <2> SUFFICES ASSUME limiter.kind = "list"
               PROVE  Within(Duration - MaxBehind) <= MaxRequestNum + 2 * (Cardinality(Clients) - 1) + lost
    OBVIOUS
  <2> DEFINE d == Duration - MaxBehind
             s == clock - d + 1
             n == From(s)
             p == Cardinality(At({"push"}))
             t == Cardinality(At({"trim"}))
             u == Cardinality(At({"push", "replace"}))
             all == Cardinality(Clients)
  <2>1. all \in Nat /\ all >= 1 /\ d \in Int
    BY <1>2, ClientsCounted
  <2>2. CASE d >= 1
    <3>1. ListKept(s)
      BY <1>1, <2>1, <2>2, WithinIsFrom DEF LimiterInv, KindInv, ListInv
    <3>2. n \in Nat
      <4>1. s \in Int
        BY <1>1, <2>1
      <4> HIDE DEF s
      <4> QED BY <1>1, <4>1, FromIs
    <3>3. p \in Nat /\ t \in Nat /\ u \in Nat /\ u + t <= p + all
      BY ListCounts DEF LimiterInv
    <3>4. \/ n <= MaxRequestNum - 1 + lost
          \/ n + p <= MaxRequestNum + lost + all - 2 + t
          \/ n + u <= MaxRequestNum + lost + 2 * (all - 1)
      <4>1. CASE Few(s)
        <5>1. PICK r \in 0..(MaxRequestNum - 1) : n <= r + lost
          BY <4>1 DEF Few
        <5> HIDE DEF n
        <5> QED BY <1>1, <1>2, <3>2, <5>1
      <4>2. CASE Overfull(s)
        BY <4>2 DEF Overfull
      <4>3. CASE Full(s)
        BY <4>3 DEF Full
      <4> QED BY <3>1, <4>1, <4>2, <4>3 DEF ListKept
    <3>5. n <= MaxRequestNum + 2 * (all - 1) + lost
      <4> HIDE DEF n, p, t, u, all
      <4> QED BY <1>1, <1>2, <2>1, <3>2, <3>3, <3>4
    <3> QED BY <1>1, <2>1, <3>5, WithinIsFrom
  <2>3. CASE ~(d >= 1)
    <3>1. Within(d) = 0
      BY <1>1, <2>1, <2>3, WithinIsFrom
    <3> HIDE DEF all, d
    <3>2. 0 <= MaxRequestNum + 2 * (all - 1) + lost
      BY <1>1, <1>2, <2>1
    <3> QED BY <3>1, <3>2 DEF all, d
  <2> QED BY <2>2, <2>3
<1>5. limiter.kind = "window" => Within(Minute) <= (2 + loads) * AtLeast1(limiter.rate)
  <2> SUFFICES ASSUME limiter.kind = "window" PROVE Within(Minute) <= (2 + loads) * AtLeast1(limiter.rate)
    OBVIOUS
  <2> DEFINE s == clock - Minute + 1
             most == AtLeast1(limiter.rate)
             before == loads * most
  <2>1. WindowTyped /\ WindowKept(s) /\ s \in Int /\ Within(Minute) = From(s)
    BY <1>1, <1>2, WithinIsFrom DEF LimiterInv, KindInv, WindowInv
  <2>2. most \in Nat /\ before \in Nat /\ (1 + loads) * most = before + most
        /\ (2 + loads) * most = before + 2 * most
    <3>1. most \in Nat
      BY <1>1 DEF AtLeast1
    <3> HIDE DEF most
    <3> QED BY <1>1, <3>1, ProductGrows
  <2>3. From(s) \in Nat
    BY <1>1, <2>1, FromIs
  <2>4. window.count \in Nat /\ window.start \in Nat
    BY <1>1
  <2>5. /\ window = NoEntry => From(s) <= before + most
        /\ window # NoEntry /\ window.start >= s => From(s) <= before + most + window.count
        /\ window # NoEntry /\ window.start < s => From(s) <= before + window.count
        /\ window # NoEntry => window.count <= most
    BY <2>1, <2>2, <2>4 DEF WindowKept, WindowTyped
  <2> HIDE DEF s, most, before
  <2>6. From(s) <= before + 2 * most
    BY <2>1, <2>2, <2>3, <2>4, <2>5
  <2> QED BY <2>1, <2>2, <2>6 DEF most
<1>6. limiter.kind = "count" => Within(Minute) <= 2 * limiter.rate
  <2> SUFFICES ASSUME limiter.kind = "count" PROVE Within(Minute) <= 2 * limiter.rate
    OBVIOUS
  <2> DEFINE s == clock - Minute + 1
  <2>1. CountKept(s) /\ s \in Int /\ Within(Minute) = From(s)
    BY <1>1, <1>2, WithinIsFrom DEF LimiterInv, KindInv, CountInv
  <2>2. From(s) \in Nat
    BY <1>1, <2>1, FromIs
  <2> DEFINE most == Least(window.count, limiter.rate)
  <2>3. most \in Nat /\ most <= limiter.rate
    BY <1>1 DEF Least
  <2>4. window.start \in Nat
    BY <1>1
  <2> HIDE DEF s, most
  <2>5. From(s) = 0 \/ From(s) <= limiter.rate + most \/ From(s) <= most
    BY <2>1, <2>2, <2>4 DEF CountKept, most
  <2>6. From(s) <= 2 * limiter.rate
    BY <1>1, <2>2, <2>3, <2>5
  <2> QED BY <2>1, <2>6
<1>7. ASSUME NEW ticks \in 1..(MaxClock + 1)
      PROVE  /\ limiter.kind = "bucket" =>
                   Within(ticks) <= (1 + loads) * limiter.burst + limiter.rate * (ticks - 1)
             /\ limiter.kind = "tokens" =>
                   Within(ticks) <= limiter.burst + limiter.rate * (ticks - 1 + MaxBehind * (1 + regress))
  <2> DEFINE s == clock - ticks + 1
             rate == limiter.rate
             burst == limiter.burst
  <2>1. ticks \in Int /\ s \in Int /\ s \in Moments(MaxClock + 1) /\ Within(ticks) = From(s)
        /\ clock - s = ticks - 1
    BY <1>1, <1>2, WithinIsFrom DEF Moments
  <2>2. From(s) \in Nat
    BY <1>1, <2>1, FromIs
  <2>3. ASSUME limiter.kind = "bucket" PROVE From(s) <= (1 + loads) * burst + rate * (ticks - 1)
    <3>1. BucketTyped /\ BucketKept(s)
      BY <2>1, <2>3 DEF LimiterInv, KindInv, BucketInv
    <3> DEFINE forgotten == loads * burst
               flow == rate * (ticks - 1)
    <3>2. /\ forgotten \in Nat /\ (1 + loads) * burst = forgotten + burst
          /\ flow \in Nat /\ burst \in Nat /\ rate \in Nat
      <4>1. burst \in Nat /\ rate \in Nat /\ loads \in Nat /\ ticks - 1 \in Nat
        BY <1>1, <1>2
      <4> HIDE DEF burst, rate
      <4>2. forgotten \in Nat /\ flow \in Nat
        BY <4>1, ProductGrows
      <4>3. (1 + loads) * burst = 1 * burst + loads * burst /\ 1 * burst = burst
        BY <4>1, ProductGrows
      <4>4. loads * burst \in Nat
        BY <4>2
      <4> QED BY <4>1, <4>2, <4>3, <4>4
    <3>3. CASE bucket = NoBucket
      <4>1. From(s) <= forgotten + flow
        BY <2>1, <3>1, <3>3 DEF BucketKept
      <4> HIDE DEF forgotten, flow, burst, rate, s
      <4>2. From(s) <= (forgotten + burst) + flow
        BY <2>2, <3>2, <4>1
      <4> QED BY <3>2, <4>2 DEF flow
    <3>4. CASE bucket # NoBucket /\ From(s) = 0
      <4> HIDE DEF s, burst, rate, forgotten, flow
      <4>1. From(s) <= (forgotten + burst) + flow
        BY <3>2, <3>4
      <4> QED BY <3>2, <4>1 DEF flow
    <3>5. CASE bucket # NoBucket /\ From(s) # 0
      <4>1. From(s) + bucket.tokens <= (1 + loads) * burst + rate * (bucket.last - s)
            /\ 0 <= bucket.tokens /\ bucket.last <= clock
        BY <3>1, <3>5 DEF BucketKept, BucketTyped
      <4>2. bucket.last \in Int /\ bucket.tokens \in Int
        BY <1>1
      <4>3. rate * (bucket.last - s) <= rate * (ticks - 1) /\ rate * (bucket.last - s) \in Int
        <5>1. bucket.last - s \in Int /\ ticks - 1 \in Int /\ bucket.last - s <= ticks - 1
          <6>1. clock \in Int /\ ticks \in Int /\ s \in Int /\ clock - s = ticks - 1
            BY <1>1, <2>1
          <6> HIDE DEF s
          <6> QED BY <4>1, <4>2, <6>1
        <5> HIDE DEF s, rate
        <5> QED BY <3>2, <5>1, ProductGrows
      <4>4. (1 + loads) * burst \in Int
        <5> HIDE DEF forgotten, burst
        <5> QED BY <3>2
      <4> DEFINE i == (1 + loads) * burst
                 j == rate * (bucket.last - s)
                 k == rate * (ticks - 1)
                 n == From(s)
      <4>5. i \in Int /\ j \in Int /\ k \in Int /\ j <= k /\ n \in Nat /\ n + bucket.tokens <= i + j
        BY <2>2, <3>2, <4>1, <4>3, <4>4
      <4> HIDE DEF i, j, k, n
      <4>6. n <= i + k
        BY <4>1, <4>2, <4>5
      <4> QED BY <4>6 DEF i, k, n
    <3> QED BY <3>3, <3>4, <3>5
  <2>4. ASSUME limiter.kind = "tokens"
        PROVE  From(s) <= burst + rate * (ticks - 1 + MaxBehind * (1 + regress))
    <3>1. TokensTyped /\ TokensKept(s)
      BY <2>1, <2>4 DEF LimiterInv, KindInv, TokensInv
    <3> DEFINE lag == MaxBehind * (1 + regress)
    <3>2. lag \in Nat
      BY <1>1, <1>2, ProductGrows
    <3>3. rate \in Nat /\ burst \in Nat
      BY <1>1
    <3> HIDE DEF lag, rate, burst
    <3>4. rate * (ticks - 1 + lag) \in Nat
      BY <2>1, <3>2, <3>3, ProductGrows
    <3>5. CASE From(s) = 0
      <4> HIDE DEF s
      <4>1. From(s) <= burst + rate * (ticks - 1 + lag)
        BY <3>3, <3>4, <3>5
      <4> QED BY <4>1 DEF lag
    <3>6. CASE From(s) # 0
      <4>1. bucket # NoBucket /\ From(s) + bucket.tokens <= burst + rate * (bucket.last - s + lag)
        BY <3>1, <3>6 DEF TokensKept, lag, rate, burst
      <4>2. bucket.last \in Int /\ bucket.tokens \in Int /\ 0 <= bucket.tokens /\ bucket.last <= clock
        BY <1>1, <3>1, <4>1 DEF TokensTyped
      <4> DEFINE j == rate * (bucket.last - s + lag)
                 k == rate * (ticks - 1 + lag)
                 n == From(s)
      <4>3. j \in Int /\ j <= k /\ k \in Nat
        <5>1. bucket.last - s + lag \in Int /\ ticks - 1 + lag \in Int /\ bucket.last - s + lag <= ticks - 1 + lag
          BY <1>1, <2>1, <3>2, <4>2
        <5> QED BY <3>3, <3>4, <5>1, ProductGrows
      <4>4. n \in Nat /\ n + bucket.tokens <= burst + j
        BY <2>2, <4>1
      <4> HIDE DEF j, k, n
      <4>5. n <= burst + k
        BY <3>3, <4>2, <4>3, <4>4
      <4> QED BY <4>5 DEF k, n, lag
    <3> QED BY <3>5, <3>6
  <2> QED BY <2>1, <2>3, <2>4
<1> QED BY <1>3, <1>4, <1>5, <1>6, <1>7 DEF LimitHolds

\* No limiter lets through more than it promises, and what it promises:
\* rate-limit.go and the limiters of common/limit.
THEOREM LimitHoldsAlways == LimiterSpec => []LimitHolds
<1>1. LimiterSpec => []LimiterInv
  BY LimiterInvInit, LimiterInvNext, PTL DEF LimiterSpec
<1> QED BY <1>1, LimiterInvMeans, PTL

-----------------------------------------------------------------------------
(* The composition. *)

\* Routing does not touch the limiters: what they promise they promise before
\* the retry loop too.
THEOREM AdmissionIsLimiter == AdmissionSpec => LimiterSpec
<1>1. AdmissionInit => LimiterInit
  BY DEF AdmissionInit
<1>2. [Limits \/ Relays]_<<part, vars, limVars>> => [LimiterNext]_limVars
  BY DEF Limits, Relays
<1> QED BY <1>1, <1>2, PTL DEF AdmissionSpec, LimiterSpec

\* With the authentication and the limiters before it, the retry loop is the
\* same: the theorems about Relay hold of the composed system too.
THEOREM AdmissionIsRelay == AdmissionSpec => Spec
<1>1. AdmissionInit => RelayInit
  BY DEF AdmissionInit
<1>2. [Limits \/ Relays]_<<part, vars, limVars>> => [RelayNext]_vars
  BY DEF Limits, Relays
<1> QED BY <1>1, <1>2, PTL DEF AdmissionSpec, Spec
=============================================================================
