------------------------------- MODULE Quota -------------------------------
(***************************************************************************)
(* The billing of relayed requests: relay_util.Quota with the rows it      *)
(* updates (users.quota, users.used_quota, users.request_count,            *)
(* tokens.remain_quota, channels.used_quota), the Redis copy of the user's *)
(* quota and the batch updater that may stand between a write and its row. *)
(*                                                                         *)
(* An attempt is one call of RelayHandler, which makes a Quota of its own: *)
(* PreQuotaConsumption, the upstream call, then the goroutine of Undo or   *)
(* of Consume.  A request that is retried is several attempts, and the     *)
(* goroutine of one attempt runs beside the next.  All the attempts here   *)
(* belong to one user: users share no counter but their channels'.         *)
(*                                                                         *)
(* Every access to the database and to Redis is a step of its own; a DB    *)
(* or Redis error is an alternative of the step, at most MaxFails times.   *)
(***************************************************************************)
EXTENDS QuotaMath, FiniteSets

CONSTANTS Attempts,             \* calls of RelayHandler
          Tokens,               \* the user's API tokens
          TokenOf,              \* the token an attempt presents
          Unlimited,            \* tokens with UnlimitedQuota set
          Jobs, Usages,         \* the jobs and the usages that occur
          InitQuota,            \* users.quota at the start
          InitToken,            \* tokens.remain_quota at the start
          TopUps,               \* amounts an administrator may add
          MaxTopUps,            \* bound on the administrator's changes
          MaxFails,             \* bound on database and Redis errors
          RedisEnabled,         \* config.RedisEnabled
          BatchUpdateEnabled    \* config.BatchUpdateEnabled

\* The columns an attempt writes; a token names its own remain_quota.
Columns == {"quota", "used", "count", "channel"}
Counters == Columns \cup Tokens

ASSUME QuotaAssumption ==
    /\ Tokens \cap Columns = {}
    /\ TokenOf \in [Attempts -> Tokens]
    /\ Unlimited \subseteq Tokens
    /\ Jobs \subseteq Job
    /\ Usages \subseteq Usage
    /\ InitQuota \in Int /\ InitToken \in Int
    /\ TopUps \subseteq Int
    /\ MaxTopUps \in Nat /\ MaxFails \in Nat
    /\ RedisEnabled \in BOOLEAN /\ BatchUpdateEnabled \in BOOLEAN

VARIABLES
    db,        \* the committed value of every counter
    store,     \* batchUpdateStores: what addNewRecord collected
    flush,     \* the maps batchUpdate swapped out and has not applied yet
    keys,      \* the keys of those maps still to be applied
    phase,     \* the type batchUpdate works on (0 while it sleeps)
    cache,     \* the Redis key user_quota:<id>
    pc, job, pre, seen, handel, bill,     \* the attempt's Quota
    failed,    \* attempts that met a database or Redis error
    admin,     \* ChangeUserQuota: "idle" or about to delete the Redis key
    topUps,    \* the number of administrator changes so far
    fails,     \* the number of errors so far
    logged,    \* the consume log: what each attempt was recorded with
    \* History, written by no code: what was asked of each counter, what
    \* was lost with a failed flush, what each attempt took, and what the
    \* administrator added.
    issued, lost, userNet, tokenNet, added

counters == <<db, store, issued>>
batch == <<flush, keys, phase, lost>>
local == <<job, pre, seen, handel, bill>>
environment == <<admin, topUps, added>>
nets == <<userNet, tokenNet>>
vars == <<counters, batch, cache, pc, local, failed, environment, fails,
          logged, nets>>

-----------------------------------------------------------------------------
\* Types and initial values.

NoEntry == [val |-> 0, state |-> "absent"]
\* An entry is "expiring" when it was SET with the TTL of TokenCacheSeconds
\* and "persistent" when DECRBY created it.
Entry == [val : Int, state : {"absent", "expiring", "persistent"}]

NotLogged == -1

\* batchUpdate handles the types in the order of their iota constants.
BatchTypes == <<{"quota"}, Tokens, {"used"}, {"channel"}, {"count"}>>

Over == {"done", "failed", "refused", "rejected", "aborted"}

PCs == {"idle", "getQuota", "fillCache", "decrCache", "readToken", "readUser",
        "preToken", "preUser", "sending", "undoUser", "undoToken", "postUser",
        "postToken", "cacheRead", "cacheSet", "channel", "log", "used",
        "count"} \cup Over

NoJob == [price |-> [type |-> "tokens", input |-> 0, output |-> 0],
          groupRatio |-> 0, promptTokens |-> 0]

InitCounters ==
    [c \in Counters |-> IF c = "quota" THEN InitQuota
                        ELSE IF c \in Tokens THEN InitToken ELSE 0]

Zero == [c \in Counters |-> 0]

TypeOK ==
    /\ db \in [Counters -> Int]
    /\ store \in [Counters -> Int]
    /\ flush \in [Counters -> Int]
    /\ keys \subseteq Counters
    /\ phase \in 0..5
    /\ cache \in Entry
    /\ pc \in [Attempts -> PCs]
    /\ job \in [Attempts -> Job]
    /\ pre \in [Attempts -> Nat]
    /\ seen \in [Attempts -> Int]
    /\ handel \in [Attempts -> BOOLEAN]
    /\ bill \in [Attempts -> Nat]
    /\ failed \subseteq Attempts
    /\ admin \in {"idle", "delete"}
    /\ topUps \in 0..MaxTopUps /\ added \in Int
    /\ fails \in 0..MaxFails
    /\ logged \in [Attempts -> Int]
    /\ issued \in [Counters -> Int]
    /\ lost \in [Counters -> Int]
    /\ userNet \in [Attempts -> Int]
    /\ tokenNet \in [Attempts -> Int]

Init ==
    /\ db = InitCounters
    /\ store = Zero /\ flush = Zero /\ keys = {} /\ phase = 0
    /\ cache = NoEntry
    /\ pc = [a \in Attempts |-> "idle"]
    /\ job = [a \in Attempts |-> NoJob]
    /\ pre = [a \in Attempts |-> 0]
    /\ seen = [a \in Attempts |-> 0]
    /\ handel = [a \in Attempts |-> FALSE]
    /\ bill = [a \in Attempts |-> 0]
    /\ failed = {}
    /\ admin = "idle" /\ topUps = 0 /\ added = 0
    /\ fails = 0
    /\ logged = [a \in Attempts |-> NotLogged]
    /\ issued = Zero /\ lost = Zero
    /\ userNet = [a \in Attempts |-> 0]
    /\ tokenNet = [a \in Attempts |-> 0]

-----------------------------------------------------------------------------
\* Building blocks of the attempt's steps.

Goto(a, l) == pc' = [pc EXCEPT ![a] = l]

\* The call returned an error: the attempt ends at label l.
Fails(a, l) ==
    /\ fails < MaxFails
    /\ fails' = fails + 1
    /\ failed' = failed \cup {a}
    /\ Goto(a, l)

NoError == UNCHANGED <<fails, failed>>

\* Increase/Decrease...Quota: addNewRecord when batch updates are on, the
\* row's UPDATE counter = counter + d otherwise.
Write(c, d) ==
    /\ IF BatchUpdateEnabled
       THEN store' = [store EXCEPT ![c] = @ + d] /\ UNCHANGED db
       ELSE db' = [db EXCEPT ![c] = @ + d] /\ UNCHANGED store
    /\ issued' = [issued EXCEPT ![c] = @ + d]

\* addNewRecord cannot fail; an UPDATE can, and then changes nothing.
WriteFails(a, l) ==
    /\ ~BatchUpdateEnabled
    /\ Fails(a, l)
    /\ UNCHANGED <<counters, nets>>

WriteUser(a, d) ==
    /\ Write("quota", -d)
    /\ userNet' = [userNet EXCEPT ![a] = @ + d]
    /\ UNCHANGED tokenNet

WriteToken(a, d) ==
    /\ Write(TokenOf[a], -d)
    /\ tokenNet' = [tokenNet EXCEPT ![a] = @ + d]
    /\ UNCHANGED userNet

\* Mutant: the token's UnlimitedQuota is not looked at.
Limited_Always(a) == TRUE

Limited(a) == TokenOf[a] \notin Unlimited

\* DECRBY starts a missing key at 0 and gives it no expiry.
Decrease(e, n) ==
    [val |-> e.val - n,
     state |-> IF e.state = "absent" THEN "persistent" ELSE e.state]

\* Mutant: a refused request waits for quota instead of returning.
AfterRead_Waits(a, q, enough) == IF q < pre[a] THEN "getQuota" ELSE enough

\* Where a read of the quota sends the attempt.
AfterRead(a, q, enough) == IF q < pre[a] THEN "refused" ELSE enough

-----------------------------------------------------------------------------
\* PreQuotaConsumption.

\* NewQuota and the amount to reserve; nothing to reserve skips the rest.
Begin(a) ==
    /\ pc[a] = "idle"
    /\ \E j \in Jobs :
          /\ job' = [job EXCEPT ![a] = j]
          /\ pre' = [pre EXCEPT ![a] = PreConsume(j)]
          /\ Goto(a, IF PreConsume(j) = 0 THEN "sending" ELSE "getQuota")
    /\ UNCHANGED <<counters, batch, cache, seen, handel, bill, environment,
                   logged, nets>>
    /\ NoError

\* CacheGetUserQuota finds the Redis key.
GetQuotaHit(a) ==
    /\ pc[a] = "getQuota"
    /\ RedisEnabled /\ cache.state # "absent"
    /\ seen' = [seen EXCEPT ![a] = cache.val]
    /\ Goto(a, AfterRead(a, cache.val, "decrCache"))
    /\ UNCHANGED <<counters, batch, cache, job, pre, handel, bill,
                   environment, logged, nets>>
    /\ NoError

\* CacheGetUserQuota reads the row: Redis is off, or the key is missing.
GetQuotaRow(a) ==
    /\ pc[a] = "getQuota"
    /\ RedisEnabled => cache.state = "absent"
    /\ \/ /\ seen' = [seen EXCEPT ![a] = db["quota"]]
          /\ Goto(a, IF RedisEnabled THEN "fillCache"
                     ELSE AfterRead(a, db["quota"], "decrCache"))
          /\ NoError
       \/ /\ Fails(a, "rejected")
          /\ UNCHANGED seen
    /\ UNCHANGED <<counters, batch, cache, job, pre, handel, bill,
                   environment, logged, nets>>

\* ... and stores what it read, however old it is by now.  The error of the
\* SET is returned to PreQuotaConsumption, which gives up.
FillCache(a) ==
    /\ pc[a] = "fillCache"
    /\ \/ /\ cache' = [val |-> seen[a], state |-> "expiring"]
          /\ Goto(a, AfterRead(a, seen[a], "decrCache"))
          /\ NoError
       \/ /\ Fails(a, "rejected")
          /\ UNCHANGED cache
    /\ UNCHANGED <<counters, batch, local, environment, logged, nets>>

\* Mutant: a trusted attempt keeps its preConsumedQuota.
DecrCache_KeepsPre(a) ==
    /\ pc[a] = "decrCache"
    /\ cache' = IF RedisEnabled THEN Decrease(cache, pre[a]) ELSE cache
    /\ Goto(a, IF seen[a] > 100 * pre[a] THEN "sending" ELSE "readToken")
    /\ UNCHANGED <<counters, batch, local, environment, logged, nets>>
    /\ NoError

\* CacheDecreaseUserQuota, then the test that lets a rich user pass without
\* reserving anything.
DecrCache(a) ==
    /\ pc[a] = "decrCache"
    /\ \/ /\ cache' = IF RedisEnabled THEN Decrease(cache, pre[a]) ELSE cache
          /\ IF seen[a] > 100 * pre[a]
             THEN /\ pre' = [pre EXCEPT ![a] = 0]
                  /\ Goto(a, "sending")
             ELSE /\ Goto(a, "readToken")
                  /\ UNCHANGED pre
          /\ NoError
       \/ /\ RedisEnabled
          /\ Fails(a, "rejected")
          /\ UNCHANGED <<cache, pre>>
    /\ UNCHANGED <<counters, batch, job, seen, handel, bill, environment,
                   logged, nets>>

\* PreConsumeTokenQuota: GetTokenById and the token's own limit.
ReadToken(a) ==
    /\ pc[a] = "readToken"
    /\ \/ /\ Goto(a, IF Limited(a) /\ db[TokenOf[a]] < pre[a]
                     THEN "rejected" ELSE "readUser")
          /\ NoError
       \/ Fails(a, "rejected")
    /\ UNCHANGED <<counters, batch, cache, local, environment, logged, nets>>

\* ... GetUserQuota, from the row this time.
ReadUser(a) ==
    /\ pc[a] = "readUser"
    /\ \/ /\ Goto(a, IF db["quota"] < pre[a] THEN "rejected"
                     ELSE IF Limited(a) THEN "preToken" ELSE "preUser")
          /\ NoError
       \/ Fails(a, "rejected")
    /\ UNCHANGED <<counters, batch, cache, local, environment, logged, nets>>

\* ... DecreaseTokenQuota,
PreToken(a) ==
    /\ pc[a] = "preToken"
    /\ \/ WriteToken(a, pre[a]) /\ Goto(a, "preUser") /\ NoError
       \/ WriteFails(a, "rejected")
    /\ UNCHANGED <<batch, cache, local, environment, logged>>

\* ... and DecreaseUserQuota, whose failure leaves the token's part taken.
PreUser(a) ==
    /\ pc[a] = "preUser"
    /\ \/ /\ WriteUser(a, pre[a])
          /\ handel' = [handel EXCEPT ![a] = TRUE]
          /\ Goto(a, "sending")
          /\ NoError
       \/ WriteFails(a, "rejected") /\ UNCHANGED handel
    /\ UNCHANGED <<batch, cache, job, pre, seen, bill, environment, logged>>

-----------------------------------------------------------------------------
\* The upstream call.

\* send() returned an error: Undo, which only a reservation starts.
SendFails(a) ==
    /\ pc[a] = "sending"
    /\ Goto(a, IF handel[a] THEN "undoUser" ELSE "failed")
    /\ UNCHANGED <<counters, batch, cache, local, environment, logged, nets>>
    /\ NoError

\* Where Consume goes with the bill it computed: a bill of 0 skips the whole
\* settlement, a bill equal to the reservation has nothing to post.
AfterSend(q, reserved) ==
    IF q > 0 THEN IF q = reserved THEN "cacheRead" ELSE "postUser" ELSE "log"

\* send() succeeded: Consume prices the usage.
SendSucceeds(a) ==
    /\ pc[a] = "sending"
    /\ \E u \in Usages :
          LET q == GetTotalQuotaByUsage(job[a], u)
          IN  /\ bill' = [bill EXCEPT ![a] = q]
              /\ Goto(a, AfterSend(q, pre[a]))
    /\ UNCHANGED <<counters, batch, cache, job, pre, seen, handel,
                   environment, logged, nets>>
    /\ NoError

-----------------------------------------------------------------------------
\* Undo: PostConsumeTokenQuotaWithInfo(-preConsumedQuota).

UndoUser(a) ==
    /\ pc[a] = "undoUser"
    /\ \/ /\ WriteUser(a, -pre[a])
          /\ Goto(a, IF Limited(a) THEN "undoToken" ELSE "failed")
          /\ NoError
       \/ WriteFails(a, "failed")
    /\ UNCHANGED <<batch, cache, local, environment, logged>>

UndoToken(a) ==
    /\ pc[a] = "undoToken"
    /\ \/ WriteToken(a, -pre[a]) /\ Goto(a, "failed") /\ NoError
       \/ WriteFails(a, "failed")
    /\ UNCHANGED <<batch, cache, local, environment, logged>>

-----------------------------------------------------------------------------
\* Consume: completedQuotaConsumption.

\* Mutant: the whole bill is posted on top of the reservation.
QuotaDelta_WholeBill(a) == bill[a]

QuotaDelta(a) == bill[a] - pre[a]

\* PostConsumeTokenQuotaWithInfo(quotaDelta): the user first,
PostUser(a) ==
    /\ pc[a] = "postUser"
    /\ \/ /\ WriteUser(a, QuotaDelta(a))
          /\ Goto(a, IF Limited(a) THEN "postToken" ELSE "cacheRead")
          /\ NoError
       \/ WriteFails(a, "aborted")
    /\ UNCHANGED <<batch, cache, local, environment, logged>>

\* ... then the token.
PostToken(a) ==
    /\ pc[a] = "postToken"
    /\ \/ /\ WriteToken(a, QuotaDelta(a))
          /\ Goto(a, "cacheRead")
          /\ NoError
       \/ WriteFails(a, "aborted")
    /\ UNCHANGED <<batch, cache, local, environment, logged>>

\* CacheUpdateUserQuota: read the row,
CacheRead(a) ==
    /\ pc[a] = "cacheRead"
    /\ \/ /\ seen' = IF RedisEnabled THEN [seen EXCEPT ![a] = db["quota"]]
                     ELSE seen
          /\ Goto(a, IF RedisEnabled THEN "cacheSet" ELSE "channel")
          /\ NoError
       \/ /\ RedisEnabled
          /\ Fails(a, "aborted")
          /\ UNCHANGED seen
    /\ UNCHANGED <<counters, batch, cache, job, pre, handel, bill,
                   environment, logged, nets>>

\* ... then overwrite the Redis key.
CacheSet(a) ==
    /\ pc[a] = "cacheSet"
    /\ \/ /\ cache' = [val |-> seen[a], state |-> "expiring"]
          /\ Goto(a, "channel")
          /\ NoError
       \/ Fails(a, "aborted") /\ UNCHANGED cache
    /\ UNCHANGED <<counters, batch, local, environment, logged, nets>>

\* Mutant: the channel is charged the posted delta.
ChannelUsed_Delta(a) ==
    /\ pc[a] = "channel"
    /\ Write("channel", bill[a] - pre[a]) /\ Goto(a, "log") /\ NoError
    /\ UNCHANGED <<batch, cache, local, environment, logged, nets>>

\* UpdateChannelUsedQuota: an error is only logged.
ChannelUsed(a) ==
    /\ pc[a] = "channel"
    /\ \/ Write("channel", bill[a]) /\ Goto(a, "log") /\ NoError
       \/ ~BatchUpdateEnabled /\ Fails(a, "log") /\ UNCHANGED counters
    /\ UNCHANGED <<batch, cache, local, environment, logged, nets>>

\* RecordConsumeLog: a row, or an entry of batchLogStore.  An error is only
\* logged.
RecordLog(a) ==
    /\ pc[a] = "log"
    /\ \/ /\ logged' = [logged EXCEPT ![a] = bill[a]]
          /\ Goto(a, "used")
          /\ NoError
       \/ ~BatchUpdateEnabled /\ Fails(a, "used") /\ UNCHANGED logged
    /\ UNCHANGED <<counters, batch, cache, local, environment, nets>>

\* UpdateUserUsedQuotaAndRequestCount: one UPDATE of both columns, or two
\* records of the batch.  An error is only logged.
UpdateUsed(a) ==
    /\ pc[a] = "used"
    /\ \/ /\ ~BatchUpdateEnabled
          /\ db' = [db EXCEPT !["used"] = @ + bill[a], !["count"] = @ + 1]
          /\ issued' = [issued EXCEPT !["used"] = @ + bill[a],
                                      !["count"] = @ + 1]
          /\ Goto(a, "done")
          /\ UNCHANGED store
          /\ NoError
       \/ /\ BatchUpdateEnabled
          /\ Write("used", bill[a])
          /\ Goto(a, "count")
          /\ NoError
       \/ ~BatchUpdateEnabled /\ Fails(a, "done") /\ UNCHANGED counters
    /\ UNCHANGED <<batch, cache, local, environment, logged, nets>>

UpdateCount(a) ==
    /\ pc[a] = "count"
    /\ Write("count", 1)
    /\ Goto(a, "done")
    /\ UNCHANGED <<batch, cache, local, environment, logged, nets>>
    /\ NoError

-----------------------------------------------------------------------------
\* The batch updater: a goroutine that wakes up every BatchUpdateInterval
\* seconds and runs through the five types.

attempts == <<cache, pc, local, failed, environment, logged, nets>>

\* Mutant: the map is read but not replaced by an empty one.
BatchSwap_NoReset(i) ==
    /\ BatchUpdateEnabled
    /\ phase = i - 1 /\ keys = {}
    /\ phase' = i
    /\ keys' = {c \in BatchTypes[i] : store[c] # 0}
    /\ flush' = [c \in Counters |-> IF c \in BatchTypes[i] THEN store[c]
                                    ELSE flush[c]]
    /\ UNCHANGED <<counters, lost, fails, attempts>>

\* Take the map of type i away under its lock and leave an empty one.
BatchSwap(i) ==
    /\ BatchUpdateEnabled
    /\ phase = i - 1 /\ keys = {}
    /\ phase' = i
    /\ keys' = {c \in BatchTypes[i] : store[c] # 0}
    /\ flush' = [c \in Counters |-> IF c \in BatchTypes[i] THEN store[c]
                                    ELSE flush[c]]
    /\ store' = [c \in Counters |-> IF c \in BatchTypes[i] THEN 0
                                    ELSE store[c]]
    /\ UNCHANGED <<db, issued, lost, fails, attempts>>

\* Apply one entry of it; an entry whose UPDATE fails is gone.
BatchApply(c) ==
    /\ c \in keys
    /\ keys' = keys \ {c}
    /\ flush' = [flush EXCEPT ![c] = 0]
    /\ \/ /\ db' = [db EXCEPT ![c] = @ + flush[c]]
          /\ UNCHANGED <<fails, lost>>
       \/ /\ fails < MaxFails
          /\ fails' = fails + 1
          /\ lost' = [lost EXCEPT ![c] = @ + flush[c]]
          /\ UNCHANGED db
    /\ UNCHANGED <<store, issued, phase, attempts>>

\* Mutant: the loop over the types stops one short.
BatchSleep_OneShort ==
    /\ phase = 4 /\ keys = {}
    /\ phase' = 0
    /\ UNCHANGED <<counters, flush, keys, lost, fails, attempts>>

\* The round is over: sleep until the next one.
BatchSleep ==
    /\ phase = 5 /\ keys = {}
    /\ phase' = 0
    /\ UNCHANGED <<counters, flush, keys, lost, fails, attempts>>

-----------------------------------------------------------------------------
\* The surroundings: the TTL of the Redis key, and an administrator who
\* changes the user's quota (ChangeUserQuota: the row, then DEL of the key).

CacheExpires ==
    /\ cache.state = "expiring"
    /\ cache' = NoEntry
    /\ UNCHANGED <<counters, batch, pc, local, failed, environment, fails,
                   logged, nets>>

ChangeQuotaRow ==
    /\ admin = "idle" /\ topUps < MaxTopUps
    /\ topUps' = topUps + 1
    /\ \E n \in TopUps :
          /\ db' = [db EXCEPT !["quota"] = @ + n]
          /\ issued' = [issued EXCEPT !["quota"] = @ + n]
          /\ added' = added + n
    /\ admin' = IF RedisEnabled THEN "delete" ELSE "idle"
    /\ UNCHANGED <<store, batch, cache, pc, local, failed, fails, logged,
                   nets>>

ChangeQuotaDelete ==
    /\ admin = "delete"
    /\ admin' = "idle"
    /\ cache' = NoEntry
    /\ UNCHANGED <<counters, batch, pc, local, failed, topUps, added, fails,
                   logged, nets>>

-----------------------------------------------------------------------------
Reserve(a) ==
    \/ Begin(a) \/ GetQuotaHit(a) \/ GetQuotaRow(a) \/ FillCache(a)
    \/ DecrCache(a) \/ ReadToken(a) \/ ReadUser(a) \/ PreToken(a) \/ PreUser(a)

Settle(a) ==
    \/ SendFails(a) \/ SendSucceeds(a) \/ UndoUser(a) \/ UndoToken(a)
    \/ PostUser(a) \/ PostToken(a) \/ CacheRead(a) \/ CacheSet(a)
    \/ ChannelUsed(a) \/ RecordLog(a) \/ UpdateUsed(a) \/ UpdateCount(a)

Batch ==
    \/ \E i \in 1..5 : BatchSwap(i)
    \/ \E c \in Counters : BatchApply(c)
    \/ BatchSleep

Environment == CacheExpires \/ ChangeQuotaRow \/ ChangeQuotaDelete

Next ==
    \/ \E a \in Attempts : Reserve(a) \/ Settle(a)
    \/ Batch
    \/ Environment

Spec == Init /\ [][Next]_vars

\* A started attempt runs to its end (the goroutines are never parked, and
\* the upstream answers or its connection times out), the updater wakes up
\* again and again.  Nobody owes the system a new request, a top-up or an
\* expiry.
Fairness ==
    /\ \A a \in Attempts : WF_vars(pc[a] # "idle" /\ (Reserve(a) \/ Settle(a)))
    /\ WF_vars(Batch)

FairSpec == Spec /\ Fairness

-----------------------------------------------------------------------------
\* Properties.

\* The batch updater neither loses nor repeats a record: at every moment the
\* row, the collected records and the ones taken for the flush add up to all
\* that was ever asked of the counter, less the entries whose UPDATE failed.
\* (addNewRecord and batchUpdate work on the same maps; only the swap under
\* the lock separates them.)
BatchConserves ==
    \A c \in Counters :
        db[c] + store[c] + flush[c] + lost[c] = InitCounters[c] + issued[c]

\* A finished attempt that met no error took from the user exactly its bill,
\* and one that ended in an error of its own or of the upstream took nothing:
\* reservation, Undo and Consume add up, whatever the interleaving.  (A bill
\* of 0 keeps the reservation: see ZeroUsageReturnsReservation.)
BillSettled ==
    \A a \in Attempts : pc[a] \in Over /\ a \notin failed =>
        IF pc[a] = "done"
        THEN bill[a] > 0 \/ pre[a] = 0 => userNet[a] = bill[a]
        ELSE userNet[a] = 0

\* The token's books follow the user's: between two writes of a pair, and
\* only then, do they differ.  An unlimited token is never touched.
TokenFollowsUser ==
    \A a \in Attempts \ failed :
        IF TokenOf[a] \in Unlimited THEN tokenNet[a] = 0
        ELSE tokenNet[a] - userNet[a] =
                CASE pc[a] = "preUser" -> pre[a]
                  [] pc[a] = "undoToken" -> pre[a]
                  [] pc[a] = "postToken" -> pre[a] - bill[a]
                  [] OTHER -> 0

\* No attempt ever leaves the user or the token richer than before it, not
\* even when database errors cut its writes in half: Undo and a negative
\* delta of Consume give back at most what this attempt took.
NoCreditFromNothing ==
    \A a \in Attempts : userNet[a] >= 0 /\ tokenNet[a] >= 0

\* What the comment in GetTotalQuota says of a request without tokens: "we
\* may have to return the pre-consumed quota".
ZeroUsageReturnsReservation ==
    \A a \in Attempts :
        pc[a] = "done" /\ bill[a] = 0 /\ a \notin failed => userNet[a] = 0

\* Once an attempt has begun it comes to an end: no step waits for another
\* attempt or for the updater.
AttemptsEnd == \A a \in Attempts : pc[a] # "idle" ~> pc[a] \in Over

\* What addNewRecord collects does not stay in memory: every record reaches
\* the flush and the flush comes to an end.
BatchDrains ==
    \A c \in Counters : store[c] # 0 \/ flush[c] # 0
                            ~> store[c] = 0 /\ flush[c] = 0
=============================================================================
