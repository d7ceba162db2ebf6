------------------------------- MODULE Caches -------------------------------
(***************************************************************************)
(* What Redis keeps of a token, of its user's status, and of the user's    *)
(* quota (model/cache.go, common/cache), and how ValidateUserToken and     *)
(* PreQuotaConsumption use it.  Keys expire after TokenCacheSeconds.       *)
(*                                                                         *)
(* GetOrSetCache loads a missing key in two steps, a read of the table and *)
(* a write of the key; a token's key is deleted after its row was written, *)
(* a user's status never: it expires.                                      *)
(***************************************************************************)
EXTENDS Integers

CONSTANTS CacheNodes,  \* processes; singleflight works within one
          MaxRowEdits, \* bound: writes of the rows
          MaxDraws     \* bound: reservations

ASSUME CachesAssumption == MaxRowEdits \in Nat /\ MaxDraws \in Nat

VARIABLES table,   \* the rows: status of the token and of the user, and quota
          key,     \* the keys in Redis: absent, or a value and whether it expires
          loading, \* per process and key: the value read and not yet set, if any
          purging, \* the keys whose row was written and that are not yet deleted
          granted, \* the processes whose request passed the test of the quota
          open,    \* reservations to be settled
          rowEdits, draws,  \* (bounds)
          crossed  \* history: the token's key was set to what its row no longer is

cacheVars == <<table, key, loading, purging, granted, open, rowEdits, draws, crossed>>

Keys == {"token", "user", "quota"}

Enabled == 1
Disabled == 0
Gone == -1

CachesInit ==
    /\ table = [k \in Keys |-> Enabled]   \* and a quota of 1
    /\ key = [k \in Keys |-> <<>>]
    /\ loading = [n \in CacheNodes |-> [k \in Keys |-> <<>>]]
    /\ purging = {} /\ granted = {}
    /\ open = 0 /\ rowEdits = 0 /\ draws = 0 /\ crossed = FALSE

Missing(k) == key[k] = <<>>

-----------------------------------------------------------------------------
(* Reading *)

\* GetOrSetCache of a missing key, one load per process; CacheGetUserQuota does
\* the same.  A deleted token is an error, and not kept.
Load(n, k) ==
    /\ Missing(k) /\ loading[n][k] = <<>> /\ table[k] # Gone
    /\ loading' = [loading EXCEPT ![n][k] = <<table[k]>>]
    /\ UNCHANGED <<table, key, purging, granted, open, rowEdits, draws, crossed>>

Set(k, value) ==
    /\ key' = [key EXCEPT ![k] = <<value, TRUE>>]
    /\ crossed' = IF k = "token" THEN value # table[k] ELSE crossed

Fill(n, k) ==
    /\ loading[n][k] # <<>>
    /\ Set(k, loading[n][k][1])
    /\ loading' = [loading EXCEPT ![n][k] = <<>>]
    /\ UNCHANGED <<table, purging, granted, open, rowEdits, draws>>

\* Expire: by the time to live.
Expire(k) ==
    /\ ~Missing(k) /\ key[k][2]
    /\ key' = [key EXCEPT ![k] = <<>>]
    /\ crossed' = (crossed /\ k # "token")
    /\ UNCHANGED <<table, loading, purging, granted, open, rowEdits, draws>>

-----------------------------------------------------------------------------
(* Reservations *)

\* A request with a valid token of an enabled user, as the keys say, that finds
\* quota: GetTokenModel, ValidateUserToken, and the test of PreQuotaConsumption.
Grant(n) ==
    /\ \A k \in Keys : ~Missing(k) /\ key[k][1] >= 1
    /\ n \notin granted /\ draws < MaxDraws
    /\ granted' = granted \cup {n} /\ draws' = draws + 1
    /\ UNCHANGED <<table, key, loading, purging, open, rowEdits, crossed>>

\* CacheDecreaseUserQuota: DECRBY creates a missing key, without an expiry;
\* then PreConsumeTokenQuota.
Decrease(n) ==
    /\ n \in granted
    /\ key' = [key EXCEPT !["quota"] = IF @ = <<>> THEN <<-1, FALSE>> ELSE <<@[1] - 1, @[2]>>]
    /\ table' = [table EXCEPT !["quota"] = @ - 1]
    /\ granted' = granted \ {n} /\ open' = open + 1
    /\ UNCHANGED <<loading, purging, rowEdits, draws, crossed>>

\* Undo writes the table only; Consume sets the key to what it reads there.
SettleDraw(n) ==
    /\ open > 0 /\ open' = open - 1
    /\ \/ table' = [table EXCEPT !["quota"] = @ + 1] /\ UNCHANGED loading
       \/ /\ loading[n]["quota"] = <<>>
          /\ loading' = [loading EXCEPT ![n]["quota"] = <<table["quota"]>>]
          /\ UNCHANGED table
    /\ UNCHANGED <<key, purging, granted, rowEdits, draws, crossed>>

-----------------------------------------------------------------------------
(* Writing *)

Edit(k, value) ==
    /\ rowEdits < MaxRowEdits /\ rowEdits' = rowEdits + 1
    /\ table[k] # Gone
    /\ table' = [table EXCEPT ![k] = value]
    /\ UNCHANGED <<key, loading, granted, open, draws, crossed>>

\* Token.Update, UpdateByAdmin and DeleteTokenById: the row ...
EditToken_Keeps ==   \* Mutant: the key is left to expire
    /\ \E status \in {Enabled, Disabled, Gone} : Edit("token", status)
    /\ UNCHANGED purging
EditToken ==
    /\ \E status \in {Enabled, Disabled, Gone} : Edit("token", status)
    /\ purging' = purging \cup {"token"}

\* ChangeUserQuota
EditQuota ==
    /\ Edit("quota", table["quota"] + 1)
    /\ purging' = purging \cup {"quota"}

\* User.Update deletes another key, that of the group.
EditUser ==
    /\ \E status \in {Enabled, Disabled} : Edit("user", status)
    /\ UNCHANGED purging

\* ... then the key.
Purge(k) ==
    /\ k \in purging
    /\ purging' = purging \ {k}
    /\ key' = [key EXCEPT ![k] = <<>>]
    /\ crossed' = (crossed /\ k # "token")
    /\ UNCHANGED <<table, loading, granted, open, rowEdits, draws>>

CacheSteps == \/ \E n \in CacheNodes, k \in Keys : Fill(n, k)
              \/ \E k \in Keys : Purge(k)
              \/ \E n \in CacheNodes : Decrease(n) \/ SettleDraw(n)

CachesNext ==
    \/ CacheSteps
    \/ \E n \in CacheNodes, k \in Keys : Load(n, k)
    \/ \E k \in Keys : Expire(k)
    \/ \E n \in CacheNodes : Grant(n)
    \/ EditToken \/ EditQuota \/ EditUser

CachesSpec == CachesInit /\ [][CachesNext]_cacheVars

-----------------------------------------------------------------------------
(* Properties *)

\* Once its update is through, the key of a token says what its row says; but a
\* load that read the row before and set the key after leaves the old token in
\* force until the key expires.
TokenFresh ==
    ~Missing("token") /\ key["token"][1] # table["token"] => "token" \in purging \/ crossed

\* When the writing is over the keys agree with the rows for good, by expiring
\* if nothing else; but a quota key that DECRBY created does not expire.
CacheSettled ==
    \A k \in Keys : Missing(k) \/ key[k][1] = table[k] \/ (k = "quota" /\ ~key[k][2])
=============================================================================
