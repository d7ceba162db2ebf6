----------------------------- MODULE MCRecharge -----------------------------
(***************************************************************************)
(* The account of a user, one side of it per behaviour.  Recharge: an      *)
(* order that is notified twice, a second order, and one code that two     *)
(* requests redeem.  Accounts: a root user and one who registers, two      *)
(* handlers at once.  Caches: two processes over one Redis.  They share no *)
(* state here: part names the one a behaviour is about, and the others     *)
(* stay as they begin.                                                     *)
(***************************************************************************)
EXTENDS Recharge, Accounts, Caches

CONSTANTS k1, k2, k3, o1, o2, r1, r2, c1

VARIABLE part

MCOrderOf == [k \in Callbacks |-> IF k = k3 THEN o2 ELSE o1]
MCGatewayNo == [k \in Callbacks |-> IF k = k3 THEN "p2" ELSE "p1"]
MCNodeOf == [k \in Callbacks |-> "n1"]
MCCodeOf == [r \in Redeemers |-> c1]
MCOrderQuota == [o \in Orders |-> 2]
MCCodeQuota == [c \in Codes |-> 1]

\* Ranges that the amounts of the instance cross.
MCPromotions == {[symbol |-> "vip", min |-> 3, max |-> 5],
                 [symbol |-> "svip", min |-> 5, max |-> 0]}

MCRole == [u \in Users |-> IF u = 1 THEN RoleRootUser ELSE RoleCommonUser]
MCUserForms == {[status |-> "disabled", role |-> RoleCommonUser, group |-> "default"],
                [status |-> "enabled", role |-> RoleAdminUser, group |-> "vip"]}

accountVars == <<part, vars, accVars, cacheVars>>

AccountInit == part \in {"recharge", "rows", "caches"} /\ Init /\ AccInit /\ CachesInit

Recharges(step) == part = "recharge" /\ step /\ UNCHANGED <<part, accVars, cacheVars>>

Writes == part = "rows" /\ AccNext /\ UNCHANGED <<part, vars, cacheVars>>

Caching(step) == part = "caches" /\ step /\ UNCHANGED <<part, vars, accVars>>

AccountNext == Recharges(Next) \/ Writes \/ Caching(CachesNext)

\* A callback that was received runs, and gets the lock when nobody has it; so
\* does a load, and what was reserved is settled; keys expire.
AccountSpec ==
    /\ AccountInit /\ [][AccountNext]_accountVars
    /\ \A k \in Callbacks : WF_accountVars(Recharges(Callback(k)))
    /\ WF_accountVars(Caching(CacheSteps))
    /\ \A k \in Keys :
          /\ WF_accountVars(Caching(Expire(k)))
          /\ \A n \in CacheNodes : WF_accountVars(Caching(Fill(n, k)))

\* No callback waits for ever for a lock, and when the writing is over the keys
\* agree with the rows for good, but for a quota key that DECRBY created.
AccountsSettle == <>[](CallbacksOver /\ CacheSettled)
=============================================================================
