------------------------------ MODULE MCTables ------------------------------
(***************************************************************************)
(* The tables that a request is looked up in, one per behaviour: the       *)
(* routing table (MCBalancer) and the prices, for a master and a server    *)
(* that reloads.  They share no state: part names the one a behaviour is   *)
(* about, and the other stays as it begins.                                *)
(***************************************************************************)
EXTENDS MCBalancer, Pricing, TLC

VARIABLE part

MCCovers == {<<"gpt*", "gpt-4">>, <<"gpt-*", "gpt-4">>}

\* The tables of the instance: a channel lists the model itself or one or
\* both of two wildcards that cover it, in one or both groups.
MCRows(c) ==
    [status : IF c = 3 THEN {Enabled, AutoDisabled} ELSE {Enabled},
     group : IF c = 1 THEN {{"g1"}, {"g2"}} ELSE IF c = 2 THEN {{"g1"}, {"g1", "g2"}} ELSE {{"g1"}},
     models : {{"gpt-4"}, IF c = 1 THEN {"gpt*"} ELSE IF c = 2 THEN {"gpt-*"} ELSE {"gpt*", "gpt-*"}},
     priority : IF c = 3 THEN {1, 2} ELSE {0, 1},
     weight : {IF c = 1 THEN 0 ELSE c},
     type : {IF c = 2 THEN "b" ELSE "a"}, onlyChat : {c = 3},
     disabledStream : {IF c = 2 THEN {"gpt-4"} ELSE {}},
     mapping : {[m \in Models |-> m]}]
MCRowChoices == [c \in Channels |-> MCRows(c)]
MCFlags == {{}, {1}, {2}}
MCCooldowns == {{}, {<<2, "gpt-4">>}, {<<1, "gpt-4">>, <<3, "gpt-4">>}}
MCFilters ==
    [skip : {{}, {2, 3}}, skipOnlyChat : BOOLEAN, isStream : BOOLEAN,
     allowTypes : {{"a"}, {"a", "b"}}]
MCRequests == [group : Groups, model : Models, filter : MCFilters]

MCPrice(m, p, l) == [model |-> m, price |-> p, locked |-> l]
MCPriceForms == {MCPrice("m", 2, TRUE), MCPrice("w*", 2, FALSE)}
MCBatches == {[originals |-> {"m"}, names |-> n] : n \in {{"m"}, {"w*"}}}
MCInitTables == {{MCPrice("m", 1, FALSE)}, {MCPrice("m", 1, TRUE), MCPrice("w*", 1, FALSE)}}
MCLoop == "s2" :> 3

tableVars == <<part, vars, priceVars>>

\* A routing table without a channel.
OneRouting ==
    /\ view \in Load([c \in Channels |-> [status |-> Absent]])
    /\ cooling = {}
    /\ asked = CHOOSE a \in Requests : TRUE

TablesInit ==
    /\ part \in {"routing", "prices"}
    /\ IF part = "routing" THEN Init ELSE OneRouting
    /\ IF part = "prices" THEN PricingInit
       ELSE PricingInit /\ prices = CHOOSE t \in InitTables : TRUE

Routes == part = "routing" /\ Step /\ UNCHANGED <<part, priceVars>>

Prices(step) == part = "prices" /\ step /\ UNCHANGED <<part, vars>>

TablesNext == Routes \/ Prices(PricingNext)

\* Operations that began go on, and SyncChannelCache is an endless loop.
TablesSpec ==
    /\ TablesInit /\ [][TablesNext]_tableVars
    /\ \A e \in Editors : WF_tableVars(Prices(PriceStep(e)))
    /\ \A s \in Servers \ {Master} : WF_tableVars(Prices(Reload(s)))

\* When the editing is over, a server that reloads its prices charges by the
\* table for good (CopyAgrees).
PricesHeal == <>[](part = "prices" => CopyAgrees)
=============================================================================
