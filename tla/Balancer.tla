------------------------------ MODULE Balancer ------------------------------
(***************************************************************************)
(* model/balancer.go as pure operators: the routing table that Load builds *)
(* from the enabled rows of the channels table, and the channels that Next *)
(* may return from it for a group, a model and a set of filters.           *)
(*                                                                         *)
(* Rule, Channels, Match and ModelGroup are replaced together under one    *)
(* lock, so one value, the view, stands for all of them: Rule is computed  *)
(* from it.  Comma separated lists of groups and models are sets.          *)
(***************************************************************************)
EXTENDS Integers, Sequences, FiniteSets

CONSTANTS Channels,    \* channel ids
          Groups,      \* user groups
          Models,      \* the model names a client may ask for
          Types,       \* channel types
          Wildcards,   \* model names that end in "*"
          Covers,      \* the pairs <<wildcard, model>> where the prefix matches
          DefaultChannelWeight

NoName == "no name"

ASSUME BalancerAssumption ==
    /\ IsFiniteSet(Channels) /\ IsFiniteSet(Wildcards)
    /\ Models \cap Wildcards = {}
    /\ NoName \notin Models \cup Wildcards
    /\ Covers \subseteq Wildcards \X Models
    /\ DefaultChannelWeight \in Nat \ {0}

Seqs == INSTANCE SequencesExt
Funs == INSTANCE Functions

Enabled          == "enabled"
ManuallyDisabled == "manually disabled"
AutoDisabled     == "auto disabled"
Unborn           == "not inserted"
Absent           == "deleted"

\* What the routing of a request reads of a row of the channels table.
\* mapping is the model a channel asks its upstream for; NoName stands for a
\* model_mapping column that does not parse.
Row == [status : {Enabled, ManuallyDisabled, AutoDisabled, Unborn, Absent},
        group : SUBSET Groups, models : SUBSET (Models \cup Wildcards),
        priority : Int, weight : Nat, type : Types,
        onlyChat : BOOLEAN, disabledStream : SUBSET Models,
        mapping : [Models -> Models \cup {NoName}]]

\* ChannelChoice.
Choice == [channel : Row, disable : BOOLEAN]

-----------------------------------------------------------------------------
(* Load *)

LoadChannels(rows) ==
    [c \in {d \in Channels : rows[d].status = Enabled} |->
        [channel |-> [rows[c] EXCEPT !.weight =
                         IF @ = 0 THEN DefaultChannelWeight ELSE @],
         disable |-> FALSE]]

\* The wildcards of the table, in the order of a Go map iteration: any.
MatchLists(chs) ==
    Seqs!SetToSeqs({w \in Wildcards : \E c \in DOMAIN chs :
                        /\ w \in chs[c].channel.models
                        /\ chs[c].channel.group # {}})

\* The views a Load that read rows may install.
Load(rows) ==
    [channels : {LoadChannels(rows)}, match : MatchLists(LoadChannels(rows))]

Listed(view, group, name) ==
    {c \in DOMAIN view.channels :
        /\ group \in view.channels[c].channel.group
        /\ name \in view.channels[c].channel.models}

Priority(view, c) == view.channels[c].channel.priority

\* Rule[group][name]: the channel ids, one set per priority.
Rule(view, group, name) ==
    LET levels == {Priority(view, c) : c \in Listed(view, group, name)}
        ps     == CHOOSE s \in Seqs!SetToSeqs(levels) : \A i, j \in DOMAIN s : i < j => s[i] > s[j]
    IN  [i \in DOMAIN ps |-> {c \in Listed(view, group, name) : Priority(view, c) = ps[i]}]

-----------------------------------------------------------------------------
(* Next *)

\* The filters of fetchChannelByModel: TRUE where a channel is filtered out.
Filtered(view, c, name, filter) ==
    \/ c \in filter.skip
    \/ filter.skipOnlyChat /\ view.channels[c].channel.onlyChat
    \/ view.channels[c].channel.type \notin filter.allowTypes
    \/ filter.isStream /\ name \in view.channels[c].channel.disabledStream

\* The candidates of one priority.  cooling is the set of pairs <<channel,
\* name>> whose cooldown has not expired.
Valid_IgnoresCooldown(view, ids, name, filter, cooling) ==  \* Mutant: no IsInCooldown
    {c \in ids : /\ c \in DOMAIN view.channels
                 /\ ~view.channels[c].disable
                 /\ ~Filtered(view, c, name, filter)}
Valid(view, ids, name, filter, cooling) ==
    {c \in ids : /\ c \in DOMAIN view.channels
                 /\ ~view.channels[c].disable
                 /\ <<c, name>> \notin cooling
                 /\ ~Filtered(view, c, name, filter)}

TotalWeight(view, ids) ==
    Funs!FoldFunctionOnSet(+, 0, [c \in ids |-> view.channels[c].channel.weight], ids)

\* The loop of balancer over its candidates in the order seq, for one draw
\* of rand.Intn(totalWeight): weights are subtracted until the draw is
\* negative.
Drawn_OffByOne(view, seq, draw, c) ==   \* Mutant: choiceWeight <= 0
    \E i \in 1..Len(seq) :
        /\ seq[i] = c
        /\ draw <= TotalWeight(view, {seq[j] : j \in 1..i})
        /\ \A k \in 1..(i - 1) : draw > TotalWeight(view, {seq[j] : j \in 1..k})
Drawn(view, seq, draw, c) ==
    \E i \in 1..Len(seq) :
        /\ seq[i] = c
        /\ draw < TotalWeight(view, {seq[j] : j \in 1..i})
        /\ \A k \in 1..(i - 1) : draw >= TotalWeight(view, {seq[j] : j \in 1..k})

\* The channels balancer may return; {} when it returns nil.
balancer(view, ids, name, filter, cooling) ==
    LET valid == Valid(view, ids, name, filter, cooling)
    IN  IF Cardinality(valid) <= 1
        THEN valid
        ELSE {c \in valid : \E draw \in 0..(TotalWeight(view, valid) - 1) :
                                Drawn(view, Seqs!SetToSeq(valid), draw, c)}

\* GetModelsWithMatch: the first wildcard of the list, whatever its group.
GetModelsWithMatch(view, name) ==
    LET hits == {i \in 1..Len(view.match) : <<view.match[i], name>> \in Covers}
    IN  IF hits = {} THEN NoName
        ELSE view.match[CHOOSE i \in hits : \A j \in hits : i <= j]

\* The key under which Next looks a model up.
RuleKey(view, group, name) ==
    IF Listed(view, group, name) # {} THEN name ELSE GetModelsWithMatch(view, name)

\* The channels Next may return; {} stands for its errors, which its callers
\* do not tell apart.
NextChannel_FirstTierOnly(view, group, name, filter, cooling) ==   \* Mutant: no fallback
    LET tiers == Rule(view, group, RuleKey(view, group, name))
    IN  IF tiers = <<>> THEN {}
        ELSE balancer(view, tiers[1], name, filter, cooling)
NextChannel(view, group, name, filter, cooling) ==
    LET tiers == Rule(view, group, RuleKey(view, group, name))
        found == {i \in DOMAIN tiers : balancer(view, tiers[i], name, filter, cooling) # {}}
    IN  IF found = {} THEN {}
        ELSE balancer(view, tiers[CHOOSE i \in found : \A j \in found : i <= j],
                      name, filter, cooling)
=============================================================================
