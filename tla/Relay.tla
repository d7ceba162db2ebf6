-------------------------------- MODULE Relay --------------------------------
(***************************************************************************)
(* relay/main.go and the channel selection of relay/common.go over the     *)
(* channels of module Channels: a request is given a channel of its        *)
(* token's group or of the backup group, is sent, and after a failure is   *)
(* retried on another channel; a channel that answers 429 is frozen for    *)
(* all requests; an error that ShouldDisableChannel recognises disables    *)
(* the channel from a goroutine of its own.                                *)
(*                                                                         *)
(* What one send costs is module Quota; here only the group whose ratio    *)
(* the context holds when a send is billed.                                *)
(***************************************************************************)
EXTENDS Channels

CONSTANTS Requests,
          Asked,                 \* Asked[q]: what request q is, see AskedType
          RatioGroups,           \* the groups that have a ratio
          Errors,                \* the errors a send may return, see ErrorTraits
          RetryTimes,            \* config.RetryTimes
          RetryTimeOut,          \* config.RetryTimeOut, in seconds
          RetryCooldownSeconds,  \* config.RetryCooldownSeconds
          MaxTime                \* bound: the clock of a behaviour

NoChannel == 0

\* An error is the set of its traits: "rate" a status of 429, "retry" that
\* the send is not done and shouldRetry accepts it, "ban" that
\* ShouldDisableChannel accepts it.
ErrorTraits == {"rate", "retry", "ban"}

\* group is the token's effective group; backup its backup group, or NoName.
\* specific is the channel id an administrator put into the key, skip the
\* one he excluded.  preMap: a chat completion path, which fetches a channel
\* once more before the request is parsed.
AskedType ==
    [group : Groups, backup : Groups \cup {NoName}, model : Models,
     specific : Channels \cup {NoChannel}, skip : SUBSET Channels,
     preMap : BOOLEAN, skipOnlyChat : BOOLEAN, isStream : BOOLEAN,
     allowTypes : SUBSET Types]

ASSUME RelayAssumption ==
    /\ NoChannel \notin Channels
    /\ Asked \in [Requests -> AskedType]
    /\ \A q \in Requests : Asked[q].group \in RatioGroups
    /\ Errors \subseteq SUBSET ErrorTraits
    /\ RetryTimes \in Nat /\ RetryTimeOut \in Nat
    /\ RetryCooldownSeconds \in Nat /\ MaxTime \in Nat

VARIABLES cool,       \* Cooldowns: the deadline of each <<channel, model>>, 0 for none
          now,        \* time.Now().Unix()
          pc,         \* where each request is in Relay
          channel,    \* relay.getProvider().GetChannel().Id
          newModel,   \* "new_model" of the context
          group,      \* the group the channel was found in
          ratio,      \* the group whose ratio is "group_ratio" of the context
          skip,       \* "skip_channel_ids" of the context
          apiErr,     \* the traits of the last error
          remain,     \* retries left
          start,      \* "requestStartTime"
          banning,    \* pending "go processChannelRelayError" goroutines that
                      \* will disable their channel
          sent,       \* history: the channels a request was sent to
          frozen,     \* history: the deadline of the last freeze that was stored
          promised    \* history: the deadline of the last freeze that was asked
                      \* for, by the model the client asked for

reqVars == <<pc, channel, newModel, group, ratio, skip, apiErr, remain, start, sent>>

relayVars == <<cool, now, banning, frozen, promised, reqVars>>

vars == <<chanVars, relayVars>>

PCs == {"new", "preMap", "first", "send", "loop", "retry", "failed", "done"}

Keys == Channels \X Models

RelayTypeOK ==
    /\ TypeOK
    /\ cool \in [Keys -> Nat]
    /\ now \in 0..MaxTime
    /\ pc \in [Requests -> PCs]
    /\ channel \in [Requests -> Channels \cup {NoChannel}]
    /\ newModel \in [Requests -> Models \cup {NoName}]
    /\ group \in [Requests -> Groups]
    /\ ratio \in [Requests -> Groups]
    /\ skip \in [Requests -> SUBSET Channels]
    /\ apiErr \in [Requests -> SUBSET ErrorTraits]
    /\ remain \in [Requests -> 0..RetryTimes]
    /\ start \in [Requests -> 0..MaxTime]
    /\ banning \in [Channels -> Nat]
    /\ sent \in [Requests -> Seq(Channels)]
    /\ frozen \in [Keys -> Nat]
    /\ promised \in [Keys -> Nat]

RelayInit ==
    /\ ChanInit
    /\ cool = [k \in Keys |-> 0]
    /\ now = 0
    /\ pc = [q \in Requests |-> "new"]
    /\ channel = [q \in Requests |-> NoChannel]
    /\ newModel = [q \in Requests |-> NoName]
    /\ group = [q \in Requests |-> Asked[q].group]
    /\ ratio = [q \in Requests |-> Asked[q].group]
    /\ skip = [q \in Requests |-> Asked[q].skip]
    /\ apiErr = [q \in Requests |-> {}]
    /\ remain = [q \in Requests |-> RetryTimes]
    /\ start = [q \in Requests |-> 0]
    /\ banning = [c \in Channels |-> 0]
    /\ sent = [q \in Requests |-> <<>>]
    /\ frozen = [k \in Keys |-> 0]
    /\ promised = [k \in Keys |-> 0]

Goto(q, place) == pc' = [pc EXCEPT ![q] = place]

-----------------------------------------------------------------------------
(* GetProvider *)

Cooling == {k \in Keys : now < cool[k]}

\* The filters of fetchChannelByModel.  Before the request is parsed neither
\* is_stream nor skip_only_chat is in the context.
Filter(q, parsed) ==
    [skip |-> skip[q], allowTypes |-> Asked[q].allowTypes,
     skipOnlyChat |-> parsed /\ Asked[q].skipOnlyChat,
     isStream |-> parsed /\ Asked[q].isStream]

Candidates(q, g, parsed) ==
    NextChannel(view, g, Asked[q].model, Filter(q, parsed), Cooling)

UsesBackup(q, parsed) ==
    /\ Asked[q].specific = NoChannel
    /\ Candidates(q, Asked[q].group, parsed) = {}
    /\ Asked[q].backup \notin {NoName, Asked[q].group}

\* The channels fetchChannel may return; {} when it fails.  A channel named
\* in the key is looked up in the table, every other one in the view.
Fetched(q, parsed) ==
    IF Asked[q].specific # NoChannel
    THEN {c \in {Asked[q].specific} : rows[c].status = Enabled}
    ELSE IF UsesBackup(q, parsed)
    THEN Candidates(q, Asked[q].backup, parsed)
    ELSE Candidates(q, Asked[q].group, parsed)

\* The row a fetched channel is used with.
ChannelOf(q, c) ==
    IF Asked[q].specific # NoChannel THEN rows[c] ELSE view.channels[c].channel

\* GetProvider as a step of q: on success q goes on to ok, on failure to ko.
\* The ratio is replaced when the backup group is used and never put back.
GetProvider_KeepsRatio(q, parsed, ok, ko) ==   \* Mutant: backup at the old ratio
    /\ UNCHANGED ratio
    /\ \/ \E c \in Fetched(q, parsed) :
            LET found  == IF UsesBackup(q, parsed) THEN Asked[q].backup ELSE Asked[q].group
                mapped == ChannelOf(q, c).mapping[Asked[q].model]
            IN  /\ channel' = [channel EXCEPT ![q] = c]
                /\ newModel' = [newModel EXCEPT ![q] = mapped]
                /\ group' = [group EXCEPT ![q] = found]
                /\ Goto(q, ok)
       \/ /\ Fetched(q, parsed) = {}
          /\ Goto(q, ko)
          /\ UNCHANGED <<channel, newModel, group>>
GetProvider(q, parsed, ok, ko) ==
    \/ \E c \in Fetched(q, parsed) :
          LET found  == IF UsesBackup(q, parsed) THEN Asked[q].backup ELSE Asked[q].group
              mapped == ChannelOf(q, c).mapping[Asked[q].model]
          IN  IF UsesBackup(q, parsed) /\ found \notin RatioGroups
              THEN Goto(q, ko) /\ UNCHANGED <<channel, newModel, group, ratio>>
              ELSE /\ ratio' = IF UsesBackup(q, parsed)
                               THEN [ratio EXCEPT ![q] = found] ELSE ratio
                   /\ IF mapped = NoName
                      THEN Goto(q, ko) /\ UNCHANGED <<channel, newModel, group>>
                      ELSE /\ channel' = [channel EXCEPT ![q] = c]
                           /\ newModel' = [newModel EXCEPT ![q] = mapped]
                           /\ group' = [group EXCEPT ![q] = found]
                           /\ Goto(q, ok)
    \/ /\ Fetched(q, parsed) = {}
       /\ Goto(q, ko)
       /\ UNCHANGED <<channel, newModel, group, ratio>>

-----------------------------------------------------------------------------
(* Relay *)

Arrive(q) ==
    /\ pc[q] = "new"
    /\ Goto(q, IF Asked[q].preMap THEN "preMap" ELSE "first")
    /\ start' = [start EXCEPT ![q] = now]
    /\ UNCHANGED <<chanVars, cool, now, banning, frozen, promised,
                   channel, newModel, group, ratio, skip, apiErr, remain, sent>>

\* applyPreMappingBeforeRequest; its errors are ignored.
PreMap(q) ==
    /\ pc[q] = "preMap"
    /\ GetProvider(q, FALSE, "first", "first")
    /\ UNCHANGED <<chanVars, cool, now, banning, frozen, promised,
                   skip, apiErr, remain, start, sent>>

\* setProvider before the first send; its error is the answer.
First(q) ==
    /\ pc[q] = "first"
    /\ GetProvider(q, TRUE, "send", "failed")
    /\ UNCHANGED <<chanVars, cool, now, banning, frozen, promised,
                   skip, apiErr, remain, start, sent>>

SendSucceeds(q) ==
    /\ pc[q] = "send"
    /\ sent' = [sent EXCEPT ![q] = Append(@, channel[q])]
    /\ Goto(q, "done")
    /\ UNCHANGED <<chanVars, cool, now, banning, frozen, promised,
                   channel, newModel, group, ratio, skip, apiErr, remain, start>>

\* A send with a specific channel is never retried.
Retries_NoLimit(q, err) == "retry" \in err /\ Asked[q].specific = NoChannel   \* Mutant
Retries(q, err) ==
    /\ "retry" \in err
    /\ Asked[q].specific = NoChannel
    /\ remain[q] > 0

SendFails(q, err) ==
    /\ pc[q] = "send"
    /\ sent' = [sent EXCEPT ![q] = Append(@, channel[q])]
    /\ apiErr' = [apiErr EXCEPT ![q] = err]
    /\ banning' = IF "ban" \in err THEN [banning EXCEPT ![channel[q]] = @ + 1] ELSE banning
    /\ Goto(q, IF Retries(q, err) THEN "loop" ELSE "failed")
    /\ UNCHANGED <<chanVars, cool, now, frozen, promised,
                   channel, newModel, group, ratio, skip, remain, start>>

\* SetCooldowns: an entry that has expired but is still there is not renewed.
SetCooldowns(c, name) ==
    IF RetryCooldownSeconds # 0 /\ cool[<<c, name>>] = 0
    THEN /\ cool' = [cool EXCEPT ![<<c, name>>] = now + RetryCooldownSeconds]
         /\ frozen' = [frozen EXCEPT ![<<c, name>>] = now + RetryCooldownSeconds]
    ELSE UNCHANGED <<cool, frozen>>

\* The top of the retry loop: shouldCooldowns and the time limit.
Freeze_NoSkip(q) ==   \* Mutant: skip_channel_ids is not appended to
    /\ pc[q] = "loop"
    /\ remain' = [remain EXCEPT ![q] = @ - 1]
    /\ Goto(q, IF now - start[q] > RetryTimeOut THEN "failed" ELSE "retry")
    /\ UNCHANGED <<chanVars, cool, now, banning, frozen, promised,
                   channel, newModel, group, ratio, skip, apiErr, start, sent>>
Freeze(q) ==
    /\ pc[q] = "loop"
    /\ remain' = [remain EXCEPT ![q] = @ - 1]
    /\ IF "rate" \in apiErr[q]
       THEN /\ SetCooldowns(channel[q], newModel[q])
            /\ promised' = [promised EXCEPT ![<<channel[q], Asked[q].model>>] =
                               now + RetryCooldownSeconds]
       ELSE UNCHANGED <<cool, frozen, promised>>
    /\ skip' = [skip EXCEPT ![q] = @ \cup {channel[q]}]
    /\ Goto(q, IF now - start[q] > RetryTimeOut THEN "failed" ELSE "retry")
    /\ UNCHANGED <<chanVars, now, banning,
                   channel, newModel, group, ratio, apiErr, start, sent>>

\* setProvider in the loop; its failure leaves the last error as the answer.
Retry_Waits(q) ==   \* Mutant: waits until some channel is free
    /\ pc[q] = "retry"
    /\ GetProvider(q, TRUE, "send", "retry")
    /\ UNCHANGED <<chanVars, cool, now, banning, frozen, promised,
                   skip, apiErr, remain, start, sent>>
Retry(q) ==
    /\ pc[q] = "retry"
    /\ GetProvider(q, TRUE, "send", "failed")
    /\ UNCHANGED <<chanVars, cool, now, banning, frozen, promised,
                   skip, apiErr, remain, start, sent>>

-----------------------------------------------------------------------------
(* Around the requests *)

\* processChannelRelayError on its goroutine.
ProcessChannelRelayError(c) ==
    /\ banning[c] > 0
    /\ banning' = [banning EXCEPT ![c] = @ - 1]
    /\ DisableChannel(c)
    /\ UNCHANGED <<cool, now, frozen, promised, reqVars>>

\* The hourly CleanupExpiredCooldowns.
CleanupExpiredCooldowns ==
    /\ cool' = [k \in Keys |-> IF now >= cool[k] THEN 0 ELSE cool[k]]
    /\ cool' # cool
    /\ UNCHANGED <<chanVars, now, banning, frozen, promised, reqVars>>

Tick ==
    /\ now < MaxTime
    /\ now' = now + 1
    /\ UNCHANGED <<chanVars, cool, banning, frozen, promised, reqVars>>

Step(q) ==
    \/ Arrive(q) \/ PreMap(q) \/ First(q) \/ SendSucceeds(q)
    \/ \E err \in Errors : SendFails(q, err)
    \/ Freeze(q) \/ Retry(q)

RelayNext ==
    \/ \E q \in Requests : Step(q)
    \/ \E c \in Channels : ProcessChannelRelayError(c)
    \/ CleanupExpiredCooldowns
    \/ Tick
    \/ (Admin \/ Refresh) /\ UNCHANGED relayVars

Spec == RelayInit /\ [][RelayNext]_vars

\* A request that arrived goes on: its goroutine runs and the upstream call
\* ends with an answer, an error or the client's time-out.
FairSpec == Spec /\ \A q \in Requests : WF_vars(Step(q))

-----------------------------------------------------------------------------
(* Properties *)

\* Retries go elsewhere: one request is never sent twice to one channel,
\* whatever becomes of the table, the view and the cooldowns between its
\* sends (skip_channel_ids of shouldCooldowns and FilterChannelId).
NoChannelTwice ==
    \A q \in Requests : \A i, j \in DOMAIN sent[q] : sent[q][i] = sent[q][j] => i = j

\* "When the retries are used up the request ends" (zh_CN.json:148).
RetriesBounded == \A q \in Requests : Len(sent[q]) <= RetryTimes + 1

\* A send on a channel of the backup group is billed at the ratio of the
\* backup group (setGroupRatio), on the first try and on every retry.
BackupBilled ==
    \A q \in Requests : pc[q] = "send" /\ group[q] = Asked[q].backup => ratio[q] = group[q]

\* A freeze that was stored holds for all of RetryCooldownSeconds: no Load,
\* no cleanup and no other request makes the channel eligible for that model
\* before, in any group and under any filter.
FreezeHolds ==
    \A c \in Channels, m \in Models, g \in Groups :
        now < frozen[<<c, m>>] =>
            c \notin NextChannel(view, g, m, [skip |-> {}, allowTypes |-> Types,
                                   skipOnlyChat |-> FALSE, isStream |-> FALSE], Cooling)

\* "After a failure the channel is frozen for a while, and nobody uses it
\* until the freeze is over" (zh_CN.json:148, for the 429 of main.go:182): no
\* request for a model is given a channel before the end of the last freeze
\* asked for on behalf of that model.
FrozenNotUsed ==
    [][\A q \in Requests : pc[q] # "send" /\ pc'[q] = "send" =>
          now >= promised[<<channel'[q], Asked[q].model>>]]_vars

\* Every request that arrived is answered.
Answered == \A q \in Requests : pc[q] \in {"failed", "done"}
=============================================================================
