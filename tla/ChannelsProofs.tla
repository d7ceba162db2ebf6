--------------------------- MODULE ChannelsProofs ---------------------------
(***************************************************************************)
(* What every step on the channels table and on its in-memory view keeps   *)
(* (modules Balancer and Channels), and the components that make such      *)
(* steps: the channel test, and the relay retry loop with its cooldowns.   *)
(***************************************************************************)
EXTENDS ChannelTest, Relay, FiniteSetTheorems, TLAPS

\* The views Load can build.
ViewType == [channels : UNION {[S -> Choice] : S \in SUBSET Channels}, match : Seq(Wildcards)]

\* What Load builds from a table is a view, and it routes exactly the channels
\* that table says are enabled.
LEMMA LoadIsView ==
    ASSUME NEW table \in Table, NEW new \in Load(table)
    PROVE  /\ new \in ViewType
           /\ new.channels = LoadChannels(table)
           /\ DOMAIN new.channels = {d \in Channels : table[d].status = Enabled}
<1> DEFINE chs == LoadChannels(table)
           S == {w \in Wildcards : \E c \in DOMAIN chs :
                        /\ w \in chs[c].channel.models
                        /\ chs[c].channel.group # {}}
<1>1. new = [channels |-> new.channels, match |-> new.match] /\ new.channels = chs /\ new.match \in Seqs!SetToSeqs(S)
  BY DEF Load, MatchLists
<1>2. IsFiniteSet(S)
  BY FS_Subset, BalancerAssumption
<1>3. Cardinality(S) \in Nat
  BY <1>2, FS_CardinalityType
<1>4. new.match \in Seq(Wildcards)
  <2> HIDE DEF S
  <2>1. new.match \in [1..Cardinality(S) -> S]
    <3>1. Seqs!Cardinality(S) = Cardinality(S)
      BY DEF Seqs!Cardinality, Cardinality
    <3> QED BY <1>1, <3>1 DEF Seqs!SetToSeqs
  <2>2. S \subseteq Wildcards
    BY DEF S
  <2> QED BY <2>1, <2>2, <1>3
<1>5. DOMAIN chs = {d \in Channels : table[d].status = Enabled}
  BY DEF LoadChannels
<1>6. ASSUME NEW c \in DOMAIN chs PROVE chs[c] \in Choice
  <2>1. table[c] \in Row /\ c \in Channels
    BY <1>5 DEF Table
  <2>2. chs[c] = [channel |-> [table[c] EXCEPT !.weight =
                         IF @ = 0 THEN DefaultChannelWeight ELSE @],
                  disable |-> FALSE]
    BY <1>5, <1>6 DEF LoadChannels
  <2>3. [table[c] EXCEPT !.weight = IF @ = 0 THEN DefaultChannelWeight ELSE @] \in Row
    BY <2>1, BalancerAssumption DEF Row
  <2> QED BY <2>2, <2>3 DEF Choice
<1>7. chs \in [DOMAIN chs -> Choice]
  BY <1>6 DEF LoadChannels
<1>8. chs \in UNION {[T -> Choice] : T \in SUBSET Channels}
  BY <1>7, <1>5
<1> QED
  <2> HIDE DEF chs, S
  <2>1. new \in ViewType
    BY <1>1, <1>4, <1>8 DEF ViewType
  <2> QED BY <2>1, <1>1, <1>5 DEF chs

\* Some handler is on its way to the view.
Loading == \E h \in Handlers : load[h].pc # "idle"

Disabled(c) == rows[c].status \in {AutoDisabled, ManuallyDisabled}

\* While nothing has raced: a Load holds the table as it is; a disabled
\* channel waits for a Load or for its Disable, or is not routed; and nothing
\* that is pending can route it again but a Load.
StatusKept ==
    ~raced =>
      /\ \A h \in Handlers : load[h].pc = "swap" => load[h].table = rows
      /\ Loading \/ \A c \in Channels : Disabled(c) =>
            /\ changes[<<c, FALSE>>] > 0 \/ c \notin Routed
            /\ changes[<<c, TRUE>>] = 0 \/ c \notin DOMAIN view.channels

\* A view maps some of the channels to choices and lists the wildcard names.
LEMMA ViewFacts ==
    ASSUME NEW v \in ViewType
    PROVE  /\ v.channels \in [DOMAIN v.channels -> Choice]
           /\ DOMAIN v.channels \subseteq Channels
           /\ v.match \in Seq(Wildcards)
           /\ v = [channels |-> v.channels, match |-> v.match]
BY DEF ViewType

\* The three statuses of a stored row.
LEMMA Statuses ==
    /\ Enabled # ManuallyDisabled /\ Enabled # AutoDisabled
    /\ Unborn \notin {Enabled, ManuallyDisabled, AutoDisabled}
    /\ Absent \notin {Enabled, ManuallyDisabled, AutoDisabled}
BY Zenon DEF Enabled, ManuallyDisabled, AutoDisabled, Unborn, Absent

\* The table and the view start typed, and with no disabled channel routed.
LEMMA ChanInitOK == ChanInit => TypeOK /\ view \in ViewType /\ StatusKept
<1> SUFFICES ASSUME ChanInit PROVE TypeOK /\ view \in ViewType /\ StatusKept
  OBVIOUS
<1> USE ChannelsAssumption
<1>1. view \in ViewType /\ DOMAIN view.channels = {d \in Channels : InitRows[d].status = Enabled}
  BY LoadIsView DEF ChanInit
<1>0. rows = InitRows /\ writes = 0 /\ raced = FALSE
  BY Zenon DEF ChanInit
<1>2. TypeOK
  <2>1. rows \in Table /\ writes \in 0..MaxWrites /\ raced \in BOOLEAN
    <3>1. rows \in Table
      BY <1>0
    <3>2. writes \in 0..MaxWrites
      BY <1>0
    <3>3. raced \in BOOLEAN
      BY <1>0
    <3> QED BY <3>1, <3>2, <3>3
  <2>2. load \in [Handlers -> [pc : {"idle", "read", "swap"}, table : Table]]
    BY DEF ChanInit, Idle
  <2>3. changes \in [Channels \X BOOLEAN -> Nat]
    BY DEF ChanInit
  <2> QED BY <2>1, <2>2, <2>3, <1>1, ViewFacts DEF TypeOK
<1>3. ASSUME NEW c \in Channels, Disabled(c) PROVE c \notin DOMAIN view.channels
  <2>1. InitRows[c].status # Enabled
    BY <1>0, <1>3, Statuses DEF Disabled
  <2> QED BY <1>1, <2>1
<1>4. StatusKept
  BY <1>3 DEF ChanInit, StatusKept, Routed, Idle
<1> QED BY <1>1, <1>2, <1>4

-----------------------------------------------------------------------------
(* The steps of Channels. *)

\* The table and the view are typed.
ChanTypes == TypeOK /\ view \in ViewType

\* A handler of an administrator writes the table and has its Load before it:
\* what it disabled may stay routed until then.
LEMMA WriteSteps ==
    ASSUME ChanTypes, StatusKept, NEW table \in Table,
           (\E h \in Handlers : AdminWrite(h, table))
    PROVE  ChanTypes' /\ StatusKept'
<1> PICK h \in Handlers : AdminWrite(h, table)
  OBVIOUS
<1>1. load'[h].pc = "read" /\ load' \in [Handlers -> [pc : {"idle", "read", "swap"}, table : Table]]
  BY ChannelsAssumption DEF AdminWrite, ChanTypes, TypeOK, Idle
<1>2. ChanTypes'
  BY <1>1, ChannelsAssumption DEF AdminWrite, ChanTypes, TypeOK
<1>3. Loading'
  BY <1>1 DEF Loading
<1>4. ASSUME ~raced' PROVE \A g \in Handlers : load'[g].pc # "swap"
  BY <1>1, <1>4 DEF AdminWrite, LoadPending, ChanTypes, TypeOK
<1> QED BY <1>2, <1>3, <1>4 DEF StatusKept

\* A write that no Load follows keeps the promise when it disables nothing
\* that was not disabled before.
LEMMA QuietSteps ==
    ASSUME ChanTypes, StatusKept, NEW table \in Table, QuietWrite(table),
           \A c \in Channels : table[c].status \in {AutoDisabled, ManuallyDisabled} => Disabled(c)
    PROVE  ChanTypes' /\ StatusKept'
<1>1. ChanTypes'
  BY ChannelsAssumption DEF QuietWrite, ChanTypes, TypeOK
<1>2. ASSUME ~raced' PROVE ~raced /\ \A g \in Handlers : load'[g].pc # "swap"
  BY <1>2 DEF QuietWrite, LoadPending
<1> QED BY <1>1, <1>2 DEF StatusKept, QuietWrite, Loading, Disabled, Routed

\* A write of another node races by definition: nothing is promised after it.
LEMMA RemoteSteps ==
    ASSUME ChanTypes, NEW c \in Channels, RemoteSave(c)
    PROVE  ChanTypes' /\ StatusKept'
<1> PICK form \in Forms[c] : rows' = Saved(c, form)
  BY DEF RemoteSave
<1>1. form \in Row
  BY ChannelsAssumption
<1>2. rows' \in Table
  BY <1>1 DEF Saved, ChanTypes, TypeOK, Table
<1>3. ChanTypes'
  BY <1>2, ChannelsAssumption DEF RemoteSave, ChanTypes, TypeOK
<1> QED BY <1>3 DEF RemoteSave, StatusKept

\* Load reads the table and later swaps the view in: without a race what it
\* read is still the table, so no disabled channel is routed.
LEMMA LoadSteps ==
    ASSUME ChanTypes, StatusKept, NEW h \in Handlers, LoadStep(h)
    PROVE  ChanTypes' /\ StatusKept'
<1> USE DEF ChanTypes
<1>1. CASE LoadRead(h)
  <2>1. load'[h] = [pc |-> "swap", table |-> rows] /\ Loading'
    BY <1>1 DEF LoadRead, TypeOK, Loading
  <2>2. ChanTypes'
    BY <1>1, <2>1 DEF LoadRead, TypeOK
  <2>3. \A g \in Handlers : g # h => load'[g] = load[g]
    BY <1>1 DEF LoadRead, TypeOK
  <2>4. rows' = rows /\ raced' = raced
    BY <1>1 DEF LoadRead
  <2>5. ASSUME ~raced', NEW g \in Handlers, load'[g].pc = "swap" PROVE load'[g].table = rows'
    BY <2>1, <2>3, <2>4, <2>5 DEF StatusKept
  <2> QED BY <2>1, <2>2, <2>5 DEF StatusKept
<1>2. CASE LoadSwap(h)
  <2>1. load[h].table \in Table /\ load[h].pc = "swap" /\ rows' = rows /\ raced' = raced
    BY <1>2 DEF LoadSwap, TypeOK
  <2>2. /\ view' \in ViewType
        /\ DOMAIN view'.channels = {d \in Channels : load[h].table[d].status = Enabled}
    BY <1>2, <2>1, LoadIsView DEF LoadSwap
  <2>3. load' \in [Handlers -> [pc : {"idle", "read", "swap"}, table : Table]]
    BY <1>2, ChannelsAssumption DEF LoadSwap, TypeOK, Idle
  <2>4. ChanTypes'
    BY <1>2, <2>2, <2>3, ViewFacts DEF LoadSwap, TypeOK
  <2>5. \A g \in Handlers : load'[g] = load[g] \/ load'[g].pc = "idle"
    BY <1>2 DEF LoadSwap, TypeOK, Idle
  <2>6. ASSUME ~raced, NEW c \in Channels, Disabled(c)' PROVE c \notin DOMAIN view'.channels
    <3>1. load[h].table = rows
      BY <2>1, <2>6 DEF StatusKept
    <3>2. rows[c].status # Enabled
      BY <2>1, <2>6, Statuses DEF Disabled
    <3> QED BY <2>2, <3>1, <3>2
  <2> QED BY <2>1, <2>4, <2>5, <2>6 DEF StatusKept, Routed
<1> QED BY <1>1, <1>2 DEF LoadStep

\* The refresh of a slave node begins a Load.
LEMMA SyncSteps ==
    ASSUME ChanTypes, StatusKept, SyncChannelCache
    PROVE  ChanTypes' /\ StatusKept'
<1> USE DEF ChanTypes
<1>1. load'[Syncer].pc = "read" /\ \A g \in Handlers \ {Syncer} : load'[g] = load[g]
  BY ChannelsAssumption DEF SyncChannelCache, TypeOK, Idle
<1>2. ChanTypes'
  BY ChannelsAssumption DEF SyncChannelCache, TypeOK, Idle
<1>3. Loading'
  BY <1>1, ChannelsAssumption DEF Loading
<1> QED BY <1>1, <1>2, <1>3 DEF SyncChannelCache, StatusKept

\* A function of natural numbers changed at one point.
LEMMA Point ==
    ASSUME NEW S, NEW f \in [S -> Nat], NEW k \in S, NEW n \in Nat
    PROVE  /\ [f EXCEPT ![k] = n] \in [S -> Nat]
           /\ [f EXCEPT ![k] = n][k] = n
           /\ \A x \in S : x # k => [f EXCEPT ![k] = n][x] = f[x]
OBVIOUS

\* DisableChannel and EnableChannel write the status and leave a ChangeStatus
\* goroutine behind, which is what a disabled channel then waits for.
LEMMA UpdateSteps ==
    ASSUME ChanTypes, StatusKept, NEW c \in Channels, NEW status \in {Enabled, AutoDisabled},
           UpdateChannelStatusById(c, status)
    PROVE  ChanTypes' /\ StatusKept'
<1> USE DEF ChanTypes
<1>1. /\ rows' \in Table
      /\ Stored(rows, c) => rows'[c].status = status
      /\ ~Stored(rows, c) => rows' = rows
      /\ \A d \in Channels : d # c => rows'[d] = rows[d]
  <2>1. rows' = IF Stored(rows, c) THEN [rows EXCEPT ![c].status = status] ELSE rows
    BY DEF UpdateChannelStatusById
  <2>2. rows \in Table
    BY DEF TypeOK
  <2>3. CASE Stored(rows, c)
    <3>1. rows' = [rows EXCEPT ![c].status = status]
      BY <2>1, <2>3
    <3>2. rows' \in Table /\ rows'[c].status = status /\ \A d \in Channels : d # c => rows'[d] = rows[d]
      <4> DEFINE row == [rows[c] EXCEPT !.status = status]
      <4>1. row \in Row /\ row.status = status
        BY <2>2 DEF Table, Row
      <4>2. rows' = [rows EXCEPT ![c] = row]
        BY <3>1
      <4> HIDE DEF row
      <4> QED BY <2>2, <4>1, <4>2 DEF Table
    <3> QED BY Zenon, <2>3, <3>2
  <2>4. CASE ~Stored(rows, c)
    BY Zenon, <2>1, <2>2, <2>4
  <2> QED BY <2>3, <2>4
<1>2. /\ changes' \in [Channels \X BOOLEAN -> Nat]
      /\ changes'[<<c, status = Enabled>>] = changes[<<c, status = Enabled>>] + 1
      /\ \A ch \in Channels \X BOOLEAN : ch # <<c, status = Enabled>> => changes'[ch] = changes[ch]
  <2> DEFINE k == <<c, status = Enabled>>
  <2>1. k \in Channels \X BOOLEAN
    BY Zenon
  <2>2. changes' = [changes EXCEPT ![k] = changes[k] + 1]
    BY Zenon DEF UpdateChannelStatusById
  <2>3. changes \in [Channels \X BOOLEAN -> Nat]
    BY DEF TypeOK
  <2>4. changes[k] + 1 \in Nat
    <3> HIDE DEF k
    <3> QED BY <2>1, <2>3
  <2> QED BY Zenon, <2>1, <2>2, <2>3, <2>4, Point
<1>3. ChanTypes'
  BY <1>1, <1>2 DEF UpdateChannelStatusById, TypeOK
<1>4. SUFFICES ASSUME ~raced' PROVE StatusKept'
  BY <1>3 DEF StatusKept
<1>5. ~raced /\ (\A h \in Handlers : load[h].pc # "swap") /\ \A up \in BOOLEAN : ~(changes[<<c, up>>] > 0)
  BY <1>4 DEF UpdateChannelStatusById, LoadPending
<1>6. \A h \in Handlers : load'[h].pc = "swap" => load'[h].table = rows'
  BY <1>5 DEF UpdateChannelStatusById
<1>7. CASE Loading
  BY <1>6, <1>7 DEF StatusKept, Loading, UpdateChannelStatusById
<1>8. CASE ~Loading
  <2>1. ASSUME NEW d \in Channels, Disabled(d)', d # c
        PROVE  /\ changes'[<<d, FALSE>>] > 0 \/ d \notin Routed
               /\ changes'[<<d, TRUE>>] = 0 \/ d \notin DOMAIN view.channels
    <3>1. Disabled(d)
      BY <2>1 DEF Disabled, UpdateChannelStatusById, TypeOK, Table
    <3>2. changes'[<<d, FALSE>>] = changes[<<d, FALSE>>] /\ changes'[<<d, TRUE>>] = changes[<<d, TRUE>>]
      BY <1>2, <2>1
    <3> QED BY <1>5, <1>8, <3>1, <3>2 DEF StatusKept
  <2>2. ASSUME Disabled(c)'
        PROVE  /\ changes'[<<c, FALSE>>] > 0 \/ c \notin Routed
               /\ changes'[<<c, TRUE>>] = 0 \/ c \notin DOMAIN view.channels
    <3>0. changes[<<c, TRUE>>] \in Nat /\ changes[<<c, FALSE>>] \in Nat
      BY DEF TypeOK
    <3>1. CASE Stored(rows, c)
      <4>1. rows'[c].status = status
        BY <3>1, <1>1
      <4>2. status # Enabled
        BY <2>2, <4>1, Statuses DEF Disabled
      <4>3. (status = Enabled) = FALSE
        BY <4>2
      <4>4. changes'[<<c, FALSE>>] = changes[<<c, FALSE>>] + 1 /\ changes'[<<c, TRUE>>] = changes[<<c, TRUE>>]
        BY Zenon, <1>2, <4>3
      <4>5. ~(changes[<<c, TRUE>>] > 0)
        BY Zenon, <1>5
      <4> QED BY <4>4, <4>5, <3>0
    <3>2. CASE ~Stored(rows, c)
      BY <1>1, <2>2, <3>2, Statuses DEF Disabled, Stored
    <3> QED BY <3>1, <3>2
  <2>3. view' = view /\ Routed' = Routed
    BY DEF UpdateChannelStatusById, Routed
  <2> QED BY <1>6, <2>1, <2>2, <2>3 DEF StatusKept
<1> QED BY <1>7, <1>8

\* A ChangeStatus goroutine marks the channel in the view.
LEMMA ChangeSteps ==
    ASSUME ChanTypes, StatusKept, NEW c \in Channels, NEW status \in BOOLEAN, ChangeStatus(c, status)
    PROVE  ChanTypes' /\ StatusKept'
<1> USE DEF ChanTypes
<1>1. /\ changes' \in [Channels \X BOOLEAN -> Nat]
      /\ \A ch \in Channels \X BOOLEAN : ch # <<c, status>> => changes'[ch] = changes[ch]
  <2> DEFINE k == <<c, status>>
  <2>1. k \in Channels \X BOOLEAN
    BY Zenon
  <2>2. changes[k] > 0 /\ changes' = [changes EXCEPT ![k] = changes[k] - 1]
    BY Zenon DEF ChangeStatus
  <2>3. changes \in [Channels \X BOOLEAN -> Nat]
    BY DEF TypeOK
  <2>4. changes[k] - 1 \in Nat
    <3> HIDE DEF k
    <3> QED BY <2>1, <2>2, <2>3
  <2> QED BY Zenon, <2>1, <2>2, <2>3, <2>4, Point
<1>2. /\ view' \in ViewType /\ DOMAIN view'.channels = DOMAIN view.channels
      /\ \A d \in DOMAIN view.channels :
            view'.channels[d].disable = IF d = c THEN ~status ELSE view.channels[d].disable
  <2>1. CASE c \notin DOMAIN view.channels
    BY <2>1 DEF ChangeStatus
  <2>2. CASE c \in DOMAIN view.channels
    <3> DEFINE S == DOMAIN view.channels
               chs == [view.channels EXCEPT ![c].disable = ~status]
    <3>0. view' = [view EXCEPT !.channels = chs]
      BY Zenon, <2>2 DEF ChangeStatus
    <3>1. view.channels \in [S -> Choice] /\ S \subseteq Channels /\ view.match \in Seq(Wildcards)
      BY ViewFacts
    <3>2. chs \in [S -> Choice]
      BY <2>2, <3>1 DEF Choice
    <3>3. \A d \in S : chs[d].disable = IF d = c THEN ~status ELSE view.channels[d].disable
      BY <2>2, <3>1 DEF Choice
    <3>4. view' = [channels |-> chs, match |-> view.match]
      <4> HIDE DEF chs
      <4>1. view = [channels |-> view.channels, match |-> view.match]
        BY ViewFacts
      <4> QED BY <3>0, <4>1
    <3> HIDE DEF chs
    <3>5. view' \in ViewType
      BY <3>1, <3>2, <3>4 DEF ViewType
    <3> QED BY <3>2, <3>3, <3>4, <3>5
  <2> QED BY <2>1, <2>2
<1>3. ChanTypes'
  BY <1>1, <1>2, ViewFacts DEF ChangeStatus, TypeOK
<1>4. SUFFICES ASSUME ~raced' PROVE StatusKept'
  BY <1>3 DEF StatusKept
<1>5. ~raced /\ (\A h \in Handlers : load[h].pc # "swap")
  BY <1>4 DEF ChangeStatus, LoadPending
<1>6. \A h \in Handlers : load'[h].pc = "swap" => load'[h].table = rows'
  BY <1>5 DEF ChangeStatus
<1>7. CASE Loading
  BY <1>6, <1>7 DEF StatusKept, Loading, ChangeStatus
<1>8. CASE ~Loading
  <2> SUFFICES ASSUME NEW d \in Channels, Disabled(d)'
        PROVE  /\ changes'[<<d, FALSE>>] > 0 \/ d \notin Routed'
               /\ changes'[<<d, TRUE>>] = 0 \/ d \notin DOMAIN view'.channels
    BY <1>6 DEF StatusKept
  <2>1. /\ changes[<<d, FALSE>>] > 0 \/ d \notin Routed
        /\ changes[<<d, TRUE>>] = 0 \/ d \notin DOMAIN view.channels
    BY <1>5, <1>8 DEF StatusKept, Disabled, ChangeStatus
  <2>2. CASE d # c
    <3>1. changes'[<<d, FALSE>>] = changes[<<d, FALSE>>] /\ changes'[<<d, TRUE>>] = changes[<<d, TRUE>>]
      BY <1>1, <2>2
    <3>2. d \in Routed' => d \in Routed
      BY <1>2, <2>2 DEF Routed
    <3> QED BY <1>2, <2>1, <3>1, <3>2
  <2>3. CASE d = c /\ status
    <3>1. c \notin DOMAIN view.channels
      <4>1. changes[<<c, TRUE>>] > 0
        <5>1. status = TRUE
          BY <2>3
        <5> QED BY Zenon, <5>1 DEF ChangeStatus
      <4>2. changes[<<c, TRUE>>] \in Nat
        BY DEF TypeOK
      <4> QED BY <2>1, <2>3, <4>1, <4>2
    <3> QED BY <1>2, <2>3, <3>1 DEF Routed
  <2>4. CASE d = c /\ ~status
    <3>1. changes'[<<d, TRUE>>] = changes[<<d, TRUE>>]
      BY <1>1, <2>4
    <3>2. d \notin Routed'
      BY <1>2, <2>4 DEF Routed
    <3> QED BY <1>2, <2>1, <3>1, <3>2
  <2> QED BY <2>2, <2>3, <2>4
<1> QED BY <1>7, <1>8

\* The tables an administrator can write are tables.
LEMMA AdminTables ==
    ASSUME TypeOK
    PROVE  /\ \A c \in Channels : \A form \in Forms[c] : Saved(c, form) \in Table
           /\ \A status \in {Enabled, ManuallyDisabled, Absent}, S \in SUBSET Channels :
                [c \in Channels |-> IF c \in S THEN [rows[c] EXCEPT !.status = status]
                                    ELSE rows[c]] \in Table
<1>1. ASSUME NEW status \in {Enabled, ManuallyDisabled, Absent}, NEW r \in Row
      PROVE  [r EXCEPT !.status = status] \in Row
  BY DEF Row
<1>2. \A c \in Channels : rows[c] \in Row
  BY DEF TypeOK, Table
<1>3. ASSUME NEW c \in Channels, NEW form \in Forms[c] PROVE Saved(c, form) \in Table
  BY ChannelsAssumption DEF Saved, TypeOK, Table
<1> QED BY <1>1, <1>2, <1>3 DEF Table

\* Every step on the table and the view keeps them typed and the statuses
\* kept.
LEMMA ChannelSteps ==
    ASSUME ChanTypes, StatusKept,
           Admin \/ Refresh \/ \E c \in Channels : DisableChannel(c) \/ EnableChannel(c)
    PROVE  ChanTypes' /\ StatusKept'
<1>0. TypeOK
  BY DEF ChanTypes
<1>1. ASSUME NEW h \in Handlers, NEW c \in Channels, Save(h, c) PROVE ChanTypes' /\ StatusKept'
  BY <1>0, <1>1, AdminTables, WriteSteps DEF Save
<1>2. ASSUME NEW h \in Handlers, NEW c \in Channels, Delete(h, c) PROVE ChanTypes' /\ StatusKept'
  <2> DEFINE table == [d \in Channels |-> IF d \in {c} THEN [rows[d] EXCEPT !.status = Absent] ELSE rows[d]]
  <2>1. table \in Table /\ rows \in Table
    BY <1>0, AdminTables, Zenon DEF TypeOK
  <2>2. [rows EXCEPT ![c].status = Absent] = table
    BY <2>1 DEF Table
  <2> HIDE DEF table
  <2>3. (IF Stored(rows, c) THEN [rows EXCEPT ![c].status = Absent] ELSE rows) \in Table
    BY <2>1, <2>2
  <2> QED BY <1>2, <2>3, WriteSteps DEF Delete
<1>3. ASSUME NEW h \in Handlers, NEW status \in {Enabled, ManuallyDisabled}, ChangeChannelsTagStatus(h, status)
      PROVE  ChanTypes' /\ StatusKept'
  <2> DEFINE S == {c \in Tagged : Stored(rows, c)}
             table == [c \in Channels |-> IF c \in S THEN [rows[c] EXCEPT !.status = status] ELSE rows[c]]
  <2>1. S \in SUBSET Channels
    BY ChannelsAssumption
  <2>2. table \in Table
    BY <1>0, <2>1, AdminTables, Zenon
  <2>3. AdminWrite(h, table)
    BY <1>3, Zenon DEF ChangeChannelsTagStatus
  <2> HIDE DEF table
  <2> QED BY <2>2, <2>3, WriteSteps
<1>4. ASSUME NEW h \in Handlers, NEW delDisabled \in BOOLEAN, DeleteChannelsTag(h, delDisabled)
      PROVE  ChanTypes' /\ StatusKept'
  <2> DEFINE S == {c \in Tagged : Stored(rows, c)
                     /\ (delDisabled => rows[c].status \in {AutoDisabled, ManuallyDisabled})}
             table == [c \in Channels |-> IF c \in S THEN [rows[c] EXCEPT !.status = Absent] ELSE rows[c]]
  <2>1. S \in SUBSET Channels
    BY ChannelsAssumption
  <2>2. table \in Table
    BY <1>0, <2>1, AdminTables, Zenon
  <2>3. AdminWrite(h, table)
    BY <1>4, Zenon DEF DeleteChannelsTag
  <2> HIDE DEF table
  <2> QED BY <2>2, <2>3, WriteSteps
<1>5. ASSUME NEW S \in SUBSET Channels,
             QuietWrite([c \in Channels |-> IF c \in S THEN [rows[c] EXCEPT !.status = Absent] ELSE rows[c]])
      PROVE  ChanTypes' /\ StatusKept'
  <2> DEFINE table == [c \in Channels |-> IF c \in S THEN [rows[c] EXCEPT !.status = Absent] ELSE rows[c]]
  <2>1. table \in Table
    BY <1>0, AdminTables, Zenon
  <2>2. \A c \in Channels : table[c].status \in {AutoDisabled, ManuallyDisabled} => Disabled(c)
    BY <1>0, Statuses DEF Disabled, TypeOK, Table, Row
  <2>3. QuietWrite(table)
    BY <1>5
  <2> HIDE DEF table
  <2> QED BY <2>1, <2>2, <2>3, QuietSteps
<1>6. ASSUME NEW ids \in SUBSET Channels, BatchDeleteChannel(ids) PROVE ChanTypes' /\ StatusKept'
  <2> DEFINE S == {c \in ids : Stored(rows, c)}
  <2>1. QuietWrite([c \in Channels |-> IF c \in S THEN [rows[c] EXCEPT !.status = Absent] ELSE rows[c]])
    BY <1>6, Zenon DEF BatchDeleteChannel
  <2> QED BY <1>5, <2>1
<1>7. ASSUME DeleteDisabledChannel PROVE ChanTypes' /\ StatusKept'
  <2> DEFINE S == {c \in Channels : Disabled(c)}
  <2>1. QuietWrite([c \in Channels |-> IF c \in S THEN [rows[c] EXCEPT !.status = Absent] ELSE rows[c]])
    BY <1>7, Zenon DEF DeleteDisabledChannel, Disabled
  <2> QED BY <1>5, <2>1
<1>8. ASSUME Admin PROVE ChanTypes' /\ StatusKept'
  BY <1>1, <1>2, <1>3, <1>4, <1>6, <1>7, <1>8, RemoteSteps, Zenon DEF Admin
<1>9. ASSUME Refresh PROVE ChanTypes' /\ StatusKept'
  BY <1>9, LoadSteps, SyncSteps, ChangeSteps DEF Refresh
<1>10. ASSUME NEW c \in Channels, DisableChannel(c) \/ EnableChannel(c) PROVE ChanTypes' /\ StatusKept'
  BY <1>10, UpdateSteps DEF DisableChannel, EnableChannel
<1> QED BY <1>8, <1>9, <1>10

-----------------------------------------------------------------------------
(* The channel test: one sweep at a time, and what becomes of disabled       *)
(* channels when sweeps, relay errors, administrators and reloads interleave. *)

\* A caller inside testAllChannels has set the flag, and is alone.
FlagHeld == OneSweep /\ \A k \in Callers : caller[k] # "idle" => running

\* The test's variables and the view are typed.
ChanTyped == TestTypeOK /\ view \in ViewType

\* The inductive invariant.
TestInv == ChanTyped /\ StatusKept /\ FlagHeld

-----------------------------------------------------------------------------
(* The sweep of the channel test. *)

\* The invariant holds before the first sweep.
LEMMA TestInvInit == Init => TestInv
<1> SUFFICES ASSUME Init PROVE TestInv
  OBVIOUS
<1>1. TypeOK /\ view \in ViewType /\ StatusKept
  BY ChanInitOK DEF Init
<1>2. TestTypeOK
  <2>1. /\ running = FALSE /\ sweeps = 0 /\ errors = 0 /\ caller = [k \in Callers |-> "idle"]
        /\ snapshot = [k \in Callers |-> InitRows] /\ todo = [k \in Callers |-> {}]
    BY DEF Init
  <2>2. sweeps \in 0..MaxSweeps /\ errors \in 0..MaxErrors
    <3>1. MaxSweeps \in Nat /\ MaxErrors \in Nat
      BY ChannelTestAssumption
    <3> QED BY <2>1, <3>1
  <2>3. snapshot \in [Callers -> Table]
    BY <2>1, ChannelsAssumption
  <2> QED BY <1>1, <2>1, <2>2, <2>3 DEF TestTypeOK
<1> QED BY <1>1, <1>2 DEF Init, TestInv, ChanTyped, FlagHeld, OneSweep

\* Whoever takes a step, the test, a relay error, an administrator or a Load,
\* keeps the table and the view typed and the statuses kept.
LEMMA TestChanStep ==
    ASSUME ChanTypes, StatusKept, [Next]_sweepVars
    PROVE  ChanTypes' /\ StatusKept'
<1>1. ASSUME UNCHANGED chanVars PROVE ChanTypes' /\ StatusKept'
  BY <1>1 DEF chanVars, ChanTypes, TypeOK, StatusKept, Loading, Disabled, Routed
<1>2. ASSUME NEW k \in Callers, NEW c \in Channels, NEW outcome \in Outcomes, Test(k, c, outcome)
      PROVE  DisableChannel(c) \/ EnableChannel(c) \/ UNCHANGED chanVars
  BY <1>2 DEF Test
<1>3. ASSUME NEW k \in Callers, Enter(k) \/ Sweep(k) PROVE ChanTypes' /\ StatusKept'
  BY <1>1, <1>2, <1>3, ChannelSteps DEF Enter, Sweep, List, ListFails, Finish
<1>4. ASSUME NEW c \in Channels, ChannelError(c) PROVE ChanTypes' /\ StatusKept'
  BY <1>4, ChannelSteps DEF ChannelError
<1>5. ASSUME UNCHANGED sweepVars PROVE ChanTypes' /\ StatusKept'
  BY <1>1, <1>5 DEF sweepVars
<1> QED BY <1>3, <1>4, <1>5, ChannelSteps DEF Next

\* Every step keeps the invariant: the flag goes up with the caller that
\* enters and down only with the one that leaves.
LEMMA TestInvStep == TestInv /\ [Next]_sweepVars => TestInv'
<1> SUFFICES ASSUME TestInv, [Next]_sweepVars PROVE TestInv'
  OBVIOUS
<1>1. ChanTypes' /\ StatusKept'
  BY TestChanStep DEF TestInv, ChanTyped, TestTypeOK, ChanTypes
<1> DEFINE Rest == /\ running \in BOOLEAN
                   /\ caller \in [Callers -> {"idle", "list", "sweep"}]
                   /\ snapshot \in [Callers -> Table]
                   /\ todo \in [Callers -> SUBSET Channels]
                   /\ sweeps \in 0..MaxSweeps
                   /\ errors \in 0..MaxErrors
<1>2. Rest /\ OneSweep /\ (\A k \in Callers : caller[k] # "idle" => running) /\ rows \in Table
  BY DEF TestInv, ChanTyped, TestTypeOK, FlagHeld, TypeOK
<1>3. SUFFICES Rest' /\ OneSweep' /\ \A k \in Callers : caller'[k] # "idle" => running'
  BY <1>1, Zenon DEF TestInv, ChanTyped, TestTypeOK, ChanTypes, FlagHeld
<1>4. ASSUME UNCHANGED testVars PROVE Rest' /\ OneSweep' /\ \A k \in Callers : caller'[k] # "idle" => running'
  BY <1>2, <1>4 DEF testVars, OneSweep
<1> USE ChannelTestAssumption, ChannelsAssumption
<1>5. ASSUME NEW k \in Callers, Enter(k) PROVE Rest' /\ OneSweep' /\ \A j \in Callers : caller'[j] # "idle" => running'
  BY <1>2, <1>5 DEF Enter, OneSweep
<1>6. ASSUME NEW k \in Callers, List(k) PROVE Rest' /\ OneSweep' /\ \A j \in Callers : caller'[j] # "idle" => running'
  BY <1>2, <1>6 DEF List, OneSweep
<1>7. ASSUME NEW k \in Callers, ListFails(k) PROVE Rest' /\ OneSweep' /\ \A j \in Callers : caller'[j] # "idle" => running'
  BY <1>2, <1>7 DEF ListFails, OneSweep
<1>8. ASSUME NEW k \in Callers, Finish(k) PROVE Rest' /\ OneSweep' /\ \A j \in Callers : caller'[j] # "idle" => running'
  BY <1>2, <1>8 DEF Finish, OneSweep
<1>9. ASSUME NEW k \in Callers, NEW c \in Channels, NEW outcome \in Outcomes, Test(k, c, outcome)
      PROVE Rest' /\ OneSweep' /\ \A j \in Callers : caller'[j] # "idle" => running'
  <2>1. UNCHANGED <<running, caller, snapshot, sweeps, errors>> /\ todo' = [todo EXCEPT ![k] = @ \ {c}]
    BY <1>9, Zenon DEF Test
  <2> QED BY <1>2, <2>1 DEF OneSweep
<1>10. ASSUME NEW c \in Channels, ChannelError(c)
      PROVE Rest' /\ OneSweep' /\ \A j \in Callers : caller'[j] # "idle" => running'
  <2>1. UNCHANGED <<running, caller, snapshot, todo, sweeps>> /\ errors < MaxErrors /\ errors' = errors + 1
    BY <1>10 DEF ChannelError
  <2> QED BY <1>2, <2>1 DEF OneSweep
<1>11. ASSUME UNCHANGED sweepVars PROVE UNCHANGED testVars
  BY <1>11 DEF sweepVars
<1> HIDE DEF Rest
<1> QED BY <1>4, <1>5, <1>6, <1>7, <1>8, <1>9, <1>10, <1>11 DEF Next, Sweep

-----------------------------------------------------------------------------
(* The theorems. *)

\* The flag is held by whoever sweeps, and the statuses are kept, in every
\* state of every behaviour.
THEOREM TestInvAlways == TestSpec => []TestInv
BY TestInvInit, TestInvStep, PTL DEF TestSpec

\* The table, the view, the pending loads and the sweeps keep their types, for
\* any channels, handlers and callers.
THEOREM TestTypes == TestSpec => []TestTypeOK
<1>1. TestInv => TestTypeOK
  BY DEF TestInv, ChanTyped
<1> QED BY <1>1, TestInvAlways, PTL

\* testAllChannelsRunning admits one sweep at a time, for any number of
\* callers of testAllChannels.
THEOREM OneSweepAlways == TestSpec => []OneSweep
<1>1. TestInv => OneSweep
  BY DEF TestInv, FlagHeld
<1> QED BY <1>1, TestInvAlways, PTL

\* A disabled channel is out of the routing once all Loads and ChangeStatus
\* goroutines have ended, unless one of the recorded races took place: for any
\* number of channels, handlers and sweeps.
THEOREM DisableSticksAlways == TestSpec => []DisableSticks
<1>1. ASSUME TestInv PROVE DisableSticks
  <2> SUFFICES ASSUME Quiet, ~raced, NEW c \in Channels, Disabled(c) PROVE c \notin Routed
    BY DEF DisableSticks, Disabled
  <2>1. ~Loading
    BY DEF Quiet, Loading
  <2>2. changes[<<c, FALSE>>] = 0
    BY Zenon DEF Quiet
  <2>3. changes[<<c, FALSE>>] > 0 \/ c \notin Routed
    BY <1>1, <2>1 DEF TestInv, StatusKept
  <2> QED BY <2>2, <2>3
<1> QED BY <1>1, TestInvAlways, PTL

-----------------------------------------------------------------------------
(* The relay retry loop, whatever the table and the cooldowns do. *)

\* The channels a request was sent to.
Tried(q) == Seqs!ToSet(sent[q])

\* No channel was tried twice.
Distinct(q) == Funs!IsInjective(sent[q])

\* What is known of a request at each place of Relay.
Placed(q) ==
    /\ pc[q] \in {"new", "preMap", "first"} => sent[q] = <<>> /\ remain[q] = RetryTimes
    /\ pc[q] = "send" =>
          /\ channel[q] \in Channels /\ newModel[q] \in Models
          /\ Len(sent[q]) = RetryTimes - remain[q]
          /\ channel[q] \notin Tried(q)
          /\ Asked[q].specific = NoChannel => Tried(q) \subseteq skip[q]
          /\ group[q] = Asked[q].backup => ratio[q] = group[q]
    /\ pc[q] = "loop" =>
          /\ channel[q] \in Channels /\ newModel[q] \in Models
          /\ Asked[q].specific = NoChannel /\ remain[q] > 0
          /\ Len(sent[q]) = RetryTimes - remain[q] + 1
          /\ Tried(q) \subseteq skip[q] \cup {channel[q]}
    /\ pc[q] = "retry" =>
          /\ Asked[q].specific = NoChannel
          /\ Len(sent[q]) = RetryTimes - remain[q]
          /\ Tried(q) \subseteq skip[q]
    /\ Len(sent[q]) <= RetryTimes + 1
    /\ ratio[q] \in {Asked[q].group, Asked[q].backup}
    /\ Distinct(q)

\* All requests are where they are known to be.
RequestsPlaced == \A q \in Requests : Placed(q)

\* The deadline of a freeze that runs is not lost.
FreezesKept == \A k \in Keys : now < frozen[k] => frozen[k] <= cool[k]

\* The variables of the relay and the view are typed.
RelayTyped == RelayTypeOK /\ view \in ViewType

\* The inductive invariant.
RelayInv == RelayTyped /\ StatusKept /\ RequestsPlaced /\ FreezesKept

-----------------------------------------------------------------------------
(* Next returns channels of the view that pass its filters. *)

\* Every channel Next returns is in the view, not disabled, not cooling for
\* that model and not excluded by a filter.
LEMMA NextIsValid ==
    ASSUME NEW v, NEW g, NEW name, NEW filter, NEW cooling,
           NEW c \in NextChannel(v, g, name, filter, cooling)
    PROVE  /\ c \in DOMAIN v.channels
           /\ ~v.channels[c].disable
           /\ <<c, name>> \notin cooling
           /\ ~Filtered(v, c, name, filter)
<1>1. ASSUME NEW ids, NEW d \in balancer(v, ids, name, filter, cooling)
      PROVE  d \in Valid(v, ids, name, filter, cooling)
  BY <1>1, Zenon DEF balancer
<1>2. PICK ids : c \in balancer(v, ids, name, filter, cooling)
  BY Zenon DEF NextChannel
<1>3. c \in Valid(v, ids, name, filter, cooling)
  BY <1>1, <1>2
<1> QED BY <1>3, Zenon DEF Valid

\* What a successful and a failed GetProvider leave behind.
ProviderSet(q, ok) ==
    \E c \in Channels, name \in Models, g \in Groups :
        /\ pc' = [pc EXCEPT ![q] = ok]
        /\ channel' = [channel EXCEPT ![q] = c]
        /\ newModel' = [newModel EXCEPT ![q] = name]
        /\ group' = [group EXCEPT ![q] = g]
        /\ \E r \in {Asked[q].group, Asked[q].backup} \cap Groups :
              /\ ratio' = [ratio EXCEPT ![q] = r]
              /\ g = Asked[q].backup => r = g
        /\ Asked[q].specific = NoChannel => c \notin skip[q]

ProviderFails(q, ko) ==
    /\ pc' = [pc EXCEPT ![q] = ko]
    /\ UNCHANGED <<channel, newModel, group>>
    /\ \E r \in {Asked[q].group, Asked[q].backup} \cap Groups : ratio' = [ratio EXCEPT ![q] = r]

\* What a request asks for, as the assumption on Asked has it.
LEMMA AskedFacts ==
    ASSUME NEW q \in Requests
    PROVE  /\ Asked[q].group \in Groups /\ Asked[q].backup \in Groups \cup {NoName}
           /\ Asked[q].model \in Models /\ Asked[q].specific \in Channels \cup {NoChannel}
           /\ Asked[q].skip \in SUBSET Channels
BY RelayAssumption DEF AskedType

\* A channel fetched for a request maps its model to a model, and is not one
\* the request has to skip unless the request named the channel itself.
LEMMA FetchedFacts ==
    ASSUME RelayTyped, NEW q \in Requests, NEW parsed \in BOOLEAN, NEW c \in Fetched(q, parsed)
    PROVE  /\ c \in Channels
           /\ ChannelOf(q, c).mapping[Asked[q].model] \in Models \cup {NoName}
           /\ Asked[q].specific = NoChannel => c \notin skip[q]
<1>1. CASE Asked[q].specific # NoChannel
  <2>1. c = Asked[q].specific /\ c \in Channels
    BY <1>1, AskedFacts DEF Fetched
  <2>2. rows[c] \in Row
    BY <2>1 DEF RelayTyped, RelayTypeOK, TypeOK, Table
  <2> QED BY <1>1, <2>1, <2>2, AskedFacts DEF ChannelOf, Row
<1>2. CASE Asked[q].specific = NoChannel
  <2>1. PICK g : c \in Candidates(q, g, parsed)
    BY <1>2 DEF Fetched
  <2>2. c \in DOMAIN view.channels /\ ~Filtered(view, c, Asked[q].model, Filter(q, parsed))
    BY <2>1, NextIsValid, Zenon DEF Candidates
  <2>3. c \notin skip[q]
    BY <2>2 DEF Filtered, Filter
  <2>4. c \in Channels /\ view.channels[c] \in Choice
    BY <2>2, ViewFacts DEF RelayTyped
  <2>5. ChannelOf(q, c) \in Row
    BY <1>2, <2>4 DEF ChannelOf, Choice
  <2> QED BY <2>3, <2>4, <2>5, AskedFacts DEF Row
<1> QED BY <1>1, <1>2

\* GetProvider either sets channel, model, group and ratio together, the ratio
\* of the backup group with the backup group, or fails and may leave a ratio.
LEMMA ProviderSteps ==
    ASSUME RelayTyped, RequestsPlaced, NEW q \in Requests, NEW parsed \in BOOLEAN, NEW ok, NEW ko,
           GetProvider(q, parsed, ok, ko)
    PROVE  ProviderSet(q, ok) \/ ProviderFails(q, ko)
<1>1. ratio[q] \in {Asked[q].group, Asked[q].backup} \cap Groups /\ ratio = [ratio EXCEPT ![q] = ratio[q]]
  BY DEF RelayTyped, RelayTypeOK, RequestsPlaced, Placed
<1>2. UsesBackup(q, parsed) => Asked[q].backup \in Groups /\ Asked[q].backup # Asked[q].group
  BY AskedFacts DEF UsesBackup
<1>3. CASE Fetched(q, parsed) = {}
  <2>1. Goto(q, ko) /\ UNCHANGED <<channel, newModel, group, ratio>>
    BY <1>3, Zenon DEF GetProvider
  <2> QED BY <1>1, <2>1 DEF ProviderFails, Goto
<1>4. CASE Fetched(q, parsed) # {}
  <2> DEFINE found == IF UsesBackup(q, parsed) THEN Asked[q].backup ELSE Asked[q].group
             mapped(c) == ChannelOf(q, c).mapping[Asked[q].model]
  <2>0. found \in {Asked[q].group, Asked[q].backup} \cap Groups
    BY <1>2, AskedFacts
  <2>1. PICK c \in Fetched(q, parsed) :
            IF UsesBackup(q, parsed) /\ found \notin RatioGroups
              THEN Goto(q, ko) /\ UNCHANGED <<channel, newModel, group, ratio>>
              ELSE /\ ratio' = IF UsesBackup(q, parsed)
                               THEN [ratio EXCEPT ![q] = found] ELSE ratio
                   /\ IF mapped(c) = NoName
                      THEN Goto(q, ko) /\ UNCHANGED <<channel, newModel, group>>
                      ELSE /\ channel' = [channel EXCEPT ![q] = c]
                           /\ newModel' = [newModel EXCEPT ![q] = mapped(c)]
                           /\ group' = [group EXCEPT ![q] = found]
                           /\ Goto(q, ok)
    BY <1>4, Zenon DEF GetProvider
  <2>2. c \in Channels /\ mapped(c) \in Models \cup {NoName} /\ (Asked[q].specific = NoChannel => c \notin skip[q])
    BY FetchedFacts
  <2> HIDE DEF mapped
  <2>3. CASE UsesBackup(q, parsed) /\ found \notin RatioGroups
    BY <1>1, <2>1, <2>3 DEF ProviderFails, Goto
  <2>4. CASE ~(UsesBackup(q, parsed) /\ found \notin RatioGroups)
    <3> DEFINE r == IF UsesBackup(q, parsed) THEN found ELSE ratio[q]
    <3>1. ratio' = [ratio EXCEPT ![q] = r] /\ r \in {Asked[q].group, Asked[q].backup} \cap Groups
      BY <1>1, <2>0, <2>1, <2>4
    <3>2. found = Asked[q].backup => r = found
      BY <1>1, <1>2
    <3> HIDE DEF r, found
    <3>3. CASE mapped(c) = NoName
      BY <2>1, <2>4, <3>1, <3>3 DEF ProviderFails, Goto
    <3>4. CASE mapped(c) # NoName
      <4>1. /\ channel' = [channel EXCEPT ![q] = c]
            /\ newModel' = [newModel EXCEPT ![q] = mapped(c)]
            /\ group' = [group EXCEPT ![q] = found]
            /\ pc' = [pc EXCEPT ![q] = ok]
        BY <2>1, <2>4, <3>4, Zenon DEF Goto
      <4>2. mapped(c) \in Models /\ found \in Groups
        BY <2>0, <2>2, <3>4
      <4> QED BY <2>2, <3>1, <3>2, <4>1, <4>2, Zenon DEF ProviderSet
    <3> QED BY <3>3, <3>4
  <2> QED BY <2>3, <2>4
<1> QED BY <1>3, <1>4

-----------------------------------------------------------------------------
(* The steps of a request. *)

\* Appending a channel that was not tried yet keeps the channels tried
\* distinct.
LEMMA Appended ==
    ASSUME NEW S, NEW s \in Seq(S), NEW c \in S
    PROVE  /\ Append(s, c) \in Seq(S) /\ Len(Append(s, c)) = Len(s) + 1
           /\ \A x \in Seqs!ToSet(Append(s, c)) : x \in Seqs!ToSet(s) \/ x = c
           /\ Funs!IsInjective(s) /\ c \notin Seqs!ToSet(s) => Funs!IsInjective(Append(s, c))
<1> DEFINE t == Append(s, c)
<1>1. t \in Seq(S) /\ Len(t) = Len(s) + 1 /\ t[Len(s) + 1] = c /\ Len(s) \in Nat
      /\ (\A i \in 1..Len(s) : t[i] = s[i]) /\ DOMAIN t = 1..(Len(s) + 1) /\ DOMAIN s = 1..Len(s)
  OBVIOUS
<1> HIDE DEF t
<1>2. \A x \in Seqs!ToSet(t) : x \in Seqs!ToSet(s) \/ x = c
  BY <1>1 DEF Seqs!ToSet
<1>3. ASSUME Funs!IsInjective(s), c \notin Seqs!ToSet(s) PROVE Funs!IsInjective(t)
  BY <1>1, <1>3 DEF Seqs!ToSet, Funs!IsInjective
<1> QED BY <1>1, <1>2, <1>3 DEF t

\* The other requests stay where they are.
LEMMA OthersStay ==
    ASSUME RelayTyped, RequestsPlaced, NEW q \in Requests, Placed(q)',
           \A p \in Requests : p # q =>
              /\ pc'[p] = pc[p] /\ channel'[p] = channel[p] /\ newModel'[p] = newModel[p]
              /\ group'[p] = group[p] /\ ratio'[p] = ratio[p] /\ skip'[p] = skip[p]
              /\ remain'[p] = remain[p] /\ sent'[p] = sent[p]
    PROVE  RequestsPlaced'
BY DEF RequestsPlaced, Placed, Tried, Distinct

\* The request arrives.
LEMMA ArriveStep ==
    ASSUME RelayTyped, RequestsPlaced, NEW q \in Requests, Arrive(q)
    PROVE  RelayTyped' /\ RequestsPlaced'
<1> USE DEF RelayTyped, RelayTypeOK
<1>1. /\ pc' \in [Requests -> PCs] /\ pc'[q] \in {"preMap", "first"}
      /\ \A p \in Requests : p # q => pc'[p] = pc[p]
  BY DEF Arrive, Goto, PCs
<1>2. UNCHANGED <<chanVars, cool, now, banning, frozen, promised,
                   channel, newModel, group, ratio, skip, apiErr, remain, sent>>
  BY DEF Arrive
<1>3. start' \in [Requests -> 0..MaxTime]
  BY DEF Arrive
<1>4. RelayTyped'
  BY <1>1, <1>2, <1>3 DEF chanVars, TypeOK
<1>5. Placed(q)'
  BY <1>1, <1>2 DEF Arrive, RequestsPlaced, Placed, Tried, Distinct
<1> QED BY <1>1, <1>2, <1>4, <1>5, OthersStay

\* GetProvider, on the first try and on a retry.
LEMMA ProviderPlaced ==
    ASSUME RelayTyped, RequestsPlaced, NEW q \in Requests, NEW parsed \in BOOLEAN,
           NEW ok \in {"first", "send"}, NEW ko \in {"first", "failed"},
           GetProvider(q, parsed, ok, ko),
           pc[q] \in {"preMap", "first", "retry"},
           ok = "first" \/ ko = "first" => pc[q] = "preMap",
           UNCHANGED <<chanVars, cool, now, banning, frozen, promised, skip, apiErr, remain, start, sent>>
    PROVE  RelayTyped' /\ RequestsPlaced'
<1> USE DEF RelayTyped, RelayTypeOK
<1>0. /\ UNCHANGED chanVars /\ cool' = cool /\ now' = now /\ banning' = banning /\ frozen' = frozen
      /\ promised' = promised /\ skip' = skip /\ apiErr' = apiErr /\ remain' = remain /\ start' = start
      /\ sent' = sent
  OBVIOUS
<1>1. Placed(q) /\ Len(sent[q]) \in Nat /\ remain[q] \in 0..RetryTimes /\ RetryTimes \in Nat
  BY RelayAssumption DEF RequestsPlaced
<1>2. CASE ProviderFails(q, ko)
  <2>1. PICK r \in {Asked[q].group, Asked[q].backup} \cap Groups : ratio' = [ratio EXCEPT ![q] = r]
    BY <1>2 DEF ProviderFails
  <2>2. /\ channel' = channel /\ newModel' = newModel /\ group' = group
        /\ pc' = [pc EXCEPT ![q] = ko]
    BY <1>2 DEF ProviderFails
  <2>3. RelayTyped'
    BY <1>0, <2>1, <2>2 DEF chanVars, TypeOK, PCs
  <2>4. Placed(q)'
    BY <1>0, <1>1, <2>1, <2>2 DEF Placed, Tried, Distinct
  <2> QED BY <1>0, <2>1, <2>2, <2>3, <2>4, OthersStay
<1>3. CASE ProviderSet(q, ok)
  <2>1. PICK c \in Channels, name \in Models, g \in Groups :
          /\ pc' = [pc EXCEPT ![q] = ok]
          /\ channel' = [channel EXCEPT ![q] = c]
          /\ newModel' = [newModel EXCEPT ![q] = name]
          /\ group' = [group EXCEPT ![q] = g]
          /\ \E r \in {Asked[q].group, Asked[q].backup} \cap Groups :
                /\ ratio' = [ratio EXCEPT ![q] = r]
                /\ g = Asked[q].backup => r = g
          /\ Asked[q].specific = NoChannel => c \notin skip[q]
    BY <1>3, Zenon DEF ProviderSet
  <2>2. PICK r \in {Asked[q].group, Asked[q].backup} \cap Groups :
          /\ ratio' = [ratio EXCEPT ![q] = r]
          /\ g = Asked[q].backup => r = g
    BY <2>1
  <2>3. RelayTyped'
    BY <1>0, <2>1, <2>2 DEF chanVars, TypeOK, PCs
  <2>4. Placed(q)'
    <3>1. CASE ok = "first"
      BY <1>0, <1>1, <2>1, <2>2, <3>1 DEF Placed, Tried, Distinct
    <3>2. CASE ok = "send"
      <4>1. /\ pc'[q] = "send" /\ channel'[q] = c /\ newModel'[q] = name /\ group'[q] = g /\ ratio'[q] = r
        BY <2>1, <2>2, <3>2
      <4>2. Len(sent[q]) = RetryTimes - remain[q] /\ c \notin Tried(q)
            /\ (Asked[q].specific = NoChannel => Tried(q) \subseteq skip[q])
        <5>1. CASE pc[q] = "retry"
          BY <1>1, <2>1, <5>1 DEF Placed
        <5>2. CASE pc[q] # "retry"
          <6>1. sent[q] = <<>> /\ remain[q] = RetryTimes
            BY <1>1, <5>2 DEF Placed
          <6> QED BY <1>1, <6>1 DEF Tried, Seqs!ToSet
        <5> QED BY <5>1, <5>2
      <4>3. Tried(q)' = Tried(q) /\ Distinct(q)' = Distinct(q)
        BY <1>0 DEF Tried, Distinct
      <4> QED BY <1>0, <1>1, <2>2, <4>1, <4>2, <4>3 DEF Placed
    <3> QED BY <3>1, <3>2
  <2> QED BY <1>0, <2>1, <2>2, <2>3, <2>4, OthersStay
<1> QED BY <1>2, <1>3, ProviderSteps

\* A send that succeeds ends the request.
LEMMA SendSucceedsStep ==
    ASSUME RelayTyped, RequestsPlaced, NEW q \in Requests, SendSucceeds(q)
    PROVE  RelayTyped' /\ RequestsPlaced'
<1> USE DEF RelayTyped, RelayTypeOK
<1>0. /\ UNCHANGED chanVars /\ cool' = cool /\ now' = now /\ banning' = banning /\ frozen' = frozen
      /\ promised' = promised /\ skip' = skip /\ apiErr' = apiErr /\ remain' = remain /\ start' = start
      /\ channel' = channel /\ newModel' = newModel /\ group' = group /\ ratio' = ratio
      /\ pc[q] = "send" /\ pc' = [pc EXCEPT ![q] = "done"]
      /\ sent' = [sent EXCEPT ![q] = Append(sent[q], channel[q])]
  BY DEF SendSucceeds, Goto
<1>1. Placed(q) /\ remain[q] \in 0..RetryTimes /\ RetryTimes \in Nat /\ channel[q] \in Channels
  BY <1>0, RelayAssumption DEF RequestsPlaced, Placed
<1>2. /\ Append(sent[q], channel[q]) \in Seq(Channels)
      /\ Len(Append(sent[q], channel[q])) = Len(sent[q]) + 1
  BY <1>1, Appended
<1>3. RelayTyped'
  BY <1>0, <1>2 DEF chanVars, TypeOK, PCs
<1>4. Distinct(q)'
  <2>1. sent'[q] = Append(sent[q], channel[q])
    BY <1>0
  <2>2. Distinct(q) /\ channel[q] \notin Tried(q)
    BY <1>0, <1>1 DEF Placed
  <2>3. sent[q] \in Seq(Channels)
    OBVIOUS
  <2> HIDE DEF RelayTyped, RelayTypeOK
  <2>4. Funs!IsInjective(Append(sent[q], channel[q]))
    BY <1>1, <2>2, <2>3, Appended, Zenon DEF Distinct, Tried
  <2> QED BY <2>1, <2>4, Zenon DEF Distinct
<1>5. Len(sent'[q]) = RetryTimes - remain[q] + 1
  BY <1>0, <1>1, <1>2 DEF Placed
<1>6. Placed(q)'
  BY <1>0, <1>1, <1>4, <1>5 DEF Placed
<1> QED BY <1>0, <1>3, <1>6, OthersStay

\* A send that fails is recorded, and its channel is skipped from then on
\* before the next one is asked for.
LEMMA SendFailsStep ==
    ASSUME RelayTyped, RequestsPlaced, NEW q \in Requests, NEW err \in Errors, SendFails(q, err)
    PROVE  RelayTyped' /\ RequestsPlaced'
<1> USE DEF RelayTyped, RelayTypeOK
<1> DEFINE next == IF Retries(q, err) THEN "loop" ELSE "failed"
<1>0. /\ UNCHANGED chanVars /\ cool' = cool /\ now' = now /\ frozen' = frozen
      /\ promised' = promised /\ skip' = skip /\ remain' = remain /\ start' = start
      /\ channel' = channel /\ newModel' = newModel /\ group' = group /\ ratio' = ratio
      /\ pc[q] = "send" /\ pc' = [pc EXCEPT ![q] = next]
      /\ apiErr' = [apiErr EXCEPT ![q] = err]
      /\ banning' = IF "ban" \in err THEN [banning EXCEPT ![channel[q]] = @ + 1] ELSE banning
      /\ sent' = [sent EXCEPT ![q] = Append(sent[q], channel[q])]
  BY DEF SendFails, Goto
<1>1. Placed(q) /\ remain[q] \in 0..RetryTimes /\ RetryTimes \in Nat /\ channel[q] \in Channels
  BY <1>0, RelayAssumption DEF RequestsPlaced, Placed
<1>2. /\ Append(sent[q], channel[q]) \in Seq(Channels)
      /\ Len(Append(sent[q], channel[q])) = Len(sent[q]) + 1
  BY <1>1, Appended
<1>3. RelayTyped'
  <2>1. banning' \in [Channels -> Nat]
    BY <1>0, <1>1
  <2>2. apiErr' \in [Requests -> SUBSET ErrorTraits]
    BY <1>0, RelayAssumption
  <2> QED BY <1>0, <1>2, <2>1, <2>2 DEF chanVars, TypeOK, PCs
<1>4. Distinct(q)' /\ \A x \in Tried(q)' : x \in Tried(q) \/ x = channel[q]
  <2>1. sent'[q] = Append(sent[q], channel[q])
    BY <1>0
  <2>2. Distinct(q) /\ channel[q] \notin Tried(q)
    BY <1>0, <1>1 DEF Placed
  <2>3. sent[q] \in Seq(Channels)
    OBVIOUS
  <2>4. \A x \in Tried(q)' : x \in Tried(q) \/ x = channel[q]
    <3> HIDE DEF RelayTyped, RelayTypeOK
    <3>1. \A x \in Seqs!ToSet(Append(sent[q], channel[q])) : x \in Seqs!ToSet(sent[q]) \/ x = channel[q]
      BY <1>1, <2>3, Appended, Zenon
    <3> QED BY <2>1, <3>1, Zenon DEF Tried
  <2>5. Distinct(q)'
    <3> HIDE DEF RelayTyped, RelayTypeOK
    <3>1. Funs!IsInjective(Append(sent[q], channel[q]))
      BY <1>1, <2>2, <2>3, Appended, Zenon DEF Distinct, Tried
    <3> QED BY <2>1, <3>1, Zenon DEF Distinct
  <2> QED BY <2>4, <2>5
<1>5. Len(sent'[q]) = RetryTimes - remain[q] + 1
  BY <1>0, <1>1, <1>2 DEF Placed
<1>6. Placed(q)'
  <2>1. CASE Retries(q, err)
    <3>1. pc'[q] = "loop" /\ Asked[q].specific = NoChannel /\ remain[q] > 0
      BY <1>0, <2>1 DEF Retries
    <3> QED BY <1>0, <1>1, <1>4, <1>5, <3>1 DEF Placed
  <2>2. CASE ~Retries(q, err)
    <3>1. pc'[q] = "failed"
      BY <1>0, <2>2
    <3> QED BY <1>0, <1>1, <1>4, <1>5, <3>1 DEF Placed
  <2> QED BY <2>1, <2>2
<1> QED BY <1>0, <1>3, <1>6, OthersStay

\* A freeze takes effect: the deadline it promises is not later than the one
\* the cooldown keeps.
LEMMA FreezeStep ==
    ASSUME RelayTyped, RequestsPlaced, FreezesKept, NEW q \in Requests, Freeze(q)
    PROVE  RelayTyped' /\ RequestsPlaced' /\ FreezesKept'
<1> USE DEF RelayTyped, RelayTypeOK
<1> DEFINE next == IF now - start[q] > RetryTimeOut THEN "failed" ELSE "retry"
           until == now + RetryCooldownSeconds
           k == <<channel[q], newModel[q]>>
<1>0. /\ UNCHANGED chanVars /\ now' = now /\ banning' = banning /\ apiErr' = apiErr
      /\ start' = start /\ sent' = sent
      /\ channel' = channel /\ newModel' = newModel /\ group' = group /\ ratio' = ratio
      /\ pc[q] = "loop" /\ pc' = [pc EXCEPT ![q] = next]
      /\ remain' = [remain EXCEPT ![q] = remain[q] - 1]
      /\ skip' = [skip EXCEPT ![q] = skip[q] \cup {channel[q]}]
  BY DEF Freeze, Goto
<1>1. /\ Placed(q) /\ remain[q] \in 0..RetryTimes /\ remain[q] > 0 /\ RetryTimes \in Nat
      /\ channel[q] \in Channels /\ k \in Keys /\ until \in Nat
  <2>1. Placed(q) /\ remain[q] > 0 /\ channel[q] \in Channels /\ newModel[q] \in Models
    BY <1>0 DEF RequestsPlaced, Placed
  <2>2. until \in Nat /\ RetryTimes \in Nat
    BY RelayAssumption
  <2> QED BY <2>1, <2>2 DEF Keys
<1>2. \/ cool' = cool /\ frozen' = frozen
      \/ cool[k] = 0 /\ cool' = [cool EXCEPT ![k] = until] /\ frozen' = [frozen EXCEPT ![k] = until]
  BY DEF Freeze, SetCooldowns
<1>3. promised' = promised \/ promised' = [promised EXCEPT ![<<channel[q], Asked[q].model>>] = until]
  BY DEF Freeze
<1> HIDE DEF until, k, next
<1>4. cool' \in [Keys -> Nat] /\ frozen' \in [Keys -> Nat]
  BY <1>1, <1>2
<1>5. FreezesKept'
  <2> SUFFICES ASSUME NEW j \in Keys, now < frozen'[j] PROVE frozen'[j] <= cool'[j]
    BY <1>0 DEF FreezesKept
  <2>1. CASE cool'[j] = cool[j] /\ frozen'[j] = frozen[j]
    BY <2>1 DEF FreezesKept
  <2>2. CASE cool'[j] = until /\ frozen'[j] = until
    BY <1>1, <2>2
  <2> QED BY <1>1, <1>2, <2>1, <2>2
<1>6. promised' \in [Keys -> Nat]
  <2>1. <<channel[q], Asked[q].model>> \in Keys
    BY <1>1, AskedFacts DEF Keys
  <2> QED BY <1>1, <1>3, <2>1
<1>7. next \in {"failed", "retry"}
  BY DEF next
<1>8. RelayTyped'
  <2>1. /\ pc' \in [Requests -> PCs] /\ remain' \in [Requests -> 0..RetryTimes]
        /\ skip' \in [Requests -> SUBSET Channels]
    BY <1>0, <1>1, <1>7 DEF PCs
  <2> QED BY <1>0, <1>4, <1>6, <2>1 DEF chanVars, TypeOK
<1>9. Placed(q)'
  <2>1. Tried(q)' = Tried(q) /\ Distinct(q)' = Distinct(q)
    BY <1>0 DEF Tried, Distinct
  <2>2. /\ pc'[q] = next /\ remain'[q] = remain[q] - 1 /\ skip'[q] = skip[q] \cup {channel[q]}
    BY <1>0
  <2> QED BY <1>0, <1>1, <1>7, <2>1, <2>2 DEF Placed
<1> QED BY <1>0, <1>5, <1>8, <1>9, OthersStay

-----------------------------------------------------------------------------
(* All steps. *)

\* The invariant holds before the first request.
LEMMA RelayInvInit == RelayInit => RelayInv
<1> SUFFICES ASSUME RelayInit PROVE RelayInv
  OBVIOUS
<1>1. TypeOK /\ view \in ViewType /\ StatusKept
  BY ChanInitOK DEF RelayInit
<1>2. RelayTypeOK
  BY <1>1, RelayAssumption, AskedFacts DEF RelayInit, RelayTypeOK, PCs, Keys
<1>3. RequestsPlaced
  <2> SUFFICES ASSUME NEW q \in Requests PROVE Placed(q)
    BY DEF RequestsPlaced
  <2>1. /\ pc[q] = "new" /\ sent[q] = <<>> /\ remain[q] = RetryTimes /\ RetryTimes \in Nat
        /\ ratio[q] = Asked[q].group
    BY RelayAssumption DEF RelayInit
  <2> QED BY <2>1 DEF Placed, Distinct, Funs!IsInjective
<1>4. FreezesKept
  BY DEF RelayInit, FreezesKept
<1> QED BY <1>1, <1>2, <1>3, <1>4 DEF RelayInv, RelayTyped

\* Every step keeps the invariant, also those of the administrators, the
\* Loads and the clock.
LEMMA RelayInvStep == RelayInv /\ [RelayNext]_vars => RelayInv'
<1> SUFFICES ASSUME RelayInv, [RelayNext]_vars PROVE RelayInv'
  OBVIOUS
<1> USE DEF RelayInv
<1>1. ASSUME UNCHANGED chanVars PROVE StatusKept'
  BY <1>1 DEF chanVars, StatusKept, Loading, Disabled, Routed
<1>2. ASSUME UNCHANGED <<cool, now, frozen>> PROVE FreezesKept'
  BY <1>2 DEF FreezesKept
<1>3. ASSUME UNCHANGED reqVars PROVE RequestsPlaced'
  BY <1>3 DEF reqVars, RequestsPlaced, Placed, Tried, Distinct
<1>4. ASSUME NEW q \in Requests, Arrive(q) PROVE RelayInv'
  BY <1>1, <1>2, <1>4, ArriveStep DEF Arrive
<1>5. ASSUME NEW q \in Requests, PreMap(q) PROVE RelayInv'
  <2>1. RelayTyped' /\ RequestsPlaced'
    BY <1>5, ProviderPlaced DEF PreMap
  <2> QED BY <1>1, <1>2, <1>5, <2>1 DEF PreMap
<1>6. ASSUME NEW q \in Requests, First(q) \/ Retry(q) PROVE RelayInv'
  <2>1. RelayTyped' /\ RequestsPlaced'
    BY <1>6, ProviderPlaced DEF First, Retry
  <2> QED BY <1>1, <1>2, <1>6, <2>1 DEF First, Retry
<1>7. ASSUME NEW q \in Requests, SendSucceeds(q) PROVE RelayInv'
  BY <1>1, <1>2, <1>7, SendSucceedsStep DEF SendSucceeds
<1>8. ASSUME NEW q \in Requests, NEW err \in Errors, SendFails(q, err) PROVE RelayInv'
  BY <1>1, <1>2, <1>8, SendFailsStep DEF SendFails
<1>9. ASSUME NEW q \in Requests, Freeze(q) PROVE RelayInv'
  BY <1>1, <1>9, FreezeStep DEF Freeze
<1>10. ASSUME NEW c \in Channels, ProcessChannelRelayError(c) PROVE RelayInv'
  <2>1. ChanTypes' /\ StatusKept'
    BY <1>10, ChannelSteps DEF ProcessChannelRelayError, RelayTyped, RelayTypeOK, ChanTypes
  <2>2. banning' \in [Channels -> Nat] /\ UNCHANGED <<cool, now, frozen, promised, reqVars>>
    BY <1>10 DEF ProcessChannelRelayError, RelayTyped, RelayTypeOK
  <2>3. RelayTyped'
    BY <2>1, <2>2 DEF RelayTyped, RelayTypeOK, ChanTypes, reqVars
  <2> QED BY <1>2, <1>3, <2>1, <2>2, <2>3
<1>11. ASSUME CleanupExpiredCooldowns PROVE RelayInv'
  <2>1. cool' = [k \in Keys |-> IF now >= cool[k] THEN 0 ELSE cool[k]]
        /\ UNCHANGED <<chanVars, now, banning, frozen, promised, reqVars>>
    BY <1>11 DEF CleanupExpiredCooldowns
  <2>2. cool' \in [Keys -> Nat] /\ FreezesKept'
    BY <2>1 DEF FreezesKept, RelayTyped, RelayTypeOK
  <2>3. RelayTyped'
    BY <2>1, <2>2 DEF RelayTyped, RelayTypeOK, chanVars, reqVars, TypeOK
  <2> QED BY <1>1, <1>3, <2>1, <2>2, <2>3
<1>12. ASSUME Tick PROVE RelayInv'
  <2>1. now' \in 0..MaxTime /\ FreezesKept'
    BY <1>12, RelayAssumption DEF Tick, FreezesKept, RelayTyped, RelayTypeOK
  <2>2. RelayTyped'
    BY <1>12, <2>1 DEF Tick, RelayTyped, RelayTypeOK, chanVars, reqVars, TypeOK
  <2> QED BY <1>1, <1>3, <1>12, <2>1, <2>2 DEF Tick
<1>13. ASSUME Admin \/ Refresh, UNCHANGED relayVars PROVE RelayInv'
  <2>1. ChanTypes' /\ StatusKept'
    BY <1>13, ChannelSteps DEF RelayTyped, RelayTypeOK, ChanTypes
  <2>2. RelayTyped'
    BY <1>13, <2>1 DEF RelayTyped, RelayTypeOK, ChanTypes, relayVars, reqVars
  <2> QED BY <1>2, <1>3, <1>13, <2>1, <2>2 DEF relayVars
<1>14. ASSUME UNCHANGED vars PROVE RelayInv'
  <2>1. RelayTyped'
    BY <1>14 DEF vars, relayVars, reqVars, chanVars, RelayTyped, RelayTypeOK, TypeOK
  <2> QED BY <1>1, <1>2, <1>3, <1>14, <2>1 DEF vars, relayVars
<1> QED BY <1>4, <1>5, <1>6, <1>7, <1>8, <1>9, <1>10, <1>11, <1>12, <1>13, <1>14 DEF RelayNext, Step

-----------------------------------------------------------------------------
(* The theorems about Relay. *)

\* The invariant of the retry loop in every state of every behaviour.
THEOREM RelayInvAlways == Spec => []RelayInv
BY RelayInvInit, RelayInvStep, PTL DEF Spec

\* The properties the runs check follow from the invariant.
LEMMA RelayInvMeans ==
    ASSUME RelayInv
    PROVE  RelayTypeOK /\ NoChannelTwice /\ RetriesBounded /\ BackupBilled /\ FreezeHolds
<1>1. RelayTypeOK
  BY DEF RelayInv, RelayTyped
<1>2. NoChannelTwice
  BY DEF RelayInv, RequestsPlaced, Placed, Distinct, NoChannelTwice, Funs!IsInjective
<1>3. RetriesBounded
  BY DEF RelayInv, RequestsPlaced, Placed, RetriesBounded
<1>4. BackupBilled
  BY DEF RelayInv, RequestsPlaced, Placed, BackupBilled
<1>5. FreezeHolds
  <2> DEFINE all == [skip |-> {}, allowTypes |-> Types, skipOnlyChat |-> FALSE, isStream |-> FALSE]
  <2> SUFFICES ASSUME NEW c \in Channels, NEW m \in Models, NEW g \in Groups, now < frozen[<<c, m>>],
                      c \in NextChannel(view, g, m, all, Cooling)
               PROVE  FALSE
    BY Zenon DEF FreezeHolds
  <2>1. <<c, m>> \notin Cooling
    <3> HIDE DEF all
    <3> QED BY NextIsValid, Zenon
  <2>2. <<c, m>> \in Keys
    BY DEF Keys
  <2>3. frozen[<<c, m>>] <= cool[<<c, m>>] /\ cool[<<c, m>>] \in Nat /\ frozen[<<c, m>>] \in Nat /\ now \in Int
    BY <2>2, RelayAssumption DEF RelayInv, FreezesKept, RelayTyped, RelayTypeOK
  <2> QED BY <2>1, <2>2, <2>3 DEF Cooling
<1> QED BY <1>1, <1>2, <1>3, <1>4, <1>5

\* The requests, the cooldowns, the table and the view keep their types, for
\* any number of them.
THEOREM RelayTypes == Spec => []RelayTypeOK
BY RelayInvAlways, RelayInvMeans, PTL

\* A request is never sent twice to one channel, for any number of requests,
\* channels and retries and whatever is written to the table meanwhile.
THEOREM NoChannelTwiceAlways == Spec => []NoChannelTwice
BY RelayInvAlways, RelayInvMeans, PTL

\* A request is sent at most RetryTimes + 1 times, for any RetryTimes.
THEOREM RetriesBoundedAlways == Spec => []RetriesBounded
BY RelayInvAlways, RelayInvMeans, PTL

\* A send on a channel of the backup group is billed at the ratio of the
\* backup group, for any groups and any order of first tries and retries.
THEOREM BackupBilledAlways == Spec => []BackupBilled
BY RelayInvAlways, RelayInvMeans, PTL

\* A freeze holds for all of RetryCooldownSeconds, for any number of requests
\* that freeze the same key and any duration.
THEOREM FreezeHoldsAlways == Spec => []FreezeHolds
BY RelayInvAlways, RelayInvMeans, PTL
=============================================================================
