------------------------------ MODULE Channels ------------------------------
(***************************************************************************)
(* The channels table and one process's in-memory view of it, the          *)
(* ChannelsChooser of model/balancer.go.                                   *)
(*                                                                         *)
(* Administration handlers write the table and then rebuild the view with  *)
(* Load, which reads the table, builds a new view without a lock and swaps *)
(* it in.  UpdateChannelStatusById commits the status of one row and then  *)
(* starts a goroutine that sets one Disable flag of whatever view is there *)
(* when it runs.  On a node that is not the master SyncChannelCache calls  *)
(* Load for ever; on the master nothing repairs a view that went wrong.    *)
(***************************************************************************)
EXTENDS Balancer

CONSTANTS Handlers,      \* goroutines that may be inside Load
          Syncer,        \* the one that runs SyncChannelCache
          IsMasterNode,  \* config.IsMasterNode
          InitRows,      \* the channels table at start-up
          Forms,         \* Forms[c]: the rows an administrator may save for c
          Tagged,        \* the channels that carry the tag
          MaxWrites      \* bound: administration writes in a behaviour

VARIABLES rows,      \* the channels table
          view,      \* ChannelGroup: Channels, Rule, Match
          load,      \* what each handler is doing in Load
          changes,   \* pending "go ChangeStatus(id, status)" goroutines
          writes,    \* administration writes so far (bound)
          raced      \* history: a write or a flag change fell between the
                     \* read and the swap of a Load, two status changes of
                     \* one channel were pending together, or another node
                     \* saved a row

chanVars == <<rows, view, load, changes, writes, raced>>

Table == [Channels -> Row]

\* The table of an idle handler means nothing.
Idle == [pc |-> "idle", table |-> InitRows]

ASSUME ChannelsAssumption ==
    /\ Syncer \in Handlers
    /\ IsMasterNode \in BOOLEAN
    /\ InitRows \in Table
    /\ Forms \in [Channels -> SUBSET Row]
    /\ \A c \in Channels : \A form \in Forms[c] : form.status \in {Enabled, ManuallyDisabled, AutoDisabled}
    /\ Tagged \subseteq Channels
    /\ MaxWrites \in Nat

Stored(table, c) == table[c].status \notin {Unborn, Absent}

Routed == {c \in DOMAIN view.channels : ~view.channels[c].disable}

\* Some Load has read the table and not yet installed its view.
LoadPending == \E h \in Handlers : load[h].pc = "swap"

Quiet ==
    /\ \A h \in Handlers : load[h].pc = "idle"
    /\ \A ch \in Channels \X BOOLEAN : changes[ch] = 0

\* The type invariant: the view holds only channels of the table and a Load
\* carries a whole table from its read to its swap.
TypeOK ==
    /\ rows \in Table
    /\ DOMAIN view.channels \subseteq Channels
    /\ view.channels \in [DOMAIN view.channels -> Choice]
    /\ view.match \in Seq(Wildcards)
    /\ load \in [Handlers -> [pc : {"idle", "read", "swap"}, table : Table]]
    /\ changes \in [Channels \X BOOLEAN -> Nat]
    /\ writes \in 0..MaxWrites
    /\ raced \in BOOLEAN

ChanInit ==
    /\ rows = InitRows
    /\ view \in Load(InitRows)
    /\ load = [h \in Handlers |-> Idle]
    /\ changes = [ch \in Channels \X BOOLEAN |-> 0]
    /\ writes = 0
    /\ raced = FALSE

-----------------------------------------------------------------------------
(* The administration: write the table, then Load *)

\* A write of the table by an administrator, on the goroutine of h.
AdminWrite(h, table) ==
    /\ load[h] = Idle
    /\ writes < MaxWrites
    /\ writes' = writes + 1
    /\ rows' = table
    /\ raced' = (raced \/ LoadPending)
    /\ load' = [load EXCEPT ![h].pc = "read"]
    /\ UNCHANGED <<view, changes>>

\* Channel.Insert, BatchInsertChannels; Channel.Update writes every column of
\* the form it was sent, the status among them, and changes nothing when the
\* row is deleted; the Load follows either way.
Saved(c, form) == IF rows[c].status = Absent THEN rows ELSE [rows EXCEPT ![c] = form]

Save(h, c) == \E form \in Forms[c] : AdminWrite(h, Saved(c, form))

Delete(h, c) ==
    AdminWrite(h, IF Stored(rows, c) THEN [rows EXCEPT ![c].status = Absent] ELSE rows)

ChangeChannelsTagStatus(h, status) ==
    AdminWrite(h, [c \in Channels |-> IF c \in Tagged /\ Stored(rows, c)
                                      THEN [rows[c] EXCEPT !.status = status]
                                      ELSE rows[c]])

DeleteChannelsTag(h, delDisabled) ==
    AdminWrite(h, [c \in Channels |->
                     IF /\ c \in Tagged /\ Stored(rows, c)
                        /\ delDisabled => rows[c].status \in {AutoDisabled, ManuallyDisabled}
                     THEN [rows[c] EXCEPT !.status = Absent]
                     ELSE rows[c]])

\* A write that is not followed by a Load: BatchDeleteChannel and
\* DeleteDisabledChannel.
QuietWrite(table) ==
    /\ writes < MaxWrites
    /\ writes' = writes + 1
    /\ rows' = table
    /\ raced' = (raced \/ LoadPending)
    /\ UNCHANGED <<view, load, changes>>

BatchDeleteChannel(ids) ==
    QuietWrite([c \in Channels |-> IF c \in ids /\ Stored(rows, c)
                                   THEN [rows[c] EXCEPT !.status = Absent]
                                   ELSE rows[c]])

DeleteDisabledChannel ==
    QuietWrite([c \in Channels |-> IF rows[c].status \in {AutoDisabled, ManuallyDisabled}
                                   THEN [rows[c] EXCEPT !.status = Absent]
                                   ELSE rows[c]])

\* An administrator of another node saves a row.
RemoteSave(c) ==
    /\ ~IsMasterNode
    /\ writes < MaxWrites
    /\ writes' = writes + 1
    /\ \E form \in Forms[c] : rows' = Saved(c, form)
    /\ raced' = TRUE
    /\ UNCHANGED <<view, load, changes>>

-----------------------------------------------------------------------------
(* Load *)

LoadRead(h) ==
    /\ load[h].pc = "read"
    /\ load' = [load EXCEPT ![h] = [pc |-> "swap", table |-> rows]]
    /\ UNCHANGED <<rows, view, changes, writes, raced>>

LoadSwap_KeepsOld(h) ==   \* Mutant: the new map is merged into the old one
    /\ load[h].pc = "swap"
    /\ \E new \in Load(load[h].table) :
          view' = [channels |-> [c \in DOMAIN new.channels \cup DOMAIN view.channels |->
                                    IF c \in DOMAIN new.channels
                                    THEN new.channels[c] ELSE view.channels[c]],
                   match |-> new.match]
    /\ load' = [load EXCEPT ![h] = Idle]
    /\ UNCHANGED <<rows, changes, writes, raced>>
LoadSwap(h) ==
    /\ load[h].pc = "swap"
    /\ view' \in Load(load[h].table)
    /\ load' = [load EXCEPT ![h] = Idle]
    /\ UNCHANGED <<rows, changes, writes, raced>>

SyncChannelCache_Once ==   \* Mutant: the loop ends after its first round
    /\ ~IsMasterNode
    /\ load[Syncer] = Idle
    /\ writes = 0
    /\ load' = [load EXCEPT ![Syncer].pc = "read"]
    /\ UNCHANGED <<rows, view, changes, writes, raced>>
SyncChannelCache ==
    /\ ~IsMasterNode
    /\ load[Syncer] = Idle
    /\ load' = [load EXCEPT ![Syncer].pc = "read"]
    /\ UNCHANGED <<rows, view, changes, writes, raced>>

-----------------------------------------------------------------------------
(* UpdateChannelStatusById and its goroutine *)

UpdateChannelStatusById(c, status) ==
    /\ rows' = IF Stored(rows, c) THEN [rows EXCEPT ![c].status = status] ELSE rows
    /\ changes' = [changes EXCEPT ![<<c, status = Enabled>>] = @ + 1]
    /\ raced' = \/ raced \/ LoadPending
                \/ \E up \in BOOLEAN : changes[c, up] > 0
    /\ UNCHANGED <<view, load, writes>>

DisableChannel(c) == UpdateChannelStatusById(c, AutoDisabled)

EnableChannel(c) == UpdateChannelStatusById(c, Enabled)

\* ChangeStatus: Enable or Disable under the lock; a channel that the view
\* does not hold is left alone.
ChangeStatus(c, status) ==
    /\ changes[c, status] > 0
    /\ changes' = [changes EXCEPT ![<<c, status>>] = @ - 1]
    /\ view' = IF c \in DOMAIN view.channels
               THEN [view EXCEPT !.channels[c].disable = ~status]
               ELSE view
    /\ raced' = (raced \/ LoadPending)
    /\ UNCHANGED <<rows, load, writes>>

Admin ==
    \/ \E h \in Handlers \ {Syncer} :
          \/ \E c \in Channels : Save(h, c) \/ Delete(h, c)
          \/ \E status \in {Enabled, ManuallyDisabled} : ChangeChannelsTagStatus(h, status)
          \/ \E delDisabled \in BOOLEAN : DeleteChannelsTag(h, delDisabled)
    \/ \E ids \in SUBSET Channels \ {{}} : BatchDeleteChannel(ids)
    \/ DeleteDisabledChannel
    \/ \E c \in Channels : RemoteSave(c)

LoadStep(h) == LoadRead(h) \/ LoadSwap(h)

Refresh ==
    \/ \E h \in Handlers : LoadStep(h)
    \/ SyncChannelCache
    \/ \E c \in Channels, status \in BOOLEAN : ChangeStatus(c, status)

-----------------------------------------------------------------------------
(* Properties *)

\* A channel whose row says disabled is not routed to once every Load and
\* every ChangeStatus goroutine has finished, unless one of the events that
\* raced records took place: a race of Load with a write or with Disable, two
\* status changes of one channel in flight, or a write of another node are
\* the only ways in which a view keeps routing to a disabled channel.
DisableSticks ==
    Quiet /\ ~raced =>
        \A c \in Channels : rows[c].status \in {AutoDisabled, ManuallyDisabled} => c \notin Routed

\* A node that is not the master ends up with the view of the table as it
\* stands, whatever races and writes of other nodes came before.
ViewHeals ==
    <>[](view.channels = LoadChannels(rows))
=============================================================================
