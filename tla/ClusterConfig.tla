---------------------------- MODULE ClusterConfig ----------------------------
(***************************************************************************)
(* How the nodes of a cluster agree on who serves the slots of a shard     *)
(* (cluster_legacy.c).  A replica that won an election, or was told to     *)
(* take over, claims the slots of its primary with a new configuration     *)
(* epoch; PING, PONG and UPDATE messages carry the claim to the others,    *)
(* with delays, losses and in any order (a node sends over its own link    *)
(* and answers over the link of the other one).                            *)
(*                                                                         *)
(* The slots of the shard move together, and the nodes of other shards are *)
(* observers with slots of their own.  Of an election only the outcome     *)
(* matters here: an epoch that no other election got, greater than those   *)
(* the winner knows of the nodes other than its primary                    *)
(* (ElectedEpochUnique and WinBeatsClaims of ClusterElection).             *)
(***************************************************************************)
EXTENDS Integers, FiniteSets, FiniteSetsExt

CONSTANTS
    Shard,         \* the first primary and its replicas
    First,         \* the primary of the shard at the start
    Observers,     \* nodes of other shards
    NoNode,        \* NULL
    MaxConfigEpoch,  \* bound on epochs
    MaxFailovers,  \* bound on elections and takeovers
    MaxInFlight    \* bound on messages in flight

Members == Shard \cup Observers

\* Node names are compared with memcmp: they are numbers here.
ASSUME ConfigAssumption ==
    /\ Members \subseteq Nat
    /\ First \in Shard
    /\ Shard \cap Observers = {}
    /\ NoNode \notin Members

VARIABLES
    view,          \* n -> what n knows of the cluster
    bus,           \* the messages in flight
    won,           \* the epochs that elections gave
    failovers      \* number of elections and takeovers

configVars == <<view, bus, won, failovers>>

\* claimed is FALSE when the owner stopped claiming (owner_not_claiming_slot).
ConfigInit ==
    /\ view = [n \in Members |->
                  [currentEpoch |-> 1,
                   configEpoch |-> [m \in Shard |-> IF m = First THEN 1 ELSE 0],
                   replicaof |-> [m \in Shard |-> IF m = First THEN NoNode ELSE First],
                   owner |-> First,
                   claimed |-> TRUE]]
    /\ bus = {}
    /\ won = {}
    /\ failovers = 0

clusterNodeIsPrimary(s, m) == s.replicaof[m] = NoNode

PrimaryOf(s, m) == IF clusterNodeIsPrimary(s, m) THEN m ELSE s.replicaof[m]

nodeEpoch(s, m) == s.configEpoch[PrimaryOf(s, m)]

-----------------------------------------------------------------------------
(* Messages *)

\* clusterBuildMessageHdr: a replica sends the slots and epoch of its primary.
\* A PONG has the same header.
Ping(n, to) ==
    LET s == view[n]
    IN  [type |-> "PING", from |-> n, to |-> to, currentEpoch |-> s.currentEpoch,
         replicaof |-> s.replicaof[n], configEpoch |-> nodeEpoch(s, n),
         slots |-> s.owner = PrimaryOf(s, n)]

\* clusterSendUpdate: slots that their owner stopped claiming are left out.
Update(n, s, to) ==
    [type |-> "UPDATE", from |-> n, to |-> to, currentEpoch |-> s.currentEpoch,
     about |-> s.owner, configEpoch |-> s.configEpoch[s.owner], slots |-> s.claimed]

-----------------------------------------------------------------------------
(* What a message does to the view s of node n *)

clusterSetPrimary(n, s, m) == [s EXCEPT !.replicaof[n] = m]

\* The slots go to the claim with the greater epoch, or to any claim when
\* their owner stopped claiming them (isSlotUnclaimed).
Rebind(s, m, e, slots) ==
    slots /\ s.owner # m /\ (~s.claimed \/ s.configEpoch[s.owner] < e)

\* clusterUpdateSlotsConfigWith: m claims (or not) the slots with epoch e.
clusterUpdateSlotsConfigWith(n, s, m, e, slots) ==
    LET rebind == Rebind(s, m, e, slots)
        s1     == [s EXCEPT !.owner = IF rebind THEN m ELSE @,
                            !.claimed = IF rebind \/ s.owner = m THEN slots ELSE @]
        lost   == rebind /\ s.owner = PrimaryOf(s, n)
        empty  == ~slots /\ s.replicaof[n] # m /\ s1.owner # n /\ nodeEpoch(s1, n) < e
    IN  IF m = n THEN s
        ELSE IF n \in Shard /\ (lost \/ empty) /\ s1.owner # PrimaryOf(s, n)
        THEN clusterSetPrimary(n, s1, m)
        ELSE s1

\* A node that was a primary says that it is a replica, with an older epoch.
Stale(s, m) ==
    m.replicaof # NoNode /\ clusterNodeIsPrimary(s, m.from) /\ nodeEpoch(s, m.replicaof) > m.configEpoch

\* Mutation: the slots change hands, the roles do not.
MutHandover(s, m, p) ==
    IF clusterNodeIsPrimary(s, m) /\ ~clusterNodeIsPrimary(s, p)
    THEN [s EXCEPT !.owner = IF @ = m THEN p ELSE @, !.claimed = @ \/ s.owner = m]
    ELSE s

\* A node that was a primary is a replica of one we take for a replica.
Handover(s, m, p) ==
    IF clusterNodeIsPrimary(s, m) /\ ~clusterNodeIsPrimary(s, p)
    THEN [s EXCEPT !.owner = IF @ = m THEN p ELSE @,
                   !.claimed = @ \/ s.owner = m,
                   !.replicaof[p] = NoNode]
    ELSE s

\* The node is a replica of a replica, other than its own.
Chained(n, s) ==
    /\ n \in Shard /\ ~clusterNodeIsPrimary(s, n)
    /\ s.replicaof[s.replicaof[n]] \notin {NoNode, n}

\* The role switch of clusterProcessPacket; a replica of a replica moves up.
SwitchRole(n, s, m) ==
    LET p  == m.replicaof
        s1 == Handover(s, m.from, p)
        s2 == IF s1 = s THEN s ELSE [s1 EXCEPT !.configEpoch[p] = m.configEpoch]
        s3 == [s2 EXCEPT !.replicaof[m.from] = p]
    IN  IF p = NoNode THEN [s EXCEPT !.replicaof[m.from] = NoNode]
        ELSE IF s.replicaof[m.from] # p /\ Chained(n, s3)
        THEN clusterSetPrimary(n, s3, s3.replicaof[s3.replicaof[n]])
        ELSE s3

\* Mutation: neither node of a collision moves on.
MutCollision(n, s, m) ==
    IF /\ n \in Shard /\ clusterNodeIsPrimary(s, n) /\ clusterNodeIsPrimary(s, m.from)
       /\ m.configEpoch = s.configEpoch[n] /\ s.configEpoch[m.from] = s.configEpoch[n]
       /\ m.from = n
    THEN [s EXCEPT !.currentEpoch = @ + 1, !.configEpoch[n] = s.currentEpoch + 1]
    ELSE s

\* The node with the smaller name takes the next epoch.
clusterHandleConfigEpochCollision(n, s, m) ==
    IF /\ n \in Shard /\ clusterNodeIsPrimary(s, n) /\ clusterNodeIsPrimary(s, m.from)
       /\ m.configEpoch = s.configEpoch[n] /\ s.configEpoch[m.from] = s.configEpoch[n]
       /\ m.from > n
    THEN [s EXCEPT !.currentEpoch = @ + 1, !.configEpoch[n] = s.currentEpoch + 1]
    ELSE s

TakeEpochs(s, m) ==
    [s EXCEPT !.currentEpoch = Max({@, m.currentEpoch}),
              !.configEpoch[m.from] = IF m.replicaof = NoNode THEN Max({@, m.configEpoch}) ELSE @]

\* clusterProcessPacket for a PING or PONG
AfterPing(n, s0, m) ==
    LET s == TakeEpochs(s0, m)
        r == SwitchRole(n, s, m)
        c == IF m.replicaof = NoNode /\ (~clusterNodeIsPrimary(s, m.from) \/ m.slots # (r.owner = m.from))
             THEN clusterUpdateSlotsConfigWith(n, r, m.from, m.configEpoch, m.slots)
             ELSE r
    IN  IF Stale(s, m) THEN s ELSE clusterHandleConfigEpochCollision(n, c, m)

\* The sender claims slots that a primary with a greater epoch owns.
Outdated(s, m) ==
    /\ m.replicaof = NoNode /\ m.slots
    /\ s.owner # m.from /\ s.claimed /\ s.configEpoch[s.owner] > m.configEpoch

-----------------------------------------------------------------------------
(* Steps *)

Tells(m) ==
    LET s == AfterPing(m.to, view[m.to], m)
    IN  s # view[m.to] \/ Outdated(s, m)

Answer(s, m) == IF Outdated(s, m) THEN {Update(m.to, s, m.from)} ELSE {}

\* Pings of clusterCron, pongs and CLUSTER_TODO_BROADCAST_ALL; one that would
\* tell the receiver nothing is left out.
SendPing(n, to) ==
    LET m == Ping(n, to)
    IN  /\ Cardinality(bus) < MaxInFlight
        /\ m \notin bus
        /\ Tells(m)
        /\ bus' = bus \cup {m}
        /\ UNCHANGED <<view, won, failovers>>

Lose(m) ==
    /\ bus' = bus \ {m}
    /\ UNCHANGED <<view, won, failovers>>

DeliverPing(m) ==
    LET s == AfterPing(m.to, view[m.to], m)
    IN  /\ m.type = "PING"
        /\ s.currentEpoch <= MaxConfigEpoch
        /\ view' = [view EXCEPT ![m.to] = s]
        /\ bus' = (bus \ {m}) \cup Answer(s, m)
        /\ UNCHANGED <<won, failovers>>

\* CLUSTERMSG_TYPE_UPDATE
DeliverUpdate(m) ==
    LET s == [view[m.to] EXCEPT !.currentEpoch = Max({@, m.currentEpoch})]
        t == [s EXCEPT !.replicaof[m.about] = NoNode, !.configEpoch[m.about] = m.configEpoch]
    IN  /\ m.type = "UPDATE"
        /\ view' = [view EXCEPT ![m.to] =
               IF s.configEpoch[m.about] >= m.configEpoch THEN s
               ELSE clusterUpdateSlotsConfigWith(m.to, t, m.about, m.configEpoch, m.slots)]
        /\ bus' = bus \ {m}
        /\ UNCHANGED <<won, failovers>>

\* clusterFailoverReplaceYourPrimary, with epoch e
ReplacePrimary(n, e) ==
    LET s == view[n]
    IN  view' = [view EXCEPT ![n] =
            [s EXCEPT !.currentEpoch = Max({@, e}),
                      !.configEpoch[n] = e,
                      !.replicaof[n] = NoNode,
                      !.owner = IF @ = s.replicaof[n] THEN n ELSE @,
                      !.claimed = @ \/ s.owner = s.replicaof[n]]]

\* An election is won (clusterHandleReplicaFailover).
Promote(n) ==
    /\ ~clusterNodeIsPrimary(view[n], n)
    /\ failovers < MaxFailovers
    /\ \E e \in (2 .. MaxConfigEpoch) \ won :
         /\ \A m \in Shard \ {view[n].replicaof[n]} : e > view[n].configEpoch[m]
         /\ ReplacePrimary(n, e)
         /\ won' = won \cup {e}
    /\ failovers' = failovers + 1
    /\ UNCHANGED bus

\* CLUSTER FAILOVER TAKEOVER: an epoch without consensus
Takeover(n) ==
    LET s == view[n]
        top == Max({s.currentEpoch} \cup {s.configEpoch[m] : m \in Shard})
        e == IF s.configEpoch[n] = 0 \/ s.configEpoch[n] # top THEN s.currentEpoch + 1 ELSE s.configEpoch[n]
    IN  /\ ~clusterNodeIsPrimary(s, n)
        /\ failovers < MaxFailovers
        /\ e <= MaxConfigEpoch
        /\ ReplacePrimary(n, e)
        /\ failovers' = failovers + 1
        /\ UNCHANGED <<bus, won>>

ConfigNext ==
    \/ \E n \in Shard : Promote(n) \/ Takeover(n)
    \/ \E n \in Shard, to \in Members : n # to /\ SendPing(n, to)
    \/ \E m \in bus : Lose(m) \/ DeliverPing(m) \/ DeliverUpdate(m)

ConfigSpec == ConfigInit /\ [][ConfigNext]_configVars

-----------------------------------------------------------------------------

\* No message is in flight and none that a node may send tells anything new.
Quiet == bus = {} /\ \A n \in Shard, to \in Members : n # to => ~Tells(Ping(n, to))

\* All nodes have the same owner of the slots, and take the others of the
\* shard for its replicas.
Agreed ==
    \E o \in Shard : \A n \in Members :
        /\ view[n].owner = o
        /\ \A m \in Shard : view[n].replicaof[m] = IF m = o THEN NoNode ELSE o

\* Whatever elections and takeovers happened, and however the announcements
\* of their winners were delayed, lost or reordered, the exchange of pings
\* does not come to rest before all nodes agree on the roles of the shard.
QuietIsAgreed == Quiet => Agreed

\* No node replicates itself or one of its own replicas, as far as it knows:
\* neither the promotion of a replica, nor a primary that says it has become a
\* replica, nor the reduction of chains of replicas closes a circle in which
\* nobody has the data (the assertions of clusterSetPrimary).
NoReplicationCycle ==
    \A n \in Shard : ~clusterNodeIsPrimary(view[n], n) =>
        LET p == view[n].replicaof[n]
        IN  p # n /\ view[n].replicaof[p] # n

=============================================================================
