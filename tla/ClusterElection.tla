--------------------------- MODULE ClusterElection ---------------------------
(***************************************************************************)
(* The election that replaces the primary of a shard (cluster_legacy.c):   *)
(* its replicas ask the primaries that serve slots for a vote, and the one *)
(* that collects a quorum takes the slots, with the epoch of the election  *)
(* as its configuration epoch.  Nodes crash and come back with their       *)
(* nodes.conf; messages are delayed, lost and reordered (a node sends over *)
(* its own link to a node and answers over the link of the other one).     *)
(*                                                                         *)
(* A handler is one step together with the save of clusterBeforeSleep,     *)
(* which precedes the writes of the messages that the handler queued.  A   *)
(* request for votes and a won election are the exceptions: both happen in *)
(* clusterBeforeSleep, and are saved by the next one; the request goes out *)
(* before that, the pongs of the winner after it.                          *)
(*                                                                         *)
(* How the nodes then agree on the new roles is the subject of             *)
(* ClusterConfig; here a replica that hears of the winner leaves the race. *)
(***************************************************************************)
EXTENDS Integers, FiniteSets, FiniteSetsExt

CONSTANTS
    Primary,       \* the primary to be replaced
    Voters,        \* the primaries of the other shards
    Replicas,      \* the replicas of Primary
    MaxEpoch,      \* bound on currentEpoch
    MaxEvents      \* bound on restarts, forced failovers and imports

Primaries == Voters \cup {Primary}
Nodes == Primaries \cup Replicas

ASSUME ElectionAssumption ==
    /\ IsFiniteSet(Voters)
    /\ Primary \notin Voters \cup Replicas
    /\ Voters \cap Replicas = {}

\* server.cluster->size counts the primaries that serve slots.
Quorum == Cardinality(Primaries) \div 2 + 1

VARIABLES
    node,          \* n -> the part of its state that nodes.conf holds
    disk,          \* n -> nodes.conf
    safe,          \* n -> safe_to_join
    auth,          \* r -> its election
    manual,        \* r -> mf_end # 0 and mf_can_start
    msgs,          \* the messages on the bus
    votes,         \* auxiliary: the votes ever given
    wins,          \* auxiliary: the elections ever won
    events         \* number of restarts, forced failovers and imports

electionVars == <<node, disk, safe, auth, manual, msgs, votes, wins, events>>

\* failover_auth_time: 0 ("none") or the time of an election that is due or
\* running ("open"); an election may time out at any moment.  from is auxiliary: the
\* epochs and voters of the votes that failover_auth_count counts.
NoElection == [time |-> "none", sent |-> FALSE, count |-> 0, epoch |-> 0, from |-> {}]

\* owner is the node that serves the slots of the shard, as far as n knows.
ElectionInit ==
    /\ \E failed \in BOOLEAN : node = [n \in Nodes |->
          [currentEpoch |-> 1, lastVoteEpoch |-> 0,
           configEpoch |-> [m \in Nodes |-> IF m = Primary THEN 1 ELSE 0],
           owner |-> Primary, failed |-> failed /\ n # Primary]]
    /\ disk = node
    /\ safe = [n \in Nodes |-> TRUE]
    /\ auth = [r \in Replicas |-> NoElection]
    /\ manual = [r \in Replicas |-> FALSE]
    /\ msgs = {}
    /\ votes = {}
    /\ wins = {}
    /\ events = 0

Event == events < MaxEvents /\ events' = events + 1

IsPrimary(s, n) == n \in Voters \/ s.owner = n

-----------------------------------------------------------------------------
(* Messages *)

\* clusterBuildMessageHdr: a replica sends the epoch of its primary.
Message(type, n, s, to, force) ==
    [type |-> type, from |-> n, to |-> to, currentEpoch |-> s.currentEpoch, force |-> force,
     primary |-> IsPrimary(s, n),
     configEpoch |-> s.configEpoch[IF IsPrimary(s, n) THEN n ELSE s.owner],
     about |-> IF type = "UPDATE" THEN s.owner ELSE n,
     aboutEpoch |-> s.configEpoch[IF type = "UPDATE" THEN s.owner ELSE n]]

\* clusterProcessPacket, for every message: newer epochs are taken over.
SeeEpochs(s, m) ==
    [s EXCEPT !.currentEpoch = Max({@, m.currentEpoch}),
              !.configEpoch[m.from] = IF m.primary THEN Max({@, m.configEpoch}) ELSE @]

\* Mutation: a claim leaves the election of the replica alone.
MutKeepElection(a, s, m) == a

\* An election for an epoch that somebody else claims is given up.
ResetElection(a, s, m) ==
    IF /\ m.primary /\ m.configEpoch > s.configEpoch[m.from]
       /\ a.time # "none" /\ a.sent /\ m.configEpoch >= a.epoch
    THEN [a EXCEPT !.time = "none"]
    ELSE a

\* What the receiver would ignore: an old request, a second one for an epoch,
\* a vote for an older election, an UPDATE about what it knows.
Ignored(m) ==
    LET s == node[m.to]
    IN  \/ /\ m.type = "AUTH_REQUEST"
           /\ m.currentEpoch < s.currentEpoch \/ m.currentEpoch = s.lastVoteEpoch
        \/ m.type = "AUTH_ACK" /\ (m.currentEpoch < auth[m.to].epoch \/ s.owner = m.to)
        \/ m.type = "UPDATE" /\ m.aboutEpoch <= s.configEpoch[m.about]

\* Messages arrive and are sent; those that would be ignored are dropped now.
Exchange(arrived, sent) ==
    msgs' = {m \in (msgs \ arrived) \cup sent : ~Ignored(m)'}

Receive(n, type, m) == m \in msgs /\ m.to = n /\ m.type = type

\* server.cluster of n becomes s; with a save, nodes.conf too.
Become(n, s, save) ==
    /\ node' = [node EXCEPT ![n] = s]
    /\ disk' = IF save THEN [disk EXCEPT ![n] = s] ELSE disk

\* Changes other than that of currentEpoch ask for a save.
Saves(s, t) == [s EXCEPT !.currentEpoch = 0] # [t EXCEPT !.currentEpoch = 0]

\* clusterUpdateSlotsConfigWith: node o claims the slots of the shard with
\* epoch e.  Whoever does not know o as an owner that failed trusts it.
TakeOwner(s, o, e) ==
    IF o \notin Voters /\ s.configEpoch[s.owner] < e
    THEN [s EXCEPT !.owner = o, !.configEpoch[o] = e, !.failed = FALSE]
    ELSE s

\* A replica that accepts the claim follows the new owner (clusterSetPrimary).
Hear(n, m) ==
    LET s == SeeEpochs(node[n], m)
        t == TakeOwner(s, m.about, m.aboutEpoch)
        moved == t.owner # s.owner
    IN  /\ Become(n, t, Saves(node[n], t))
        /\ IF n \in Replicas
           THEN LET a == ResetElection(auth[n], node[n], m)
                IN  /\ auth' = [auth EXCEPT ![n] = IF moved THEN [a EXCEPT !.time = "none"] ELSE a]
                    /\ manual' = [manual EXCEPT ![n] = @ /\ ~moved]
           ELSE UNCHANGED <<auth, manual>>

\* Pings and pongs carry nothing but the epochs of their sender, which grow:
\* one that is late does no more than one that is sent now.  A primary has
\* saved what it announces.  The pings of a voter to another primary are left out:
\* they raise currentEpoch, as a request for votes does.
ReceivePing(n, from) ==
    /\ from \in Voters => n \in Replicas
    /\ IsPrimary(disk[from], from)
    /\ disk[from].configEpoch[from] > node[n].configEpoch[from]
    /\ Hear(n, Message("PING", from, disk[from], n, FALSE))
    /\ Exchange({}, {})
    /\ UNCHANGED <<safe, votes, wins, events>>

\* CLUSTERMSG_TYPE_UPDATE
ReceiveUpdate(n, m) ==
    /\ Receive(n, "UPDATE", m)
    /\ Hear(n, m)
    /\ Exchange({m}, {})
    /\ UNCHANGED <<safe, votes, wins, events>>

-----------------------------------------------------------------------------
(* Votes *)

\* The checks of clusterSendFailoverAuthIfNeeded but the last one.
MayVote(n, s, m) ==
    /\ IsPrimary(s, n) /\ safe[n]
    /\ m.currentEpoch >= s.currentEpoch
    /\ s.lastVoteEpoch # s.currentEpoch
    /\ ~IsPrimary(s, m.from)
    /\ s.failed \/ m.force

\* Mutation: nodes.conf keeps the last vote but one.
MutSaveOldVote(n, s) == [disk EXCEPT ![n] = [s EXCEPT !.lastVoteEpoch = node[n].lastVoteEpoch]]

SaveVote(n, s) == [disk EXCEPT ![n] = s]

clusterSendFailoverAuthIfNeeded(n, m) ==
    LET s   == SeeEpochs(node[n], m)
        v   == [s EXCEPT !.lastVoteEpoch = s.currentEpoch]
        old == s.configEpoch[s.owner] > m.configEpoch
    IN  /\ Receive(n, "AUTH_REQUEST", m)
        /\ UNCHANGED <<safe, auth, manual, wins, events>>
        /\ \/ /\ MayVote(n, s, m) /\ ~old
              /\ node' = [node EXCEPT ![n] = v]
              /\ disk' = SaveVote(n, v)
              /\ votes' = votes \cup {[voter |-> n, epoch |-> v.lastVoteEpoch, node |-> m.from]}
              /\ Exchange({m}, {Message("AUTH_ACK", n, v, m.from, FALSE)})
           \/ /\ MayVote(n, s, m) /\ old
              /\ node' = [node EXCEPT ![n] = s]
              /\ Exchange({m}, {Message("UPDATE", n, s, m.from, FALSE)})
              /\ UNCHANGED <<disk, votes>>
           \/ /\ ~MayVote(n, s, m)
              /\ node' = [node EXCEPT ![n] = s]
              /\ Exchange({m}, {})
              /\ UNCHANGED <<disk, votes>>

\* CLUSTERMSG_TYPE_FAILOVER_AUTH_ACK
ReceiveAck(n, m) ==
    LET s == SeeEpochs(node[n], m)
        a == ResetElection(auth[n], node[n], m)
    IN  /\ Receive(n, "AUTH_ACK", m)
        /\ Become(n, s, Saves(node[n], s))
        /\ auth' = [auth EXCEPT ![n] =
               IF IsPrimary(s, m.from) /\ m.currentEpoch >= a.epoch
               THEN [a EXCEPT !.count = @ + 1, !.from = @ \cup {<<m.from, m.currentEpoch>>}]
               ELSE a]
        /\ Exchange({m}, {})
        /\ UNCHANGED <<safe, manual, votes, wins, events>>

-----------------------------------------------------------------------------
(* clusterHandleReplicaFailover, called by clusterCron and                 *)
(* clusterBeforeSleep                                                      *)

CanFailover(n) == node[n].owner # n /\ (node[n].failed \/ manual[n])

NewElection(n) == [auth[n] EXCEPT !.time = "open", !.sent = FALSE, !.count = 0, !.from = {}]

ScheduleElection(n) ==
    /\ CanFailover(n) /\ ~manual[n]
    /\ auth' = [auth EXCEPT ![n] = NewElection(n)]
    /\ UNCHANGED <<node, disk, safe, manual, msgs, votes, wins, events>>

\* The nodes of the shard that take themselves for its primary.
Owners == {m \in Replicas \cup {Primary} : node[m].owner = m}

\* Votes are asked for when the delay is over; without any when it is manual.
\* The copies sent to replicas only carry the epoch, and are left out; a replica
\* that became the owner may vote for a manual one, as the primary may.
RequestVotes(n) ==
    LET a == IF manual[n] /\ auth[n].time = "none" THEN NewElection(n) ELSE auth[n]
        e == node[n].currentEpoch + 1
        s == [node[n] EXCEPT !.currentEpoch = e]
    IN  /\ CanFailover(n)
        /\ a.time = "open" /\ ~a.sent
        /\ e <= MaxEpoch
        /\ auth' = [auth EXCEPT ![n] = [a EXCEPT !.sent = TRUE, !.epoch = e]]
        /\ node' = [node EXCEPT ![n] = s]
        /\ Exchange({}, {Message("AUTH_REQUEST", n, s, m, manual[n]) :
                            m \in Voters \cup (IF manual[n] THEN Owners ELSE {})})
        /\ UNCHANGED <<disk, safe, manual, votes, wins, events>>

\* Mutation: one vote less than a majority is enough.
MutReached(n) == auth[n].count >= Quorum - 1

Reached(n) == auth[n].count >= Quorum

\* The election is won: clusterFailoverReplaceYourPrimary
WinElection(n) ==
    LET a == auth[n]
    IN  /\ CanFailover(n)
        /\ a.time = "open" /\ a.sent
        /\ Reached(n)
        /\ node' = [node EXCEPT ![n].configEpoch[n] = Max({@, a.epoch}), ![n].owner = n]
        /\ auth' = [auth EXCEPT ![n].time = "none"]
        /\ manual' = [manual EXCEPT ![n] = FALSE]
        /\ wins' = wins \cup {[node |-> n, epoch |-> a.epoch, from |-> a.from, owner |-> node[n].owner,
                               others |-> {node[n].configEpoch[m] : m \in Nodes \ {n, node[n].owner}}]}
        /\ Exchange({}, {})
        /\ UNCHANGED <<disk, safe, votes, events>>

-----------------------------------------------------------------------------
(* The other steps of a node *)

\* The winner is saved by the next clusterBeforeSleep.
SaveConfig(n) ==
    /\ node[n].owner = n /\ disk[n].owner # n
    /\ disk' = [disk EXCEPT ![n] = node[n]]
    /\ UNCHANGED <<node, safe, auth, manual, msgs, votes, wins, events>>

\* clusterBumpConfigEpochWithoutConsensus, when the import of a slot ends
clusterBumpConfigEpochWithoutConsensus(n) ==
    LET s == node[n]
        e == s.currentEpoch + 1
    IN  /\ s.configEpoch[n] # Max({s.currentEpoch} \cup {s.configEpoch[m] : m \in Nodes})
        /\ e <= MaxEpoch
        /\ Event
        /\ Become(n, [s EXCEPT !.currentEpoch = e, !.configEpoch[n] = e], TRUE)
        /\ UNCHANGED <<safe, auth, manual, votes, wins>>
        /\ Exchange({}, {})

\* CLUSTER FAILOVER FORCE
FailoverForce(n) ==
    /\ node[n].owner # n
    /\ Event
    /\ manual' = [manual EXCEPT ![n] = TRUE]
    /\ auth' = [auth EXCEPT ![n].time = "none"]
    /\ UNCHANGED <<node, disk, safe, msgs, votes, wins>>

manualFailoverCheckTimeout(n) ==
    /\ manual[n]
    /\ manual' = [manual EXCEPT ![n] = FALSE]
    /\ UNCHANGED <<node, disk, safe, auth, msgs, votes, wins, events>>

\* A crash and a start from nodes.conf; what was sent to the node is lost.
Restart(n) ==
        /\ Event
        /\ \E s \in {disk[n], node[n]} : node' = [node EXCEPT ![n] =
               [s EXCEPT !.currentEpoch = Max({@} \cup {s.configEpoch[m] : m \in Nodes})]]
        /\ safe' = [safe EXCEPT ![n] = n \in Replicas]
        /\ auth' = IF n \in Replicas THEN [auth EXCEPT ![n] = NoElection] ELSE auth
        /\ manual' = IF n \in Replicas THEN [manual EXCEPT ![n] = FALSE] ELSE manual
        /\ Exchange({m \in msgs : m.to = n}, {})
        /\ disk' = [disk EXCEPT ![n] = node'[n]]
        /\ UNCHANGED <<votes, wins>>

\* clusterUpdateState, CLUSTER_WRITABLE_DELAY after the start
SafeToJoin(n) ==
    /\ ~safe[n]
    /\ safe' = [safe EXCEPT ![n] = TRUE]
    /\ UNCHANGED <<node, disk, auth, manual, msgs, votes, wins, events>>

ElectionNext ==
    \/ \E n \in Nodes :
         \/ \E m \in msgs : ReceiveUpdate(n, m) \/ clusterSendFailoverAuthIfNeeded(n, m)
         \/ \E m \in Nodes \ {n} : ReceivePing(n, m)
         \/ Restart(n) \/ SafeToJoin(n)
    \/ \E n \in Voters : clusterBumpConfigEpochWithoutConsensus(n)
    \/ \E n \in Replicas :
         \/ \E m \in msgs : ReceiveAck(n, m)
         \/ ScheduleElection(n) \/ RequestVotes(n) \/ WinElection(n) \/ SaveConfig(n)
         \/ FailoverForce(n) \/ manualFailoverCheckTimeout(n)

ElectionSpec == ElectionInit /\ [][ElectionNext]_electionVars

-----------------------------------------------------------------------------

\* A primary votes for one replica in an epoch, crashes and restarts included
\* (lastVoteEpoch is in nodes.conf before the vote leaves).
VoteOncePerEpoch ==
    \A v, w \in votes : v.voter = w.voter /\ v.epoch = w.epoch => v.node = w.node

\* Every vote that the election counted was given in its epoch.
OwnVotes(w) == \A v \in w.from : v[2] = w.epoch

\* Two replicas of a primary are not elected in the same epoch, when the votes
\* that they counted were given in that epoch: two quorums share a voter.
ElectedEpochUnique ==
    \A v, w \in wins :
        v.epoch = w.epoch /\ v.owner = w.owner /\ OwnVotes(v) /\ OwnVotes(w) => v.node = w.node

\* Two replicas are not elected in the same epoch.
EveryElectedEpochUnique == \A v, w \in wins : v.epoch = w.epoch => v.node = w.node

\* The epoch of a winner is greater than the configuration epochs that it
\* knows of the others: an election that a claim made hopeless was reset.  The
\* owner it replaces is excepted: an UPDATE that raises the epoch of the owner
\* a replica knows does not reset its election.
WinBeatsClaims == \A w \in wins : \A e \in w.others : w.epoch > e

=============================================================================
