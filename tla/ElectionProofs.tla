--------------------------- MODULE ElectionProofs ---------------------------
(***************************************************************************)
(* Proofs about ClusterElection, for any number of voters and replicas and *)
(* any bounds: a primary votes once in an epoch, two replicas of one       *)
(* primary do not win the same epoch by votes given in it, and a winner's  *)
(* epoch is greater than the others it knows.  The inductive invariant     *)
(* ties the votes to what is persistent (lastVoteEpoch in nodes.conf), to  *)
(* the acknowledgements on their way and to those a replica has counted.   *)
(***************************************************************************)
EXTENDS ClusterElection, FiniteSetTheorems, TLAPS

Configs ==
    [currentEpoch : Nat, lastVoteEpoch : Nat, configEpoch : [Nodes -> Nat],
     owner : Nodes, failed : BOOLEAN]

Elections ==
    [time : {"none", "open"}, sent : BOOLEAN, count : Nat, epoch : Nat,
     from : SUBSET (Nodes \X Nat)]

MessageTypes == {"PING", "UPDATE", "AUTH_REQUEST", "AUTH_ACK"}

Messages ==
    [type : MessageTypes, from : Nodes, to : Nodes, currentEpoch : Nat, force : BOOLEAN,
     primary : BOOLEAN, configEpoch : Nat, about : Nodes, aboutEpoch : Nat]

\* Nobody knows of an epoch, or has voted in one, beyond its currentEpoch.
Good(s) ==
    /\ s \in Configs
    /\ s.lastVoteEpoch <= s.currentEpoch
    /\ \A m \in Nodes : s.configEpoch[m] <= s.currentEpoch

GoodMessage(m) ==
    /\ m \in Messages
    /\ m.configEpoch <= m.currentEpoch
    /\ m.aboutEpoch <= m.currentEpoch
    /\ m.type = "AUTH_REQUEST" => m.from \in Replicas
    /\ m.type = "AUTH_ACK" => m.to \in Replicas

GoodStates ==
    /\ node \in [Nodes -> Configs] /\ disk \in [Nodes -> Configs]
    /\ auth \in [Replicas -> Elections] /\ manual \in [Replicas -> BOOLEAN]
    /\ \A n \in Nodes : Good(node[n]) /\ Good(disk[n])
    /\ \A n \in Nodes : node[n].lastVoteEpoch = disk[n].lastVoteEpoch
    /\ \A r \in Replicas : auth[r].epoch <= node[r].currentEpoch
    /\ \A m \in msgs : GoodMessage(m)

\* A vote is not newer than what its voter remembers.
Remembered ==
    /\ votes \subseteq [voter : Nodes, epoch : Nat, node : Nodes]
    /\ \A v \in votes : v.epoch <= node[v.voter].lastVoteEpoch

Vote(x, r) == [voter |-> x[1], epoch |-> x[2], node |-> r]

\* An acknowledgement stands for a vote that is not counted yet, once.
AcksOnce ==
    \A m \in msgs : m.type = "AUTH_ACK" =>
        /\ Vote(<<m.from, m.currentEpoch>>, m.to) \in votes
        /\ <<m.from, m.currentEpoch>> \notin auth[m.to].from
        /\ \A k \in msgs :
               k.type = "AUTH_ACK" /\ k.from = m.from /\ k.currentEpoch = m.currentEpoch => k = m

\* failover_auth_count counts votes, each once, of those who may vote.
CountsVotes ==
    \A r \in Replicas :
        /\ IsFiniteSet(auth[r].from)
        /\ auth[r].count = Cardinality(auth[r].from)
        /\ \A x \in auth[r].from :
               /\ Vote(x, r) \in votes
               /\ auth[r].time = "open" => x[1] \in Voters \cup {node[r].owner}

WinsByQuorum ==
    \A w \in wins :
        /\ IsFiniteSet(w.from)
        /\ w.from \subseteq Nodes \X Nat
        /\ Cardinality(w.from) >= Quorum
        /\ \A x \in w.from : Vote(x, w.node) \in votes /\ x[1] \in Voters \cup {w.owner}

ElectionInv ==
    /\ GoodStates
    /\ Remembered /\ VoteOncePerEpoch
    /\ AcksOnce
    /\ CountsVotes
    /\ WinsByQuorum

-----------------------------------------------------------------------------
(* The operators of the model                                              *)

\* Max of two epochs.
LEMMA MaxOfTwo ==
    ASSUME NEW a \in Nat, NEW b \in Nat
    PROVE  Max({a, b}) \in Nat /\ a <= Max({a, b}) /\ b <= Max({a, b}) /\ Max({a, b}) \in {a, b}
<1>1. \E x \in {a, b} : \A y \in {a, b} : x >= y
  <2>1. CASE a >= b BY <2>1
  <2>2. CASE b >= a BY <2>2
  <2> QED BY <2>1, <2>2
<1> QED BY <1>1 DEF Max

\* The start of a node finds no configEpoch beyond its currentEpoch.
LEMMA MaxOfGood ==
    ASSUME NEW s, Good(s)
    PROVE  Max({s.currentEpoch} \cup {s.configEpoch[m] : m \in Nodes}) = s.currentEpoch
<1> DEFINE S == {s.currentEpoch} \cup {s.configEpoch[m] : m \in Nodes}
<1>1. \A y \in S : y \in Nat /\ y <= s.currentEpoch BY DEF Good, Configs
<1>2. s.currentEpoch \in S OBVIOUS
<1>3. \A x \in S : (\A y \in S : x >= y) => x = s.currentEpoch BY <1>1, <1>2
<1>4. \A y \in S : s.currentEpoch >= y BY <1>1, <1>2
<1> HIDE DEF S
<1> QED BY <1>2, <1>3, <1>4 DEF Max, S

\* clusterBuildMessageHdr sends no epoch beyond the sender's currentEpoch.
LEMMA MessageGood ==
    ASSUME NEW s, Good(s), NEW n \in Nodes, NEW to \in Nodes, NEW force \in BOOLEAN,
           NEW type \in MessageTypes,
           type = "AUTH_REQUEST" => n \in Replicas, type = "AUTH_ACK" => to \in Replicas
    PROVE  GoodMessage(Message(type, n, s, to, force))
BY DEF GoodMessage, Message, Messages, Good, Configs, IsPrimary

\* What a message changes in the epochs a node knows.
LEMMA SeeGood ==
    ASSUME NEW s, Good(s), NEW m, GoodMessage(m)
    PROVE  LET t == SeeEpochs(s, m) IN
           /\ Good(t) /\ t.lastVoteEpoch = s.lastVoteEpoch /\ t.owner = s.owner
           /\ s.currentEpoch <= t.currentEpoch /\ m.currentEpoch <= t.currentEpoch
           /\ t.currentEpoch \in {s.currentEpoch, m.currentEpoch}
<1> DEFINE t == SeeEpochs(s, m)
           c == Max({s.currentEpoch, m.currentEpoch})
           f == Max({s.configEpoch[m.from], m.configEpoch})
<1>1. /\ s \in Configs /\ m \in Messages /\ m.from \in Nodes /\ m.configEpoch <= m.currentEpoch
      /\ s.currentEpoch \in Nat /\ m.currentEpoch \in Nat /\ m.configEpoch \in Nat
      /\ s.configEpoch[m.from] \in Nat
  BY DEF Good, GoodMessage, Configs, Messages
<1>2. /\ c \in Nat /\ s.currentEpoch <= c /\ m.currentEpoch <= c
      /\ c \in {s.currentEpoch, m.currentEpoch}
  BY <1>1, MaxOfTwo
<1>3. f \in Nat /\ f \in {s.configEpoch[m.from], m.configEpoch} BY <1>1, MaxOfTwo
<1>4. t = [s EXCEPT !.currentEpoch = c,
                    !.configEpoch = [s.configEpoch EXCEPT ![m.from] = IF m.primary THEN f ELSE @]]
  BY <1>1 DEF SeeEpochs, Configs
<1> HIDE DEF t, c, f
<1>5. t \in Configs /\ t.currentEpoch = c /\ t.lastVoteEpoch = s.lastVoteEpoch /\ t.owner = s.owner
  BY <1>1, <1>2, <1>3, <1>4, Zenon DEF Configs
<1>6. \A k \in Nodes : t.configEpoch[k] <= c
  BY <1>1, <1>2, <1>3, <1>4 DEF Configs, Good
<1>7. Good(t) BY <1>1, <1>2, <1>5, <1>6 DEF Good, Configs
<1> QED BY <1>2, <1>5, <1>7 DEF t

\* What a claim to the slots changes.
LEMMA TakeGood ==
    ASSUME NEW s, Good(s), NEW o \in Nodes, NEW e \in Nat, e <= s.currentEpoch
    PROVE  LET t == TakeOwner(s, o, e) IN
           Good(t) /\ t.lastVoteEpoch = s.lastVoteEpoch /\ t.currentEpoch = s.currentEpoch
BY Zenon DEF TakeOwner, Good, Configs

-----------------------------------------------------------------------------
(* Steps that give, count and use no vote                                  *)

\* What such a step leaves alone: votes and lastVoteEpoch, the acknowledgements
\* on their way (some are lost), and the counts of the running elections (some
\* are given up, some begin anew).
VotesKept ==
    /\ votes' = votes
    /\ \A n \in Nodes : node'[n].lastVoteEpoch = node[n].lastVoteEpoch
    /\ \A m \in msgs' : m.type = "AUTH_ACK" => m \in msgs
    /\ \A r \in Replicas :
           \/ auth'[r].from = {} /\ auth'[r].count = 0
           \/ /\ auth'[r].from = auth[r].from /\ auth'[r].count = auth[r].count
              /\ auth'[r].time = "open" =>
                     auth[r].time = "open" /\ node'[r].owner = node[r].owner

NoVotes == VotesKept /\ wins' = wins

\* A step without votes keeps what the invariant says about them.
LEMMA VotesKeeps ==
    ASSUME ElectionInv, VotesKept, \A m \in msgs : m.type = "AUTH_ACK" => m.to \in Replicas
    PROVE  (Remembered /\ VoteOncePerEpoch /\ AcksOnce /\ CountsVotes)'
<1>1. Remembered' /\ VoteOncePerEpoch'
  BY DEF ElectionInv, VotesKept, Remembered, VoteOncePerEpoch
<1>2. AcksOnce'
  BY DEF ElectionInv, VotesKept, AcksOnce
<1>3. CountsVotes'
  <2> SUFFICES ASSUME NEW r \in Replicas
               PROVE  /\ IsFiniteSet(auth'[r].from)
                      /\ auth'[r].count = Cardinality(auth'[r].from)
                      /\ \A x \in auth'[r].from :
                             /\ Vote(x, r) \in votes
                             /\ auth'[r].time = "open" => x[1] \in Voters \cup {node'[r].owner}
    BY DEF VotesKept, CountsVotes, Vote
  <2>1. CASE auth'[r].from = {} /\ auth'[r].count = 0
    BY <2>1, FS_EmptySet
  <2>2. CASE ~(auth'[r].from = {} /\ auth'[r].count = 0)
    BY <2>2 DEF VotesKept, ElectionInv, CountsVotes
  <2> QED BY <2>1, <2>2
<1> QED BY <1>1, <1>2, <1>3

\* It keeps the invariant when the state of the nodes is good, and nobody wins.
LEMMA QuietKeeps ==
    ASSUME ElectionInv, NoVotes, GoodStates'
    PROVE  ElectionInv'
<1>1. \A k \in msgs : k.type = "AUTH_ACK" => k.to \in Replicas
  BY DEF ElectionInv, GoodStates, GoodMessage
<1>2. (Remembered /\ VoteOncePerEpoch /\ AcksOnce /\ CountsVotes)'
  BY <1>1, VotesKeeps DEF NoVotes
<1>3. WinsByQuorum' BY DEF ElectionInv, NoVotes, VotesKept, WinsByQuorum
<1> QED BY <1>2, <1>3 DEF ElectionInv

\* The initial state.
LEMMA InitInv == ASSUME ElectionInit PROVE ElectionInv
<1> PICK failed \in BOOLEAN : node = [n \in Nodes |->
          [currentEpoch |-> 1, lastVoteEpoch |-> 0,
           configEpoch |-> [m \in Nodes |-> IF m = Primary THEN 1 ELSE 0],
           owner |-> Primary, failed |-> failed /\ n # Primary]]
  BY DEF ElectionInit
<1>1. \A n \in Nodes : Good(node[n]) /\ node[n].lastVoteEpoch = 0
  BY DEF Good, Configs, Nodes, Primaries
<1>2. node \in [Nodes -> Configs] BY <1>1 DEF Good
<1>3. GoodStates
  BY <1>1, <1>2 DEF ElectionInit, GoodStates, NoElection, Elections, Good, Configs, Nodes
<1>4. CountsVotes BY FS_EmptySet, Zenon DEF ElectionInit, CountsVotes, NoElection
<1> QED
  BY <1>3, <1>4 DEF ElectionInit, ElectionInv, Remembered, VoteOncePerEpoch, AcksOnce, WinsByQuorum

\* Messages that arrive leave the bus; of those that are sent some stay on it.
LEMMA ExchangeKeeps ==
    ASSUME NEW arrived, NEW sent, Exchange(arrived, sent)
    PROVE  \A m \in msgs' : (m \in msgs /\ m \notin arrived) \/ m \in sent
BY DEF Exchange

\* A node that remembers its votes and whose currentEpoch does not fall, saved
\* or not, keeps the states good.
StatesKept ==
    /\ node' \in [Nodes -> Configs] /\ disk' \in [Nodes -> Configs]
    /\ \A n \in Nodes : /\ Good(node'[n]) /\ Good(disk'[n])
                        /\ node'[n].lastVoteEpoch = disk'[n].lastVoteEpoch
                        /\ node'[n].lastVoteEpoch = node[n].lastVoteEpoch

\* server.cluster of one node changes.
LEMMA BecomeKeeps ==
    ASSUME GoodStates, NEW n \in Nodes, NEW s, Good(s), NEW save \in BOOLEAN,
           s.lastVoteEpoch = node[n].lastVoteEpoch, s.currentEpoch >= node[n].currentEpoch,
           Become(n, s, save)
    PROVE  /\ StatesKept /\ node'[n] = s
           /\ \A k \in Nodes : k # n => node'[k] = node[k]
           /\ \A k \in Nodes : node'[k].currentEpoch >= node[k].currentEpoch
<1>1. s \in Configs BY DEF Good
<1>2. node' = [node EXCEPT ![n] = s] /\ node \in [Nodes -> Configs] BY DEF Become, GoodStates
<1>3. disk' = [disk EXCEPT ![n] = s] \/ disk' = disk BY DEF Become
<1>4. node' \in [Nodes -> Configs] /\ disk' \in [Nodes -> Configs]
  BY <1>1, <1>2, <1>3 DEF GoodStates
<1>5. node'[n] = s /\ \A k \in Nodes : k # n => node'[k] = node[k] BY <1>2
<1>6. \A k \in Nodes : disk'[k] = disk[k] \/ (k = n /\ disk'[k] = s)
  BY <1>1, <1>3 DEF GoodStates
<1>7. \A k \in Nodes : Good(node'[k]) /\ Good(disk'[k]) BY <1>5, <1>6 DEF GoodStates
<1>8. \A k \in Nodes : /\ node'[k].lastVoteEpoch = node[k].lastVoteEpoch
                       /\ node'[k].lastVoteEpoch = disk'[k].lastVoteEpoch
  BY <1>5, <1>6 DEF GoodStates
<1>9. \A k \in Nodes : node'[k].currentEpoch >= node[k].currentEpoch
  <2>1. \A k \in Nodes : node[k].currentEpoch \in Nat BY DEF GoodStates, Configs
  <2> QED BY <1>5, <2>1
<1> QED BY <1>4, <1>5, <1>7, <1>8, <1>9 DEF StatesKept

\* A claim resets an election; nothing else of it changes.
LEMMA ResetKeeps ==
    ASSUME NEW a \in Elections, NEW s, NEW m
    PROVE  LET b == ResetElection(a, s, m) IN
           /\ b \in Elections /\ b.from = a.from /\ b.count = a.count /\ b.epoch = a.epoch
           /\ b.time = "open" => a.time = "open"
BY DEF ResetElection, Elections

\* Hearing of the owner of the slots: pings, pongs and UPDATE messages.
LEMMA HearKeeps ==
    ASSUME ElectionInv, NEW n \in Nodes, NEW m, GoodMessage(m), Hear(n, m),
           NEW arrived, Exchange(arrived, {}), UNCHANGED <<votes, wins>>
    PROVE  ElectionInv'
<1> DEFINE s == SeeEpochs(node[n], m)
           t == TakeOwner(s, m.about, m.aboutEpoch)
           moved == t.owner # s.owner
<1>1. GoodStates /\ Good(node[n]) BY DEF ElectionInv, GoodStates
<1>2. /\ Good(s) /\ s.lastVoteEpoch = node[n].lastVoteEpoch /\ s.owner = node[n].owner
      /\ node[n].currentEpoch <= s.currentEpoch /\ m.currentEpoch <= s.currentEpoch
  BY <1>1, SeeGood
<1>3. m.about \in Nodes /\ m.aboutEpoch \in Nat /\ m.aboutEpoch <= s.currentEpoch
  BY <1>2 DEF GoodMessage, Messages, Good, Configs
<1>4. Good(t) /\ t.lastVoteEpoch = s.lastVoteEpoch /\ t.currentEpoch = s.currentEpoch
  BY <1>2, <1>3, TakeGood
<1>5. Become(n, t, Saves(node[n], t)) BY DEF Hear
<1> HIDE DEF t, s
<1>6. Saves(node[n], t) \in BOOLEAN BY DEF Saves
<1>7. t.currentEpoch >= node[n].currentEpoch /\ t.lastVoteEpoch = node[n].lastVoteEpoch
  BY <1>1, <1>2, <1>4 DEF Good, Configs
<1>8. /\ StatesKept /\ node'[n] = t
      /\ \A k \in Nodes : k # n => node'[k] = node[k]
      /\ \A k \in Nodes : node'[k].currentEpoch >= node[k].currentEpoch
  BY <1>1, <1>4, <1>5, <1>6, <1>7, BecomeKeeps
<1>9. /\ auth' \in [Replicas -> Elections] /\ manual' \in [Replicas -> BOOLEAN]
      /\ \A r \in Replicas :
             /\ auth'[r].from = auth[r].from /\ auth'[r].count = auth[r].count
             /\ auth'[r].epoch = auth[r].epoch
             /\ auth'[r].time = "open" => auth[r].time = "open" /\ node'[r].owner = node[r].owner
  <2>1. CASE n \in Replicas
    <3> DEFINE a == ResetElection(auth[n], node[n], m)
               b == IF moved THEN [a EXCEPT !.time = "none"] ELSE a
    <3>1. auth' = [auth EXCEPT ![n] = b] /\ manual' = [manual EXCEPT ![n] = @ /\ ~moved]
      BY <2>1 DEF Hear, s, t
    <3>2. auth[n] \in Elections BY <2>1, <1>1 DEF GoodStates
    <3>3. /\ a \in Elections /\ a.from = auth[n].from /\ a.count = auth[n].count
          /\ a.epoch = auth[n].epoch /\ (a.time = "open" => auth[n].time = "open")
      BY <3>2, ResetKeeps
    <3> HIDE DEF a
    <3>4. /\ b \in Elections /\ b.from = auth[n].from /\ b.count = auth[n].count
          /\ b.epoch = auth[n].epoch /\ (b.time = "open" => auth[n].time = "open" /\ ~moved)
      BY <3>3 DEF Elections
    <3>5. ~moved => node'[n].owner = node[n].owner BY <1>2, <1>8
    <3> HIDE DEF b, moved
    <3>6. auth' \in [Replicas -> Elections] BY <3>1, <3>4, <1>1, Zenon DEF GoodStates
    <3>7. manual' \in [Replicas -> BOOLEAN] BY <3>1, <1>1, Zenon DEF GoodStates
    <3>8. \A r \in Replicas : auth'[r] = IF r = n THEN b ELSE auth[r]
      BY <3>1, <1>1 DEF GoodStates
    <3>9. \A r \in Replicas : r # n => node'[r] = node[r] BY <1>8 DEF Nodes
    <3> QED BY <3>4, <3>5, <3>6, <3>7, <3>8, <3>9
  <2>2. CASE n \notin Replicas
    <3>1. auth' = auth /\ manual' = manual BY <2>2 DEF Hear
    <3>2. \A r \in Replicas : node'[r] = node[r] BY <2>2, <1>8 DEF Nodes
    <3> QED BY <3>1, <3>2, <1>1 DEF GoodStates
  <2> QED BY <2>1, <2>2
<1>10. \A k \in msgs' : k \in msgs BY ExchangeKeeps
<1>11. \A r \in Replicas : auth'[r].epoch <= node'[r].currentEpoch
  <2> TAKE r \in Replicas
  <2>1. r \in Nodes BY DEF Nodes
  <2>2. node[r].currentEpoch \in Nat /\ node'[r].currentEpoch \in Nat /\ auth[r].epoch \in Nat
    BY <2>1, <1>1, <1>8 DEF GoodStates, StatesKept, Configs, Elections
  <2>3. auth[r].epoch <= node[r].currentEpoch BY <1>1 DEF GoodStates
  <2> QED BY <2>1, <2>2, <2>3, <1>8, <1>9
<1>12. GoodStates' BY <1>1, <1>8, <1>9, <1>10, <1>11 DEF GoodStates, StatesKept
<1>13. NoVotes BY <1>8, <1>9, <1>10 DEF NoVotes, VotesKept, StatesKept
<1> QED BY <1>12, <1>13, QuietKeeps

\* A ping says what its sender has saved.
LEMMA PingKeeps ==
    ASSUME ElectionInv, NEW n \in Nodes, NEW from \in Nodes, ReceivePing(n, from)
    PROVE  ElectionInv'
<1> DEFINE m == Message("PING", from, disk[from], n, FALSE)
<1>1. Good(disk[from]) BY DEF ElectionInv, GoodStates
<1>2. GoodMessage(m) BY <1>1, MessageGood, Zenon DEF MessageTypes
<1>3. Hear(n, m) /\ Exchange({}, {}) /\ UNCHANGED <<votes, wins>> BY Zenon DEF ReceivePing
<1> HIDE DEF m
<1> QED BY <1>2, <1>3, HearKeeps

\* An UPDATE message is heard like a ping.
LEMMA UpdateKeeps ==
    ASSUME ElectionInv, NEW n \in Nodes, NEW m \in msgs, ReceiveUpdate(n, m)
    PROVE  ElectionInv'
<1>1. GoodMessage(m) BY DEF ElectionInv, GoodStates
<1>2. Hear(n, m) /\ Exchange({m}, {}) /\ UNCHANGED <<votes, wins>> BY DEF ReceiveUpdate
<1> QED BY <1>1, <1>2, HearKeeps

\* A new election has no votes yet.
LEMMA NewElectionGood ==
    ASSUME NEW n \in Replicas, auth[n] \in Elections
    PROVE  /\ NewElection(n) \in Elections /\ NewElection(n).epoch = auth[n].epoch
           /\ NewElection(n).from = {} /\ NewElection(n).count = 0
           /\ NewElection(n).time = "open" /\ ~NewElection(n).sent
BY Zenon DEF NewElection, Elections

\* The steps that change a replica's election and nothing that is saved:
\* a scheduled election, a forced failover and its timeout, the delay before a
\* primary votes again.
LEMMA LocalKeeps ==
    ASSUME ElectionInv, UNCHANGED <<node, disk, msgs, votes, wins>>,
           \/ \E n \in Nodes : SafeToJoin(n)
           \/ \E n \in Replicas : \/ ScheduleElection(n) \/ FailoverForce(n)
                                  \/ manualFailoverCheckTimeout(n)
    PROVE  ElectionInv'
<1>1. GoodStates BY DEF ElectionInv
<1>2. manual' \in [Replicas -> BOOLEAN]
  BY <1>1, Zenon
  DEF GoodStates, SafeToJoin, ScheduleElection, FailoverForce, manualFailoverCheckTimeout
<1>3. \/ auth' = auth
      \/ \E n \in Replicas : auth' = [auth EXCEPT ![n] = NewElection(n)]
      \/ \E n \in Replicas : auth' = [auth EXCEPT ![n].time = "none"]
  BY DEF SafeToJoin, ScheduleElection, FailoverForce, manualFailoverCheckTimeout
<1>4. /\ auth' \in [Replicas -> Elections]
      /\ \A r \in Replicas :
           /\ auth'[r].epoch = auth[r].epoch
           /\ \/ auth'[r].from = {} /\ auth'[r].count = 0
              \/ /\ auth'[r].from = auth[r].from /\ auth'[r].count = auth[r].count
                 /\ auth'[r].time = "open" => auth[r].time = "open"
  <2>1. CASE auth' = auth BY <2>1, <1>1 DEF GoodStates
  <2>2. ASSUME NEW n \in Replicas, auth' = [auth EXCEPT ![n] = NewElection(n)] PROVE <1>4
    <3>1. /\ NewElection(n) \in Elections /\ NewElection(n).epoch = auth[n].epoch
          /\ NewElection(n).from = {} /\ NewElection(n).count = 0
      BY <1>1, NewElectionGood DEF GoodStates
    <3>2. auth \in [Replicas -> Elections] BY <1>1 DEF GoodStates
    <3> QED BY <2>2, <3>1, <3>2
  <2>3. ASSUME NEW n \in Replicas, auth' = [auth EXCEPT ![n].time = "none"] PROVE <1>4
    BY <2>3, <1>1 DEF GoodStates, Elections
  <2> QED BY <1>3, <2>1, <2>2, <2>3
<1>5. GoodStates' BY <1>1, <1>2, <1>4 DEF GoodStates
<1>6. NoVotes BY <1>4 DEF NoVotes, VotesKept
<1> QED BY <1>5, <1>6, QuietKeeps

\* clusterBumpConfigEpochWithoutConsensus saves a higher epoch.
LEMMA BumpKeeps ==
    ASSUME ElectionInv, NEW n \in Voters, clusterBumpConfigEpochWithoutConsensus(n)
    PROVE  ElectionInv'
<1> DEFINE e == node[n].currentEpoch + 1
           s == [node[n] EXCEPT !.currentEpoch = e, !.configEpoch[n] = e]
<1>1. n \in Nodes /\ GoodStates /\ Good(node[n])
  BY DEF ElectionInv, GoodStates, Nodes, Primaries
<1>2. Become(n, s, TRUE) /\ UNCHANGED <<auth, manual, votes, wins>> /\ Exchange({}, {})
  BY Zenon DEF clusterBumpConfigEpochWithoutConsensus
<1>3. Good(s) /\ s.lastVoteEpoch = node[n].lastVoteEpoch /\ s.currentEpoch >= node[n].currentEpoch
  <2>1. node[n] \in Configs /\ e \in Nat /\ e > node[n].currentEpoch BY <1>1 DEF Good, Configs
  <2>2. s = [node[n] EXCEPT !.currentEpoch = e,
                            !.configEpoch = [node[n].configEpoch EXCEPT ![n] = e]]
    BY <2>1 DEF Configs
  <2> HIDE DEF s, e
  <2>3. /\ s \in Configs /\ s.currentEpoch = e /\ s.lastVoteEpoch = node[n].lastVoteEpoch
        /\ s.configEpoch = [node[n].configEpoch EXCEPT ![n] = e]
    BY <2>1, <2>2, Zenon DEF Configs
  <2>4. \A k \in Nodes : s.configEpoch[k] <= e BY <1>1, <2>1, <2>3 DEF Good, Configs
  <2> QED BY <1>1, <2>1, <2>3, <2>4 DEF Good, Configs
<1> HIDE DEF s
<1>4. /\ StatesKept /\ \A k \in Nodes : k # n => node'[k] = node[k]
  BY <1>1, <1>2, <1>3, BecomeKeeps, Zenon
<1>5. \A r \in Replicas : node'[r] = node[r]
  BY <1>4, ElectionAssumption DEF Nodes
<1>6. \A k \in msgs' : k \in msgs BY <1>2, ExchangeKeeps
<1>7. GoodStates' BY <1>1, <1>2, <1>4, <1>5, <1>6 DEF GoodStates, StatesKept
<1>8. NoVotes BY <1>2, <1>4, <1>5, <1>6 DEF NoVotes, VotesKept, StatesKept
<1> QED BY <1>7, <1>8, QuietKeeps

\* The winner is saved.
LEMMA SaveKeeps ==
    ASSUME ElectionInv, NEW n \in Replicas, SaveConfig(n)
    PROVE  ElectionInv'
<1>1. n \in Nodes /\ GoodStates BY DEF ElectionInv, Nodes
<1>2. disk' = [disk EXCEPT ![n] = node[n]] /\ UNCHANGED <<node, auth, manual, msgs, votes, wins>>
  BY DEF SaveConfig
<1>3. disk' \in [Nodes -> Configs] /\ \A k \in Nodes : disk'[k] \in {disk[k], node[k]}
  BY <1>1, <1>2 DEF GoodStates
<1>4. GoodStates' BY <1>1, <1>2, <1>3 DEF GoodStates
<1>5. NoVotes BY <1>2 DEF NoVotes, VotesKept
<1> QED BY <1>4, <1>5, QuietKeeps

\* A node restarts from what it has saved: its last vote is there.
LEMMA RestartKeeps ==
    ASSUME ElectionInv, NEW n \in Nodes, Restart(n)
    PROVE  ElectionInv'
<1>1. GoodStates BY DEF ElectionInv
<1>2. PICK s \in {disk[n], node[n]} : node' = [node EXCEPT ![n] =
          [s EXCEPT !.currentEpoch = Max({@} \cup {s.configEpoch[m] : m \in Nodes})]]
  BY Zenon DEF Restart
<1>3. Good(s) /\ s \in Configs /\ s.lastVoteEpoch = node[n].lastVoteEpoch
  BY <1>1 DEF GoodStates, Good
<1>4. [s EXCEPT !.currentEpoch = Max({@} \cup {s.configEpoch[m] : m \in Nodes})] = s
  <2>1. Max({s.currentEpoch} \cup {s.configEpoch[m] : m \in Nodes}) = s.currentEpoch
    BY <1>3, MaxOfGood
  <2>2. [s EXCEPT !.currentEpoch = s.currentEpoch] = s BY <1>3 DEF Configs
  <2> QED BY <2>1, <2>2
<1>5. node' = [node EXCEPT ![n] = s] BY <1>2, <1>4, Zenon
<1>6. /\ UNCHANGED <<votes, wins>> /\ Exchange({m \in msgs : m.to = n}, {})
      /\ disk' = [disk EXCEPT ![n] = node'[n]]
      /\ auth' = IF n \in Replicas THEN [auth EXCEPT ![n] = NoElection] ELSE auth
      /\ manual' = IF n \in Replicas THEN [manual EXCEPT ![n] = FALSE] ELSE manual
  BY DEF Restart
<1>7. node'[n] = s /\ \A k \in Nodes : k # n => node'[k] = node[k] BY <1>1, <1>5 DEF GoodStates
<1>8. disk'[n] = s /\ \A k \in Nodes : k # n => disk'[k] = disk[k]
  BY <1>1, <1>6, <1>7 DEF GoodStates
<1>9. StatesKept
  <2>1. node' \in [Nodes -> Configs] /\ disk' \in [Nodes -> Configs]
    BY <1>1, <1>3, <1>5, <1>6, <1>7 DEF GoodStates
  <2>2. \A k \in Nodes : /\ Good(node'[k]) /\ Good(disk'[k])
                         /\ node'[k].lastVoteEpoch = disk'[k].lastVoteEpoch
                         /\ node'[k].lastVoteEpoch = node[k].lastVoteEpoch
    BY <1>1, <1>3, <1>7, <1>8 DEF GoodStates
  <2> QED BY <2>1, <2>2 DEF StatesKept
<1>10. NoElection \in Elections /\ NoElection.from = {} /\ NoElection.count = 0 /\ NoElection.epoch = 0
  BY DEF NoElection, Elections
<1>11. auth' \in [Replicas -> Elections] /\ manual' \in [Replicas -> BOOLEAN]
  BY <1>1, <1>6, <1>10 DEF GoodStates
<1>12. \A r \in Replicas : \/ auth'[r] = NoElection
                           \/ auth'[r] = auth[r] /\ node'[r] = node[r]
  BY <1>1, <1>6, <1>7 DEF GoodStates, Nodes
<1>13. \A r \in Replicas : auth'[r].epoch <= node'[r].currentEpoch
  <2> TAKE r \in Replicas
  <2>1. node'[r].currentEpoch \in Nat BY <1>9 DEF StatesKept, Configs, Nodes
  <2> QED BY <2>1, <1>1, <1>10, <1>12 DEF GoodStates
<1>14. \A k \in msgs' : k \in msgs BY <1>6, ExchangeKeeps
<1>15. GoodStates' BY <1>1, <1>9, <1>11, <1>13, <1>14 DEF GoodStates, StatesKept
<1>16. NoVotes BY <1>6, <1>9, <1>10, <1>12, <1>14 DEF NoVotes, VotesKept, StatesKept
<1> QED BY <1>15, <1>16, QuietKeeps

\* A replica asks for votes, in a new epoch that it has not saved yet.
LEMMA RequestKeeps ==
    ASSUME ElectionInv, NEW n \in Replicas, RequestVotes(n)
    PROVE  ElectionInv'
<1> DEFINE a == IF manual[n] /\ auth[n].time = "none" THEN NewElection(n) ELSE auth[n]
           e == node[n].currentEpoch + 1
           s == [node[n] EXCEPT !.currentEpoch = e]
           to == Voters \cup (IF manual[n] THEN Owners ELSE {})
           sent == {Message("AUTH_REQUEST", n, s, m, manual[n]) : m \in to}
<1>1. GoodStates /\ n \in Nodes /\ Good(node[n]) BY DEF ElectionInv, GoodStates, Nodes
<1>2. /\ auth' = [auth EXCEPT ![n] = [a EXCEPT !.sent = TRUE, !.epoch = e]]
      /\ node' = [node EXCEPT ![n] = s] /\ disk' = disk
      /\ Exchange({}, sent) /\ UNCHANGED <<manual, votes, wins>>
  BY DEF RequestVotes
<1>3. /\ Good(s) /\ s.lastVoteEpoch = node[n].lastVoteEpoch /\ s.currentEpoch >= node[n].currentEpoch
      /\ s.owner = node[n].owner /\ s.currentEpoch = e /\ e \in Nat
  BY <1>1 DEF Good, Configs
<1>4. to \subseteq Nodes BY DEF Owners, Nodes, Primaries
<1>5. manual[n] \in BOOLEAN BY <1>1 DEF GoodStates
<1>6. \A k \in sent : GoodMessage(k) /\ k.type # "AUTH_ACK"
  <2> HIDE DEF s, to
  <2>1. ASSUME NEW k \in to PROVE GoodMessage(Message("AUTH_REQUEST", n, s, k, manual[n]))
    BY <1>1, <1>3, <1>4, <1>5, MessageGood DEF MessageTypes
  <2>2. \A k \in to : Message("AUTH_REQUEST", n, s, k, manual[n]).type = "AUTH_REQUEST"
    BY DEF Message
  <2> QED BY <2>1, <2>2
<1>7. Become(n, s, FALSE) BY <1>2 DEF Become
<1>8. auth[n] \in Elections BY <1>1 DEF GoodStates
<1>9. a \in Elections /\ (a = auth[n] \/ (a.from = {} /\ a.count = 0)) BY <1>8, NewElectionGood
<1> HIDE DEF s, a, e, sent
<1>10. /\ StatesKept /\ node'[n] = s /\ \A k \in Nodes : k # n => node'[k] = node[k]
  BY <1>1, <1>3, <1>7, BecomeKeeps, Zenon
<1>11. /\ [a EXCEPT !.sent = TRUE, !.epoch = e] \in Elections
       /\ [a EXCEPT !.sent = TRUE, !.epoch = e].from = a.from
       /\ [a EXCEPT !.sent = TRUE, !.epoch = e].count = a.count
       /\ [a EXCEPT !.sent = TRUE, !.epoch = e].time = a.time
       /\ [a EXCEPT !.sent = TRUE, !.epoch = e].epoch = e
  BY <1>9, <1>3, Zenon DEF Elections
<1>12. auth' \in [Replicas -> Elections] BY <1>1, <1>2, <1>11 DEF GoodStates
<1>13. \A r \in Replicas : r # n => auth'[r] = auth[r] /\ node'[r] = node[r]
  BY <1>1, <1>2, <1>10 DEF GoodStates, Nodes
<1>14. auth'[n] = [a EXCEPT !.sent = TRUE, !.epoch = e] BY <1>1, <1>2 DEF GoodStates
<1>15. \A k \in msgs' : k \in msgs \/ k \in sent BY <1>2, ExchangeKeeps
<1>16. \A r \in Replicas : auth'[r].epoch <= node'[r].currentEpoch
  <2>1. auth'[n].epoch <= node'[n].currentEpoch BY <1>3, <1>10, <1>11, <1>14
  <2> QED BY <2>1, <1>1, <1>13 DEF GoodStates
<1>17. GoodStates' BY <1>1, <1>2, <1>6, <1>10, <1>12, <1>15, <1>16 DEF GoodStates, StatesKept
<1>18. NoVotes
  BY <1>2, <1>3, <1>6, <1>9, <1>10, <1>11, <1>13, <1>14, <1>15 DEF NoVotes, VotesKept, StatesKept
<1> QED BY <1>17, <1>18, QuietKeeps

-----------------------------------------------------------------------------
(* Votes                                                                   *)

\* A request is refused, or answered by an UPDATE message: no vote is given.
LEMMA RefuseKeeps ==
    ASSUME ElectionInv, NEW n \in Nodes, NEW m \in msgs, m.type = "AUTH_REQUEST",
           NEW sent, sent \subseteq {Message("UPDATE", n, SeeEpochs(node[n], m), m.from, FALSE)},
           node' = [node EXCEPT ![n] = SeeEpochs(node[n], m)], Exchange({m}, sent),
           UNCHANGED <<disk, auth, manual, votes, wins>>
    PROVE  ElectionInv'
<1> DEFINE s == SeeEpochs(node[n], m)
           u == Message("UPDATE", n, s, m.from, FALSE)
<1>1. GoodStates /\ Good(node[n]) /\ GoodMessage(m) /\ m.from \in Nodes
  BY DEF ElectionInv, GoodStates, GoodMessage, Messages
<1>2. /\ Good(s) /\ s.lastVoteEpoch = node[n].lastVoteEpoch /\ s.owner = node[n].owner
      /\ node[n].currentEpoch <= s.currentEpoch
  BY <1>1, SeeGood
<1>3. s.currentEpoch >= node[n].currentEpoch BY <1>1, <1>2 DEF Good, Configs
<1>4. Become(n, s, FALSE) BY Zenon DEF Become
<1> HIDE DEF s
<1>5. GoodMessage(u) /\ u.type = "UPDATE"
  <2>1. GoodMessage(u) BY <1>1, <1>2, MessageGood, Zenon DEF MessageTypes
  <2> QED BY <2>1, Zenon DEF Message
<1>6. /\ StatesKept /\ node'[n] = s /\ \A k \in Nodes : k # n => node'[k] = node[k]
      /\ \A k \in Nodes : node'[k].currentEpoch >= node[k].currentEpoch
  BY <1>1, <1>2, <1>3, <1>4, BecomeKeeps, Zenon
<1> HIDE DEF u
<1>7. \A k \in msgs' : k \in msgs \/ k = u BY ExchangeKeeps, Zenon DEF u, s
<1>8. \A r \in Replicas : auth'[r].epoch <= node'[r].currentEpoch
  <2> TAKE r \in Replicas
  <2>1. r \in Nodes BY DEF Nodes
  <2>2. node[r].currentEpoch \in Nat /\ node'[r].currentEpoch \in Nat /\ auth[r].epoch \in Nat
    BY <2>1, <1>1, <1>6 DEF GoodStates, StatesKept, Configs, Elections
  <2>3. auth[r].epoch <= node[r].currentEpoch BY <1>1 DEF GoodStates
  <2> QED BY <2>1, <2>2, <2>3, <1>6
<1>9. GoodStates' BY <1>1, <1>5, <1>6, <1>7, <1>8 DEF GoodStates, StatesKept
<1>10. \A r \in Replicas : node'[r].owner = node[r].owner BY <1>2, <1>6, Zenon DEF Nodes
<1>11. NoVotes BY <1>5, <1>6, <1>7, <1>10 DEF NoVotes, VotesKept, StatesKept
<1> QED BY <1>9, <1>11, QuietKeeps

\* A vote is given in an epoch after that of the last one, which the voter
\* remembers; it is saved with the vote.
LEMMA GrantKeeps ==
    ASSUME ElectionInv, NEW n \in Nodes, NEW m \in msgs, m.type = "AUTH_REQUEST",
           NEW v, v = [SeeEpochs(node[n], m) EXCEPT
                           !.lastVoteEpoch = SeeEpochs(node[n], m).currentEpoch],
           MayVote(n, SeeEpochs(node[n], m), m),
           node' = [node EXCEPT ![n] = v], disk' = SaveVote(n, v),
           votes' = votes \cup {[voter |-> n, epoch |-> v.lastVoteEpoch, node |-> m.from]},
           Exchange({m}, {Message("AUTH_ACK", n, v, m.from, FALSE)}),
           UNCHANGED <<auth, manual, wins>>
    PROVE  ElectionInv'
<1> DEFINE s == SeeEpochs(node[n], m)
           k == Message("AUTH_ACK", n, v, m.from, FALSE)
           new == [voter |-> n, epoch |-> v.lastVoteEpoch, node |-> m.from]
<1>1. /\ GoodStates /\ Good(node[n]) /\ GoodMessage(m) /\ m.from \in Nodes /\ m.from \in Replicas
  BY DEF ElectionInv, GoodStates, GoodMessage, Messages
<1>2. /\ Good(s) /\ s.lastVoteEpoch = node[n].lastVoteEpoch /\ s.owner = node[n].owner
      /\ node[n].currentEpoch <= s.currentEpoch
  BY <1>1, SeeGood
<1>3. s.lastVoteEpoch # s.currentEpoch BY DEF MayVote
<1> HIDE DEF s
<1>4. v = [s EXCEPT !.lastVoteEpoch = s.currentEpoch] BY DEF s
<1>5. /\ Good(v) /\ v.owner = node[n].owner /\ v.currentEpoch = s.currentEpoch
      /\ v.lastVoteEpoch = s.currentEpoch
  BY <1>2, <1>4 DEF Good, Configs
<1>6. /\ v.lastVoteEpoch \in Nat /\ node[n].lastVoteEpoch < v.lastVoteEpoch
      /\ node[n].lastVoteEpoch \in Nat
      /\ node[n].currentEpoch <= v.currentEpoch
  BY <1>2, <1>3, <1>5 DEF Good, Configs
<1>7. disk' = [disk EXCEPT ![n] = v] BY Zenon DEF SaveVote
<1>8. /\ node' \in [Nodes -> Configs] /\ disk' \in [Nodes -> Configs]
      /\ node'[n] = v /\ disk'[n] = v
      /\ \A j \in Nodes : j # n => node'[j] = node[j] /\ disk'[j] = disk[j]
  BY <1>1, <1>5, <1>7, Zenon DEF GoodStates, Good
<1>9. /\ GoodMessage(k) /\ k.type = "AUTH_ACK" /\ k.from = n /\ k.to = m.from
      /\ k.currentEpoch = v.lastVoteEpoch
  <2>1. GoodMessage(k) BY <1>1, <1>5, MessageGood, Zenon DEF MessageTypes
  <2> QED BY <2>1, <1>5 DEF Message
<1> HIDE DEF k
<1>10. \A j \in msgs' : j \in msgs \/ j = k
  <2>1. Exchange({m}, {k}) BY DEF k
  <2> QED BY <2>1, ExchangeKeeps
<1>11. \A r \in Replicas : auth'[r].epoch <= node'[r].currentEpoch
  <2> TAKE r \in Replicas
  <2>1. r \in Nodes BY DEF Nodes
  <2>2. node[r].currentEpoch \in Nat /\ node'[r].currentEpoch \in Nat /\ auth[r].epoch \in Nat
    BY <2>1, <1>1, <1>8 DEF GoodStates, Configs, Elections
  <2>3. auth[r].epoch <= node[r].currentEpoch BY <1>1 DEF GoodStates
  <2> QED BY <2>1, <2>2, <2>3, <1>6, <1>8
<1>12. GoodStates'
  <2>1. \A j \in Nodes : /\ Good(node'[j]) /\ Good(disk'[j])
                         /\ node'[j].lastVoteEpoch = disk'[j].lastVoteEpoch
    <3> TAKE j \in Nodes
    <3>1. CASE j = n BY <3>1, <1>5, <1>8, Zenon
    <3>2. CASE j # n
      <4>1. node'[j] = node[j] /\ disk'[j] = disk[j] BY <3>2, <1>8, Zenon
      <4>2. Good(node[j]) /\ Good(disk[j]) /\ node[j].lastVoteEpoch = disk[j].lastVoteEpoch
        BY <1>1, Zenon DEF GoodStates
      <4> QED BY <4>1, <4>2, Zenon
    <3> QED BY <3>1, <3>2, Zenon
  <2> QED BY <2>1, <1>1, <1>8, <1>9, <1>10, <1>11, Zenon DEF GoodStates
<1>13. \A w \in votes : /\ w \in [voter : Nodes, epoch : Nat, node : Nodes]
                        /\ w.epoch <= node[w.voter].lastVoteEpoch
  BY DEF ElectionInv, Remembered
<1>14. \A w \in votes : w.voter = n => w.epoch < v.lastVoteEpoch BY <1>6, <1>13
<1>15. new \in [voter : Nodes, epoch : Nat, node : Nodes] /\ new.voter = n
       /\ new.epoch = v.lastVoteEpoch
  BY <1>1, <1>6
<1> HIDE DEF new
<1>16. votes' = votes \cup {new} BY DEF new
<1>17. Remembered'
  <2>1. \A w \in votes : w.epoch <= node'[w.voter].lastVoteEpoch
    <3> TAKE w \in votes
    <3>1. CASE w.voter = n BY <3>1, <1>6, <1>8, <1>13, <1>14
    <3>2. CASE w.voter # n BY <3>2, <1>8, <1>13
    <3> QED BY <3>1, <3>2
  <2>2. new.epoch <= node'[new.voter].lastVoteEpoch BY <1>6, <1>8, <1>15
  <2> QED BY <2>1, <2>2, <1>13, <1>15, <1>16 DEF Remembered
<1>18. VoteOncePerEpoch'
  <2>1. VoteOncePerEpoch BY DEF ElectionInv
  <2>2. \A w \in votes : ~(w.voter = new.voter /\ w.epoch = new.epoch)
    BY <1>6, <1>13, <1>14, <1>15
  <2> QED BY <2>1, <2>2, <1>16 DEF VoteOncePerEpoch
<1>19. \A w \in votes : w \in votes' BY <1>16
<1>20. AcksOnce'
  <2>1. AcksOnce /\ CountsVotes BY DEF ElectionInv
  <2>2. Vote(<<n, v.lastVoteEpoch>>, m.from) = new BY DEF Vote, new
  <2>3. Vote(<<n, v.lastVoteEpoch>>, m.from) \in votes' BY <2>2, <1>16
  <2>4. \A r : Vote(<<n, v.lastVoteEpoch>>, r) \notin votes
    <3> TAKE r
    <3> DEFINE w == Vote(<<n, v.lastVoteEpoch>>, r)
    <3>1. w.voter = n /\ w.epoch = v.lastVoteEpoch BY DEF Vote
    <3> HIDE DEF w
    <3>2. w \notin votes BY <3>1, <1>6, <1>14
    <3> QED BY <3>2 DEF w
  <2>5. <<n, v.lastVoteEpoch>> \notin auth[m.from].from BY <1>1, <2>1, <2>4 DEF CountsVotes
  <2>6. \A j \in msgs : j.type = "AUTH_ACK" => ~(j.from = n /\ j.currentEpoch = v.lastVoteEpoch)
    BY <2>1, <2>4 DEF AcksOnce
  <2> QED BY <2>1, <2>3, <2>5, <2>6, <1>9, <1>10, <1>19 DEF AcksOnce
<1>21. \A r \in Replicas : node'[r].owner = node[r].owner BY <1>5, <1>8 DEF Nodes
<1>22. CountsVotes'
  <2>1. CountsVotes BY DEF ElectionInv
  <2> QED BY <2>1, <1>19, <1>21 DEF CountsVotes
<1>23. WinsByQuorum'
  <2>1. WinsByQuorum BY DEF ElectionInv
  <2> QED BY <2>1, <1>19 DEF WinsByQuorum
<1> QED BY <1>12, <1>17, <1>18, <1>20, <1>22, <1>23 DEF ElectionInv

\* A request for votes.
LEMMA VoteKeeps ==
    ASSUME ElectionInv, NEW n \in Nodes, NEW m \in msgs, clusterSendFailoverAuthIfNeeded(n, m)
    PROVE  ElectionInv'
<1> DEFINE s == SeeEpochs(node[n], m)
           v == [s EXCEPT !.lastVoteEpoch = s.currentEpoch]
           old == s.configEpoch[s.owner] > m.configEpoch
<1>1. m.type = "AUTH_REQUEST" /\ UNCHANGED <<auth, manual, wins>>
  BY DEF clusterSendFailoverAuthIfNeeded, Receive
<1>2. CASE /\ MayVote(n, s, m)
           /\ node' = [node EXCEPT ![n] = v]
           /\ disk' = SaveVote(n, v)
           /\ votes' = votes \cup {[voter |-> n, epoch |-> v.lastVoteEpoch, node |-> m.from]}
           /\ Exchange({m}, {Message("AUTH_ACK", n, v, m.from, FALSE)})
  BY <1>1, <1>2, GrantKeeps, Zenon
<1>3. CASE /\ node' = [node EXCEPT ![n] = s]
           /\ Exchange({m}, {Message("UPDATE", n, s, m.from, FALSE)})
           /\ UNCHANGED <<disk, votes>>
  BY <1>1, <1>3, RefuseKeeps, Zenon
<1>4. CASE /\ node' = [node EXCEPT ![n] = s]
           /\ Exchange({m}, {})
           /\ UNCHANGED <<disk, votes>>
  BY <1>1, <1>4, RefuseKeeps, Zenon
<1> QED BY <1>2, <1>3, <1>4 DEF clusterSendFailoverAuthIfNeeded

\* An acknowledgement leaves the bus when it is counted.
LEMMA AckKeeps ==
    ASSUME ElectionInv, NEW n \in Replicas, NEW m \in msgs, ReceiveAck(n, m)
    PROVE  ElectionInv'
<1> DEFINE s == SeeEpochs(node[n], m)
           a == ResetElection(auth[n], node[n], m)
           x == <<m.from, m.currentEpoch>>
           counted == IsPrimary(s, m.from) /\ m.currentEpoch >= a.epoch
           b == IF counted THEN [a EXCEPT !.count = @ + 1, !.from = @ \cup {x}] ELSE a
<1>1. /\ GoodStates /\ n \in Nodes /\ Good(node[n]) /\ GoodMessage(m) /\ auth[n] \in Elections
      /\ m.to = n /\ m.type = "AUTH_ACK" /\ x \in Nodes \X Nat
  BY DEF ElectionInv, GoodStates, Nodes, ReceiveAck, Receive, GoodMessage, Messages
<1>2. /\ Good(s) /\ s.lastVoteEpoch = node[n].lastVoteEpoch /\ s.owner = node[n].owner
      /\ node[n].currentEpoch <= s.currentEpoch
  BY <1>1, SeeGood
<1>3. s.currentEpoch >= node[n].currentEpoch BY <1>1, <1>2 DEF Good, Configs
<1>4. /\ Become(n, s, Saves(node[n], s)) /\ auth' = [auth EXCEPT ![n] = b]
      /\ Exchange({m}, {}) /\ UNCHANGED <<manual, votes, wins>>
  BY DEF ReceiveAck
<1>5. counted => x[1] \in Voters \cup {s.owner} BY DEF IsPrimary
<1>6. /\ a \in Elections /\ a.from = auth[n].from /\ a.count = auth[n].count
      /\ a.epoch = auth[n].epoch /\ (a.time = "open" => auth[n].time = "open")
  BY <1>1, ResetKeeps
<1> HIDE DEF s, a, x
<1>7. Saves(node[n], s) \in BOOLEAN BY DEF Saves
<1>8. /\ StatesKept /\ node'[n] = s /\ \A k \in Nodes : k # n => node'[k] = node[k]
      /\ \A k \in Nodes : node'[k].currentEpoch >= node[k].currentEpoch
  BY <1>1, <1>2, <1>3, <1>4, <1>7, BecomeKeeps
<1> HIDE DEF counted
<1>9. /\ b \in Elections /\ b.epoch = auth[n].epoch /\ (b.time = "open" => auth[n].time = "open")
      /\ \/ b.from = auth[n].from /\ b.count = auth[n].count
         \/ counted /\ b.from = auth[n].from \cup {x} /\ b.count = auth[n].count + 1
  <2> DEFINE d == [a EXCEPT !.count = @ + 1, !.from = @ \cup {x}]
  <2>1. /\ d \in Elections /\ d.epoch = a.epoch /\ d.time = a.time
        /\ d.from = a.from \cup {x} /\ d.count = a.count + 1
    <3>1. a.count + 1 \in Nat /\ a.from \cup {x} \in SUBSET (Nodes \X Nat)
      BY <1>1, <1>6 DEF Elections
    <3>2. d = [a EXCEPT !.count = a.count + 1, !.from = a.from \cup {x}] BY <1>6 DEF Elections
    <3> HIDE DEF d
    <3> QED BY <1>6, <3>1, <3>2, Zenon DEF Elections
  <2> HIDE DEF d
  <2>2. b = IF counted THEN d ELSE a BY DEF d
  <2> HIDE DEF b
  <2> QED BY <1>6, <2>1, <2>2
<1> HIDE DEF b
<1>10. /\ auth' \in [Replicas -> Elections] /\ auth'[n] = b
       /\ \A r \in Replicas : r # n => auth'[r] = auth[r]
  BY <1>1, <1>4, <1>9 DEF GoodStates
<1>11. \A k \in msgs' : k \in msgs /\ k # m BY <1>4, ExchangeKeeps
<1>12. \A r \in Replicas : auth'[r].epoch <= node'[r].currentEpoch
  <2> TAKE r \in Replicas
  <2>1. r \in Nodes BY DEF Nodes
  <2>2. node[r].currentEpoch \in Nat /\ node'[r].currentEpoch \in Nat /\ auth[r].epoch \in Nat
    BY <2>1, <1>1, <1>8 DEF GoodStates, StatesKept, Configs, Elections
  <2>3. auth[r].epoch <= node[r].currentEpoch /\ auth'[r].epoch = auth[r].epoch
    BY <1>1, <1>9, <1>10 DEF GoodStates
  <2> QED BY <2>1, <2>2, <2>3, <1>8
<1>13. GoodStates' BY <1>1, <1>4, <1>8, <1>10, <1>11, <1>12, Zenon DEF GoodStates, StatesKept
<1>14. Remembered' /\ VoteOncePerEpoch'
  BY <1>4, <1>8 DEF ElectionInv, Remembered, VoteOncePerEpoch, StatesKept
<1>15. /\ AcksOnce /\ CountsVotes /\ WinsByQuorum BY DEF ElectionInv
<1>16. x \notin auth[n].from /\ Vote(x, n) \in votes BY <1>1, <1>15 DEF AcksOnce, x
<1>17. AcksOnce'
  <2> SUFFICES ASSUME NEW k \in msgs', k.type = "AUTH_ACK"
               PROVE  /\ Vote(<<k.from, k.currentEpoch>>, k.to) \in votes'
                      /\ <<k.from, k.currentEpoch>> \notin auth'[k.to].from
                      /\ \A j \in msgs' :
                           j.type = "AUTH_ACK" /\ j.from = k.from /\ j.currentEpoch = k.currentEpoch
                               => j = k
    BY DEF AcksOnce
  <2>1. /\ k \in msgs /\ k # m /\ k.to \in Replicas
    BY <1>1, <1>11 DEF GoodStates, GoodMessage
  <2>2. /\ Vote(<<k.from, k.currentEpoch>>, k.to) \in votes
        /\ <<k.from, k.currentEpoch>> \notin auth[k.to].from
        /\ \A j \in msgs :
              j.type = "AUTH_ACK" /\ j.from = k.from /\ j.currentEpoch = k.currentEpoch => j = k
    BY <1>15, <2>1 DEF AcksOnce
  <2>3. <<k.from, k.currentEpoch>> # x BY <1>1, <2>1, <2>2 DEF x
  <2>4. <<k.from, k.currentEpoch>> \notin auth'[k.to].from
    BY <2>1, <2>2, <2>3, <1>9, <1>10, Zenon
  <2> QED BY <2>2, <2>4, <1>4, <1>11
<1>18. CountsVotes'
  <2>1. ASSUME NEW r \in Replicas, r # n
        PROVE  auth'[r] = auth[r] /\ node'[r] = node[r]
    BY <2>1, <1>8, <1>10 DEF Nodes
  <2>2. /\ IsFiniteSet(b.from) /\ b.count = Cardinality(b.from)
    <3>1. IsFiniteSet(auth[n].from) /\ auth[n].count = Cardinality(auth[n].from)
      BY <1>15 DEF CountsVotes
    <3>2. /\ IsFiniteSet(auth[n].from \cup {x})
          /\ Cardinality(auth[n].from \cup {x}) = Cardinality(auth[n].from) + 1
      BY <3>1, <1>16, FS_AddElement
    <3> QED BY <3>1, <3>2, <1>9, Zenon
  <2>3. \A y \in b.from : /\ Vote(y, n) \in votes
                          /\ b.time = "open" => y[1] \in Voters \cup {node'[n].owner}
    <3>1. \A y \in auth[n].from : /\ Vote(y, n) \in votes
                                  /\ b.time = "open" => y[1] \in Voters \cup {node'[n].owner}
      BY <1>2, <1>8, <1>9, <1>15 DEF CountsVotes
    <3>2. counted => Vote(x, n) \in votes /\ x[1] \in Voters \cup {node'[n].owner}
      BY <1>2, <1>5, <1>8, <1>16, Zenon
    <3> QED BY <3>1, <3>2, <1>9, Zenon
  <2> QED BY <2>1, <2>2, <2>3, <1>4, <1>10, <1>15 DEF CountsVotes
<1>19. WinsByQuorum' BY <1>4, <1>15 DEF WinsByQuorum
<1> QED BY <1>13, <1>14, <1>17, <1>18, <1>19 DEF ElectionInv

\* An election is won with the votes that the replica has counted.
LEMMA WinKeeps ==
    ASSUME ElectionInv, NEW n \in Replicas, WinElection(n)
    PROVE  ElectionInv'
<1> DEFINE c == Max({node[n].configEpoch[n], auth[n].epoch})
           s == [node[n] EXCEPT !.configEpoch = [node[n].configEpoch EXCEPT ![n] = c],
                                !.owner = n]
           w == [node |-> n, epoch |-> auth[n].epoch, from |-> auth[n].from,
                 owner |-> node[n].owner,
                 others |-> {node[n].configEpoch[m] : m \in Nodes \ {n, node[n].owner}}]
<1>1. /\ GoodStates /\ n \in Nodes /\ Good(node[n]) /\ auth[n] \in Elections
      /\ node[n] \in Configs /\ node[n].configEpoch[n] \in Nat /\ auth[n].epoch \in Nat
      /\ auth[n].epoch <= node[n].currentEpoch
  BY Zenon DEF ElectionInv, GoodStates, Nodes, Good, Configs, Elections
<1>2. c \in Nat /\ c \in {node[n].configEpoch[n], auth[n].epoch} BY <1>1, MaxOfTwo
<1>3. /\ node' = [node EXCEPT ![n].configEpoch[n] = Max({@, auth[n].epoch}), ![n].owner = n]
      /\ auth' = [auth EXCEPT ![n].time = "none"] /\ manual' = [manual EXCEPT ![n] = FALSE]
      /\ wins' = wins \cup {w} /\ Exchange({}, {}) /\ UNCHANGED <<disk, votes>>
      /\ auth[n].time = "open" /\ auth[n].count >= Quorum
  BY DEF WinElection, Reached
<1>4. node' = [node EXCEPT ![n] = s] BY <1>1, <1>3, Zenon DEF GoodStates, Configs
<1> HIDE DEF c
<1>5. /\ Good(s) /\ s.lastVoteEpoch = node[n].lastVoteEpoch /\ s.currentEpoch = node[n].currentEpoch
  <2>1. /\ s \in Configs /\ s.lastVoteEpoch = node[n].lastVoteEpoch
        /\ s.currentEpoch = node[n].currentEpoch
        /\ s.configEpoch = [node[n].configEpoch EXCEPT ![n] = c]
    BY <1>1, <1>2, Zenon DEF Configs
  <2>2. \A k \in Nodes : s.configEpoch[k] <= s.currentEpoch
    BY <1>1, <1>2, <2>1 DEF Good, Configs
  <2> QED BY <1>1, <2>1, <2>2 DEF Good
<1>6. Become(n, s, FALSE) /\ s.currentEpoch >= node[n].currentEpoch
  <2>1. s.currentEpoch >= node[n].currentEpoch BY <1>1, <1>5 DEF Configs
  <2>2. Become(n, s, FALSE) BY <1>3, <1>4, Zenon DEF Become
  <2> QED BY <2>1, <2>2, Zenon
<1> HIDE DEF s
<1>7. /\ StatesKept /\ node'[n] = s /\ \A k \in Nodes : k # n => node'[k] = node[k]
  BY <1>1, <1>5, <1>6, BecomeKeeps, Zenon
<1>8. /\ auth' \in [Replicas -> Elections] /\ manual' \in [Replicas -> BOOLEAN]
      /\ auth'[n].time = "none"
      /\ \A r \in Replicas : /\ r # n => auth'[r] = auth[r] /\ node'[r] = node[r]
                             /\ auth'[r].from = auth[r].from /\ auth'[r].count = auth[r].count
                             /\ auth'[r].epoch = auth[r].epoch
  <2>1. auth \in [Replicas -> Elections] /\ manual \in [Replicas -> BOOLEAN]
    BY <1>1 DEF GoodStates
  <2>2. [auth[n] EXCEPT !.time = "none"] \in Elections BY <1>1 DEF Elections
  <2>3. auth' = [auth EXCEPT ![n] = [auth[n] EXCEPT !.time = "none"]] BY <1>3, <2>1
  <2>4. \A r \in Replicas : r # n => node'[r] = node[r] BY <1>7 DEF Nodes
  <2>5. /\ [auth[n] EXCEPT !.time = "none"].time = "none"
        /\ [auth[n] EXCEPT !.time = "none"].from = auth[n].from
        /\ [auth[n] EXCEPT !.time = "none"].count = auth[n].count
        /\ [auth[n] EXCEPT !.time = "none"].epoch = auth[n].epoch
    BY <1>1 DEF Elections
  <2>6. manual' \in [Replicas -> BOOLEAN] BY <1>3, <2>1
  <2> QED BY <2>1, <2>2, <2>3, <2>4, <2>5, <2>6, Zenon
<1>9. \A k \in msgs' : k \in msgs BY <1>3, ExchangeKeeps
<1>10. \A r \in Replicas : auth'[r].epoch <= node'[r].currentEpoch
  BY <1>1, <1>5, <1>7, <1>8 DEF GoodStates
<1>11. GoodStates' BY <1>1, <1>3, <1>7, <1>8, <1>9, <1>10, Zenon DEF GoodStates, StatesKept
<1>12. VotesKept BY <1>3, <1>7, <1>8, <1>9, Zenon DEF VotesKept, StatesKept
<1>13. CountsVotes /\ WinsByQuorum BY DEF ElectionInv
<1>14. \A k \in msgs : k.type = "AUTH_ACK" => k.to \in Replicas
  BY <1>1 DEF GoodStates, GoodMessage
<1>15. (Remembered /\ VoteOncePerEpoch /\ AcksOnce /\ CountsVotes)'
  BY <1>12, <1>14, VotesKeeps
<1>16. WinsByQuorum'
  <2>1. /\ IsFiniteSet(w.from) /\ w.from \subseteq Nodes \X Nat /\ Cardinality(w.from) >= Quorum
        /\ \A x \in w.from : Vote(x, w.node) \in votes /\ x[1] \in Voters \cup {w.owner}
    BY <1>1, <1>3, <1>13 DEF CountsVotes, Elections
  <2> HIDE DEF w
  <2> QED BY <2>1, <1>3, <1>13 DEF WinsByQuorum
<1> QED BY <1>11, <1>15, <1>16, Zenon DEF ElectionInv

-----------------------------------------------------------------------------
(* The theorems                                                            *)

\* Every step of the election keeps the invariant.
LEMMA ElectionStep ==
    ASSUME ElectionInv, [ElectionNext]_electionVars
    PROVE  ElectionInv'
<1>1. CASE UNCHANGED electionVars
  <2>1. NoVotes BY <1>1 DEF electionVars, NoVotes, VotesKept
  <2>2. GoodStates' BY <1>1 DEF electionVars, ElectionInv, GoodStates
  <2> QED BY <2>1, <2>2, QuietKeeps
<1>2. ASSUME NEW n \in Nodes, NEW m \in msgs, ReceiveUpdate(n, m) PROVE ElectionInv'
  BY <1>2, UpdateKeeps
<1>3. ASSUME NEW n \in Nodes, NEW m \in msgs, clusterSendFailoverAuthIfNeeded(n, m)
      PROVE  ElectionInv'
  BY <1>3, VoteKeeps
<1>4. ASSUME NEW n \in Nodes, NEW m \in Nodes, ReceivePing(n, m) PROVE ElectionInv'
  BY <1>4, PingKeeps
<1>5. ASSUME NEW n \in Nodes, Restart(n) PROVE ElectionInv' BY <1>5, RestartKeeps
<1>6. ASSUME NEW n \in Nodes, SafeToJoin(n) PROVE ElectionInv'
  BY <1>6, LocalKeeps, Zenon DEF SafeToJoin
<1>7. ASSUME NEW n \in Voters, clusterBumpConfigEpochWithoutConsensus(n) PROVE ElectionInv'
  BY <1>7, BumpKeeps
<1>8. ASSUME NEW n \in Replicas, NEW m \in msgs, ReceiveAck(n, m) PROVE ElectionInv'
  BY <1>8, AckKeeps
<1>9. ASSUME NEW n \in Replicas, ScheduleElection(n) PROVE ElectionInv'
  BY <1>9, LocalKeeps, Zenon DEF ScheduleElection
<1>10. ASSUME NEW n \in Replicas, RequestVotes(n) PROVE ElectionInv' BY <1>10, RequestKeeps
<1>11. ASSUME NEW n \in Replicas, WinElection(n) PROVE ElectionInv' BY <1>11, WinKeeps
<1>12. ASSUME NEW n \in Replicas, SaveConfig(n) PROVE ElectionInv' BY <1>12, SaveKeeps
<1>13. ASSUME NEW n \in Replicas, FailoverForce(n) PROVE ElectionInv'
  BY <1>13, LocalKeeps, Zenon DEF FailoverForce
<1>14. ASSUME NEW n \in Replicas, manualFailoverCheckTimeout(n) PROVE ElectionInv'
  BY <1>14, LocalKeeps, Zenon DEF manualFailoverCheckTimeout
<1> QED
  BY <1>1, <1>2, <1>3, <1>4, <1>5, <1>6, <1>7, <1>8, <1>9, <1>10, <1>11, <1>12, <1>13, <1>14
  DEF ElectionNext

\* The invariant holds always.
LEMMA ElectionInvariant == ElectionSpec => []ElectionInv
BY InitInv, ElectionStep, PTL DEF ElectionSpec

\* Those who may vote for a replica of one primary are at most as many as
\* server.cluster->size: two quorums of them have a vote in common.
LEMMA QuorumsMeet ==
    ASSUME NEW o, NEW e, NEW S, NEW T,
           S \subseteq (Voters \cup {o}) \X {e}, Cardinality(S) >= Quorum,
           T \subseteq (Voters \cup {o}) \X {e}, Cardinality(T) >= Quorum
    PROVE  \E x \in S : x \in T
<1> DEFINE U == (Voters \cup {o}) \X {e}
<1>1. IsFiniteSet(Voters) /\ Primary \notin Voters /\ Cardinality(Voters) \in Nat
  BY ElectionAssumption, FS_CardinalityType
<1>2. Cardinality(Primaries) = Cardinality(Voters) + 1
  BY <1>1, FS_AddElement DEF Primaries
<1>3. IsFiniteSet(Voters \cup {o}) /\ Cardinality(Voters \cup {o}) <= Cardinality(Voters) + 1
  <2> DEFINE V == Voters \cup {o}
  <2>1. /\ IsFiniteSet(V)
        /\ Cardinality(V) = IF o \in Voters THEN Cardinality(Voters) ELSE Cardinality(Voters) + 1
    BY <1>1, FS_AddElement
  <2> HIDE DEF V
  <2>2. Cardinality(V) <= Cardinality(Voters) + 1 BY <1>1, <2>1
  <2> QED BY <2>1, <2>2 DEF V
<1>4. IsFiniteSet({e}) /\ Cardinality({e}) = 1 BY FS_Singleton, Zenon
<1>5. IsFiniteSet(U) /\ Cardinality(U) = Cardinality(Voters \cup {o}) * 1
  BY <1>3, <1>4, FS_Product
<1>6. Cardinality(Voters \cup {o}) \in Nat BY <1>3, FS_CardinalityType
<1>7. Cardinality(U) <= Cardinality(Voters) + 1 BY <1>3, <1>5, <1>6
<1> HIDE DEF U
<1>8. S \subseteq U /\ T \subseteq U BY DEF U
<1>9. Cardinality(S) \in Nat /\ Cardinality(T) \in Nat /\ Cardinality(U) \in Nat
  BY <1>5, <1>8, FS_Subset, FS_CardinalityType
<1>10. Quorum = (Cardinality(Voters) + 1) \div 2 + 1 BY <1>2 DEF Quorum
<1>11. Cardinality(S) + Cardinality(T) > Cardinality(U) BY <1>1, <1>7, <1>9, <1>10
<1>12. S \cap T # {} BY <1>5, <1>8, <1>11, FS_MajoritiesIntersect
<1> QED BY <1>12

\* VoteOncePerEpoch for any number of nodes, restarts, elections and epochs:
\* a primary never votes for two replicas in an epoch.
THEOREM OneVotePerEpoch == ElectionSpec => []VoteOncePerEpoch
<1>1. ElectionInv => VoteOncePerEpoch BY DEF ElectionInv
<1> QED BY <1>1, ElectionInvariant, PTL

\* ElectedEpochUnique for any number of nodes, restarts, elections and epochs:
\* two replicas of a primary do not win an epoch with votes given in it.
THEOREM OneWinnerPerEpoch == ElectionSpec => []ElectedEpochUnique
<1>1. ElectionInv => ElectedEpochUnique
  <2> SUFFICES ASSUME ElectionInv, NEW v \in wins, NEW w \in wins, v.epoch = w.epoch,
                      v.owner = w.owner, OwnVotes(v), OwnVotes(w)
               PROVE  v.node = w.node
    BY DEF ElectedEpochUnique
  <2> DEFINE o == v.owner
             e == v.epoch
  <2>1. WinsByQuorum /\ VoteOncePerEpoch BY DEF ElectionInv
  <2>2. v.from \subseteq (Voters \cup {o}) \X {e} /\ Cardinality(v.from) >= Quorum
    BY <2>1 DEF WinsByQuorum, OwnVotes
  <2>3. w.from \subseteq (Voters \cup {o}) \X {e} /\ Cardinality(w.from) >= Quorum
    BY <2>1 DEF WinsByQuorum, OwnVotes
  <2>4. PICK x \in v.from : x \in w.from BY <2>2, <2>3, QuorumsMeet, Zenon
  <2>5. Vote(x, v.node) \in votes /\ Vote(x, w.node) \in votes BY <2>1, <2>4 DEF WinsByQuorum
  <2>6. Vote(x, v.node).node = Vote(x, w.node).node
    <3>1. /\ Vote(x, v.node).voter = Vote(x, w.node).voter
          /\ Vote(x, v.node).epoch = Vote(x, w.node).epoch
      BY DEF Vote
    <3> QED BY <2>1, <2>5, <3>1 DEF VoteOncePerEpoch
  <2> QED BY <2>6 DEF Vote
<1> QED BY <1>1, ElectionInvariant, PTL

-----------------------------------------------------------------------------
(* Claims and running elections                                            *)

\* The epoch in which replica r asks for votes is greater than those it knows
\* of the other nodes but the owner that it wants to replace.
Leads(r) ==
    auth[r].time = "open" /\ auth[r].sent =>
        \A m \in Nodes \ {r, node[r].owner} : node[r].configEpoch[m] < auth[r].epoch

\* Who asks for votes is no primary.
Ahead ==
    /\ \A r \in Replicas : Leads(r)
    /\ \A m \in msgs : m.type = "AUTH_REQUEST" => ~m.primary
    /\ WinBeatsClaims

\* What a replica learns from a header resets its election, or is no reason to.
LEMMA SeeLeads ==
    ASSUME ElectionInv, NEW n \in Replicas, Leads(n), NEW m, GoodMessage(m)
    PROVE  LET s == SeeEpochs(node[n], m)
               a == ResetElection(auth[n], node[n], m)
           IN  a.time = "open" /\ a.sent =>
                   /\ auth[n].time = "open" /\ a.epoch = auth[n].epoch
                   /\ \A k \in Nodes \ {n, node[n].owner} : s.configEpoch[k] < auth[n].epoch
<1> DEFINE s == SeeEpochs(node[n], m)
           a == ResetElection(auth[n], node[n], m)
           f == Max({node[n].configEpoch[m.from], m.configEpoch})
<1>1. n \in Nodes /\ node[n] \in Configs /\ auth[n] \in Elections
  BY DEF ElectionInv, GoodStates, Nodes
<1>2. m.from \in Nodes /\ m.configEpoch \in Nat BY DEF GoodMessage, Messages
<1>3. node[n].configEpoch \in [Nodes -> Nat] /\ auth[n].epoch \in Nat BY <1>1 DEF Configs, Elections
<1>4. f \in {node[n].configEpoch[m.from], m.configEpoch} /\ f \in Nat
      /\ node[n].configEpoch[m.from] <= f
  BY <1>2, <1>3, MaxOfTwo
<1>5. s.configEpoch = [node[n].configEpoch EXCEPT ![m.from] = IF m.primary THEN f ELSE @]
  BY <1>1 DEF SeeEpochs, Configs
<1> HIDE DEF s, f
<1>6. SUFFICES ASSUME a.time = "open", a.sent
               PROVE  /\ auth[n].time = "open" /\ a.epoch = auth[n].epoch
                      /\ \A k \in Nodes \ {n, node[n].owner} : s.configEpoch[k] < auth[n].epoch
  BY DEF s
<1>7. /\ a = auth[n]
      /\ m.primary /\ m.configEpoch > node[n].configEpoch[m.from] => m.configEpoch < auth[n].epoch
  <2>1. CASE /\ m.primary /\ m.configEpoch > node[n].configEpoch[m.from]
             /\ auth[n].time # "none" /\ auth[n].sent /\ m.configEpoch >= auth[n].epoch
    <3>1. a = [auth[n] EXCEPT !.time = "none"] BY <2>1 DEF ResetElection
    <3> HIDE DEF a
    <3>2. a.time = "none" BY <1>1, <3>1 DEF Elections
    <3> QED BY <1>6, <3>2
  <2>2. CASE ~(/\ m.primary /\ m.configEpoch > node[n].configEpoch[m.from]
               /\ auth[n].time # "none" /\ auth[n].sent /\ m.configEpoch >= auth[n].epoch)
    <3>1. a = auth[n] BY <2>2 DEF ResetElection
    <3> HIDE DEF a
    <3> QED BY <1>2, <1>3, <1>6, <2>2, <3>1
  <2> QED BY <2>1, <2>2
<1> HIDE DEF a
<1>8. \A k \in Nodes \ {n, node[n].owner} : node[n].configEpoch[k] < auth[n].epoch
  BY <1>6, <1>7 DEF Leads
<1>9. ASSUME NEW k \in Nodes \ {n, node[n].owner} PROVE s.configEpoch[k] < auth[n].epoch
  <2>1. CASE k = m.from /\ m.primary
    <3>1. s.configEpoch[k] = f BY <1>2, <1>3, <1>5, <2>1
    <3>2. node[n].configEpoch[k] < auth[n].epoch BY <1>8
    <3> QED BY <1>2, <1>3, <1>4, <1>7, <2>1, <3>1, <3>2
  <2>2. CASE ~(k = m.from /\ m.primary)
    <3>1. s.configEpoch[k] = node[n].configEpoch[k] BY <1>2, <1>3, <1>5, <2>2
    <3> QED BY <1>8, <3>1
  <2> QED BY <2>1, <2>2
<1> QED BY <1>6, <1>7, <1>9

\* A step that starts and wins no election, and that raises no epoch a running
\* one must lead.
LEMMA AheadKept ==
    ASSUME Ahead, wins' = wins,
           \A m \in msgs' : m \in msgs \/ m.type # "AUTH_REQUEST",
           \A r \in Replicas : auth'[r].time = "open" /\ auth'[r].sent =>
               /\ auth[r].time = "open" /\ auth[r].sent /\ auth'[r].epoch = auth[r].epoch
               /\ node'[r].owner = node[r].owner
               /\ \A k \in Nodes \ {r, node[r].owner} : node'[r].configEpoch[k] = node[r].configEpoch[k]
    PROVE  Ahead'
<1>1. \A r \in Replicas : Leads(r)' BY DEF Ahead, Leads
<1>2. WinBeatsClaims' BY DEF Ahead, WinBeatsClaims
<1> QED BY <1>1, <1>2 DEF Ahead

\* One replica learns something, and its election still leads.
LEMMA AheadLearns ==
    ASSUME Ahead, wins' = wins, NEW n,
           \A m \in msgs' : m \in msgs \/ m.type # "AUTH_REQUEST",
           \A r \in Replicas : r # n => auth'[r] = auth[r] /\ node'[r] = node[r],
           n \in Replicas => Leads(n)'
    PROVE  Ahead'
<1>1. \A r \in Replicas : Leads(r)'
  <2> TAKE r \in Replicas
  <2>1. CASE r = n BY <2>1
  <2>2. CASE r # n
    <3>1. Leads(r) /\ auth'[r] = auth[r] /\ node'[r] = node[r] BY <2>2 DEF Ahead
    <3> QED BY <3>1 DEF Leads
  <2> QED BY <2>1, <2>2
<1>2. WinBeatsClaims' BY DEF Ahead, WinBeatsClaims
<1> QED BY <1>1, <1>2 DEF Ahead

\* A claim to the slots makes its owner the owner, or raises its epoch.
LEMMA TakeOthers ==
    ASSUME NEW s \in Configs, NEW o \in Nodes, NEW e \in Nat, TakeOwner(s, o, e).owner = s.owner
    PROVE  \A k \in Nodes \ {s.owner} : TakeOwner(s, o, e).configEpoch[k] = s.configEpoch[k]
<1> DEFINE t == TakeOwner(s, o, e)
<1>1. CASE t = s BY <1>1
<1>2. CASE t # s
  <2>1. t = [s EXCEPT !.owner = o, !.configEpoch = [s.configEpoch EXCEPT ![o] = e], !.failed = FALSE]
    BY <1>2 DEF TakeOwner, Configs
  <2> HIDE DEF t
  <2>2. t.owner = o /\ t.configEpoch = [s.configEpoch EXCEPT ![o] = e] BY <2>1 DEF Configs
  <2>3. s.configEpoch \in [Nodes -> Nat] BY DEF Configs
  <2>4. o = s.owner BY <2>2 DEF t
  <2>5. \A k \in Nodes \ {s.owner} : t.configEpoch[k] = s.configEpoch[k] BY <2>2, <2>3, <2>4
  <2> QED BY <2>5 DEF t
<1> QED BY <1>1, <1>2

\* Pings, pongs and UPDATE messages.
LEMMA HearAhead ==
    ASSUME ElectionInv, Ahead, NEW n \in Nodes, NEW m, GoodMessage(m), Hear(n, m),
           NEW arrived, Exchange(arrived, {}), UNCHANGED <<votes, wins>>
    PROVE  Ahead'
<1> DEFINE s == SeeEpochs(node[n], m)
           t == TakeOwner(s, m.about, m.aboutEpoch)
           a == ResetElection(auth[n], node[n], m)
           moved == t.owner # s.owner
           b == IF moved THEN [a EXCEPT !.time = "none"] ELSE a
<1>1. GoodStates /\ Good(node[n]) BY DEF ElectionInv, GoodStates
<1>2. Good(s) /\ s.owner = node[n].owner BY <1>1, SeeGood
<1>3. m.about \in Nodes /\ m.aboutEpoch \in Nat BY DEF GoodMessage, Messages
<1>4. \A k \in msgs' : k \in msgs BY ExchangeKeeps
<1>5. /\ node'[n] = t /\ \A k \in Nodes : k # n => node'[k] = node[k]
  BY <1>1 DEF Hear, Become, GoodStates
<1>6. \A r \in Replicas : r # n => auth'[r] = auth[r] /\ node'[r] = node[r]
  <2>1. \A r \in Replicas : r # n => auth'[r] = auth[r] BY <1>1 DEF Hear, GoodStates
  <2> QED BY <1>5, <2>1 DEF Nodes
<1>7. ASSUME n \in Replicas PROVE Leads(n)'
  <2>1. auth'[n] = b BY <1>1, <1>7 DEF Hear, GoodStates
  <2>2. auth[n] \in Elections BY <1>1, <1>7 DEF GoodStates
  <2>3. a \in Elections BY <2>2, ResetKeeps
  <2>4. a.time = "open" /\ a.sent =>
            /\ auth[n].time = "open" /\ a.epoch = auth[n].epoch
            /\ \A k \in Nodes \ {n, node[n].owner} : s.configEpoch[k] < auth[n].epoch
    BY <1>7, SeeLeads DEF Ahead
  <2>5. s \in Configs BY <1>2 DEF Good
  <2>6. ~moved => \A k \in Nodes \ {s.owner} : t.configEpoch[k] = s.configEpoch[k]
    BY <1>3, <2>5, TakeOthers
  <2> HIDE DEF s, t, a
  <2>7. b.time = "open" => b = a /\ ~moved BY <2>3 DEF Elections
  <2> HIDE DEF b, moved
  <2>8. SUFFICES ASSUME b.time = "open", b.sent
                 PROVE  \A k \in Nodes \ {n, t.owner} : t.configEpoch[k] < b.epoch
    BY <1>5, <2>1 DEF Leads
  <2>9. t.owner = node[n].owner BY <1>2, <2>7, <2>8 DEF moved
  <2> QED BY <1>2, <2>4, <2>6, <2>7, <2>8, <2>9
<1> QED BY <1>4, <1>6, <1>7, AheadLearns

\* A request for votes tells a replica no claim: it comes from none that is a
\* primary.
LEMMA VoteAhead ==
    ASSUME ElectionInv, Ahead, NEW n \in Nodes, NEW m \in msgs, clusterSendFailoverAuthIfNeeded(n, m)
    PROVE  Ahead'
<1> DEFINE s == SeeEpochs(node[n], m)
           v == [s EXCEPT !.lastVoteEpoch = s.currentEpoch]
<1>1. GoodStates /\ Good(node[n]) /\ GoodMessage(m) BY DEF ElectionInv, GoodStates
<1>2. Good(s) /\ s.owner = node[n].owner BY <1>1, SeeGood
<1>3. m.type = "AUTH_REQUEST" /\ ~m.primary BY DEF clusterSendFailoverAuthIfNeeded, Receive, Ahead
<1>4. s.configEpoch = node[n].configEpoch
  <2>1. s.configEpoch = [node[n].configEpoch EXCEPT ![m.from] = node[n].configEpoch[m.from]]
    BY <1>1, <1>3 DEF SeeEpochs, Good, Configs
  <2> HIDE DEF s
  <2> QED BY <1>1, <2>1 DEF Good, Configs
<1>5. UNCHANGED <<auth, wins>> BY DEF clusterSendFailoverAuthIfNeeded
<1>6. node' = [node EXCEPT ![n] = v] \/ node' = [node EXCEPT ![n] = s]
  BY Zenon DEF clusterSendFailoverAuthIfNeeded
<1>7. \A k \in msgs' : k \in msgs \/ k.type # "AUTH_REQUEST"
  <2> DEFINE ack == Message("AUTH_ACK", n, v, m.from, FALSE)
             update == Message("UPDATE", n, s, m.from, FALSE)
  <2>1. Exchange({m}, {ack}) \/ Exchange({m}, {update}) \/ Exchange({m}, {})
    BY Zenon DEF clusterSendFailoverAuthIfNeeded
  <2>2. ack.type = "AUTH_ACK" /\ update.type = "UPDATE" BY Zenon DEF Message
  <2> HIDE DEF ack, update
  <2>3. \A k \in msgs' : k \in msgs \/ k = ack \/ k = update BY <2>1, ExchangeKeeps
  <2> QED BY <2>2, <2>3
<1> HIDE DEF s
<1>8. v.owner = s.owner /\ v.configEpoch = s.configEpoch BY <1>2 DEF Good, Configs
<1> HIDE DEF v
<1>9. \A r \in Nodes : node'[r].owner = node[r].owner /\ node'[r].configEpoch = node[r].configEpoch
  BY <1>1, <1>2, <1>4, <1>6, <1>8 DEF GoodStates
<1>10. \A r \in Replicas : r \in Nodes BY DEF Nodes
<1> QED BY <1>5, <1>7, <1>9, <1>10, AheadKept

\* A vote comes with the claim of its voter.
LEMMA AckAhead ==
    ASSUME ElectionInv, Ahead, NEW n \in Replicas, NEW m \in msgs, ReceiveAck(n, m)
    PROVE  Ahead'
<1> DEFINE s == SeeEpochs(node[n], m)
           a == ResetElection(auth[n], node[n], m)
           x == <<m.from, m.currentEpoch>>
           b == IF IsPrimary(s, m.from) /\ m.currentEpoch >= a.epoch
                THEN [a EXCEPT !.count = @ + 1, !.from = @ \cup {x}] ELSE a
<1>1. GoodStates /\ n \in Nodes /\ Good(node[n]) /\ GoodMessage(m) /\ auth[n] \in Elections
  BY DEF ElectionInv, GoodStates, Nodes
<1>2. s.owner = node[n].owner BY <1>1, SeeGood
<1>3. /\ node' = [node EXCEPT ![n] = s] /\ auth' = [auth EXCEPT ![n] = b]
      /\ Exchange({m}, {}) /\ wins' = wins
  BY DEF ReceiveAck, Become
<1>4. a.time = "open" /\ a.sent =>
          /\ auth[n].time = "open" /\ a.epoch = auth[n].epoch
          /\ \A k \in Nodes \ {n, node[n].owner} : s.configEpoch[k] < auth[n].epoch
  BY <1>1, SeeLeads, Zenon DEF Ahead
<1>5. a \in Elections BY <1>1, ResetKeeps
<1> HIDE DEF s, a, x
<1>6. b.time = a.time /\ b.sent = a.sent /\ b.epoch = a.epoch BY <1>5 DEF Elections
<1> HIDE DEF b
<1>7. node'[n] = s /\ auth'[n] = b BY <1>1, <1>3 DEF GoodStates
<1>8. \A r \in Replicas : r # n => auth'[r] = auth[r] /\ node'[r] = node[r]
  BY <1>1, <1>3 DEF GoodStates, Nodes
<1>9. \A k \in msgs' : k \in msgs BY <1>3, ExchangeKeeps
<1>10. Leads(n)' BY <1>2, <1>4, <1>6, <1>7 DEF Leads
<1> QED BY <1>3, <1>8, <1>9, <1>10, AheadLearns

\* The epoch of a new election is greater than all that the replica knows.
LEMMA RequestAhead ==
    ASSUME ElectionInv, Ahead, NEW n \in Replicas, RequestVotes(n)
    PROVE  Ahead'
<1> DEFINE a == IF manual[n] /\ auth[n].time = "none" THEN NewElection(n) ELSE auth[n]
           e == node[n].currentEpoch + 1
           s == [node[n] EXCEPT !.currentEpoch = e]
           to == Voters \cup (IF manual[n] THEN Owners ELSE {})
           sent == {Message("AUTH_REQUEST", n, s, m, manual[n]) : m \in to}
<1>1. GoodStates /\ n \in Nodes /\ Good(node[n]) /\ auth[n] \in Elections
  BY DEF ElectionInv, GoodStates, Nodes
<1>2. /\ auth' = [auth EXCEPT ![n] = [a EXCEPT !.sent = TRUE, !.epoch = e]]
      /\ node' = [node EXCEPT ![n] = s] /\ Exchange({}, sent) /\ wins' = wins
      /\ node[n].owner # n
  BY DEF RequestVotes, CanFailover
<1>3. /\ s.owner = node[n].owner /\ s.configEpoch = node[n].configEpoch
      /\ \A k \in Nodes : s.configEpoch[k] < e
  BY <1>1 DEF Good, Configs
<1>4. a \in Elections BY <1>1, NewElectionGood
<1> HIDE DEF s, a, e
<1>5. auth'[n].epoch = e /\ node'[n] = s BY <1>1, <1>2, <1>4 DEF GoodStates, Elections
<1>6. Leads(n)' BY <1>3, <1>5 DEF Leads
<1>7. \A k \in sent : ~k.primary
  <2>1. ~IsPrimary(s, n) BY <1>2, <1>3, ElectionAssumption DEF IsPrimary
  <2>2. \A m \in to : Message("AUTH_REQUEST", n, s, m, manual[n]).primary = IsPrimary(s, n)
    BY DEF Message
  <2> QED BY <2>1, <2>2
<1> HIDE DEF sent
<1>8. \A k \in msgs' : k.type = "AUTH_REQUEST" => ~k.primary
  BY <1>2, <1>7, ExchangeKeeps DEF Ahead
<1>9. \A r \in Replicas : Leads(r)'
  <2> TAKE r \in Replicas
  <2>1. CASE r # n
    <3>1. auth'[r] = auth[r] /\ node'[r] = node[r] BY <1>1, <1>2, <2>1 DEF GoodStates, Nodes
    <3>2. Leads(r) BY DEF Ahead
    <3> QED BY <3>1, <3>2 DEF Leads
  <2> QED BY <1>6, <2>1
<1>10. WinBeatsClaims' BY <1>2 DEF Ahead, WinBeatsClaims
<1> QED BY <1>8, <1>9, <1>10 DEF Ahead

\* The election that is won led until then.
LEMMA WinAhead ==
    ASSUME ElectionInv, Ahead, NEW n \in Replicas, WinElection(n)
    PROVE  Ahead'
<1> DEFINE w == [node |-> n, epoch |-> auth[n].epoch, from |-> auth[n].from,
                 owner |-> node[n].owner,
                 others |-> {node[n].configEpoch[m] : m \in Nodes \ {n, node[n].owner}}]
<1>1. GoodStates /\ n \in Nodes /\ node[n] \in Configs /\ auth[n] \in Elections
  BY DEF ElectionInv, GoodStates, Nodes
<1>2. /\ node' = [node EXCEPT ![n].configEpoch[n] = Max({@, auth[n].epoch}), ![n].owner = n]
      /\ auth' = [auth EXCEPT ![n].time = "none"]
      /\ wins' = wins \cup {w} /\ Exchange({}, {})
      /\ auth[n].time = "open" /\ auth[n].sent
  BY DEF WinElection
<1>3. \A e \in w.others : w.epoch > e
  <2>1. \A k \in Nodes \ {n, node[n].owner} :
            node[n].configEpoch[k] < auth[n].epoch /\ node[n].configEpoch[k] \in Nat
    BY <1>1, <1>2 DEF Ahead, Leads, Configs
  <2>2. auth[n].epoch \in Nat BY <1>1 DEF Elections
  <2> QED BY <2>1, <2>2
<1> HIDE DEF w
<1>4. WinBeatsClaims' BY <1>2, <1>3 DEF Ahead, WinBeatsClaims
<1>5. auth'[n].time = "none" BY <1>1, <1>2 DEF GoodStates, Elections
<1>6. \A r \in Replicas : Leads(r)'
  <2> TAKE r \in Replicas
  <2>1. CASE r = n BY <1>5, <2>1 DEF Leads
  <2>2. CASE r # n
    <3>1. auth'[r] = auth[r] /\ node'[r] = node[r]
      BY <1>1, <1>2, <2>2, Zenon DEF GoodStates, Nodes
    <3>2. Leads(r) BY DEF Ahead
    <3> QED BY <3>1, <3>2 DEF Leads
  <2> QED BY <2>1, <2>2
<1>7. \A k \in msgs' : k \in msgs BY <1>2, ExchangeKeeps, SMTT(30)
<1> QED BY <1>4, <1>6, <1>7 DEF Ahead

\* The steps that only end, schedule or forget elections, or that change what
\* no replica knows yet.
LEMMA LocalAhead ==
    ASSUME ElectionInv, Ahead,
           \/ \E n \in Nodes : SafeToJoin(n) \/ Restart(n)
           \/ \E n \in Voters : clusterBumpConfigEpochWithoutConsensus(n)
           \/ \E n \in Replicas : \/ ScheduleElection(n) \/ FailoverForce(n)
                                  \/ manualFailoverCheckTimeout(n) \/ SaveConfig(n)
    PROVE  Ahead'
<1>1. GoodStates /\ \A r \in Replicas : r \in Nodes /\ auth[r] \in Elections
  BY DEF ElectionInv, GoodStates, Nodes
<1>2. wins' = wins
  BY Zenon DEF SafeToJoin, Restart, clusterBumpConfigEpochWithoutConsensus, ScheduleElection,
         FailoverForce, manualFailoverCheckTimeout, SaveConfig
<1>3. \A k \in msgs' : k \in msgs
  <2>1. msgs' = msgs \/ \E arrived : Exchange(arrived, {})
    BY Zenon DEF SafeToJoin, Restart, clusterBumpConfigEpochWithoutConsensus, ScheduleElection,
           FailoverForce, manualFailoverCheckTimeout, SaveConfig
  <2> QED BY <2>1, ExchangeKeeps
<1>4. ASSUME NEW r \in Replicas
      PROVE  auth'[r].time = "open" /\ auth'[r].sent => auth'[r] = auth[r] /\ node'[r] = node[r]
  <2>1. ASSUME NEW n \in Nodes, Restart(n) PROVE <1>4!2
    <3>1. PICK s : node' = [node EXCEPT ![n] = s] BY <2>1, Zenon DEF Restart
    <3>2. auth' = IF n \in Replicas THEN [auth EXCEPT ![n] = NoElection] ELSE auth
      BY <2>1, Zenon DEF Restart
    <3>3. r = n => auth'[r] = NoElection BY <1>1, <3>2 DEF GoodStates
    <3>4. r # n => auth'[r] = auth[r] /\ node'[r] = node[r] BY <1>1, <3>1, <3>2 DEF GoodStates
    <3>5. NoElection.time = "none" BY DEF NoElection
    <3> QED BY <3>3, <3>4, <3>5, Zenon
  <2>2. ASSUME NEW n \in Voters, clusterBumpConfigEpochWithoutConsensus(n) PROVE <1>4!2
    <3>1. auth' = auth /\ \E s : node' = [node EXCEPT ![n] = s]
      BY <2>2, Zenon DEF clusterBumpConfigEpochWithoutConsensus, Become
    <3>2. r # n BY ElectionAssumption
    <3> QED BY <1>1, <3>1, <3>2 DEF GoodStates
  <2>3. ASSUME NEW n \in Replicas, ScheduleElection(n) PROVE <1>4!2
    <3>1. node' = node /\ auth' = [auth EXCEPT ![n] = NewElection(n)] BY <2>3 DEF ScheduleElection
    <3>2. ~NewElection(n).sent BY <1>1, NewElectionGood
    <3> QED BY <1>1, <3>1, <3>2 DEF GoodStates
  <2>4. ASSUME NEW n \in Replicas, FailoverForce(n) PROVE <1>4!2
    <3>1. node' = node /\ auth' = [auth EXCEPT ![n].time = "none"] BY <2>4 DEF FailoverForce
    <3> QED BY <1>1, <3>1 DEF GoodStates, Elections
  <2>5. CASE UNCHANGED <<node, auth>> BY <2>5
  <2> QED
    BY <2>1, <2>2, <2>3, <2>4, <2>5, Zenon DEF SafeToJoin, manualFailoverCheckTimeout, SaveConfig
<1> QED BY <1>2, <1>3, <1>4, AheadKept

\* Every step of the election keeps the running ones ahead.
LEMMA AheadStep ==
    ASSUME ElectionInv, Ahead, [ElectionNext]_electionVars
    PROVE  Ahead'
<1>1. CASE UNCHANGED electionVars BY <1>1, AheadKept DEF electionVars
<1>2. ASSUME NEW n \in Nodes, NEW m \in msgs, ReceiveUpdate(n, m) PROVE Ahead'
  <2>1. GoodMessage(m) BY DEF ElectionInv, GoodStates
  <2>2. Hear(n, m) /\ Exchange({m}, {}) /\ UNCHANGED <<votes, wins>> BY <1>2 DEF ReceiveUpdate
  <2> QED BY <2>1, <2>2, HearAhead
<1>3. ASSUME NEW n \in Nodes, NEW m \in msgs, clusterSendFailoverAuthIfNeeded(n, m) PROVE Ahead'
  BY <1>3, VoteAhead
<1>4. ASSUME NEW n \in Nodes, NEW from \in Nodes, ReceivePing(n, from) PROVE Ahead'
  <2> DEFINE m == Message("PING", from, disk[from], n, FALSE)
  <2>1. Good(disk[from]) BY DEF ElectionInv, GoodStates
  <2>2. GoodMessage(m) BY <2>1, MessageGood, Zenon DEF MessageTypes
  <2>3. Hear(n, m) /\ Exchange({}, {}) /\ UNCHANGED <<votes, wins>> BY <1>4, Zenon DEF ReceivePing
  <2> HIDE DEF m
  <2> QED BY <2>2, <2>3, HearAhead
<1>5. ASSUME NEW n \in Replicas, NEW m \in msgs, ReceiveAck(n, m) PROVE Ahead' BY <1>5, AckAhead
<1>6. ASSUME NEW n \in Replicas, RequestVotes(n) PROVE Ahead' BY <1>6, RequestAhead
<1>7. ASSUME NEW n \in Replicas, WinElection(n) PROVE Ahead' BY <1>7, WinAhead
<1>8. CASE \/ \E n \in Nodes : SafeToJoin(n) \/ Restart(n)
           \/ \E n \in Voters : clusterBumpConfigEpochWithoutConsensus(n)
           \/ \E n \in Replicas : \/ ScheduleElection(n) \/ FailoverForce(n)
                                  \/ manualFailoverCheckTimeout(n) \/ SaveConfig(n)
  BY <1>8, LocalAhead
<1> QED BY <1>1, <1>2, <1>3, <1>4, <1>5, <1>6, <1>7, <1>8, SMTT(30) DEF ElectionNext

\* WinBeatsClaims for any number of nodes, restarts, elections and epochs: the
\* epoch of a winner is greater than those it knows of the nodes other than the
\* owner it replaces.
THEOREM WinnersLead == ElectionSpec => []WinBeatsClaims
<1>1. ElectionInit => Ahead
  BY DEF ElectionInit, Ahead, Leads, NoElection, WinBeatsClaims
<1>2. ElectionInv /\ Ahead /\ [ElectionNext]_electionVars => Ahead' BY AheadStep
<1>3. Ahead => WinBeatsClaims BY DEF Ahead
<1> QED BY <1>1, <1>2, <1>3, ElectionInvariant, PTL DEF ElectionSpec
=============================================================================
