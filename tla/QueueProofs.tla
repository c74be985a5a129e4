---------------------------- MODULE QueueProofs ----------------------------
(***************************************************************************)
(* Proofs about the queue of vera_lockfree.h: for any number of producers  *)
(* and nodes, and one consumer, the list of the queue is whole and the     *)
(* queue implements a FIFO.                                                *)
(*                                                                         *)
(* The invariant behind both: the list holds each node once, from tail to  *)
(* head; a link that is missing in it is one that a thread is about to     *)
(* store, and a thread that is about to store a link has a gap to fill;    *)
(* and nodes on their way into the list, in it and out of it are different *)
(* ones.                                                                   *)
(***************************************************************************)
EXTENDS MPSCQueue, TLAPS

\* Inside mpsc_enqueue.
Enqueues(p) == at[p] \in {"clear", "exchange", "link"}

QueueTypes ==
    /\ head \in Links /\ tail \in Links
    /\ next \in [Links -> Links \cup {NULL}]
    /\ at \in [QueueThreads ->
                  {"idle", "clear", "exchange", "link", "load", "load2", "head", "reload"}]
    /\ node \in [QueueThreads -> Links \cup {NULL}]
    /\ prev \in [QueueThreads -> Links \cup {NULL}]
    /\ mine \in [Consumers -> Links \cup {NULL}]
    /\ nodes \in Seq(Links) /\ nodes # <<>>
    /\ taken \in [Consumers -> SUBSET Nodes]

\* Producers enqueue nodes, the consumer enqueues the stub; what the consumer
\* took for tail is tail, and not the stub once it has stepped over it.
Roles ==
    /\ \A p \in QueueThreads : ~Enqueues(p) => node[p] = NULL
    /\ \A p \in Producers : /\ at[p] = "idle" \/ Enqueues(p)
                            /\ Enqueues(p) => node[p] \in Nodes
    /\ \A c \in Consumers : /\ Enqueues(c) => node[c] = Stub
                            /\ at[c] # "idle" => mine[c] = tail
                            /\ at[c] \notin {"idle", "load"} => mine[c] # Stub

\* With the threads at l, some thread is about to link a and b.
Linking(l, u, w, a, b) == \E p \in QueueThreads : l[p] = "link" /\ u[p] = a /\ w[p] = b

\* The list, from tail to head.
Chain ==
    /\ IsInjective(nodes)
    /\ nodes[1] = tail /\ nodes[Len(nodes)] = head
    /\ next[head] = NULL
    /\ \A i \in 1 .. Len(nodes) - 1 :
           IF next[nodes[i]] = NULL THEN Linking(at, prev, node, nodes[i], nodes[i + 1])
                                    ELSE next[nodes[i]] = nodes[i + 1]

\* A link that is about to be stored is missing between two neighbours.
Gaps ==
    \A p \in QueueThreads : at[p] = "link" =>
        \E i \in 1 .. Len(nodes) - 1 :
            nodes[i] = prev[p] /\ nodes[i + 1] = node[p] /\ next[nodes[i]] = NULL

\* Nodes on their way into the list, in it and out of it are different ones.
Separate ==
    /\ \A p \in QueueThreads : at[p] \in {"clear", "exchange"} => node[p] \notin Range(nodes)
    /\ \A p \in QueueThreads : at[p] = "exchange" => next[node[p]] = NULL
    /\ \A p, q \in QueueThreads : p # q /\ node[p] # NULL => node[p] # node[q]
    /\ \A c \in Consumers : \A m \in taken[c] :
           m \notin Range(nodes) /\ \A p \in QueueThreads : node[p] # m

QueueInv == QueueTypes /\ Roles /\ Chain /\ Gaps /\ Separate

\* The queue of an engine worker, or of segcache if its shards take turns.
OneConsumer == \E c : Consumers = {c}

-----------------------------------------------------------------------------

\* A position of the list with a successor, and one without.
LEMMA Neighbours ==
    ASSUME NEW k \in Nat
    PROVE  /\ \A i \in 1 .. k - 1 : i \in 1 .. k /\ i + 1 \in 1 .. k /\ i # k
           /\ \A i \in 1 .. k : i # k => i \in 1 .. k - 1
           /\ \A i, j \in 1 .. k : i # j => i + 1 # j + 1
           /\ (k + 1) - 1 = k
  OBVIOUS

\* Tail, position by position.
LEMMA TailPositions ==
    ASSUME NEW S, NEW s \in Seq(S), s # <<>>
    PROVE  /\ Len(s) \in Nat \ {0} /\ DOMAIN s = 1 .. Len(s) /\ Head(s) = s[1]
           /\ Tail(s) \in Seq(S) /\ Len(Tail(s)) = Len(s) - 1
           /\ DOMAIN Tail(s) = 1 .. Len(s) - 1
           /\ \A i \in 1 .. Len(s) - 1 : Tail(s)[i] = s[i + 1]
  OBVIOUS

\* Append, position by position.
LEMMA AppendPositions ==
    ASSUME NEW S, NEW s \in Seq(S), NEW x \in S
    PROVE  /\ Len(s) \in Nat /\ DOMAIN s = 1 .. Len(s)
           /\ Append(s, x) \in Seq(S) /\ Append(s, x) # <<>>
           /\ Len(Append(s, x)) = Len(s) + 1
           /\ DOMAIN Append(s, x) = 1 .. Len(s) + 1
           /\ \A i \in 1 .. Len(s) : Append(s, x)[i] = s[i]
           /\ Append(s, x)[Len(s) + 1] = x
  OBVIOUS

\* The list is a sequence of at least one link.
LEMMA ListPositions ==
    ASSUME QueueTypes
    PROVE  /\ Len(nodes) \in Nat \ {0} /\ DOMAIN nodes = 1 .. Len(nodes)
           /\ \A i \in 1 .. Len(nodes) : nodes[i] \in Links
           /\ Range(nodes) = {nodes[i] : i \in 1 .. Len(nodes)}
  <1>1. nodes \in Seq(Links) /\ nodes # <<>>
    BY DEF QueueTypes
  <1>2. Len(nodes) \in Nat \ {0} /\ DOMAIN nodes = 1 .. Len(nodes)
    BY <1>1, TailPositions
  <1> QED
    BY <1>1, <1>2 DEF Range

\* A step that leaves the list and its links alone, and with it the threads
\* that have a link to store, leaves the list whole.
LEMMA ListKept ==
    ASSUME QueueInv, UNCHANGED listVars,
           \A p \in QueueThreads : (at[p] = "link") <=> (at'[p] = "link"),
           \A p \in QueueThreads : at[p] = "link" => prev'[p] = prev[p] /\ node'[p] = node[p]
    PROVE  Chain' /\ Gaps'
  <1>1. \A a, b : Linking(at, prev, node, a, b) => Linking(at', prev', node', a, b)
    BY DEF Linking
  <1>2. Chain'
    BY <1>1, Zenon DEF QueueInv, Chain, listVars
  <1>3. Gaps'
    BY DEF QueueInv, Gaps, listVars
  <1> QED
    BY <1>2, <1>3

\* A free node is in no list and in nobody's hands.
LEMMA FreeNode ==
    ASSUME NEW m \in FreeNodes
    PROVE  /\ m \in Nodes /\ m \notin Range(nodes)
           /\ \A c \in Consumers : m \notin taken[c]
           /\ \A q \in Producers : node[q] # m
  <1>1. /\ m \in Nodes /\ m \notin Range(nodes)
        /\ m \notin UNION {taken[c] : c \in Consumers}
        /\ m \notin {node[q] : q \in Producers}
    BY DEF FreeNodes
  <1>2. ASSUME NEW c \in Consumers
        PROVE  m \notin taken[c]
    <2>1. taken[c] \in {taken[d] : d \in Consumers}
      OBVIOUS
    <2> QED
      BY <2>1, <1>1
  <1>3. ASSUME NEW q \in Producers
        PROVE  node[q] # m
    BY <1>1
  <1> QED
    BY <1>1, <1>2, <1>3

\* mpsc_enqueue is called with a node nobody uses.
LEMMA EnqueueKeeps ==
    ASSUME QueueInv, OneConsumer, NEW p \in Producers, enqueue(p)
    PROVE  QueueInv'
  <1>0. QueueTypes /\ Roles /\ Chain /\ Gaps /\ Separate
    BY DEF QueueInv
  <1> USE <1>0
  <1>1. PICK m \in FreeNodes : node' = [node EXCEPT ![p] = m]
    BY Zenon DEF enqueue
  <1>2. /\ at[p] = "idle" /\ at' = [at EXCEPT ![p] = "clear"]
        /\ UNCHANGED <<head, tail, next, nodes, prev, mine, taken, last>>
    BY DEF enqueue, Proceed, listVars, ghostVars
  <1>3. p \in QueueThreads /\ p \notin Consumers
    BY QueueAssumption DEF QueueThreads
  <1>4. m \in Nodes /\ m \notin Range(nodes) /\ m # Stub /\ m # NULL
    BY FreeNode, QueueAssumption
  <1>5. \A c \in Consumers : m \notin taken[c]
    BY FreeNode
  <1>6. \A q \in QueueThreads : node[q] # m
    <2>1. \A q \in Producers : node[q] # m
      BY FreeNode
    <2>2. \A c \in Consumers : node[c] = Stub \/ node[c] = NULL
      BY DEF Roles, QueueThreads
    <2> QED
      BY <2>1, <2>2, <1>4 DEF QueueThreads
  <1>7. QueueTypes'
    BY <1>1, <1>2, <1>3, <1>4 DEF QueueTypes, Links
  <1>8. Roles'
    BY <1>1, <1>2, <1>3, <1>4 DEF QueueTypes, Roles, Enqueues, QueueThreads
  <1>9. Chain' /\ Gaps'
    BY <1>1, <1>2, <1>3, ListKept DEF QueueTypes, listVars
  <1>10. Separate'
    BY <1>1, <1>2, <1>3, <1>4, <1>5, <1>6 DEF QueueTypes, Separate
  <1> QED
    BY <1>7, <1>8, <1>9, <1>10 DEF QueueInv

\* The store that clears the link of a node on its way in.
LEMMA ClearKeeps ==
    ASSUME QueueInv, NEW p \in QueueThreads, clear_next(p)
    PROVE  QueueInv'
  <1>0. QueueTypes /\ Roles /\ Chain /\ Gaps /\ Separate
    BY DEF QueueInv
  <1> USE <1>0
  <1>1. /\ at[p] = "clear" /\ at' = [at EXCEPT ![p] = "exchange"]
        /\ next' = [next EXCEPT ![node[p]] = NULL]
        /\ UNCHANGED <<head, tail, nodes, node, prev, mine, taken, last>>
    BY DEF clear_next, Proceed, localVars, ghostVars
  <1>2. node[p] \in Links /\ node[p] # NULL /\ node[p] \notin Range(nodes)
    <2>1. Enqueues(p)
      BY <1>1 DEF Enqueues
    <2> QED
      BY <2>1, <1>1, QueueAssumption DEF Roles, Separate, QueueThreads, Links
  <1>3. \A i \in 1 .. Len(nodes) : next'[nodes[i]] = next[nodes[i]]
    BY <1>1, <1>2, ListPositions DEF QueueTypes
  <1>4. QueueTypes'
    BY <1>1, <1>2 DEF QueueTypes
  <1>5. Roles'
    BY <1>1 DEF QueueTypes, Roles, Enqueues, QueueThreads
  <1>6. \A a, b : Linking(at', prev', node', a, b) <=> Linking(at, prev, node, a, b)
    BY <1>1 DEF Linking, QueueTypes
  <1>7. Chain'
    <2>1. next'[head] = NULL
      BY <1>3, ListPositions DEF Chain
    <2>2. ASSUME NEW i \in 1 .. Len(nodes) - 1
          PROVE  next'[nodes[i]] = next[nodes[i]]
      BY <1>3, ListPositions
    <2>3. ASSUME NEW i \in 1 .. Len(nodes) - 1
          PROVE  IF next'[nodes[i]] = NULL
                 THEN Linking(at', prev', node', nodes[i], nodes[i + 1])
                 ELSE next'[nodes[i]] = nodes[i + 1]
      BY <2>2, <1>6 DEF Chain
    <2> QED
      BY <2>1, <2>3, <1>1, Zenon DEF Chain
  <1>8. Gaps'
    <2>1. ASSUME NEW q \in QueueThreads, at'[q] = "link"
          PROVE  at[q] = "link"
      BY <2>1, <1>1 DEF QueueTypes
    <2>2. ASSUME NEW i \in 1 .. Len(nodes) - 1
          PROVE  next'[nodes[i]] = next[nodes[i]]
      BY <1>3, ListPositions
    <2> QED
      BY <2>1, <2>2, <1>1 DEF Gaps
  <1>9. Separate'
    <2>1. ASSUME NEW q \in QueueThreads, at'[q] = "exchange"
          PROVE  next'[node'[q]] = NULL
      BY <2>1, <1>1, <1>2 DEF QueueTypes, Separate
    <2>2. ASSUME NEW q \in QueueThreads, at'[q] \in {"clear", "exchange"}
          PROVE  node'[q] \notin Range(nodes')
      BY <2>2, <1>1, <1>2 DEF QueueTypes, Separate
    <2> QED
      BY <2>1, <2>2, <1>1 DEF Separate
  <1> QED
    BY <1>4, <1>5, <1>7, <1>8, <1>9 DEF QueueInv

\* The exchange of head: the node is the last one of the list, and the link to
\* it is missing.
LEMMA ExchangeKeeps ==
    ASSUME QueueInv, NEW p \in QueueThreads, exchange_head(p)
    PROVE  QueueInv'
  <1>0. QueueTypes /\ Roles /\ Chain /\ Gaps /\ Separate
    BY DEF QueueInv
  <1> USE <1>0
  <1> DEFINE n == node[p]
  <1> DEFINE k == Len(nodes)
  <1>1. /\ at[p] = "exchange" /\ at' = [at EXCEPT ![p] = "link"]
        /\ prev' = [prev EXCEPT ![p] = head]
        /\ head' = n /\ nodes' = Append(nodes, n)
        /\ UNCHANGED <<tail, next, node, mine, taken, last>>
    BY DEF exchange_head, Proceed, ghostVars
  <1>2. n \in Links /\ n # NULL /\ n \notin Range(nodes) /\ next[n] = NULL
    <2>1. Enqueues(p)
      BY <1>1 DEF Enqueues
    <2> QED
      BY <2>1, <1>1, QueueAssumption DEF Roles, Separate, QueueThreads, Links
  <1>3. /\ k \in Nat \ {0} /\ DOMAIN nodes = 1 .. k
        /\ \A i \in 1 .. k : nodes[i] \in Links /\ nodes[i] # n
        /\ nodes' \in Seq(Links) /\ nodes' # <<>> /\ Len(nodes') = k + 1
        /\ DOMAIN nodes' = 1 .. k + 1
        /\ \A i \in 1 .. k : nodes'[i] = nodes[i]
        /\ nodes'[k + 1] = n
    <2>1. nodes \in Seq(Links)
      BY DEF QueueTypes
    <2>2. \A i \in 1 .. k : nodes[i] \in Range(nodes)
      BY ListPositions
    <2> HIDE DEF n
    <2> QED
      BY <2>1, <2>2, <1>1, <1>2, ListPositions, AppendPositions
  <1>4. nodes[1] = tail /\ nodes[k] = head /\ next[head] = NULL
    BY DEF Chain
  <1>5. Range(nodes') = Range(nodes) \cup {n}
    BY <1>3 DEF Range
  <1>6. QueueTypes'
    BY <1>1, <1>2, <1>3 DEF QueueTypes
  <1>7. Roles'
    BY <1>1 DEF QueueTypes, Roles, Enqueues, QueueThreads
  <1>8. \A a, b : Linking(at, prev, node, a, b) => Linking(at', prev', node', a, b)
    BY <1>1 DEF Linking, QueueTypes
  <1>9. Linking(at', prev', node', head, n)
    BY <1>1 DEF Linking, QueueTypes
  <1>10. Chain'
    <2>1. IsInjective(nodes')
      BY <1>3 DEF Chain, IsInjective
    <2>2. ASSUME NEW i \in 1 .. k
          PROVE  IF next'[nodes'[i]] = NULL THEN Linking(at', prev', node', nodes'[i], nodes'[i + 1])
                                            ELSE next'[nodes'[i]] = nodes'[i + 1]
      <3>1. CASE i = k
        BY <3>1, <1>1, <1>3, <1>4, <1>9
      <3>2. CASE i # k
        <4>1. i \in 1 .. k - 1 /\ i + 1 \in 1 .. k
          BY <3>2, <1>3, Neighbours, Zenon
        <4> QED
          BY <4>1, <1>1, <1>3, <1>8, ZenonT(30) DEF Chain
      <3> QED
        BY <3>1, <3>2
    <2>3. nodes'[1] = tail' /\ nodes'[Len(nodes')] = head' /\ next'[head'] = NULL
      BY <1>1, <1>2, <1>3, <1>4
    <2>4. 1 .. Len(nodes') - 1 = 1 .. k
      BY <1>3
    <2> QED
      BY <2>1, <2>2, <2>3, <2>4, Zenon DEF Chain
  <1>11. Gaps'
    <2> SUFFICES ASSUME NEW q \in QueueThreads, at'[q] = "link"
                 PROVE  \E i \in 1 .. Len(nodes') - 1 :
                            /\ nodes'[i] = prev'[q] /\ nodes'[i + 1] = node'[q]
                            /\ next'[nodes'[i]] = NULL
      BY DEF Gaps
    <2>1. CASE q = p
      <3>1. k \in 1 .. Len(nodes') - 1
        BY <1>3
      <3>2. prev'[q] = head /\ node'[q] = n
        BY <2>1, <1>1 DEF QueueTypes
      <3>3. k \in 1 .. k
        BY <1>3
      <3>4. nodes'[k] = prev'[q] /\ nodes'[k + 1] = node'[q] /\ next'[nodes'[k]] = NULL
        BY <3>2, <3>3, <1>1, <1>3, <1>4
      <3> QED
        BY <3>1, <3>4
    <2>2. CASE q # p
      <3>1. at[q] = "link" /\ prev'[q] = prev[q] /\ node'[q] = node[q]
        BY <2>2, <1>1 DEF QueueTypes
      <3>2. PICK i \in 1 .. k - 1 : nodes[i] = prev[q] /\ nodes[i + 1] = node[q] /\ next[nodes[i]] = NULL
        BY <3>1 DEF Gaps
      <3>3. i \in 1 .. k /\ i + 1 \in 1 .. k /\ i \in 1 .. Len(nodes') - 1
        BY <1>3
      <3> QED
        BY <3>1, <3>2, <3>3, <1>1, <1>3
    <2> QED
      BY <2>1, <2>2
  <1>12. Separate'
    <2>1. ASSUME NEW q \in QueueThreads, at'[q] \in {"clear", "exchange"}
          PROVE  node'[q] \notin Range(nodes')
      <3>1. q # p /\ at[q] = at'[q]
        BY <2>1, <1>1 DEF QueueTypes
      <3> QED
        BY <2>1, <3>1, <1>1, <1>2, <1>5 DEF Separate
    <2>2. ASSUME NEW q \in QueueThreads, at'[q] = "exchange"
          PROVE  next'[node'[q]] = NULL
      BY <2>2, <1>1 DEF QueueTypes, Separate
    <2>3. ASSUME NEW c \in Consumers, NEW m \in taken[c]
          PROVE  m \notin Range(nodes') /\ \A q \in QueueThreads : node[q] # m
      BY <1>5 DEF Separate
    <2> QED
      BY <2>1, <2>2, <2>3, <1>1 DEF Separate
  <1> QED
    BY <1>6, <1>7, <1>10, <1>11, <1>12 DEF QueueInv

\* The store of the missing link.
LEMMA LinkKeeps ==
    ASSUME QueueInv, NEW p \in QueueThreads, link_prev(p)
    PROVE  QueueInv'
  <1>0. QueueTypes /\ Roles /\ Chain /\ Gaps /\ Separate
    BY DEF QueueInv
  <1> USE <1>0
  <1> DEFINE k == Len(nodes)
  <1>1. /\ at[p] = "link"
        /\ at' = [at EXCEPT ![p] = IF p \in Consumers THEN "reload" ELSE "idle"]
        /\ next' = [next EXCEPT ![prev[p]] = node[p]]
        /\ node' = [node EXCEPT ![p] = NULL]
        /\ prev' = [prev EXCEPT ![p] = NULL]
        /\ UNCHANGED <<head, tail, nodes, mine, taken, last>>
    BY DEF link_prev, Proceed, ghostVars
  <1>2. PICK i \in 1 .. k - 1 : nodes[i] = prev[p] /\ nodes[i + 1] = node[p] /\ next[nodes[i]] = NULL
    BY <1>1 DEF Gaps
  <1>3. /\ k \in Nat \ {0} /\ i \in 1 .. k /\ i + 1 \in 1 .. k /\ i # k
        /\ \A j \in 1 .. k : nodes[j] \in Links
        /\ \A j \in 1 .. k : nodes[j] = nodes[i] => j = i
    <2>1. k \in Nat \ {0} /\ DOMAIN nodes = 1 .. k /\ \A j \in 1 .. k : nodes[j] \in Links
      BY ListPositions
    <2>2. i \in 1 .. k /\ i + 1 \in 1 .. k /\ i # k
      BY <2>1, Neighbours, Zenon
    <2> QED
      BY <2>1, <2>2, Zenon DEF Chain, IsInjective
  <1>4. node[p] \in Links /\ node[p] # NULL /\ prev[p] \in Links
    BY <1>2, <1>3, QueueAssumption DEF Links
  <1>5. /\ next'[nodes[i]] = nodes[i + 1]
        /\ \A m \in Links : m # nodes[i] => next'[m] = next[m]
    BY <1>1, <1>2, <1>3 DEF QueueTypes
  <1>6. QueueTypes'
    BY <1>1, <1>4 DEF QueueTypes
  <1>7. Roles'
    BY <1>1, QueueAssumption DEF QueueTypes, Roles, Enqueues, QueueThreads
  <1>8. \A a, b : Linking(at, prev, node, a, b) /\ b # node[p] => Linking(at', prev', node', a, b)
    BY <1>1 DEF Linking, QueueTypes
  <1>9. Chain'
    <2>1. next'[head] = NULL
      <3>1. head = nodes[k] /\ k \in 1 .. k /\ next[head] = NULL
        BY <1>3 DEF Chain
      <3> QED
        BY <3>1, <1>3, <1>5
    <2>2. ASSUME NEW j \in 1 .. k - 1
          PROVE  IF next'[nodes[j]] = NULL THEN Linking(at', prev', node', nodes[j], nodes[j + 1])
                                           ELSE next'[nodes[j]] = nodes[j + 1]
      <3>1. CASE j = i
        BY <3>1, <1>2, <1>4, <1>5
      <3>2. CASE j # i
        <4>1. j \in 1 .. k /\ j + 1 \in 1 .. k /\ j + 1 # i + 1
          BY <3>2, <1>3
        <4>2. nodes[j + 1] # node[p]
          BY <4>1, <1>2, <1>3, ListPositions, ZenonT(30) DEF Chain, IsInjective
        <4>3. next'[nodes[j]] = next[nodes[j]]
          BY <4>1, <3>2, <1>3, <1>5
        <4> QED
          BY <4>2, <4>3, <1>8 DEF Chain
      <3> QED
        BY <3>1, <3>2
    <2> QED
      BY <2>1, <2>2, <1>1, ZenonT(30) DEF Chain
  <1>10. Gaps'
    <2> SUFFICES ASSUME NEW q \in QueueThreads, at'[q] = "link"
                 PROVE  \E j \in 1 .. Len(nodes') - 1 :
                            /\ nodes'[j] = prev'[q] /\ nodes'[j + 1] = node'[q]
                            /\ next'[nodes'[j]] = NULL
      BY DEF Gaps
    <2>1. q # p /\ at[q] = "link" /\ prev'[q] = prev[q] /\ node'[q] = node[q]
      BY <1>1 DEF QueueTypes
    <2>2. PICK j \in 1 .. k - 1 : nodes[j] = prev[q] /\ nodes[j + 1] = node[q] /\ next[nodes[j]] = NULL
      BY <2>1 DEF Gaps
    <2>3. node[q] # node[p]
      BY <2>1, <1>4 DEF Separate
    <2>4. j # i /\ j \in 1 .. k
      BY <2>2, <2>3, <1>2, <1>3
    <2>5. next'[nodes[j]] = NULL
      BY <2>2, <2>4, <1>3, <1>5
    <2> QED
      BY <2>1, <2>2, <2>5, <1>1
  <1>11. Separate'
    <2>1. ASSUME NEW q \in QueueThreads, at'[q] \in {"clear", "exchange"}
          PROVE  q # p /\ at[q] = at'[q] /\ node'[q] = node[q]
      BY <2>1, <1>1 DEF QueueTypes
    <2>2. ASSUME NEW q \in QueueThreads, at'[q] = "exchange"
          PROVE  next'[node'[q]] = NULL
      <3>1. at[q] = "exchange" /\ node'[q] = node[q]
        BY <2>1, <2>2
      <3>2. node[q] \notin Range(nodes) /\ next[node[q]] = NULL /\ node[q] \in Links
        <4>1. Enqueues(q)
          BY <3>1 DEF Enqueues
        <4> QED
          BY <4>1, <3>1 DEF Separate, Roles, QueueThreads, Links
      <3>3. nodes[i] \in Range(nodes)
        BY <1>3, ListPositions
      <3> QED
        BY <3>1, <3>2, <3>3, <1>5
    <2>3. ASSUME NEW q \in QueueThreads, NEW r \in QueueThreads, q # r, node'[q] # NULL
          PROVE  node'[q] # node'[r]
      BY <2>3, <1>1 DEF QueueTypes, Separate
    <2>4. ASSUME NEW c \in Consumers, NEW m \in taken[c]
          PROVE  m \notin Range(nodes) /\ \A q \in QueueThreads : node'[q] # m
      <3>1. m # NULL
        BY QueueAssumption DEF QueueTypes
      <3> QED
        BY <3>1, <1>1 DEF Separate, QueueTypes
    <2> QED
      BY <2>1, <2>2, <2>3, <2>4, <1>1 DEF Separate
  <1> QED
    BY <1>6, <1>7, <1>9, <1>10, <1>11 DEF QueueInv

-----------------------------------------------------------------------------

\* A step of mpsc_dequeue that stores nothing.
LEMMA LookKeeps ==
    ASSUME QueueInv, OneConsumer, NEW c \in Consumers, ~Enqueues(c),
           NEW l \in {"idle", "load", "head"}, at' = [at EXCEPT ![c] = l],
           UNCHANGED <<head, tail, next, nodes, node, prev, taken>>,
           mine' \in [Consumers -> Links \cup {NULL}],
           l # "idle" => mine'[c] = tail,
           l = "head" => mine'[c] # Stub
    PROVE  QueueInv'
  <1>0. QueueTypes /\ Roles /\ Chain /\ Gaps /\ Separate
    BY DEF QueueInv
  <1> USE <1>0
  <1>1. Consumers = {c} /\ c \in QueueThreads /\ c \notin Producers
    BY QueueAssumption DEF OneConsumer, QueueThreads
  <1>2. /\ at'[c] = l /\ l \notin {"clear", "exchange", "link"}
        /\ at[c] \notin {"clear", "exchange", "link"}
        /\ \A q \in QueueThreads : q # c => at'[q] = at[q]
    BY <1>1 DEF QueueTypes, Enqueues
  <1>3. QueueTypes'
    BY <1>1 DEF QueueTypes
  <1>4. Roles'
    BY <1>1, <1>2 DEF Roles, Enqueues, QueueThreads
  <1>5. Chain' /\ Gaps'
    BY <1>2, ListKept DEF listVars
  <1>6. Separate'
    BY <1>2 DEF Separate
  <1> QED
    BY <1>3, <1>4, <1>5, <1>6 DEF QueueInv

\* The consumer gives a node back.
LEMMA GiveBackKeeps ==
    ASSUME QueueInv, NEW c \in Consumers, give_back(c)
    PROVE  QueueInv'
  <1>0. QueueTypes /\ Roles /\ Chain /\ Gaps /\ Separate
    BY DEF QueueInv
  <1> USE <1>0
  <1>1. /\ UNCHANGED <<head, tail, next, nodes, at, node, prev, mine>>
        /\ \E m \in taken[c] : taken' = [taken EXCEPT ![c] = @ \ {m}]
    BY Zenon DEF give_back, listVars, localVars
  <1>2. /\ taken' \in [Consumers -> SUBSET Nodes]
        /\ \A d \in Consumers : taken'[d] \subseteq taken[d]
    BY <1>1 DEF QueueTypes
  <1>3. QueueTypes'
    BY <1>1, <1>2 DEF QueueTypes
  <1>4. Roles'
    BY <1>1 DEF Roles, Enqueues
  <1>5. Chain' /\ Gaps'
    BY <1>1, ListKept DEF listVars
  <1>6. Separate'
    BY <1>1, <1>2 DEF Separate
  <1> QED
    BY <1>3, <1>4, <1>5, <1>6 DEF QueueInv

\* The consumer puts the stub back when its tail is the head: then the list is
\* that one node, and the stub is in it no more.
LEMMA PutBackKeeps ==
    ASSUME QueueInv, OneConsumer, NEW c \in Consumers, at[c] = "head", mine[c] = head,
           node' = [node EXCEPT ![c] = Stub], at' = [at EXCEPT ![c] = "clear"],
           UNCHANGED <<head, tail, next, nodes, prev, mine, taken>>
    PROVE  QueueInv'
  <1>0. QueueTypes /\ Roles /\ Chain /\ Gaps /\ Separate
    BY DEF QueueInv
  <1> USE <1>0
  <1>1. Consumers = {c} /\ c \in QueueThreads /\ c \notin Producers
    BY QueueAssumption DEF OneConsumer, QueueThreads
  <1>2. mine[c] = tail /\ mine[c] # Stub
    BY DEF Roles
  <1>3. Range(nodes) = {tail}
    <2>1. /\ Len(nodes) \in Nat \ {0} /\ DOMAIN nodes = 1 .. Len(nodes)
          /\ Range(nodes) = {nodes[i] : i \in 1 .. Len(nodes)}
      BY ListPositions
    <2>2. 1 \in 1 .. Len(nodes) /\ Len(nodes) \in 1 .. Len(nodes)
      BY <2>1
    <2>3. nodes[1] = nodes[Len(nodes)] /\ nodes[1] = tail
      BY <1>2 DEF Chain
    <2>4. 1 = Len(nodes)
      <3>1. \A i, j \in 1 .. Len(nodes) : nodes[i] = nodes[j] => i = j
        BY <2>1 DEF Chain, IsInjective
      <3> QED
        BY <2>2, <2>3, <3>1, Zenon
    <2>5. \A i \in 1 .. Len(nodes) : i = 1
      <3>1. \A i \in 1 .. 1 : i = 1
        OBVIOUS
      <3> QED
        BY <2>4, <3>1, Zenon
    <2> QED
      BY <2>1, <2>2, <2>3, <2>5
  <1>4. Stub \in Links /\ Stub # NULL /\ Stub \notin Nodes
    BY QueueAssumption DEF Links
  <1>5. /\ at'[c] = "clear" /\ node'[c] = Stub
        /\ \A q \in QueueThreads : q # c => at'[q] = at[q] /\ node'[q] = node[q]
    BY <1>1 DEF QueueTypes
  <1>6. \A q \in QueueThreads : q # c => node[q] # Stub
    BY <1>1, <1>4 DEF Roles, QueueThreads
  <1>7. QueueTypes'
    BY <1>1, <1>4 DEF QueueTypes
  <1>8. Roles'
    BY <1>1, <1>2, <1>5 DEF Roles, Enqueues, QueueThreads
  <1>9. Chain' /\ Gaps'
    BY <1>5, ListKept DEF listVars
  <1>10. Separate'
    <2>1. ASSUME NEW q \in QueueThreads, at'[q] \in {"clear", "exchange"}
          PROVE  node'[q] \notin Range(nodes)
      BY <2>1, <1>2, <1>3, <1>5 DEF Separate
    <2>2. ASSUME NEW q \in QueueThreads, at'[q] = "exchange"
          PROVE  next[node'[q]] = NULL
      BY <2>2, <1>5 DEF Separate
    <2>3. ASSUME NEW q \in QueueThreads, NEW r \in QueueThreads, q # r, node'[q] # NULL
          PROVE  node'[q] # node'[r]
      BY <2>3, <1>5, <1>6 DEF Separate
    <2>4. ASSUME NEW d \in Consumers, NEW m \in taken[d]
          PROVE  m \notin Range(nodes) /\ \A q \in QueueThreads : node'[q] # m
      <3>1. m # Stub
        BY <1>4 DEF QueueTypes
      <3> QED
        BY <3>1, <1>5 DEF Separate
    <2> QED
      BY <2>1, <2>2, <2>3, <2>4 DEF Separate
  <1> QED
    BY <1>7, <1>8, <1>9, <1>10 DEF QueueInv

\* The consumer moves q->tail to the successor: the list loses its first node,
\* which is not a node on its way in.
LEMMA TailMoves ==
    ASSUME QueueInv, NEW c \in Consumers, ~Enqueues(c), next[tail] # NULL,
           tail' = next[tail], nodes' = Tail(nodes), UNCHANGED <<head, next, node, prev>>,
           NEW l \in {"idle", "load2"}, at' = [at EXCEPT ![c] = l]
    PROVE  /\ Chain' /\ Gaps'
           /\ nodes' \in Seq(Links) /\ nodes' # <<>> /\ tail' \in Links /\ tail' # tail
           /\ Range(nodes') \subseteq Range(nodes) /\ tail \notin Range(nodes')
           /\ \A q \in QueueThreads : node[q] # tail
  <1>0. QueueTypes /\ Roles /\ Chain /\ Gaps /\ Separate
    BY DEF QueueInv
  <1> USE <1>0
  <1> DEFINE k == Len(nodes)
  <1>1. /\ k \in Nat \ {0} /\ DOMAIN nodes = 1 .. k
        /\ \A i \in 1 .. k : nodes[i] \in Links
        /\ Range(nodes) = {nodes[i] : i \in 1 .. k}
    BY ListPositions
  <1>2. nodes[1] = tail /\ nodes[k] = head /\ next[head] = NULL
    BY DEF Chain
  <1>3. \A i, j \in 1 .. k : nodes[i] = nodes[j] => i = j
    BY <1>1 DEF Chain, IsInjective
  <1>4. k # 1
    BY <1>2
  <1>5. 1 \in 1 .. k - 1 /\ 2 \in 1 .. k /\ k - 1 \in Nat \ {0} /\ k - 1 \in 1 .. k - 1
    BY <1>1, <1>4
  <1>6. tail' = nodes[2]
    <2>1. nodes[1 + 1] = nodes[2]
      OBVIOUS
    <2> QED
      BY <2>1, <1>2, <1>5 DEF Chain
  <1>7. /\ nodes' \in Seq(Links) /\ Len(nodes') = k - 1 /\ DOMAIN nodes' = 1 .. k - 1
        /\ \A i \in 1 .. k - 1 : nodes'[i] = nodes[i + 1]
    <2>1. nodes \in Seq(Links) /\ nodes # <<>>
      BY DEF QueueTypes
    <2> QED
      BY <2>1, TailPositions
  <1>8. nodes' # <<>>
    BY <1>5, <1>7, Zenon
  <1>9. \A i \in 1 .. k - 1 : i \in 1 .. k /\ i + 1 \in 1 .. k /\ i + 1 # 1
    BY <1>1
  <1>10. Range(nodes') = {nodes[i + 1] : i \in 1 .. k - 1}
    BY <1>7, Zenon DEF Range
  <1>11. Range(nodes') \subseteq Range(nodes) /\ tail \notin Range(nodes')
    <2>1. ASSUME NEW i \in 1 .. k - 1
          PROVE  nodes[i + 1] \in Range(nodes) /\ nodes[i + 1] # tail
      <3>1. 1 \in 1 .. k /\ i + 1 \in 1 .. k /\ i + 1 # 1
        BY <1>5, <1>9
      <3> QED
        BY <3>1, <1>1, <1>2, <1>3
    <2> QED
      BY <2>1, <1>10
  <1>12. tail' \in Links /\ tail' # tail
    BY <1>1, <1>2, <1>3, <1>5, <1>6, <1>9
  <1>13. \A q \in QueueThreads : (at[q] = "link") <=> (at'[q] = "link")
    BY DEF QueueTypes, Enqueues, QueueThreads
  <1>14. \A a, b : Linking(at, prev, node, a, b) => Linking(at', prev', node', a, b)
    BY <1>13 DEF Linking
  <1>15. IsInjective(nodes')
    <2>1. ASSUME NEW i \in 1 .. k - 1, NEW j \in 1 .. k - 1, nodes'[i] = nodes'[j]
          PROVE  i = j
      <3>1. nodes[i + 1] = nodes[j + 1]
        BY <2>1, <1>7
      <3>2. i + 1 = j + 1
        BY <3>1, <1>3, <1>9
      <3> QED
        BY <3>2
    <2> QED
      BY <2>1, <1>7, Zenon DEF IsInjective
  <1>16. Chain'
    <2>1. nodes'[1] = tail' /\ nodes'[Len(nodes')] = head' /\ next'[head'] = NULL
      <3>1. nodes'[1] = nodes[1 + 1] /\ nodes'[k - 1] = nodes[(k - 1) + 1]
        BY <1>5, <1>7
      <3>2. 1 + 1 = 2 /\ (k - 1) + 1 = k
        BY <1>1
      <3> QED
        BY <3>1, <3>2, <1>2, <1>6, <1>7, Zenon
    <2>2. ASSUME NEW i \in 1 .. (k - 1) - 1
          PROVE  IF next[nodes'[i]] = NULL THEN Linking(at', prev', node', nodes'[i], nodes'[i + 1])
                                           ELSE next[nodes'[i]] = nodes'[i + 1]
      <3>1. i \in 1 .. k - 1 /\ i + 1 \in 1 .. k - 1
        BY <1>1
      <3>2. nodes'[i] = nodes[i + 1] /\ nodes'[i + 1] = nodes[(i + 1) + 1]
        BY <3>1, <1>7
      <3> QED
        BY <3>1, <3>2, <1>14, Zenon DEF Chain
    <2> QED
      BY <2>1, <2>2, <1>7, <1>15, Zenon DEF Chain
  <1>17. Gaps'
    <2> SUFFICES ASSUME NEW q \in QueueThreads, at'[q] = "link"
                 PROVE  \E j \in 1 .. Len(nodes') - 1 :
                            /\ nodes'[j] = prev'[q] /\ nodes'[j + 1] = node'[q]
                            /\ next'[nodes'[j]] = NULL
      BY DEF Gaps
    <2>1. at[q] = "link"
      BY <1>13
    <2>2. PICK j \in 1 .. k - 1 : nodes[j] = prev[q] /\ nodes[j + 1] = node[q] /\ next[nodes[j]] = NULL
      BY <2>1 DEF Gaps
    <2>3. j # 1
      BY <2>2, <1>2
    <2>4. j - 1 \in 1 .. (k - 1) - 1 /\ j - 1 \in 1 .. k - 1 /\ (j - 1) + 1 = j
      BY <2>3, <1>1
    <2>5. nodes'[j - 1] = nodes[j] /\ nodes'[(j - 1) + 1] = nodes[j + 1]
      BY <2>4, <1>7
    <2>6. j - 1 \in 1 .. Len(nodes') - 1
      BY <2>4, <1>7
    <2> QED
      BY <2>2, <2>5, <2>6
  <1>18. \A q \in QueueThreads : node[q] # tail
    <2> SUFFICES ASSUME NEW q \in QueueThreads, node[q] = tail
                 PROVE  FALSE
      OBVIOUS
    <2>1. tail \in Range(nodes) /\ tail # NULL
      <3>1. 1 \in 1 .. k
        BY <1>1
      <3> QED
        BY <3>1, <1>1, <1>2, QueueAssumption DEF QueueTypes, Links
    <2>2. Enqueues(q)
      BY <2>1 DEF Roles
    <2>3. at[q] = "link"
      BY <2>1, <2>2 DEF Separate, Enqueues
    <2>4. PICK j \in 1 .. k - 1 : nodes[j + 1] = node[q]
      BY <2>3, Zenon DEF Gaps
    <2>5. 1 \in 1 .. k /\ j + 1 \in 1 .. k /\ j + 1 # 1
      BY <1>1, <1>9
    <2> QED
      BY <2>4, <2>5, <1>2, <1>3
  <1> QED
    BY <1>7, <1>8, <1>11, <1>12, <1>16, <1>17, <1>18

\* mpsc_dequeue returns the first node of the list.
LEMMA ReturnKeeps ==
    ASSUME QueueInv, OneConsumer, NEW c \in Consumers, ~Enqueues(c), at[c] # "idle",
           mine[c] # Stub, next[mine[c]] # NULL, ReturnNode(c, mine[c], next[mine[c]]),
           UNCHANGED <<head, next, localVars>>
    PROVE  QueueInv'
  <1>0. QueueTypes /\ Roles /\ Chain /\ Gaps /\ Separate
    BY DEF QueueInv
  <1> USE <1>0
  <1>1. Consumers = {c} /\ c \in QueueThreads /\ c \notin Producers
    BY QueueAssumption DEF OneConsumer, QueueThreads
  <1>2. mine[c] = tail
    BY DEF Roles
  <1>3. /\ tail' = next[tail] /\ nodes' = Tail(nodes)
        /\ taken' = [taken EXCEPT ![c] = @ \cup {tail}]
        /\ at' = [at EXCEPT ![c] = "idle"]
        /\ UNCHANGED <<head, next, node, prev, mine>>
    BY <1>2 DEF ReturnNode, Proceed, localVars
  <1>4. /\ Chain' /\ Gaps'
        /\ nodes' \in Seq(Links) /\ nodes' # <<>> /\ tail' \in Links
        /\ Range(nodes') \subseteq Range(nodes) /\ tail \notin Range(nodes')
        /\ \A q \in QueueThreads : node[q] # tail
    BY <1>2, <1>3, TailMoves, Zenon
  <1>5. /\ at'[c] = "idle" /\ at[c] \notin {"clear", "exchange", "link"}
        /\ \A q \in QueueThreads : q # c => at'[q] = at[q]
    BY <1>1, <1>3 DEF QueueTypes, Enqueues
  <1>6. tail \in Nodes
    BY <1>2 DEF QueueTypes, Links
  <1>7. QueueTypes'
    BY <1>1, <1>3, <1>4, <1>6 DEF QueueTypes
  <1>8. Roles'
    BY <1>1, <1>3, <1>5 DEF Roles, Enqueues, QueueThreads
  <1>9. Separate'
    <2>1. ASSUME NEW q \in QueueThreads, at'[q] \in {"clear", "exchange"}
          PROVE  node[q] \notin Range(nodes')
      BY <2>1, <1>4, <1>5 DEF Separate
    <2>2. ASSUME NEW q \in QueueThreads, at'[q] = "exchange"
          PROVE  next[node[q]] = NULL
      BY <2>2, <1>5 DEF Separate
    <2>3. ASSUME NEW d \in Consumers, NEW m \in taken'[d]
          PROVE  m \notin Range(nodes') /\ \A q \in QueueThreads : node[q] # m
      <3>1. d = c /\ m \in taken[c] \cup {tail}
        BY <1>1, <1>3 DEF QueueTypes
      <3> QED
        BY <3>1, <1>4 DEF Separate
    <2> QED
      BY <2>1, <2>2, <2>3, <1>3 DEF Separate
  <1> QED
    BY <1>4, <1>7, <1>8, <1>9 DEF QueueInv

\* The consumer steps over the stub.
LEMMA StepOverKeeps ==
    ASSUME QueueInv, OneConsumer, NEW c \in Consumers, at[c] = "load",
           mine[c] = Stub, next[mine[c]] # NULL,
           tail' = next[mine[c]], nodes' = Tail(nodes),
           mine' = [mine EXCEPT ![c] = next[mine[c]]], at' = [at EXCEPT ![c] = "load2"],
           UNCHANGED <<head, next, node, prev, taken>>
    PROVE  QueueInv'
  <1>0. QueueTypes /\ Roles /\ Chain /\ Gaps /\ Separate
    BY DEF QueueInv
  <1> USE <1>0
  <1>1. Consumers = {c} /\ c \in QueueThreads /\ c \notin Producers
    BY QueueAssumption DEF OneConsumer, QueueThreads
  <1>2. mine[c] = tail /\ ~Enqueues(c)
    BY DEF Roles, Enqueues
  <1>3. /\ Chain' /\ Gaps'
        /\ nodes' \in Seq(Links) /\ nodes' # <<>> /\ tail' \in Links /\ tail' # tail
        /\ Range(nodes') \subseteq Range(nodes)
    BY <1>2, TailMoves, Zenon
  <1>4. /\ at'[c] = "load2" /\ mine'[c] = tail'
        /\ \A q \in QueueThreads : q # c => at'[q] = at[q]
    BY <1>1 DEF QueueTypes
  <1>5. QueueTypes'
    BY <1>1, <1>3 DEF QueueTypes
  <1>6. Roles'
    BY <1>1, <1>2, <1>3, <1>4 DEF Roles, Enqueues, QueueThreads
  <1>7. Separate'
    BY <1>3, <1>4 DEF Separate
  <1> QED
    BY <1>3, <1>5, <1>6, <1>7 DEF QueueInv

-----------------------------------------------------------------------------

\* mpsc_init leaves a whole list: the stub alone.
LEMMA QueueInitInv == QueueInit => QueueInv
  <1> SUFFICES ASSUME QueueInit PROVE QueueInv
    OBVIOUS
  <1> USE DEF QueueInit
  <1>1. QueueTypes
    BY DEF QueueTypes, Links
  <1>2. Len(nodes) = 1 /\ nodes[1] = Stub /\ DOMAIN nodes = {1} /\ 1 .. 1 - 1 = {}
    OBVIOUS
  <1>3. Roles
    BY QueueAssumption DEF Roles, Enqueues, QueueThreads
  <1>4. Chain
    BY <1>2 DEF Chain, IsInjective, Links
  <1>5. Gaps
    BY DEF Gaps
  <1>6. Separate
    BY DEF Separate
  <1> QED
    BY <1>1, <1>3, <1>4, <1>5, <1>6 DEF QueueInv

\* Every step of a producer or of the consumer keeps the invariant.
LEMMA QueueStep == ASSUME QueueInv, OneConsumer, [QueueNext]_queueVars PROVE QueueInv'
  <1>0. QueueTypes /\ Roles /\ Chain /\ Gaps /\ Separate
    BY DEF QueueInv
  <1>1. ASSUME NEW p \in Producers, enqueue(p)
        PROVE  QueueInv'
    BY <1>1, EnqueueKeeps
  <1>2. ASSUME NEW p \in QueueThreads, Enqueueing(p)
        PROVE  QueueInv'
    BY <1>2, ClearKeeps, ExchangeKeeps, LinkKeeps DEF Enqueueing
  <1>3. ASSUME NEW c \in Consumers, dequeue(c)
        PROVE  QueueInv'
    <2>1. /\ ~Enqueues(c) /\ at' = [at EXCEPT ![c] = "load"]
          /\ mine' = [mine EXCEPT ![c] = tail]
          /\ UNCHANGED <<head, tail, next, nodes, node, prev, taken>>
      BY <1>3 DEF dequeue, Enqueues, Proceed, listVars, ghostVars
    <2>2. mine' \in [Consumers -> Links \cup {NULL}] /\ mine'[c] = tail
      BY <1>0, <2>1 DEF QueueTypes
    <2> QED
      BY <2>1, <2>2, LookKeeps, Zenon
  <1>4. ASSUME NEW c \in Consumers, NEW l \in {"idle", "head"}, at[c] \in {"load", "load2", "head", "reload"},
               Proceed(c, l), UNCHANGED <<listVars, localVars, ghostVars>>,
               l = "head" => mine[c] # Stub
        PROVE  QueueInv'
    <2>1. /\ ~Enqueues(c) /\ at[c] # "idle" /\ at' = [at EXCEPT ![c] = l]
          /\ UNCHANGED <<head, tail, next, nodes, node, prev, mine, taken>>
      BY <1>4 DEF Enqueues, Proceed, listVars, localVars, ghostVars
    <2>2. mine \in [Consumers -> Links \cup {NULL}] /\ mine[c] = tail
      BY <1>0, <2>1 DEF QueueTypes, Roles
    <2> QED
      BY <1>4, <2>1, <2>2, LookKeeps, Zenon
  <1>5. ASSUME NEW c \in Consumers, load_next(c)
        PROVE  QueueInv'
    <2>1. ~Enqueues(c) /\ at[c] = "load" /\ at[c] # "idle"
      BY <1>5 DEF load_next, Enqueues
    <2>2. CASE mine[c] = Stub /\ next[mine[c]] # NULL
      BY <1>5, <2>1, <2>2, StepOverKeeps DEF load_next, Proceed, ghostVars
    <2>3. CASE mine[c] # Stub /\ next[mine[c]] # NULL
      BY <1>5, <2>1, <2>3, ReturnKeeps DEF load_next
    <2>4. CASE next[mine[c]] = NULL
      BY <1>4, <1>5, <2>1, <2>4 DEF load_next
    <2> QED
      BY <2>2, <2>3, <2>4, SMTT(30)
  <1>6. ASSUME NEW c \in Consumers, load_after_stub(c)
        PROVE  QueueInv'
    <2>1. ~Enqueues(c) /\ at[c] = "load2" /\ at[c] # "idle" /\ mine[c] # Stub
      BY <1>0, <1>6 DEF load_after_stub, Enqueues, Roles
    <2>2. CASE next[mine[c]] # NULL
      BY <1>6, <2>1, <2>2, ReturnKeeps DEF load_after_stub
    <2>3. CASE next[mine[c]] = NULL
      BY <1>4, <1>6, <2>1, <2>3 DEF load_after_stub
    <2> QED
      BY <2>2, <2>3
  <1>7. ASSUME NEW c \in Consumers, load_head(c)
        PROVE  QueueInv'
    <2>1. at[c] = "head" /\ UNCHANGED <<listVars, prev, mine, ghostVars>>
      BY <1>7 DEF load_head
    <2>2. CASE mine[c] # head
      BY <1>4, <1>7, <2>1, <2>2 DEF load_head, localVars
    <2>3. CASE mine[c] = head
      BY <1>7, <2>1, <2>3, PutBackKeeps DEF load_head, Proceed, listVars, ghostVars
    <2> QED
      BY <2>2, <2>3
  <1>8. ASSUME NEW c \in Consumers, reload_next(c)
        PROVE  QueueInv'
    <2>1. ~Enqueues(c) /\ at[c] = "reload" /\ at[c] # "idle" /\ mine[c] # Stub
      BY <1>0, <1>8 DEF reload_next, Enqueues, Roles
    <2>2. CASE next[mine[c]] # NULL
      BY <1>8, <2>1, <2>2, ReturnKeeps DEF reload_next
    <2>3. CASE next[mine[c]] = NULL
      BY <1>4, <1>8, <2>1, <2>3 DEF reload_next
    <2> QED
      BY <2>2, <2>3
  <1>9. CASE UNCHANGED queueVars
    <2>1. UNCHANGED <<head, tail, next, nodes, at, node, prev, mine, taken>>
      BY <1>9 DEF queueVars, listVars, localVars, ghostVars
    <2> QED
      <3>1. QueueTypes' /\ Roles' /\ Separate'
        BY <1>0, <2>1, SMTT(30) DEF QueueTypes, Roles, Enqueues, Separate
      <3>2. Chain' /\ Gaps'
        BY <1>0, <2>1, Zenon DEF Chain, Gaps
      <3> QED
        BY <3>1, <3>2 DEF QueueInv
  <1> QED
    BY <1>1, <1>2, <1>3, <1>5, <1>6, <1>7, <1>8, <1>9, GiveBackKeeps
       DEF QueueNext, Dequeueing, QueueThreads

\* The invariant of the queue.
LEMMA QueueInvariant == ASSUME OneConsumer PROVE QueueSpec => []QueueInv
  <1>1. QueueInv /\ [QueueNext]_queueVars => QueueInv'
    BY QueueStep
  <1> QED
    BY <1>1, QueueInitInv, PTL DEF QueueSpec

\* The invariant says more than that the list is whole.
LEMMA InvIsWhole == ASSUME QueueInv PROVE QueueIsWhole
  <1>0. QueueTypes /\ Roles /\ Chain /\ Gaps /\ Separate
    BY DEF QueueInv
  <1>1. nodes \in Seq(Links) /\ nodes # <<>>
    BY <1>0 DEF QueueTypes
  <1>2. Head(nodes) = nodes[1]
    BY <1>1, TailPositions
  <1>3. ListWhole
    BY <1>0, <1>1, <1>2 DEF ListWhole, Chain, Linking, Gap
  <1>4. ASSUME NEW c \in Consumers, NEW m \in taken[c], NEW p \in QueueThreads, at[p] = "link"
        PROVE  prev[p] # m
    <2>1. PICK i \in 1 .. Len(nodes) - 1 : nodes[i] = prev[p]
      BY <1>0, <1>4 DEF Gaps
    <2>2. nodes[i] \in Range(nodes)
      BY <1>0, ListPositions, Neighbours
    <2> QED
      BY <1>0, <2>1, <2>2 DEF Separate
  <1>5. ReturnedNodesAreFree
    BY <1>0, <1>4 DEF ReturnedNodesAreFree, Separate
  <1> QED
    BY <1>3, <1>5 DEF QueueIsWhole

(***************************************************************************)
(* With one consumer, the list of vera_lockfree.h is whole but for links   *)
(* that an mpsc_enqueue is about to store, whatever the number of          *)
(* producers and nodes, and no thread touches a node again that            *)
(* mpsc_dequeue returned.                                                  *)
(***************************************************************************)
THEOREM ListStaysWhole == ASSUME OneConsumer PROVE QueueSpec => []QueueIsWhole
  <1>1. QueueInv => QueueIsWhole
    BY InvIsWhole
  <1> QED
    BY <1>1, QueueInvariant, PTL
-----------------------------------------------------------------------------

\* What a list with the stub at position k holds.
LEMMA HeldPositions ==
    ASSUME NEW s \in Seq(Links), IsInjective(s), NEW k \in 1 .. Len(s), s[k] = Stub
    PROVE  /\ Held(s) \in Seq(Links) /\ Len(Held(s)) = Len(s) - 1
           /\ DOMAIN Held(s) = 1 .. Len(s) - 1
           /\ \A i \in 1 .. Len(s) - 1 : Held(s)[i] = IF i < k THEN s[i] ELSE s[i + 1]
  <1>1. Len(s) \in Nat /\ DOMAIN s = 1 .. Len(s) /\ \A i \in 1 .. Len(s) : s[i] \in Links
    OBVIOUS
  <1>2. \A j \in 1 .. Len(s) : s[j] = Stub => j = k
    BY <1>1 DEF IsInjective
  <1>3. (CHOOSE j \in 1 .. Len(s) : s[j] = Stub) = k
    BY <1>2
  <1> DEFINE h == [i \in 1 .. Len(s) - 1 |-> IF i < k THEN s[i] ELSE s[i + 1]]
  <1>4. Held(s) = h
    BY <1>3 DEF Held
  <1>5. \A i \in 1 .. Len(s) - 1 : h[i] \in Links
    <2>1. \A i \in 1 .. Len(s) - 1 : i \in 1 .. Len(s) /\ i + 1 \in 1 .. Len(s)
      BY <1>1
    <2> QED
      BY <2>1, <1>1
  <1>6. Len(s) - 1 \in Nat
    BY <1>1
  <1>7. h \in Seq(Links) /\ Len(h) = Len(s) - 1
    BY <1>5, <1>6
  <1> QED
    BY <1>4, <1>7

\* What a list without the stub holds.
LEMMA HeldAll ==
    ASSUME NEW s \in Seq(Links), \A i \in 1 .. Len(s) : s[i] # Stub
    PROVE  Held(s) = s
  BY DEF Held

\* Sequences with the same elements are the same.
LEMMA SameList ==
    ASSUME NEW s \in Seq(Links), NEW w \in Seq(Links), Len(s) = Len(w),
           \A i \in 1 .. Len(s) : s[i] = w[i]
    PROVE  s = w
  OBVIOUS

\* A node other than the stub is put behind the rest.
LEMMA HeldAppend ==
    ASSUME NEW s \in Seq(Links), NEW m \in Nodes, IsInjective(Append(s, m))
    PROVE  Held(Append(s, m)) = Append(Held(s), m)
  <1> DEFINE a == Append(s, m)
  <1>0. m \in Links /\ m # Stub
    BY QueueAssumption DEF Links
  <1>1. /\ Len(s) \in Nat /\ DOMAIN s = 1 .. Len(s) /\ a \in Seq(Links)
        /\ Len(a) = Len(s) + 1 /\ DOMAIN a = 1 .. Len(s) + 1
        /\ \A i \in 1 .. Len(s) : a[i] = s[i]
        /\ a[Len(s) + 1] = m
    BY <1>0, AppendPositions
  <1> HIDE DEF a
  <1>2. IsInjective(s)
    <2>1. \A i \in 1 .. Len(s) : i \in 1 .. Len(s) + 1
      BY <1>1
    <2> QED
      BY <2>1, <1>1 DEF IsInjective, a
  <1>3. CASE \E k \in 1 .. Len(s) : s[k] = Stub
    <2>1. PICK k \in 1 .. Len(s) : s[k] = Stub
      BY <1>3
    <2>2. k \in 1 .. Len(a) /\ a[k] = Stub
      BY <2>1, <1>1
    <2> DEFINE r == Held(s)
               b == Held(a)
    <2>3. /\ r \in Seq(Links) /\ Len(r) = Len(s) - 1
          /\ \A i \in 1 .. Len(s) - 1 : r[i] = IF i < k THEN s[i] ELSE s[i + 1]
      BY <2>1, <1>2, HeldPositions
    <2>4. /\ b \in Seq(Links) /\ Len(b) = Len(a) - 1
          /\ \A i \in 1 .. Len(a) - 1 : b[i] = IF i < k THEN a[i] ELSE a[i + 1]
      BY <2>2, <1>1, HeldPositions, Zenon DEF a
    <2> HIDE DEF r, b
    <2>5. /\ Append(r, m) \in Seq(Links) /\ Len(Append(r, m)) = Len(r) + 1
          /\ \A i \in 1 .. Len(r) : Append(r, m)[i] = r[i]
          /\ Append(r, m)[Len(r) + 1] = m
      BY <2>3, <1>0, AppendPositions
    <2>6. Len(a) - 1 = Len(s) /\ Len(r) + 1 = Len(s)
      BY <2>3, <1>1
    <2>7. ASSUME NEW i \in 1 .. Len(s)
          PROVE  b[i] = Append(r, m)[i]
      <3>1. CASE i = Len(s)
        <4>1. ~(i < k)
          BY <3>1, <1>1
        <4>2. b[i] = a[i + 1]
          BY <4>1, <2>4, <2>6, SMTT(30)
        <4> QED
          BY <4>2, <3>1, <2>5, <2>6, <1>1
      <3>2. CASE i # Len(s)
        <4>1. i \in 1 .. Len(s) - 1 /\ i + 1 \in 1 .. Len(s) /\ i \in 1 .. Len(a) - 1
          BY <3>2, <2>6, <1>1, Neighbours, Zenon
        <4>2. b[i] = IF i < k THEN s[i] ELSE s[i + 1]
          BY <4>1, <2>4, <1>1
        <4>3. Append(r, m)[i] = IF i < k THEN s[i] ELSE s[i + 1]
          BY <4>1, <2>3, <2>5
        <4> QED
          BY <4>2, <4>3
      <3> QED
        BY <3>1, <3>2, Zenon
    <2>8. b = Append(r, m)
      BY <2>4, <2>5, <2>6, <2>7, SameList
    <2> QED
      BY <2>8 DEF a, b, r
  <1>4. CASE ~ \E k \in 1 .. Len(s) : s[k] = Stub
    <2>1. Held(s) = s
      BY <1>4, HeldAll
    <2>2. \A i \in 1 .. Len(a) : a[i] # Stub
      BY <1>0, <1>1, <1>4
    <2>3. Held(a) = a
      BY <2>2, <1>1, HeldAll
    <2> QED
      BY <2>1, <2>3 DEF a
  <1> QED
    BY <1>3, <1>4

\* The stub is put behind the rest.
LEMMA HeldAppendStub ==
    ASSUME NEW s \in Seq(Links), IsInjective(Append(s, Stub))
    PROVE  Held(Append(s, Stub)) = Held(s)
  <1> DEFINE a == Append(s, Stub)
             b == Held(a)
  <1>0. Stub \in Links
    BY DEF Links
  <1>1. /\ Len(s) \in Nat /\ DOMAIN s = 1 .. Len(s) /\ a \in Seq(Links)
        /\ Len(a) = Len(s) + 1 /\ DOMAIN a = 1 .. Len(s) + 1
        /\ \A i \in 1 .. Len(s) : a[i] = s[i]
        /\ a[Len(s) + 1] = Stub
    BY <1>0, AppendPositions
  <1> HIDE DEF a, b
  <1>2. Len(s) + 1 \in 1 .. Len(a) /\ \A i \in 1 .. Len(s) : i \in 1 .. Len(a) /\ i # Len(s) + 1
    BY <1>1
  <1>3. \A i \in 1 .. Len(s) : s[i] # Stub
    BY <1>1, <1>2 DEF IsInjective, a
  <1>4. Held(s) = s
    BY <1>3, HeldAll
  <1>5. /\ b \in Seq(Links) /\ Len(b) = Len(a) - 1
        /\ \A i \in 1 .. Len(a) - 1 : b[i] = IF i < Len(s) + 1 THEN a[i] ELSE a[i + 1]
    BY <1>1, <1>2, HeldPositions, Zenon DEF a, b
  <1>6. Len(b) = Len(s) /\ \A i \in 1 .. Len(s) : b[i] = s[i]
    BY <1>1, <1>5
  <1>7. b = s
    BY <1>5, <1>6, SameList
  <1> QED
    BY <1>4, <1>7 DEF a, b

\* The stub is the first of the list.
LEMMA HeldBehindStub ==
    ASSUME NEW s \in Seq(Links), s # <<>>, IsInjective(s), s[1] = Stub
    PROVE  Held(s) = Tail(s) /\ Held(Tail(s)) = Tail(s)
  <1> DEFINE w == Tail(s)
             b == Held(s)
  <1>1. /\ Len(s) \in Nat \ {0} /\ DOMAIN s = 1 .. Len(s)
        /\ w \in Seq(Links) /\ Len(w) = Len(s) - 1
        /\ \A i \in 1 .. Len(s) - 1 : w[i] = s[i + 1]
    BY TailPositions
  <1>2. 1 \in 1 .. Len(s) /\ \A i \in 1 .. Len(s) - 1 : i + 1 \in 1 .. Len(s) /\ i + 1 # 1 /\ ~(i < 1)
    BY <1>1
  <1>3. /\ b \in Seq(Links) /\ Len(b) = Len(s) - 1
        /\ \A i \in 1 .. Len(s) - 1 : b[i] = IF i < 1 THEN s[i] ELSE s[i + 1]
    BY <1>2, HeldPositions
  <1> HIDE DEF w, b
  <1>4. b = w
    <2>1. Len(b) = Len(w) /\ \A i \in 1 .. Len(b) : b[i] = w[i]
      BY <1>1, <1>2, <1>3
    <2> QED
      BY <2>1, <1>1, <1>3, SameList
  <1>5. \A i \in 1 .. Len(w) : w[i] # Stub
    BY <1>1, <1>2 DEF IsInjective
  <1>6. Held(w) = w
    BY <1>1, <1>5, HeldAll
  <1> QED
    BY <1>4, <1>6 DEF w, b

\* The first of the list is not the stub, and not the only one.
LEMMA HeldTail ==
    ASSUME NEW s \in Seq(Links), s # <<>>, Len(s) # 1, IsInjective(s), s[1] # Stub
    PROVE  Held(s) # <<>> /\ Head(Held(s)) = s[1] /\ Tail(Held(s)) = Held(Tail(s))
  <1> DEFINE w == Tail(s)
  <1>1. /\ Len(s) \in Nat \ {0} /\ DOMAIN s = 1 .. Len(s) /\ Head(s) = s[1]
        /\ w \in Seq(Links) /\ Len(w) = Len(s) - 1 /\ DOMAIN w = 1 .. Len(s) - 1
        /\ \A i \in 1 .. Len(s) - 1 : w[i] = s[i + 1]
    BY TailPositions
  <1> HIDE DEF w
  <1>2. IsInjective(w)
    <2>1. ASSUME NEW i \in 1 .. Len(s) - 1, NEW j \in 1 .. Len(s) - 1, w[i] = w[j]
          PROVE  i = j
      <3>1. i + 1 \in 1 .. Len(s) /\ j + 1 \in 1 .. Len(s)
        BY <1>1
      <3>2. i + 1 = j + 1
        BY <2>1, <3>1, <1>1, SMTT(30) DEF IsInjective
      <3> QED
        BY <3>2
    <2> QED
      BY <2>1, <1>1 DEF IsInjective
  <1>3. CASE \E k \in 1 .. Len(s) : s[k] = Stub
    <2>1. PICK k \in 1 .. Len(s) : s[k] = Stub
      BY <1>3
    <2>2. k - 1 \in 1 .. Len(w) /\ (k - 1) + 1 = k /\ k # 1 /\ 1 < k /\ k - 1 \in 1 .. Len(s) - 1
      BY <2>1, <1>1
    <2>3. w[k - 1] = Stub
      BY <2>1, <2>2, <1>1
    <2> DEFINE r == Held(s)
               b == Held(w)
               v == Tail(r)
    <2>4. /\ r \in Seq(Links) /\ Len(r) = Len(s) - 1
          /\ \A i \in 1 .. Len(s) - 1 : r[i] = IF i < k THEN s[i] ELSE s[i + 1]
      BY <2>1, HeldPositions
    <2>5. /\ b \in Seq(Links) /\ Len(b) = Len(w) - 1
          /\ \A i \in 1 .. Len(w) - 1 : b[i] = IF i < k - 1 THEN w[i] ELSE w[i + 1]
      BY <2>2, <2>3, <1>1, <1>2, HeldPositions, Zenon
    <2> HIDE DEF r, b
    <2>6. r # <<>>
      BY <2>4, <1>1
    <2>7. /\ v \in Seq(Links) /\ Len(v) = Len(r) - 1 /\ Head(r) = r[1]
          /\ \A i \in 1 .. Len(r) - 1 : v[i] = r[i + 1]
      BY <2>4, <2>6, TailPositions
    <2> HIDE DEF v
    <2>8. r[1] = s[1]
      <3>1. 1 \in 1 .. Len(s) - 1
        BY <1>1
      <3> QED
        BY <3>1, <2>2, <2>4
    <2>9. Len(v) = (Len(s) - 1) - 1 /\ Len(b) = (Len(s) - 1) - 1 /\ Len(r) - 1 = (Len(s) - 1) - 1
      BY <2>4, <2>5, <2>7, <1>1
    <2>10. ASSUME NEW i \in 1 .. (Len(s) - 1) - 1
           PROVE  v[i] = b[i]
      <3>1. i \in 1 .. Len(s) - 1 /\ i + 1 \in 1 .. Len(s) - 1 /\ (i + 1 < k <=> i < k - 1)
        BY <1>1
      <3>2. v[i] = IF i + 1 < k THEN s[i + 1] ELSE s[(i + 1) + 1]
        BY <3>1, <2>4, <2>7, <2>9
      <3>3. b[i] = IF i < k - 1 THEN s[i + 1] ELSE s[(i + 1) + 1]
        BY <3>1, <2>5, <1>1
      <3> QED
        BY <3>1, <3>2, <3>3
    <2>11. v = b
      BY <2>5, <2>7, <2>9, <2>10, SameList, Zenon
    <2> QED
      BY <2>6, <2>7, <2>8, <2>11 DEF v, r, b, w
  <1>4. CASE ~ \E k \in 1 .. Len(s) : s[k] = Stub
    <2>1. Held(s) = s
      BY <1>4, HeldAll
    <2>2. \A i \in 1 .. Len(w) : w[i] # Stub
      <3>1. \A i \in 1 .. Len(s) - 1 : i + 1 \in 1 .. Len(s)
        BY <1>1
      <3> QED
        BY <3>1, <1>1, <1>4
    <2>3. Held(w) = w
      BY <2>2, <1>1, HeldAll
    <2> QED
      BY <2>1, <2>3, <1>1 DEF w
  <1> QED
    BY <1>3, <1>4

\* What a list holds is in it.
LEMMA HeldInList ==
    ASSUME NEW s \in Seq(Links), IsInjective(s)
    PROVE  \A i \in DOMAIN Held(s) : Held(s)[i] \in Range(s)
  <1>1. Len(s) \in Nat /\ DOMAIN s = 1 .. Len(s) /\ \A i \in 1 .. Len(s) : s[i] \in Range(s)
    BY DEF Range
  <1>2. CASE \E k \in 1 .. Len(s) : s[k] = Stub
    <2>1. PICK k \in 1 .. Len(s) : s[k] = Stub
      BY <1>2
    <2>2. /\ DOMAIN Held(s) = 1 .. Len(s) - 1
          /\ \A i \in 1 .. Len(s) - 1 : Held(s)[i] = IF i < k THEN s[i] ELSE s[i + 1]
      BY <2>1, HeldPositions
    <2>3. \A i \in 1 .. Len(s) - 1 : i \in 1 .. Len(s) /\ i + 1 \in 1 .. Len(s)
      BY <1>1, Neighbours
    <2> QED
      BY <2>2, <2>3, <1>1
  <1>3. CASE ~ \E k \in 1 .. Len(s) : s[k] = Stub
    BY <1>1, <1>3, HeldAll
  <1> QED
    BY <1>2, <1>3

-----------------------------------------------------------------------------

\* An exchange of head puts a node into the FIFO, unless the node is the stub.
LEMMA ExchangePuts ==
    ASSUME QueueInv, QueueInv', NEW p \in QueueThreads, exchange_head(p)
    PROVE  \/ UNCHANGED <<Held(nodes), last>>
           \/ \E m \in Nodes : Abstract!Put(m)
  <1>0. QueueTypes /\ Roles /\ Separate /\ IsInjective(nodes) /\ IsInjective(nodes')
    BY DEF QueueInv, Chain
  <1>1. /\ at[p] = "exchange" /\ nodes' = Append(nodes, node[p]) /\ last' = last
    BY DEF exchange_head, ghostVars
  <1>2. node[p] \in Nodes \cup {Stub} /\ node[p] \notin Range(nodes)
    <2>1. Enqueues(p)
      BY <1>1 DEF Enqueues
    <2> QED
      BY <2>1, <1>0, <1>1 DEF Roles, Separate, QueueThreads
  <1>3. nodes \in Seq(Links) /\ Stub \in Links
    BY <1>0 DEF QueueTypes, Links
  <1>4. CASE node[p] = Stub
    <2>1. Held(nodes') = Held(nodes)
      BY <1>0, <1>1, <1>3, <1>4, HeldAppendStub
    <2> QED
      BY <2>1, <1>1
  <1>5. CASE node[p] # Stub
    <2> DEFINE m == node[p]
    <2>1. m \in Nodes /\ m \in Links
      BY <1>2, <1>5 DEF Links
    <2>2. Held(nodes') = Append(Held(nodes), m)
      BY <2>1, <1>0, <1>1, <1>3, <1>5, HeldAppend
    <2>3. \A i \in DOMAIN Held(nodes) : Held(nodes)[i] # m
      BY <1>0, <1>2, <1>3, HeldInList
    <2> QED
      BY <2>1, <2>2, <2>3, <1>1 DEF Abstract!Put
  <1> QED
    BY <1>4, <1>5

\* The node that mpsc_dequeue returns is the oldest one of the FIFO.
LEMMA ReturnGets ==
    ASSUME QueueInv, NEW c \in Consumers, at[c] # "idle", mine[c] # Stub,
           next[mine[c]] # NULL, ReturnNode(c, mine[c], next[mine[c]])
    PROVE  Abstract!Get
  <1>0. QueueTypes /\ Roles /\ Chain
    BY DEF QueueInv
  <1>1. mine[c] = tail /\ nodes' = Tail(nodes) /\ last' = mine[c]
    BY <1>0, SMTT(30) DEF Roles, ReturnNode
  <1>2. IsInjective(nodes) /\ nodes[1] = tail /\ nodes[Len(nodes)] = head /\ next[head] = NULL
    BY <1>0 DEF Chain
  <1>3. Len(nodes) # 1
    BY <1>1, <1>2
  <1>4. nodes \in Seq(Links) /\ nodes # <<>>
    BY <1>0 DEF QueueTypes
  <1>5. nodes[1] # Stub
    BY <1>1, <1>2
  <1>6. /\ Held(nodes) # <<>> /\ Head(Held(nodes)) = nodes[1]
        /\ Tail(Held(nodes)) = Held(Tail(nodes))
    BY <1>2, <1>3, <1>4, <1>5, HeldTail
  <1> QED
    BY <1>1, <1>2, <1>6 DEF Abstract!Get

\* Stepping over the stub is no step of the FIFO.
LEMMA StepOverHolds ==
    ASSUME QueueInv, NEW c \in Consumers, at[c] # "idle", mine[c] = Stub,
           nodes' = Tail(nodes), last' = last
    PROVE  UNCHANGED <<Held(nodes), last>>
  <1>1. nodes \in Seq(Links) /\ nodes # <<>> /\ IsInjective(nodes) /\ nodes[1] = Stub
    BY DEF QueueInv, QueueTypes, Roles, Chain
  <1>2. Held(Tail(nodes)) = Held(nodes)
    BY <1>1, HeldBehindStub, SMTT(30)
  <1> QED
    BY <1>2

\* Every step of the queue is a step of the FIFO or leaves it alone.
LEMMA FifoStep ==
    ASSUME QueueInv, QueueInv', [QueueNext]_queueVars
    PROVE  [Abstract!Next]_<<Held(nodes), last>>
  <1> DEFINE Simulated == Abstract!Next \/ UNCHANGED <<Held(nodes), last>>
  <1>1. ASSUME UNCHANGED <<nodes, last>>
        PROVE  Simulated
    BY <1>1
  <1>2. ASSUME NEW p \in QueueThreads, Enqueueing(p)
        PROVE  Simulated
    <2>1. CASE clear_next(p)
      BY <1>1, <2>1 DEF clear_next, ghostVars
    <2>2. CASE exchange_head(p)
      BY <2>2, ExchangePuts DEF Abstract!Next
    <2>3. CASE link_prev(p)
      BY <1>1, <2>3 DEF link_prev, ghostVars
    <2> QED
      BY <1>2, <2>1, <2>2, <2>3 DEF Enqueueing
  <1>3. ASSUME NEW p \in Producers, enqueue(p)
        PROVE  Simulated
    BY <1>1, <1>3 DEF enqueue, listVars, ghostVars
  <1>4. ASSUME NEW c \in Consumers, dequeue(c) \/ load_head(c) \/ give_back(c)
        PROVE  Simulated
    BY <1>1, <1>4 DEF dequeue, load_head, give_back, listVars, ghostVars
  <1>5. ASSUME NEW c \in Consumers, at[c] # "idle", mine[c] # Stub, next[mine[c]] # NULL,
               ReturnNode(c, mine[c], next[mine[c]])
        PROVE  Simulated
    BY <1>5, ReturnGets DEF Abstract!Next
  <1>6. ASSUME NEW c \in Consumers, load_next(c)
        PROVE  Simulated
    <2>1. at[c] # "idle"
      BY <1>6 DEF load_next
    <2>2. CASE next[mine[c]] = NULL
      BY <1>1, <1>6, <2>2, SMTT(30) DEF load_next, listVars, ghostVars
    <2>3. CASE next[mine[c]] # NULL /\ mine[c] = Stub
      BY <1>6, <2>1, <2>3, StepOverHolds, Zenon DEF load_next, ghostVars
    <2>4. CASE next[mine[c]] # NULL /\ mine[c] # Stub
      BY <1>5, <1>6, <2>1, <2>4 DEF load_next
    <2> QED
      BY <2>2, <2>3, <2>4
  <1>7. ASSUME NEW c \in Consumers, load_after_stub(c) \/ reload_next(c)
        PROVE  Simulated
    <2>1. at[c] # "idle" /\ mine[c] # Stub
      BY <1>7 DEF load_after_stub, reload_next, QueueInv, Roles
    <2>2. CASE next[mine[c]] = NULL
      BY <1>1, <1>7, <2>2 DEF load_after_stub, reload_next, listVars, ghostVars
    <2>3. CASE next[mine[c]] # NULL
      BY <1>5, <1>7, <2>1, <2>3 DEF load_after_stub, reload_next
    <2> QED
      BY <2>2, <2>3, SMTT(30)
  <1>8. ASSUME UNCHANGED queueVars
        PROVE  Simulated
    BY <1>1, <1>8 DEF queueVars, listVars, ghostVars
  <1>9. Simulated
    <2> HIDE DEF Simulated
    <2>1. ASSUME NEW p \in Producers, enqueue(p) \/ Enqueueing(p)
          PROVE  Simulated
      BY <2>1, <1>2, <1>3 DEF QueueThreads
    <2>2. ASSUME NEW c \in Consumers, Dequeueing(c) \/ give_back(c)
          PROVE  Simulated
      BY <2>2, <1>2, <1>4, <1>6, <1>7 DEF Dequeueing, QueueThreads
    <2> QED
      BY <2>1, <2>2, <1>8 DEF QueueNext
  <1> QED
    BY <1>9

\* The queue of mpsc_init is an empty FIFO: the stub is not held.
LEMMA FifoInit == QueueInit => Abstract!Init
  <1> SUFFICES ASSUME QueueInit PROVE Held(nodes) = <<>> /\ last = NULL
    BY DEF Abstract!Init
  <1>1. nodes = <<Stub>> /\ last = NULL
    BY DEF QueueInit
  <1>2. nodes \in Seq(Links) /\ nodes # <<>> /\ nodes[1] = Stub /\ IsInjective(nodes)
    BY <1>1 DEF IsInjective, Links
  <1>3. Held(nodes) = Tail(nodes)
    BY <1>2, HeldBehindStub
  <1> QED
    BY <1>1, <1>3

(***************************************************************************)
(* With one consumer, the queue of vera_lockfree.h implements a FIFO: a    *)
(* node enters it when mpsc_enqueue exchanges the head, and nodes leave in *)
(* that order, each once, when mpsc_dequeue returns them.                  *)
(***************************************************************************)
THEOREM QueueIsFifo == ASSUME OneConsumer PROVE QueueSpec => QueueImplementsFifo
  <1>1. QueueInv /\ QueueInv' /\ [QueueNext]_queueVars
        => [Abstract!Next]_<<Held(nodes), last>>
    BY FifoStep
  <1> QED
    BY <1>1, QueueInvariant, FifoInit, PTL DEF QueueSpec, QueueImplementsFifo, Abstract!Spec
=============================================================================
