----------------------------- MODULE MPSCQueue -----------------------------
(***************************************************************************)
(* The intrusive Vyukov queue of vera_lockfree.h: producers swing head     *)
(* with an atomic exchange and link the node they displaced afterwards, so *)
(* for a moment the list has a gap; the consumer walks from tail and puts  *)
(* the stub back when it takes the last node.  One action is one atomic    *)
(* access (all of them are sequentially consistent in the code).           *)
(*                                                                         *)
(* A node belongs to a producer while it is free; the consumer gives a     *)
(* node it took back to the producers, as seg_alloc (which frees it) and   *)
(* the owner of a completed NexCmd do.                                     *)
(***************************************************************************)
EXTENDS Integers, Sequences, Functions

CONSTANTS
    Producers,
    Consumers,   \* one in the engine; every shard of segcache is one
    Nodes,       \* mpsc_node_t other than the stub
    Stub,        \* q->stub
    NULL

ASSUME QueueAssumption ==
    /\ Stub \notin Nodes /\ NULL \notin Nodes \cup {Stub}
    /\ Producers \cap Consumers = {}

Links == Nodes \cup {Stub}

VARIABLES
    head,        \* q->head
    tail,        \* q->tail, not atomic
    next,        \* node -> its next
    at,          \* thread -> where it is in mpsc_enqueue or mpsc_dequeue
    node,        \* thread -> n, the node it enqueues
    prev,        \* thread -> the node its exchange displaced
    mine,        \* consumer -> its local tail
    nodes,       \* auxiliary: the list from tail to head, gaps included
    taken,       \* auxiliary: consumer -> nodes returned and not given back
    last         \* auxiliary: the node returned last

listVars == <<head, tail, next, nodes>>
localVars == <<node, prev, mine>>
ghostVars == <<taken, last>>
queueVars == <<listVars, at, localVars, ghostVars>>

QueueThreads == Producers \cup Consumers

\* mpsc_init
QueueInit ==
    /\ head = Stub
    /\ tail = Stub
    /\ next = [m \in Links |-> NULL]
    /\ at = [p \in QueueThreads |-> "idle"]
    /\ node = [p \in QueueThreads |-> NULL]
    /\ prev = [p \in QueueThreads |-> NULL]
    /\ mine = [c \in Consumers |-> NULL]
    /\ nodes = <<Stub>>
    /\ taken = [c \in Consumers |-> {}]
    /\ last = NULL

Proceed(p, l) == at' = [at EXCEPT ![p] = l]

\* Nodes a producer may enqueue: in no list, in nobody's hands.
FreeNodes ==
    Nodes \ ((UNION {taken[c] : c \in Consumers}) \cup Range(nodes) \cup {node[p] : p \in Producers})

-----------------------------------------------------------------------------
(* mpsc_enqueue *)

enqueue(p) ==
    /\ at[p] = "idle"
    /\ \E m \in FreeNodes : node' = [node EXCEPT ![p] = m]
    /\ Proceed(p, "clear")
    /\ UNCHANGED <<listVars, prev, mine, ghostVars>>

\* atomic_store(&n->next, NULL)
clear_next(p) ==
    /\ at[p] = "clear"
    /\ next' = [next EXCEPT ![node[p]] = NULL]
    /\ Proceed(p, "exchange")
    /\ UNCHANGED <<head, tail, nodes, localVars, ghostVars>>

\* prev = atomic_exchange(&q->head, n)
exchange_head(p) ==
    /\ at[p] = "exchange"
    /\ prev' = [prev EXCEPT ![p] = head]
    /\ head' = node[p]
    /\ nodes' = Append(nodes, node[p])
    /\ Proceed(p, "link")
    /\ UNCHANGED <<tail, next, node, mine, ghostVars>>

\* atomic_store(&prev->next, n)
link_prev(p) ==
    /\ at[p] = "link"
    /\ next' = [next EXCEPT ![prev[p]] = node[p]]
    /\ node' = [node EXCEPT ![p] = NULL]
    /\ prev' = [prev EXCEPT ![p] = NULL]
    /\ Proceed(p, IF p \in Consumers THEN "reload" ELSE "idle")
    /\ UNCHANGED <<head, tail, nodes, mine, ghostVars>>

-----------------------------------------------------------------------------
(* mpsc_dequeue *)

\* tail = q->tail
dequeue(c) ==
    /\ at[c] = "idle"
    /\ mine' = [mine EXCEPT ![c] = tail]
    /\ Proceed(c, "load")
    /\ UNCHANGED <<listVars, node, prev, ghostVars>>

\* The consumer returns a node: its successor becomes the tail.
ReturnNode(c, m, successor) ==
    /\ tail' = successor
    /\ nodes' = Tail(nodes)
    /\ taken' = [taken EXCEPT ![c] = @ \cup {m}]
    /\ last' = m
    /\ Proceed(c, "idle")

\* next = atomic_load(&tail->next), and the tests that follow it
load_next(c) ==
    /\ at[c] = "load"
    /\ LET succ == next[mine[c]] IN
       \/ /\ mine[c] = Stub /\ succ = NULL              \* return NULL
          /\ Proceed(c, "idle")
          /\ UNCHANGED <<listVars, localVars, ghostVars>>
       \/ /\ mine[c] = Stub /\ succ # NULL              \* step over the stub
          /\ tail' = succ
          /\ nodes' = Tail(nodes)
          /\ mine' = [mine EXCEPT ![c] = succ]
          /\ Proceed(c, "load2")
          /\ UNCHANGED <<head, next, node, prev, ghostVars>>
       \/ /\ mine[c] # Stub /\ succ # NULL
          /\ ReturnNode(c, mine[c], succ)
          /\ UNCHANGED <<head, next, localVars>>
       \/ /\ mine[c] # Stub /\ succ = NULL
          /\ Proceed(c, "head")
          /\ UNCHANGED <<listVars, localVars, ghostVars>>

\* Mutation: the node behind the stub is returned twice.
MutTailNotMoved(c) ==
    /\ at[c] = "load2"
    /\ next[mine[c]] # NULL
    /\ ReturnNode(c, mine[c], mine[c])
    /\ UNCHANGED <<head, next, localVars>>

\* next = atomic_load(&next->next) of the node behind the stub
load_after_stub(c) ==
    /\ at[c] = "load2"
    /\ LET succ == next[mine[c]] IN
       \/ /\ succ # NULL
          /\ ReturnNode(c, mine[c], succ)
          /\ UNCHANGED <<head, next, localVars>>
       \/ /\ succ = NULL
          /\ Proceed(c, "head")
          /\ UNCHANGED <<listVars, localVars, ghostVars>>

\* Mutation: the stub is not put back behind the last node.
MutNoStub(c) ==
    /\ at[c] = "head"
    /\ Proceed(c, "idle")
    /\ UNCHANGED <<listVars, node, prev, mine, ghostVars>>

\* head = atomic_load(&q->head): a producer is between its exchange and its
\* link, or the stub is put back behind the last node.
load_head(c) ==
    /\ at[c] = "head"
    /\ \/ /\ mine[c] # head
          /\ Proceed(c, "idle")
          /\ UNCHANGED node
       \/ /\ mine[c] = head
          /\ node' = [node EXCEPT ![c] = Stub]
          /\ Proceed(c, "clear")
    /\ UNCHANGED <<listVars, prev, mine, ghostVars>>

\* Mutation: the last node is returned without looking at its link again.
MutTakeUnlinked(c) ==
    /\ at[c] = "reload"
    /\ ReturnNode(c, mine[c], Stub)
    /\ UNCHANGED <<head, next, localVars>>

\* next = atomic_load(&tail->next) after the stub was put back
reload_next(c) ==
    /\ at[c] = "reload"
    /\ LET succ == next[mine[c]] IN
       \/ /\ succ # NULL
          /\ ReturnNode(c, mine[c], succ)
          /\ UNCHANGED <<head, next, localVars>>
       \/ /\ succ = NULL
          /\ Proceed(c, "idle")
          /\ UNCHANGED <<listVars, localVars, ghostVars>>

\* The consumer is done with a node: it goes back to the producers.
give_back(c) ==
    /\ \E m \in taken[c] : taken' = [taken EXCEPT ![c] = @ \ {m}]
    /\ UNCHANGED <<listVars, at, localVars, last>>

-----------------------------------------------------------------------------

Enqueueing(p) == clear_next(p) \/ exchange_head(p) \/ link_prev(p)

Dequeueing(c) ==
    \/ dequeue(c)   \/ load_next(c)   \/ load_after_stub(c)
    \/ load_head(c) \/ Enqueueing(c)  \/ reload_next(c)

QueueNext ==
    \/ \E p \in Producers : enqueue(p) \/ Enqueueing(p)
    \/ \E c \in Consumers : Dequeueing(c) \/ give_back(c)

QueueSpec == QueueInit /\ [][QueueNext]_queueVars

(***************************************************************************)
(* A producer inside mpsc_enqueue goes on, and the consumer polls forever  *)
(* (worker_thread_main does).  Nobody has to enqueue anything.             *)
(***************************************************************************)
QueueFairSpec ==
    /\ QueueSpec
    /\ \A p \in Producers : WF_queueVars(Enqueueing(p))
    /\ \A c \in Consumers : WF_queueVars(Dequeueing(c))

-----------------------------------------------------------------------------

\* p has exchanged head for b, which displaced a, and has not linked them yet.
Gap(p, a, b) == at[p] = "link" /\ prev[p] = a /\ node[p] = b

\* The list starts at tail and ends at head, and wherever the link between two
\* neighbours is missing, a thread is about to store exactly that link.
ListWhole ==
    /\ nodes # <<>>
    /\ Head(nodes) = tail
    /\ nodes[Len(nodes)] = head
    /\ next[head] = NULL
    /\ \A i \in 1 .. Len(nodes) - 1 :
           IF next[nodes[i]] = NULL
           THEN \E p \in QueueThreads : Gap(p, nodes[i], nodes[i + 1])
           ELSE next[nodes[i]] = nodes[i + 1]

\* A node that mpsc_dequeue returned is not in the list, and no thread still
\* has to store a link into it.
ReturnedNodesAreFree ==
    \A c \in Consumers : \A m \in taken[c] :
        /\ m \notin Range(nodes)
        /\ \A p \in QueueThreads : at[p] = "link" => prev[p] # m

(***************************************************************************)
(* The list is whole up to exchanges of head in mpsc_enqueue that are not  *)
(* linked yet, and the queue does not touch a node again that mpsc_dequeue *)
(* returned: seg_alloc frees it, the owner of a NexCmd reuses it.          *)
(***************************************************************************)
QueueIsWhole == ListWhole /\ ReturnedNodesAreFree

\* A list without the stub, which is in it at most once.
Held(list) ==
    IF \E k \in 1 .. Len(list) : list[k] = Stub
    THEN LET k == CHOOSE k \in 1 .. Len(list) : list[k] = Stub
         IN  [i \in 1 .. Len(list) - 1 |-> IF i < k THEN list[i] ELSE list[i + 1]]
    ELSE list

(***************************************************************************)
(* The queue is a FIFO: a node enters it at the exchange of mpsc_enqueue   *)
(* and leaves it when mpsc_dequeue returns it.                             *)
(***************************************************************************)
Abstract == INSTANCE Fifo WITH queue <- Held(nodes)

QueueImplementsFifo == Abstract!Spec

(***************************************************************************)
(* Every node that was enqueued is returned in the end, whatever gaps      *)
(* other producers leave in between.                                       *)
(***************************************************************************)
QueueEventuallyReturned ==
    \A m \in Nodes : (m \in Range(nodes)) ~> (m \notin Range(nodes))

(***************************************************************************)
(* What segcache needs of its pool of free segments ("LOCK-FREE MPSC" at   *)
(* seg_alloc), where every shard dequeues under its own lock only: a       *)
(* segment is never handed to two shards.                                  *)
(***************************************************************************)
OwnedOnce ==
    \A c, d \in Consumers : c # d => taken[c] \cap taken[d] = {}
=============================================================================
