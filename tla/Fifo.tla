------------------------------- MODULE Fifo -------------------------------
(***************************************************************************)
(* What the queue of vera_lockfree.h promises: nodes leave in the order    *)
(* in which they entered, each of them once.  A node enters and leaves in  *)
(* one step.                                                               *)
(***************************************************************************)
EXTENDS Sequences

CONSTANTS Nodes, NULL

VARIABLES
    queue,   \* the nodes in the queue, oldest first
    last     \* the node returned last

Init == queue = <<>> /\ last = NULL

Put(m) ==
    /\ \A i \in DOMAIN queue : queue[i] # m
    /\ queue' = Append(queue, m)
    /\ UNCHANGED last

Get ==
    /\ queue # <<>>
    /\ last' = Head(queue)
    /\ queue' = Tail(queue)

Next == Get \/ \E m \in Nodes : Put(m)

Spec == Init /\ [][Next]_<<queue, last>>
=============================================================================
