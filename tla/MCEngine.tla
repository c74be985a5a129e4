------------------------------ MODULE MCEngine ------------------------------
(***************************************************************************)
(* Instances of Engine and of the queue its workers read, one of which     *)
(* moves in a behaviour:                                                   *)
(*  - "engine": two workers; a SET and a GET on a key of the first, a DEL, *)
(*    a SHUTDOWN and a command the switch does not know on a key of the    *)
(*    second;                                                              *)
(*  - "queue": two producers and the consumer.                             *)
(***************************************************************************)
EXTENDS Engine, MPSCQueue, TLC

CONSTANTS c1, c2, c3, c4, c5, ka, kb, v1

MCType == (c1 :> "SET" @@ c2 :> "GET" @@ c3 :> "DEL" @@ c4 :> "SHUTDOWN" @@ c5 :> "OTHER")
MCKey == (c1 :> ka @@ c2 :> ka @@ c3 :> kb @@ c4 :> kb @@ c5 :> kb)
MCValue == [c \in {c1, c2, c3, c4, c5} |-> v1]
MCWorkerOf == (ka :> 1 @@ kb :> 2)

VARIABLE part

MCInit == part \in {"engine", "queue"} /\ Init /\ QueueInit

MCNext ==
    \/ part = "engine" /\ Next /\ UNCHANGED <<part, queueVars>>
    \/ part = "queue" /\ QueueNext /\ UNCHANGED <<part, vars>>

\* The fairness of the part that moves.
MCSpec ==
    /\ MCInit /\ [][MCNext]_<<part, vars, queueVars>>
    /\ \A w \in Workers : /\ WF_vars(part = "engine" /\ worker_thread_main(w))
                          /\ SF_vars(part = "engine" /\ poll(w))
    /\ WF_vars(part = "engine" /\ (start_worker \/ undo_start \/ engine_stop))
    /\ \A p \in Producers : WF_queueVars(part = "queue" /\ Enqueueing(p))
    /\ \A c \in Consumers : WF_queueVars(part = "queue" /\ Dequeueing(c))

-----------------------------------------------------------------------------

\* The engine makes progress: a command is completed unless its worker is
\* stopped, and engine_stop, or a failed engine_start, returns.
EngineProgress == EveryCommandCompletes /\ StopReturns
=============================================================================
