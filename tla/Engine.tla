------------------------------- MODULE Engine -------------------------------
(***************************************************************************)
(* The worker engine (core/engine.c): network threads dispatch commands to *)
(* the queue of the worker that owns the key; every worker executes its    *)
(* queue against the shared storage and calls on_complete; the main thread *)
(* starts and stops the workers one after the other.                       *)
(*                                                                         *)
(* The queues are those of MPSCQueue, taken at the level of Fifo; the      *)
(* storage is a map whose writes may fail.                                 *)
(***************************************************************************)
EXTENDS Integers, Sequences, Functions

CONSTANTS
    Cmds,          \* NexCmd objects, reused once completed
    Type,          \* command -> NexCmdType
    Key,           \* command -> key
    Value,         \* command -> value to set
    Keys,
    WorkerOf,      \* key -> engine_worker_for_key
    NumWorkers,    \* engine->num_workers
    None

ASSUME WorkersAssumption ==
    /\ NumWorkers \in Nat \ {0}
    /\ WorkerOf \in [Keys -> 1 .. NumWorkers]
    /\ Key \in [Cmds -> Keys]
    /\ None \notin Cmds

Workers == 1 .. NumWorkers

VARIABLES
    queue,         \* worker -> w->cmd_queue
    running,       \* worker -> w->running
    thread,        \* worker -> where its thread is
    current,       \* worker -> the command it dequeued
    store,         \* key -> value
    reply,         \* command -> reply_buf
    main,          \* what the main thread is doing, and with which worker
    order          \* auxiliary: key -> commands dispatched and not executed

vars == <<queue, running, thread, current, store, reply, main, order>>

At(step, i) == [step |-> step, worker |-> i]

\* engine_create
Init ==
    /\ queue = [w \in Workers |-> <<>>]
    /\ running = [w \in Workers |-> FALSE]
    /\ thread = [w \in Workers |-> "none"]
    /\ current = [w \in Workers |-> None]
    /\ store = [k \in Keys |-> None]
    /\ reply = [c \in Cmds |-> None]
    /\ main = At("starting", 1)
    /\ order = [k \in Keys |-> <<>>]

Pending(c) == \E w \in Workers : c \in Range(queue[w]) \/ current[w] = c

-----------------------------------------------------------------------------
(* engine_start and engine_stop *)

start_worker ==
    LET i == main.worker IN
    /\ main.step = "starting"
    /\ running' = [running EXCEPT ![i] = TRUE]
    /\ thread' = [thread EXCEPT ![i] = "test"]
    /\ main' = IF i < NumWorkers THEN At("starting", i + 1) ELSE At("started", 0)
    /\ UNCHANGED <<queue, current, store, reply, order>>

\* pthread_create fails: the workers started so far are stopped and joined.
start_fails ==
    LET i == main.worker IN
    /\ main.step = "starting"
    /\ running' = [running EXCEPT ![i] = TRUE]
    /\ main' = IF i = 1 THEN At("failed", 0) ELSE At("undo", 1)
    /\ UNCHANGED <<queue, thread, current, store, reply, order>>

clear_running(step, joining) ==
    /\ main.step = step
    /\ running' = [running EXCEPT ![main.worker] = FALSE]
    /\ main' = At(joining, main.worker)
    /\ UNCHANGED <<queue, thread, current, store, reply, order>>

\* pthread_join
join(joining, step, last, end) ==
    /\ main.step = joining
    /\ thread[main.worker] = "exited"
    /\ main' = IF main.worker < last THEN At(step, main.worker + 1) ELSE At(end, 0)
    /\ UNCHANGED <<queue, running, thread, current, store, reply, order>>

\* The number of threads pthread_create made: those of the first workers.
Started == CHOOSE n \in Workers : \A w \in Workers : thread[w] # "none" <=> w <= n

undo_start ==
    \/ clear_running("undo", "undo join")
    \/ join("undo join", "undo", Started, "failed")

call_stop ==
    /\ main.step = "started"
    /\ main' = At("stopping", 1)
    /\ UNCHANGED <<queue, running, thread, current, store, reply, order>>

\* Mutation: the main thread does not wait for the worker.
MutNoJoin ==
    /\ main.step = "stopping"
    /\ running' = [running EXCEPT ![main.worker] = FALSE]
    /\ main' = IF main.worker < NumWorkers THEN At("stopping", main.worker + 1) ELSE At("stopped", 0)
    /\ UNCHANGED <<queue, thread, current, store, reply, order>>

engine_stop ==
    \/ clear_running("stopping", "join")
    \/ join("join", "stopping", NumWorkers, "stopped")

-----------------------------------------------------------------------------
(* engine_dispatch_cmd *)

\* Mutation: commands go to the first idle worker.
MutIdlest(c) ==
    IF \E w \in Workers : queue[w] = <<>>
    THEN CHOOSE w \in Workers : queue[w] = <<>>
    ELSE WorkerOf[Key[c]]

engine_worker_for_key(c) == WorkerOf[Key[c]]

\* A command may be dispatched again once on_complete has handed it back.
engine_dispatch_cmd(c) ==
    /\ ~Pending(c)
    /\ queue' = [queue EXCEPT ![engine_worker_for_key(c)] = Append(@, c)]
    /\ order' = [order EXCEPT ![Key[c]] = Append(@, c)]
    /\ reply' = [reply EXCEPT ![c] = None]
    /\ UNCHANGED <<running, thread, current, store, main>>

-----------------------------------------------------------------------------
(* worker_thread_main *)

Move(w, from, to) == thread[w] = from /\ thread' = [thread EXCEPT ![w] = to]

\* while (w->running)
test_running(w) ==
    /\ Move(w, "test", IF running[w] THEN "poll" ELSE "exited")
    /\ UNCHANGED <<queue, running, current, store, reply, main, order>>

\* Mutation: the last command of a queue stays until another one comes.
MutPollTwo(w) ==
    /\ Len(queue[w]) > 1
    /\ Move(w, "poll", "exec")
    /\ current' = [current EXCEPT ![w] = Head(queue[w])]
    /\ queue' = [queue EXCEPT ![w] = Tail(@)]
    /\ UNCHANGED <<running, store, reply, main, order>>

\* Mutation: the command stays in the queue until it has been executed.
MutPollKeeps(w) ==
    /\ queue[w] # <<>>
    /\ Move(w, "poll", "exec")
    /\ current' = [current EXCEPT ![w] = Head(queue[w])]
    /\ UNCHANGED <<queue, running, store, reply, main, order>>

poll(w) ==
    /\ queue[w] # <<>>
    /\ Move(w, "poll", "exec")
    /\ current' = [current EXCEPT ![w] = Head(queue[w])]
    /\ queue' = [queue EXCEPT ![w] = Tail(@)]
    /\ UNCHANGED <<running, store, reply, main, order>>

\* The spin limit is reached (or every dequeue met a link in progress).
poll_empty(w) ==
    /\ Move(w, "poll", "test")
    /\ UNCHANGED <<queue, running, current, store, reply, main, order>>

Executed(w) == [order EXCEPT ![Key[current[w]]] = Tail(@)]

\* GET, SET, DEL and commands the switch does not know
execute(w) ==
    LET c == current[w]
        k == Key[c]
    IN  /\ Move(w, "exec", "notify")
        /\ \/ Type[c] = "GET" /\ reply' = [reply EXCEPT ![c] = store[k]] /\ UNCHANGED store
           \/ /\ Type[c] = "SET"
              /\ \/ store' = [store EXCEPT ![k] = Value[c]] /\ reply' = [reply EXCEPT ![c] = "OK"]
                 \/ reply' = [reply EXCEPT ![c] = "ERR"] /\ UNCHANGED store
           \/ /\ Type[c] = "DEL"
              /\ store' = [store EXCEPT ![k] = None]
              /\ reply' = [reply EXCEPT ![c] = IF store[k] = None THEN "0" ELSE "1"]
           \/ Type[c] = "OTHER" /\ reply' = [reply EXCEPT ![c] = "ERR"] /\ UNCHANGED store
        /\ order' = Executed(w)
        /\ UNCHANGED <<queue, running, current, main>>

\* NEX_CMD_SHUTDOWN: on_complete is not called, the command is not handed back.
shutdown(w) ==
    /\ Move(w, "exec", "exited")
    /\ Type[current[w]] = "SHUTDOWN"
    /\ running' = [running EXCEPT ![w] = FALSE]
    /\ order' = Executed(w)
    /\ UNCHANGED <<queue, current, store, reply, main>>

on_complete(w) ==
    /\ Move(w, "notify", "test")
    /\ current' = [current EXCEPT ![w] = None]
    /\ UNCHANGED <<queue, running, store, reply, main, order>>

worker_thread_main(w) ==
    test_running(w) \/ poll(w) \/ poll_empty(w) \/ execute(w) \/ shutdown(w) \/ on_complete(w)

Next ==
    \/ start_worker \/ start_fails \/ undo_start \/ call_stop \/ engine_stop
    \/ \E c \in Cmds : engine_dispatch_cmd(c)
    \/ \E w \in Workers : worker_thread_main(w)

(***************************************************************************)
(* Threads run; a dequeue that keeps being tried on a queue that is not    *)
(* empty succeeds (EventuallyReturned of MPSCQueue).  Nobody has to stop   *)
(* the engine or dispatch anything.                                        *)
(***************************************************************************)
Fairness ==
    /\ \A w \in Workers : WF_vars(worker_thread_main(w)) /\ SF_vars(poll(w))
    /\ WF_vars(start_worker \/ undo_start \/ engine_stop)

Spec == Init /\ [][Next]_vars /\ Fairness

-----------------------------------------------------------------------------

\* The shape of the state.
TypeOK ==
    /\ queue \in [Workers -> Seq(Cmds)]
    /\ running \in [Workers -> BOOLEAN]
    /\ thread \in [Workers -> {"none", "test", "poll", "exec", "notify", "exited"}]
    /\ current \in [Workers -> Cmds \cup {None}]
    /\ DOMAIN store = Keys
    /\ DOMAIN reply = Cmds
    /\ main.worker \in 0 .. NumWorkers
    /\ order \in [Keys -> Seq(Cmds)]

(***************************************************************************)
(* The commands on one key are executed one at a time and in the order of  *)
(* their dispatch, although a dequeue, an execution and a notification are *)
(* separate steps and workers run in parallel.                             *)
(***************************************************************************)
ExecutesInOrder ==
    /\ \A w \in Workers : thread[w] = "exec" =>
           order[Key[current[w]]] # <<>> /\ current[w] = Head(order[Key[current[w]]])
    /\ \A v, w \in Workers : v # w /\ {thread[v], thread[w]} \subseteq {"exec", "notify"} =>
           Key[current[v]] # Key[current[w]]

(***************************************************************************)
(* A command handed to the engine is in one place only, so it is executed  *)
(* once and its memory is not handed back while a queue still links to it. *)
(***************************************************************************)
OnePlace ==
    \A v, w \in Workers :
        /\ IsInjective(queue[w])
        /\ current[v] # None => current[v] \notin Range(queue[w])
        /\ v # w => /\ Range(queue[v]) \cap Range(queue[w]) = {}
                    /\ (current[v] # None => current[v] # current[w])

(***************************************************************************)
(* Once engine_stop, or a failed engine_start, has returned, no worker     *)
(* changes the storage, takes a command or moves any more.                 *)
(***************************************************************************)
QuietAfterStop ==
    [][main.step \in {"stopped", "failed"} => UNCHANGED <<store, thread, current>>]_vars

(***************************************************************************)
(* A command is completed unless its worker is stopped: by engine_stop, by *)
(* a SHUTDOWN, or because engine_start failed.                             *)
(***************************************************************************)
EveryCommandCompletes ==
    \A c \in Cmds : Pending(c) ~>
        ~Pending(c) \/ main.step = "failed" \/ thread[WorkerOf[Key[c]]] = "exited"

\* engine_stop and the undoing of engine_start return.
StopReturns ==
    main.step \in {"stopping", "join", "undo", "undo join"} ~> main.step \in {"stopped", "failed"}
=============================================================================
