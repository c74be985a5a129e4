----------------------------- MODULE MCKeyspace -----------------------------
(***************************************************************************)
(* Instances of three parts of the server's main thread, one of which      *)
(* moves in a behaviour:                                                   *)
(*  - "keyspace": two keys; one seed gives them the same bit of the        *)
(*    filter, the other not;                                               *)
(*  - "multi": two clients watch one key, in both databases or in one, and *)
(*    the second runs a transaction of at most two commands;               *)
(*  - "io": a client with one request and two threads with rings of one    *)
(*    job, which an object to free or a message may fill.                  *)
(* The variables of the last two are 0 while they do not move.             *)
(***************************************************************************)
EXTENDS Keyspace, TLC

CONSTANTS Parts, k1, k2, c1, c2

MCHashes == {k1 :> 0 @@ k2 :> 0, k1 :> 0 @@ k2 :> 1}

VARIABLES
    part,
    store, watched, client, watching, since, lost,
    ioClient, jobs, active, poll, mutex, io, main, requests, extra, dropped

Tx == INSTANCE Multi WITH
    Clients <- {c1, c2}, Selects <- (c1 :> {0} @@ c2 :> {0, 1}), Executors <- {c2},
    Keys <- {k1}, Commands <- {<<"set", 0, k1>>}, MaxQueue <- 2

IO == INSTANCE IOThreads WITH
    Clients <- <<c1>>, Id <- (c1 :> 1), io_threads_num <- 3, Size <- 1,
    Requests <- (c1 :> 1), MaxExtra <- 1, AofAlways <- FALSE,
    client <- ioClient

txVars == <<store, watched, client, watching, since, lost>>
ioVars == <<ioClient, jobs, active, poll, mutex, io, main, requests, extra, dropped>>

MCInit ==
    /\ part \in Parts
    /\ Init
    /\ part # "keyspace" => hash = CHOOSE h \in Hashes : TRUE
    /\ IF part = "multi" THEN Tx!Init
       ELSE store = 0 /\ watched = 0 /\ client = 0 /\ watching = 0 /\ since = 0 /\ lost = 0
    /\ IF part = "io" THEN IO!Init
       ELSE /\ ioClient = 0 /\ jobs = 0 /\ active = 0 /\ poll = 0 /\ mutex = 0
            /\ io = 0 /\ main = 0 /\ requests = 0 /\ extra = 0 /\ dropped = 0

MCNext ==
    \/ part = "keyspace" /\ Next /\ UNCHANGED <<part, txVars, ioVars>>
    \/ part = "multi" /\ Tx!Next /\ UNCHANGED <<part, vars, ioVars>>
    \/ part = "io" /\ IO!Next /\ UNCHANGED <<part, vars, txVars>>

\* The fairness of the I/O threads; the other parts only answer commands.
MCSpec ==
    /\ MCInit /\ [][MCNext]_<<part, vars, txVars, ioVars>>
    /\ WF_ioVars(part = "io" /\ IO!Main)
    /\ \A t \in {1, 2} : WF_ioVars(part = "io" /\ IO!IOThreadMain(t))

-----------------------------------------------------------------------------
(* The properties of Multi and IOThreads while they move; see there. *)

\* What touchWatchedKey promises, an EXEC that runs finds its keys unchanged,
\* but for writes behind a watchedKey whose lapsed flag is stale.
TxWatchedUnchangedUnlessHidden == part = "multi" => Tx!WatchedUnchangedUnlessHidden

\* EXEC is decided for a reason: it answers nil only when a watched key did
\* change, and if it runs it runs every command that was answered QUEUED.
TxOutcomeIsDue == part = "multi" => Tx!AbortsForAReason /\ Tx!RunsAllQueued

\* PENDING_IO means one open job, so that a freed client has none, and the open
\* jobs of a client are in one ring.
IOJobsAreOwned == part = "io" => IO!PendingIsOneJob /\ IO!OneThreadPerClient

\* A waiting reply is in a list or has a write handler, unless dropped.
IORepliesHaveAPlace == part = "io" => IO!RepliesHaveAPlace

\* A read given to a thread comes back to the main thread.
IOReadsComeBack ==
    (part = "io" /\ ioClient[c1].read # "IDLE") ~> (part = "io" /\ ioClient[c1].read = "IDLE")
=============================================================================
