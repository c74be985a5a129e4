------------------------------ MODULE IOThreads ------------------------------
(***************************************************************************)
(* The I/O threads (io_threads.c) and the main thread's side of them       *)
(* (networking.c, beforeSleep and afterSleep of server.c): the main thread *)
(* hands the reading and the writing of a client to a thread through that  *)
(* thread's ring buffer, and takes the client back when it is done.        *)
(*                                                                         *)
(* A client's io_read_state and io_write_state are IDLE, PENDING_IO or     *)
(* COMPLETED_IO.  The main thread goes round: it polls, serves the events, *)
(* takes back reads, writes what is pending, and so on.  Each of these     *)
(* functions is one step; between them, and during the events, the other   *)
(* threads run.  A thread looks at its ring, runs the handler of the first *)
(* job and removes the job afterwards.                                     *)
(***************************************************************************)
EXTENDS Integers, FiniteSets, Sequences, SequencesExt

CONSTANTS
    Clients,       \* a sequence: the order of the lists of clients
    Id,            \* client -> c->id
    io_threads_num,
    Size,          \* jobs that fit in a ring (one less than its slots)
    Requests,      \* client -> bound on its requests
    MaxExtra,      \* bound on the objects freed and the messages pushed
    AofAlways      \* server.aof_fsync = AOF_FSYNC_ALWAYS

VARIABLES
    client,        \* client -> its I/O state
    jobs,          \* thread -> the jobs in its ring, the oldest first
    active,        \* server.active_io_threads_num
    poll,          \* server.io_poll_state
    mutex,         \* thread -> whether the main thread holds its mutex
    io,            \* thread -> where it is, and jobs_to_process
    main,          \* where the main thread is
    requests,      \* client -> requests it has still to send
    extra,         \* other events still to come
    dropped        \* auxiliary: clients that left the pending writes unwritten

vars == <<client, jobs, active, poll, mutex, io, main, requests, extra, dropped>>

ClientSet == {Clients[i] : i \in DOMAIN Clients}
Threads == 1 .. io_threads_num - 1

NewClient ==
    [read |-> "IDLE", write |-> "IDLE", tid |-> 0, replies |-> 0,
     given |-> 0,           \* replies up to io_last_bufpos
     sent |-> 0,            \* replies written, from nwritten
     ready |-> FALSE,       \* its socket was polled as writable
     list |-> "none",       \* the list of pending writes that holds it
     handler |-> FALSE,     \* the write handler is installed
     alive |-> TRUE]

Init ==
    /\ client = [c \in ClientSet |-> NewClient]
    /\ jobs = [t \in Threads |-> << >>]
    /\ active = 1
    /\ poll = "NONE"
    /\ mutex = [t \in Threads |-> TRUE]
    /\ io = [t \in Threads |-> [pc |-> "look", left |-> 0]]
    /\ main = "poll"
    /\ requests = Requests
    /\ extra = MaxExtra
    /\ dropped = {}

-----------------------------------------------------------------------------
(* What the main thread's functions do to the clients and the rings        *)

Server == [client |-> client, jobs |-> jobs, active |-> active, dropped |-> dropped]

Become(s) ==
    client' = s.client /\ jobs' = s.jobs /\ active' = s.active /\ dropped' = s.dropped

\* One slot of a ring stays free, to tell a full one from an empty one.
IsFull(s, t) == Len(s.jobs[t]) = Size

Thread(s, c) == (Id[c] % (s.active - 1)) + 1

Push(s, t, job) == [s EXCEPT !.jobs[t] = Append(@, job)]

\* The ring for a client's job: that of its other job while that is pending.
RingFor(s, c, other) == IF other = "PENDING" THEN s.client[c].tid ELSE Thread(s, c)

CanSendWrite(s, c) ==
    /\ s.active > 1
    /\ s.client[c].write = "IDLE"
    /\ s.client[c].replies > 0
    /\ ~IsFull(s, RingFor(s, c, s.client[c].read))

\* C_OK also when a thread already writes for the client.
SentWrite(s, c) == s.active > 1 /\ (s.client[c].write # "IDLE" \/ CanSendWrite(s, c))

trySendWriteToIOThreads(s, c) ==
    IF ~CanSendWrite(s, c) THEN s
    ELSE LET t == RingFor(s, c, s.client[c].read)
         IN  Push([s EXCEPT !.client[c] =
                      [@ EXCEPT !.tid = t, !.list = "io", !.write = "PENDING",
                                !.given = s.client[c].replies],
                       !.dropped = @ \ {c}], t, <<"write", c>>)

CanSendRead(s, c) ==
    s.active > 1 /\ s.client[c].read = "IDLE" /\ ~IsFull(s, RingFor(s, c, s.client[c].write))

trySendReadToIOThreads(s, c) ==
    LET t == RingFor(s, c, s.client[c].write)
    IN  Push([s EXCEPT !.client[c] = [@ EXCEPT !.tid = t, !.read = "PENDING"]],
             t, <<"read", c>>)

putClientInPendingWriteQueue(s, c) ==
    [s EXCEPT !.client[c].list = IF @ = "none" THEN "pending" ELSE @]

\* A client that has pending data should already be set up to write it.
addReply(s, c) ==
    [(IF s.client[c].replies = 0 THEN putClientInPendingWriteQueue(s, c) ELSE s)
        EXCEPT !.client[c].replies = @ + 1]

beforeNextClient(s, c) == IF AofAlways THEN s ELSE trySendWriteToIOThreads(s, c)

\* What was read of the client is processed; a whole command is replied to.
Serve(s, c, whole) == beforeNextClient(IF whole THEN addReply(s, c) ELSE s, c)

\* The n oldest replies are gone; the handler goes with the last of them.
postWriteToClient(s, c, n) ==
    [s EXCEPT !.client[c] = [@ EXCEPT !.replies = @ - n,
                                      !.handler = @ /\ s.client[c].replies # n]]

\* A write by the main thread, of all the replies or of none.
writeToClient(s, c, all) ==
    LET n == s.client[c].replies
    IN  IF s.client[c].write # "IDLE" \/ s.client[c].read # "IDLE" THEN s
        ELSE IF all THEN postWriteToClient(s, c, n)
        ELSE [s EXCEPT !.client[c].handler = TRUE]

\* Mutation: what is left is given to a thread or to nobody.
MutWriteDone(s, c, allow_async_writes) ==
    LET d == postWriteToClient(
                 [s EXCEPT !.client[c] = [@ EXCEPT !.list = "none", !.write = "IDLE",
                                                   !.given = 0, !.sent = 0, !.ready = FALSE]],
                 c, s.client[c].sent)
    IN  CASE d.client[c].replies = 0 -> d
          [] d.client[c].replies > 0 /\ s.client[c].sent = 0 ->
                [d EXCEPT !.client[c].handler = TRUE]
          [] OTHER -> IF allow_async_writes THEN trySendWriteToIOThreads(d, c) ELSE d

\* When nothing could be written the socket is full: wait for it.
processClientIOWriteDone(s, c, allow_async_writes) ==
    LET d == postWriteToClient(
                 [s EXCEPT !.client[c] = [@ EXCEPT !.list = "none", !.write = "IDLE",
                                                   !.given = 0, !.sent = 0, !.ready = FALSE]],
                 c, s.client[c].sent)
    IN  CASE d.client[c].replies = 0 -> d
          [] d.client[c].replies > 0 /\ s.client[c].sent = 0 ->
                [d EXCEPT !.client[c].handler = TRUE]
          [] OTHER -> IF allow_async_writes /\ CanSendWrite(d, c)
                      THEN trySendWriteToIOThreads(d, c)
                      ELSE putClientInPendingWriteQueue(d, c)

Pending(s, c) == s.client[c].read = "PENDING" \/ s.client[c].write = "PENDING"

ReadDone(s, c, whole) ==
    LET w == IF s.client[c].write = "COMPLETED"
             THEN processClientIOWriteDone(s, c, FALSE) ELSE s
    IN  IF s.client[c].read = "IDLE" \/ Pending(s, c) THEN s
        ELSE Serve([w EXCEPT !.client[c].read = "IDLE"], c, c \in whole)

WriteDone(s, c) ==
    IF s.client[c].list # "io" \/ Pending(s, c) THEN s
    ELSE processClientIOWriteDone(s, c, TRUE)

\* all: the clients whose socket takes everything
HandlePendingWrite(s, c, all) ==
    LET d == [s EXCEPT !.client[c].list = "none"]
    IN  CASE s.client[c].list # "pending" -> s
          [] s.client[c].list = "pending" /\ s.client[c].replies = 0 -> d
          [] s.client[c].list = "pending" /\ s.client[c].replies > 0 /\ SentWrite(d, c) ->
                trySendWriteToIOThreads(d, c)
          [] OTHER -> writeToClient([d EXCEPT !.dropped =
                                         IF s.client[c].read = "IDLE" THEN @ \ {c} ELSE @ \cup {c}],
                                     c, c \in all)

-----------------------------------------------------------------------------
(* The main thread                                                         *)

\* Mutation: threads are stopped whatever is in their rings.
MutStopAnyway(s, target) == target

\* A thread is stopped only when its ring is empty, from the last one (s are
\* the rings).
StopAsFar(s, target) ==
    CHOOSE n \in target .. active :
        /\ \A t \in n .. active - 1 : s[t] = << >>
        /\ n = target \/ s[n - 1] # << >>

\* The poll, by the main thread or by a thread that was asked before; no
\* events while that thread has not answered.
Poll ==
    /\ main = "poll"
    /\ main' = IF poll = "POLL" THEN "nothing" ELSE "adjust"
    /\ poll' = IF poll = "POLL" THEN poll ELSE "NONE"
    /\ UNCHANGED <<client, jobs, active, mutex, io, requests, extra, dropped>>

\* The target comes from the number of events.
adjustIOThreadsByEventLoad ==
    /\ main \in {"adjust", "nothing"}
    /\ \E target \in IF main = "nothing" THEN {1} ELSE 1 .. io_threads_num :
        LET n == IF target < active THEN StopAsFar(jobs, target) ELSE target
        IN  active' = n /\ mutex' = [t \in Threads |-> t >= n]
    /\ main' = IF main = "nothing" THEN "read1" ELSE "events"
    /\ UNCHANGED <<client, jobs, poll, io, requests, extra, dropped>>

\* The client's socket is readable: a request has come.
readQueryFromClient(c) ==
    /\ main = "events"
    /\ client[c].alive /\ requests[c] > 0
    /\ client[c].read = "IDLE"
    /\ \/ CanSendRead(Server, c) /\ Become(trySendReadToIOThreads(Server, c))
       \/ /\ ~CanSendRead(Server, c) /\ client[c].write = "IDLE"
          /\ \E whole \in BOOLEAN : Become(Serve(Server, c, whole))
    /\ requests' = [requests EXCEPT ![c] = @ - 1]
    /\ UNCHANGED <<poll, mutex, io, main, extra>>

sendReplyToClient(c) ==
    /\ main = "events"
    /\ client[c].alive /\ client[c].handler
    /\ \/ SentWrite(Server, c) /\ Become(trySendWriteToIOThreads(
                                       [Server EXCEPT !.client[c].ready = TRUE], c))
       \/ ~SentWrite(Server, c) /\ Become(writeToClient(Server, c, TRUE))
    /\ UNCHANGED <<poll, mutex, io, main, requests, extra>>

\* Another client's command, as PUBLISH, sends the client a message.
Message(c) ==
    /\ main = "events" /\ extra > 0
    /\ client[c].alive
    /\ Become(addReply(Server, c))
    /\ extra' = extra - 1
    /\ UNCHANGED <<poll, mutex, io, main, requests>>

tryOffloadFreeObjToIOThreads ==
    /\ main = "events" /\ extra > 0 /\ active > 1
    /\ \E t \in 1 .. active - 1 :
        ~IsFull(Server, t) /\ Become(Push(Server, t, <<"free">>))
    /\ extra' = extra - 1
    /\ UNCHANGED <<poll, mutex, io, main, requests>>

\* Mutation: the client is freed while a thread may have it.
MutNoWait(c) ==
    /\ main = "events"
    /\ client[c].alive
    /\ client' = [client EXCEPT ![c] = [NewClient EXCEPT !.alive = FALSE]]
    /\ requests' = [requests EXCEPT ![c] = 0]
    /\ UNCHANGED <<jobs, active, poll, mutex, io, main, extra, dropped>>

\* waitForClientIO holds the main thread until no thread has the client.
freeClient(c) ==
    /\ main = "events"
    /\ client[c].alive
    /\ ~Pending(Server, c)
    /\ client' = [client EXCEPT ![c] = [NewClient EXCEPT !.alive = FALSE]]
    /\ requests' = [requests EXCEPT ![c] = 0]
    /\ UNCHANGED <<jobs, active, poll, mutex, io, main, extra, dropped>>

Goto(from, to) == main = from /\ main' = to

EndEvents ==
    /\ Goto("events", "read1")
    /\ UNCHANGED <<client, jobs, active, poll, mutex, io, requests, extra, dropped>>

Visit(Op(_, _), s) == FoldLeft(Op, s, Clients)

\* Reads that were done, of a whole command or of a part of one.
TakeReads(s) ==
    \E whole \in SUBSET {c \in ClientSet : s.client[c].read = "COMPLETED"} :
        Become(Visit(LAMBDA a, c : ReadDone(a, c, whole), s))

\* beforeSleep: trySendPollJobToIOThreads, processIOThreadsReadDone
PollJobAndReads ==
    /\ Goto("read1", "write1")
    /\ LET ask == /\ active > 1 /\ poll = "NONE"
                  /\ \E c \in ClientSet : client[c].read # "IDLE" \/ client[c].list = "io"
                  /\ ~IsFull(Server, active - 1)
       IN  /\ poll' = IF ask THEN "POLL" ELSE poll
           /\ TakeReads(IF ask THEN Push(Server, active - 1, <<"poll">>) ELSE Server)
    /\ UNCHANGED <<mutex, io, requests, extra>>

\* More pending writes may call for more threads, never for fewer.
handleClientsWithPendingWrites(from, to) ==
    /\ Goto(from, to)
    /\ LET pending == {c \in ClientSet : client[c].list = "pending"}
       IN  \E all \in SUBSET pending, n \in active .. io_threads_num :
            /\ n = active \/ (pending # {} /\ n <= Cardinality(pending) + 1)
            /\ Become(Visit(LAMBDA s, c : HandlePendingWrite(s, c, all),
                            [Server EXCEPT !.active = n]))
            /\ mutex' = [t \in Threads |-> t >= n]
    /\ UNCHANGED <<poll, io, requests, extra>>

\* The pending writes are visited again only if some read was taken back.
processIOThreadsReadDone ==
    /\ main = "read2"
    /\ ~AofAlways
    /\ main' = IF \E c \in ClientSet : client[c].read = "COMPLETED" /\ ~Pending(Server, c)
               THEN "write2" ELSE "written"
    /\ TakeReads(Server)
    /\ UNCHANGED <<poll, mutex, io, requests, extra>>

processIOThreadsWriteDone ==
    /\ main = IF AofAlways THEN "read2" ELSE "written"
    /\ main' = "poll"
    /\ Become(Visit(WriteDone, Server))
    /\ UNCHANGED <<poll, mutex, io, requests, extra>>

Main ==
    \/ Poll
    \/ adjustIOThreadsByEventLoad
    \/ EndEvents
    \/ PollJobAndReads
    \/ handleClientsWithPendingWrites("write1", "read2")
    \/ processIOThreadsReadDone
    \/ handleClientsWithPendingWrites("write2", "written")
    \/ processIOThreadsWriteDone

-----------------------------------------------------------------------------
(* An I/O thread (IOThreadMain)                                            *)

AvailableJobs(t) ==
    /\ io[t].pc = "look"
    /\ io' = [io EXCEPT ![t] = IF jobs[t] = << >> THEN [pc |-> "lock", left |-> 0]
                               ELSE [pc |-> "run", left |-> Len(jobs[t])]]
    /\ UNCHANGED <<client, jobs, active, poll, mutex, main, requests, extra, dropped>>

\* The mutex is taken and given back: the main thread stops the thread by
\* holding it.
Lock(t) ==
    /\ io[t].pc = "lock"
    /\ ~mutex[t]
    /\ io' = [io EXCEPT ![t].pc = "look"]
    /\ UNCHANGED <<client, jobs, active, poll, mutex, main, requests, extra, dropped>>

\* The handler of the first job, up to its last store.
RunHandler(t) ==
    /\ io[t].pc = "run"
    /\ LET job == Head(jobs[t])
       IN  \/ /\ job[1] = "read"
              /\ client' = [client EXCEPT ![job[2]].read = "COMPLETED"]
              /\ UNCHANGED poll
           \/ /\ job[1] = "write"
              /\ \E n \in {client[job[2]].given} \cup (IF client[job[2]].ready THEN {} ELSE {0}) :
                    client' = [client EXCEPT ![job[2]] =
                                  [@ EXCEPT !.write = "COMPLETED", !.sent = n]]
              /\ UNCHANGED poll
           \/ job[1] = "poll" /\ poll' = "DONE" /\ UNCHANGED client
           \/ job[1] = "free" /\ UNCHANGED <<client, poll>>
    /\ io' = [io EXCEPT ![t].pc = "remove"]
    /\ UNCHANGED <<jobs, active, mutex, main, requests, extra, dropped>>

IOJobQueue_removeJob(t) ==
    /\ io[t].pc = "remove"
    /\ jobs' = [jobs EXCEPT ![t] = Tail(@)]
    /\ io' = [io EXCEPT ![t] = [pc |-> IF @.left = 1 THEN "look" ELSE "run",
                                left |-> @.left - 1]]
    /\ UNCHANGED <<client, active, poll, mutex, main, requests, extra, dropped>>

IOThreadMain(t) ==
    AvailableJobs(t) \/ Lock(t) \/ RunHandler(t) \/ IOJobQueue_removeJob(t)

-----------------------------------------------------------------------------

Next ==
    \/ Main
    \/ \E c \in ClientSet :
        readQueryFromClient(c) \/ sendReplyToClient(c) \/ Message(c) \/ freeClient(c)
    \/ tryOffloadFreeObjToIOThreads
    \/ \E t \in Threads : IOThreadMain(t)

\* The event loop and the threads keep running.
Fairness ==
    /\ WF_vars(Main)
    /\ \A t \in Threads : WF_vars(IOThreadMain(t))

Spec == Init /\ [][Next]_vars /\ Fairness

-----------------------------------------------------------------------------
(* Properties                                                              *)

\* The jobs of a ring whose handler has not finished.
Open(t) == IF io[t].pc = "remove" THEN Tail(jobs[t]) ELSE jobs[t]

OpenJobs(c, op) ==
    {<<t, i>> \in Threads \X (1 .. Size) : i <= Len(Open(t)) /\ Open(t)[i] = <<op, c>>}

\* A client's state says PENDING_IO exactly while one job for it is open, so
\* that freeClient, which waits for the state only, never frees a client that a
\* thread still uses, and no job is done twice.
PendingIsOneJob ==
    \A c \in ClientSet :
        /\ Cardinality(OpenJobs(c, "read")) = IF client[c].read = "PENDING" THEN 1 ELSE 0
        /\ Cardinality(OpenJobs(c, "write")) = IF client[c].write = "PENDING" THEN 1 ELSE 0

\* The reading and the writing of one client are never given to two threads,
\* whatever happens to the number of threads in between.
OneThreadPerClient ==
    \A c \in ClientSet :
        \A a, b \in OpenJobs(c, "read") \cup OpenJobs(c, "write") : a[1] = b[1]

\* A reply that waits is in a list that the main thread will visit or is looked
\* after by the write handler, unless handleClientsWithPendingWrites dropped
\* its client because a ring was full while a thread read from it.
RepliesHaveAPlace ==
    \A c \in ClientSet : client[c].replies > 0 =>
        client[c].list # "none" \/ client[c].handler \/ c \in dropped

\* A read that was given to a thread is taken back by the main thread.
ReadsComeBack ==
    \A c \in ClientSet : client[c].read # "IDLE" ~> client[c].read = "IDLE"
==============================================================================
