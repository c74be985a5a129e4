---------------------------- MODULE EngineProofs ----------------------------
(***************************************************************************)
(* Proofs about Engine, for any number of workers, keys and commands.      *)
(*                                                                         *)
(* The inductive invariant says where the commands are, that the queue of  *)
(* a worker holds those on one key in the order of their dispatch, and how *)
(* far engine_start and engine_stop are with the threads.                  *)
(***************************************************************************)
EXTENDS Engine, TLAPS

\* The commands in the queue of a worker have keys of that worker, and none
\* is there twice or in the hands of a worker.
Queued ==
    \A w \in Workers :
        /\ IsInjective(queue[w])
        /\ \A i \in DOMAIN queue[w] :
               /\ WorkerOf[Key[queue[w][i]]] = w
               /\ \A v \in Workers : current[v] # queue[w][i]

\* The command in the hands of a worker: after a SHUTDOWN it stays there.
Held ==
    \A w \in Workers :
        /\ thread[w] \in {"exec", "notify"} => current[w] # None
        /\ thread[w] \in {"none", "test", "poll"} => current[w] = None
        /\ current[w] # None => WorkerOf[Key[current[w]]] = w

\* The commands o, dispatched on k and not executed, are those in queue q and,
\* first, the command c if the worker is busy with it; they are in the queue in
\* the order of their dispatch.
Lined(o, q, k, busy, c) ==
    /\ IsInjective(o)
    /\ \A i \in DOMAIN o :
           /\ Key[o[i]] = k
           /\ \/ \E p \in DOMAIN q : q[p] = o[i]
              \/ i = 1 /\ busy
    /\ \A p \in DOMAIN q : Key[q[p]] = k => \E i \in DOMAIN o : o[i] = q[p]
    /\ busy => o # <<>> /\ o[1] = c
    /\ \A i, j \in DOMAIN o : \A p, r \in DOMAIN q : i < j /\ q[p] = o[i] /\ q[r] = o[j] => p < r

\* Worker w executes a command on key k.
Executing(w, k) == thread[w] = "exec" /\ Key[current[w]] = k

InOrder(k, w) == Lined(order[k], queue[w], k, Executing(w, k), current[w])

Ordered == \A k \in Keys : InOrder(k, WorkerOf[k])

\* The workers that have a thread are the first ones.
ThreadsUpTo(n) == \A w \in Workers : thread[w] # "none" <=> w <= n

ExitedUpTo(n) == \A w \in Workers : w < n => thread[w] = "exited"

\* Where engine_start and engine_stop are.
Stage ==
    \/ main.step = "starting" /\ main.worker \in Workers /\ ThreadsUpTo(main.worker - 1)
    \/ main.step = "started" /\ ThreadsUpTo(NumWorkers)
    \/ /\ main.step \in {"stopping", "join"} /\ main.worker \in Workers
       /\ ThreadsUpTo(NumWorkers) /\ ExitedUpTo(main.worker)
    \/ main.step = "stopped" /\ ThreadsUpTo(NumWorkers) /\ ExitedUpTo(NumWorkers + 1)
    \/ /\ main.step \in {"undo", "undo join"}
       /\ \E n \in Workers : main.worker \in 1 .. n /\ ThreadsUpTo(n) /\ ExitedUpTo(main.worker)
    \/ /\ main.step = "failed"
       /\ \A w \in Workers : thread[w] \in {"none", "exited"}

EngineInv == TypeOK /\ Queued /\ Held /\ Ordered /\ Stage

-----------------------------------------------------------------------------
(* Sequences                                                               *)

\* What Append does.
LEMMA AppendFacts ==
    ASSUME NEW S, NEW s \in Seq(S), NEW e \in S
    PROVE  /\ Append(s, e) \in Seq(S) /\ Len(s) \in Nat /\ DOMAIN s = 1 .. Len(s)
           /\ DOMAIN Append(s, e) = 1 .. Len(s) + 1
           /\ \A i \in 1 .. Len(s) : Append(s, e)[i] = s[i]
           /\ Append(s, e)[Len(s) + 1] = e
OBVIOUS

\* An index of Append(s, e) is an index of s or the last one.
LEMMA AppendCases ==
    ASSUME NEW S, NEW s \in Seq(S), NEW e \in S
    PROVE  /\ \A i \in DOMAIN Append(s, e) : \/ i \in DOMAIN s /\ Append(s, e)[i] = s[i]
                                             \/ i = Len(s) + 1 /\ Append(s, e)[i] = e
           /\ \A i \in DOMAIN s : i \in DOMAIN Append(s, e) /\ Append(s, e)[i] = s[i]
           /\ Len(s) + 1 \in DOMAIN Append(s, e) /\ Append(s, e)[Len(s) + 1] = e
OBVIOUS

\* What Head and Tail do.
LEMMA TailFacts ==
    ASSUME NEW S, NEW s \in Seq(S), s # <<>>
    PROVE  /\ Tail(s) \in Seq(S) /\ Len(s) \in Nat \ {0} /\ DOMAIN s = 1 .. Len(s)
           /\ DOMAIN Tail(s) = 1 .. Len(s) - 1
           /\ \A i \in 1 .. Len(s) - 1 : Tail(s)[i] = s[i + 1]
           /\ Head(s) = s[1] /\ s[1] \in S
OBVIOUS

\* Without duplicates, what was appended differs from what was there.
LEMMA AppendKeepsInjective ==
    ASSUME NEW S, NEW s \in Seq(S), NEW e \in S, IsInjective(s), \A i \in DOMAIN s : s[i] # e
    PROVE  IsInjective(Append(s, e))
<1>1. /\ Len(s) \in Nat /\ DOMAIN s = 1 .. Len(s) /\ DOMAIN Append(s, e) = 1 .. Len(s) + 1
      /\ \A i \in 1 .. Len(s) : Append(s, e)[i] = s[i]
      /\ Append(s, e)[Len(s) + 1] = e
  BY AppendFacts
<1>2. \A i \in DOMAIN Append(s, e) : i \in DOMAIN s \/ i = Len(s) + 1 BY <1>1
<1>3. \A i, j \in DOMAIN Append(s, e) : Append(s, e)[i] = Append(s, e)[j] => i = j
  <2> SUFFICES ASSUME NEW t, t = Append(s, e)
               PROVE  \A i, j \in DOMAIN t : t[i] = t[j] => i = j
    BY Zenon
  <2> QED BY <1>1, <1>2 DEF IsInjective
<1> QED BY <1>3, Zenon DEF IsInjective

\* A tail has no duplicates either, and not the head.
LEMMA TailKeepsInjective ==
    ASSUME NEW S, NEW s \in Seq(S), s # <<>>, IsInjective(s)
    PROVE  IsInjective(Tail(s)) /\ \A i \in DOMAIN Tail(s) : Tail(s)[i] # s[1]
BY TailFacts DEF IsInjective

\* A command on k is dispatched.
LEMMA LinedDispatch ==
    ASSUME NEW o \in Seq(Cmds), NEW q \in Seq(Cmds), NEW k, NEW busy \in BOOLEAN, NEW c,
           Lined(o, q, k, busy, c),
           NEW d \in Cmds, Key[d] = k, \A p \in DOMAIN q : q[p] # d, busy => c # d
    PROVE  Lined(Append(o, d), Append(q, d), k, busy, c)
<1> DEFINE o2 == Append(o, d)
           q2 == Append(q, d)
<1>1. /\ Len(q) \in Nat /\ DOMAIN q = 1 .. Len(q)
      /\ Len(o) \in Nat /\ DOMAIN o = 1 .. Len(o) /\ DOMAIN o2 = 1 .. Len(o) + 1
  <2>1. DOMAIN o2 = 1 .. Len(o) + 1 OBVIOUS
  <2> QED BY <2>1
<1>2. o2[Len(o) + 1] = d /\ q2[Len(q) + 1] = d BY AppendFacts
<1>3. \A i \in DOMAIN o : o[i] # d BY DEF Lined
<1>4. IsInjective(o2)
  <2>1. IsInjective(o) BY Zenon DEF Lined
  <2> QED BY <2>1, <1>3, AppendKeepsInjective, Zenon
<1>5. \A i \in DOMAIN o2 : (i \in DOMAIN o /\ o2[i] = o[i]) \/ (i = Len(o) + 1 /\ o2[i] = d)
  BY AppendCases, Zenon
<1>6. \A p \in DOMAIN q2 : (p \in DOMAIN q /\ q2[p] = q[p]) \/ (p = Len(q) + 1 /\ q2[p] = d)
  BY AppendCases, Zenon
<1>7. \A p \in DOMAIN q : p \in DOMAIN q2 /\ q2[p] = q[p] BY AppendCases, Zenon
<1>8. \A i \in DOMAIN o : i \in DOMAIN o2 /\ o2[i] = o[i] BY AppendCases, Zenon
<1>9. Len(q) + 1 \in DOMAIN q2 /\ Len(o) + 1 \in DOMAIN o2 BY AppendCases, Zenon
<1> HIDE DEF o2, q2
<1>10. ASSUME NEW i \in DOMAIN o2
       PROVE  /\ Key[o2[i]] = k
              /\ \/ \E p \in DOMAIN q2 : q2[p] = o2[i]
                 \/ i = 1 /\ busy
  <2>1. CASE i \in DOMAIN o /\ o2[i] = o[i] BY <2>1, <1>7 DEF Lined
  <2>2. CASE o2[i] = d BY <2>2, <1>2, <1>9
  <2> QED BY <2>1, <2>2, <1>5
<1>11. ASSUME NEW p \in DOMAIN q2, Key[q2[p]] = k
       PROVE  \E i \in DOMAIN o2 : o2[i] = q2[p]
  <2>1. CASE p \in DOMAIN q /\ q2[p] = q[p] BY <2>1, <1>8, <1>11 DEF Lined
  <2>2. CASE q2[p] = d BY <2>2, <1>2, <1>9
  <2> QED BY <2>1, <2>2, <1>6
<1>12. busy => o2 # <<>> /\ o2[1] = c
  <2> SUFFICES ASSUME busy PROVE o2 # <<>> /\ o2[1] = c OBVIOUS
  <2>1. o # <<>> /\ o[1] = c BY DEF Lined
  <2>2. 1 \in DOMAIN o /\ 1 \in DOMAIN o2 BY <2>1, <1>1
  <2> QED BY <2>1, <2>2, <1>8
<1>13. ASSUME NEW i \in DOMAIN o2, NEW j \in DOMAIN o2, NEW p \in DOMAIN q2, NEW r \in DOMAIN q2,
              i < j, q2[p] = o2[i], q2[r] = o2[j]
       PROVE  p < r
  <2>1. i \in DOMAIN o /\ o2[i] = o[i]
    <3>1. i # Len(o) + 1 BY <1>1, <1>13
    <3> QED BY <3>1, <1>5, Zenon
  <2>2. p \in DOMAIN q /\ q2[p] = q[p] BY <1>3, <1>6, <1>13, <2>1
  <2>3. CASE j \in DOMAIN o /\ o2[j] = o[j]
    <3>1. r \in DOMAIN q /\ q2[r] = q[r] BY <1>3, <1>6, <1>13, <2>3
    <3>2. \A a, b \in DOMAIN o : \A x, y \in DOMAIN q :
              a < b /\ q[x] = o[a] /\ q[y] = o[b] => x < y
      BY Zenon DEF Lined
    <3>3. q[p] = o[i] /\ q[r] = o[j] BY <1>13, <2>1, <2>2, <2>3, <3>1
    <3> QED BY <1>13, <2>1, <2>2, <2>3, <3>1, <3>2, <3>3, Zenon
  <2>4. CASE o2[j] = d
    <3>1. r = Len(q) + 1 BY <1>6, <1>13, <2>4
    <3> QED BY <3>1, <2>2, <1>1
  <2> QED BY <2>3, <2>4, <1>5
<1>14. Lined(o2, q2, k, busy, c) BY <1>4, <1>10, <1>11, <1>12, <1>13, Zenon DEF Lined
<1> QED BY <1>14 DEF o2, q2

\* A command on another key is dispatched to the same queue.
LEMMA LinedOther ==
    ASSUME NEW o \in Seq(Cmds), NEW q \in Seq(Cmds), NEW k, NEW busy \in BOOLEAN, NEW c,
           Lined(o, q, k, busy, c), NEW d \in Cmds, Key[d] # k
    PROVE  Lined(o, Append(q, d), k, busy, c)
<1> SUFFICES ASSUME NEW q2, q2 = Append(q, d) PROVE Lined(o, q2, k, busy, c) BY Zenon
<1>1. /\ Len(q) \in Nat /\ DOMAIN q = 1 .. Len(q)
      /\ DOMAIN q2 = 1 .. Len(q) + 1 /\ \A i \in 1 .. Len(q) : q2[i] = q[i]
      /\ q2[Len(q) + 1] = d
  BY AppendFacts
<1>2. \A p \in DOMAIN q2 : (p \in DOMAIN q /\ q2[p] = q[p]) \/ q2[p] = d BY <1>1
<1>3. \A p \in DOMAIN q : p \in DOMAIN q2 /\ q2[p] = q[p] BY <1>1
<1>4. \A i \in DOMAIN o : o[i] # d BY DEF Lined
<1>5. \A i \in DOMAIN o : /\ Key[o[i]] = k
                          /\ \/ \E p \in DOMAIN q2 : q2[p] = o[i]
                             \/ i = 1 /\ busy
  BY <1>3 DEF Lined
<1>6. \A p \in DOMAIN q2 : Key[q2[p]] = k => \E i \in DOMAIN o : o[i] = q2[p]
  BY <1>2 DEF Lined
<1>7. \A i, j \in DOMAIN o : \A p, r \in DOMAIN q2 :
          i < j /\ q2[p] = o[i] /\ q2[r] = o[j] => p < r
  BY <1>2, <1>4 DEF Lined
<1> QED BY <1>5, <1>6, <1>7, Zenon DEF Lined

\* The first command of a queue is the oldest one on its key.
LEMMA LinedPoll ==
    ASSUME NEW o \in Seq(Cmds), NEW q \in Seq(Cmds), NEW k, NEW c, Lined(o, q, k, FALSE, c),
           q # <<>>, IsInjective(q)
    PROVE  Lined(o, Tail(q), k, Key[q[1]] = k, q[1])
<1> SUFFICES ASSUME NEW q2, q2 = Tail(q), NEW d, d = q[1]
             PROVE  Lined(o, q2, k, Key[d] = k, d)
  BY Zenon
<1>1. /\ Len(q) \in Nat \ {0} /\ DOMAIN q = 1 .. Len(q) /\ DOMAIN q2 = 1 .. Len(q) - 1
      /\ \A i \in 1 .. Len(q) - 1 : q2[i] = q[i + 1]
  BY TailFacts
<1>2. \A p \in DOMAIN q2 : p + 1 \in DOMAIN q /\ q2[p] = q[p + 1] BY <1>1
<1>3. \A p \in DOMAIN q : p # 1 => p - 1 \in DOMAIN q2 /\ q2[p - 1] = q[p] BY <1>1
<1>4. 1 \in DOMAIN q BY <1>1
<1>5. DOMAIN o = 1 .. Len(o) /\ Len(o) \in Nat OBVIOUS
<1>6. Key[d] = k => o # <<>> /\ 1 \in DOMAIN o /\ o[1] = d
  <2> SUFFICES ASSUME Key[d] = k PROVE o # <<>> /\ 1 \in DOMAIN o /\ o[1] = d OBVIOUS
  <2>1. PICK i \in DOMAIN o : o[i] = d BY <1>4 DEF Lined
  <2>2. 1 \in DOMAIN o /\ o # <<>> BY <1>5, <2>1
  <2>3. PICK p \in DOMAIN q : q[p] = o[1] BY <2>2 DEF Lined
  <2>4. i = 1
    <3> SUFFICES ASSUME i # 1 PROVE FALSE OBVIOUS
    <3>1. 1 < i BY <1>5, <2>1
    <3>2. p < 1 BY <1>4, <2>1, <2>2, <2>3, <3>1 DEF Lined
    <3> QED BY <3>2, <1>1
  <2> QED BY <2>1, <2>2, <2>4
<1>7. ASSUME NEW i \in DOMAIN o
      PROVE  /\ Key[o[i]] = k
             /\ \/ \E p \in DOMAIN q2 : q2[p] = o[i]
                \/ i = 1 /\ Key[d] = k
  <2>1. Key[o[i]] = k BY DEF Lined
  <2>2. PICK p \in DOMAIN q : q[p] = o[i] BY DEF Lined
  <2>3. CASE p = 1
    <3>1. i = 1 BY <1>6, <2>1, <2>2, <2>3 DEF Lined, IsInjective
    <3> QED BY <2>1, <2>2, <2>3, <3>1
  <2>4. CASE p # 1 BY <2>1, <2>2, <2>4, <1>3, Zenon
  <2> QED BY <2>3, <2>4
<1>8. \A p \in DOMAIN q2 : Key[q2[p]] = k => \E i \in DOMAIN o : o[i] = q2[p]
  BY <1>2 DEF Lined
<1>9. ASSUME NEW i \in DOMAIN o, NEW j \in DOMAIN o, NEW p \in DOMAIN q2, NEW r \in DOMAIN q2,
             i < j, q2[p] = o[i], q2[r] = o[j]
      PROVE  p < r
  <2>1. p + 1 < r + 1 BY <1>2, <1>9 DEF Lined
  <2> QED BY <2>1, <1>1
<1>10. IsInjective(o) BY DEF Lined
<1> QED BY <1>6, <1>7, <1>8, <1>9, <1>10 DEF Lined

\* The oldest command on a key is executed.
LEMMA LinedExecute ==
    ASSUME NEW o \in Seq(Cmds), NEW q \in Seq(Cmds), NEW k, NEW c, Lined(o, q, k, TRUE, c),
           \A p \in DOMAIN q : q[p] # c
    PROVE  Lined(Tail(o), q, k, FALSE, c)
<1> SUFFICES ASSUME NEW o2, o2 = Tail(o) PROVE Lined(o2, q, k, FALSE, c) BY Zenon
<1>1. o # <<>> /\ o[1] = c /\ IsInjective(o) BY DEF Lined
<1>2. /\ Len(o) \in Nat \ {0} /\ DOMAIN o = 1 .. Len(o) /\ DOMAIN o2 = 1 .. Len(o) - 1
      /\ \A i \in 1 .. Len(o) - 1 : o2[i] = o[i + 1]
  BY <1>1, TailFacts
<1>3. IsInjective(o2) BY <1>1, TailKeepsInjective, Zenon
<1>4. \A i \in DOMAIN o2 : i + 1 \in DOMAIN o /\ i + 1 # 1 /\ o2[i] = o[i + 1] BY <1>2
<1>5. \A i \in DOMAIN o : i # 1 => i - 1 \in DOMAIN o2 /\ o2[i - 1] = o[i] BY <1>2
<1>6. \A i \in DOMAIN o2 : Key[o2[i]] = k /\ \E p \in DOMAIN q : q[p] = o2[i]
  BY <1>4 DEF Lined
<1>7. ASSUME NEW p \in DOMAIN q, Key[q[p]] = k
      PROVE  \E i \in DOMAIN o2 : o2[i] = q[p]
  <2>1. PICK i \in DOMAIN o : o[i] = q[p] BY <1>7 DEF Lined
  <2>2. i # 1 BY <1>1, <2>1
  <2> QED BY <2>1, <2>2, <1>5, Zenon
<1>8. ASSUME NEW i \in DOMAIN o2, NEW j \in DOMAIN o2, NEW p \in DOMAIN q, NEW r \in DOMAIN q,
             i < j, q[p] = o2[i], q[r] = o2[j]
      PROVE  p < r
  <2>1. i + 1 < j + 1 BY <1>2, <1>8
  <2> QED BY <1>4, <1>8, <2>1 DEF Lined
<1> QED BY <1>3, <1>6, <1>7, <1>8 DEF Lined

\* InOrder after a step, from what the step left.
LEMMA InOrderAfter ==
    ASSUME NEW k, NEW w, NEW o, NEW q, NEW busy \in BOOLEAN, NEW c, Lined(o, q, k, busy, c),
           order'[k] = o, queue'[w] = q, Executing(w, k)' <=> busy, current'[w] = c
    PROVE  InOrder(k, w)'
BY DEF InOrder, Lined

-----------------------------------------------------------------------------
(* Steps that move no command                                              *)

\* Queues, orders and hands stay as they are when no thread begins or ends an
\* execution.
LEMMA LinesKept ==
    ASSUME EngineInv, UNCHANGED <<queue, current, order>>,
           \A w \in Workers : thread'[w] = "exec" <=> thread[w] = "exec"
    PROVE  Queued' /\ Ordered'
<1>1. Queued' BY DEF EngineInv, Queued
<1>2. \A k \in Keys : WorkerOf[k] \in Workers BY WorkersAssumption DEF Workers
<1>3. \A k \in Keys : \A w \in Workers : Executing(w, k)' <=> Executing(w, k) BY DEF Executing
<1>4. ASSUME NEW k \in Keys PROVE InOrder(k, WorkerOf[k])'
  <2>1. InOrder(k, WorkerOf[k]) BY DEF EngineInv, Ordered
  <2> QED BY <1>2, <1>3, <2>1 DEF InOrder, Lined
<1> QED BY <1>1, <1>4 DEF Ordered

\* A step of a running worker does not disturb engine_start and engine_stop.
LEMMA StageKept ==
    ASSUME EngineInv, main' = main, NEW w \in Workers, NEW to, to # "none",
           thread[w] \notin {"none", "exited"}, thread' = [thread EXCEPT ![w] = to]
    PROVE  Stage'
<1>1. thread'[w] = to /\ \A v \in Workers : v # w => thread'[v] = thread[v]
  BY DEF EngineInv, TypeOK
<1>2. \A n : ThreadsUpTo(n) => ThreadsUpTo(n)' BY <1>1 DEF ThreadsUpTo
<1>3. \A n : ExitedUpTo(n) => ExitedUpTo(n)' BY <1>1 DEF ExitedUpTo
<1> QED BY <1>2, <1>3, Zenon DEF EngineInv, Stage

\* Steps of the main thread.
MainStep ==
    start_worker \/ start_fails \/ undo_start \/ call_stop \/ engine_stop

\* engine_start and engine_stop keep the invariant: they start and join the
\* threads one after the other.
LEMMA MainKeeps ==
    ASSUME EngineInv, MainStep
    PROVE  EngineInv'
<1>1. TypeOK /\ Stage /\ Held /\ NumWorkers \in Nat \ {0}
  BY WorkersAssumption DEF EngineInv
<1>2. UNCHANGED <<queue, current, store, reply, order>>
  BY Zenon DEF MainStep, start_worker, start_fails, undo_start, call_stop, engine_stop, clear_running, join
<1>3. CASE start_worker
  <2>1. /\ main.step = "starting" /\ main.worker \in Workers /\ ThreadsUpTo(main.worker - 1)
    BY <1>1, <1>3 DEF start_worker, Stage
  <2>2. thread[main.worker] = "none" BY <2>1, <1>1 DEF ThreadsUpTo, Workers
  <2>3. /\ thread' = [thread EXCEPT ![main.worker] = "test"]
        /\ running' = [running EXCEPT ![main.worker] = TRUE]
        /\ main' = IF main.worker < NumWorkers THEN At("starting", main.worker + 1) ELSE At("started", 0)
    BY <1>3 DEF start_worker
  <2>4. ThreadsUpTo(main.worker)' <=> \A w \in Workers : thread'[w] # "none" <=> w <= main'.worker
    BY DEF ThreadsUpTo
  <2>5. \A w \in Workers : thread'[w] # "none" <=> w <= main.worker
    BY <1>1, <2>1, <2>3 DEF TypeOK, ThreadsUpTo, Workers
  <2>6. TypeOK' BY <1>1, <1>2, <2>1, <2>3, SMTT(20) DEF TypeOK, At, Workers
  <2>7. Stage'
    <3>1. CASE main.worker < NumWorkers
      <4>1. main'.step = "starting" /\ main'.worker = main.worker + 1 BY <3>1, <2>3 DEF At
      <4>2. main'.worker \in Workers /\ \A w \in Workers : w <= main'.worker - 1 <=> w <= main.worker
        BY <1>1, <2>1, <3>1, <4>1 DEF Workers
      <4> QED BY <4>1, <4>2, <2>5 DEF Stage, ThreadsUpTo
    <3>2. CASE ~(main.worker < NumWorkers)
      <4>1. main'.step = "started" BY <3>2, <2>3 DEF At
      <4>2. main.worker = NumWorkers BY <1>1, <2>1, <3>2 DEF Workers
      <4> QED BY <4>1, <4>2, <2>5 DEF Stage, ThreadsUpTo
    <3> QED BY <3>1, <3>2
  <2>8. \A w \in Workers : \/ thread'[w] = thread[w]
                           \/ thread'[w] = "test" /\ thread[w] = "none"
    BY <1>1, <2>2, <2>3 DEF TypeOK
  <2>9. Held' BY <1>1, <1>2, <2>8 DEF Held
  <2>10. Queued' /\ Ordered' BY <1>2, <2>8, LinesKept
  <2> QED BY <2>6, <2>7, <2>9, <2>10 DEF EngineInv
<1>4. ASSUME thread' = thread, TypeOK', Stage' PROVE EngineInv'
  <2>1. Held' BY <1>1, <1>2, <1>4 DEF Held
  <2>2. Queued' /\ Ordered' BY <1>2, <1>4, LinesKept
  <2> QED BY <1>4, <2>1, <2>2 DEF EngineInv
<1>5. CASE start_fails
  <2>1. /\ main.step = "starting" /\ main.worker \in Workers /\ ThreadsUpTo(main.worker - 1)
    BY <1>1, <1>5 DEF start_fails, Stage
  <2>2. /\ thread' = thread /\ running' = [running EXCEPT ![main.worker] = TRUE]
        /\ main' = IF main.worker = 1 THEN At("failed", 0) ELSE At("undo", 1)
    BY <1>5 DEF start_fails
  <2>3. TypeOK' BY <1>1, <1>2, <2>1, <2>2 DEF TypeOK, At, Workers
  <2>4. Stage'
    <3>1. CASE main.worker = 1
      <4>1. main'.step = "failed" BY <3>1, <2>2 DEF At
      <4>2. \A w \in Workers : thread'[w] = "none" BY <3>1, <2>1, <2>2 DEF ThreadsUpTo, Workers
      <4> QED BY <4>1, <4>2 DEF Stage
    <3>2. CASE main.worker # 1
      <4>1. main'.step = "undo" /\ main'.worker = 1 BY <3>2, <2>2 DEF At
      <4>2. main.worker - 1 \in Workers /\ main'.worker \in 1 .. main.worker - 1
        BY <1>1, <2>1, <3>2, <4>1 DEF Workers
      <4>3. ThreadsUpTo(main.worker - 1)
        BY <2>1
      <4>4. \A w \in Workers : thread'[w] # "none" <=> w <= main.worker - 1
        BY <2>2, <4>3 DEF ThreadsUpTo
      <4>5. \A w \in Workers : ~(w < main'.worker) BY <4>1 DEF Workers
      <4> QED BY <4>1, <4>2, <4>4, <4>5 DEF Stage, ThreadsUpTo, ExitedUpTo
    <3> QED BY <3>1, <3>2
  <2> QED BY <2>2, <2>3, <2>4, <1>4
<1>6. CASE call_stop
  <2>1. main.step = "started" /\ ThreadsUpTo(NumWorkers) BY <1>1, <1>6 DEF call_stop, Stage
  <2>2. main' = At("stopping", 1) /\ UNCHANGED <<running, thread>> BY <1>6 DEF call_stop
  <2>3. main'.step = "stopping" /\ main'.worker = 1 BY <2>2 DEF At
  <2>4. TypeOK' BY <1>1, <1>2, <2>2, <2>3 DEF TypeOK, Workers
  <2>5. Stage'
    <3>1. main'.worker \in Workers /\ \A w \in Workers : ~(w < main'.worker)
      BY <1>1, <2>3 DEF Workers
    <3> QED BY <3>1, <2>1, <2>2, <2>3, Zenon DEF Stage, ThreadsUpTo, ExitedUpTo
  <2> QED BY <2>2, <2>4, <2>5, <1>4
<1>7. ASSUME NEW step, NEW joining, clear_running(step, joining),
             <<step, joining>> \in {<<"undo", "undo join">>, <<"stopping", "join">>}
      PROVE  EngineInv'
  <2>1. /\ main.step = step /\ thread' = thread
        /\ running' = [running EXCEPT ![main.worker] = FALSE] /\ main' = At(joining, main.worker)
    BY <1>7, Zenon DEF clear_running
  <2>2. main'.step = joining /\ main'.worker = main.worker BY <2>1 DEF At
  <2>3. TypeOK' BY <1>1, <1>2, <2>1, <2>2, Zenon DEF TypeOK
  <2>4. CASE step = "undo"
    <3>1. joining = "undo join" BY <1>7, <2>4, Zenon
    <3> QED BY <1>1, <1>4, <2>1, <2>2, <2>3, <2>4, <3>1, Zenon DEF Stage, ThreadsUpTo, ExitedUpTo
  <2>5. CASE step = "stopping"
    <3>1. joining = "join" BY <1>7, <2>5
    <3> QED BY <1>1, <1>4, <2>1, <2>2, <2>3, <2>5, <3>1 DEF Stage, ThreadsUpTo, ExitedUpTo
  <2> QED BY <1>7, <2>4, <2>5, Zenon
<1>8. CASE join("join", "stopping", NumWorkers, "stopped")
  <2>1. /\ main.step = "join" /\ thread[main.worker] = "exited" /\ UNCHANGED <<running, thread>>
        /\ main' = IF main.worker < NumWorkers THEN At("stopping", main.worker + 1) ELSE At("stopped", 0)
    BY <1>8 DEF join
  <2>2. main.worker \in Workers /\ ThreadsUpTo(NumWorkers) /\ ExitedUpTo(main.worker)
    BY <1>1, <2>1 DEF Stage
  <2>3. \A w \in Workers : w < main.worker + 1 => thread[w] = "exited"
    BY <1>1, <2>1, <2>2 DEF ExitedUpTo, Workers
  <2>4. CASE main.worker < NumWorkers
    <3>1. main'.step = "stopping" /\ main'.worker = main.worker + 1 BY <2>1, <2>4 DEF At
    <3>2. main'.worker \in Workers BY <1>1, <2>2, <2>4, <3>1 DEF Workers
    <3>3. TypeOK' BY <1>1, <1>2, <2>1, <3>2 DEF TypeOK, Workers
    <3>4. Stage' BY <2>1, <2>2, <2>3, <3>1, <3>2, Zenon DEF Stage, ThreadsUpTo, ExitedUpTo
    <3> QED BY <2>1, <3>3, <3>4, <1>4
  <2>5. CASE ~(main.worker < NumWorkers)
    <3>1. main'.step = "stopped" /\ main'.worker = 0 BY <2>1, <2>5 DEF At
    <3>2. main.worker = NumWorkers BY <1>1, <2>2, <2>5 DEF Workers
    <3>3. TypeOK' BY <1>1, <1>2, <2>1, <3>1 DEF TypeOK
    <3>4. Stage' BY <2>1, <2>2, <2>3, <3>1, <3>2, Zenon DEF Stage, ThreadsUpTo, ExitedUpTo
    <3> QED BY <2>1, <3>3, <3>4, <1>4
  <2> QED BY <2>4, <2>5
<1>9. CASE join("undo join", "undo", Started, "failed")
  <2>1. /\ main.step = "undo join" /\ thread[main.worker] = "exited" /\ UNCHANGED <<running, thread>>
        /\ main' = IF main.worker < Started THEN At("undo", main.worker + 1) ELSE At("failed", 0)
    BY <1>9, Zenon DEF join
  <2>2. PICK n \in Workers : main.worker \in 1 .. n /\ ThreadsUpTo(n) /\ ExitedUpTo(main.worker)
    BY <1>1, <2>1, Zenon DEF Stage
  <2>3. Started = n
    <3>1. ASSUME NEW m \in Workers, ThreadsUpTo(m) PROVE m = n
      <4>1. m <= n /\ n <= m BY <1>1, <2>2, <3>1 DEF ThreadsUpTo, Workers
      <4> QED BY <4>1, <1>1, <2>2 DEF Workers
    <3>2. Started \in Workers /\ ThreadsUpTo(Started) BY <2>2, Zenon DEF Started, ThreadsUpTo
    <3> QED BY <3>1, <3>2, Zenon
  <2>4. \A w \in Workers : w < main.worker + 1 => thread[w] = "exited"
    <3>1. main.worker \in Nat /\ \A w \in Workers : w \in Nat BY <1>1, <2>2 DEF Workers
    <3>2. \A w \in Workers : w < main.worker + 1 => w < main.worker \/ w = main.worker BY <3>1
    <3> QED BY <3>2, <2>1, <2>2, Zenon DEF ExitedUpTo
  <2>5. CASE main.worker < n
    <3>1. main'.step = "undo" /\ main'.worker = main.worker + 1 BY <2>1, <2>3, <2>5, Zenon DEF At
    <3>2. main'.worker \in 1 .. n BY <1>1, <2>2, <2>5, <3>1 DEF Workers
    <3>3. main'.worker \in 0 .. NumWorkers BY <1>1, <2>2, <3>2 DEF Workers
    <3>4. TypeOK' BY <1>1, <1>2, <2>1, <3>3, Zenon DEF TypeOK
    <3>5. Stage' BY <2>1, <2>2, <2>4, <3>1, <3>2, Zenon DEF Stage, ThreadsUpTo, ExitedUpTo
    <3> QED BY <2>1, <3>4, <3>5, <1>4, Zenon
  <2>6. CASE ~(main.worker < n)
    <3>1. main'.step = "failed" /\ main'.worker = 0 BY <2>1, <2>3, <2>6, Zenon DEF At
    <3>2. main.worker = n BY <1>1, <2>2, <2>6 DEF Workers
    <3>3. \A w \in Workers : w <= n => w < n + 1 BY <1>1, <2>2 DEF Workers
    <3>4. TypeOK'
      <4>1. main'.worker \in 0 .. NumWorkers BY <1>1, <3>1
      <4> QED BY <4>1, <1>1, <1>2, <2>1, Zenon DEF TypeOK
    <3>5. Stage' BY <2>1, <2>2, <2>4, <3>1, <3>2, <3>3, Zenon DEF Stage, ThreadsUpTo
    <3> QED BY <2>1, <3>4, <3>5, <1>4, Zenon
  <2> QED BY <2>5, <2>6
<1> QED BY <1>3, <1>5, <1>6, <1>7, <1>8, <1>9, Zenon DEF MainStep, undo_start, engine_stop

-----------------------------------------------------------------------------
(* Steps of the workers                                                    *)

\* Tests of running, and polls that find nothing.
LEMMA IdleKeeps ==
    ASSUME EngineInv, NEW w \in Workers, test_running(w) \/ poll_empty(w)
    PROVE  EngineInv'
<1>1. PICK to \in {"test", "poll", "exited"} :
          /\ thread[w] \in {"test", "poll"} /\ thread' = [thread EXCEPT ![w] = to]
          /\ UNCHANGED <<queue, running, current, store, reply, main, order>>
  <2>1. CASE test_running(w) BY <2>1, Zenon DEF test_running, Move
  <2>2. CASE poll_empty(w) BY <2>2 DEF poll_empty, Move
  <2> QED BY <2>1, <2>2
<1>2. TypeOK /\ Held BY DEF EngineInv
<1>3. thread'[w] = to /\ \A v \in Workers : v # w => thread'[v] = thread[v]
  BY <1>1, <1>2 DEF TypeOK
<1>4. TypeOK' BY <1>1, <1>2 DEF TypeOK
<1>5. Held' BY <1>1, <1>2, <1>3 DEF Held
<1>6. Queued' /\ Ordered' BY <1>1, <1>3, LinesKept
<1>7. Stage' BY <1>1, StageKept, Zenon
<1> QED BY <1>4, <1>5, <1>6, <1>7 DEF EngineInv

\* A command is handed back.
LEMMA CompleteKeeps ==
    ASSUME EngineInv, NEW w \in Workers, on_complete(w)
    PROVE  EngineInv'
<1>1. /\ thread[w] = "notify" /\ thread' = [thread EXCEPT ![w] = "test"]
      /\ current' = [current EXCEPT ![w] = None]
      /\ UNCHANGED <<queue, running, store, reply, main, order>>
  BY DEF on_complete, Move
<1>2. TypeOK /\ Held /\ Queued /\ Ordered /\ WorkerOf \in [Keys -> Workers]
  BY WorkersAssumption DEF EngineInv, Workers
<1>3. /\ thread'[w] = "test" /\ current'[w] = None
      /\ \A v \in Workers : v # w => thread'[v] = thread[v] /\ current'[v] = current[v]
  BY <1>1, <1>2 DEF TypeOK
<1>4. TypeOK' BY <1>1, <1>2 DEF TypeOK
<1>5. Held' BY <1>2, <1>3 DEF Held
<1>6. Queued'
  <2>1. \A v \in Workers : \A i \in DOMAIN queue[v] : queue[v][i] \in Cmds BY <1>2 DEF TypeOK
  <2> QED BY <1>1, <1>2, <1>3, <2>1, WorkersAssumption DEF Queued
<1>7. \A v \in Workers : \A k \in Keys :
          (Executing(v, k)' <=> Executing(v, k)) /\ (Executing(v, k) => current'[v] = current[v])
  BY <1>1, <1>3, SMTT(20) DEF Executing
<1>8. Ordered'
  <2> SUFFICES ASSUME NEW k \in Keys PROVE InOrder(k, WorkerOf[k])' BY DEF Ordered
  <2>1. InOrder(k, WorkerOf[k]) /\ WorkerOf[k] \in Workers BY <1>2 DEF Ordered
  <2> QED BY <1>1, <1>7, <2>1 DEF InOrder, Lined
<1>9. Stage' BY <1>1, StageKept, Zenon
<1> QED BY <1>4, <1>5, <1>6, <1>8, <1>9 DEF EngineInv

\* The first command of a queue is the oldest one on its key.
LEMMA PollKeeps ==
    ASSUME EngineInv, NEW w \in Workers, poll(w)
    PROVE  EngineInv'
<1> DEFINE c == queue[w][1]
           q == Tail(queue[w])
<1>1. TypeOK /\ Held /\ Queued /\ Ordered /\ queue[w] \in Seq(Cmds) /\ queue[w] # <<>>
  BY DEF EngineInv, TypeOK, poll
<1>2. /\ q \in Seq(Cmds) /\ Len(queue[w]) \in Nat \ {0} /\ DOMAIN queue[w] = 1 .. Len(queue[w])
      /\ DOMAIN q = 1 .. Len(queue[w]) - 1
      /\ \A i \in 1 .. Len(queue[w]) - 1 : q[i] = queue[w][i + 1]
      /\ Head(queue[w]) = c /\ c \in Cmds
  BY <1>1, TailFacts
<1>3. /\ thread[w] = "poll" /\ thread' = [thread EXCEPT ![w] = "exec"]
      /\ current' = [current EXCEPT ![w] = c] /\ queue' = [queue EXCEPT ![w] = q]
      /\ UNCHANGED <<running, store, reply, main, order>>
  BY <1>2 DEF poll, Move
<1>4. IsInjective(q) /\ \A i \in DOMAIN q : q[i] # c
  <2>1. IsInjective(queue[w]) BY <1>1 DEF Queued
  <2> QED BY <1>1, <2>1, TailKeepsInjective
<1>5. \A p \in DOMAIN q : p + 1 \in DOMAIN queue[w] /\ q[p] = queue[w][p + 1] BY <1>2
<1>6. \A p \in DOMAIN queue[w] : p # 1 => p - 1 \in DOMAIN q /\ q[p - 1] = queue[w][p] BY <1>2
<1>7. 1 \in DOMAIN queue[w] BY <1>2
<1>8. None # c /\ Key[c] \in Keys /\ WorkerOf[Key[c]] = w
  BY <1>1, <1>2, <1>7, WorkersAssumption DEF Queued
<1> HIDE DEF c, q
<1>9. /\ thread'[w] = "exec" /\ current'[w] = c /\ queue'[w] = q
      /\ \A v \in Workers : v # w => /\ thread'[v] = thread[v] /\ current'[v] = current[v]
                                     /\ queue'[v] = queue[v]
  BY <1>1, <1>3 DEF TypeOK
<1>10. TypeOK'
  <2>1. queue' \in [Workers -> Seq(Cmds)] BY <1>1, <1>2, <1>3 DEF TypeOK
  <2>2. current' \in [Workers -> Cmds \cup {None}] BY <1>1, <1>2, <1>3 DEF TypeOK
  <2>3. thread' \in [Workers -> {"none", "test", "poll", "exec", "notify", "exited"}]
    BY <1>1, <1>3 DEF TypeOK
  <2> QED BY <1>1, <1>3, <2>1, <2>2, <2>3 DEF TypeOK
<1>11. Held' BY <1>1, <1>8, <1>9 DEF Held
<1>12. \A v \in Workers : v # w => \A i \in DOMAIN queue[v] : queue[v][i] # c
  BY <1>1, <1>8 DEF Queued
<1>13. Queued'
  <2>1. ASSUME NEW v \in Workers, v # w
        PROVE  /\ IsInjective(queue'[v])
               /\ \A i \in DOMAIN queue'[v] : /\ WorkerOf[Key[queue'[v][i]]] = v
                                              /\ \A u \in Workers : current'[u] # queue'[v][i]
    BY <2>1, <1>1, <1>9, <1>12 DEF Queued
  <2>2. /\ IsInjective(queue'[w])
        /\ \A i \in DOMAIN queue'[w] : /\ WorkerOf[Key[queue'[w][i]]] = w
                                       /\ \A u \in Workers : current'[u] # queue'[w][i]
    BY <1>1, <1>4, <1>5, <1>9 DEF Queued
  <2> QED BY <2>1, <2>2 DEF Queued
<1>14. Ordered'
  <2> SUFFICES ASSUME NEW k \in Keys PROVE InOrder(k, WorkerOf[k])' BY DEF Ordered
  <2>1. InOrder(k, WorkerOf[k]) /\ WorkerOf[k] \in Workers
    BY <1>1, WorkersAssumption, SMTT(20) DEF Ordered, Workers
  <2>2. CASE WorkerOf[k] # w
    <3>1. Executing(WorkerOf[k], k)' <=> Executing(WorkerOf[k], k)
      BY <2>1, <2>2, <1>9, SMTT(20) DEF Executing
    <3> QED BY <2>1, <2>2, <3>1, <1>3, <1>9, SMTT(20) DEF InOrder, Lined
  <2>3. CASE WorkerOf[k] = w
    <3>1. InOrder(k, w) /\ ~Executing(w, k) BY <2>1, <2>3, <1>3 DEF Executing
    <3>2. order[k] \in Seq(Cmds) BY <1>1 DEF TypeOK
    <3>3. Lined(order[k], queue[w], k, FALSE, current[w]) BY <3>1, Zenon DEF InOrder, Lined
    <3>4. Lined(order[k], q, k, Key[c] = k, c)
      <4>1. IsInjective(queue[w]) BY <1>1 DEF Queued
      <4> QED BY <1>1, <3>2, <3>3, <4>1, LinedPoll, Zenon DEF c, q
    <3>5. Executing(w, k)' <=> Key[c] = k BY <1>9 DEF Executing
    <3> QED BY <2>3, <3>4, <3>5, <1>3, <1>9 DEF InOrder, Lined
  <2> QED BY <2>2, <2>3
<1>15. Stage' BY <1>3, StageKept, Zenon
<1> QED BY <1>10, <1>11, <1>13, <1>14, <1>15 DEF EngineInv

\* The oldest command on a key is executed.
LEMMA ExecuteKeeps ==
    ASSUME EngineInv, NEW w \in Workers, NEW to \in {"notify", "exited"},
           thread[w] = "exec", thread' = [thread EXCEPT ![w] = to], order' = Executed(w),
           UNCHANGED <<queue, current, main>>,
           running' \in [Workers -> BOOLEAN], DOMAIN store' = Keys, DOMAIN reply' = Cmds
    PROVE  EngineInv'
<1> DEFINE c == current[w]
           l == Key[c]
           o == Tail(order[l])
<1>1. TypeOK /\ Held /\ Queued /\ Ordered BY DEF EngineInv
<1>2. c \in Cmds /\ l \in Keys /\ WorkerOf[l] = w
  BY <1>1, WorkersAssumption DEF Held, TypeOK
<1>3. InOrder(l, w) /\ Executing(w, l) /\ order[l] \in Seq(Cmds)
  BY <1>1, <1>2 DEF Ordered, Executing, TypeOK
<1>4. order[l] # <<>> BY <1>3, Zenon DEF InOrder, Lined
<1>5. o \in Seq(Cmds) BY <1>3, <1>4, TailFacts
<1>6. order' = [order EXCEPT ![l] = o] BY DEF Executed
<1>7. Lined(o, queue[w], l, FALSE, c)
  <2>1. Lined(order[l], queue[w], l, TRUE, c) BY <1>3, Zenon DEF InOrder, Lined
  <2>2. queue[w] \in Seq(Cmds) /\ \A p \in DOMAIN queue[w] : queue[w][p] # c
    BY <1>1 DEF TypeOK, Queued
  <2> HIDE DEF c, l
  <2> QED BY <1>3, <2>1, <2>2, LinedExecute, Zenon
<1> HIDE DEF c, l, o
<1>10. /\ thread'[w] = to /\ order'[l] = o
       /\ \A v \in Workers : v # w => thread'[v] = thread[v]
       /\ \A k \in Keys : k # l => order'[k] = order[k]
  BY <1>1, <1>2, <1>6 DEF TypeOK
<1>11. TypeOK'
  <2>1. order' \in [Keys -> Seq(Cmds)] BY <1>1, <1>2, <1>5, <1>6 DEF TypeOK
  <2>2. thread' \in [Workers -> {"none", "test", "poll", "exec", "notify", "exited"}]
    BY <1>1 DEF TypeOK
  <2> QED BY <1>1, <2>1, <2>2 DEF TypeOK
<1>12. Held' BY <1>1, <1>10 DEF Held
<1>13. Queued' BY <1>1 DEF Queued
<1>14. Ordered'
  <2> SUFFICES ASSUME NEW k \in Keys PROVE InOrder(k, WorkerOf[k])' BY DEF Ordered
  <2>1. InOrder(k, WorkerOf[k]) /\ WorkerOf[k] \in Workers
    BY <1>1, WorkersAssumption, SMTT(20) DEF Ordered, Workers
  <2>2. CASE k # l
    <3>1. order'[k] = order[k] BY <2>2, <1>10
    <3>2. Executing(WorkerOf[k], k)' <=> Executing(WorkerOf[k], k)
      BY <2>1, <2>2, <1>10, SMTT(20) DEF Executing, c, l
    <3> QED BY <2>1, <3>1, <3>2 DEF InOrder, Lined
  <2>3. CASE k = l
    <3>1. ~Executing(w, k)' /\ order'[k] = o BY <2>3, <1>10 DEF Executing
    <3> QED BY <2>3, <3>1, <1>2, <1>7 DEF InOrder, Lined
  <2> QED BY <2>2, <2>3
<1>15. Stage' BY StageKept, Zenon
<1> QED BY <1>11, <1>12, <1>13, <1>14, <1>15 DEF EngineInv

\* A command is dispatched that is in no queue and in nobody's hands.
LEMMA DispatchKeeps ==
    ASSUME EngineInv, NEW c \in Cmds, engine_dispatch_cmd(c)
    PROVE  EngineInv'
<1>1. TypeOK /\ Held /\ Queued /\ Ordered BY DEF EngineInv
<1> SUFFICES ASSUME NEW l, l = Key[c], NEW w, w = WorkerOf[l] PROVE EngineInv'
  BY Zenon
<1> DEFINE q == Append(queue[w], c)
           o == Append(order[l], c)
<1>2. l \in Keys /\ w \in Workers /\ None # c BY WorkersAssumption DEF Workers
<1>3. queue[w] \in Seq(Cmds) /\ order[l] \in Seq(Cmds) BY <1>1, <1>2 DEF TypeOK
<1>4. /\ queue' = [queue EXCEPT ![w] = q] /\ order' = [order EXCEPT ![l] = o]
      /\ reply' = [reply EXCEPT ![c] = None]
      /\ UNCHANGED <<running, thread, current, store, main>>
  BY DEF engine_dispatch_cmd, engine_worker_for_key
<1>5. \A v \in Workers : current[v] # c /\ \A i \in DOMAIN queue[v] : queue[v][i] # c
  BY DEF engine_dispatch_cmd, Pending, Range
<1>6. q \in Seq(Cmds) /\ o \in Seq(Cmds) BY <1>3, AppendFacts
<1>7. \A i \in DOMAIN q : q[i] = c \/ (i \in DOMAIN queue[w] /\ q[i] = queue[w][i])
  BY <1>3, AppendCases
<1>8. IsInjective(q)
  <2>1. IsInjective(queue[w]) BY <1>1, <1>2 DEF Queued
  <2>2. \A i \in DOMAIN queue[w] : queue[w][i] # c BY <1>2, <1>5
  <2> QED BY <1>3, <2>1, <2>2, AppendKeepsInjective
<1> HIDE DEF q, o
<1>9. /\ queue'[w] = q /\ order'[l] = o
      /\ \A v \in Workers : v # w => queue'[v] = queue[v]
      /\ \A k \in Keys : k # l => order'[k] = order[k]
  BY <1>1, <1>2, <1>4, Zenon DEF TypeOK
<1>10. TypeOK'
  <2>1. queue' \in [Workers -> Seq(Cmds)] BY <1>1, <1>4, <1>6, Zenon DEF TypeOK
  <2>2. order' \in [Keys -> Seq(Cmds)] BY <1>1, <1>4, <1>6, Zenon DEF TypeOK
  <2>3. DOMAIN reply' = Cmds BY <1>1, <1>4 DEF TypeOK
  <2> QED BY <1>1, <1>4, <2>1, <2>2, <2>3 DEF TypeOK
<1>11. Held' BY <1>1, <1>4, SMTT(20) DEF Held
<1>12. Queued'
  <2>1. ASSUME NEW v \in Workers, v # w
        PROVE  /\ IsInjective(queue'[v])
               /\ \A i \in DOMAIN queue'[v] : /\ WorkerOf[Key[queue'[v][i]]] = v
                                              /\ \A u \in Workers : current'[u] # queue'[v][i]
    BY <2>1, <1>1, <1>4, <1>9, SMTT(20) DEF Queued
  <2>2. /\ IsInjective(queue'[w])
        /\ \A i \in DOMAIN queue'[w] : /\ WorkerOf[Key[queue'[w][i]]] = w
                                       /\ \A u \in Workers : current'[u] # queue'[w][i]
    BY <1>1, <1>2, <1>4, <1>5, <1>7, <1>8, <1>9 DEF Queued
  <2> QED BY <2>1, <2>2 DEF Queued
<1>13. Ordered'
  <2> SUFFICES ASSUME NEW k \in Keys PROVE InOrder(k, WorkerOf[k])' BY DEF Ordered
  <2>1. InOrder(k, WorkerOf[k]) /\ WorkerOf[k] \in Workers /\ order[k] \in Seq(Cmds)
    BY <1>1, WorkersAssumption DEF Ordered, Workers, TypeOK
  <2> SUFFICES ASSUME NEW busy \in BOOLEAN, busy <=> Executing(WorkerOf[k], k)
               PROVE  InOrder(k, WorkerOf[k])'
    BY Zenon DEF Executing
  <2>2. UNCHANGED <<thread, current>> BY <1>4, Zenon
  <2>3. Executing(WorkerOf[k], k)' <=> busy BY <2>2, Zenon DEF Executing
  <2>4. Lined(order[k], queue[WorkerOf[k]], k, busy, current[WorkerOf[k]])
    BY <2>1, Zenon DEF InOrder, Lined
  <2>5. Lined(order'[k], queue'[WorkerOf[k]], k, busy, current[WorkerOf[k]])
    <3>1. CASE WorkerOf[k] # w
      <4>1. order'[k] = order[k] /\ queue'[WorkerOf[k]] = queue[WorkerOf[k]] BY <2>1, <3>1, <1>9
      <4> QED BY <2>4, <4>1, Zenon
    <3>2. CASE k = l
      <4>1. \A p \in DOMAIN queue[w] : queue[w][p] # c BY <1>2, <1>5
      <4>2. current[w] # c BY <1>2, <1>5
      <4>3. Lined(o, q, k, busy, current[w])
        BY <1>3, <2>4, <3>2, <4>1, <4>2, LinedDispatch DEF o, q
      <4> QED BY <4>3, <1>9, <3>2
    <3>3. CASE WorkerOf[k] = w /\ k # l
      <4>1. order'[k] = order[k] BY <1>9, <3>3
      <4>2. Lined(order[k], q, k, busy, current[w])
        BY <1>3, <2>1, <2>4, <3>3, LinedOther DEF q
      <4> QED BY <4>1, <4>2, <1>9, <3>3
    <3> QED BY <3>1, <3>2, <3>3
  <2>6. current'[WorkerOf[k]] = current[WorkerOf[k]] BY <2>2, Zenon
  <2> QED BY <2>3, <2>5, <2>6, InOrderAfter, Zenon
<1>14. Stage' BY <1>4, Zenon DEF EngineInv, Stage, ThreadsUpTo, ExitedUpTo
<1> QED BY <1>10, <1>11, <1>12, <1>13, <1>14 DEF EngineInv

-----------------------------------------------------------------------------
(* The theorems                                                            *)

\* The state engine_create leaves.
LEMMA InitInv == ASSUME Init PROVE EngineInv
<1>1. WorkersAssumption /\ NumWorkers \in Nat \ {0} BY WorkersAssumption
<1>2. 1 \in Workers BY <1>1 DEF Workers
<1>3. main.step = "starting" /\ main.worker = 1 BY DEF Init, At
<1>4. TypeOK BY <1>2, <1>3 DEF Init, TypeOK, Workers
<1>5. Queued /\ Held BY DEF Init, Queued, Held, IsInjective
<1>6. Ordered
  <2> SUFFICES ASSUME NEW k \in Keys PROVE InOrder(k, WorkerOf[k]) BY DEF Ordered
  <2>1. WorkerOf[k] \in Workers BY <1>1 DEF WorkersAssumption, Workers
  <2>2. order[k] = <<>> /\ queue[WorkerOf[k]] = <<>> /\ thread[WorkerOf[k]] = "none"
    BY <2>1 DEF Init
  <2> QED BY <2>2 DEF InOrder, Lined, Executing, IsInjective
<1>7. Stage
  <2>1. \A w \in Workers : thread[w] = "none" /\ ~(w <= 1 - 1) BY DEF Init, Workers
  <2> QED BY <2>1, <1>2, <1>3 DEF Stage, ThreadsUpTo
<1> QED BY <1>4, <1>5, <1>6, <1>7 DEF EngineInv

\* Every step of the engine keeps the invariant.
LEMMA EngineStep ==
    ASSUME EngineInv, [Next]_vars
    PROVE  EngineInv'
<1>1. CASE UNCHANGED vars
  <2>1. UNCHANGED <<queue, current, order, thread, main>> BY <1>1 DEF vars
  <2>2. Queued' /\ Ordered' BY <2>1, LinesKept
  <2>3. TypeOK' /\ Held' BY <1>1 DEF vars, EngineInv, TypeOK, Held
  <2>4. Stage' BY <2>1, Zenon DEF EngineInv, Stage, ThreadsUpTo, ExitedUpTo
  <2> QED BY <2>2, <2>3, <2>4 DEF EngineInv
<1>2. CASE MainStep BY <1>2, MainKeeps
<1>3. ASSUME NEW c \in Cmds, engine_dispatch_cmd(c) PROVE EngineInv' BY <1>3, DispatchKeeps
<1>4. ASSUME NEW w \in Workers, worker_thread_main(w) PROVE EngineInv'
  <2>1. CASE test_running(w) \/ poll_empty(w) BY <2>1, IdleKeeps
  <2>2. CASE poll(w) BY <2>2, PollKeeps
  <2>3. CASE execute(w)
    <3>1. /\ thread[w] = "exec" /\ thread' = [thread EXCEPT ![w] = "notify"]
          /\ order' = Executed(w) /\ UNCHANGED <<queue, running, current, main>>
      BY <2>3 DEF execute, Move
    <3>2. running' \in [Workers -> BOOLEAN] BY <3>1 DEF EngineInv, TypeOK
    <3>3. DOMAIN store' = Keys /\ DOMAIN reply' = Cmds BY <2>3 DEF execute, EngineInv, TypeOK
    <3> QED BY <3>1, <3>2, <3>3, ExecuteKeeps, Zenon
  <2>4. CASE shutdown(w)
    <3>1. /\ thread[w] = "exec" /\ thread' = [thread EXCEPT ![w] = "exited"]
          /\ order' = Executed(w) /\ running' = [running EXCEPT ![w] = FALSE]
          /\ UNCHANGED <<queue, current, store, reply, main>>
      BY <2>4 DEF shutdown, Move
    <3>2. running' \in [Workers -> BOOLEAN] BY <3>1 DEF EngineInv, TypeOK
    <3>3. DOMAIN store' = Keys /\ DOMAIN reply' = Cmds BY <3>1 DEF EngineInv, TypeOK
    <3> QED BY <3>1, <3>2, <3>3, ExecuteKeeps, Zenon
  <2>5. CASE on_complete(w) BY <2>5, CompleteKeeps
  <2> QED BY <1>4, <2>1, <2>2, <2>3, <2>4, <2>5 DEF worker_thread_main
<1> QED BY <1>1, <1>2, <1>3, <1>4 DEF Next, MainStep

\* The invariant holds always.
LEMMA EngineInvariant == Spec => []EngineInv
BY InitInv, EngineStep, PTL DEF Spec

\* TypeOK for any number of workers, keys and commands.
THEOREM EngineTypes == Spec => []TypeOK
<1>1. EngineInv => TypeOK BY DEF EngineInv
<1> QED BY <1>1, EngineInvariant, PTL

\* ExecutesInOrder for any number of workers, keys and commands: the commands on
\* a key are executed one at a time, in the order of engine_dispatch_cmd.
THEOREM OneAtATime == Spec => []ExecutesInOrder
<1>1. ASSUME EngineInv PROVE ExecutesInOrder
  <2>1. TypeOK /\ Held /\ Ordered BY <1>1 DEF EngineInv
  <2>2. ASSUME NEW w \in Workers, thread[w] \in {"exec", "notify"}
        PROVE  /\ current[w] \in Cmds /\ Key[current[w]] \in Keys /\ WorkerOf[Key[current[w]]] = w
    BY <2>1, <2>2, WorkersAssumption, SMTT(20) DEF TypeOK, Held
  <2>3. ASSUME NEW w \in Workers, thread[w] = "exec"
        PROVE  order[Key[current[w]]] # <<>> /\ current[w] = Head(order[Key[current[w]]])
    <3> DEFINE k == Key[current[w]]
    <3>1. k \in Keys /\ InOrder(k, w) BY <2>1, <2>2, <2>3 DEF Ordered
    <3>2. order[k] # <<>> /\ order[k][1] = current[w] BY <2>3, <3>1, Zenon DEF InOrder, Lined, Executing
    <3>3. order[k] \in Seq(Cmds) BY <2>1, <3>1 DEF TypeOK
    <3> QED BY <3>2, <3>3, TailFacts
  <2>4. ASSUME NEW v \in Workers, NEW w \in Workers, v # w,
               {thread[v], thread[w]} \subseteq {"exec", "notify"}
        PROVE  Key[current[v]] # Key[current[w]]
    BY <2>2, <2>4
  <2> QED BY <2>3, <2>4 DEF ExecutesInOrder
<1> QED BY <1>1, EngineInvariant, PTL

\* OnePlace for any number of workers, keys and commands: a dispatched command is
\* in one queue, once, or in the hands of one worker.
THEOREM CommandsInOnePlace == Spec => []OnePlace
<1>1. ASSUME EngineInv PROVE OnePlace
  <2> SUFFICES ASSUME NEW v \in Workers, NEW w \in Workers
               PROVE  /\ IsInjective(queue[w])
                      /\ current[v] # None => current[v] \notin Range(queue[w])
                      /\ v # w => /\ Range(queue[v]) \cap Range(queue[w]) = {}
                                  /\ (current[v] # None => current[v] # current[w])
    BY Zenon DEF OnePlace
  <2>1. Queued /\ Held BY <1>1, Zenon DEF EngineInv
  <2>2. IsInjective(queue[w]) /\ current[v] \notin Range(queue[w]) BY <2>1 DEF Queued, Range
  <2>3. v # w => Range(queue[v]) \cap Range(queue[w]) = {} BY <2>1 DEF Queued, Range
  <2>4. v # w /\ current[v] # None => current[v] # current[w] BY <2>1 DEF Held
  <2> QED BY <2>2, <2>3, <2>4
<1> QED BY <1>1, EngineInvariant, PTL

\* QuietAfterStop for any number of workers, keys and commands: once engine_stop,
\* or a failed engine_start, has returned, every thread has been joined.
THEOREM StoppedIsQuiet == Spec => QuietAfterStop
<1>1. ASSUME EngineInv, [Next]_vars, main.step \in {"stopped", "failed"}
      PROVE  UNCHANGED <<store, thread, current>>
  <2>1. \A w \in Workers : thread[w] \in {"none", "exited"}
    <3>1. Stage BY <1>1 DEF EngineInv
    <3>2. \A w \in Workers : w < NumWorkers + 1 BY WorkersAssumption DEF Workers
    <3> QED BY <1>1, <3>1, <3>2, Zenon DEF Stage, ExitedUpTo
  <2>2. \A w \in Workers : ~worker_thread_main(w)
    BY <2>1 DEF worker_thread_main, test_running, poll, poll_empty, execute, shutdown, on_complete, Move
  <2>3. ~MainStep
    BY <1>1, Zenon DEF MainStep, start_worker, start_fails, undo_start, call_stop, engine_stop,
                clear_running, join
  <2>4. ASSUME NEW c \in Cmds, engine_dispatch_cmd(c) PROVE UNCHANGED <<store, thread, current>>
    BY <2>4 DEF engine_dispatch_cmd
  <2> QED BY <1>1, <2>2, <2>3, <2>4 DEF Next, MainStep, vars
<1>2. EngineInv /\ [Next]_vars =>
          [main.step \in {"stopped", "failed"} => UNCHANGED <<store, thread, current>>]_vars
  BY <1>1
<1> QED BY <1>2, EngineInvariant, PTL DEF Spec, QuietAfterStop
=============================================================================
