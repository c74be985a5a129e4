-------------------------------- MODULE VLL --------------------------------
(***************************************************************************)
(* The Virtual Lock Layer of core/vll.c: a table of reader counts and      *)
(* writer flags, indexed by a hash slot, from which a transaction takes    *)
(* all its locks or none.  The table is guarded by the mutex table_lock,   *)
(* which a thread keeps for one scan over its keys and never while it      *)
(* backs off.  One action is one iteration of a loop of the code.          *)
(***************************************************************************)
EXTENDS Integers, Sequences, FiniteSets

CONSTANTS
    Threads,       \* the threads that run transactions
    KeyHash,       \* the 64-bit hashes of the keys in use
    TableSize,     \* slots of the lock table, a power of two in the code
    MaxKeys,       \* VLL_MAX_KEYS_PER_TXN
    MaxAttempts,   \* scans that fit before the deadline VLL_TIMEOUT_US
    NoThread       \* table_lock is free

ASSUME ThreadsAssumption == IsFiniteSet(Threads) /\ NoThread \notin Threads
ASSUME KeyAssumption     == KeyHash \subseteq Nat
ASSUME SizeAssumption    == TableSize \in Nat \ {0}
ASSUME BoundAssumption   == MaxKeys \in Nat /\ MaxAttempts \in Nat

READ  == "VLL_LOCK_READ"
WRITE == "VLL_LOCK_WRITE"

VLLKey == [key_hash : KeyHash, lock_type : {READ, WRITE}]

Slots == 0 .. TableSize - 1

key_to_slot(k) == k.key_hash % TableSize

(***************************************************************************)
(* cmp_key_hash: by hash, and a write before a read of the same key.       *)
(***************************************************************************)
cmp_key_hash(a, b) ==
    \/ a.key_hash < b.key_hash
    \/ a.key_hash = b.key_hash /\ (a.lock_type = WRITE \/ b.lock_type = READ)

(***************************************************************************)
(* The key arrays vll_request_create accepts, as vll_sort_keys leaves      *)
(* them: a request is never empty and has at most MaxKeys keys.            *)
(***************************************************************************)
SortedRequests ==
    {r \in UNION {[1 .. n -> VLLKey] : n \in 1 .. MaxKeys} :
        \A i, j \in DOMAIN r : i < j => cmp_key_hash(r[i], r[j])}

VARIABLES
    read_counts,   \* slot -> number of read locks
    write_flags,   \* slot -> 1 iff the slot has a writer
    table_lock,    \* the thread that holds the mutex
    pc,            \* where each thread is in vll_acquire / vll_release
    keys,          \* req->keys of each thread, sorted
    status,        \* req->status
    lo, hi,        \* the thread has taken keys[lo+1 .. hi] and not returned them
    attempt        \* scans that ended in a conflict

vars == <<read_counts, write_flags, table_lock, pc, keys, status, lo, hi, attempt>>

Init ==
    /\ read_counts = [s \in Slots |-> 0]
    /\ write_flags = [s \in Slots |-> 0]
    /\ table_lock = NoThread
    /\ pc = [t \in Threads |-> "idle"]
    /\ keys = [t \in Threads |-> <<>>]
    /\ status = [t \in Threads |-> "none"]
    /\ lo = [t \in Threads |-> 0]
    /\ hi = [t \in Threads |-> 0]
    /\ attempt = [t \in Threads |-> 0]

(***************************************************************************)
(* vll_request_create, and vll_acquire up to its loop (the sort).          *)
(***************************************************************************)
vll_request_create(t) ==
    /\ pc[t] = "idle"
    /\ \E r \in SortedRequests : keys' = [keys EXCEPT ![t] = r]
    /\ status' = [status EXCEPT ![t] = "VLL_CONFLICT"]
    /\ pc' = [pc EXCEPT ![t] = "lock"]
    /\ UNCHANGED <<read_counts, write_flags, table_lock, lo, hi, attempt>>

\* The top of the retry loop: take the mutex, start at the first key.
vll_lock_table(t) ==
    /\ pc[t] = "lock"
    /\ table_lock = NoThread
    /\ table_lock' = t
    /\ lo' = [lo EXCEPT ![t] = 0]
    /\ hi' = [hi EXCEPT ![t] = 0]
    /\ pc' = [pc EXCEPT ![t] = "scan"]
    /\ UNCHANGED <<read_counts, write_flags, keys, status, attempt>>

\* Mutation: a writer looks at the writer flag only.
MutIgnoreReaders(k) == write_flags[key_to_slot(k)] = 1

Conflicts(k) ==
    LET s == key_to_slot(k) IN
    IF k.lock_type = READ THEN write_flags[s] = 1
                          ELSE write_flags[s] = 1 \/ read_counts[s] > 0

\* One iteration of the acquisition loop that takes its lock.
vll_take_key(t) ==
    /\ pc[t] = "scan"
    /\ hi[t] < Len(keys[t])
    /\ LET k == keys[t][hi[t] + 1]
           s == key_to_slot(k)
       IN  /\ ~Conflicts(k)
           /\ IF k.lock_type = READ
              THEN /\ read_counts' = [read_counts EXCEPT ![s] = @ + 1]
                   /\ UNCHANGED write_flags
              ELSE /\ write_flags' = [write_flags EXCEPT ![s] = 1]
                   /\ UNCHANGED read_counts
    /\ hi' = [hi EXCEPT ![t] = @ + 1]
    /\ UNCHANGED <<table_lock, pc, keys, status, lo, attempt>>

\* Mutation: the locks of a refused scan are not returned.
MutNoRollback(t) ==
    /\ pc[t] = "scan"
    /\ hi[t] < Len(keys[t])
    /\ Conflicts(keys[t][hi[t] + 1])
    /\ table_lock' = NoThread
    /\ pc' = [pc EXCEPT ![t] = "backoff"]
    /\ UNCHANGED <<read_counts, write_flags, keys, status, lo, hi, attempt>>

\* One that meets a conflict: what was taken so far is given back.
vll_meet_conflict(t) ==
    /\ pc[t] = "scan"
    /\ hi[t] < Len(keys[t])
    /\ Conflicts(keys[t][hi[t] + 1])
    /\ pc' = [pc EXCEPT ![t] = "rollback"]
    /\ UNCHANGED <<read_counts, write_flags, table_lock, keys, status, lo, hi, attempt>>

\* Mutation: the acquisition loop stops one key early.
MutGrantEarly(t) ==
    /\ pc[t] = "scan"
    /\ hi[t] >= Len(keys[t]) - 1
    /\ table_lock' = NoThread
    /\ status' = [status EXCEPT ![t] = "VLL_OK"]
    /\ pc' = [pc EXCEPT ![t] = "held"]
    /\ UNCHANGED <<read_counts, write_flags, keys, lo, hi, attempt>>

\* The loop ended without a conflict: vll_acquire returns VLL_OK.
vll_granted(t) ==
    /\ pc[t] = "scan"
    /\ hi[t] = Len(keys[t])
    /\ table_lock' = NoThread
    /\ status' = [status EXCEPT ![t] = "VLL_OK"]
    /\ pc' = [pc EXCEPT ![t] = "held"]
    /\ UNCHANGED <<read_counts, write_flags, keys, lo, hi, attempt>>

(***************************************************************************)
(* One iteration of the loop that returns locks.  vll_acquire and          *)
(* vll_release have the same loop: the first returns the acquired_count    *)
(* keys it took, the second all num_keys.                                  *)
(***************************************************************************)
vll_return_key(t) ==
    /\ pc[t] \in {"rollback", "release"}
    /\ lo[t] < hi[t]
    /\ LET k == keys[t][lo[t] + 1]
           s == key_to_slot(k)
       IN  IF k.lock_type = READ
           THEN /\ read_counts' = [read_counts EXCEPT ![s] = IF @ > 0 THEN @ - 1 ELSE @]
                /\ UNCHANGED write_flags
           ELSE /\ write_flags' = [write_flags EXCEPT ![s] = 0]
                /\ UNCHANGED read_counts
    /\ lo' = [lo EXCEPT ![t] = @ + 1]
    /\ UNCHANGED <<table_lock, pc, keys, status, hi, attempt>>

\* End of the rollback: the mutex is released before the clock is read.
vll_rolled_back(t) ==
    /\ pc[t] = "rollback"
    /\ lo[t] = hi[t]
    /\ table_lock' = NoThread
    /\ pc' = [pc EXCEPT ![t] = "backoff"]
    /\ UNCHANGED <<read_counts, write_flags, keys, status, lo, hi, attempt>>

\* Mutation: the deadline is computed anew for every attempt.
MutRetryForever(t) ==
    /\ pc[t] = "backoff"
    /\ pc' = [pc EXCEPT ![t] = "lock"]
    /\ UNCHANGED <<read_counts, write_flags, table_lock, keys, status, lo, hi, attempt>>

\* The deadline has not passed: usleep, then scan again.
vll_retry(t) ==
    /\ pc[t] = "backoff"
    /\ attempt[t] < MaxAttempts
    /\ attempt' = [attempt EXCEPT ![t] = @ + 1]
    /\ pc' = [pc EXCEPT ![t] = "lock"]
    /\ UNCHANGED <<read_counts, write_flags, table_lock, keys, status, lo, hi>>

\* The deadline has passed, which the clock may say after any scan.
vll_timeout(t) ==
    /\ pc[t] = "backoff"
    /\ status' = [status EXCEPT ![t] = "VLL_TIMEOUT"]
    /\ pc' = [pc EXCEPT ![t] = "done"]
    /\ UNCHANGED <<read_counts, write_flags, table_lock, keys, lo, hi, attempt>>

\* Mutation: vll_release changes the table without the mutex.
MutReleaseUnlocked(t) ==
    /\ pc[t] = "held"
    /\ status[t] = "VLL_OK"
    /\ lo' = [lo EXCEPT ![t] = 0]
    /\ hi' = [hi EXCEPT ![t] = Len(keys[t])]
    /\ pc' = [pc EXCEPT ![t] = "release"]
    /\ UNCHANGED <<read_counts, write_flags, table_lock, keys, status, attempt>>

\* vll_release: the caller's critical section is over.
vll_release(t) ==
    /\ pc[t] = "held"
    /\ status[t] = "VLL_OK"
    /\ table_lock = NoThread
    /\ table_lock' = t
    /\ lo' = [lo EXCEPT ![t] = 0]
    /\ hi' = [hi EXCEPT ![t] = Len(keys[t])]
    /\ pc' = [pc EXCEPT ![t] = "release"]
    /\ UNCHANGED <<read_counts, write_flags, keys, status, attempt>>

vll_released(t) ==
    /\ pc[t] = "release"
    /\ lo[t] = hi[t]
    /\ table_lock' = NoThread
    /\ status' = [status EXCEPT ![t] = "VLL_ABORTED"]
    /\ pc' = [pc EXCEPT ![t] = "done"]
    /\ UNCHANGED <<read_counts, write_flags, keys, lo, hi, attempt>>

\* vll_request_destroy: the caller frees a request that timed out or was released.
vll_request_destroy(t) ==
    /\ pc[t] = "done"
    /\ keys' = [keys EXCEPT ![t] = <<>>]
    /\ status' = [status EXCEPT ![t] = "none"]
    /\ lo' = [lo EXCEPT ![t] = 0]
    /\ hi' = [hi EXCEPT ![t] = 0]
    /\ attempt' = [attempt EXCEPT ![t] = 0]
    /\ pc' = [pc EXCEPT ![t] = "idle"]
    /\ UNCHANGED <<read_counts, write_flags, table_lock>>

Step(t) ==
    \/ vll_lock_table(t)   \/ vll_take_key(t)    \/ vll_meet_conflict(t)
    \/ vll_granted(t)      \/ vll_return_key(t)  \/ vll_rolled_back(t)
    \/ vll_retry(t)        \/ vll_timeout(t)     \/ vll_release(t)
    \/ vll_released(t)     \/ vll_request_destroy(t)

Next == \E t \in Threads : vll_request_create(t) \/ Step(t)

Spec == Init /\ [][Next]_vars

(***************************************************************************)
(* A thread inside vll_acquire or vll_release keeps running, and the       *)
(* caller of a granted request releases it (execCommand does, once its     *)
(* commands have run).  Nobody has to submit another request.              *)
(***************************************************************************)
FairSpec == Spec /\ \A t \in Threads : WF_vars(Step(t))

-----------------------------------------------------------------------------

(***************************************************************************)
(* The keys of t that are locked in the table right now.                   *)
(***************************************************************************)
Holds(t, i) == lo[t] < i /\ i <= hi[t]

Locks(s, type) ==
    {p \in Threads \X (1 .. MaxKeys) :
        /\ Holds(p[1], p[2])
        /\ key_to_slot(keys[p[1]][p[2]]) = s
        /\ keys[p[1]][p[2]].lock_type = type}

\* The shape of the state: a request is a non-empty key array once created.
TypeOK ==
    /\ read_counts \in [Slots -> Nat]
    /\ write_flags \in [Slots -> {0, 1}]
    /\ table_lock \in Threads \cup {NoThread}
    /\ pc \in [Threads -> {"idle", "lock", "scan", "rollback", "backoff", "held", "release", "done"}]
    /\ keys \in [Threads -> {<<>>} \cup SortedRequests]
    /\ status \in [Threads -> {"none", "VLL_OK", "VLL_CONFLICT", "VLL_TIMEOUT", "VLL_ABORTED"}]
    /\ lo \in [Threads -> 0 .. MaxKeys]
    /\ hi \in [Threads -> 0 .. MaxKeys]
    /\ attempt \in [Threads -> 0 .. MaxAttempts]

(***************************************************************************)
(* Mutual exclusion, what the comment on table_lock in vll.h asks of the   *)
(* lock manager: two granted transactions never share a slot that one of   *)
(* them locked for writing.                                                *)
(***************************************************************************)
Granted(t) == status[t] = "VLL_OK"

MutualExclusion ==
    \A t, u \in Threads : (t # u /\ Granted(t) /\ Granted(u)) =>
        \A i \in DOMAIN keys[t], j \in DOMAIN keys[u] :
            key_to_slot(keys[t][i]) = key_to_slot(keys[u][j]) =>
                keys[t][i].lock_type = READ /\ keys[u][j].lock_type = READ

(***************************************************************************)
(* No lock is leaked or lost by a partial acquisition, a rollback, a       *)
(* timeout or a release: the table counts exactly the locks the threads    *)
(* hold, so it is empty when nobody holds any.                             *)
(***************************************************************************)
TableCountsLocks ==
    \A s \in Slots :
        /\ read_counts[s] = Cardinality(Locks(s, READ))
        /\ write_flags[s] = Cardinality(Locks(s, WRITE))

(***************************************************************************)
(* All or nothing: whoever is outside the mutex sees every other request   *)
(* with all its locks (granted) or with none.                              *)
(***************************************************************************)
AllOrNothing ==
    table_lock = NoThread =>
        \A t \in Threads :
            {i \in DOMAIN keys[t] : Holds(t, i)} =
                IF Granted(t) THEN DOMAIN keys[t] ELSE {}

(***************************************************************************)
(* Multi-key acquisition does not deadlock: while t is inside vll_acquire, *)
(* its call returns or some other transaction runs to its end.  (A thread  *)
(* may starve at table_lock, which pthread_mutex_t permits.)               *)
(***************************************************************************)
Waiting(t) == pc[t] \in {"lock", "scan", "rollback", "backoff"}

AcquireDoesNotDeadlock ==
    \A t \in Threads :
        Waiting(t) ~> (~Waiting(t) \/ \E u \in Threads : pc[u] = "done")

(***************************************************************************)
(* The lock table implements LockService: a transaction's locks are        *)
(* granted in one step when vll_acquire returns VLL_OK and given up in one *)
(* step when vll_release drops the mutex, whatever happens in between.     *)
(***************************************************************************)
LocksOf(t) ==
    IF Granted(t)
    THEN {<<key_to_slot(keys[t][i]), keys[t][i].lock_type>> : i \in DOMAIN keys[t]}
    ELSE {}

Service == INSTANCE LockService WITH granted <- [t \in Threads |-> LocksOf(t)]

ImplementsLockService == Service!Spec

(***************************************************************************)
(* What the comment above vll_sort_keys promises (the global order of the  *)
(* locks removes deadlocks), stated for one transaction: it is refused     *)
(* only because of a lock that another transaction holds.                  *)
(***************************************************************************)
RefusedOnlyByOthers ==
    \A t \in Threads :
        pc[t] = "rollback" /\ lo[t] = 0 =>
            \E u \in Threads \ {t} : \E i \in DOMAIN keys[u] :
                /\ Holds(u, i)
                /\ key_to_slot(keys[u][i]) = key_to_slot(keys[t][hi[t] + 1])
=============================================================================
