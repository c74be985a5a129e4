----------------------------- MODULE VLLProofs -----------------------------
(***************************************************************************)
(* Proofs about VLL, for any finite set of threads, any keys and any table *)
(* size: the lock table counts exactly the locks that are held, granted    *)
(* transactions exclude each other and have all their locks, so that VLL   *)
(* implements LockService.                                                 *)
(***************************************************************************)
EXTENDS VLL, FiniteSetTheorems, TLAPS

(***************************************************************************)
(* Where a thread is determines what it holds, and a thread is inside the  *)
(* mutex exactly while it walks over its keys.                             *)
(***************************************************************************)
InMutex(t) == pc[t] \in {"scan", "rollback", "release"}

Phase(t) ==
    /\ lo[t] <= hi[t]
    /\ hi[t] <= Len(keys[t])
    /\ InMutex(t) <=> table_lock = t
    /\ pc[t] = "idle" => hi[t] = 0
    /\ pc[t] \in {"idle", "lock", "backoff", "done"} => lo[t] = hi[t]
    /\ pc[t] = "scan" => lo[t] = 0
    /\ pc[t] = "held" => lo[t] = 0
    /\ pc[t] \in {"held", "release"} => hi[t] = Len(keys[t])
    /\ Granted(t) <=> pc[t] \in {"held", "release"}

(***************************************************************************)
(* A slot never has readers and a writer at once.                          *)
(***************************************************************************)
NotMixed == \A s \in Slots : write_flags[s] = 0 \/ read_counts[s] = 0

(***************************************************************************)
(* The inductive invariant.  MutualExclusion speaks of every key of a      *)
(* granted request, also of those vll_release has already returned; that   *)
(* it is preserved rests on the table being exact for everybody who is     *)
(* outside the mutex.                                                      *)
(***************************************************************************)
IndInv ==
    /\ TypeOK
    /\ \A t \in Threads : Phase(t)
    /\ TableCountsLocks
    /\ NotMixed
    /\ MutualExclusion

-----------------------------------------------------------------------------

(***************************************************************************)
(* A request is a sequence of at most MaxKeys keys.                        *)
(***************************************************************************)
LEMMA RequestType ==
    ASSUME NEW r \in {<<>>} \cup SortedRequests
    PROVE  /\ r \in Seq(VLLKey)
           /\ Len(r) \in 0 .. MaxKeys
           /\ DOMAIN r = 1 .. Len(r)
           /\ \A i \in 1 .. Len(r) : r[i] \in VLLKey
<1>1. CASE r = <<>>
  BY <1>1, BoundAssumption
<1>2. CASE r \in SortedRequests
  <2>1. PICK n \in 1 .. MaxKeys : r \in [1 .. n -> VLLKey]
    BY <1>2 DEF SortedRequests
  <2>2. n \in Nat
    BY BoundAssumption
  <2>3. r \in Seq(VLLKey)
    BY <2>1, <2>2
  <2>4. Len(r) = n
    BY <2>1, <2>2, <2>3
  <2> QED
    BY <2>1, <2>2, <2>3, <2>4
<1> QED
  BY <1>1, <1>2

\* key_to_slot gives a slot of the table.
LEMMA SlotType ==
    ASSUME NEW k \in VLLKey
    PROVE  /\ key_to_slot(k) \in Slots
           /\ k.lock_type \in {READ, WRITE}
<1>1. k.key_hash \in Nat /\ k.lock_type \in {READ, WRITE}
  BY KeyAssumption DEF VLLKey
<1>2. \A a \in Nat, b \in Nat \ {0} : a % b \in 0 .. b - 1
  BY Z3
<1> QED
  BY <1>1, <1>2, SizeAssumption DEF key_to_slot, Slots

(***************************************************************************)
(* Finitely many locks, so that they can be counted.                       *)
(***************************************************************************)
LEMMA LocksFinite ==
    ASSUME NEW s, NEW type
    PROVE  /\ IsFiniteSet(Locks(s, type))
           /\ Cardinality(Locks(s, type)) \in Nat
<1>1. IsFiniteSet(1 .. MaxKeys)
  BY FS_Interval, BoundAssumption
<1>2. IsFiniteSet(Threads \X (1 .. MaxKeys))
  BY <1>1, FS_Product, ThreadsAssumption
<1>3. Locks(s, type) \in SUBSET (Threads \X (1 .. MaxKeys))
  BY DEF Locks
<1>4. IsFiniteSet(Locks(s, type))
  BY <1>2, <1>3, FS_Subset
<1> QED
  BY <1>4, FS_CardinalityType

-----------------------------------------------------------------------------

(***************************************************************************)
(* How a step changes the set of locks: not at all, by one lock taken, or  *)
(* by one lock returned.                                                   *)
(***************************************************************************)
LEMMA LocksFrame ==
    ASSUME NEW s, NEW type,
           \A t \in Threads, i \in 1 .. MaxKeys :
               /\ Holds(t, i)' <=> Holds(t, i)
               /\ Holds(t, i) => keys'[t][i] = keys[t][i]
    PROVE  Locks(s, type)' = Locks(s, type)
  BY DEF Locks, key_to_slot

\* Taking a key adds one lock to its slot and none to the others.
LEMMA LocksTaken ==
    ASSUME NEW t \in Threads, NEW n \in 1 .. MaxKeys, keys' = keys,
           ~Holds(t, n),
           \A u \in Threads, i \in 1 .. MaxKeys :
               Holds(u, i)' <=> (Holds(u, i) \/ (u = t /\ i = n)),
           NEW s, NEW type
    PROVE  Cardinality(Locks(s, type)') =
               IF key_to_slot(keys[t][n]) = s /\ keys[t][n].lock_type = type
               THEN Cardinality(Locks(s, type)) + 1
               ELSE Cardinality(Locks(s, type))
<1> DEFINE p == <<t, n>>
<1>1. p \notin Locks(s, type)
  BY DEF Locks
<1>2. CASE key_to_slot(keys[t][n]) = s /\ keys[t][n].lock_type = type
  <2>1. Locks(s, type)' = Locks(s, type) \cup {p}
    BY <1>2 DEF Locks, key_to_slot
  <2>2. Cardinality(Locks(s, type) \cup {p}) = Cardinality(Locks(s, type)) + 1
    BY <1>1, LocksFinite, FS_AddElement, Zenon
  <2> QED
    BY <2>1, <2>2, <1>2
<1>3. CASE ~(key_to_slot(keys[t][n]) = s /\ keys[t][n].lock_type = type)
  <2>1. Locks(s, type)' = Locks(s, type)
    BY <1>3 DEF Locks, key_to_slot
  <2> QED
    BY <2>1, <1>3
<1> QED
  BY <1>2, <1>3

\* Returning a key takes one lock from its slot and none from the others.
LEMMA LocksReturned ==
    ASSUME NEW t \in Threads, NEW n \in 1 .. MaxKeys, keys' = keys,
           Holds(t, n),
           \A u \in Threads, i \in 1 .. MaxKeys :
               Holds(u, i)' <=> (Holds(u, i) /\ ~(u = t /\ i = n)),
           NEW s, NEW type
    PROVE  Cardinality(Locks(s, type)') =
               IF key_to_slot(keys[t][n]) = s /\ keys[t][n].lock_type = type
               THEN Cardinality(Locks(s, type)) - 1
               ELSE Cardinality(Locks(s, type))
<1> DEFINE p == <<t, n>>
<1>1. CASE key_to_slot(keys[t][n]) = s /\ keys[t][n].lock_type = type
  <2>1. p \in Locks(s, type)
    BY <1>1 DEF Locks
  <2>2. Locks(s, type)' = Locks(s, type) \ {p}
    BY <1>1 DEF Locks, key_to_slot
  <2> QED
    <3>1. Cardinality(Locks(s, type) \ {p}) = Cardinality(Locks(s, type)) - 1
      BY <2>1, LocksFinite, FS_RemoveElement
    <3> QED
      BY <3>1, <2>2, <1>1
<1>2. CASE ~(key_to_slot(keys[t][n]) = s /\ keys[t][n].lock_type = type)
  <2>1. Locks(s, type)' = Locks(s, type)
    BY <1>2 DEF Locks, key_to_slot
  <2> QED
    BY <2>1, <1>2
<1> QED
  BY <1>1, <1>2

(***************************************************************************)
(* What an exact table excludes: two different locks of one slot are both  *)
(* read locks.                                                             *)
(***************************************************************************)
LEMMA HeldExclusion ==
    ASSUME TypeOK, TableCountsLocks, NotMixed,
           NEW s \in Slots,
           NEW p \in Locks(s, READ) \cup Locks(s, WRITE),
           NEW q \in Locks(s, READ) \cup Locks(s, WRITE),
           p # q
    PROVE  p \notin Locks(s, WRITE)
<1> SUFFICES ASSUME p \in Locks(s, WRITE) PROVE FALSE
  OBVIOUS
<1>1. Cardinality(Locks(s, WRITE)) = 1
  <2>1. Cardinality(Locks(s, WRITE)) # 0
    BY LocksFinite, FS_EmptySet
  <2> QED
    BY <2>1 DEF TableCountsLocks, TypeOK
<1>2. q \notin Locks(s, WRITE)
  <2>1. PICK x : Locks(s, WRITE) = {x}
    BY <1>1, LocksFinite, FS_Singleton
  <2> QED
    BY <2>1
<1>3. Cardinality(Locks(s, READ)) = 0
  BY <1>1 DEF TableCountsLocks, NotMixed
<1>4. Locks(s, READ) = {}
  BY <1>3, LocksFinite, FS_EmptySet
<1> QED
  BY <1>2, <1>4

-----------------------------------------------------------------------------

(***************************************************************************)
(* A step that takes and returns nothing leaves the table exact.           *)
(***************************************************************************)
LEMMA TableFrame ==
    ASSUME TableCountsLocks, NotMixed, UNCHANGED <<read_counts, write_flags>>,
           \A t \in Threads, i \in 1 .. MaxKeys :
               /\ Holds(t, i)' <=> Holds(t, i)
               /\ Holds(t, i) => keys'[t][i] = keys[t][i]
    PROVE  TableCountsLocks' /\ NotMixed'
<1>1. \A s \in Slots : /\ Locks(s, READ)' = Locks(s, READ)
                       /\ Locks(s, WRITE)' = Locks(s, WRITE)
  BY LocksFrame
<1>2. TableCountsLocks'
  BY <1>1 DEF TableCountsLocks, READ, WRITE
<1> QED
  BY <1>2 DEF NotMixed

\* The invariant holds in the empty table of vll_create.
LEMMA InitInv == Init => IndInv
<1> SUFFICES ASSUME Init PROVE IndInv
  OBVIOUS
<1>1. TypeOK
  BY BoundAssumption DEF Init, TypeOK
<1>2. \A t \in Threads : Phase(t)
  BY ThreadsAssumption DEF Init, Phase, InMutex, Granted
<1>3. \A s \in Slots : Locks(s, READ) = {} /\ Locks(s, WRITE) = {}
  BY DEF Init, Locks, Holds
<1>4. TableCountsLocks
  BY <1>3, FS_EmptySet DEF TableCountsLocks, Init
<1>5. NotMixed /\ MutualExclusion
  BY DEF Init, NotMixed, MutualExclusion, Granted
<1> QED
  BY <1>1, <1>2, <1>4, <1>5 DEF IndInv

(***************************************************************************)
(* The keys of every request have their types.                             *)
(***************************************************************************)
LEMMA KeysType ==
    ASSUME TypeOK
    PROVE  \A t \in Threads :
               /\ Len(keys[t]) \in 0 .. MaxKeys
               /\ DOMAIN keys[t] = 1 .. Len(keys[t])
               /\ \A i \in 1 .. Len(keys[t]) : keys[t][i] \in VLLKey
  BY RequestType DEF TypeOK

(***************************************************************************)
(* A step that grants nothing, and leaves the keys of granted requests     *)
(* alone, preserves mutual exclusion.                                      *)
(***************************************************************************)
LEMMA ExclusionFrame ==
    ASSUME MutualExclusion,
           \A u \in Threads : status'[u] = "VLL_OK" =>
               status[u] = "VLL_OK" /\ keys'[u] = keys[u]
    PROVE  MutualExclusion'
  BY SMTT(30) DEF MutualExclusion, Granted, key_to_slot

-----------------------------------------------------------------------------

(***************************************************************************)
(* Every step preserves the inductive invariant, one lemma per action.     *)
(***************************************************************************)
LEMMA CreateInv ==
    ASSUME IndInv, NEW t \in Threads,
           vll_request_create(t)
    PROVE  IndInv'
<1>a. TypeOK
  BY DEF IndInv
<1>b. \A u \in Threads : Phase(u)
  BY DEF IndInv
<1>c. TableCountsLocks /\ NotMixed
  BY DEF IndInv
<1>d. MutualExclusion
  BY DEF IndInv
<1>1. TypeOK'
  BY <1>a, SMTT(30) DEF vll_request_create, TypeOK
<1>2. \A u \in Threads : Phase(u)'
  <2> SUFFICES ASSUME NEW u \in Threads PROVE Phase(u)'
    OBVIOUS
  <2>1. Len(keys'[u]) \in 0 .. MaxKeys
    BY <1>a, <1>1, RequestType DEF TypeOK
  <2> QED
    BY <1>a, <1>b, <2>1, SMTT(30) DEF vll_request_create, TypeOK, Phase, InMutex, Granted
<1>3. TableCountsLocks' /\ NotMixed'
  <2>1. \A u \in Threads, i \in 1 .. MaxKeys :
            /\ Holds(u, i)' <=> Holds(u, i)
            /\ Holds(u, i) => keys'[u][i] = keys[u][i]
    BY <1>a, <1>b, SMTT(30) DEF vll_request_create, TypeOK, Phase, Holds
  <2> QED
    BY <1>c, <2>1, TableFrame DEF vll_request_create
<1>4. MutualExclusion'
  BY <1>a, <1>d, ExclusionFrame, SMTT(30) DEF vll_request_create, TypeOK
<1> QED
  BY <1>1, <1>2, <1>3, <1>4 DEF IndInv

\* vll_acquire locks the table and starts at the first key: no lock changes hands.
LEMMA LockInv ==
    ASSUME IndInv, NEW t \in Threads,
           vll_lock_table(t)
    PROVE  IndInv'
<1>a. TypeOK
  BY DEF IndInv
<1>b. \A u \in Threads : Phase(u)
  BY DEF IndInv
<1>c. TableCountsLocks /\ NotMixed
  BY DEF IndInv
<1>d. MutualExclusion
  BY DEF IndInv
<1>1. TypeOK'
  BY <1>a, BoundAssumption, SMTT(30) DEF vll_lock_table, TypeOK
<1>2. \A u \in Threads : Phase(u)'
  BY <1>a, <1>b, KeysType, ThreadsAssumption, SMTT(30) DEF vll_lock_table, TypeOK, Phase, InMutex, Granted
<1>3. TableCountsLocks' /\ NotMixed'
  <2>1. \A u \in Threads, i \in 1 .. MaxKeys : Holds(u, i)' <=> Holds(u, i)
    BY <1>a, <1>b, SMTT(30) DEF vll_lock_table, TypeOK, Phase, Holds
  <2> QED
    BY <1>c, <2>1, TableFrame DEF vll_lock_table
<1>4. MutualExclusion'
  BY <1>d, ExclusionFrame, SMTT(30) DEF vll_lock_table
<1> QED
  BY <1>1, <1>2, <1>3, <1>4 DEF IndInv

\* One key of the scan in vll_acquire is taken: the table shows it free.
LEMMA TakeInv ==
    ASSUME IndInv, NEW t \in Threads,
           vll_take_key(t)
    PROVE  IndInv'
<1>a. TypeOK
  BY DEF IndInv
<1>b. \A u \in Threads : Phase(u)
  BY DEF IndInv
<1>c. TableCountsLocks /\ NotMixed
  BY DEF IndInv
<1>d. MutualExclusion
  BY DEF IndInv
<1> DEFINE n == hi[t] + 1
           k == keys[t][n]
           z == key_to_slot(k)
<1>1. /\ n \in 1 .. Len(keys[t]) /\ n \in 1 .. MaxKeys
      /\ k \in VLLKey /\ z \in Slots /\ k.lock_type \in {READ, WRITE}
  <2>1. /\ Len(keys[t]) \in 0 .. MaxKeys
        /\ \A i \in 1 .. Len(keys[t]) : keys[t][i] \in VLLKey
    BY <1>a, KeysType
  <2>2. hi[t] \in 0 .. MaxKeys
    BY <1>a DEF TypeOK
  <2>3. hi[t] < Len(keys[t])
    BY DEF vll_take_key
  <2>4. n \in 1 .. Len(keys[t]) /\ n \in 1 .. MaxKeys
    BY <2>1, <2>2, <2>3, BoundAssumption
  <2>5. k \in VLLKey
    BY <2>1, <2>4
  <2> QED
    BY <2>4, <2>5, SlotType
<1>2. /\ k.lock_type = READ =>
            /\ write_flags[z] = 0
            /\ read_counts' = [read_counts EXCEPT ![z] = @ + 1]
            /\ write_flags' = write_flags
      /\ k.lock_type = WRITE =>
            /\ write_flags[z] = 0 /\ read_counts[z] = 0
            /\ write_flags' = [write_flags EXCEPT ![z] = 1]
            /\ read_counts' = read_counts
      /\ hi' = [hi EXCEPT ![t] = n]
      /\ UNCHANGED <<table_lock, pc, keys, status, lo, attempt>>
  <2>1. ~Conflicts(k)
    BY DEF vll_take_key
  <2>2. read_counts[z] \in Nat /\ write_flags[z] \in {0, 1}
    BY <1>a, <1>1 DEF TypeOK
  <2>3. /\ hi' = [hi EXCEPT ![t] = n]
        /\ UNCHANGED <<table_lock, pc, keys, status, lo, attempt>>
    BY DEF vll_take_key
  <2>4. ASSUME k.lock_type = READ
        PROVE  /\ write_flags[z] = 0
               /\ read_counts' = [read_counts EXCEPT ![z] = @ + 1]
               /\ write_flags' = write_flags
    <3>1. write_flags[z] = 0
      BY <2>1, <2>2, <2>4 DEF Conflicts
    <3> QED
      BY <2>4, <3>1 DEF vll_take_key
  <2>5. ASSUME k.lock_type = WRITE
        PROVE  /\ write_flags[z] = 0 /\ read_counts[z] = 0
               /\ write_flags' = [write_flags EXCEPT ![z] = 1]
               /\ read_counts' = read_counts
    <3>1. write_flags[z] = 0 /\ read_counts[z] = 0
      BY <2>1, <2>2, <2>5 DEF Conflicts, READ, WRITE
    <3> QED
      BY <2>5, <3>1 DEF vll_take_key, READ, WRITE
  <2> QED
    BY <2>3, <2>4, <2>5
<1> HIDE DEF n, k, z
<1>3. TypeOK'
  <2>1. read_counts' \in [Slots -> Nat] /\ write_flags' \in [Slots -> {0, 1}]
    <3>1. read_counts \in [Slots -> Nat] /\ write_flags \in [Slots -> {0, 1}]
      BY <1>a DEF TypeOK
    <3>2. CASE k.lock_type = READ
      BY <1>1, <1>2, <3>1, <3>2
    <3>3. CASE k.lock_type = WRITE
      BY <1>1, <1>2, <3>1, <3>3
    <3> QED
      BY <1>1, <3>2, <3>3
  <2>2. hi' \in [Threads -> 0 .. MaxKeys]
    BY <1>a, <1>1, <1>2, BoundAssumption DEF TypeOK
  <2> QED
    BY <1>a, <1>2, <2>1, <2>2 DEF TypeOK
<1>4. \A u \in Threads : Phase(u)'
  BY <1>a, <1>b, <1>1, <1>2, SMTT(30) DEF vll_take_key, TypeOK, Phase, InMutex, Granted, n
<1>5. /\ ~Holds(t, n)
      /\ \A u \in Threads, i \in 1 .. MaxKeys :
             Holds(u, i)' <=> (Holds(u, i) \/ (u = t /\ i = n))
  <2>1. n = hi[t] + 1 /\ lo[t] = 0
    BY <1>b DEF vll_take_key, Phase, n
  <2>2. lo \in [Threads -> Int] /\ hi \in [Threads -> Int]
    BY <1>a DEF TypeOK
  <2>3. hi' = [hi EXCEPT ![t] = n] /\ lo' = lo
    BY <1>2
  <2> QED
    BY <2>1, <2>2, <2>3, <1>1, SMTT(30) DEF Holds
<1>6. \A s \in Slots, type \in {READ, WRITE} :
          Cardinality(Locks(s, type)') =
              IF z = s /\ k.lock_type = type
              THEN Cardinality(Locks(s, type)) + 1
              ELSE Cardinality(Locks(s, type))
  <2> SUFFICES ASSUME NEW s, NEW type
               PROVE  Cardinality(Locks(s, type)') =
                          IF z = s /\ k.lock_type = type
                          THEN Cardinality(Locks(s, type)) + 1
                          ELSE Cardinality(Locks(s, type))
    OBVIOUS
  <2>1. keys' = keys /\ n \in 1 .. MaxKeys
    BY <1>1, <1>2
  <2> QED
    BY <1>5, <2>1, LocksTaken, SMTT(30) DEF k, z
<1>7. TableCountsLocks'
  BY <1>a, <1>c, <1>1, <1>2, <1>6 DEF TableCountsLocks, TypeOK, READ, WRITE
<1>8. NotMixed'
  BY <1>a, <1>c, <1>1, <1>2 DEF NotMixed, TypeOK
<1>9. MutualExclusion'
  BY <1>d, <1>2, ExclusionFrame, SMTT(30)
<1> QED
  BY <1>3, <1>4, <1>7, <1>8, <1>9 DEF IndInv

\* The scan of vll_acquire meets a conflict: it turns to the rollback.
LEMMA ConflictInv ==
    ASSUME IndInv, NEW t \in Threads,
           vll_meet_conflict(t)
    PROVE  IndInv'
<1>a. TypeOK
  BY DEF IndInv
<1>b. \A u \in Threads : Phase(u)
  BY DEF IndInv
<1>c. TableCountsLocks /\ NotMixed
  BY DEF IndInv
<1>d. MutualExclusion
  BY DEF IndInv
<1>1. TypeOK'
  BY <1>a, SMTT(30) DEF vll_meet_conflict, TypeOK
<1>2. \A u \in Threads : Phase(u)'
  BY <1>a, <1>b, SMTT(30) DEF vll_meet_conflict, TypeOK, Phase, InMutex, Granted
<1>3. TableCountsLocks' /\ NotMixed'
  BY <1>c, TableFrame, SMTT(30) DEF vll_meet_conflict, Holds
<1>4. MutualExclusion'
  BY <1>d, ExclusionFrame, SMTT(30) DEF vll_meet_conflict
<1> QED
  BY <1>1, <1>2, <1>3, <1>4 DEF IndInv

\* The scan ends and the request is granted, compatible with all others.
LEMMA GrantInv ==
    ASSUME IndInv, NEW t \in Threads,
           vll_granted(t)
    PROVE  IndInv'
<1>a. TypeOK
  BY DEF IndInv
<1>b. \A u \in Threads : Phase(u)
  BY DEF IndInv
<1>c. TableCountsLocks /\ NotMixed
  BY DEF IndInv
<1>d. MutualExclusion
  BY DEF IndInv
<1>1. TypeOK'
  BY <1>a, SMTT(30) DEF vll_granted, TypeOK
<1>2. \A u \in Threads : Phase(u)'
  BY <1>a, <1>b, ThreadsAssumption, SMTT(30) DEF vll_granted, TypeOK, Phase, InMutex, Granted
<1>3. TableCountsLocks' /\ NotMixed'
  BY <1>c, TableFrame, SMTT(30) DEF vll_granted, Holds
<1>4. MutualExclusion'
  <2>1. \A u \in Threads, i \in 1 .. MaxKeys :
            Granted(u)' /\ i \in DOMAIN keys[u] => Holds(u, i)
    BY <1>a, <1>b, KeysType, SMTT(30) DEF vll_granted, TypeOK, Phase, InMutex, Granted, Holds
  <2>2. ASSUME NEW u \in Threads, NEW v \in Threads, u # v,
               Granted(u)', Granted(v)',
               NEW i \in DOMAIN keys[u], NEW j \in DOMAIN keys[v],
               key_to_slot(keys[u][i]) = key_to_slot(keys[v][j])
        PROVE  keys[u][i].lock_type = READ
    <3> DEFINE s == key_to_slot(keys[u][i])
    <3>1. /\ i \in 1 .. MaxKeys /\ j \in 1 .. MaxKeys
          /\ keys[u][i] \in VLLKey /\ keys[v][j] \in VLLKey
      BY <1>a, KeysType, BoundAssumption
    <3>2. /\ s \in Slots
          /\ keys[u][i].lock_type \in {READ, WRITE}
          /\ keys[v][j].lock_type \in {READ, WRITE}
      BY <3>1, SlotType
    <3>3. Holds(u, i) /\ Holds(v, j)
      BY <3>1, <2>1, <2>2
    <3>4. /\ <<u, i>> \in Locks(s, keys[u][i].lock_type)
          /\ <<v, j>> \in Locks(s, keys[v][j].lock_type)
      BY <3>1, <3>3, <2>2 DEF Locks
    <3>5. <<u, i>> # <<v, j>>
      BY <2>2
    <3>6. /\ <<u, i>> \in Locks(s, READ) \cup Locks(s, WRITE)
          /\ <<v, j>> \in Locks(s, READ) \cup Locks(s, WRITE)
      BY <3>2, <3>4
    <3>7. <<u, i>> \notin Locks(s, WRITE)
      BY <1>a, <1>c, <3>2, <3>5, <3>6, HeldExclusion
    <3> QED
      BY <3>2, <3>4, <3>7
  <2>3. keys' = keys
    BY DEF vll_granted
  <2> QED
    BY <1>d, <2>2, <2>3, SMTT(30) DEF MutualExclusion, key_to_slot
<1> QED
  BY <1>1, <1>2, <1>3, <1>4 DEF IndInv

\* One key is returned, by the rollback or by vll_release.
LEMMA ReturnInv ==
    ASSUME IndInv, NEW t \in Threads,
           vll_return_key(t)
    PROVE  IndInv'
<1>a. TypeOK
  BY DEF IndInv
<1>b. \A u \in Threads : Phase(u)
  BY DEF IndInv
<1>c. TableCountsLocks /\ NotMixed
  BY DEF IndInv
<1>d. MutualExclusion
  BY DEF IndInv
<1> DEFINE n == lo[t] + 1
           k == keys[t][n]
           z == key_to_slot(k)
<1>1. /\ n \in 1 .. Len(keys[t]) /\ n \in 1 .. MaxKeys
      /\ k \in VLLKey /\ z \in Slots /\ k.lock_type \in {READ, WRITE}
  <2>1. /\ Len(keys[t]) \in 0 .. MaxKeys
        /\ \A i \in 1 .. Len(keys[t]) : keys[t][i] \in VLLKey
    BY <1>a, KeysType
  <2>2. lo[t] \in 0 .. MaxKeys
    BY <1>a DEF TypeOK
  <2>3. lo[t] < hi[t] /\ hi[t] <= Len(keys[t]) /\ hi[t] \in 0 .. MaxKeys
    BY <1>a, <1>b DEF vll_return_key, Phase, TypeOK
  <2>4. n \in 1 .. Len(keys[t]) /\ n \in 1 .. MaxKeys
    BY <2>1, <2>2, <2>3, BoundAssumption
  <2>5. k \in VLLKey
    BY <2>1, <2>4
  <2> QED
    BY <2>4, <2>5, SlotType
<1>2. /\ k.lock_type = READ =>
            /\ read_counts' = [read_counts EXCEPT ![z] = IF @ > 0 THEN @ - 1 ELSE @]
            /\ write_flags' = write_flags
      /\ k.lock_type = WRITE =>
            /\ write_flags' = [write_flags EXCEPT ![z] = 0]
            /\ read_counts' = read_counts
      /\ lo' = [lo EXCEPT ![t] = n]
      /\ UNCHANGED <<table_lock, pc, keys, status, hi, attempt>>
  <2>1. /\ lo' = [lo EXCEPT ![t] = n]
        /\ UNCHANGED <<table_lock, pc, keys, status, hi, attempt>>
    BY DEF vll_return_key
  <2>2. ASSUME k.lock_type = READ
        PROVE  /\ read_counts' = [read_counts EXCEPT ![z] = IF @ > 0 THEN @ - 1 ELSE @]
               /\ write_flags' = write_flags
    BY <2>2 DEF vll_return_key
  <2>3. ASSUME k.lock_type = WRITE
        PROVE  /\ write_flags' = [write_flags EXCEPT ![z] = 0]
               /\ read_counts' = read_counts
    BY <2>3 DEF vll_return_key, READ, WRITE
  <2> QED
    BY <2>1, <2>2, <2>3
<1> HIDE DEF n, k, z
<1>3. TypeOK'
  <2>1. read_counts' \in [Slots -> Nat] /\ write_flags' \in [Slots -> {0, 1}]
    <3>1. read_counts \in [Slots -> Nat] /\ write_flags \in [Slots -> {0, 1}]
      BY <1>a DEF TypeOK
    <3>2. CASE k.lock_type = READ
      BY <1>1, <1>2, <3>1, <3>2
    <3>3. CASE k.lock_type = WRITE
      BY <1>1, <1>2, <3>1, <3>3
    <3> QED
      BY <1>1, <3>2, <3>3
  <2>2. lo' \in [Threads -> 0 .. MaxKeys]
    BY <1>a, <1>1, <1>2, BoundAssumption DEF TypeOK
  <2> QED
    BY <1>a, <1>2, <2>1, <2>2 DEF TypeOK
<1>4. \A u \in Threads : Phase(u)'
  BY <1>a, <1>b, <1>1, <1>2, SMTT(30) DEF vll_return_key, TypeOK, Phase, InMutex, Granted, n
<1>5. /\ Holds(t, n)
      /\ \A u \in Threads, i \in 1 .. MaxKeys :
             Holds(u, i)' <=> (Holds(u, i) /\ ~(u = t /\ i = n))
  <2>1. n = lo[t] + 1 /\ lo[t] < hi[t]
    BY DEF vll_return_key, n
  <2>2. lo \in [Threads -> Int] /\ hi \in [Threads -> Int]
    BY <1>a DEF TypeOK
  <2>3. lo' = [lo EXCEPT ![t] = n] /\ hi' = hi
    BY <1>2
  <2> QED
    BY <2>1, <2>2, <2>3, SMTT(30) DEF Holds
<1>6. \A s \in Slots, type \in {READ, WRITE} :
          Cardinality(Locks(s, type)') =
              IF z = s /\ k.lock_type = type
              THEN Cardinality(Locks(s, type)) - 1
              ELSE Cardinality(Locks(s, type))
  <2> SUFFICES ASSUME NEW s, NEW type
               PROVE  Cardinality(Locks(s, type)') =
                          IF z = s /\ k.lock_type = type
                          THEN Cardinality(Locks(s, type)) - 1
                          ELSE Cardinality(Locks(s, type))
    OBVIOUS
  <2>1. keys' = keys /\ n \in 1 .. MaxKeys
    BY <1>1, <1>2
  <2> QED
    BY <1>5, <2>1, LocksReturned, SMTT(30) DEF k, z
<1>7. Cardinality(Locks(z, k.lock_type)) > 0
  <2>1. <<t, n>> \in Locks(z, k.lock_type)
    BY <1>1, <1>5 DEF Locks, k, z
  <2> QED
    BY <2>1, LocksFinite, FS_EmptySet
<1>8. TableCountsLocks'
  <2> SUFFICES ASSUME NEW s \in Slots
               PROVE  /\ read_counts'[s] = Cardinality(Locks(s, READ)')
                      /\ write_flags'[s] = Cardinality(Locks(s, WRITE)')
    BY <1>c DEF TableCountsLocks, READ, WRITE
  <2>1. /\ read_counts[s] = Cardinality(Locks(s, READ))
        /\ write_flags[s] = Cardinality(Locks(s, WRITE))
        /\ read_counts[s] \in Nat /\ write_flags[s] \in {0, 1}
    BY <1>a, <1>c DEF TableCountsLocks, TypeOK
  <2>2. /\ Cardinality(Locks(s, READ)') =
              IF z = s /\ k.lock_type = READ
              THEN read_counts[s] - 1 ELSE read_counts[s]
        /\ Cardinality(Locks(s, WRITE)') =
              IF z = s /\ k.lock_type = WRITE
              THEN write_flags[s] - 1 ELSE write_flags[s]
    BY <1>6, <2>1
  <2>3. CASE k.lock_type = READ
    <3>1. read_counts'[s] = IF z = s THEN read_counts[s] - 1 ELSE read_counts[s]
      <4>1. z = s => read_counts[s] > 0
        BY <1>7, <2>1, <2>3
      <4> QED
        BY <1>a, <4>1, <1>1, <1>2, <2>1, <2>3 DEF TypeOK
    <3> QED
      BY <3>1, <1>2, <2>1, <2>2, <2>3 DEF READ, WRITE
  <2>4. CASE k.lock_type = WRITE
    <3>1. write_flags'[s] = IF z = s THEN write_flags[s] - 1 ELSE write_flags[s]
      <4>1. z = s => write_flags[s] = 1
        BY <1>7, <2>1, <2>4
      <4> QED
        BY <1>a, <4>1, <1>1, <1>2, <2>1, <2>4 DEF TypeOK
    <3> QED
      BY <3>1, <1>2, <2>1, <2>2, <2>4 DEF READ, WRITE
  <2> QED
    BY <1>1, <2>3, <2>4
<1>9. NotMixed'
  BY <1>a, <1>c, <1>1, <1>2 DEF NotMixed, TypeOK
<1>10. MutualExclusion'
  BY <1>d, <1>2, ExclusionFrame, SMTT(30)
<1> QED
  BY <1>3, <1>4, <1>8, <1>9, <1>10 DEF IndInv

\* The end of the rollback: the mutex is freed, then a retry or the timeout.
LEMMA RetryInv ==
    ASSUME IndInv, NEW t \in Threads,
           vll_rolled_back(t) \/ vll_retry(t) \/ vll_timeout(t)
    PROVE  IndInv'
<1>a. TypeOK
  BY DEF IndInv
<1>b. \A u \in Threads : Phase(u)
  BY DEF IndInv
<1>c. TableCountsLocks /\ NotMixed
  BY DEF IndInv
<1>d. MutualExclusion
  BY DEF IndInv
<1> USE DEF vll_rolled_back, vll_retry, vll_timeout
<1>1. TypeOK'
  <2>1. attempt' \in [Threads -> 0 .. MaxAttempts]
    <3>1. attempt \in [Threads -> 0 .. MaxAttempts]
      BY <1>a DEF TypeOK
    <3>2. CASE vll_retry(t)
      BY <3>1, <3>2, BoundAssumption
    <3> QED
      BY <3>1, <3>2
  <2>2. /\ table_lock' \in {table_lock, NoThread}
        /\ status' \in {status, [status EXCEPT ![t] = "VLL_TIMEOUT"]}
        /\ pc' \in {[pc EXCEPT ![t] = p] : p \in {"backoff", "lock", "done"}}
        /\ UNCHANGED <<read_counts, write_flags, keys, lo, hi>>
    OBVIOUS
  <2> QED
    BY <1>a, <2>1, <2>2 DEF TypeOK
<1>2. \A u \in Threads : Phase(u)'
  BY <1>a, <1>b, ThreadsAssumption, SMTT(30) DEF TypeOK, Phase, InMutex, Granted
<1>3. TableCountsLocks' /\ NotMixed'
  BY <1>c, TableFrame, SMTT(30) DEF Holds
<1>4. MutualExclusion'
  BY <1>a, <1>d, ExclusionFrame, SMTT(30) DEF TypeOK
<1> QED
  BY <1>1, <1>2, <1>3, <1>4 DEF IndInv

\* vll_release locks the table with all its locks still held.
LEMMA ReleaseInv ==
    ASSUME IndInv, NEW t \in Threads,
           vll_release(t)
    PROVE  IndInv'
<1>a. TypeOK
  BY DEF IndInv
<1>b. \A u \in Threads : Phase(u)
  BY DEF IndInv
<1>c. TableCountsLocks /\ NotMixed
  BY DEF IndInv
<1>d. MutualExclusion
  BY DEF IndInv
<1>1. TypeOK'
  BY <1>a, KeysType, BoundAssumption, SMTT(30) DEF vll_release, TypeOK
<1>2. \A u \in Threads : Phase(u)'
  <2> SUFFICES ASSUME NEW u \in Threads PROVE Phase(u)'
    OBVIOUS
  <2>1. Len(keys[u]) \in 0 .. MaxKeys
    BY <1>a, KeysType
  <2>2. Phase(u)
    BY <1>b
  <2>3. CASE u = t
    BY <1>a, <2>1, <2>2, <2>3, SMTT(30) DEF vll_release, TypeOK, Phase, InMutex, Granted
  <2>4. CASE u # t
    BY <1>a, <2>2, <2>4, ThreadsAssumption, SMTT(30) DEF vll_release, TypeOK, Phase, InMutex, Granted
  <2> QED
    BY <2>3, <2>4
<1>3. TableCountsLocks' /\ NotMixed'
  <2>1. /\ Len(keys[t]) \in 0 .. MaxKeys
        /\ lo[t] = 0 /\ hi[t] = Len(keys[t])
    BY <1>a, <1>b, KeysType DEF vll_release, Phase
  <2>2. \A u \in Threads, i \in 1 .. MaxKeys : Holds(u, i)' <=> Holds(u, i)
    BY <1>a, <2>1, SMTT(30) DEF vll_release, TypeOK, Holds
  <2> QED
    BY <1>c, <2>2, TableFrame DEF vll_release
<1>4. MutualExclusion'
  BY <1>d, ExclusionFrame, SMTT(30) DEF vll_release
<1> QED
  BY <1>1, <1>2, <1>3, <1>4 DEF IndInv

\* The end of vll_release: nothing is held and the mutex is free.
LEMMA ReleasedInv ==
    ASSUME IndInv, NEW t \in Threads,
           vll_released(t)
    PROVE  IndInv'
<1>a. TypeOK
  BY DEF IndInv
<1>b. \A u \in Threads : Phase(u)
  BY DEF IndInv
<1>c. TableCountsLocks /\ NotMixed
  BY DEF IndInv
<1>d. MutualExclusion
  BY DEF IndInv
<1>1. TypeOK'
  BY <1>a, SMTT(30) DEF vll_released, TypeOK
<1>2. \A u \in Threads : Phase(u)'
  BY <1>a, <1>b, ThreadsAssumption, SMTT(30) DEF vll_released, TypeOK, Phase, InMutex, Granted
<1>3. TableCountsLocks' /\ NotMixed'
  BY <1>c, TableFrame, SMTT(30) DEF vll_released, Holds
<1>4. MutualExclusion'
  BY <1>a, <1>d, ExclusionFrame, SMTT(30) DEF vll_released, TypeOK
<1> QED
  BY <1>1, <1>2, <1>3, <1>4 DEF IndInv

\* vll_request_destroy: a request that holds nothing is forgotten.
LEMMA DestroyInv ==
    ASSUME IndInv, NEW t \in Threads,
           vll_request_destroy(t)
    PROVE  IndInv'
<1>a. TypeOK
  BY DEF IndInv
<1>b. \A u \in Threads : Phase(u)
  BY DEF IndInv
<1>c. TableCountsLocks /\ NotMixed
  BY DEF IndInv
<1>d. MutualExclusion
  BY DEF IndInv
<1>1. TypeOK'
  BY <1>a, BoundAssumption, SMTT(30) DEF vll_request_destroy, TypeOK
<1>2. \A u \in Threads : Phase(u)'
  BY <1>a, <1>b, SMTT(30) DEF vll_request_destroy, TypeOK, Phase, InMutex, Granted
<1>3. TableCountsLocks' /\ NotMixed'
  <2>1. \A u \in Threads, i \in 1 .. MaxKeys :
            /\ Holds(u, i)' <=> Holds(u, i)
            /\ Holds(u, i) => keys'[u][i] = keys[u][i]
    BY <1>a, <1>b, SMTT(30) DEF vll_request_destroy, TypeOK, Phase, Holds
  <2> QED
    BY <1>c, <2>1, TableFrame DEF vll_request_destroy
<1>4. MutualExclusion'
  BY <1>a, <1>d, ExclusionFrame, SMTT(30) DEF vll_request_destroy, TypeOK
<1> QED
  BY <1>1, <1>2, <1>3, <1>4 DEF IndInv

\* A step that changes nothing keeps the invariant.
LEMMA StutterInv ==
    ASSUME IndInv, UNCHANGED vars
    PROVE  IndInv'
<1>a. TypeOK
  BY DEF IndInv
<1>b. \A u \in Threads : Phase(u)
  BY DEF IndInv
<1>c. TableCountsLocks /\ NotMixed
  BY DEF IndInv
<1>d. MutualExclusion
  BY DEF IndInv
<1>1. TypeOK'
  BY <1>a DEF vars, TypeOK
<1>2. \A u \in Threads : Phase(u)'
  BY <1>b DEF vars, Phase, InMutex, Granted
<1>3. TableCountsLocks' /\ NotMixed'
  BY <1>c, TableFrame, SMTT(30) DEF vars, Holds
<1>4. MutualExclusion'
  BY <1>d, ExclusionFrame DEF vars
<1> QED
  BY <1>1, <1>2, <1>3, <1>4 DEF IndInv

\* Every step of the lock manager keeps the invariant.
LEMMA StepInv == IndInv /\ [Next]_vars => IndInv'
  BY CreateInv, LockInv, TakeInv, ConflictInv, GrantInv, ReturnInv, RetryInv,
     ReleaseInv, ReleasedInv, DestroyInv, StutterInv
     DEF Next, Step

(***************************************************************************)
(* Every reachable state satisfies the inductive invariant.                *)
(***************************************************************************)
THEOREM Invariance == Spec => []IndInv
  BY InitInv, StepInv, PTL DEF Spec

(***************************************************************************)
(* Type correctness of the lock manager's state and of every request.      *)
(***************************************************************************)
THEOREM TypeCorrect == Spec => []TypeOK
  BY Invariance, PTL DEF IndInv

(***************************************************************************)
(* Two transactions that vll_acquire has granted never share a slot that   *)
(* one of them locked for writing.                                         *)
(***************************************************************************)
THEOREM Exclusion == Spec => []MutualExclusion
  BY Invariance, PTL DEF IndInv

(***************************************************************************)
(* vll_acquire, its rollback and vll_release neither leak nor lose a lock. *)
(***************************************************************************)
THEOREM ExactTable == Spec => []TableCountsLocks
  BY Invariance, PTL DEF IndInv

(***************************************************************************)
(* Outside the mutex, a request of vll_acquire has all its locks or none.  *)
(***************************************************************************)
THEOREM Atomicity == Spec => []AllOrNothing
<1>1. IndInv => AllOrNothing
  <2> SUFFICES ASSUME IndInv, table_lock = NoThread, NEW t \in Threads
               PROVE  {i \in DOMAIN keys[t] : Holds(t, i)} =
                          IF Granted(t) THEN DOMAIN keys[t] ELSE {}
    BY DEF AllOrNothing
  <2>1. /\ keys[t] \in {<<>>} \cup SortedRequests
        /\ lo[t] \in Int /\ hi[t] \in Int
        /\ pc[t] \in {"idle", "lock", "scan", "rollback", "backoff", "held",
                      "release", "done"}
        /\ Phase(t)
    BY DEF IndInv, TypeOK
  <2>2. Len(keys[t]) \in Nat /\ DOMAIN keys[t] = 1 .. Len(keys[t])
    BY <2>1, RequestType
  <2>3. ~InMutex(t)
    BY <2>1, ThreadsAssumption DEF Phase
  <2>4. CASE Granted(t)
    <3>1. lo[t] = 0 /\ hi[t] = Len(keys[t])
      BY <2>1, <2>3, <2>4 DEF Phase, InMutex
    <3> QED
      BY <2>2, <2>4, <3>1 DEF Holds
  <2>5. CASE ~Granted(t)
    <3>1. lo[t] = hi[t]
      BY <2>1, <2>3, <2>5 DEF Phase, InMutex
    <3> QED
      BY <2>1, <2>2, <2>5, <3>1 DEF Holds
  <2> QED
    BY <2>4, <2>5
<1> QED
  BY <1>1, Invariance, PTL

-----------------------------------------------------------------------------

(***************************************************************************)
(* The lock table of vll.c implements LockService: a grant is one step     *)
(* compatible with everybody else's locks, a release is one step, and the  *)
(* scans, rollbacks and back-offs in between are invisible.                *)
(***************************************************************************)
THEOREM Refinement == Spec => ImplementsLockService
<1> DEFINE Map == [t \in Threads |-> LocksOf(t)]
<1>1. Init => Service!Init
  BY DEF Init, Service!Init, LocksOf, Granted
<1>2. ASSUME IndInv, IndInv', [Next]_vars
      PROVE  [Service!Next]_Map
  <2>0. /\ DOMAIN status = Threads
        /\ DOMAIN keys = Threads
        /\ \A t \in Threads : Granted(t) <=> pc[t] \in {"held", "release"}
    BY <1>2 DEF IndInv, TypeOK, Phase
  <2>1. ASSUME NEW t \in Threads, vll_granted(t)
        PROVE  [Service!Next]_Map
    <3> DEFINE ls == {<<key_to_slot(keys[t][i]), keys[t][i].lock_type>> : i \in DOMAIN keys[t]}
    <3>1. ~Granted(t) /\ Granted(t)' /\ keys' = keys
      BY <2>0, <2>1 DEF vll_granted, Granted
    <3>2. \A u \in Threads \ {t} : Granted(u)' <=> Granted(u)
      BY <2>0, <2>1 DEF vll_granted, Granted
    <3>3. LocksOf(t) = {} /\ LocksOf(t)' = ls
      BY <3>1 DEF LocksOf, key_to_slot
    <3>4. \A u \in Threads \ {t} : LocksOf(u)' = LocksOf(u)
      BY <3>1, <3>2 DEF LocksOf, key_to_slot
    <3>5. Map' = [Map EXCEPT ![t] = ls]
      BY <3>3, <3>4
    <3>6. CASE ls = {}
      BY <3>3, <3>5, <3>6
    <3>7. CASE ls # {}
      <4>1. ls \in (SUBSET (Slots \X {READ, WRITE})) \ {{}}
        <5>1. \A i \in DOMAIN keys[t] : keys[t][i] \in VLLKey
          BY <1>2, RequestType DEF IndInv, TypeOK
        <5> QED
          BY <3>7, <5>1, SlotType
      <4>2. \A u \in Threads \ {t} : Service!Compatible(ls, Map[u])
        <5> SUFFICES ASSUME NEW u \in Threads \ {t}, NEW l \in ls, NEW m \in LocksOf(u),
                            l[1] = m[1]
                     PROVE  l[2] = READ /\ m[2] = READ
          BY DEF Service!Compatible
        <5>1. PICK i \in DOMAIN keys[t] :
                  l = <<key_to_slot(keys[t][i]), keys[t][i].lock_type>>
          OBVIOUS
        <5>2. Granted(u)
          BY DEF LocksOf
        <5>3. PICK j \in DOMAIN keys[u] :
                  m = <<key_to_slot(keys[u][j]), keys[u][j].lock_type>>
          BY <5>2 DEF LocksOf
        <5>4. key_to_slot(keys'[t][i]) = key_to_slot(keys'[u][j]) =>
                  keys'[t][i].lock_type = READ /\ keys'[u][j].lock_type = READ
          BY <1>2, <3>1, <3>2, <5>2 DEF IndInv, MutualExclusion, key_to_slot
        <5> QED
          BY <5>1, <5>3, <5>4, <3>1
      <4>3. Service!Grant(t, ls)
        BY <3>3, <3>5, <4>2 DEF Service!Grant
      <4> QED
        BY <4>1, <4>3 DEF Service!Next
    <3> QED
      BY <3>6, <3>7
  <2>2. ASSUME NEW t \in Threads, vll_released(t)
        PROVE  [Service!Next]_Map
    <3>1. ~Granted(t)' /\ keys' = keys
      BY <2>0, <2>2 DEF vll_released, Granted
    <3>2. \A u \in Threads \ {t} : Granted(u)' <=> Granted(u)
      BY <2>0, <2>2 DEF vll_released, Granted
    <3>3. LocksOf(t)' = {}
      BY <3>1 DEF LocksOf
    <3>4. \A u \in Threads \ {t} : LocksOf(u)' = LocksOf(u)
      BY <3>1, <3>2 DEF LocksOf, key_to_slot
    <3>5. Map' = [Map EXCEPT ![t] = {}]
      BY <3>3, <3>4
    <3>6. CASE LocksOf(t) = {}
      BY <3>5, <3>6
    <3>7. CASE LocksOf(t) # {}
      <4>1. Service!Release(t)
        BY <3>5, <3>7 DEF Service!Release
      <4> QED
        BY <4>1 DEF Service!Next
    <3> QED
      BY <3>6, <3>7
  <2>3. ASSUME \A u \in Threads : Granted(u)' <=> Granted(u),
               \A u \in Threads : Granted(u) => keys'[u] = keys[u]
        PROVE  [Service!Next]_Map
    <3>1. \A u \in Threads : LocksOf(u)' = LocksOf(u)
      BY <2>3 DEF LocksOf, key_to_slot
    <3> QED
      BY <3>1
  <2>4. ASSUME NEW t \in Threads,
               \/ vll_request_create(t) \/ vll_lock_table(t) \/ vll_take_key(t)
               \/ vll_meet_conflict(t)  \/ vll_return_key(t) \/ vll_rolled_back(t)
               \/ vll_retry(t)          \/ vll_timeout(t)    \/ vll_release(t)
               \/ vll_request_destroy(t)
        PROVE  [Service!Next]_Map
    <3>1. ASSUME ~Granted(t), ~Granted(t)',
                 \A u \in Threads \ {t} : status'[u] = status[u] /\ keys'[u] = keys[u]
          PROVE  [Service!Next]_Map
      BY <2>3, <3>1 DEF Granted
    <3>2. CASE vll_request_create(t)
      <4>1. ~Granted(t) /\ ~Granted(t)'
        BY <2>0, <3>2 DEF vll_request_create, Granted
      <4> QED
        BY <2>0, <3>1, <3>2, <4>1 DEF vll_request_create
    <3>3. CASE vll_timeout(t)
      <4>1. ~Granted(t) /\ ~Granted(t)'
        BY <2>0, <3>3 DEF vll_timeout, Granted
      <4> QED
        BY <2>0, <3>1, <3>3, <4>1 DEF vll_timeout
    <3>4. CASE vll_request_destroy(t)
      <4>1. ~Granted(t) /\ ~Granted(t)'
        BY <2>0, <3>4 DEF vll_request_destroy, Granted
      <4> QED
        BY <2>0, <3>1, <3>4, <4>1 DEF vll_request_destroy
    <3>5. ASSUME UNCHANGED <<status, keys>>
          PROVE  [Service!Next]_Map
      BY <2>3, <3>5 DEF Granted
    <3>6. CASE vll_lock_table(t)
      BY <3>5, <3>6 DEF vll_lock_table
    <3>7. CASE vll_take_key(t)
      BY <3>5, <3>7 DEF vll_take_key
    <3>8. CASE vll_meet_conflict(t)
      BY <3>5, <3>8 DEF vll_meet_conflict
    <3>9. CASE vll_return_key(t) \/ vll_rolled_back(t) \/ vll_retry(t) \/ vll_release(t)
      BY <3>5, <3>9 DEF vll_return_key, vll_rolled_back, vll_retry, vll_release
    <3> QED
      BY <2>4, <3>2, <3>3, <3>4, <3>6, <3>7, <3>8, <3>9
  <2>5. CASE UNCHANGED vars
    BY <2>3, <2>5 DEF vars, Granted
  <2> QED
    BY <1>2, <2>1, <2>2, <2>4, <2>5 DEF Next, Step
<1> QED
  BY <1>1, <1>2, Invariance, PTL DEF Spec, ImplementsLockService, Service!Spec
=============================================================================
