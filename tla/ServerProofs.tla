---------------------------- MODULE ServerProofs ----------------------------
(***************************************************************************)
(* Proofs about three parts of the server that share no state.             *)
(*                                                                         *)
(* Hazard pointers (memory/hazard_ptr.c), for any number of threads,       *)
(* records and objects: an object that HP_LOAD_SAFE returned is not freed  *)
(* before hp_release.  The invariant behind it: a thread that uses an      *)
(* object has published it, and a scan that may free that object either    *)
(* has yet to read the record of the thread, or has found the object there.*)
(*                                                                         *)
(* Lookups in the keyspace (db.c and sovereign.c), for any databases, keys *)
(* and hash functions: the filter never hides a key of a database, and SET *)
(* always stores its value.                                                *)
(*                                                                         *)
(* The roles in a shard (cluster_legacy.c), for any number of members,     *)
(* failovers and messages: they never form a circle.  The invariant says   *)
(* more: the node that a replica follows is a primary as far as the        *)
(* replica knows, and no ping claims that its sender replicates itself.    *)
(***************************************************************************)
EXTENDS HazardPtr, Keyspace, ClusterConfig, TLAPS

-----------------------------------------------------------------------------
(* The hazard pointers *)

Labels == {"out", "idle", "load", "acquire", "verify", "use", "retire",
           "scan", "last_scan", "leave"}

HazardTypes ==
    /\ active \in [Records -> BOOLEAN]
    /\ hp \in [Records -> Addresses \cup {NULL}]
    /\ my_record \in [Threads -> Records \cup {NULL}]
    /\ retire_list \in [Threads -> SUBSET Addresses]
    /\ heap \in SUBSET Addresses
    /\ shared \in heap
    /\ pc \in [Threads -> Labels]
    /\ ptr \in [Threads -> Addresses \cup {NULL}]
    /\ cursor \in [Threads -> Nat]
    /\ \A t \in Threads : Scanning(t) => cursor[t] # 0
    /\ hazardous \in [Threads -> SUBSET Addresses]
    /\ leaked \in SUBSET (heap \ {shared})

\* A thread that is in has a record of its own, which is active.
Registered ==
    /\ \A t \in Threads : pc[t] # "out" <=> my_record[t] # NULL
    /\ \A t \in Threads : my_record[t] # NULL => active[my_record[t]]
    /\ \A t, u \in Threads :
        t # u /\ my_record[t] # NULL => my_record[t] # my_record[u]

\* Ownership, without the part that says nothing is lost.
Owned ==
    \A t \in Threads, o \in Addresses : Holds(t, o) =>
        /\ o \in heap /\ o # shared /\ o \notin leaked
        /\ \A u \in Threads \ {t} : ~Holds(u, o)
        /\ ~(o \in retire_list[t] /\ pc[t] = "retire" /\ ptr[t] = o)

NoneLost == \A o \in heap : o = shared \/ o \in leaked \/ \E t \in Threads : Holds(t, o)

Published ==
    \A t \in Threads :
        /\ pc[t] \in {"acquire", "verify", "use", "retire"} => ptr[t] \in Addresses
        /\ pc[t] \in {"verify", "use"} => hp[my_record[t]] = ptr[t]

Protected ==
    \A t \in Threads : pc[t] = "use" =>
        /\ ptr[t] \in heap
        /\ \A u \in Threads :
            /\ Scanning(u)
            /\ ptr[t] \in retire_list[u]
            /\ cursor[u] > my_record[t]
            => ptr[t] \in hazardous[u]

HazardInv == HazardTypes /\ Registered /\ Owned /\ NoneLost /\ Published /\ Protected

-----------------------------------------------------------------------------

\* The invariant holds after hp_init, before any thread has registered.
LEMMA HazardInitInv == ASSUME ConstantsOK, HazardInit PROVE HazardInv
<1> USE DEF HazardInit, ConstantsOK
<1>1. HazardTypes BY DEF HazardTypes, Labels, Scanning
<1>2. Registered BY DEF Registered
<1>3. Owned /\ NoneLost BY DEF Owned, NoneLost, Holds
<1>4. Published /\ Protected BY SMTT(30) DEF Published, Protected
<1> QED BY <1>1, <1>2, <1>3, <1>4 DEF HazardInv

\* Every step of a thread keeps the types; in particular what an exiting
\* thread leaves behind (hp_thread_exit) is allocated and not shared.
LEMMA StepTypes ==
    ASSUME ConstantsOK, HazardInv, NEW t \in Threads, Step(t) PROVE HazardTypes'
<1> USE DEF HazardInv, HazardTypes, Labels, Goto, ConstantsOK, Scanning
<1>1. CASE hp_thread_init(t) BY <1>1 DEF hp_thread_init
<1>2. CASE hp_thread_exit(t)
  <2>1. hp' \in [Records -> Addresses \cup {NULL}] BY <1>2, Zenon DEF hp_thread_exit
  <2>2. pc' \in [Threads -> Labels] BY <1>2 DEF hp_thread_exit
  <2>3. cursor' \in [Threads -> Nat] /\ cursor'[t] = 1 BY <1>2 DEF hp_thread_exit
  <2>4. \A u \in Threads : Scanning(u)' => cursor'[u] # 0
    BY <1>2, <2>3 DEF hp_thread_exit
  <2>5. hazardous' \in [Threads -> SUBSET Addresses] BY <1>2 DEF hp_thread_exit
  <2> QED BY <1>2, <2>1, <2>2, <2>3, <2>4, <2>5 DEF hp_thread_exit
<1>3. CASE Leave(t)
  <2>1. retire_list[t] \subseteq heap \ {shared} BY DEF Owned, Holds
  <2> QED BY <1>3, <2>1, Zenon DEF Leave
<1>4. CASE LoadShared(t) BY <1>4 DEF LoadShared
<1>5. CASE hp_acquire(t) BY <1>5, Zenon DEF hp_acquire
<1>6. CASE Verify(t) BY <1>6 DEF Verify
<1>7. CASE hp_release(t) BY <1>7, Zenon DEF hp_release
<1>8. CASE Replace(t) BY <1>8 DEF Replace
<1>9. CASE hp_retire(t)
  <2>1. ptr[t] \in Addresses BY <1>9 DEF hp_retire, Published
  <2> QED BY <1>9, <2>1 DEF hp_retire
<1>10. CASE collect_hazardous(t)
  <2>1. cursor[t] \in Records BY <1>10 DEF collect_hazardous, Records
  <2>2. {hp[cursor[t]]} \ {NULL} \subseteq Addresses BY <2>1
  <2> QED BY <1>10, <2>1, <2>2 DEF collect_hazardous
<1>11. CASE FreeRetired(t)
  <2>1. shared \notin retire_list[t] /\ leaked \cap retire_list[t] = {} BY DEF Owned, Holds
  <2> QED BY <1>11, <2>1 DEF FreeRetired
<1>12. CASE hp_scan(t)
  <2>1. pc' \in [Threads -> Labels] BY <1>12 DEF hp_scan
  <2>2. cursor' \in [Threads -> Nat] /\ cursor'[t] = 1 BY <1>12 DEF hp_scan
  <2>3. \A u \in Threads : Scanning(u)' => cursor'[u] # 0 BY <1>12, <2>2 DEF hp_scan
  <2>4. hazardous' \in [Threads -> SUBSET Addresses] BY <1>12, SMTT(30) DEF hp_scan
  <2> QED BY <1>12, <2>1, <2>2, <2>3, <2>4 DEF hp_scan
<1> QED BY <1>1, <1>2, <1>3, <1>4, <1>5, <1>6, <1>7, <1>8, <1>9, <1>10, <1>11, <1>12 DEF Step

\* Every step keeps the records apart: hp_thread_init takes an inactive one,
\* hp_thread_exit gives its own back.
LEMMA StepRegistered ==
    ASSUME ConstantsOK, HazardInv, NEW t \in Threads, Step(t) PROVE Registered'
<1> USE DEF HazardInv, HazardTypes, Registered, Labels, Goto, ConstantsOK, Scanning
<1>1. CASE hp_thread_init(t) BY <1>1 DEF hp_thread_init
<1>2. CASE hp_thread_exit(t) BY <1>2 DEF hp_thread_exit
<1>3. CASE Leave(t) BY <1>3 DEF Leave
<1>4. CASE LoadShared(t) BY <1>4 DEF LoadShared
<1>5. CASE hp_acquire(t) BY <1>5 DEF hp_acquire
<1>6. CASE Verify(t) BY <1>6 DEF Verify
<1>7. CASE hp_release(t) BY <1>7 DEF hp_release
<1>8. CASE Replace(t) BY <1>8 DEF Replace
<1>9. CASE hp_retire(t) BY <1>9 DEF hp_retire
<1>10. CASE collect_hazardous(t) BY <1>10 DEF collect_hazardous
<1>11. CASE FreeRetired(t) BY <1>11 DEF FreeRetired
<1>12. CASE hp_scan(t) BY <1>12, SMTT(30) DEF hp_scan
<1> QED BY <1>1, <1>2, <1>3, <1>4, <1>5, <1>6, <1>7, <1>8, <1>9, <1>10, <1>11, <1>12, Zenon DEF Step

\* Every step keeps the owners of retired objects apart and loses none:
\* hp_retire adds an object no other list has, hp_scan takes out what it frees.
LEMMA StepOwned ==
    ASSUME ConstantsOK, HazardInv, NEW t \in Threads, Step(t) PROVE Owned' /\ NoneLost'
<1> USE DEF HazardInv, HazardTypes, Owned, NoneLost, Holds, Labels, Goto, ConstantsOK, Scanning
<1>1. CASE hp_thread_init(t) BY <1>1 DEF hp_thread_init
<1>2. CASE hp_thread_exit(t) BY <1>2 DEF hp_thread_exit
<1>3. CASE Leave(t) BY <1>3 DEF Leave
<1>4. CASE LoadShared(t) BY <1>4 DEF LoadShared
<1>5. CASE hp_acquire(t) BY <1>5 DEF hp_acquire
<1>6. CASE Verify(t) BY <1>6 DEF Verify
<1>7. CASE hp_release(t) BY <1>7 DEF hp_release
<1>8. CASE Replace(t)
  <2>1. PICK o \in Addresses \ heap :
            /\ heap' = heap \cup {o} /\ shared' = o
            /\ ptr' = [ptr EXCEPT ![t] = shared] /\ pc' = [pc EXCEPT ![t] = "retire"]
            /\ pc[t] = "idle" /\ retire_list' = retire_list /\ leaked' = leaked
    BY <1>8 DEF Replace
  <2>2. \A u \in Threads, x \in Addresses :
            Holds(u, x)' <=> Holds(u, x) \/ (u = t /\ x = shared)
    BY <2>1
  <2>3. \A u \in Threads : ~Holds(u, shared) /\ ~Holds(u, o) OBVIOUS
  <2>4. Owned' BY <2>1, <2>2, <2>3
  <2>5. NoneLost' BY <2>1, <2>2
  <2> QED BY <2>4, <2>5
<1>9. CASE hp_retire(t) BY <1>9 DEF hp_retire
<1>10. CASE collect_hazardous(t) BY <1>10 DEF collect_hazardous
<1>11. CASE FreeRetired(t) BY <1>11 DEF FreeRetired
<1>12. CASE hp_scan(t) BY <1>12, SMTT(30) DEF hp_scan
<1> QED BY <1>1, <1>2, <1>3, <1>4, <1>5, <1>6, <1>7, <1>8, <1>9, <1>10, <1>11, <1>12, Zenon DEF Step

\* Every step keeps published what HP_LOAD_SAFE has stored and verified.
LEMMA StepPublished ==
    ASSUME ConstantsOK, HazardInv, NEW t \in Threads, Step(t) PROVE Published'
<1> USE DEF HazardInv, HazardTypes, Published, Registered, Labels, Goto, ConstantsOK, Scanning
<1>1. CASE hp_thread_init(t) BY <1>1 DEF hp_thread_init
<1>2. CASE hp_thread_exit(t) BY <1>2 DEF hp_thread_exit
<1>3. CASE Leave(t) BY <1>3 DEF Leave
<1>4. CASE LoadShared(t) BY <1>4 DEF LoadShared
<1>5. CASE hp_acquire(t) BY <1>5 DEF hp_acquire
<1>6. CASE Verify(t) BY <1>6 DEF Verify
<1>7. CASE hp_release(t) BY <1>7 DEF hp_release
<1>8. CASE Replace(t) BY <1>8 DEF Replace
<1>9. CASE hp_retire(t) BY <1>9 DEF hp_retire
<1>10. CASE collect_hazardous(t) BY <1>10 DEF collect_hazardous
<1>11. CASE FreeRetired(t) BY <1>11 DEF FreeRetired
<1>12. CASE hp_scan(t) BY <1>12, SMTT(30) DEF hp_scan
<1> QED BY <1>1, <1>2, <1>3, <1>4, <1>5, <1>6, <1>7, <1>8, <1>9, <1>10, <1>11, <1>12, Zenon DEF Step

\* Every step keeps the objects in use from being freed: hp_scan has read
\* the record of their user after the object was published there.
LEMMA StepProtected ==
    ASSUME ConstantsOK, HazardInv, NEW t \in Threads, Step(t) PROVE Protected'
<1> USE DEF HazardInv, HazardTypes, Protected, Labels, Goto, ConstantsOK, Scanning
<1>0. \A u \in Threads : pc[u] = "use" => my_record[u] \in 1 .. MaxThreads
  BY DEF Registered, Records
<1>1. CASE hp_thread_init(t) BY <1>1, SMTT(30) DEF hp_thread_init, Registered
<1>2. CASE hp_thread_exit(t) BY <1>0, <1>2, SMTT(30) DEF hp_thread_exit
<1>3. CASE Leave(t) BY <1>3 DEF Leave, Registered
<1>4. CASE LoadShared(t) BY <1>4 DEF LoadShared
<1>5. CASE hp_acquire(t) BY <1>5 DEF hp_acquire
<1>6. CASE Verify(t)
  \* An object that is still shared is in no retire list.
  <2>1. \A u \in Threads : shared \notin retire_list[u] BY DEF Owned, Holds
  <2> QED BY <1>6, <2>1 DEF Verify
<1>7. CASE hp_release(t) BY <1>7 DEF hp_release
<1>8. CASE Replace(t) BY <1>8 DEF Replace
<1>9. CASE hp_retire(t) BY <1>0, <1>9, SMTT(30) DEF hp_retire
<1>10. CASE collect_hazardous(t)
  \* The scan reads the record of a thread that uses an object it may free.
  <2>1. cursor[t] \in Records BY <1>10 DEF collect_hazardous, Records
  <2>2. ASSUME NEW u \in Threads, pc[u] = "use", cursor[t] = my_record[u]
        PROVE  ptr[u] \in hazardous'[t]
    BY <1>10, <2>1, <2>2, SMTT(30) DEF collect_hazardous, Registered, Published
  <2> QED BY <1>0, <1>10, <2>1, <2>2 DEF collect_hazardous
<1>11. CASE FreeRetired(t)
  \* A finished scan has read every record.
  <2>1. ASSUME NEW u \in Threads, pc[u] = "use", ptr[u] \in retire_list[t]
        PROVE  ptr[u] \in hazardous[t]
    BY <1>0, <1>11, <2>1 DEF FreeRetired
  <2> QED BY <1>11, <2>1 DEF FreeRetired
<1>12. CASE hp_scan(t) BY <1>0, <1>12, SMTT(30) DEF hp_scan
<1> QED BY <1>1, <1>2, <1>3, <1>4, <1>5, <1>6, <1>7, <1>8, <1>9, <1>10, <1>11, <1>12, Zenon DEF Step

\* The invariant implies the three properties of HazardPtr.
LEMMA HazardInvImplies ==
    ASSUME ConstantsOK, HazardInv PROVE HazardTypeOK /\ UsedIsAllocated /\ OneOwner
BY SMTT(30) DEF ConstantsOK, HazardInv, HazardTypes, Registered, Protected, Owned, NoneLost,
       HazardTypeOK, UsedIsAllocated, OneOwner

\* A step of nobody keeps the invariant.
LEMMA HazardStutter == ASSUME HazardInv, UNCHANGED hazardVars PROVE HazardInv'
BY DEF HazardInv, HazardTypes, Registered, Owned, NoneLost, Holds, Published, Protected,
       Scanning, hazardVars

\* Every step of every thread keeps the inductive invariant.
LEMMA HazardStep == ASSUME HazardInv, [HazardNext]_hazardVars PROVE HazardInv'
<1>1. ASSUME NEW t \in Threads, Step(t) PROVE HazardInv'
  BY <1>1, HazardAssumption, StepTypes, StepRegistered, StepOwned, StepPublished,
     StepProtected DEF HazardInv
<1> QED BY <1>1, HazardStutter DEF HazardNext

\* For any threads, objects and threshold: what HP_LOAD_SAFE returned stays
\* allocated until hp_release (hp_acquire, hp_retire and hp_scan of
\* memory/hazard_ptr.c).
THEOREM UseIsSafe == HazardSpec => []UsedIsAllocated
<1>1. HazardInit => HazardInv BY HazardInitInv, HazardAssumption
<1>2. HazardInv => UsedIsAllocated BY HazardInvImplies, HazardAssumption
<1> QED BY <1>1, HazardStep, <1>2, PTL DEF HazardSpec

\* Every retired object has one owner until hp_scan frees it, and none is lost
\* but by hp_thread_exit, for any threads, objects and threshold.
THEOREM RetiredOnce == HazardSpec => []OneOwner
<1>1. HazardInit => HazardInv BY HazardInitInv, HazardAssumption
<1>2. HazardInv => OneOwner BY HazardInvImplies, HazardAssumption
<1> QED BY <1>1, HazardStep, <1>2, PTL DEF HazardSpec

\* A record of g_records belongs to at most one thread, which it is active
\* for (hp_thread_init, hp_thread_exit).
THEOREM RecordsArePrivate == HazardSpec => []HazardTypeOK
<1>1. HazardInit => HazardInv BY HazardInitInv, HazardAssumption
<1>2. HazardInv => HazardTypeOK BY HazardInvImplies, HazardAssumption
<1> QED BY <1>1, HazardStep, <1>2, PTL DEF HazardSpec

-----------------------------------------------------------------------------
(* The keyspace *)

\* What a command works on: the databases, the object store and the filter.
States ==
    [keys : [Dbs -> [Keys -> Objects]],
     object : [Keys -> 1 .. MaxCount \cup {None}],
     filter : SUBSET {hash[k] : k \in Keys}]

\* A state in which the filter shows every key.
Good(s) ==
    /\ s \in States
    /\ \A d \in Dbs, k \in Keys : s.keys[d][k] # None => hash[k] \in s.filter

\* Adding a key enters it in the filter (dbAdd of db.c).
LEMMA AddIsGood ==
    ASSUME NEW s, Good(s), NEW d \in Dbs, NEW k \in Keys, NEW o \in Objects
    PROVE  /\ Good(dbAdd(s, d, k, o))
           /\ s.keys[d][k] = None => dbAdd(s, d, k, o).keys[d][k] = o
           /\ s.filter \subseteq dbAdd(s, d, k, o).filter
<1> DEFINE t == kvstoreHashtableAdd(s, d, k, o)
           u == dbAdd(s, d, k, o)
<1>1. t \in States
  BY Zenon DEF Good, States, kvstoreHashtableAdd
<1>2. t.filter = s.filter
  BY DEF Good, States, kvstoreHashtableAdd
<1>3. \A e \in Dbs, j \in Keys : e # d \/ j # k => t.keys[e][j] = s.keys[e][j]
  BY DEF Good, States, kvstoreHashtableAdd
<1>4. s.keys[d][k] = None => t.keys[d][k] = o
  BY DEF Good, States, kvstoreHashtableAdd
<1>5. u = [t EXCEPT !.filter = @ \cup {hash[k]}]
  BY DEF dbAdd, Sovereign_UpdateFilter
<1> HIDE DEF t, u
<1>6. u \in States /\ u.keys = t.keys /\ u.filter = t.filter \cup {hash[k]}
  BY <1>1, <1>5 DEF States
<1>7. \A e \in Dbs, j \in Keys : u.keys[e][j] # None => hash[j] \in u.filter
  <2> SUFFICES ASSUME NEW e \in Dbs, NEW j \in Keys, u.keys[e][j] # None
               PROVE  hash[j] \in u.filter
    OBVIOUS
  <2>1. CASE j = k
    BY <1>6, <2>1
  <2>2. CASE j # k
    BY <1>2, <1>3, <1>6, <2>2 DEF Good
  <2> QED
    BY <2>1, <2>2
<1>8. Good(u)
  BY <1>6, <1>7 DEF Good
<1> QED
  BY <1>2, <1>4, <1>6, <1>8 DEF u

\* Deleting a key keeps its bit.
LEMMA DeleteIsGood ==
    ASSUME NEW s, Good(s), NEW d \in Dbs, NEW k \in Keys
    PROVE  /\ Good(dbGenericDelete(s, d, k))
           /\ dbGenericDelete(s, d, k).keys[d][k] = None
           /\ dbGenericDelete(s, d, k).filter = s.filter
  BY Zenon DEF Good, States, dbGenericDelete, Objects

(***************************************************************************)
(* A lookup leaves the state good; when it finds nothing and no pause      *)
(* keeps an expired key, the key is not in the database.                   *)
(***************************************************************************)
LEMMA LookupIsGood ==
    ASSUME NEW s, Good(s), NEW d \in Dbs, NEW k \in Keys
    PROVE  /\ Good(lookupKey(s, d, k).state)
           /\ ~paused /\ lookupKey(s, d, k).val = None
                 => lookupKey(s, d, k).state.keys[d][k] = None
           /\ s.filter \subseteq lookupKey(s, d, k).state.filter
<1> DEFINE found == s.keys[d][k]
           live  == found # None /\ ~Expired(found)
           t     == IF found # None /\ ~live /\ ~paused THEN dbGenericDelete(s, d, k) ELSE s
           u     == lookupKey(s, d, k)
<1>1. Good(t) /\ (~paused /\ ~live => t.keys[d][k] = None) /\ t.filter = s.filter
  BY DeleteIsGood, SMTT(30)
<1>2. found \in Objects /\ t.object[k] \in 1 .. MaxCount \cup {None}
  BY <1>1 DEF Good, States
<1>3. CASE Sovereign_SpeculativeMiss(s, k)
  <2>1. u = [state |-> s, val |-> None]
    BY <1>3 DEF lookupKey
  <2>2. found = None
    BY <1>3 DEF Good, Sovereign_SpeculativeMiss
  <2> QED
    BY <2>1, <2>2, SMTT(30)
<1>4. CASE ~Sovereign_SpeculativeMiss(s, k) /\ live
  <2>1. u = [state |-> s, val |-> found.value]
    BY <1>4 DEF lookupKey
  <2>2. found.value # None
    BY <1>2, <1>4, ConstantsAssumption, SMTT(30) DEF Objects
  <2> QED
    BY <2>1, <2>2, SMTT(30)
<1>5. CASE ~Sovereign_SpeculativeMiss(s, k) /\ ~live /\ t.object[k] # None
  <2> DEFINE o == [value |-> t.object[k], expire |-> 0]
  <2>1. u = [state |-> dbAdd(t, d, k, o), val |-> t.object[k]]
    BY <1>5, Zenon DEF lookupKey, promote
  <2>2. o \in Objects
    BY <1>2, <1>5, SMTT(30) DEF Objects
  <2> HIDE DEF o, t
  <2>3. Good(dbAdd(t, d, k, o)) /\ t.filter \subseteq dbAdd(t, d, k, o).filter
    BY <1>1, <2>2, AddIsGood, SMTT(30)
  <2> QED
    BY <1>1, <1>5, <2>1, <2>3, SMTT(30)
<1>6. CASE ~Sovereign_SpeculativeMiss(s, k) /\ ~live /\ t.object[k] = None
  <2>1. u = [state |-> t, val |-> None]
    BY <1>6, Zenon DEF lookupKey
  <2> HIDE DEF t
  <2> QED
    BY <1>1, <1>6, <2>1, SMTT(30)
<1> QED
  BY <1>3, <1>4, <1>5, <1>6, Zenon
-----------------------------------------------------------------------------

\* The inductive invariant: the filter is about this run's hash function.
IInv == TypeOK /\ DefiniteMiss

\* The invariant makes the state that commands work on a good one.
LEMMA InvariantIsGood == IInv => Good(State)
  BY DEF IInv, TypeOK, DefiniteMiss, Sovereign_SpeculativeMiss, State, Good, States

\* A command that leaves a good state keeps the invariant.
LEMMA BecomeKeeps ==
    ASSUME IInv, NEW s, Good(s), Become(s), flushed' \subseteq Keys,
           UNCHANGED <<hash, paused, now>>
    PROVE  IInv'
  BY DEF IInv, TypeOK, DefiniteMiss, Sovereign_SpeculativeMiss, State, Good, States, Become

\* SET leaves a good state that holds the value.
LEMMA SetIsGood ==
    ASSUME IInv, NEW d \in Dbs, NEW k \in Keys, NEW v \in Values, NEW ttl \in TTLs,
           setGenericCommand(d, k, v, ttl)
    PROVE  /\ IInv'
           /\ keys'[d][k].value = v
<1> DEFINE found == lookupKey(State, d, k)
           t == found.state
           o == [value |-> v, expire |-> IF ttl = 0 THEN 0 ELSE now + ttl]
           s == IF found.val # None THEN [t EXCEPT !.keys[d][k] = o] ELSE dbAdd(t, d, k, o)
<1> HIDE DEF found
<1>1. o \in Objects
  <2>1. now \in Nat
    BY ConstantsAssumption DEF IInv, TypeOK
  <2>2. o.expire \in Nat
    BY ConstantsAssumption, <2>1, SMTT(30)
  <2> QED
    BY <2>2 DEF Objects
<1>2. Good(t) /\ (found.val = None => t.keys[d][k] = None)
  <2>1. ~paused
    BY DEF setGenericCommand
  <2>2. Good(State)
    BY InvariantIsGood
  <2> QED
    BY <2>1, <2>2, LookupIsGood DEF found
<1>3. Become(s) /\ flushed' = flushed \ {k} /\ UNCHANGED <<hash, paused, now>>
  BY SMTT(30) DEF setGenericCommand, found
<1> HIDE DEF o
<1>4. found.val # None => ~Sovereign_SpeculativeMiss(State, k)
  <2>1. Sovereign_SpeculativeMiss(State, k) => found = [state |-> State, val |-> None]
    BY Zenon DEF lookupKey, found
  <2> QED
    BY <2>1
<1>5. found.val # None => hash[k] \in t.filter
  <2>1. State.filter \subseteq t.filter
    BY InvariantIsGood, LookupIsGood DEF found
  <2> QED
    BY <1>4, <2>1 DEF Sovereign_SpeculativeMiss
<1>6. Good(s) /\ s.keys[d][k] = o
  <2>1. CASE found.val # None
    BY <1>1, <1>2, <1>5, <2>1, Zenon DEF Good, States
  <2>2. CASE found.val = None
    BY <1>1, <1>2, <2>2, AddIsGood
  <2> QED
    BY <2>1, <2>2
<1>7. IInv'
  <2> HIDE DEF s
  <2>1. flushed' \subseteq Keys
    BY <1>3 DEF IInv, TypeOK
  <2> QED
    BY <1>3, <1>6, <2>1, BecomeKeeps, SMTT(30)
<1>8. keys'[d][k].value = v
  BY <1>3, <1>6 DEF Become, o
<1> QED
  BY <1>7, <1>8

\* Every step keeps the filter ahead of the databases.
LEMMA StepKeeps ==
    ASSUME IInv, [Next]_vars
    PROVE  IInv'
<1>1. ASSUME NEW d \in Dbs, NEW k \in Keys, lookupKeyRead(d, k)
      PROVE  IInv'
  <2>1. Good(lookupKey(State, d, k).state)
    BY InvariantIsGood, LookupIsGood
  <2>2. flushed' \subseteq Keys
    BY <1>1 DEF lookupKeyRead, IInv, TypeOK
  <2> QED
    BY <1>1, <2>1, <2>2, BecomeKeeps DEF lookupKeyRead
<1>2. ASSUME NEW d \in Dbs, NEW k \in Keys, delGenericCommand(d, k)
      PROVE  IInv'
  <2>1. Good(dbGenericDelete(State, d, k))
    BY InvariantIsGood, DeleteIsGood
  <2>2. flushed' \subseteq Keys
    BY <1>2 DEF delGenericCommand, IInv, TypeOK
  <2> QED
    BY <1>2, <2>1, <2>2, BecomeKeeps DEF delGenericCommand
<1>3. ASSUME NEW d \in Dbs, NEW k \in Keys, NEW v \in Values, NEW ttl \in TTLs,
             setGenericCommand(d, k, v, ttl)
      PROVE  IInv'
  BY <1>3, SetIsGood, SMTT(30)
<1>4. ASSUME NEW k \in Keys, gincrCommand(k)
      PROVE  IInv'
  <2>1. object' \in [Keys -> 1 .. MaxCount \cup {None}]
    BY <1>4, ConstantsAssumption, SMTT(30) DEF gincrCommand, IInv, TypeOK
  <2> QED
    BY <1>4, <2>1, SMTT(30)
    DEF gincrCommand, IInv, TypeOK, DefiniteMiss, Sovereign_SpeculativeMiss, State
<1>5. CASE flushallCommand
  BY <1>5, SMTT(30) DEF flushallCommand, Empty, Objects,
              IInv, TypeOK, DefiniteMiss, Sovereign_SpeculativeMiss, State
<1>6. CASE client_pause
  BY <1>6, SMTT(30) DEF client_pause, IInv, TypeOK, DefiniteMiss, Sovereign_SpeculativeMiss, State
<1>7. CASE tick
  BY <1>7, ConstantsAssumption
  DEF tick, IInv, TypeOK, DefiniteMiss, Sovereign_SpeculativeMiss, State
<1>8. ASSUME NEW h \in Hashes, restart(h)
      PROVE  IInv'
  BY <1>8, Zenon DEF restart, dbAddRDBLoad, Loaded, Objects,
              IInv, TypeOK, DefiniteMiss, Sovereign_SpeculativeMiss, State
<1>9. CASE UNCHANGED vars
  BY <1>9 DEF vars, IInv, TypeOK, DefiniteMiss, Sovereign_SpeculativeMiss, State
<1> QED
  BY <1>1, <1>2, <1>3, <1>4, <1>5, <1>6, <1>7, <1>8, <1>9 DEF Next

\* The invariant holds in the empty server.
LEMMA InitKeeps == Init => IInv
<1> SUFFICES ASSUME Init PROVE IInv
  OBVIOUS
<1>1. keys \in [Dbs -> [Keys -> Objects]] /\ DefiniteMiss
  BY DEF Init, Empty, Objects, DefiniteMiss
<1>2. object \in [Keys -> 1 .. MaxCount \cup {None}] /\ now \in 0 .. MaxTime
  BY ConstantsAssumption DEF Init
<1> QED
  BY <1>1, <1>2, Zenon DEF Init, IInv, TypeOK

\* The invariant holds always.
LEMMA Invariance == Spec => []IInv
  BY InitKeeps, StepKeeps, PTL DEF Spec

(***************************************************************************)
(* The filter of sovereign.c never answers a miss for a key of a database, *)
(* for any number of databases and keys, any hash functions and restarts.  *)
(***************************************************************************)
THEOREM FilterSound == Spec => []DefiniteMiss
  BY Invariance, PTL DEF IInv

(***************************************************************************)
(* The databases, NexStorage's counters and the filter keep their shape.   *)
(***************************************************************************)
THEOREM TypeCorrect == Spec => []TypeOK
  BY Invariance, PTL DEF IInv

(***************************************************************************)
(* SET always stores its value: the addition after a lookup that reports a *)
(* miss never meets a key that exists.                                     *)
(***************************************************************************)
THEOREM SetAlwaysStores == Spec => SetStores
<1>1. ASSUME IInv, [Next]_vars
      PROVE  [\A d \in Dbs, k \in Keys, v \in Values, ttl \in TTLs :
                  setGenericCommand(d, k, v, ttl) => keys'[d][k].value = v]_vars
  BY <1>1, SetIsGood
<1> QED
  BY <1>1, Invariance, PTL DEF Spec, SetStores

(***************************************************************************)
(* A lookup never gives an expired key a new value: the deletion also      *)
(* empties NexStorage, and a paused deletion leaves the addition of the    *)
(* promoted value without effect.                                          *)
(***************************************************************************)
THEOREM ExpiredStaysExpired == Spec => NoRevival
<1>1. ASSUME IInv, NEW d \in Dbs, NEW k \in Keys,
             lookupKeyRead(d, k), keys[d][k] # None, Expired(keys[d][k])
      PROVE  keys'[d][k] \in {keys[d][k], None}
  <2> DEFINE t == IF paused THEN State ELSE dbGenericDelete(State, d, k)
             u == lookupKey(State, d, k)
  <2>1. Good(State) /\ State.keys = keys
    BY <1>1, InvariantIsGood, SMTT(30) DEF State
  <2>2. \/ u.state = State
        \/ u.state = t
        \/ t.object[k] # None /\ u.state = promote(t, d, k)
    BY <1>1, <2>1, Zenon DEF lookupKey
  <2>3. CASE paused
    <3>1. kvstoreHashtableAdd(State, d, k, [value |-> State.object[k], expire |-> 0]) = State
      BY <1>1, <2>1 DEF kvstoreHashtableAdd
    <3>2. promote(State, d, k).keys = keys
      BY <2>1, <3>1 DEF promote, dbAdd, Sovereign_UpdateFilter, Good, States
    <3>3. u.state.keys = keys
      BY <2>1, <2>2, <2>3, <3>2
    <3> QED
      BY <1>1, <3>3 DEF lookupKeyRead, Become
  <2>4. CASE ~paused
    <3>1. t.object[k] = None /\ t.keys[d][k] = None
      BY <2>1, <2>4, SMTT(30) DEF dbGenericDelete, Good, States
    <3>2. u.state.keys[d][k] \in {keys[d][k], None}
      BY <2>1, <2>2, <3>1, SMTT(30)
    <3> QED
      BY <1>1, <3>2, Zenon DEF lookupKeyRead, Become
  <2> QED
    BY <2>3, <2>4
<1>2. ASSUME IInv, [Next]_vars
      PROVE  [\A d \in Dbs, k \in Keys :
                  lookupKeyRead(d, k) /\ keys[d][k] # None /\ Expired(keys[d][k])
                      => keys'[d][k] \in {keys[d][k], None}]_vars
  BY <1>1, <1>2
<1> QED
  BY <1>2, Invariance, PTL DEF Spec, NoRevival

-----------------------------------------------------------------------------
(* The roles in a shard *)

\* What a node knows of the shard.
Views ==
    [currentEpoch : Nat, configEpoch : [Shard -> Nat],
     replicaof : [Shard -> Shard \cup {NoNode}], owner : Shard, claimed : BOOLEAN]

Pings ==
    [type : {"PING"}, from : Shard, to : Members, currentEpoch : Nat,
     replicaof : Shard \cup {NoNode}, configEpoch : Nat, slots : BOOLEAN]

UpdateMessages ==
    [type : {"UPDATE"}, from : Members, to : Shard, currentEpoch : Nat,
     about : Shard, configEpoch : Nat, slots : BOOLEAN]

\* The primary that node n replicates is a primary, as far as n knows.
Rooted(n, s) ==
    n \in Shard /\ s.replicaof[n] # NoNode => s.replicaof[s.replicaof[n]] = NoNode

\* Nobody says to be a replica of itself, or says anything to itself.
GoodNews(m) ==
    \/ m \in Pings /\ m.from # m.to /\ m.replicaof # m.from
    \/ m \in UpdateMessages

\* Every node of the shard is a primary or follows one, as far as it knows.
ConfigInv ==
    /\ view \in [Members -> Views]
    /\ \A n \in Members : Rooted(n, view[n])
    /\ \A m \in bus : GoodNews(m)

-----------------------------------------------------------------------------

\* Max of two epochs.
LEMMA MaxOfTwo ==
    ASSUME NEW a \in Nat, NEW b \in Nat
    PROVE  Max({a, b}) \in Nat /\ a <= Max({a, b}) /\ b <= Max({a, b}) /\ Max({a, b}) \in {a, b}
<1>1. \E x \in {a, b} : \A y \in {a, b} : x >= y
  <2>1. CASE a >= b BY <2>1
  <2>2. CASE b >= a BY <2>2
  <2> QED BY <2>1, <2>2
<1> QED BY <1>1 DEF Max

\* A change of the epochs, of the owner or of its claim leaves the roles alone.
LEMMA SameRoles ==
    ASSUME NEW n, NEW s, NEW t, Rooted(n, s), t.replicaof = s.replicaof
    PROVE  Rooted(n, t)
BY DEF Rooted

\* clusterSetPrimary of a node to a primary other than itself.
LEMMA SetPrimaryRooted ==
    ASSUME NEW n \in Shard, NEW s \in Views, NEW m \in Shard, m # n, s.replicaof[m] = NoNode
    PROVE  clusterSetPrimary(n, s, m) \in Views /\ Rooted(n, clusterSetPrimary(n, s, m))
<1> DEFINE t == clusterSetPrimary(n, s, m)
<1>1. t = [s EXCEPT !.replicaof = [s.replicaof EXCEPT ![n] = m]] BY DEF clusterSetPrimary
<1>2. s.replicaof \in [Shard -> Shard \cup {NoNode}] BY DEF Views
<1>3. [s.replicaof EXCEPT ![n] = m] \in [Shard -> Shard \cup {NoNode}] BY <1>2
<1>4. t \in Views BY <1>1, <1>3 DEF Views
<1>5. t.replicaof = [s.replicaof EXCEPT ![n] = m] BY <1>1 DEF Views
<1> HIDE DEF t
<1>6. t.replicaof[n] = m /\ t.replicaof[m] = NoNode BY <1>2, <1>5
<1> QED BY <1>4, <1>6 DEF Rooted, t

\* A claim of a primary m to the slots: the node may become its replica.
LEMMA ClaimRooted ==
    ASSUME NEW n \in Members, NEW s \in Views, Rooted(n, s), NEW m \in Shard,
           s.replicaof[m] = NoNode, NEW e \in Nat, NEW slots \in BOOLEAN
    PROVE  LET t == clusterUpdateSlotsConfigWith(n, s, m, e, slots)
           IN  t \in Views /\ Rooted(n, t)
<1> DEFINE rebind == Rebind(s, m, e, slots)
           s1 == [s EXCEPT !.owner = IF rebind THEN m ELSE @,
                           !.claimed = IF rebind \/ s.owner = m THEN slots ELSE @]
           t == clusterUpdateSlotsConfigWith(n, s, m, e, slots)
<1>1. s1 \in Views /\ s1.replicaof = s.replicaof BY Zenon DEF Views
<1>2. Rooted(n, s1) BY <1>1, SameRoles, Zenon
<1>3. t = s \/ t = s1 \/ (n \in Shard /\ m # n /\ t = clusterSetPrimary(n, s1, m))
  BY DEF clusterUpdateSlotsConfigWith
<1> HIDE DEF t, s1
<1>4. CASE n \in Shard /\ m # n /\ t = clusterSetPrimary(n, s1, m)
  BY <1>1, <1>4, SetPrimaryRooted DEF t
<1> QED BY <1>1, <1>2, <1>3, <1>4 DEF t

\* The epochs of a header.
LEMMA EpochsRooted ==
    ASSUME NEW n \in Members, NEW s \in Views, Rooted(n, s), NEW m \in Pings
    PROVE  LET t == TakeEpochs(s, m)
           IN  t \in Views /\ Rooted(n, t) /\ t.replicaof = s.replicaof
<1> DEFINE c == Max({s.currentEpoch, m.currentEpoch})
           f == Max({s.configEpoch[m.from], m.configEpoch})
           t == TakeEpochs(s, m)
<1>1. c \in Nat /\ f \in Nat BY MaxOfTwo DEF Views, Pings
<1>2. t = [s EXCEPT !.currentEpoch = c,
                    !.configEpoch = [s.configEpoch EXCEPT
                        ![m.from] = IF m.replicaof = NoNode THEN f ELSE @]]
  BY DEF TakeEpochs, Views
<1> HIDE DEF c, f, t
<1>3. t \in Views /\ t.replicaof = s.replicaof BY <1>1, <1>2, Zenon DEF Views, Pings
<1> QED BY <1>3, SameRoles DEF t

\* A message about the roles of its sender and of the node that it replicates.
LEMMA RolesRooted ==
    ASSUME NEW n \in Members, NEW s \in Views, Rooted(n, s), NEW m \in Pings,
           m.from # n, m.replicaof # m.from
    PROVE  LET t == SwitchRole(n, s, m)
           IN  /\ t \in Views /\ Rooted(n, t)
               /\ m.replicaof = NoNode => t.replicaof[m.from] = NoNode
<1> DEFINE p == m.replicaof
           t == SwitchRole(n, s, m)
<1>0. /\ m.from \in Shard /\ p \in Shard \cup {NoNode} /\ m.configEpoch \in Nat
      /\ NoNode \notin Shard /\ Shard \subseteq Members
      /\ s.replicaof \in [Shard -> Shard \cup {NoNode}] /\ s.configEpoch \in [Shard -> Nat]
  BY ConfigAssumption, SMTT(30) DEF Pings, Views, Members
<1>1. CASE p = NoNode
  <2>1. t = [s EXCEPT !.replicaof = [s.replicaof EXCEPT ![m.from] = NoNode]]
    BY <1>1, SMTT(30) DEF SwitchRole
  <2> HIDE DEF t
  <2>2. [s.replicaof EXCEPT ![m.from] = NoNode] \in [Shard -> Shard \cup {NoNode}] BY <1>0
  <2>3. t \in Views /\ t.replicaof = [s.replicaof EXCEPT ![m.from] = NoNode]
    BY <2>1, <2>2, SMTT(30) DEF Views
  <2>4. Rooted(n, t) BY <1>0, <2>3, SMTT(30) DEF Rooted
  <2> QED BY <1>0, <2>3, <2>4 DEF t
<1>2. CASE p # NoNode
  <2> DEFINE s1 == Handover(s, m.from, p)
             s2 == IF s1 = s THEN s ELSE [s1 EXCEPT !.configEpoch[p] = m.configEpoch]
             s3 == [s2 EXCEPT !.replicaof[m.from] = p]
             taken == s.replicaof[m.from] = NoNode /\ s.replicaof[p] # NoNode
             r == [s.replicaof EXCEPT ![p] = NoNode]
  <2>0. p \in Shard /\ p # m.from BY <1>0, <1>2, SMTT(30)
  <2>1. s1 \in Views /\ s1.replicaof = IF taken THEN r ELSE s.replicaof
    <3>1. CASE taken
      <4>1. s1 = [s EXCEPT !.owner = IF @ = m.from THEN p ELSE @,
                           !.claimed = @ \/ s.owner = m.from, !.replicaof = r]
        BY <3>1 DEF Handover, clusterNodeIsPrimary
      <4>2. r \in [Shard -> Shard \cup {NoNode}] BY <1>0, Zenon
      <4> HIDE DEF s1, r
      <4>3. s1 \in Views /\ s1.replicaof = r BY <2>0, <4>1, <4>2, Zenon DEF Views
      <4> QED BY <3>1, <4>3
    <3>2. CASE ~taken BY <3>2 DEF Handover, clusterNodeIsPrimary
    <3> QED BY <3>1, <3>2
  <2> HIDE DEF s1
  <2>2. s2 \in Views /\ s2.replicaof = s1.replicaof
    <3>1. s1.configEpoch \in [Shard -> Nat] BY <2>1 DEF Views
    <3>2. [s1.configEpoch EXCEPT ![p] = m.configEpoch] \in [Shard -> Nat] BY <1>0, <3>1, Zenon
    <3>3. s2 = s \/ s2 = [s1 EXCEPT !.configEpoch = [s1.configEpoch EXCEPT ![p] = m.configEpoch]]
      OBVIOUS
    <3>4. s2 = s => s2.replicaof = s1.replicaof
      <4>1. CASE s1 = s BY <4>1
      <4>2. CASE s1 # s
        <5>1. s2 = [s1 EXCEPT !.configEpoch = [s1.configEpoch EXCEPT ![p] = m.configEpoch]] BY <4>2
        <5> QED BY <5>1, <2>1 DEF Views
      <4> QED BY <4>1, <4>2
    <3> HIDE DEF s2
    <3> QED BY <2>1, <3>2, <3>3, <3>4, SMTT(30) DEF Views
  <2> HIDE DEF s2
  <2>3. s3 \in Views /\ s3.replicaof = [s1.replicaof EXCEPT ![m.from] = p]
    <3>1. s3 = [s2 EXCEPT !.replicaof = [s1.replicaof EXCEPT ![m.from] = p]] BY <2>2
    <3>2. [s1.replicaof EXCEPT ![m.from] = p] \in [Shard -> Shard \cup {NoNode}]
      BY <1>0, <2>0, <2>1, SMTT(30) DEF Views
    <3> HIDE DEF s3
    <3> QED BY <2>2, <3>1, <3>2, SMTT(30) DEF Views
  <2> HIDE DEF s3
  <2>4. /\ s3.replicaof[m.from] = p
        /\ s3.replicaof[p] = IF taken THEN NoNode ELSE s.replicaof[p]
        /\ \A k \in Shard : k # p /\ k # m.from => s3.replicaof[k] = s.replicaof[k]
    BY <1>0, <2>0, <2>1, <2>3
  <2>5. t = IF s.replicaof[m.from] # p /\ Chained(n, s3)
            THEN clusterSetPrimary(n, s3, s3.replicaof[s3.replicaof[n]]) ELSE s3
    BY <1>2 DEF SwitchRole, s3, s2, s1
  <2> HIDE DEF t, taken
  \* The primary of n has become a replica of p: n follows.
  <2>6. CASE n \in Shard /\ n # p /\ s.replicaof[n] = m.from
    <3>1. s.replicaof[m.from] = NoNode BY <1>0, <2>6, SMTT(30) DEF Rooted
    <3>2. s3.replicaof[n] = m.from BY <2>4, <2>6, SMTT(30)
    <3>3. s3.replicaof[p] = NoNode BY <2>4, <3>1, SMTT(30) DEF taken
    <3>4. Chained(n, s3) BY <1>0, <2>0, <2>4, <2>6, <3>2, SMTT(30) DEF Chained, clusterNodeIsPrimary
    <3>5. t = clusterSetPrimary(n, s3, p) BY <1>2, <2>4, <2>5, <3>1, <3>2, <3>4
    <3>6. t \in Views /\ Rooted(n, t) BY <2>0, <2>3, <2>6, <3>3, <3>5, SetPrimaryRooted, Zenon
    <3> QED BY <1>2, <3>6, SMTT(30) DEF t
  \* Otherwise it keeps its primary, or it is the new one.
  <2>7. CASE ~(n \in Shard /\ n # p /\ s.replicaof[n] = m.from)
    <3>1. Rooted(n, s3)
      BY <1>0, <2>0, <2>4, <2>7, SMTT(30) DEF Rooted, taken
    <3>2. ~Chained(n, s3) BY <3>1 DEF Rooted, Chained, clusterNodeIsPrimary
    <3> QED BY <1>2, <2>3, <2>5, <3>1, <3>2, SMTT(30) DEF t
  <2> QED BY <2>6, <2>7
<1> QED BY <1>1, <1>2

\* A collision of epochs changes epochs only.
LEMMA CollisionRooted ==
    ASSUME NEW n \in Members, NEW s \in Views, Rooted(n, s), NEW m
    PROVE  LET t == clusterHandleConfigEpochCollision(n, s, m)
           IN  t \in Views /\ Rooted(n, t)
<1> DEFINE t == clusterHandleConfigEpochCollision(n, s, m)
           f == [s.configEpoch EXCEPT ![n] = s.currentEpoch + 1]
<1>1. t = s \/ (n \in Shard /\ t = [s EXCEPT !.currentEpoch = s.currentEpoch + 1, !.configEpoch = f])
  BY DEF clusterHandleConfigEpochCollision, Views
<1>2. s.currentEpoch + 1 \in Nat /\ (n \in Shard => f \in [Shard -> Nat]) BY DEF Views
<1> HIDE DEF t, f
<1>3. t \in Views /\ t.replicaof = s.replicaof BY <1>1, <1>2, Zenon DEF Views
<1> QED BY <1>3, SameRoles DEF t

\* clusterProcessPacket of a PING or PONG.
LEMMA PingRooted ==
    ASSUME NEW n \in Members, NEW s0 \in Views, Rooted(n, s0), NEW m \in Pings,
           m.from # n, m.replicaof # m.from
    PROVE  AfterPing(n, s0, m) \in Views /\ Rooted(n, AfterPing(n, s0, m))
<1> DEFINE s == TakeEpochs(s0, m)
           r == SwitchRole(n, s, m)
           d == clusterUpdateSlotsConfigWith(n, r, m.from, m.configEpoch, m.slots)
           c == IF m.replicaof = NoNode /\ (~clusterNodeIsPrimary(s, m.from) \/ m.slots # (r.owner = m.from))
                THEN d ELSE r
<1>1. s \in Views /\ Rooted(n, s) BY EpochsRooted
<1>2. AfterPing(n, s0, m) = IF Stale(s, m) THEN s ELSE clusterHandleConfigEpochCollision(n, c, m)
  BY Zenon DEF AfterPing
<1> HIDE DEF s
<1>3. r \in Views /\ Rooted(n, r) /\ (m.replicaof = NoNode => r.replicaof[m.from] = NoNode)
  BY <1>1, RolesRooted
<1> HIDE DEF r
<1>4. m.from \in Shard /\ m.configEpoch \in Nat /\ m.slots \in BOOLEAN BY SMTT(30) DEF Pings
<1>5. m.replicaof = NoNode => d \in Views /\ Rooted(n, d) BY <1>3, <1>4, ClaimRooted, SMTT(30)
<1> HIDE DEF d
<1>6. c \in Views /\ Rooted(n, c) BY <1>3, <1>5
<1> HIDE DEF c
<1> QED BY <1>1, <1>2, <1>6, CollisionRooted, SMTT(30)

\* The messages of a node.
LEMMA PingGood ==
    ASSUME ConfigInv, NEW n \in Shard, NEW to \in Members, n # to
    PROVE  GoodNews(Ping(n, to))
<1>1. n \in Members /\ view[n] \in Views /\ Rooted(n, view[n]) BY DEF ConfigInv, Members
<1>2. view[n].replicaof[n] # n /\ view[n].replicaof[n] \in Shard \cup {NoNode}
  <2>1. NoNode \notin Shard BY ConfigAssumption, SMTT(30) DEF Members
  <2> QED BY <1>1, <2>1 DEF Rooted, Views
<1>3. nodeEpoch(view[n], n) \in Nat
  BY <1>1, <1>2 DEF nodeEpoch, PrimaryOf, clusterNodeIsPrimary, Views
<1>4. view[n].currentEpoch \in Nat BY <1>1, SMTT(30) DEF Views
<1> QED BY <1>2, <1>3, <1>4, Zenon DEF GoodNews, Ping, Pings

\* An UPDATE says who owns the slots, to a member of the shard.
LEMMA UpdateGood ==
    ASSUME NEW n \in Members, NEW s \in Views, NEW to \in Shard
    PROVE  GoodNews(Update(n, s, to))
BY DEF GoodNews, Update, UpdateMessages, Views

\* One node changes its mind, and messages come and go.
LEMMA ViewKeeps ==
    ASSUME ConfigInv, NEW n \in Members, NEW s \in Views, Rooted(n, s),
           view' = [view EXCEPT ![n] = s], \A m \in bus' : m \in bus \/ GoodNews(m)
    PROVE  ConfigInv'
<1>1. view' \in [Members -> Views] BY DEF ConfigInv
<1>2. \A k \in Members : view'[k] = IF k = n THEN s ELSE view[k] BY DEF ConfigInv
<1>3. \A k \in Members : Rooted(k, view'[k]) BY <1>2 DEF ConfigInv
<1> QED BY <1>1, <1>3 DEF ConfigInv

\* A ping changes the roles that its receiver knows, and may be answered.
LEMMA DeliverPingKeeps ==
    ASSUME ConfigInv, NEW m \in bus, DeliverPing(m)
    PROVE  ConfigInv'
<1> DEFINE s == AfterPing(m.to, view[m.to], m)
<1>1. m \in Pings /\ m.from # m.to /\ m.replicaof # m.from
  BY DEF ConfigInv, GoodNews, DeliverPing, UpdateMessages
<1>2. m.to \in Members /\ m.from \in Shard BY <1>1, SMTT(30) DEF Pings
<1>3. s \in Views /\ Rooted(m.to, s) BY <1>1, <1>2, PingRooted DEF ConfigInv
<1>4. view' = [view EXCEPT ![m.to] = s] /\ bus' = (bus \ {m}) \cup Answer(s, m)
  BY DEF DeliverPing
<1> HIDE DEF s
<1>5. \A k \in Answer(s, m) : GoodNews(k) BY <1>2, <1>3, UpdateGood DEF Answer
<1> QED BY <1>2, <1>3, <1>4, <1>5, ViewKeeps, Zenon

\* An UPDATE makes its receiver trust the claim of the node it is about.
LEMMA DeliverUpdateKeeps ==
    ASSUME ConfigInv, NEW m \in bus, DeliverUpdate(m)
    PROVE  ConfigInv'
<1> DEFINE n == m.to
           c == Max({view[n].currentEpoch, m.currentEpoch})
           s == [view[n] EXCEPT !.currentEpoch = Max({@, m.currentEpoch})]
           t == [s EXCEPT !.replicaof[m.about] = NoNode, !.configEpoch[m.about] = m.configEpoch]
           u == clusterUpdateSlotsConfigWith(n, t, m.about, m.configEpoch, m.slots)
           v == IF s.configEpoch[m.about] >= m.configEpoch THEN s ELSE u
<1>1. m \in UpdateMessages BY DEF ConfigInv, GoodNews, DeliverUpdate, Pings
<1>2. /\ n \in Members /\ m.about \in Shard /\ m.currentEpoch \in Nat /\ m.configEpoch \in Nat
      /\ m.slots \in BOOLEAN
  BY <1>1 DEF UpdateMessages, Members
<1>3. view[n] \in Views /\ Rooted(n, view[n]) /\ view[n].currentEpoch \in Nat
  BY <1>2 DEF ConfigInv, Views
<1>4. view' = [view EXCEPT ![n] = v] /\ bus' = bus \ {m} BY DEF DeliverUpdate
<1>5. s \in Views /\ s.replicaof = view[n].replicaof
  <2>1. c \in Nat BY <1>2, <1>3, MaxOfTwo
  <2>2. s = [view[n] EXCEPT !.currentEpoch = c] OBVIOUS
  <2> HIDE DEF s, c
  <2> QED BY <1>3, <2>1, <2>2, SMTT(30) DEF Views
<1>6. Rooted(n, s) BY <1>3, <1>5, SameRoles, Zenon
<1> HIDE DEF s
<1>7. t \in Views /\ t.replicaof = [s.replicaof EXCEPT ![m.about] = NoNode]
  <2>1. s.replicaof \in [Shard -> Shard \cup {NoNode}] /\ s.configEpoch \in [Shard -> Nat]
    BY <1>5 DEF Views
  <2>2. [s.replicaof EXCEPT ![m.about] = NoNode] \in [Shard -> Shard \cup {NoNode}] BY <2>1, Zenon
  <2>3. [s.configEpoch EXCEPT ![m.about] = m.configEpoch] \in [Shard -> Nat] BY <1>2, <2>1
  <2>4. t = [s EXCEPT !.replicaof = [s.replicaof EXCEPT ![m.about] = NoNode],
                      !.configEpoch = [s.configEpoch EXCEPT ![m.about] = m.configEpoch]]
    BY <1>5, SMTT(30) DEF Views
  <2> HIDE DEF t
  <2> QED BY <1>5, <2>2, <2>3, <2>4, Zenon DEF Views
<1> HIDE DEF t
<1>8. Rooted(n, t) /\ t.replicaof[m.about] = NoNode
  <2>1. s.replicaof \in [Shard -> Shard \cup {NoNode}] BY <1>5 DEF Views
  <2> QED BY <1>2, <1>6, <1>7, <2>1, SMTT(30) DEF Rooted
<1>9. u \in Views /\ Rooted(n, u) BY <1>2, <1>7, <1>8, ClaimRooted, Zenon
<1> HIDE DEF u
<1>10. v \in Views /\ Rooted(n, v) BY <1>5, <1>6, <1>9
<1> HIDE DEF v, n
<1> QED BY <1>2, <1>4, <1>10, ViewKeeps, Zenon

\* A replica takes the place of its primary.
LEMMA ReplaceKeeps ==
    ASSUME ConfigInv, NEW n \in Shard, NEW e \in Nat, ReplacePrimary(n, e), bus' = bus
    PROVE  ConfigInv'
<1> DEFINE s == view[n]
           c == Max({s.currentEpoch, e})
           f == [s.configEpoch EXCEPT ![n] = e]
           r == [s.replicaof EXCEPT ![n] = NoNode]
           t == [s EXCEPT !.currentEpoch = Max({@, e}),
                          !.configEpoch[n] = e,
                          !.replicaof[n] = NoNode,
                          !.owner = IF @ = s.replicaof[n] THEN n ELSE @,
                          !.claimed = @ \/ s.owner = s.replicaof[n]]
<1>1. n \in Members /\ s \in Views BY DEF ConfigInv, Members
<1>2. view' = [view EXCEPT ![n] = t] BY DEF ReplacePrimary
<1>3. c \in Nat BY <1>1, MaxOfTwo, Zenon DEF Views
<1>4. f \in [Shard -> Nat] /\ r \in [Shard -> Shard \cup {NoNode}] /\ r[n] = NoNode BY <1>1 DEF Views
<1>5. t = [s EXCEPT !.currentEpoch = c, !.configEpoch = f, !.replicaof = r,
                    !.owner = IF @ = s.replicaof[n] THEN n ELSE @,
                    !.claimed = @ \/ s.owner = s.replicaof[n]]
  BY <1>1 DEF Views
<1> HIDE DEF t, c, f, r, s
<1>6. t \in Views /\ t.replicaof = r BY <1>1, <1>3, <1>4, <1>5, Zenon DEF Views
<1>7. Rooted(n, t) BY <1>4, <1>6 DEF Rooted
<1> QED BY <1>1, <1>2, <1>6, <1>7, ViewKeeps, Zenon

\* The epoch of an election or of a takeover.
LEMMA FailoverKeeps ==
    ASSUME ConfigInv, NEW n \in Shard, Promote(n) \/ Takeover(n)
    PROVE  ConfigInv'
<1>1. CASE Promote(n)
  <2>1. PICK e \in (2 .. MaxConfigEpoch) \ won : ReplacePrimary(n, e) BY <1>1 DEF Promote
  <2>2. e \in Nat BY SMTT(30)
  <2>3. bus' = bus BY <1>1, SMTT(30) DEF Promote
  <2> QED BY <2>1, <2>2, <2>3, ReplaceKeeps, SMTT(30)
<1>2. CASE Takeover(n)
  <2> DEFINE s == view[n]
             top == Max({s.currentEpoch} \cup {s.configEpoch[m] : m \in Shard})
             e == IF s.configEpoch[n] = 0 \/ s.configEpoch[n] # top THEN s.currentEpoch + 1
                  ELSE s.configEpoch[n]
  <2>1. ReplacePrimary(n, e) /\ bus' = bus BY <1>2, Zenon DEF Takeover
  <2>2. s \in Views BY SMTT(30) DEF ConfigInv, Members
  <2> HIDE DEF top
  <2>3. e \in Nat BY <2>2, SMTT(30) DEF Views
  <2> QED BY <2>1, <2>3, ReplaceKeeps, Zenon
<1> QED BY <1>1, <1>2

\* At first the replicas follow the first primary.
LEMMA ConfigInitInv == ConfigInit => ConfigInv
<1> SUFFICES ASSUME ConfigInit PROVE ConfigInv OBVIOUS
<1>1. First \in Shard BY ConfigAssumption
<1>2. view \in [Members -> Views] BY <1>1 DEF ConfigInit, Views
<1>3. \A n \in Members : Rooted(n, view[n]) BY <1>1 DEF ConfigInit, Rooted
<1> QED BY <1>2, <1>3 DEF ConfigInit, ConfigInv

\* Every step of a member keeps the invariant.
LEMMA ConfigStep == ConfigInv /\ [ConfigNext]_configVars => ConfigInv'
<1> SUFFICES ASSUME ConfigInv, [ConfigNext]_configVars PROVE ConfigInv' OBVIOUS
<1>1. ASSUME NEW n \in Shard, Promote(n) \/ Takeover(n) PROVE ConfigInv' BY <1>1, FailoverKeeps
<1>2. ASSUME NEW n \in Shard, NEW to \in Members, n # to, SendPing(n, to) PROVE ConfigInv'
  BY <1>2, PingGood DEF SendPing, ConfigInv
<1>3. ASSUME NEW m \in bus, Lose(m) PROVE ConfigInv' BY <1>3 DEF Lose, ConfigInv
<1>4. ASSUME NEW m \in bus, DeliverPing(m) PROVE ConfigInv' BY <1>4, DeliverPingKeeps
<1>5. ASSUME NEW m \in bus, DeliverUpdate(m) PROVE ConfigInv' BY <1>5, DeliverUpdateKeeps
<1>6. CASE UNCHANGED configVars BY <1>6 DEF configVars, ConfigInv
<1> QED BY <1>1, <1>2, <1>3, <1>4, <1>5, <1>6 DEF ConfigNext

\* NoReplicationCycle for any number of members, failovers and messages, and
\* any order of their delivery: no node replicates itself, or a node that it
\* takes for its own replica.
THEOREM NoCircleOfReplicas == ConfigSpec => []NoReplicationCycle
<1>1. ConfigInv => NoReplicationCycle
  <2> SUFFICES ASSUME ConfigInv, NEW n \in Shard, view[n].replicaof[n] # NoNode
               PROVE  LET p == view[n].replicaof[n] IN p # n /\ view[n].replicaof[p] # n
    BY DEF NoReplicationCycle, clusterNodeIsPrimary
  <2>1. Rooted(n, view[n]) BY DEF ConfigInv, Members
  <2>2. NoNode # n BY ConfigAssumption DEF Members
  <2> QED BY <2>1, <2>2, SMTT(30) DEF Rooted
<1> QED BY <1>1, ConfigInitInv, ConfigStep, PTL DEF ConfigSpec
=============================================================================
