------------------------------ MODULE HazardPtr ------------------------------
(***************************************************************************)
(* Hazard pointers (memory/hazard_ptr.c): threads read a shared atomic     *)
(* pointer with HP_LOAD_SAFE, replace it and retire the old object, and    *)
(* register and leave while others scan.  One hazard slot per thread, as   *)
(* HP_LOAD_SAFE uses it.                                                   *)
(*                                                                         *)
(* Each step is one access to shared memory.  The accesses are taken to be *)
(* sequentially consistent: the store of hp_acquire is followed by a full  *)
(* fence, and the replacement of the pointer is a read-modify-write.  Left *)
(* out: a thread that finds no free record and goes on without one, and    *)
(* the malloc that fails in hp_retire, after which the object is freed at  *)
(* once.                                                                   *)
(***************************************************************************)
EXTENDS Integers, FiniteSets

CONSTANTS
    Threads,
    MaxThreads,    \* HP_MAX_THREADS
    Addresses,     \* where objects are; a free one may be allocated again
    Threshold,     \* HP_RETIRE_THRESHOLD
    NULL

Records == 1 .. MaxThreads

ConstantsOK == MaxThreads \in Nat /\ NULL \notin Addresses /\ NULL \notin Records

ASSUME HazardAssumption == ConstantsOK

VARIABLES
    active,        \* record -> g_records[i].active
    hp,            \* record -> g_records[i].hp[0]
    my_record,     \* thread -> its record, NULL when not tl_registered
    retire_list,   \* thread -> the objects in tl_state.retire_list
    heap,          \* the allocated objects
    shared,        \* the shared atomic pointer
    pc,            \* thread -> the next step
    ptr,           \* thread -> the object it loaded
    cursor,        \* thread -> the next record collect_hazardous reads
    hazardous,     \* thread -> what collect_hazardous has found
    leaked         \* auxiliary: objects in the retire list of a thread that left

hazardVars == <<active, hp, my_record, retire_list, heap, shared, pc, ptr, cursor,
          hazardous, leaked>>

HazardInit ==
    /\ active = [r \in Records |-> FALSE]
    /\ hp = [r \in Records |-> NULL]
    /\ my_record = [t \in Threads |-> NULL]
    /\ retire_list = [t \in Threads |-> {}]
    /\ \E o \in Addresses : heap = {o} /\ shared = o
    /\ pc = [t \in Threads |-> "out"]
    /\ ptr = [t \in Threads |-> NULL]
    /\ cursor = [t \in Threads |-> 0]
    /\ hazardous = [t \in Threads |-> {}]
    /\ leaked = {}

Goto(t, label) == pc' = [pc EXCEPT ![t] = label]

-----------------------------------------------------------------------------
(* Registration                                                            *)

\* The compare-and-exchange that finds a free record.
hp_thread_init(t) ==
    /\ pc[t] = "out"
    /\ \E r \in Records :
        /\ ~active[r]
        /\ active' = [active EXCEPT ![r] = TRUE]
        /\ my_record' = [my_record EXCEPT ![t] = r]
    /\ Goto(t, "idle")
    /\ UNCHANGED <<hp, retire_list, heap, shared, ptr, cursor, hazardous, leaked>>

\* hp_release_all, then the scan
hp_thread_exit(t) ==
    /\ pc[t] = "idle"
    /\ hp' = [hp EXCEPT ![my_record[t]] = NULL]
    /\ cursor' = [cursor EXCEPT ![t] = 1]
    /\ hazardous' = [hazardous EXCEPT ![t] = {}]
    /\ Goto(t, IF retire_list[t] = {} THEN "leave" ELSE "last_scan")
    /\ UNCHANGED <<active, my_record, retire_list, heap, shared, ptr, leaked>>

\* What the last scan kept is forgotten.
Leave(t) ==
    /\ pc[t] = "leave"
    /\ active' = [active EXCEPT ![my_record[t]] = FALSE]
    /\ my_record' = [my_record EXCEPT ![t] = NULL]
    /\ leaked' = leaked \cup retire_list[t]
    /\ retire_list' = [retire_list EXCEPT ![t] = {}]
    /\ Goto(t, "out")
    /\ UNCHANGED <<hp, heap, shared, ptr, cursor, hazardous>>

-----------------------------------------------------------------------------
(* HP_LOAD_SAFE, the use of the object, and hp_release                     *)

LoadShared(t) ==
    /\ pc[t] \in {"idle", "load"}
    /\ ptr' = [ptr EXCEPT ![t] = shared]
    /\ Goto(t, "acquire")
    /\ UNCHANGED <<active, hp, my_record, retire_list, heap, shared, cursor,
                   hazardous, leaked>>

hp_acquire(t) ==
    /\ pc[t] = "acquire"
    /\ hp' = [hp EXCEPT ![my_record[t]] = ptr[t]]
    /\ Goto(t, "verify")
    /\ UNCHANGED <<active, my_record, retire_list, heap, shared, ptr, cursor,
                   hazardous, leaked>>

\* Mutation: the source is not read again.
MutNoVerify(t) ==
    /\ pc[t] = "verify"
    /\ Goto(t, "use")
    /\ UNCHANGED <<active, hp, my_record, retire_list, heap, shared, ptr, cursor,
                   hazardous, leaked>>

Verify(t) ==
    /\ pc[t] = "verify"
    /\ Goto(t, IF ptr[t] = shared THEN "use" ELSE "load")
    /\ UNCHANGED <<active, hp, my_record, retire_list, heap, shared, ptr, cursor,
                   hazardous, leaked>>

hp_release(t) ==
    /\ pc[t] = "use"
    /\ hp' = [hp EXCEPT ![my_record[t]] = NULL]
    /\ ptr' = [ptr EXCEPT ![t] = NULL]
    /\ Goto(t, "idle")
    /\ UNCHANGED <<active, my_record, retire_list, heap, shared, cursor,
                   hazardous, leaked>>

-----------------------------------------------------------------------------
(* Replacing the object, and hp_retire of the old one                      *)

Replace(t) ==
    /\ pc[t] = "idle"
    /\ \E o \in Addresses \ heap :
        /\ heap' = heap \cup {o}
        /\ shared' = o
    /\ ptr' = [ptr EXCEPT ![t] = shared]
    /\ Goto(t, "retire")
    /\ UNCHANGED <<active, hp, my_record, retire_list, cursor, hazardous, leaked>>

hp_retire(t) ==
    /\ pc[t] = "retire"
    /\ retire_list' = [retire_list EXCEPT ![t] = @ \cup {ptr[t]}]
    /\ ptr' = [ptr EXCEPT ![t] = NULL]
    /\ cursor' = [cursor EXCEPT ![t] = 1]
    /\ hazardous' = [hazardous EXCEPT ![t] = {}]
    /\ Goto(t, IF Cardinality(retire_list[t]) + 1 >= Threshold THEN "scan" ELSE "idle")
    /\ UNCHANGED <<active, hp, my_record, heap, shared, leaked>>

-----------------------------------------------------------------------------
(* hp_scan                                                                 *)

\* Called by hp_retire and hp_thread_exit, and by any thread that is idle.
hp_scan(t) ==
    /\ pc[t] = "idle"
    /\ retire_list[t] # {}
    /\ cursor' = [cursor EXCEPT ![t] = 1]
    /\ hazardous' = [hazardous EXCEPT ![t] = {}]
    /\ Goto(t, "scan")
    /\ UNCHANGED <<active, hp, my_record, retire_list, heap, shared, ptr, leaked>>

Scanning(t) == pc[t] \in {"scan", "last_scan"}

\* One record: its active flag, then its hazard pointer.  One step stands for
\* both reads: a record that is given up in between holds no pointer.
collect_hazardous(t) ==
    /\ Scanning(t)
    /\ cursor[t] <= MaxThreads
    /\ hazardous' = [hazardous EXCEPT
            ![t] = IF active[cursor[t]] THEN @ \cup ({hp[cursor[t]]} \ {NULL}) ELSE @]
    /\ cursor' = [cursor EXCEPT ![t] = @ + 1]
    /\ UNCHANGED <<active, hp, my_record, retire_list, heap, shared, pc, ptr, leaked>>

\* Mutation: what was freed stays in the list.
MutFreeKeeps(t) ==
    /\ Scanning(t)
    /\ cursor[t] > MaxThreads
    /\ heap' = heap \ (retire_list[t] \ hazardous[t])
    /\ Goto(t, IF pc[t] = "scan" THEN "idle" ELSE "leave")
    /\ UNCHANGED <<active, hp, my_record, retire_list, shared, ptr, cursor, hazardous, leaked>>

\* What nobody holds is freed, the rest kept for the next scan.
FreeRetired(t) ==
    /\ Scanning(t)
    /\ cursor[t] > MaxThreads
    /\ heap' = heap \ (retire_list[t] \ hazardous[t])
    /\ retire_list' = [retire_list EXCEPT ![t] = @ \cap hazardous[t]]
    /\ Goto(t, IF pc[t] = "scan" THEN "idle" ELSE "leave")
    /\ UNCHANGED <<active, hp, my_record, shared, ptr, cursor, hazardous, leaked>>

-----------------------------------------------------------------------------

Step(t) ==
    \/ hp_thread_init(t) \/ hp_thread_exit(t) \/ Leave(t)
    \/ LoadShared(t) \/ hp_acquire(t) \/ Verify(t) \/ hp_release(t)
    \/ Replace(t) \/ hp_retire(t)
    \/ hp_scan(t) \/ collect_hazardous(t) \/ FreeRetired(t)

HazardNext == \E t \in Threads : Step(t)

HazardSpec == HazardInit /\ [][HazardNext]_hazardVars

\* Types; and a record belongs to at most one thread, which it is active for.
HazardTypeOK ==
    /\ hp \in [Records -> Addresses \cup {NULL}]
    /\ shared \in heap
    /\ heap \subseteq Addresses
    /\ \A t \in Threads : my_record[t] # NULL => active[my_record[t]]
    /\ \A t, u \in Threads : t # u => my_record[t] = NULL \/ my_record[t] # my_record[u]

\* The object a thread got from HP_LOAD_SAFE is allocated until it calls
\* hp_release, whatever other threads retire, scan, register or leave in
\* between: also when the object was freed and allocated again while the
\* thread was loading it.
UsedIsAllocated == \A t \in Threads : pc[t] = "use" => ptr[t] \in heap

\* Auxiliary: t has retired o, or is about to.
Holds(t, o) == o \in retire_list[t] \/ (pc[t] = "retire" /\ ptr[t] = o)

\* Every allocated object is the shared one, held by exactly one thread that
\* retires it, or left behind by a thread that exited: none is freed twice
\* (FreeRetired frees what it holds), and none is lost but by hp_thread_exit.
OneOwner ==
    /\ \A o \in heap : o = shared \/ o \in leaked \/ \E t \in Threads : Holds(t, o)
    /\ \A t \in Threads, o \in Addresses : Holds(t, o) =>
        /\ o \in heap /\ o # shared /\ o \notin leaked
        /\ \A u \in Threads \ {t} : ~Holds(u, o)
        /\ ~(o \in retire_list[t] /\ pc[t] = "retire" /\ ptr[t] = o)
==============================================================================
