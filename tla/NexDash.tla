------------------------------ MODULE NexDash ------------------------------
(***************************************************************************)
(* NexDashTable (hashtable/nexdash.c) under its NexStorage adapter (the    *)
(* ndapi_ functions of core/nexstorage.c): a directory of segments of      *)
(* buckets of slots, with linear probing inside a segment and a rehash     *)
(* into twice as many segments when one is full.  Every operation holds    *)
(* the table's mutex from its first to its last access, so each of them is *)
(* one action.                                                             *)
(*                                                                         *)
(* A value is the NDValue block ndapi_set allocates and the table frees    *)
(* through free_cb; keys stand for byte strings of at most 255 bytes and   *)
(* values for at most the 1 MiB that ndapi_get can copy out.               *)
(***************************************************************************)
EXTENDS Integers, Sequences, FiniteSets, FiniteSetsExt, SequencesExt

CONSTANTS
    Keys,
    Hash,          \* key -> fnv1a_64 of the key
    Values,        \* NDValue blocks
    Blocks,        \* key -> the blocks malloc can return for its value
    SizeOf,        \* block -> the size of the value in it
    TTLs,          \* relative times to live callers use
    Buckets,       \* NEXDASH_BUCKET_COUNT
    SlotsPer,      \* NEXDASH_SLOT_COUNT
    Shift,         \* hash >> 10 chooses the bucket, so 2^10
    InitSegments,  \* segments of a new table
    MaxSegments,   \* more do not fit into the arena
    Granularity,   \* expiry is stored in units of 2^20 microseconds
    Overhead,      \* NEXDASH_ENTRY_OVERHEAD
    MaxTime,       \* the clock stops here
    None, OK, ERROR

SizeAssumption ==
    /\ Buckets \in Nat \ {0} /\ SlotsPer \in Nat \ {0} /\ Shift \in Nat \ {0}
    /\ InitSegments \in Nat \ {0} /\ MaxSegments \in Nat
    /\ Granularity \in Nat \ {0} /\ Overhead \in Nat
InputAssumption ==
    Hash \in [Keys -> Nat] /\ Blocks \in [Keys -> SUBSET Values] /\ SizeOf \in [Values -> Nat] /\ TTLs \subseteq Nat

AnyTTL == TTLs \cup {-1}   \* -1: does not expire

Capacity  == Buckets * SlotsPer
Positions == 0 .. Capacity - 1
Empty     == None

VARIABLES
    directory,     \* segment -> position -> slot
    item_count,    \* t->item_count
    used_memory,   \* t->used_memory
    bloom,         \* hashes added to t->bloom
    heap,          \* allocated NDValue blocks
    now,           \* the clock
    reply          \* what the last call returned

vars == <<directory, item_count, used_memory, bloom, heap, now, reply>>

-----------------------------------------------------------------------------
(* Expiry times *)

\* Mutation: the stored expiry is rounded up.
MutEncodeUp(time) == (time + Granularity - 1) \div Granularity

encode_expire(time) == time \div Granularity

decode_expire(enc) == enc * Granularity

Expired(sl) == sl.expire # 0 /\ decode_expire(sl.expire) <= now

\* The absolute expiry of a call with this ttl; 0 is never.
Deadline(ttl) == IF ttl >= 0 THEN now + ttl ELSE 0

(***************************************************************************)
(* A slot with a value.  expire is the slot's own (coarse) expiry,         *)
(* expire_us the copy in the NDValue; deadline is auxiliary, the time the  *)
(* last SET or EXPIRE asked for.                                           *)
(***************************************************************************)
NewSlot(k, v, size, ttl, tier) ==
    [key |-> k, value |-> v, size |-> size, tier |-> tier,
     expire |-> encode_expire(Deadline(ttl)),
     expire_us |-> IF ttl >= 0 THEN now + ttl ELSE -1,
     deadline |-> Deadline(ttl)]

Cost(sl) == sl.size + Overhead

-----------------------------------------------------------------------------
(* Probing *)

SegmentOf(dir, k) == Hash[k] % Cardinality(DOMAIN dir)

\* The r-th position nd_find_slot and nd_insert_into_segment look at.
Probe(k, r) == (((Hash[k] \div Shift) % Buckets) * SlotsPer + r) % Capacity

Found(dir, k) ==
    {r \in Positions :
        LET sl == dir[SegmentOf(dir, k)][Probe(k, r)] IN sl # Empty /\ sl.key = k}

Free(dir, k) == {r \in Positions : dir[SegmentOf(dir, k)][Probe(k, r)] = Empty}

\* The slot of k, which must exist.
Slot(dir, k) == dir[SegmentOf(dir, k)][Probe(k, Min(Found(dir, k)))]

Store(dir, k, r, sl) == [dir EXCEPT ![SegmentOf(dir, k)][Probe(k, r)] = sl]

Update(dir, k, sl) == Store(dir, k, Min(Found(dir, k)), sl)

Insert(dir, k, sl) == Store(dir, k, Min(Free(dir, k)), sl)

(***************************************************************************)
(* The occupied slots in the order in which every scan meets them.         *)
(***************************************************************************)
Scan(dir) ==
    LET n == Cardinality(DOMAIN dir) * Capacity
        at(i) == dir[(i - 1) \div Capacity][(i - 1) % Capacity]
    IN  SelectSeq([i \in 1 .. n |-> at(i)], LAMBDA sl : sl # Empty)

EmptyDirectory(n) == [s \in 0 .. n - 1 |-> [p \in Positions |-> Empty]]

\* nd_resize: rehash into twice the segments; an entry without room is dropped.
nd_resize(dir) ==
    FoldLeft(LAMBDA new, sl :
                 IF Free(new, sl.key) = {} THEN new ELSE Insert(new, sl.key, sl),
             EmptyDirectory(2 * Cardinality(DOMAIN dir)), Scan(dir))

\* nd_release_slot and what its callers do to the counters
Monus(a, b) == IF a > b THEN a - b ELSE 0

Release(k) ==
    LET sl == Slot(directory, k) IN
    /\ directory' = Update(directory, k, Empty)
    /\ heap' = heap \ {sl.value}
    /\ used_memory' = Monus(used_memory, Cost(sl))
    /\ item_count' = item_count - 1

-----------------------------------------------------------------------------

Init ==
    /\ directory = EmptyDirectory(InitSegments)
    /\ item_count = 0
    /\ used_memory = 0
    /\ bloom = {}
    /\ heap = {}
    /\ now = Granularity
    /\ reply = None

Present(k) == Found(directory, k) # {}
Live(k)    == Present(k) /\ ~Expired(Slot(directory, k))
Lapsed(k)  == Present(k) /\ Expired(Slot(directory, k))

-----------------------------------------------------------------------------
(* ndapi_set: allocate the NDValue, nexdash_set, free it when that fails *)

\* malloc returns a block that is not in use; which one makes no difference.
FreshBlock(k) == LET free == Blocks[k] \ heap IN IF free = {} THEN {} ELSE {CHOOSE v \in free : TRUE}

\* Mutation: an overwritten value is not handed to free_cb.
MutOverwriteLeaks(k, v, size, ttl) ==
    /\ Live(k)
    /\ LET old == Slot(directory, k) IN
       /\ directory' = Update(directory, k, NewSlot(k, v, size, ttl, old.tier))
       /\ heap' = heap \cup {v}
       /\ used_memory' = Monus(used_memory, Cost(old)) + size + Overhead
    /\ reply' = OK
    /\ UNCHANGED <<item_count, bloom, now>>

set_overwrite(k, v, size, ttl) ==
    /\ Live(k)
    /\ LET old == Slot(directory, k) IN
       /\ directory' = Update(directory, k, NewSlot(k, v, size, ttl, old.tier))
       /\ heap' = (heap \ {old.value}) \cup {v}
       /\ used_memory' = Monus(used_memory, Cost(old)) + size + Overhead
    /\ reply' = OK
    /\ UNCHANGED <<item_count, bloom, now>>

\* nd_find_slot removes the lapsed entry and returns no slot.
set_lapsed(k) ==
    /\ Lapsed(k)
    /\ Release(k)
    /\ reply' = ERROR
    /\ UNCHANGED <<bloom, now>>

\* A new slot in dir, which is the directory or its rehash.
CreateIn(dir, moved, k, v, size, ttl) ==
    /\ directory' = Insert(dir, k, NewSlot(k, v, size, ttl, "PROBATORY"))
    /\ heap' = heap \cup {v}
    /\ used_memory' = used_memory + size + Overhead
    /\ item_count' = item_count + moved + 1
    /\ bloom' = bloom \cup {Hash[k]}
    /\ reply' = OK
    /\ UNCHANGED now

\* Mutation: a new key is not added to the Bloom filter.
MutNoBloom(k, v, size, ttl) ==
    /\ ~Present(k)
    /\ Free(directory, k) # {}
    /\ directory' = Insert(directory, k, NewSlot(k, v, size, ttl, "PROBATORY"))
    /\ heap' = heap \cup {v}
    /\ used_memory' = used_memory + size + Overhead
    /\ item_count' = item_count + 1
    /\ reply' = OK
    /\ UNCHANGED <<bloom, now>>

set_insert(k, v, size, ttl) ==
    /\ ~Present(k)
    /\ Free(directory, k) # {}
    /\ CreateIn(directory, 0, k, v, size, ttl)

(***************************************************************************)
(* The segment is full: nd_resize, then one more try.  Every entry that    *)
(* nd_insert_into_segment moves is counted in item_count again.            *)
(***************************************************************************)
set_grow(k, v, size, ttl) ==
    /\ ~Present(k)
    /\ Free(directory, k) = {}
    /\ 2 * Cardinality(DOMAIN directory) <= MaxSegments
    /\ LET new == nd_resize(directory)
           moved == Len(Scan(new))
       IN  \/ Free(new, k) # {} /\ CreateIn(new, moved, k, v, size, ttl)
           \/ /\ Free(new, k) = {}
              /\ directory' = new
              /\ item_count' = item_count + moved
              /\ reply' = ERROR
              /\ UNCHANGED <<heap, used_memory, bloom, now>>

\* nd_resize finds no memory: the table is left as it was.
set_full(k) ==
    /\ ~Present(k)
    /\ Free(directory, k) = {}
    /\ 2 * Cardinality(DOMAIN directory) > MaxSegments
    /\ reply' = ERROR
    /\ UNCHANGED <<directory, item_count, used_memory, bloom, heap, now>>

ndapi_set(k) ==
    \/ set_lapsed(k)
    \/ set_full(k)
    \/ \E v \in FreshBlock(k), ttl \in AnyTTL :
           \/ set_overwrite(k, v, SizeOf[v], ttl)
           \/ set_insert(k, v, SizeOf[v], ttl)
           \/ set_grow(k, v, SizeOf[v], ttl)

-----------------------------------------------------------------------------
(* ndapi_get, ndapi_del, ndapi_expire and the maintenance scans *)

\* nexdash_get_nolock: a first hit promotes the entry to the protected tier.
get_hit(k) ==
    /\ Hash[k] \in bloom
    /\ Live(k)
    /\ directory' = Update(directory, k, [Slot(directory, k) EXCEPT !.tier = "PROTECTED"])
    /\ reply' = Slot(directory, k).value
    /\ UNCHANGED <<item_count, used_memory, bloom, heap, now>>

get_lapsed(k) ==
    /\ Hash[k] \in bloom
    /\ Lapsed(k)
    /\ Release(k)
    /\ reply' = None
    /\ UNCHANGED <<bloom, now>>

get_miss(k) ==
    /\ Hash[k] \notin bloom \/ ~Present(k)
    /\ reply' = None
    /\ UNCHANGED <<directory, item_count, used_memory, bloom, heap, now>>

ndapi_get(k) == get_hit(k) \/ get_lapsed(k) \/ get_miss(k)

\* nexdash_del does not look at the expiry.
ndapi_del(k) ==
    \/ Present(k) /\ Release(k) /\ reply' = OK /\ UNCHANGED <<bloom, now>>
    \/ ~Present(k) /\ reply' = None
       /\ UNCHANGED <<directory, item_count, used_memory, bloom, heap, now>>

\* nexdash_expire changes the slot and not the NDValue.
ndapi_expire(k, ttl) ==
    \/ /\ Live(k)
       /\ directory' = Update(directory, k,
              [Slot(directory, k) EXCEPT !.expire = encode_expire(Deadline(ttl)),
                                         !.deadline = Deadline(ttl)])
       /\ reply' = OK
       /\ UNCHANGED <<item_count, used_memory, bloom, heap, now>>
    \/ Lapsed(k) /\ Release(k) /\ reply' = None /\ UNCHANGED <<bloom, now>>
    \/ ~Present(k) /\ reply' = None
       /\ UNCHANGED <<directory, item_count, used_memory, bloom, heap, now>>

(***************************************************************************)
(* ndapi_rmw: get, callback and set under one hold of the mutex.  The new  *)
(* value keeps the remaining time to live, computed from the NDValue.  A   *)
(* lapsed entry was removed by the get, so the set makes a new one.        *)
(***************************************************************************)
Remaining(sl) == IF sl.expire_us < 0 THEN -1
                 ELSE IF sl.expire_us > now THEN sl.expire_us - now ELSE -2

ndapi_rmw(k, v, size) ==
    \/ /\ Live(k)
       /\ Hash[k] \in bloom
       /\ LET old == Slot(directory, k) IN
          /\ directory' = Update(directory, k, NewSlot(k, v, size, Remaining(old), "PROTECTED"))
          /\ heap' = (heap \ {old.value}) \cup {v}
          /\ used_memory' = Monus(used_memory, Cost(old)) + size + Overhead
       /\ reply' = OK
       /\ UNCHANGED <<item_count, bloom, now>>
    \/ /\ Lapsed(k)
       /\ LET old == Slot(directory, k) IN
          /\ directory' = Insert(Update(directory, k, Empty), k, NewSlot(k, v, size, -1, "PROBATORY"))
          /\ heap' = (heap \ {old.value}) \cup {v}
          /\ used_memory' = Monus(used_memory, Cost(old)) + size + Overhead
       /\ reply' = OK
       /\ UNCHANGED <<item_count, bloom, now>>
    \/ set_insert(k, v, size, -1) \/ set_grow(k, v, size, -1) \/ set_full(k)

\* The callback of ndapi_rmw refuses: only the effects of the get remain.
rmw_refused(k) ==
    /\ \/ /\ Live(k)
          /\ directory' = Update(directory, k, [Slot(directory, k) EXCEPT !.tier = "PROTECTED"])
          /\ UNCHANGED <<item_count, used_memory, heap>>
       \/ Lapsed(k) /\ Release(k)
       \/ ~Present(k) /\ UNCHANGED <<directory, item_count, used_memory, heap>>
    /\ reply' = ERROR
    /\ UNCHANGED <<bloom, now>>

\* Entries removed by a scan, in one hold of the mutex.
RemoveAll(S) ==
    /\ directory' = [s \in DOMAIN directory |-> [p \in Positions |->
                        IF directory[s][p] \in S THEN Empty ELSE directory[s][p]]]
    /\ heap' = heap \ {sl.value : sl \in S}
    /\ used_memory' = Monus(used_memory, MapThenSumSet(Cost, S))
    /\ item_count' = item_count - Cardinality(S)
    /\ reply' = OK
    /\ UNCHANGED <<bloom, now>>

Occupied == UNION {Range(directory[s]) : s \in DOMAIN directory} \ {Empty}

nexdash_scan_expired == RemoveAll({sl \in Occupied : Expired(sl)})

(***************************************************************************)
(* nexdash_evict_to_target: the probatory tier in scan order, then the     *)
(* protected one, until the memory in use is at most the target.           *)
(***************************************************************************)
nexdash_evict_to_target(target) ==
    LET scan   == Scan(directory)
        victims == SelectSeq(scan, LAMBDA sl : sl.tier = "PROBATORY") \o
                   SelectSeq(scan, LAMBDA sl : sl.tier = "PROTECTED")
        left(i) == used_memory - MapThenSumSet(Cost, {victims[j] : j \in 1 .. i})
    IN  RemoveAll({victims[i] : i \in {j \in DOMAIN victims : left(j - 1) > target}})

Tick ==
    /\ now < MaxTime
    /\ now' = now + 1
    /\ UNCHANGED <<directory, item_count, used_memory, bloom, heap, reply>>

Next ==
    \/ \E k \in Keys :
           \/ ndapi_set(k) \/ ndapi_get(k) \/ ndapi_del(k) \/ rmw_refused(k)
           \/ \E ttl \in AnyTTL : ndapi_expire(k, ttl)
           \/ \E v \in FreshBlock(k) : ndapi_rmw(k, v, SizeOf[v])
    \/ nexdash_scan_expired
    \/ \E target \in 0 .. used_memory : nexdash_evict_to_target(target)
    \/ Tick

Spec == Init /\ [][Next]_vars

-----------------------------------------------------------------------------

(***************************************************************************)
(* Every entry is where nd_find_slot looks for it, and no key has two.     *)
(* This is what makes nd_resize safe: the entries of a new segment all     *)
(* come from one old segment, so the rehash never runs out of slots.       *)
(***************************************************************************)
At(s, p, k) == directory[s][p] # Empty /\ directory[s][p].key = k

Reachable ==
    \A s, u \in DOMAIN directory, p, q \in Positions, k \in Keys :
        At(s, p, k) /\ At(u, q, k) => s = u /\ p = q /\ s = SegmentOf(directory, k)

(***************************************************************************)
(* No value is leaked, freed twice or freed while the table refers to it:  *)
(* the allocated blocks are exactly those of the occupied slots, across    *)
(* overwrites, deletes, lapses, evictions, failed sets and rehashes.       *)
(***************************************************************************)
ExactHeap ==
    /\ heap = {sl.value : sl \in Occupied}
    /\ \A sl, other \in Occupied : sl.value = other.value => sl = other

(***************************************************************************)
(* used_memory, which nexdash_evict_to_target steers by, is the cost of    *)
(* the entries in the table.                                               *)
(***************************************************************************)
ExactMemory == used_memory = MapThenSumSet(Cost, Occupied)

(***************************************************************************)
(* A lookup never returns an entry past its deadline, and an entry lapses  *)
(* less than one unit of the stored expiry before it.                      *)
(***************************************************************************)
ServedUntilDeadline ==
    [][now' = now =>
          /\ \A sl \in Occupied : reply' = sl.value => sl.deadline = 0 \/ now < sl.deadline
          /\ \A k \in Keys : (Present(k) /\ ~Present(k)' /\ reply' \in {None, ERROR}) =>
                 now > Slot(directory, k).deadline - Granularity]_vars

(***************************************************************************)
(* The table is a map whose entries may lapse or be evicted: lookups see   *)
(* the last value set (no false negatives of the Bloom filter, nothing     *)
(* lost in a rehash) and operations touch one key only.                    *)
(***************************************************************************)
Contents ==
    [k \in Keys |-> LET f == Found(directory, k) IN
        IF f = {} THEN None ELSE directory[SegmentOf(directory, k)][Probe(k, Min(f))].value]

Map == INSTANCE CacheMap WITH map <- Contents

ImplementsCacheMap == Map!Spec
=============================================================================
