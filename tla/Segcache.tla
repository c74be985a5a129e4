------------------------------ MODULE Segcache ------------------------------
(***************************************************************************)
(* NexSegcache (segcache/segcache.c): items are appended to segments of    *)
(* like time to live and found through buckets of index entries; a reaper  *)
(* thread gives whole segments back to a shared pool once they expire.     *)
(* An operation holds the lock of its key's shard throughout, the reaper   *)
(* the lock of one shard at a time; what it returns to the pool can go to  *)
(* another shard before it unlocks.  The pool is the queue of MPSCQueue    *)
(* with one consumer at a time; a dequeue that meets the reaper between    *)
(* the two halves of an enqueue finds nothing.                             *)
(***************************************************************************)
EXTENDS Integers, Sequences, FiniteSets, FiniteSetsExt

CONSTANTS
    Keys,
    Values,
    TTLs,          \* times to live, in seconds, that callers use
    Bucket,        \* key -> its index bucket
    Fp,            \* key -> its 16-bit fingerprint
    ShardOf,       \* bucket -> shard; shards are 1 .. n, in reaping order
    BucketSlots,   \* SEG_ITEMS_PER_BUCKET
    N_SEGMENTS,    \* sc->n_segments
    SegmentItems,  \* items that fit into a segment
    MaxTime,       \* the clock stops here
    None

(***************************************************************************)
(* Below 861 hours ttl_to_bucket does not wrap around SEG_TTL_BUCKETS,     *)
(* which the code documents as a known limit.                              *)
(***************************************************************************)
SEG_TTL_BUCKETS == 1024

ASSUME InputAssumption ==
    /\ \A ttl \in TTLs : ttl \in Nat /\ ttl < 3600 * 861
    /\ DOMAIN Bucket = Keys /\ DOMAIN Fp = Keys
    /\ \A k \in Keys : Bucket[k] \in DOMAIN ShardOf
    /\ 1 \in Range(ShardOf)
    /\ \A sh \in Range(ShardOf) : sh \in Nat \ {0} /\ 1 .. sh \subseteq Range(ShardOf)
ASSUME SizeAssumption ==
    BucketSlots \in Nat \ {0} /\ N_SEGMENTS \in Nat /\ SegmentItems \in Nat \ {0}

-----------------------------------------------------------------------------
(* Times to live *)

ttl_to_bucket(ttl) ==
    IF ttl < 60 THEN ttl
    ELSE IF ttl < 600 THEN 60 + (ttl - 60) \div 10
    ELSE IF ttl < 3600 THEN 60 + 54 + (ttl - 600) \div 60
    ELSE (60 + 54 + 50 + (ttl - 3600) \div 3600) % SEG_TTL_BUCKETS

\* Mutation: the end of the bucket's interval instead of its beginning.
MutBucketEnd(b) == IF b = 0 THEN 0 ELSE b + 1

bucket_to_ttl_seconds(b) ==
    IF b < 60 THEN b
    ELSE IF b < 114 THEN 60 + (b - 60) * 10
    ELSE IF b < 164 THEN 600 + (b - 114) * 60
    ELSE 3600 + (b - 164) * 3600

-----------------------------------------------------------------------------

Shards     == Range(ShardOf)
TtlBuckets == {ttl_to_bucket(t) : t \in TTLs}
Slots      == 1 .. BucketSlots
Segments   == 1 .. N_SEGMENTS
Offsets    == 0 .. SegmentItems - 1
Idle       == [shard |-> 0, time |-> 0, locked |-> FALSE]

VARIABLES
    hash_table,    \* bucket -> slot -> [fp, seg, off] or None
    ttl_shards,    \* shard -> TTL bucket -> its segments, newest first
    segments,      \* segment -> [items, write_offset, ttl_bucket, create_time]
    free_queue,    \* segments in the pool
    now,           \* seg_unix_now()
    reaper         \* the reaper's shard, its clock, and whether it has the lock

vars == <<hash_table, ttl_shards, segments, free_queue, now, reaper>>

Fresh(b) ==
    [items |-> [o \in Offsets |-> None], write_offset |-> 0,
     ttl_bucket |-> b, create_time |-> now]

Init ==
    /\ now = 1
    /\ hash_table = [b \in DOMAIN ShardOf |-> [s \in Slots |-> None]]
    /\ ttl_shards = [sh \in Shards |-> [b \in TtlBuckets |-> <<>>]]
    /\ segments = [i \in Segments |-> [Fresh(0) EXCEPT !.create_time = 0]]
    /\ free_queue = [i \in Segments |-> i]
    /\ reaper = Idle

-----------------------------------------------------------------------------
(* The index *)

\* The item an index entry leads to; None stands for zeroed memory.
Item(segs, e) == segs[e.seg].items[e.off]

\* The slots of k's bucket whose fingerprint and stored key are those of k.
Matches(segs, k) ==
    {s \in Slots :
        LET e == hash_table[Bucket[k]][s] IN
        /\ e # None /\ e.fp = Fp[k]
        /\ Item(segs, e) # None /\ Item(segs, e).key = k}

FreeSlots(k) == {s \in Slots : hash_table[Bucket[k]][s] = None}

\* Where ht_insert puts the entry of k: over its old one, or in a free slot.
IndexAt(segs, k) ==
    IF Matches(segs, k) # {} THEN Matches(segs, k) ELSE FreeSlots(k)

\* Segment i, taken for one of TTL bucket b, is expired at the given time.
Expires(b, i, time) ==
    LET ttl_s == bucket_to_ttl_seconds(b) IN
    ttl_s > 0 /\ segments[i].create_time + ttl_s <= time

ExpiredAt(i, time) == Expires(segments[i].ttl_bucket, i, time)

Entry(k) == hash_table[Bucket[k]][Min(Matches(segments, k))]

\* What ht_find finds for k.
Lookup(k) ==
    IF Matches(segments, k) = {} \/ ExpiredAt(Entry(k).seg, now) THEN None
    ELSE Item(segments, Entry(k))

-----------------------------------------------------------------------------
(* segcache_set *)

TtlList(k, ttl) == ttl_shards[ShardOf[Bucket[k]]][ttl_to_bucket(ttl)]

\* There is no segment for this time to live, or it has no room left.
NeedSegment(k, ttl) ==
    TtlList(k, ttl) # <<>> => segments[Head(TtlList(k, ttl))].write_offset = SegmentItems

\* The pool is empty, or looks so to a dequeue that meets the gap which the
\* reaper's enqueue leaves for a moment.
set_no_segment(k, ttl) ==
    /\ NeedSegment(k, ttl)
    /\ free_queue = <<>> \/ reaper # Idle
    /\ UNCHANGED vars

(***************************************************************************)
(* The item is written behind the last one of segment i of segs, then      *)
(* indexed.  When the bucket is full the write offset goes back, and the   *)
(* written bytes stay.                                                     *)
(***************************************************************************)
WriteItem(segs, i, k, v, ttl) ==
    LET off     == segs[i].write_offset
        item    == [key |-> k, value |-> v, until |-> IF ttl = 0 THEN 0 ELSE now + ttl]
        written == [segs EXCEPT ![i].items[off] = item]
        at      == IndexAt(written, k)
    IN  \/ /\ at # {}
           /\ segments' = [written EXCEPT ![i].write_offset = off + 1]
           /\ hash_table' = [hash_table EXCEPT ![Bucket[k]][Min(at)] =
                                 [fp |-> Fp[k], seg |-> i, off |-> off]]
        \/ /\ at = {}
           /\ segments' = written
           /\ UNCHANGED hash_table

set_append(k, v, ttl) ==
    /\ ~NeedSegment(k, ttl)
    /\ WriteItem(segments, Head(TtlList(k, ttl)), k, v, ttl)
    /\ UNCHANGED <<ttl_shards, free_queue, now, reaper>>

\* Mutation: the segment is not taken out of the pool.
MutAllocShared(k, v, ttl) ==
    /\ NeedSegment(k, ttl)
    /\ free_queue # <<>>
    /\ LET i == Head(free_queue)
           b == ttl_to_bucket(ttl)
       IN  /\ WriteItem([segments EXCEPT ![i] = Fresh(b)], i, k, v, ttl)
           /\ ttl_shards' = [ttl_shards EXCEPT ![ShardOf[Bucket[k]]][b] = <<i>> \o @]
    /\ UNCHANGED <<free_queue, now, reaper>>

\* seg_alloc clears the segment and makes it the head of its list.
set_alloc(k, v, ttl) ==
    /\ NeedSegment(k, ttl)
    /\ free_queue # <<>>
    /\ LET i == Head(free_queue)
           b == ttl_to_bucket(ttl)
       IN  /\ WriteItem([segments EXCEPT ![i] = Fresh(b)], i, k, v, ttl)
           /\ ttl_shards' = [ttl_shards EXCEPT ![ShardOf[Bucket[k]]][b] = <<i>> \o @]
    /\ free_queue' = Tail(free_queue)
    /\ UNCHANGED <<now, reaper>>

segcache_set(k, v, ttl) ==
    set_no_segment(k, ttl) \/ set_append(k, v, ttl) \/ set_alloc(k, v, ttl)

-----------------------------------------------------------------------------
(* segcache_get, segcache_exists, segcache_del *)

\* Mutation: the first entry with the fingerprint is removed.
MutUnindexFp(k) ==
    /\ hash_table' = [hash_table EXCEPT ![Bucket[k]][
           Min({s \in Slots : hash_table[Bucket[k]][s] # None /\ hash_table[Bucket[k]][s].fp = Fp[k]})] = None]
    /\ UNCHANGED <<ttl_shards, segments, free_queue, now, reaper>>

Unindex(k) ==
    /\ hash_table' = [hash_table EXCEPT ![Bucket[k]][Min(Matches(segments, k))] = None]
    /\ UNCHANGED <<ttl_shards, segments, free_queue, now, reaper>>

\* A lookup that finds an expired item unindexes it; others change nothing.
segcache_get(k) ==
    /\ Matches(segments, k) # {}
    /\ ExpiredAt(Entry(k).seg, now)
    /\ Unindex(k)

segcache_del(k) ==
    /\ Matches(segments, k) # {}
    /\ Unindex(k)

-----------------------------------------------------------------------------
(* The reaper *)

reap_start ==
    /\ reaper = Idle
    /\ reaper' = [shard |-> 1, time |-> now, locked |-> FALSE]
    /\ UNCHANGED <<hash_table, ttl_shards, segments, free_queue, now>>

\* The list without its segment at position j.
Unlink(list, j) == [i \in 1 .. Len(list) - 1 |-> IF i < j THEN list[i] ELSE list[i + 1]]

\* Where in list b of the reaper's shard the expired segments are.
Expired(b) ==
    LET list == ttl_shards[reaper.shard][b] IN
    {j \in DOMAIN list : Expires(b, list[j], reaper.time)}

(***************************************************************************)
(* The reaper goes through the lists of its shard and moves the expired    *)
(* segments to the pool one by one, with the time read at its start.  The  *)
(* index entries of the segments it gives back are left alone.             *)
(***************************************************************************)
reap_segment ==
    /\ reaper # Idle
    /\ \E b \in TtlBuckets :
           LET list == ttl_shards[reaper.shard][b]
               j    == Min(Expired(b))
           IN  /\ Expired(b) # {} /\ \A c \in TtlBuckets : c < b => Expired(c) = {}
               /\ ttl_shards' = [ttl_shards EXCEPT ![reaper.shard][b] = Unlink(list, j)]
               /\ free_queue' = Append(free_queue, list[j])
    /\ reaper' = [reaper EXCEPT !.locked = TRUE]
    /\ UNCHANGED <<hash_table, segments, now>>

\* Mutation: the reaper stops before the last shard.
MutReapSkip ==
    /\ reaper # Idle
    /\ \A b \in TtlBuckets : Expired(b) = {}
    /\ reaper' = IF reaper.shard + 2 \in Shards
                 THEN [reaper EXCEPT !.shard = @ + 1, !.locked = FALSE] ELSE Idle
    /\ UNCHANGED <<hash_table, ttl_shards, segments, free_queue, now>>

\* Nothing is left to expire in the shard: the reaper unlocks it and goes on.
reap_next ==
    /\ reaper # Idle
    /\ \A b \in TtlBuckets : Expired(b) = {}
    /\ reaper' = IF reaper.shard + 1 \in Shards
                 THEN [reaper EXCEPT !.shard = @ + 1, !.locked = FALSE] ELSE Idle
    /\ UNCHANGED <<hash_table, ttl_shards, segments, free_queue, now>>

segcache_expire_segments == reap_segment \/ reap_next

Tick ==
    /\ now < MaxTime
    /\ now' = now + 1
    /\ UNCHANGED <<hash_table, ttl_shards, segments, free_queue, reaper>>

\* locks[sh] is free: only the reaper holds a lock from one step to the next.
CanLock(sh) == ~(reaper.locked /\ reaper.shard = sh)

Next ==
    \/ \E k \in Keys :
           /\ CanLock(ShardOf[Bucket[k]])
           /\ \/ \E v \in Values, ttl \in TTLs : segcache_set(k, v, ttl)
              \/ segcache_get(k) \/ segcache_del(k)
    \/ reap_start \/ segcache_expire_segments
    \/ Tick

\* The reaper is a thread that wakes every second.
Fairness == WF_vars(reap_start \/ segcache_expire_segments)

Spec == Init /\ [][Next]_vars /\ Fairness

-----------------------------------------------------------------------------

Places  == Shards \X TtlBuckets
List(p) == ttl_shards[p[1]][p[2]]

(***************************************************************************)
(* A segment is in the pool or in exactly one list, once: two shards never *)
(* write into one segment, whatever the reaper and seg_alloc do in turn.   *)
(***************************************************************************)
SegmentsOwnedOnce ==
    /\ IsInjective(free_queue) /\ \A p \in Places : IsInjective(List(p))
    /\ \A p \in Places : Range(List(p)) \cap Range(free_queue) = {}
    /\ \A p, q \in Places : p # q => Range(List(p)) \cap Range(List(q)) = {}
    /\ Segments = Range(free_queue) \cup UNION {Range(List(p)) : p \in Places}

(***************************************************************************)
(* A lookup returns an item of its own key and never one past the time to  *)
(* live it was set with, although entries outlive the segments they point  *)
(* into.                                                                   *)
(***************************************************************************)
NeverServedLate ==
    \A k \in Keys : Lookup(k) # None =>
        Lookup(k).key = k /\ (Lookup(k).until = 0 \/ now < Lookup(k).until)

(***************************************************************************)
(* Deleting or looking up a key does not change what any other key has,    *)
(* even when fingerprints collide.                                         *)
(***************************************************************************)
OthersUntouched ==
    [][\A k \in Keys : segcache_del(k) \/ segcache_get(k) =>
           \A other \in Keys \ {k} : Lookup(other)' = Lookup(other)]_vars

(***************************************************************************)
(* An expired segment goes back to the pool: without this every SET ends   *)
(* up failing for lack of segments.                                        *)
(***************************************************************************)
ExpiredReturned ==
    \A i \in Segments : i \notin Range(free_queue) /\ ExpiredAt(i, now)
                            ~> i \in Range(free_queue) \/ ~ExpiredAt(i, now)

(***************************************************************************)
(* A lookup after a delete of the key finds nothing: ht_insert             *)
(* ("replace-or-insert") leaves one entry per key for segcache_del to find.*)
(***************************************************************************)
DeleteThenMiss == [][\A k \in Keys : segcache_del(k) => Lookup(k)' = None]_vars
=============================================================================
