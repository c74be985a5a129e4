--------------------------- MODULE SegcacheProofs ---------------------------
(***************************************************************************)
(* Proofs about Segcache, for any keys, times to live, shards, segments    *)
(* and any clock.                                                          *)
(*                                                                         *)
(* The inductive invariant says that a segment is in one list or in the    *)
(* pool, that the segments of a list carry the list's TTL bucket, and that *)
(* whatever lies in a segment, indexed or not, was set to live at least as *)
(* long as the segment.                                                    *)
(***************************************************************************)
EXTENDS Segcache, WellFoundedInduction, TLAPS

EntryType   == [fp : Range(Fp), seg : Segments, off : Offsets]
ItemType    == [key : Keys, value : Values, until : Nat]
SegmentType ==
    [items : [Offsets -> ItemType \cup {None}], write_offset : 0 .. SegmentItems,
     ttl_bucket : Nat, create_time : Nat]
TableType   == [DOMAIN ShardOf -> [Slots -> EntryType \cup {None}]]

ListsType   == [Shards -> [TtlBuckets -> Seq(Segments)]]

TypeOK ==
    /\ hash_table \in TableType
    /\ ttl_shards \in ListsType
    /\ segments \in [Segments -> SegmentType]
    /\ free_queue \in Seq(Segments)
    /\ now \in Nat
    /\ reaper = Idle \/ reaper \in [shard : Shards, time : Nat, locked : BOOLEAN]

\* The segments in the list of each shard and TTL bucket.
Held(lists) == [p \in Places |-> Range(lists[p[1]][p[2]])]

\* The segments of a list carry the TTL bucket of the list.
Sorted(lists, segs) ==
    \A p \in Places : \A i \in Held(lists)[p] : segs[i].ttl_bucket = p[2]

\* No segment was created in the future.
Aged(segs, time) == \A i \in Segments : segs[i].create_time <= time

\* Whatever a segment holds outlives it: what ht_find takes for its deadline
\* comes no later than the deadline it was set with.
Outlives(item, segment) ==
    LET ttl_s == bucket_to_ttl_seconds(segment.ttl_bucket) IN
    item.until = 0 \/ (ttl_s > 0 /\ segment.create_time + ttl_s <= item.until)

Outlive(segs) ==
    \A i \in Segments, o \in Offsets :
        segs[i].items[o] # None => Outlives(segs[i].items[o], segs[i])

SegcacheInv ==
    /\ TypeOK
    /\ SegmentsOwnedOnce
    /\ Sorted(ttl_shards, segments)
    /\ Aged(segments, now)
    /\ Outlive(segments)

-----------------------------------------------------------------------------
(* Helpers *)

\* The least element of a set of natural numbers, which the loops over slots
\* and over lists stop at, is an element of it.
LEMMA MinIn ==
    ASSUME NEW S, S \subseteq Nat, S # {}
    PROVE  Min(S) \in S
  <1>1. \E x \in S : \A y \in S : ~(<<y, x>> \in OpToRel(<, Nat))
    BY WFMin, NatLessThanWellFounded, Zenon
  <1>2. PICK x \in S : \A y \in S : ~(<<y, x>> \in OpToRel(<, Nat))
    BY <1>1, Zenon
  <1>3. ASSUME NEW y \in S PROVE x <= y
    <2>1. ~(<<y, x>> \in {ss \in Nat \X Nat : ss[1] < ss[2]})
      BY <1>2 DEF OpToRel
    <2>2. x \in Nat /\ y \in Nat
      OBVIOUS
    <2> QED
      BY <2>1, <2>2
  <1> QED
    BY <1>3, Zenon DEF Min

\* The TTL bucket of a time to live is a number, and the bucket's time to live
\* is not longer; only that of bucket 0 is 0.
LEMMA TtlBucket ==
    ASSUME NEW ttl \in TTLs
    PROVE  /\ ttl \in Nat
           /\ ttl_to_bucket(ttl) \in Nat
           /\ bucket_to_ttl_seconds(ttl_to_bucket(ttl)) \in Nat
           /\ bucket_to_ttl_seconds(ttl_to_bucket(ttl)) <= ttl
           /\ ttl # 0 => bucket_to_ttl_seconds(ttl_to_bucket(ttl)) > 0
  <1> DEFINE q(n, d) == (ttl - n) \div d
  <1>1. ttl \in Nat /\ ttl < 3600 * 861
    BY InputAssumption
  <1>2. CASE ttl < 60
    BY <1>1, <1>2 DEF ttl_to_bucket, bucket_to_ttl_seconds
  <1>3. CASE 60 <= ttl /\ ttl < 600
    <2>1. q(60, 10) \in 0 .. 53 /\ 10 * q(60, 10) <= ttl - 60
      BY <1>1, <1>3
    <2>2. ttl_to_bucket(ttl) = 60 + q(60, 10)
      BY <1>1, <1>3 DEF ttl_to_bucket
    <2> HIDE DEF q
    <2>3. bucket_to_ttl_seconds(60 + q(60, 10)) = 60 + q(60, 10) * 10
      BY <2>1 DEF bucket_to_ttl_seconds
    <2> QED
      BY <1>1, <2>1, <2>2, <2>3
  <1>4. CASE 600 <= ttl /\ ttl < 3600
    <2>1. q(600, 60) \in 0 .. 49 /\ 60 * q(600, 60) <= ttl - 600
      BY <1>1, <1>4
    <2>2. ttl_to_bucket(ttl) = 114 + q(600, 60)
      BY <1>1, <1>4 DEF ttl_to_bucket
    <2> HIDE DEF q
    <2>3. bucket_to_ttl_seconds(114 + q(600, 60)) = 600 + q(600, 60) * 60
      BY <2>1 DEF bucket_to_ttl_seconds
    <2> QED
      BY <1>1, <2>1, <2>2, <2>3
  <1>5. CASE 3600 <= ttl
    <2>1. /\ q(3600, 3600) \in Nat /\ q(3600, 3600) < 860
          /\ 3600 * q(3600, 3600) <= ttl - 3600
      BY <1>1, <1>5
    <2>2. ttl_to_bucket(ttl) = (164 + q(3600, 3600)) % 1024
      BY <1>1, <1>5 DEF ttl_to_bucket, SEG_TTL_BUCKETS
    <2> HIDE DEF q
    <2>3. (164 + q(3600, 3600)) % 1024 = 164 + q(3600, 3600)
      BY <2>1
    <2>4. bucket_to_ttl_seconds(164 + q(3600, 3600)) = 3600 + q(3600, 3600) * 3600
      BY <2>1 DEF bucket_to_ttl_seconds
    <2> QED
      BY <1>1, <2>1, <2>2, <2>3, <2>4
  <1> QED
    BY <1>1, <1>2, <1>3, <1>4, <1>5

\* Taking the head off a sequence without repetitions removes it from its range.
LEMMA TailRange ==
    ASSUME NEW S, NEW q \in Seq(S), IsInjective(q), q # <<>>
    PROVE  /\ Tail(q) \in Seq(S) /\ IsInjective(Tail(q))
           /\ Head(q) \in Range(q) /\ Head(q) \in S
           /\ Range(Tail(q)) = Range(q) \ {Head(q)}
  <1>1. /\ Len(q) \in Nat \ {0} /\ DOMAIN q = 1 .. Len(q)
        /\ Head(q) = q[1] /\ Tail(q) \in Seq(S)
        /\ DOMAIN Tail(q) = 1 .. Len(q) - 1
        /\ \A i \in 1 .. Len(q) - 1 : Tail(q)[i] = q[i + 1]
    OBVIOUS
  <1>2. IsInjective(Tail(q))
    BY <1>1 DEF IsInjective
  <1>3. Head(q) \in Range(q) /\ Head(q) \in S
    BY <1>1 DEF Range
  <1>4. ASSUME NEW x \in Range(Tail(q)) PROVE x \in Range(q) \ {Head(q)}
    BY <1>1 DEF Range, IsInjective
  <1>5. ASSUME NEW x \in Range(q) \ {Head(q)} PROVE x \in Range(Tail(q))
    <2>1. PICK i \in 1 .. Len(q) : q[i] = x
      BY <1>1 DEF Range
    <2>2. i - 1 \in 1 .. Len(q) - 1 /\ Tail(q)[i - 1] = x
      BY <2>1, <1>1
    <2> QED
      BY <2>2, <1>1, Zenon DEF Range
  <1> QED
    BY <1>1, <1>2, <1>3, <1>4, <1>5

\* Appending adds one element to the range, and no repetition if it is new.
LEMMA AppendRange ==
    ASSUME NEW S, NEW q \in Seq(S), NEW x \in S, IsInjective(q), x \notin Range(q)
    PROVE  /\ Append(q, x) \in Seq(S) /\ IsInjective(Append(q, x))
           /\ Range(Append(q, x)) = Range(q) \cup {x}
  <1>1. /\ Len(q) \in Nat /\ DOMAIN q = 1 .. Len(q)
        /\ Append(q, x) \in Seq(S)
        /\ DOMAIN Append(q, x) = 1 .. Len(q) + 1
        /\ \A i \in 1 .. Len(q) : Append(q, x)[i] = q[i]
        /\ Append(q, x)[Len(q) + 1] = x
    OBVIOUS
  <1>2. IsInjective(Append(q, x))
    BY <1>1 DEF IsInjective, Range
  <1>3. Range(Append(q, x)) = Range(q) \cup {x}
    BY <1>1 DEF Range
  <1> QED
    BY <1>1, <1>2, <1>3

\* The same for a new head.
LEMMA ConsRange ==
    ASSUME NEW S, NEW q \in Seq(S), NEW x \in S, IsInjective(q), x \notin Range(q)
    PROVE  /\ <<x>> \o q \in Seq(S) /\ IsInjective(<<x>> \o q)
           /\ Range(<<x>> \o q) = Range(q) \cup {x}
  <1>1. /\ Len(q) \in Nat /\ DOMAIN q = 1 .. Len(q)
        /\ <<x>> \o q \in Seq(S)
        /\ DOMAIN (<<x>> \o q) = 1 .. Len(q) + 1
        /\ \A i \in 1 .. Len(q) : (<<x>> \o q)[i + 1] = q[i]
        /\ (<<x>> \o q)[1] = x
    OBVIOUS
  <1>2. \A i \in 2 .. Len(q) + 1 : (<<x>> \o q)[i] = q[i - 1]
    BY <1>1
  <1>3. IsInjective(<<x>> \o q)
    BY <1>1, <1>2 DEF IsInjective, Range
  <1>4. Range(<<x>> \o q) = Range(q) \cup {x}
    <2>1. ASSUME NEW y \in Range(q) PROVE y \in Range(<<x>> \o q)
      <3>1. PICK i \in 1 .. Len(q) : q[i] = y
        BY <1>1 DEF Range
      <3>2. i + 1 \in 1 .. Len(q) + 1 /\ (<<x>> \o q)[i + 1] = y
        BY <3>1, <1>1
      <3> QED
        BY <3>2, <1>1, Zenon DEF Range
    <2>2. ASSUME NEW y \in Range(<<x>> \o q) PROVE y \in Range(q) \cup {x}
      BY <1>1, <1>2 DEF Range
    <2>3. x \in Range(<<x>> \o q)
      BY <1>1 DEF Range
    <2> QED
      BY <2>1, <2>2, <2>3
  <1> QED
    BY <1>1, <1>3, <1>4

\* Unlinking the element at position j, as the reaper does, removes just it.
LEMMA RemoveRange ==
    ASSUME NEW S, NEW q \in Seq(S), NEW j \in DOMAIN q, IsInjective(q)
    PROVE  /\ Unlink(q, j) \in Seq(S) /\ IsInjective(Unlink(q, j))
           /\ Range(Unlink(q, j)) = Range(q) \ {q[j]}
  <1> DEFINE r == Unlink(q, j)
  <1>1. Len(q) \in Nat /\ DOMAIN q = 1 .. Len(q)
    OBVIOUS
  <1>2. /\ r \in Seq(S)
        /\ DOMAIN r = 1 .. Len(q) - 1
        /\ \A i \in 1 .. Len(q) - 1 : r[i] = IF i < j THEN q[i] ELSE q[i + 1]
    BY <1>1 DEF Unlink
  <1> HIDE DEF r
  <1>3. IsInjective(r)
    <2>1. SUFFICES ASSUME NEW a \in DOMAIN r, NEW b \in DOMAIN r, r[a] = r[b]
                   PROVE  a = b
      BY DEF IsInjective
    <2>2. PICK c \in 1 .. Len(q) : r[a] = q[c] /\ c = (IF a < j THEN a ELSE a + 1)
      BY <1>1, <1>2
    <2>3. PICK d \in 1 .. Len(q) : r[b] = q[d] /\ d = (IF b < j THEN b ELSE b + 1)
      BY <1>1, <1>2
    <2>4. c = d
      BY <2>1, <2>2, <2>3, <1>1, Zenon DEF IsInjective
    <2> QED
      BY <2>2, <2>3, <2>4, <1>1, <1>2
  <1>4. ASSUME NEW x \in Range(r) PROVE x \in Range(q) \ {q[j]}
    BY <1>1, <1>2 DEF Range, IsInjective
  <1>5. ASSUME NEW x \in Range(q) \ {q[j]} PROVE x \in Range(r)
    <2>1. PICK i \in 1 .. Len(q) : q[i] = x /\ i # j
      BY <1>1 DEF Range
    <2>2. CASE i < j
      BY <2>1, <2>2, <1>1, <1>2 DEF Range
    <2>3. CASE i > j
      <3>1. i - 1 \in 1 .. Len(q) - 1 /\ r[i - 1] = x
        BY <2>1, <2>3, <1>1, <1>2
      <3> QED
        BY <3>1, <1>2, Zenon DEF Range
    <2> QED
      BY <2>1, <2>2, <2>3, <1>1
  <1> QED
    BY <1>2, <1>3, <1>4, <1>5 DEF r

-----------------------------------------------------------------------------
(* Who has a segment *)

\* The segments at different places are different ones, and all are somewhere.
Apart(held, pool) ==
    /\ \A p \in Places : held[p] \cap pool = {}
    /\ \A p, q \in Places : p # q => held[p] \cap held[q] = {}
    /\ Segments = pool \cup UNION {held[p] : p \in Places}

\* Only what is held at one place has changed: it is S now.
Changed(held, at, S, held2) ==
    \A p \in Places : held2[p] = IF p = at THEN S ELSE held[p]

\* A segment that leaves the pool and arrives at a place keeps things apart.
LEMMA LeaveApart ==
    ASSUME NEW held, NEW pool, NEW at \in Places, NEW x \in pool, NEW held2, NEW pool2,
           Apart(held, pool), Changed(held, at, held[at] \cup {x}, held2), pool2 = pool \ {x}
    PROVE  Apart(held2, pool2)
  <1>1. \A p \in Places : held2[p] \cap pool2 = {}
    BY DEF Apart, Changed
  <1>2. \A p, q \in Places : p # q => held2[p] \cap held2[q] = {}
    BY DEF Apart, Changed
  <1>3. ASSUME NEW y PROVE y \in Segments <=> y \in pool2 \cup UNION {held2[p] : p \in Places}
    <2>1. y \in Segments <=> y \in pool \/ \E p \in Places : y \in held[p]
      BY DEF Apart
    <2>2. y \in UNION {held2[p] : p \in Places} <=> \E p \in Places : y \in held2[p]
      OBVIOUS
    <2>3. (\E p \in Places : y \in held2[p]) <=> (\E p \in Places : y \in held[p]) \/ y = x
      BY DEF Changed
    <2> QED
      BY <2>1, <2>2, <2>3
  <1> QED
    BY <1>1, <1>2, <1>3 DEF Apart

\* The same for a segment on its way back to the pool.
LEMMA ReturnApart ==
    ASSUME NEW held, NEW pool, NEW at \in Places, NEW x \in held[at], NEW held2, NEW pool2,
           Apart(held, pool), Changed(held, at, held[at] \ {x}, held2), pool2 = pool \cup {x}
    PROVE  Apart(held2, pool2)
  <1>1. \A p \in Places : held2[p] \cap pool2 = {}
    BY DEF Apart, Changed
  <1>2. \A p, q \in Places : p # q => held2[p] \cap held2[q] = {}
    BY DEF Apart, Changed
  <1>3. ASSUME NEW y PROVE y \in Segments <=> y \in pool2 \cup UNION {held2[p] : p \in Places}
    <2>1. y \in Segments <=> y \in pool \/ \E p \in Places : y \in held[p]
      BY DEF Apart
    <2>2. y \in UNION {held2[p] : p \in Places} <=> \E p \in Places : y \in held2[p]
      OBVIOUS
    <2>3. (\E p \in Places : y \in held[p]) <=> (\E p \in Places : y \in held2[p]) \/ y = x
      BY DEF Changed
    <2> QED
      BY <2>1, <2>2, <2>3
  <1> QED
    BY <1>1, <1>2, <1>3 DEF Apart

NoTwins(lists) == \A p \in Places : IsInjective(lists[p[1]][p[2]])

\* SegmentsOwnedOnce for any lists and any pool.
Owned(lists, pool) ==
    /\ IsInjective(pool) /\ NoTwins(lists)
    /\ Apart(Held(lists), Range(pool))

\* Owned says what the runs check.
LEMMA OwnedIsOwnedOnce == SegmentsOwnedOnce <=> Owned(ttl_shards, free_queue)
  <1>1. \A p \in Places : Held(ttl_shards)[p] = Range(List(p))
    BY DEF Held, List
  <1>2. {Held(ttl_shards)[p] : p \in Places} = {Range(List(p)) : p \in Places}
    BY <1>1
  <1> QED
    BY <1>1, <1>2, Zenon DEF SegmentsOwnedOnce, Owned, NoTwins, Apart, List

\* What a change of one list changes.
LEMMA ListChanged ==
    ASSUME NEW lists \in ListsType, NEW s \in Shards, NEW t \in TtlBuckets,
           NEW l \in Seq(Segments), IsInjective(l), NoTwins(lists),
           NEW new, new = [lists EXCEPT ![s][t] = l]
    PROVE  new \in ListsType /\ NoTwins(new) /\ Changed(Held(lists), <<s, t>>, Range(l), Held(new))
  <1>1. new \in ListsType
    BY DEF ListsType
  <1>2. ASSUME NEW p \in Places
        PROVE  new[p[1]][p[2]] = IF p = <<s, t>> THEN l ELSE lists[p[1]][p[2]]
    <2>1. PICK sh \in Shards, b \in TtlBuckets : p = <<sh, b>>
      BY DEF Places
    <2>2. new[sh][b] = IF sh = s /\ b = t THEN l ELSE lists[sh][b]
      BY DEF ListsType
    <2> QED
      BY <2>1, <2>2
  <1> HIDE DEF ListsType
  <1>3. NoTwins(new)
    BY <1>2 DEF NoTwins
  <1>4. ASSUME NEW p \in Places
        PROVE  Held(new)[p] = IF p = <<s, t>> THEN Range(l) ELSE Held(lists)[p]
    <2>1. Held(new)[p] = Range(new[p[1]][p[2]]) /\ Held(lists)[p] = Range(lists[p[1]][p[2]])
      BY DEF Held
    <2> QED
      BY <2>1, <1>2
  <1> QED
    BY <1>1, <1>3, <1>4, Zenon DEF Changed

\* seg_alloc and segcache_set move the head of the pool to the head of a list.
LEMMA AllocOwned ==
    ASSUME NEW lists \in ListsType, NEW pool \in Seq(Segments), Owned(lists, pool),
           NEW s \in Shards, NEW t \in TtlBuckets, pool # <<>>
    PROVE  LET new == [lists EXCEPT ![s][t] = <<Head(pool)>> \o @] IN
           /\ new \in ListsType /\ Tail(pool) \in Seq(Segments) /\ Owned(new, Tail(pool))
           /\ Head(pool) \in Segments /\ \A p \in Places : Head(pool) \notin Held(lists)[p]
           /\ Changed(Held(lists), <<s, t>>, Held(lists)[<<s, t>>] \cup {Head(pool)}, Held(new))
  <1> DEFINE i   == Head(pool)
             l   == <<i>> \o lists[s][t]
             new == [lists EXCEPT ![s][t] = l]
  <1>1. /\ Tail(pool) \in Seq(Segments) /\ IsInjective(Tail(pool))
        /\ i \in Range(pool) /\ i \in Segments
        /\ Range(Tail(pool)) = Range(pool) \ {i}
    BY TailRange DEF Owned
  <1>2. <<s, t>> \in Places /\ Held(lists)[<<s, t>>] = Range(lists[s][t])
    BY DEF Places, Held
  <1>3. i \notin Range(lists[s][t])
    BY <1>1, <1>2 DEF Owned, Apart
  <1>4. lists[s][t] \in Seq(Segments) /\ IsInjective(lists[s][t])
    BY <1>2 DEF ListsType, Owned, NoTwins
  <1>5. /\ l \in Seq(Segments) /\ IsInjective(l)
        /\ Range(l) = Range(lists[s][t]) \cup {i}
    BY <1>1, <1>3, <1>4, ConsRange
  <1> HIDE DEF i, l
  <1>6. /\ new \in ListsType /\ NoTwins(new)
        /\ Changed(Held(lists), <<s, t>>, Range(l), Held(new))
    <2>1. NoTwins(lists)
      BY DEF Owned
    <2> QED
      BY <2>1, <1>5, ListChanged, Zenon
  <1> HIDE DEF new
  <1>7. Changed(Held(lists), <<s, t>>, Held(lists)[<<s, t>>] \cup {i}, Held(new))
    BY <1>2, <1>5, <1>6
  <1>8. Apart(Held(new), Range(Tail(pool)))
    <2>1. Apart(Held(lists), Range(pool))
      BY DEF Owned
    <2> QED
      BY <2>1, <1>1, <1>2, <1>7, LeaveApart, Zenon
  <1>9. new \in ListsType /\ Tail(pool) \in Seq(Segments) /\ Owned(new, Tail(pool))
    BY <1>1, <1>6, <1>8 DEF Owned
  <1>10. \A p \in Places : i \notin Held(lists)[p]
    BY <1>1 DEF Owned, Apart
  <1> QED
    BY <1>1, <1>7, <1>9, <1>10 DEF new, l, i

\* The reaper moves a segment from the middle of a list to the end of the pool.
LEMMA ReapOwned ==
    ASSUME NEW lists \in ListsType, NEW pool \in Seq(Segments), Owned(lists, pool),
           NEW s \in Shards, NEW t \in TtlBuckets, NEW j \in DOMAIN lists[s][t]
    PROVE  LET new   == [lists EXCEPT ![s][t] = Unlink(lists[s][t], j)]
               pool2 == Append(pool, lists[s][t][j])
           IN  /\ new \in ListsType /\ pool2 \in Seq(Segments) /\ Owned(new, pool2)
               /\ Changed(Held(lists), <<s, t>>, Held(lists)[<<s, t>>] \ {lists[s][t][j]}, Held(new))
  <1> DEFINE i     == lists[s][t][j]
             l     == Unlink(lists[s][t], j)
             new   == [lists EXCEPT ![s][t] = l]
             pool2 == Append(pool, i)
  <1>1. <<s, t>> \in Places /\ Held(lists)[<<s, t>>] = Range(lists[s][t])
    BY DEF Places, Held
  <1>2. lists[s][t] \in Seq(Segments) /\ IsInjective(lists[s][t])
    BY <1>1 DEF ListsType, Owned, NoTwins
  <1>3. i \in Range(lists[s][t]) /\ i \in Segments
    BY <1>2 DEF Range
  <1>4. i \notin Range(pool)
    BY <1>1, <1>3 DEF Owned, Apart
  <1>5. /\ l \in Seq(Segments) /\ IsInjective(l)
        /\ Range(l) = Range(lists[s][t]) \ {i}
    BY <1>2, RemoveRange
  <1>6. /\ pool2 \in Seq(Segments) /\ IsInjective(pool2)
        /\ Range(pool2) = Range(pool) \cup {i}
    BY <1>3, <1>4, AppendRange DEF Owned
  <1> HIDE DEF i, l, pool2
  <1>7. /\ new \in ListsType /\ NoTwins(new)
        /\ Changed(Held(lists), <<s, t>>, Range(l), Held(new))
    <2>1. NoTwins(lists)
      BY DEF Owned
    <2> QED
      BY <2>1, <1>5, ListChanged, Zenon
  <1> HIDE DEF new
  <1>8. Changed(Held(lists), <<s, t>>, Held(lists)[<<s, t>>] \ {i}, Held(new))
    BY <1>1, <1>5, <1>7
  <1>9. Apart(Held(new), Range(pool2))
    <2>1. Apart(Held(lists), Range(pool)) /\ i \in Held(lists)[<<s, t>>]
      BY <1>1, <1>3 DEF Owned
    <2> QED
      BY <2>1, <1>1, <1>6, <1>8, ReturnApart, Zenon
  <1>10. new \in ListsType /\ pool2 \in Seq(Segments) /\ Owned(new, pool2)
    BY <1>6, <1>7, <1>9 DEF Owned
  <1> QED
    BY <1>8, <1>10 DEF new, l, i, pool2

-----------------------------------------------------------------------------
(* The steps *)

\* The slots that ht_insert and ht_find choose from are slots.
LEMMA SlotFound ==
    ASSUME NEW S, S \subseteq Slots, S # {}
    PROVE  Min(S) \in Slots /\ Min(S) \in S
  <1>1. S \subseteq Nat
    BY SizeAssumption DEF Slots
  <1> QED
    BY <1>1, MinIn, Zenon

\* A key has a shard, and a time to live a list in each shard.
LEMMA KeyPlace ==
    ASSUME NEW k \in Keys, NEW ttl \in TTLs
    PROVE  /\ Bucket[k] \in DOMAIN ShardOf /\ ShardOf[Bucket[k]] \in Shards
           /\ ttl_to_bucket(ttl) \in TtlBuckets
           /\ Fp[k] \in Range(Fp)
  BY InputAssumption DEF Shards, TtlBuckets, Range

\* What WriteItem leaves: items and entries of the right kind, every item one
\* that outlives its segment, and no segment relabelled.
Written(segs, segs2) ==
    /\ segs2 \in [Segments -> SegmentType]
    /\ Outlive(segs2)
    /\ \A n \in Segments : /\ segs2[n].ttl_bucket = segs[n].ttl_bucket
                           /\ segs2[n].create_time = segs[n].create_time

\* The writing half of segcache_set, in a segment for the item's time to live
\* that has room.
LEMMA WriteKeeps ==
    ASSUME NEW segs \in [Segments -> SegmentType], NEW i \in Segments,
           NEW k \in Keys, NEW v \in Values, NEW ttl \in TTLs,
           now \in Nat, hash_table \in TableType,
           segs[i].write_offset # SegmentItems, segs[i].ttl_bucket = ttl_to_bucket(ttl),
           Aged(segs, now), Outlive(segs), WriteItem(segs, i, k, v, ttl)
    PROVE  Written(segs, segments') /\ hash_table' \in TableType
  <1> DEFINE off     == segs[i].write_offset
             item    == [key |-> k, value |-> v, until |-> IF ttl = 0 THEN 0 ELSE now + ttl]
             written == [segs EXCEPT ![i].items[off] = item]
             at      == IndexAt(written, k)
             entry   == [fp |-> Fp[k], seg |-> i, off |-> off]
  <1>1. off \in Offsets /\ off + 1 \in 0 .. SegmentItems
    BY SizeAssumption DEF SegmentType, Offsets
  <1>2. ttl \in Nat /\ item \in ItemType
    BY TtlBucket DEF ItemType
  <1>3. entry \in EntryType /\ Bucket[k] \in DOMAIN ShardOf
    BY <1>1, KeyPlace DEF EntryType
  <1>4. Outlives(item, segs[i])
    <2> DEFINE ttl_s == bucket_to_ttl_seconds(ttl_to_bucket(ttl))
    <2>1. ttl_s \in Nat /\ ttl_s <= ttl /\ (ttl # 0 => ttl_s > 0)
      BY TtlBucket
    <2>2. segs[i].create_time \in Nat /\ segs[i].create_time <= now
      BY DEF Aged, SegmentType
    <2> HIDE DEF ttl_s
    <2>3. item.until = 0 \/ (ttl_s > 0 /\ segs[i].create_time + ttl_s <= item.until)
      BY <2>1, <2>2, <1>2
    <2> QED
      BY <2>3 DEF Outlives, ttl_s
  <1>5. Written(segs, written)
    <2>1. segs[i].items \in [Offsets -> ItemType \cup {None}]
      BY DEF SegmentType
    <2>2. written \in [Segments -> SegmentType]
      BY <2>1, <1>1, <1>2 DEF SegmentType
    <2>3. \A n \in Segments : /\ written[n].ttl_bucket = segs[n].ttl_bucket
                              /\ written[n].create_time = segs[n].create_time
      BY DEF SegmentType
    <2>4. \A n \in Segments, o \in Offsets :
              written[n].items[o] = IF n = i /\ o = off THEN item ELSE segs[n].items[o]
      BY <2>1, <1>1 DEF SegmentType
    <2> HIDE DEF written, item, off
    <2>5. Outlive(written)
      BY <2>3, <2>4, <1>4 DEF Outlive, Outlives
    <2> QED
      BY <2>2, <2>3, <2>5 DEF Written
  <1>6. CASE at = {} /\ segments' = written /\ UNCHANGED hash_table
    BY <1>5, <1>6
  <1>7. CASE /\ at # {}
             /\ segments' = [written EXCEPT ![i].write_offset = off + 1]
             /\ hash_table' = [hash_table EXCEPT ![Bucket[k]][Min(at)] = entry]
    <2>1. Min(at) \in Slots
      <3>1. at \subseteq Slots
        BY DEF IndexAt, Matches, FreeSlots
      <3> QED
        BY <3>1, <1>7, SlotFound, Zenon
    <2>2. hash_table' \in TableType
      <3> HIDE DEF at, entry
      <3> QED
        BY <2>1, <1>3, <1>7 DEF TableType
    <2> HIDE DEF written, off
    <2>3. segments' \in [Segments -> SegmentType]
      BY <1>1, <1>5, <1>7, Zenon DEF Written, SegmentType
    <2>4. \A n \in Segments : /\ segments'[n].ttl_bucket = written[n].ttl_bucket
                              /\ segments'[n].create_time = written[n].create_time
                              /\ segments'[n].items = written[n].items
      BY <1>5, <1>7 DEF Written, SegmentType
    <2>5. Outlive(segments')
      BY <2>4, <1>5 DEF Written, Outlive, Outlives
    <2> QED
      BY <2>2, <2>3, <2>4, <2>5, <1>5 DEF Written
  <1> QED
    BY <1>6, <1>7, Zenon DEF WriteItem

\* A segment that is not relabelled stays in a list of its TTL bucket.
LEMMA WrittenSorted ==
    ASSUME NEW lists \in ListsType, NEW segs, NEW segs2, Sorted(lists, segs), Written(segs, segs2)
    PROVE  Sorted(lists, segs2)
  <1>1. \A p \in Places : Held(lists)[p] \subseteq Segments
    BY DEF Held, Places, Range, ListsType
  <1> QED
    BY <1>1 DEF Sorted, Written

\* segcache_set in the first segment of its list.
LEMMA AppendKeeps ==
    ASSUME SegcacheInv, NEW k \in Keys, NEW v \in Values, NEW ttl \in TTLs, set_append(k, v, ttl)
    PROVE  SegcacheInv'
  <1> DEFINE b == ttl_to_bucket(ttl)
             i == Head(TtlList(k, ttl))
             p == <<ShardOf[Bucket[k]], b>>
  <1>1. /\ TypeOK /\ Sorted(ttl_shards, segments)
        /\ Aged(segments, now) /\ Outlive(segments) /\ SegmentsOwnedOnce
    BY DEF SegcacheInv
  <1>2. p \in Places /\ Held(ttl_shards)[p] = Range(TtlList(k, ttl))
    BY KeyPlace DEF Places, Held, TtlList
  <1>3. /\ TtlList(k, ttl) # <<>> /\ segments[i].write_offset # SegmentItems
        /\ WriteItem(segments, i, k, v, ttl)
        /\ UNCHANGED <<ttl_shards, free_queue, now, reaper>>
    BY DEF set_append, NeedSegment
  <1>4. TtlList(k, ttl) \in Seq(Segments)
    BY <1>1, KeyPlace DEF TypeOK, ListsType, TtlList
  <1>5. i \in Segments /\ i \in Range(TtlList(k, ttl))
    <2>1. Head(TtlList(k, ttl)) = TtlList(k, ttl)[1] /\ 1 \in DOMAIN TtlList(k, ttl)
      BY <1>3, <1>4
    <2> QED
      BY <2>1, <1>4 DEF Range
  <1>6. segments[i].ttl_bucket = b
    BY <1>1, <1>2, <1>5 DEF Sorted
  <1> HIDE DEF i, b
  <1>7. Written(segments, segments') /\ hash_table' \in TableType
    BY <1>1, <1>3, <1>5, <1>6, WriteKeeps DEF TypeOK, b
  <1>8. TypeOK'
    BY <1>1, <1>3, <1>7 DEF TypeOK, Written
  <1>9. SegmentsOwnedOnce'
    BY <1>1, <1>3, Zenon DEF SegmentsOwnedOnce, List
  <1>10. Sorted(ttl_shards, segments)'
    BY <1>1, <1>3, <1>7, WrittenSorted DEF TypeOK
  <1>11. Aged(segments, now)' /\ Outlive(segments)'
    BY <1>1, <1>3, <1>7 DEF Written, Aged
  <1> QED
    BY <1>8, <1>9, <1>10, <1>11 DEF SegcacheInv

\* segcache_set in a new segment, cleared and labelled by seg_alloc.
LEMMA AllocKeeps ==
    ASSUME SegcacheInv, NEW k \in Keys, NEW v \in Values, NEW ttl \in TTLs, set_alloc(k, v, ttl)
    PROVE  SegcacheInv'
  <1> DEFINE b     == ttl_to_bucket(ttl)
             sh    == ShardOf[Bucket[k]]
             i     == Head(free_queue)
             fresh == Fresh(b)
             segs  == [segments EXCEPT ![i] = fresh]
             lists == [ttl_shards EXCEPT ![sh][b] = <<i>> \o @]
  <1>1. /\ TypeOK /\ Sorted(ttl_shards, segments)
        /\ Aged(segments, now) /\ Outlive(segments) /\ Owned(ttl_shards, free_queue)
    BY OwnedIsOwnedOnce DEF SegcacheInv
  <1>2. /\ free_queue # <<>> /\ WriteItem(segs, i, k, v, ttl)
        /\ ttl_shards' = lists /\ free_queue' = Tail(free_queue)
        /\ now' = now /\ reaper' = reaper
    BY DEF set_alloc
  <1>3. sh \in Shards /\ b \in TtlBuckets /\ b \in Nat
    BY KeyPlace, TtlBucket
  <1>4. /\ ttl_shards' \in ListsType /\ free_queue' \in Seq(Segments)
        /\ Owned(ttl_shards', free_queue')
        /\ i \in Segments /\ \A p \in Places : i \notin Held(ttl_shards)[p]
        /\ Changed(Held(ttl_shards), <<sh, b>>, Held(ttl_shards)[<<sh, b>>] \cup {i},
                   Held(ttl_shards'))
    BY <1>1, <1>2, <1>3, AllocOwned, Zenon DEF TypeOK
  <1>5. /\ fresh \in SegmentType /\ fresh.write_offset = 0
        /\ fresh.ttl_bucket = b /\ fresh.create_time = now
        /\ \A o \in Offsets : fresh.items[o] = None
    BY <1>1, <1>3, SizeAssumption, SMTT(30) DEF Fresh, SegmentType, TypeOK
  <1> HIDE DEF fresh, i, lists, b, sh
  <1>6. /\ segs \in [Segments -> SegmentType] /\ segs[i] = fresh
        /\ \A n \in Segments \ {i} : segs[n] = segments[n]
    BY <1>1, <1>4, <1>5 DEF TypeOK
  <1> HIDE DEF segs
  <1>7. Aged(segs, now) /\ Outlive(segs)
    BY <1>1, <1>5, <1>6 DEF Aged, Outlive, TypeOK
  <1>8. segs[i].write_offset # SegmentItems /\ segs[i].ttl_bucket = ttl_to_bucket(ttl)
    BY <1>5, <1>6, SizeAssumption, SMTT(30) DEF b
  <1>9. Written(segs, segments') /\ hash_table' \in TableType
    BY <1>1, <1>2, <1>4, <1>6, <1>7, <1>8, WriteKeeps, Zenon DEF TypeOK
  <1>10. Sorted(ttl_shards', segs)
    <2>1. SUFFICES ASSUME NEW p \in Places, NEW n \in Held(ttl_shards')[p]
                   PROVE  segs[n].ttl_bucket = p[2]
      BY DEF Sorted
    <2>2. CASE n = i
      <3>1. p = <<sh, b>>
        BY <2>2, <1>4 DEF Changed
      <3> QED
        BY <2>2, <3>1, <1>5, <1>6
    <2>3. CASE n # i
      <3>1. n \in Held(ttl_shards)[p]
        BY <2>3, <1>4 DEF Changed
      <3>2. n \in Segments
        BY <3>1, <1>1 DEF Held, Places, Range, ListsType, TypeOK
      <3> QED
        BY <2>3, <3>1, <3>2, <1>1, <1>6 DEF Sorted
    <2> QED
      BY <2>2, <2>3
  <1>11. Sorted(ttl_shards', segments')
    BY <1>4, <1>9, <1>10, WrittenSorted
  <1>12. TypeOK'
    BY <1>1, <1>2, <1>4, <1>9 DEF TypeOK, Written
  <1>13. SegmentsOwnedOnce'
    <2>1. (SegmentsOwnedOnce <=> Owned(ttl_shards, free_queue))'
      BY OwnedIsOwnedOnce, PTL
    <2> QED
      BY <2>1, <1>4
  <1>14. Aged(segments', now') /\ Outlive(segments')
    BY <1>2, <1>7, <1>9 DEF Written, Aged
  <1> QED
    BY <1>11, <1>12, <1>13, <1>14 DEF SegcacheInv

\* What a lookup finds: a slot of k's bucket whose entry leads to an item of k.
LEMMA Found ==
    ASSUME TypeOK, NEW k \in Keys, Matches(segments, k) # {}
    PROVE  /\ Min(Matches(segments, k)) \in Slots
           /\ Min(Matches(segments, k)) \in Matches(segments, k)
           /\ Entry(k) \in EntryType
           /\ Item(segments, Entry(k)) # None /\ Item(segments, Entry(k)).key = k
  <1> DEFINE s == Min(Matches(segments, k))
  <1>1. s \in Slots /\ s \in Matches(segments, k)
    <2>1. Matches(segments, k) \subseteq Slots
      BY DEF Matches
    <2> QED
      BY <2>1, SlotFound
  <1> HIDE DEF s
  <1>2. /\ hash_table[Bucket[k]][s] # None
        /\ Item(segments, hash_table[Bucket[k]][s]) # None
        /\ Item(segments, hash_table[Bucket[k]][s]).key = k
    BY <1>1 DEF Matches
  <1>3. hash_table[Bucket[k]][s] \in EntryType
    BY <1>1, <1>2, InputAssumption DEF TypeOK, TableType
  <1> QED
    BY <1>1, <1>2, <1>3 DEF Entry, s

\* Lookups and deletes only empty a slot of the index.
LEMMA UnindexKeeps ==
    ASSUME SegcacheInv, NEW k \in Keys, Matches(segments, k) # {}, Unindex(k)
    PROVE  SegcacheInv'
  <1>1. TypeOK /\ Min(Matches(segments, k)) \in Slots /\ Bucket[k] \in DOMAIN ShardOf
    BY Found, InputAssumption DEF SegcacheInv
  <1>2. TypeOK'
    BY <1>1 DEF TypeOK, TableType, Unindex
  <1> QED
    BY <1>2 DEF SegcacheInv, Unindex, SegmentsOwnedOnce, List

\* The reaper returns an expired segment, wherever it is in its list.
LEMMA ReapKeeps ==
    ASSUME SegcacheInv, reap_segment
    PROVE  SegcacheInv'
  <1>1. /\ TypeOK /\ Sorted(ttl_shards, segments)
        /\ Aged(segments, now) /\ Outlive(segments) /\ Owned(ttl_shards, free_queue)
    BY OwnedIsOwnedOnce DEF SegcacheInv
  <1> DEFINE sh       == reaper.shard
             list(b)  == ttl_shards[sh][b]
             j(b)     == Min(Expired(b))
  <1>2. PICK b \in TtlBuckets :
            /\ Expired(b) # {}
            /\ ttl_shards' = [ttl_shards EXCEPT ![sh][b] = Unlink(list(b), j(b))]
            /\ free_queue' = Append(free_queue, list(b)[j(b)])
    BY Zenon DEF reap_segment
  <1>3. /\ reaper \in [shard : Shards, time : Nat, locked : BOOLEAN]
        /\ reaper' = [reaper EXCEPT !.locked = TRUE]
        /\ UNCHANGED <<hash_table, segments, now>>
    BY <1>1 DEF reap_segment, TypeOK
  <1>4. sh \in Shards /\ list(b) \in Seq(Segments)
    BY <1>1, <1>3 DEF TypeOK, ListsType
  <1>5. j(b) \in DOMAIN list(b)
    <2>1. Expired(b) \subseteq DOMAIN list(b) /\ DOMAIN list(b) \subseteq Nat
      BY <1>4 DEF Expired
    <2> QED
      BY <2>1, <1>2, MinIn
  <1>6. /\ ttl_shards' \in ListsType /\ free_queue' \in Seq(Segments)
        /\ Owned(ttl_shards', free_queue')
        /\ Changed(Held(ttl_shards), <<sh, b>>, Held(ttl_shards)[<<sh, b>>] \ {list(b)[j(b)]},
                   Held(ttl_shards'))
    <2> HIDE DEF sh, j
    <2> QED
      BY <1>1, <1>2, <1>4, <1>5, ReapOwned, Zenon DEF TypeOK
  <1>7. TypeOK'
    BY <1>1, <1>3, <1>6, Zenon DEF TypeOK
  <1>8. Sorted(ttl_shards', segments')
    <2>1. \A p \in Places : Held(ttl_shards')[p] \subseteq Held(ttl_shards)[p]
      BY <1>6 DEF Changed
    <2> QED
      BY <2>1, <1>1, <1>3 DEF Sorted
  <1>9. SegmentsOwnedOnce'
    <2>1. (SegmentsOwnedOnce <=> Owned(ttl_shards, free_queue))'
      BY OwnedIsOwnedOnce, PTL
    <2> QED
      BY <2>1, <1>6
  <1>10. Aged(segments', now') /\ Outlive(segments')
    BY <1>1, <1>3
  <1> QED
    BY <1>7, <1>8, <1>9, <1>10 DEF SegcacheInv

\* The reaper's way through the shards, and the clock.
LEMMA ReaperKeeps ==
    ASSUME SegcacheInv, reap_start \/ reap_next \/ Tick \/ UNCHANGED vars
    PROVE  SegcacheInv'
  <1>1. TypeOK /\ UNCHANGED <<hash_table, ttl_shards, segments, free_queue>>
    BY DEF SegcacheInv, reap_start, reap_next, Tick, vars
  <1>2. now' \in Nat /\ now <= now'
    BY <1>1 DEF TypeOK, reap_start, reap_next, Tick, vars
  <1>3. reaper' = Idle \/ reaper' \in [shard : Shards, time : Nat, locked : BOOLEAN]
    <2>1. CASE reap_start
      BY <2>1, <1>1, InputAssumption DEF reap_start, TypeOK, Shards
    <2>2. CASE reap_next
      BY <2>2, <1>1, Zenon DEF reap_next, TypeOK
    <2>3. CASE Tick \/ UNCHANGED vars
      BY <2>3, <1>1 DEF Tick, vars, TypeOK
    <2> QED
      BY <2>1, <2>2, <2>3
  <1>4. TypeOK'
    BY <1>1, <1>2, <1>3 DEF TypeOK
  <1>5. Aged(segments', now')
    <2>1. \A i \in Segments : segments[i].create_time \in Nat /\ segments[i].create_time <= now
      BY <1>1 DEF TypeOK, SegmentType, SegcacheInv, Aged
    <2> QED
      BY <2>1, <1>1, <1>2 DEF Aged, TypeOK
  <1>6. SegmentsOwnedOnce'
    BY <1>1 DEF SegcacheInv, SegmentsOwnedOnce, List
  <1> QED
    BY <1>1, <1>4, <1>5, <1>6 DEF SegcacheInv

\* segcache_create: all segments are in the pool and empty.
LEMMA InitInv == Init => SegcacheInv
  <1> SUFFICES ASSUME Init PROVE SegcacheInv
    OBVIOUS
  <1>1. segments \in [Segments -> SegmentType]
    BY SizeAssumption DEF Init, Fresh, SegmentType
  <1>2. free_queue \in Seq(Segments) /\ free_queue = [i \in Segments |-> i]
    BY SizeAssumption DEF Init, Segments
  <1>3. TypeOK
    <2>1. hash_table \in TableType
      BY DEF Init, TableType
    <2>2. ttl_shards \in ListsType
      BY DEF Init, ListsType
    <2> QED
      BY <2>1, <2>2, <1>1, <1>2, Zenon DEF Init, TypeOK
  <1>4. \A p \in Places : List(p) = <<>>
    BY DEF Init, Places, List
  <1>5. Range(<<>>) = {} /\ IsInjective(<<>>)
    BY DEF Range, IsInjective
  <1>6. Range(free_queue) = Segments /\ IsInjective(free_queue)
    BY <1>2 DEF Range, IsInjective
  <1>7. UNION {Range(List(p)) : p \in Places} = {}
    BY <1>4, <1>5
  <1>8. SegmentsOwnedOnce
    BY <1>4, <1>5, <1>6, <1>7 DEF SegmentsOwnedOnce
  <1>9. Sorted(ttl_shards, segments)
    BY <1>4, <1>5 DEF Sorted, Held, List
  <1>10. Aged(segments, now) /\ Outlive(segments)
    BY DEF Init, Aged, Outlive, Fresh
  <1> QED
    BY <1>3, <1>8, <1>9, <1>10 DEF SegcacheInv

\* Every step of any thread.
LEMMA SegcacheStep == SegcacheInv /\ [Next]_vars => SegcacheInv'
  <1> SUFFICES ASSUME SegcacheInv, [Next]_vars PROVE SegcacheInv'
    OBVIOUS
  <1>1. ASSUME NEW k \in Keys, NEW v \in Values, NEW ttl \in TTLs, segcache_set(k, v, ttl)
        PROVE  SegcacheInv'
    BY <1>1, AppendKeeps, AllocKeeps, ReaperKeeps DEF segcache_set, set_no_segment
  <1>2. ASSUME NEW k \in Keys, segcache_get(k) \/ segcache_del(k)
        PROVE  SegcacheInv'
    BY <1>2, UnindexKeeps DEF segcache_get, segcache_del
  <1>3. CASE reap_start \/ segcache_expire_segments \/ Tick \/ UNCHANGED vars
    BY <1>3, ReapKeeps, ReaperKeeps DEF segcache_expire_segments
  <1> QED
    BY <1>1, <1>2, <1>3 DEF Next

\* The invariant holds always.
LEMMA SegcacheInvariant == Spec => []SegcacheInv
  BY InitInv, SegcacheStep, PTL DEF Spec

-----------------------------------------------------------------------------

(***************************************************************************)
(* A segment is in the pool or in one list, once, for any number of shards *)
(* and segments: mpsc_enqueue by the reaper and seg_alloc by the shards    *)
(* never let two shards write into one segment.                            *)
(***************************************************************************)
THEOREM OneOwnerPerSegment == Spec => []SegmentsOwnedOnce
  BY SegcacheInvariant, PTL DEF SegcacheInv

(***************************************************************************)
(* A lookup finds an item of its own key that has not outlived the time to *)
(* live it was set with, although index entries outlive the segments they  *)
(* point into and segments are reused for other times to live.             *)
(***************************************************************************)
THEOREM ServedInTime == Spec => []NeverServedLate
  <1>1. ASSUME SegcacheInv, NEW k \in Keys, Lookup(k) # None
        PROVE  Lookup(k).key = k /\ (Lookup(k).until = 0 \/ now < Lookup(k).until)
    <2> DEFINE i     == Entry(k).seg
               o     == Entry(k).off
               item  == segments[i].items[o]
               ttl_s == bucket_to_ttl_seconds(segments[i].ttl_bucket)
    <2>1. TypeOK /\ Outlive(segments)
      BY <1>1 DEF SegcacheInv
    <2>2. Matches(segments, k) # {} /\ ~ExpiredAt(i, now) /\ Lookup(k) = item
      BY <1>1 DEF Lookup, Item
    <2>3. Entry(k) \in EntryType /\ item # None /\ item.key = k
      BY <2>1, <2>2, Found DEF Item
    <2>4. i \in Segments /\ o \in Offsets
      BY <2>3 DEF EntryType
    <2>5. item.until = 0 \/ (ttl_s > 0 /\ segments[i].create_time + ttl_s <= item.until)
      BY <2>1, <2>3, <2>4 DEF Outlive, Outlives
    <2>6. ~(ttl_s > 0 /\ segments[i].create_time + ttl_s <= now)
      BY <2>2 DEF ExpiredAt, Expires
    <2>7. /\ segments[i].create_time \in Nat /\ segments[i].ttl_bucket \in Nat
          /\ item \in ItemType /\ now \in Nat
      BY <2>1, <2>3, <2>4 DEF TypeOK, SegmentType
    <2>8. ttl_s \in Nat
      BY <2>7 DEF bucket_to_ttl_seconds
    <2>9. item.until \in Nat
      BY <2>7 DEF ItemType
    <2> HIDE DEF ttl_s, item
    <2>10. item.until = 0 \/ now < item.until
      BY <2>5, <2>6, <2>7, <2>8, <2>9
    <2> QED
      BY <2>2, <2>3, <2>10
  <1>2. SegcacheInv => NeverServedLate
    BY <1>1 DEF NeverServedLate
  <1> QED
    BY <1>2, SegcacheInvariant, PTL

(***************************************************************************)
(* Deleting a key, or looking it up when it has expired, does not change   *)
(* what any other key has: segcache_del and ht_find compare whole keys     *)
(* before they clear an occupancy bit.                                     *)
(***************************************************************************)
THEOREM OneKeyUnindexed == Spec => OthersUntouched
  <1>1. ASSUME SegcacheInv, NEW k \in Keys, segcache_del(k) \/ segcache_get(k),
               NEW other \in Keys \ {k}
        PROVE  Lookup(other)' = Lookup(other)
    <2> DEFINE s     == Min(Matches(segments, k))
               table == hash_table[Bucket[other]]
               then  == hash_table'[Bucket[other]]
    <2>1. Matches(segments, k) # {} /\ Unindex(k) /\ TypeOK
      BY <1>1 DEF segcache_del, segcache_get, SegcacheInv
    <2>2. s \in Slots /\ s \in Matches(segments, k)
      BY <2>1, Found
    <2>3. hash_table' = [hash_table EXCEPT ![Bucket[k]][s] = None]
      BY <2>1 DEF Unindex
    <2>4. segments' = segments /\ now' = now
      BY <2>1 DEF Unindex
    <2> HIDE DEF s
    <2>5. Bucket[k] \in DOMAIN ShardOf /\ Bucket[other] \in DOMAIN ShardOf
      BY InputAssumption
    <2>6. ASSUME NEW r \in Slots
          PROVE  then[r] = IF Bucket[other] = Bucket[k] /\ r = s THEN None ELSE table[r]
      BY <2>1, <2>2, <2>3, <2>5 DEF TypeOK, TableType
    <2>7. ASSUME NEW r \in Slots, Bucket[other] = Bucket[k], r = s
          PROVE  Item(segments, table[r]).key # other
      BY <2>2, <2>7 DEF Matches
    <2>8. Matches(segments, other)' = Matches(segments, other)
      <3>1. ASSUME NEW r \in Slots
            PROVE  (/\ then[r] # None /\ then[r].fp = Fp[other]
                    /\ Item(segments, then[r]) # None /\ Item(segments, then[r]).key = other)
                   <=> (/\ table[r] # None /\ table[r].fp = Fp[other]
                        /\ Item(segments, table[r]) # None /\ Item(segments, table[r]).key = other)
        BY <2>6, <2>7
      <3> QED
        BY <3>1, <2>4, Zenon DEF Matches, Item
    <2>9. CASE Matches(segments, other) = {}
      BY <2>8, <2>9 DEF Lookup
    <2>10. CASE Matches(segments, other) # {}
      <3> DEFINE m == Min(Matches(segments, other))
      <3>1. m \in Slots /\ Item(segments, table[m]).key = other
        BY <2>1, <2>10, Found DEF Entry
      <3>2. then[m] = table[m]
        BY <3>1, <2>6, <2>7
      <3>3. Entry(other)' = Entry(other)
        BY <3>2, <2>8 DEF Entry
      <3> QED
        BY <3>3, <2>4, <2>8 DEF Lookup, ExpiredAt, Expires, Item
    <2> QED
      BY <2>9, <2>10
  <1>2. ASSUME SegcacheInv, [Next]_vars
        PROVE  [\A k \in Keys : segcache_del(k) \/ segcache_get(k) =>
                    \A other \in Keys \ {k} : Lookup(other)' = Lookup(other)]_vars
    BY <1>1, <1>2
  <1> QED
    BY <1>2, SegcacheInvariant, PTL DEF Spec, OthersUntouched
=============================================================================
