-------------------------------- MODULE CRDT --------------------------------
(***************************************************************************)
(* The replicated types of crdt/crdt.c: G-Counter, PN-Counter, OR-Set and  *)
(* LWW-Register.  Every node updates its own replica of one key (the GINCR,*)
(* PNINCR, ORSET and LWW commands of t_hash.c) and merges copies of other  *)
(* nodes' replicas, which may be old, repeated or skipped.                 *)
(*                                                                         *)
(* The code has the merges but no channel yet: a node merges the replica   *)
(* of another as it is, or a copy kept back by publish, any number of      *)
(* times.                                                                  *)
(***************************************************************************)
EXTENDS Integers, Sequences, FiniteSets, FiniteSetsExt, Functions

CONSTANTS
    Nodes,         \* node ids, self_node
    MaxCount,      \* UINT64_MAX
    Deltas,        \* increments of the counters
    Elements,      \* elements of the sets
    TagSpace,      \* 2^32, the width of next_tag in the serialized set
    MaxTime,       \* bound on the wall clocks
    MaxUpdates     \* bound on the updates of all nodes together

ASSUME CountAssumption ==
    /\ MaxCount \in Nat \ {0}
    /\ Deltas \subseteq 0 .. MaxCount
    /\ Nodes \subseteq Nat
    /\ TagSpace \in Nat /\ MaxTime \in Nat

VARIABLES
    type,          \* which of the types the key holds
    replica,       \* node -> its data, and the number of updates of each node in it
    copy,          \* an old copy of a replica, still on its way
    log            \* auxiliary: node -> its updates, in order, each with the time or
                   \* the tag it was given and the updates its node had seen

vars == <<type, replica, copy, log>>

Types == {"GCOUNTER", "PNCOUNTER", "ORSET", "LWW"}

-----------------------------------------------------------------------------
(* Counters *)

Zero == [i \in Nodes |-> 0]

saturating(value, delta) == IF delta > MaxCount - value THEN MaxCount ELSE value + delta

gcounter_increment(g, n, delta) == [g EXCEPT ![n] = saturating(@, delta)]

\* Mutation: the counts of the two replicas are added up.
MutMergeAdds(dst, src) == [i \in Nodes |-> saturating(dst[i], src[i])]

gcounter_merge(dst, src) == [i \in Nodes |-> Max({dst[i], src[i]})]

\* uint64_t arithmetic
gcounter_value(g) == SumFunction(g) % (MaxCount + 1)

pncounter_increment(p, n, delta) == [p EXCEPT !.positive[n] = saturating(@, delta)]
pncounter_decrement(p, n, delta) == [p EXCEPT !.negative[n] = saturating(@, delta)]

pncounter_merge(dst, src) ==
    [positive |-> gcounter_merge(dst.positive, src.positive),
     negative |-> gcounter_merge(dst.negative, src.negative)]

pncounter_value(p) == (SumFunction(p.positive) - SumFunction(p.negative)) % (MaxCount + 1)

-----------------------------------------------------------------------------
(* OR-Set: entries are identified by tag and origin.  A command reads the  *)
(* set from its serialized form, changes it and serializes it again.       *)

orset_add(s, n, v) ==
    [entries  |-> s.entries \cup {[value |-> v, tag |-> s.next_tag, origin |-> n, removed |-> FALSE]},
     next_tag |-> (s.next_tag + 1) % TagSpace]

orset_remove(s, v) ==
    [s EXCEPT !.entries = {[e EXCEPT !.removed = e.removed \/ e.value = v] : e \in s.entries}]

orset_contains(s, v) == \E e \in s.entries : e.value = v /\ ~e.removed

SameTag(d, e) == d.tag = e.tag /\ d.origin = e.origin

\* Mutation: the state of the copy replaces the state of the entry.
MutMergeOverwrites(dst, src) ==
    [dst EXCEPT !.entries =
        {d \in @ : ~\E e \in src.entries : SameTag(d, e)} \cup src.entries]

orset_merge(dst, src) ==
    [dst EXCEPT !.entries =
        {[d EXCEPT !.removed = d.removed \/ \E e \in src.entries : SameTag(d, e) /\ e.removed] :
            d \in dst.entries}
        \cup {e \in src.entries : ~\E d \in dst.entries : SameTag(d, e)}]

-----------------------------------------------------------------------------
(* LWW-Register.  Its vector clock is written and merged but never read.   *)

lww_set(r, v, now) == [r EXCEPT !.value = {v}, !.timestamp_us = now]

\* Mutation: the timestamp stays with the old value.
MutMergeKeepsTime(dst, src) ==
    IF src.timestamp_us > dst.timestamp_us THEN [src EXCEPT !.timestamp_us = dst.timestamp_us] ELSE dst

lww_merge(dst, src) ==
    IF \/ src.timestamp_us > dst.timestamp_us
       \/ src.timestamp_us = dst.timestamp_us /\ src.node_id > dst.node_id
    THEN src ELSE dst

-----------------------------------------------------------------------------

\* The replica node n creates for the first command on the key.  A register
\* made by lww_callback has node id 0, one made by lww_create the node's own.
Created(t, n, own_id) ==
    CASE t = "GCOUNTER" -> Zero
      [] t = "PNCOUNTER" -> [positive |-> Zero, negative |-> Zero]
      [] t = "ORSET" -> [entries |-> {}, next_tag |-> 1]
      [] t = "LWW" -> [value |-> {}, timestamp_us |-> 0, node_id |-> IF own_id THEN n ELSE 0]

Init ==
    /\ type \in Types
    /\ \E own_id \in BOOLEAN :
           replica = [n \in Nodes |-> [data |-> Created(type, n, own_id), seen |-> Zero]]
    /\ copy \in Range(replica)
    /\ log = [n \in Nodes |-> <<>>]

Written == SumFunction([n \in Nodes |-> Len(log[n])])

\* A command of a client of node n changes the node's replica.  The bounds are
\* on the updates of all nodes, and on those of n, so that no tag is used twice.
update(n, data, op, arg, stamp) ==
    /\ Written < MaxUpdates /\ Len(log[n]) + 2 < TagSpace
    /\ replica' = [replica EXCEPT ![n] = [data |-> data, seen |-> [replica[n].seen EXCEPT ![n] = @ + 1]]]
    /\ log' = [log EXCEPT ![n] = Append(@, [op |-> op, arg |-> arg, stamp |-> stamp, seen |-> replica[n].seen])]
    /\ UNCHANGED <<type, copy>>

gincrCommand(n) ==
    /\ type = "GCOUNTER"
    /\ \E d \in Deltas : update(n, gcounter_increment(replica[n].data, n, d), "incr", d, 0)

pnincrCommand(n) ==
    /\ type = "PNCOUNTER"
    /\ \E d \in Deltas :
           \/ update(n, pncounter_increment(replica[n].data, n, d), "incr", d, 0)
           \/ update(n, pncounter_decrement(replica[n].data, n, d), "decr", d, 0)

orsetAddCommand(n) ==
    /\ type = "ORSET"
    /\ \E v \in Elements : update(n, orset_add(replica[n].data, n, v), "add", v, replica[n].data.next_tag)

orsetRemoveCommand(n) ==
    /\ type = "ORSET"
    /\ \E v \in Elements : update(n, orset_remove(replica[n].data, v), "remove", v, 0)

\* The wall clocks of the nodes are not synchronised and may be set back.
\* Every write has a value of its own.
lwwSetCommand(n) ==
    /\ type = "LWW"
    /\ \E now \in 1 .. MaxTime :
           LET v == <<n, Len(log[n])>> IN update(n, lww_set(replica[n].data, v, now), "set", v, now)

publish(n) ==
    /\ copy' = replica[n]
    /\ UNCHANGED <<type, replica, log>>

Merged(dst, src) ==
    CASE type = "GCOUNTER" -> gcounter_merge(dst, src)
      [] type = "PNCOUNTER" -> pncounter_merge(dst, src)
      [] type = "ORSET" -> orset_merge(dst, src)
      [] type = "LWW" -> lww_merge(dst, src)

Later(a, b) == [i \in Nodes |-> Max({a[i], b[i]})]

merge(n, src) ==
    /\ replica' = [replica EXCEPT ![n] =
           [data |-> Merged(@.data, src.data), seen |-> Later(@.seen, src.seen)]]
    /\ UNCHANGED <<type, copy, log>>

Next ==
    \E n \in Nodes :
        \/ gincrCommand(n) \/ pnincrCommand(n) \/ orsetAddCommand(n) \/ orsetRemoveCommand(n)
        \/ lwwSetCommand(n) \/ publish(n)
        \/ merge(n, copy)
        \/ \E m \in Nodes : merge(n, replica[m])

Spec == Init /\ [][Next]_vars

-----------------------------------------------------------------------------

\* The updates of node i, of kind op, that are part of n's replica.
Seen(n, i, op) == {k \in 1 .. replica[n].seen[i] : log[i][k].op = op}

Counts == [Nodes -> 0 .. MaxCount]
Entries == [value : Elements, tag : Nat, origin : Nodes, removed : BOOLEAN]

HasType(t, data) ==
    /\ t = "GCOUNTER" => data \in Counts
    /\ t = "PNCOUNTER" => data \in [positive : Counts, negative : Counts]
    /\ t = "ORSET" => data \in [entries : SUBSET Entries, next_tag : Nat]
    /\ t = "LWW" => data \in [value : SUBSET (Nodes \X Nat), timestamp_us : Nat, node_id : Nat]

Updates ==
    [op : {"incr", "decr", "add", "remove", "set"}, arg : Deltas \cup Elements \cup (Nodes \X Nat),
     stamp : Nat, seen : [Nodes -> Nat]]

\* The shape of the state.
TypeOK ==
    /\ type \in Types
    /\ log \in [Nodes -> Seq(Updates)]
    /\ DOMAIN replica = Nodes
    /\ \A n \in Nodes : HasType(type, replica[n].data) /\ replica[n].seen \in [Nodes -> Nat]
    /\ HasType(type, copy.data) /\ copy.seen \in [Nodes -> Nat]

\* What node i has counted, as far as n knows: at most UINT64_MAX.
Counted(n, i, op) ==
    LET sum == MapThenSumSet(LAMBDA k : log[i][k].arg, Seen(n, i, op))
    IN  IF sum > MaxCount THEN MaxCount ELSE sum

(***************************************************************************)
(* A counter shows every increment that has reached it, once: its value is *)
(* the sum of the updates it has seen, whatever copies were merged, how    *)
(* often and in which order (gcounter_merge, pncounter_merge).             *)
(***************************************************************************)
ExactCount ==
    \A n \in Nodes :
        LET incr == [i \in Nodes |-> Counted(n, i, "incr")]
            decr == [i \in Nodes |-> Counted(n, i, "decr")]
        IN  /\ type = "GCOUNTER" => gcounter_value(replica[n].data) = SumFunction(incr) % (MaxCount + 1)
            /\ type = "PNCOUNTER" =>
                   pncounter_value(replica[n].data) = (SumFunction(incr) - SumFunction(decr)) % (MaxCount + 1)

(***************************************************************************)
(* The OR-Set: a replica contains v exactly when it has seen an add of v   *)
(* that no remove it has seen had seen.  A concurrent add survives, and a  *)
(* removed one does not come back with an old copy.                        *)
(***************************************************************************)
ObservedRemove ==
    type = "ORSET" => \A n \in Nodes, v \in Elements :
        orset_contains(replica[n].data, v) <=>
            \E i \in Nodes : \E k \in Seen(n, i, "add") :
                /\ log[i][k].arg = v
                /\ \A j \in Nodes : \A l \in Seen(n, j, "remove") :
                       log[j][l].arg = v => log[j][l].seen[i] < k

\* The writes of the register n has seen.
Writes(n) == UNION {{<<i, k>> : k \in Seen(n, i, "set")} : i \in Nodes}
Time(w) == log[w[1]][w[2]].stamp

\* Clocks agree well enough: no two writes have the same time, and a write
\* is later than the writes its node had seen.
ClocksAgree ==
    \A i, j \in Nodes : \A k \in DOMAIN log[i], l \in DOMAIN log[j] :
        /\ <<i, k>> # <<j, l>> => Time(<<i, k>>) # Time(<<j, l>>)
        /\ l <= log[i][k].seen[j] => Time(<<j, l>>) < Time(<<i, k>>)

(***************************************************************************)
(* The register: as long as the clocks agree, a replica holds the latest   *)
(* of the writes it has seen, so replicas with the same writes agree.      *)
(***************************************************************************)
LastWriteWins ==
    type = "LWW" /\ ClocksAgree => \A n \in Nodes : \A w \in Writes(n) :
        (\A x \in Writes(n) : Time(x) <= Time(w)) => replica[n].data.value = {log[w[1]][w[2]].arg}
=============================================================================
