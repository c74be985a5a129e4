----------------------------- MODULE CRDTViews -----------------------------
(***************************************************************************)
(* The data that a set of updates makes: what an OR-Set and an LWW register*)
(* of crdt.c hold when the updates counted in a vector have been seen.     *)
(* That stays so when logs grow, when replicas are merged and when a       *)
(* command is added; CRDTProofs rests on it.                               *)
(***************************************************************************)
EXTENDS CRDT, TLAPS

Logs == [Nodes -> Seq(Updates)]
Vectors == [Nodes -> Nat]

\* The updates of L seen in s were made, and what they had seen is seen.
Known(L, s) ==
    \A i \in Nodes :
        /\ s[i] <= Len(L[i])
        /\ \A k \in 1 .. s[i] : \A j \in Nodes : L[i][k].seen[j] <= s[j]

\* The adds of a node have different tags.
TagsDiffer(L) ==
    \A i \in Nodes : \A k, l \in DOMAIN L[i] :
        L[i][k].op = "add" /\ L[i][l].op = "add" /\ L[i][k].stamp = L[i][l].stamp => k = l

\* Entry e was made by update k of its origin.
AddOf(L, e, k) ==
    /\ L[e.origin][k].op = "add"
    /\ L[e.origin][k].arg = e.value
    /\ L[e.origin][k].stamp = e.tag

\* A remove of v, seen in s, had seen update k of node i.
Removed(L, s, i, k, v) ==
    \E j \in Nodes : \E l \in 1 .. s[j] :
        L[j][l].op = "remove" /\ L[j][l].arg = v /\ k <= L[j][l].seen[i]

\* The entries D of a set are the adds seen in s, one for each, removed when a
\* remove seen in s had seen the add.
OrsetView(L, D, s) ==
    /\ \A e \in D : \E k \in 1 .. s[e.origin] : AddOf(L, e, k)
    /\ \A i \in Nodes : \A k \in 1 .. s[i] :
           L[i][k].op = "add" => \E e \in D : e.origin = i /\ AddOf(L, e, k)
    /\ \A d, e \in D : SameTag(d, e) => d = e
    /\ \A e \in D : \A k \in 1 .. s[e.origin] :
           AddOf(L, e, k) => (e.removed <=> Removed(L, s, e.origin, k, e.value))

\* A register that has seen a write holds the latest one.
LwwView(L, data, s) ==
    \/ data.value = {} /\ data.timestamp_us = 0 /\ \A i \in Nodes : s[i] = 0
    \/ \E i \in Nodes : \E k \in 1 .. s[i] :
           /\ data.value = {L[i][k].arg} /\ data.timestamp_us = L[i][k].stamp
           /\ \A j \in Nodes : \A l \in 1 .. s[j] : L[j][l].stamp <= L[i][k].stamp

Writing(L) == \A i \in Nodes : \A k \in DOMAIN L[i] : L[i][k].op = "set" /\ L[i][k].stamp > 0

\* ClocksAgree, of the logs L.
Agree(L) ==
    \A i, j \in Nodes : \A k \in DOMAIN L[i], l \in DOMAIN L[j] :
        /\ <<i, k>> # <<j, l>> => L[i][k].stamp # L[j][l].stamp
        /\ l <= L[i][k].seen[j] => L[j][l].stamp < L[i][k].stamp

\* Updates are appended to the logs.
Grows(L, M) ==
    \A i \in Nodes : /\ Len(L[i]) <= Len(M[i])
                     /\ \A k \in 1 .. Len(L[i]) : M[i][k] = L[i][k]

\* s is followed by t when n makes the update M[n][t[n]].
Follows(L, M, n, s, t) ==
    /\ Grows(L, M) /\ Known(L, s) /\ s[n] = Len(L[n])
    /\ t[n] = s[n] + 1 /\ \A i \in Nodes : i # n => t[i] = s[i]

\* The entries D once orset_remove has removed v.
Marked(D, v) == {[e EXCEPT !.removed = e.removed \/ e.value = v] : e \in D}

-----------------------------------------------------------------------------
(* Maxima, counts and remainders                                           *)

\* The larger of two counts.
LEMMA MaxOfTwo ==
    ASSUME NEW a \in Nat, NEW b \in Nat
    PROVE  Max({a, b}) = IF a >= b THEN a ELSE b
<1>1. \E x \in {a, b} : \A y \in {a, b} : x >= y OBVIOUS
<1>2. Max({a, b}) \in {a, b} /\ \A y \in {a, b} : Max({a, b}) >= y BY <1>1, Zenon DEF Max
<1> QED BY <1>2

\* A number below the modulus.
LEMMA SmallMod ==
    ASSUME NEW a \in Nat, NEW m \in Nat, a < m
    PROVE  a % m = a
OBVIOUS

\* Later is the least upper bound of what two replicas have seen.
LEMMA LaterFacts ==
    ASSUME NEW s \in [Nodes -> Nat], NEW t \in [Nodes -> Nat]
    PROVE  /\ Later(s, t) \in [Nodes -> Nat]
           /\ \A i \in Nodes : /\ s[i] <= Later(s, t)[i] /\ t[i] <= Later(s, t)[i]
                               /\ Later(s, t)[i] = s[i] \/ Later(s, t)[i] = t[i]
<1>1. \A i \in Nodes : Max({s[i], t[i]}) = IF s[i] >= t[i] THEN s[i] ELSE t[i] BY MaxOfTwo
<1> QED BY <1>1 DEF Later

\* A count stays a count.
LEMMA CountAdded ==
    ASSUME NEW g \in Counts, NEW n \in Nodes, NEW d \in Deltas
    PROVE  [g EXCEPT ![n] = saturating(@, d)] \in Counts
<1>1. g[n] \in 0 .. MaxCount /\ d \in 0 .. MaxCount /\ MaxCount \in Nat BY CountAssumption DEF Counts
<1>2. saturating(g[n], d) \in 0 .. MaxCount BY <1>1 DEF saturating
<1> QED BY <1>2 DEF Counts

\* What a merge makes has the type of its parts.
LEMMA MergedType ==
    ASSUME type \in Types, NEW dst, NEW src, HasType(type, dst), HasType(type, src)
    PROVE  HasType(type, Merged(dst, src))
<1>1. ASSUME NEW f \in Counts, NEW g \in Counts PROVE gcounter_merge(f, g) \in Counts
  <2>1. \A i \in Nodes : f[i] \in Nat /\ g[i] \in Nat /\ f[i] \in 0 .. MaxCount /\ g[i] \in 0 .. MaxCount
    BY CountAssumption DEF Counts
  <2>2. \A i \in Nodes : Max({f[i], g[i]}) = IF f[i] >= g[i] THEN f[i] ELSE g[i] BY <2>1, MaxOfTwo
  <2>3. \A i \in Nodes : Max({f[i], g[i]}) \in 0 .. MaxCount BY <2>1, <2>2
  <2> QED BY <2>3 DEF gcounter_merge, Counts
<1>2. CASE type = "GCOUNTER" BY <1>1, <1>2 DEF HasType, Merged
<1>3. CASE type = "PNCOUNTER"
  <2>1. /\ dst.positive \in Counts /\ dst.negative \in Counts
        /\ src.positive \in Counts /\ src.negative \in Counts
    BY <1>3 DEF HasType
  <2>2. pncounter_merge(dst, src) \in [positive : Counts, negative : Counts]
    BY <1>1, <2>1 DEF pncounter_merge
  <2> QED BY <1>3, <2>2 DEF HasType, Merged
<1>4. CASE type = "ORSET"
  <2> DEFINE D == dst.entries
             S == src.entries
             Met(d) == [d EXCEPT !.removed = d.removed \/ \E e \in S : SameTag(d, e) /\ e.removed]
             M == {Met(d) : d \in D} \cup {e \in S : ~\E d \in D : SameTag(d, e)}
  <2>1. dst \in [entries : SUBSET Entries, next_tag : Nat] /\ D \in SUBSET Entries /\ S \in SUBSET Entries
    BY <1>4 DEF HasType
  <2>2. orset_merge(dst, src) = [dst EXCEPT !.entries = M] BY DEF orset_merge
  <2>3. \A d \in D : Met(d) \in Entries BY <2>1 DEF Entries
  <2>4. M \in SUBSET Entries BY <2>1, <2>3
  <2> HIDE DEF M
  <2>5. orset_merge(dst, src) \in [entries : SUBSET Entries, next_tag : Nat] BY <2>1, <2>2, <2>4
  <2> QED BY <1>4, <2>5 DEF HasType, Merged
<1>5. CASE type = "LWW" BY <1>5 DEF HasType, Merged, lww_merge
<1> QED BY <1>2, <1>3, <1>4, <1>5 DEF Types

-----------------------------------------------------------------------------
(* Logs that grow                                                          *)

\* The updates seen stay the same.
LEMMA SeenKept ==
    ASSUME NEW L \in Logs, NEW M \in Logs, Grows(L, M), NEW s \in Vectors, Known(L, s)
    PROVE  \A i \in Nodes : \A k \in 1 .. s[i] : M[i][k] = L[i][k] /\ k \in 1 .. Len(L[i])
<1>1. \A i \in Nodes : Len(L[i]) \in Nat /\ s[i] \in Nat BY DEF Logs, Vectors
<1> QED BY <1>1 DEF Grows, Known

\* So does what they had seen.
LEMMA KnownKept ==
    ASSUME NEW L \in Logs, NEW M \in Logs, Grows(L, M), NEW s \in Vectors, Known(L, s)
    PROVE  Known(M, s)
<1>1. \A i \in Nodes : Len(L[i]) \in Nat /\ Len(M[i]) \in Nat /\ s[i] \in Nat BY DEF Logs, Vectors
<1>2. \A i \in Nodes : s[i] <= Len(M[i]) BY <1>1 DEF Grows, Known
<1>3. \A i \in Nodes : \A k \in 1 .. s[i] : \A j \in Nodes : M[i][k].seen[j] <= s[j]
  BY SeenKept DEF Known
<1> QED BY <1>2, <1>3, Zenon DEF Known

\* And the set those updates make.
LEMMA OrsetKept ==
    ASSUME NEW L \in Logs, NEW M \in Logs, Grows(L, M), NEW s \in Vectors, Known(L, s),
           NEW D \in SUBSET Entries, OrsetView(L, D, s)
    PROVE  OrsetView(M, D, s)
<1>1. \A i \in Nodes : \A k \in 1 .. s[i] : M[i][k] = L[i][k] BY SeenKept
<1>2. \A e \in D : e.origin \in Nodes BY DEF Entries
<1>3. \A e \in D : \A k \in 1 .. s[e.origin] : AddOf(M, e, k) <=> AddOf(L, e, k)
  BY <1>1, <1>2, Zenon DEF AddOf
<1>4. \A i, k, v : Removed(M, s, i, k, v) <=> Removed(L, s, i, k, v) BY <1>1 DEF Removed
<1>5. \A e \in D : \E k \in 1 .. s[e.origin] : AddOf(M, e, k) BY <1>3, Zenon DEF OrsetView
<1>6. \A i \in Nodes : \A k \in 1 .. s[i] :
          M[i][k].op = "add" => \E e \in D : e.origin = i /\ AddOf(M, e, k)
  BY <1>1, <1>3 DEF OrsetView
<1>7. \A e \in D : \A k \in 1 .. s[e.origin] :
          AddOf(M, e, k) => (e.removed <=> Removed(M, s, e.origin, k, e.value))
  BY <1>3, <1>4, Zenon DEF OrsetView
<1>8. \A d, e \in D : SameTag(d, e) => d = e BY Zenon DEF OrsetView
<1> QED BY <1>5, <1>6, <1>7, <1>8, Zenon DEF OrsetView

\* And the register.
LEMMA LwwKept ==
    ASSUME NEW L \in Logs, NEW M \in Logs, Grows(L, M), NEW s \in Vectors, Known(L, s),
           NEW data, LwwView(L, data, s)
    PROVE  LwwView(M, data, s)
<1>1. \A i \in Nodes : \A k \in 1 .. s[i] : M[i][k] = L[i][k] BY SeenKept
<1> QED BY <1>1 DEF LwwView

\* Clocks that agree on more writes agree on these.
LEMMA AgreeBefore ==
    ASSUME NEW L \in Logs, NEW M \in Logs, Grows(L, M), Agree(M)
    PROVE  Agree(L)
<1>1. \A i \in Nodes : /\ DOMAIN L[i] = 1 .. Len(L[i]) /\ DOMAIN M[i] = 1 .. Len(M[i])
                       /\ Len(L[i]) \in Nat /\ Len(M[i]) \in Nat
  BY DEF Logs
<1>2. \A i \in Nodes : \A k \in DOMAIN L[i] : k \in DOMAIN M[i] /\ M[i][k] = L[i][k]
  BY <1>1 DEF Grows
<1> QED BY <1>2 DEF Agree

-----------------------------------------------------------------------------
(* Merges                                                                  *)

\* What two replicas know, one of them knows after a merge.
LEMMA KnownMerged ==
    ASSUME NEW L \in Logs, NEW s \in Vectors, NEW t \in Vectors, Known(L, s), Known(L, t)
    PROVE  Known(L, Later(s, t))
<1> DEFINE m == Later(s, t)
<1>1. /\ m \in Vectors
      /\ \A i \in Nodes : /\ s[i] <= m[i] /\ t[i] <= m[i]
                          /\ m[i] = s[i] \/ m[i] = t[i]
  BY LaterFacts, Zenon DEF Vectors
<1> HIDE DEF m
<1>2. \A i \in Nodes : s[i] \in Nat /\ t[i] \in Nat /\ m[i] \in Nat BY <1>1 DEF Vectors
<1>3. \A i \in Nodes : m[i] <= Len(L[i]) BY <1>1 DEF Known
<1>4. ASSUME NEW i \in Nodes, NEW k \in 1 .. m[i], NEW j \in Nodes
      PROVE  L[i][k].seen[j] <= m[j]
  <2>1. k \in 1 .. Len(L[i]) /\ Len(L[i]) \in Nat BY <1>2, <1>3 DEF Logs
  <2>2. L[i][k].seen[j] \in Nat
    <3>1. L[i][k] \in Updates BY <2>1 DEF Logs
    <3> QED BY <3>1 DEF Updates
  <2>3. L[i][k].seen[j] <= s[j] \/ L[i][k].seen[j] <= t[j] BY <1>1 DEF Known
  <2> QED BY <1>1, <1>2, <2>2, <2>3
<1>5. Known(L, m) BY <1>3, <1>4, Zenon DEF Known
<1> QED BY <1>5 DEF m

\* A merged set is the set of the updates that were seen on either side: an
\* entry that only one of them has was not seen, and so not removed, by the other.
LEMMA OrsetMerged ==
    ASSUME NEW L \in Logs, TagsDiffer(L), NEW s \in Vectors, NEW t \in Vectors,
           Known(L, s), Known(L, t),
           NEW D \in SUBSET Entries, NEW S \in SUBSET Entries, OrsetView(L, D, s), OrsetView(L, S, t),
           NEW dst, dst.entries = D, NEW src, src.entries = S, NEW next,
           dst = [entries |-> D, next_tag |-> next]
    PROVE  OrsetView(L, orset_merge(dst, src).entries, Later(s, t))
<1> DEFINE Gone(d) == d.removed \/ \E e \in S : SameTag(d, e) /\ e.removed
           Met(d)  == [d EXCEPT !.removed = Gone(d)]
           New(e)  == ~\E d \in D : SameTag(d, e)
           M == {Met(d) : d \in D} \cup {e \in S : New(e)}
           m == Later(s, t)
<1>1. orset_merge(dst, src).entries = M BY DEF orset_merge
<1>2. /\ m \in Vectors
      /\ \A i \in Nodes : /\ s[i] <= m[i] /\ t[i] <= m[i]
                          /\ m[i] = s[i] \/ m[i] = t[i]
  BY LaterFacts, Zenon DEF Vectors
<1> HIDE DEF m
<1>3. \A i \in Nodes : s[i] \in Nat /\ t[i] \in Nat /\ m[i] \in Nat BY <1>2 DEF Vectors
<1>4. \A i \in Nodes : \A k : k \in 1 .. m[i] <=> k \in 1 .. s[i] \/ k \in 1 .. t[i] BY <1>2, <1>3
<1>5. \A d \in D : /\ d \in Entries /\ d.origin \in Nodes
                   /\ Met(d).value = d.value /\ Met(d).tag = d.tag /\ Met(d).origin = d.origin
                   /\ Met(d).removed = Gone(d)
  BY DEF Entries
<1>6. \A e \in S : e \in Entries /\ e.origin \in Nodes BY DEF Entries
<1>7. \A d \in D : \A k : AddOf(L, Met(d), k) <=> AddOf(L, d, k) BY <1>5, Zenon DEF AddOf
<1>8. \A i \in Nodes : \A k \in 1 .. m[i] : k \in DOMAIN L[i]
  <2>1. \A i \in Nodes : m[i] <= Len(L[i]) BY <1>2 DEF Known
  <2>2. \A i \in Nodes : Len(L[i]) \in Nat /\ DOMAIN L[i] = 1 .. Len(L[i]) BY DEF Logs
  <2> QED BY <1>3, <2>1, <2>2
\* The update that made an entry.
<1>9. ASSUME NEW d, NEW e, d.origin \in Nodes, SameTag(d, e),
             NEW k \in 1 .. m[d.origin], NEW l \in 1 .. m[d.origin], AddOf(L, d, k), AddOf(L, e, l)
      PROVE  k = l /\ d.value = e.value
  <2>1. d.origin = e.origin /\ d.tag = e.tag BY <1>9 DEF SameTag
  <2>2. k = l BY <1>8, <1>9, <2>1 DEF AddOf, TagsDiffer
  <2> QED BY <1>9, <2>1, <2>2 DEF AddOf
<1>10. \A i, k, v : Removed(L, m, i, k, v) <=> Removed(L, s, i, k, v) \/ Removed(L, t, i, k, v)
  BY <1>4 DEF Removed
\* A side that has seen a remove of an add has seen the add.
<1>11. ASSUME NEW r \in {s, t}, NEW i \in Nodes, NEW k \in 1 .. m[i], NEW v, Removed(L, r, i, k, v)
       PROVE  k \in 1 .. r[i]
  <2>1. PICK j \in Nodes : \E l \in 1 .. r[j] : k <= L[j][l].seen[i] BY <1>11 DEF Removed
  <2>2. PICK l \in 1 .. r[j] : k <= L[j][l].seen[i] BY <2>1
  <2>3. L[j][l].seen[i] <= r[i] BY <2>2 DEF Known
  <2>4. L[j][l].seen[i] \in Nat
    <3>1. l \in DOMAIN L[j] BY <1>4, <1>8
    <3>2. L[j][l] \in Updates BY <3>1 DEF Logs
    <3> QED BY <3>2 DEF Updates
  <2> QED BY <1>3, <2>2, <2>3, <2>4
\* Every entry has its add.
<1>12. ASSUME NEW e \in M PROVE \E k \in 1 .. m[e.origin] : AddOf(L, e, k)
  <2>1. CASE \E d \in D : e = Met(d)
    <3>1. PICK d \in D : e = Met(d) BY <2>1, Zenon
    <3>2. PICK k \in 1 .. s[d.origin] : AddOf(L, d, k) BY DEF OrsetView
    <3> QED BY <1>4, <1>5, <1>7, <3>1, <3>2
  <2>2. CASE e \in S
    <3>1. PICK k \in 1 .. t[e.origin] : AddOf(L, e, k) BY <2>2 DEF OrsetView
    <3> QED BY <1>4, <1>6, <2>2, <3>1
  <2> QED BY <2>1, <2>2
\* Every add has its entry.
<1>13. ASSUME NEW i \in Nodes, NEW k \in 1 .. m[i], L[i][k].op = "add"
       PROVE  \E e \in M : e.origin = i /\ AddOf(L, e, k)
  <2>1. CASE k \in 1 .. s[i]
    <3>1. PICK d \in D : d.origin = i /\ AddOf(L, d, k) BY <1>13, <2>1 DEF OrsetView
    <3>2. Met(d) \in M /\ Met(d).origin = i /\ AddOf(L, Met(d), k) BY <1>5, <1>7, <3>1, Zenon
    <3> QED BY <3>2, Zenon
  <2>2. CASE k \in 1 .. t[i]
    <3>1. PICK e \in S : e.origin = i /\ AddOf(L, e, k) BY <1>13, <2>2 DEF OrsetView
    <3>2. CASE New(e) BY <3>1, <3>2
    <3>3. CASE ~New(e)
      <4>1. PICK d \in D : SameTag(d, e) BY <3>3
      <4>2. PICK l \in 1 .. s[d.origin] : AddOf(L, d, l) BY DEF OrsetView
      <4>3. d.origin = i BY <3>1, <4>1 DEF SameTag
      <4>4. k = l BY <1>4, <1>9, <3>1, <4>1, <4>2, <4>3
      <4>5. Met(d) \in M /\ Met(d).origin = i /\ AddOf(L, Met(d), k) BY <1>5, <1>7, <4>2, <4>3, <4>4, Zenon
      <4> QED BY <4>5, Zenon
    <3> QED BY <3>2, <3>3
  <2> QED BY <1>4, <2>1, <2>2
\* One entry for each.
<1>14. ASSUME NEW x \in M, NEW y \in M, SameTag(x, y) PROVE x = y
  <2>1. CASE (\E d \in D : x = Met(d)) /\ (\E d \in D : y = Met(d))
    <3>1. PICK c \in D, d \in D : x = Met(c) /\ y = Met(d) BY <2>1, Zenon
    <3>2. SameTag(c, d) BY <1>5, <1>14, <3>1 DEF SameTag
    <3>3. c = d BY <3>2 DEF OrsetView
    <3> QED BY <3>1, <3>3
  <2>2. CASE x \in S /\ y \in S BY <1>14, <2>2 DEF OrsetView
  <2>3. ASSUME NEW d \in D, NEW e \in S, New(e) PROVE ~SameTag(Met(d), e) /\ ~SameTag(e, Met(d))
    BY <1>5, <2>3 DEF SameTag
  <2> QED BY <1>14, <2>1, <2>2, <2>3
\* Removed on one side or the other.
<1>15. ASSUME NEW x \in M, NEW k \in 1 .. m[x.origin], AddOf(L, x, k)
       PROVE  x.removed <=> Removed(L, m, x.origin, k, x.value)
  <2> DEFINE i == x.origin
             v == x.value
  <2>1. CASE \E d \in D : x = Met(d)
    <3>1. PICK d \in D : x = Met(d) BY <2>1, Zenon
    <3>2. d.origin = i /\ d.value = v /\ i \in Nodes /\ AddOf(L, d, k) BY <1>5, <1>7, <1>15, <3>1
    <3>3. PICK l \in 1 .. s[i] : AddOf(L, d, l) BY <3>2 DEF OrsetView
    <3>4. k = l BY <1>4, <1>9, <1>15, <3>2, <3>3 DEF SameTag
    <3>5. d.removed <=> Removed(L, s, i, k, v) BY <3>2, <3>3, <3>4 DEF OrsetView
    <3>6. ASSUME NEW e \in S, SameTag(d, e), e.removed PROVE Removed(L, t, i, k, v)
      <4>1. e.origin = i BY <3>2, <3>6 DEF SameTag
      <4>2. PICK j \in 1 .. t[i] : AddOf(L, e, j) BY <4>1 DEF OrsetView
      <4>3. j = k /\ e.value = v BY <1>4, <1>9, <1>15, <3>2, <3>6, <4>2
      <4> QED BY <3>6, <4>1, <4>2, <4>3 DEF OrsetView
    <3>7. ASSUME Removed(L, t, i, k, v) PROVE \E e \in S : SameTag(d, e) /\ e.removed
      <4>1. k \in 1 .. t[i] BY <1>11, <1>15, <3>2, <3>7
      <4>0. L[i][k].op = "add" BY <3>2 DEF AddOf
      <4>2. PICK e \in S : e.origin = i /\ AddOf(L, e, k) BY <3>2, <4>0, <4>1 DEF OrsetView
      <4>3. SameTag(d, e) /\ e.value = v BY <3>2, <4>2 DEF AddOf, SameTag
      <4>4. e.removed BY <3>7, <4>1, <4>2, <4>3 DEF OrsetView
      <4> QED BY <4>3, <4>4
    <3>8. x.removed <=> Gone(d) BY <1>5, <3>1, Zenon
    <3> QED BY <1>10, <3>5, <3>6, <3>7, <3>8
  <2>2. CASE x \in S /\ New(x)
    <3>1. i \in Nodes BY <1>6, <2>2
    <3>2. PICK l \in 1 .. t[i] : AddOf(L, x, l) BY <2>2 DEF OrsetView
    <3>3. k = l BY <1>4, <1>9, <1>15, <3>1, <3>2 DEF SameTag
    <3>4. x.removed <=> Removed(L, t, i, k, v) BY <2>2, <3>2, <3>3 DEF OrsetView
    <3>5. ~Removed(L, s, i, k, v)
      <4> SUFFICES ASSUME Removed(L, s, i, k, v) PROVE FALSE OBVIOUS
      <4>1. k \in 1 .. s[i] BY <1>11, <1>15, <3>1
      <4>0. L[i][k].op = "add" BY <1>15 DEF AddOf
      <4>2. PICK d \in D : d.origin = i /\ AddOf(L, d, k) BY <3>1, <4>0, <4>1 DEF OrsetView
      <4>3. SameTag(d, x) BY <1>15, <4>2 DEF AddOf, SameTag
      <4> QED BY <2>2, <4>3
    <3> QED BY <1>10, <3>4, <3>5
  <2> QED BY <2>1, <2>2
<1>16. OrsetView(L, M, m) BY <1>12, <1>13, <1>14, <1>15, Zenon DEF OrsetView
<1> QED BY <1>1, <1>16, Zenon DEF m

\* A merged register holds the latest of the writes that were seen on either side.
LEMMA LwwMerged ==
    ASSUME NEW L \in Logs, Writing(L), NEW s \in Vectors, NEW t \in Vectors,
           Known(L, s), Known(L, t), NEW dst, NEW src, LwwView(L, dst, s), LwwView(L, src, t)
    PROVE  LwwView(L, lww_merge(dst, src), Later(s, t))
<1> DEFINE m == Later(s, t)
           d == lww_merge(dst, src)
           Latest(i, k, r) == \A j \in Nodes : \A l \in 1 .. r[j] : L[j][l].stamp <= L[i][k].stamp
<1>1. /\ m \in Vectors
      /\ \A i \in Nodes : /\ s[i] <= m[i] /\ t[i] <= m[i]
                          /\ m[i] = s[i] \/ m[i] = t[i]
  BY LaterFacts, Zenon DEF Vectors
<1> HIDE DEF m
<1>2. \A i \in Nodes : s[i] \in Nat /\ t[i] \in Nat /\ m[i] \in Nat BY <1>1 DEF Vectors
<1>3. \A i \in Nodes : \A k : k \in 1 .. m[i] <=> k \in 1 .. s[i] \/ k \in 1 .. t[i] BY <1>1, <1>2
<1>4. \A i \in Nodes : \A k \in 1 .. m[i] : L[i][k].stamp \in Nat /\ L[i][k].stamp > 0
  <2>1. \A i \in Nodes : m[i] <= Len(L[i]) BY <1>1 DEF Known
  <2>2. \A i \in Nodes : Len(L[i]) \in Nat /\ DOMAIN L[i] = 1 .. Len(L[i]) BY DEF Logs
  <2>3. \A i \in Nodes : \A k \in 1 .. m[i] : k \in DOMAIN L[i] BY <1>2, <2>1, <2>2
  <2>4. \A i \in Nodes : \A k \in DOMAIN L[i] : L[i][k] \in Updates BY DEF Logs
  <2>5. \A u \in Updates : u.stamp \in Nat BY DEF Updates
  <2> QED BY <2>3, <2>4, <2>5, Zenon DEF Writing
<1>5. (src.timestamp_us > dst.timestamp_us => d = src) /\ (d = src \/ d = dst)
  BY DEF lww_merge
<1>6. ASSUME src.timestamp_us \in Nat, dst.timestamp_us \in Nat,
             dst.timestamp_us > src.timestamp_us
      PROVE  d = dst
  BY <1>6 DEF lww_merge
<1> HIDE DEF d
\* The later one of two registers that were written.
<1>7. ASSUME NEW i \in Nodes, NEW k \in 1 .. m[i],
             d.value = {L[i][k].arg}, d.timestamp_us = L[i][k].stamp, Latest(i, k, s), Latest(i, k, t)
      PROVE  LwwView(L, d, m)
  <2>1. Latest(i, k, m) BY <1>3, <1>7
  <2> QED BY <1>7, <2>1 DEF LwwView
<1>8. CASE /\ dst.value = {} /\ dst.timestamp_us = 0 /\ \A i \in Nodes : s[i] = 0
           /\ src.value = {} /\ src.timestamp_us = 0 /\ \A i \in Nodes : t[i] = 0
  <2>1. \A i \in Nodes : m[i] = 0 BY <1>1, <1>8
  <2>2. d.value = {} /\ d.timestamp_us = 0 BY <1>5, <1>8
  <2>3. LwwView(L, d, m) BY <2>1, <2>2 DEF LwwView
  <2> QED BY <2>3 DEF d, m
<1>9. ASSUME NEW i \in Nodes, NEW k \in 1 .. t[i],
             src.value = {L[i][k].arg}, src.timestamp_us = L[i][k].stamp, Latest(i, k, t),
             dst.timestamp_us = 0, \A j \in Nodes : s[j] = 0
      PROVE  LwwView(L, d, m)
  <2>1. k \in 1 .. m[i] BY <1>3
  <2>2. d = src BY <1>4, <1>5, <1>9, <2>1
  <2>3. Latest(i, k, s) BY <1>9
  <2> QED BY <1>7, <1>9, <2>1, <2>2, <2>3
<1>10. ASSUME NEW i \in Nodes, NEW k \in 1 .. s[i],
              dst.value = {L[i][k].arg}, dst.timestamp_us = L[i][k].stamp, Latest(i, k, s),
              src.timestamp_us = 0, \A j \in Nodes : t[j] = 0
       PROVE  LwwView(L, d, m)
  <2>1. k \in 1 .. m[i] BY <1>3
  <2>2. d = dst BY <1>4, <1>6, <1>10, <2>1
  <2>3. Latest(i, k, t) BY <1>10
  <2> QED BY <1>7, <1>10, <2>1, <2>2, <2>3
<1>11. ASSUME NEW i \in Nodes, NEW k \in 1 .. s[i],
              dst.value = {L[i][k].arg}, dst.timestamp_us = L[i][k].stamp, Latest(i, k, s),
              NEW j \in Nodes, NEW l \in 1 .. t[j],
              src.value = {L[j][l].arg}, src.timestamp_us = L[j][l].stamp, Latest(j, l, t)
       PROVE  LwwView(L, d, m)
  <2>1. k \in 1 .. m[i] /\ l \in 1 .. m[j] BY <1>3
  <2>2. L[i][k].stamp \in Nat /\ L[j][l].stamp \in Nat BY <1>4, <2>1
  <2>3. CASE d = src /\ L[i][k].stamp <= L[j][l].stamp
    <3>1. Latest(j, l, s)
      <4> SUFFICES ASSUME NEW a \in Nodes, NEW b \in 1 .. s[a] PROVE L[a][b].stamp <= L[j][l].stamp
        OBVIOUS
      <4>1. L[a][b].stamp \in Nat BY <1>3, <1>4
      <4>2. L[a][b].stamp <= L[i][k].stamp BY <1>11
      <4> QED BY <2>2, <2>3, <4>1, <4>2
    <3> QED BY <1>7, <1>11, <2>1, <2>3, <3>1
  <2>4. CASE d = dst /\ L[j][l].stamp <= L[i][k].stamp
    <3>1. Latest(i, k, t)
      <4> SUFFICES ASSUME NEW a \in Nodes, NEW b \in 1 .. t[a] PROVE L[a][b].stamp <= L[i][k].stamp
        OBVIOUS
      <4>1. L[a][b].stamp \in Nat BY <1>3, <1>4
      <4>2. L[a][b].stamp <= L[j][l].stamp BY <1>11
      <4> QED BY <2>2, <2>4, <4>1, <4>2
    <3> QED BY <1>7, <1>11, <2>1, <2>4, <3>1
  <2> QED BY <1>5, <1>6, <1>11, <2>2, <2>3, <2>4
<1> DEFINE Empty(data, r) ==
               data.value = {} /\ data.timestamp_us = 0 /\ \A i \in Nodes : r[i] = 0
           Holds(data, r, i, k) ==
               data.value = {L[i][k].arg} /\ data.timestamp_us = L[i][k].stamp /\ Latest(i, k, r)
<1>12. /\ Empty(dst, s) \/ \E i \in Nodes : \E k \in 1 .. s[i] : Holds(dst, s, i, k)
       /\ Empty(src, t) \/ \E i \in Nodes : \E k \in 1 .. t[i] : Holds(src, t, i, k)
  BY Zenon DEF LwwView
<1>13. LwwView(L, d, m) BY <1>8, <1>9, <1>10, <1>11, <1>12, Zenon DEF d, m
<1> QED BY <1>13 DEF d, m

-----------------------------------------------------------------------------
(* Updates                                                                 *)

\* An add makes one entry, which no remove has seen.
LEMMA OrsetAdded ==
    ASSUME NEW L \in Logs, NEW M \in Logs, NEW n \in Nodes, NEW s \in Vectors, NEW t \in Vectors,
           Follows(L, M, n, s, t), NEW D \in SUBSET Entries, OrsetView(L, D, s),
           NEW x \in Entries, x.origin = n, ~x.removed, AddOf(M, x, t[n]),
           \A k \in DOMAIN L[n] : L[n][k].op = "add" => L[n][k].stamp < x.tag
    PROVE  OrsetView(M, D \cup {x}, t)
<1>1. OrsetView(M, D, s) /\ Known(M, s) BY OrsetKept, KnownKept DEF Follows
<1>2. \A i \in Nodes : s[i] \in Nat /\ t[i] \in Nat BY DEF Vectors
<1>3. \A i \in Nodes : \A k : k \in 1 .. t[i] <=> k \in 1 .. s[i] \/ (i = n /\ k = t[n])
  BY <1>2 DEF Follows
<1>4. \A k \in 1 .. s[n] : M[n][k].op = "add" => M[n][k].stamp # x.tag
  <2>1. \A k \in 1 .. s[n] : M[n][k] = L[n][k] BY SeenKept DEF Follows
  <2>2. \A k \in 1 .. s[n] : k \in DOMAIN L[n] BY DEF Follows, Logs
  <2>3. \A k \in DOMAIN L[n] : L[n][k].stamp \in Nat
    <3>1. \A k \in DOMAIN L[n] : L[n][k] \in Updates BY DEF Logs
    <3> QED BY <3>1 DEF Updates
  <2>4. x.tag \in Nat BY DEF Entries
  <2> QED BY <2>1, <2>2, <2>3, <2>4
<1>5. \A d \in D : d.origin \in Nodes BY DEF Entries
<1>6. \A d \in D : ~SameTag(d, x) /\ ~SameTag(x, d)
  <2> SUFFICES ASSUME NEW d \in D, d.tag = x.tag, d.origin = n PROVE FALSE BY DEF SameTag
  <2>1. PICK k \in 1 .. s[n] : AddOf(M, d, k) BY <1>1 DEF OrsetView
  <2> QED BY <1>4, <2>1 DEF AddOf
<1>7. \A i, k, v : Removed(M, t, i, k, v) <=> Removed(M, s, i, k, v)
  <2>1. M[n][t[n]].op # "remove" BY DEF AddOf
  <2> QED BY <1>3, <2>1 DEF Removed
<1>8. \A e \in D \cup {x} : \E k \in 1 .. t[e.origin] : AddOf(M, e, k)
  <2>1. \A e \in D : \E k \in 1 .. s[e.origin] : AddOf(M, e, k) BY <1>1, Zenon DEF OrsetView
  <2> QED BY <1>3, <1>5, <2>1
<1>9. ASSUME NEW i \in Nodes, NEW k \in 1 .. t[i], M[i][k].op = "add"
      PROVE  \E e \in D \cup {x} : e.origin = i /\ AddOf(M, e, k)
  <2>1. CASE k \in 1 .. s[i]
    <3>1. PICK e \in D : e.origin = i /\ AddOf(M, e, k) BY <1>1, <1>9, <2>1 DEF OrsetView
    <3> QED BY <3>1
  <2>2. CASE i = n /\ k = t[n] BY <2>2
  <2> QED BY <1>3, <2>1, <2>2
<1>10. \A d, e \in D \cup {x} : SameTag(d, e) => d = e
  <2>1. \A d, e \in D : SameTag(d, e) => d = e BY <1>1, Zenon DEF OrsetView
  <2> QED BY <1>6, <2>1
<1>11. ASSUME NEW e \in D, NEW k \in 1 .. t[e.origin], AddOf(M, e, k)
       PROVE  e.removed <=> Removed(M, t, e.origin, k, e.value)
  <2>1. k \in 1 .. s[e.origin]
    <3> SUFFICES ASSUME e.origin = n, k = t[n] PROVE FALSE BY <1>3, <1>5
    <3>1. e.tag = x.tag BY <1>11 DEF AddOf
    <3> QED BY <1>6, <3>1 DEF SameTag
  <2>2. e.removed <=> Removed(M, s, e.origin, k, e.value) BY <1>1, <1>11, <2>1 DEF OrsetView
  <2> QED BY <1>7, <2>2
<1>12. ASSUME NEW k \in 1 .. t[n], AddOf(M, x, k), Removed(M, s, n, k, x.value) PROVE FALSE
  <2>1. k = t[n] BY <1>3, <1>4, <1>12 DEF AddOf
  <2>2. PICK j \in Nodes : \E l \in 1 .. s[j] : t[n] <= M[j][l].seen[n] BY <1>12, <2>1 DEF Removed
  <2>3. PICK l \in 1 .. s[j] : t[n] <= M[j][l].seen[n] BY <2>2
  <2>4. M[j][l].seen[n] <= s[n] BY <1>1, <2>3 DEF Known
  <2>5. M[j][l].seen[n] \in Nat
    <3>1. l \in DOMAIN M[j]
      <4>1. s[j] <= Len(M[j]) BY <1>1 DEF Known
      <4> QED BY <1>2, <4>1 DEF Logs
    <3>2. M[j][l] \in Updates BY <3>1 DEF Logs
    <3> QED BY <3>2 DEF Updates
  <2> QED BY <1>2, <2>3, <2>4, <2>5 DEF Follows
<1>13. \A e \in D \cup {x} : \A k \in 1 .. t[e.origin] :
           AddOf(M, e, k) => (e.removed <=> Removed(M, t, e.origin, k, e.value))
  BY <1>7, <1>11, <1>12
<1> QED BY <1>8, <1>9, <1>10, <1>13, Zenon DEF OrsetView

\* A remove marks the entries of the value, all of which it has seen.
LEMMA OrsetMarked ==
    ASSUME NEW L \in Logs, NEW M \in Logs, NEW n \in Nodes, NEW s \in Vectors, NEW t \in Vectors,
           Follows(L, M, n, s, t), NEW D \in SUBSET Entries, OrsetView(L, D, s), NEW v,
           M[n][t[n]].op = "remove", M[n][t[n]].arg = v, M[n][t[n]].seen = s
    PROVE  OrsetView(M, Marked(D, v), t)
<1> DEFINE Mark(e) == [e EXCEPT !.removed = e.removed \/ e.value = v]
           E == {Mark(e) : e \in D}
<1>1. OrsetView(M, D, s) BY OrsetKept DEF Follows
<1>2. \A i \in Nodes : s[i] \in Nat /\ t[i] \in Nat BY DEF Vectors
<1>3. \A i \in Nodes : \A k : k \in 1 .. t[i] <=> k \in 1 .. s[i] \/ (i = n /\ k = t[n])
  BY <1>2 DEF Follows
<1>4. \A e \in D : /\ e.origin \in Nodes
                   /\ Mark(e).value = e.value /\ Mark(e).tag = e.tag /\ Mark(e).origin = e.origin
                   /\ Mark(e).removed = (e.removed \/ e.value = v)
  BY DEF Entries
<1>5. \A e \in D : \A k : AddOf(M, Mark(e), k) <=> AddOf(M, e, k) BY <1>4, Zenon DEF AddOf
<1>6. \A i \in Nodes : \A k, w :
          Removed(M, t, i, k, w) <=> Removed(M, s, i, k, w) \/ (w = v /\ k <= s[i])
  BY <1>3 DEF Removed
<1>7. ASSUME NEW e \in E PROVE \E k \in 1 .. t[e.origin] : AddOf(M, e, k)
  <2>1. PICK d \in D : e = Mark(d) OBVIOUS
  <2>2. PICK k \in 1 .. s[d.origin] : AddOf(M, d, k) BY <1>1 DEF OrsetView
  <2> QED BY <1>3, <1>4, <1>5, <2>1, <2>2
<1>8. ASSUME NEW i \in Nodes, NEW k \in 1 .. t[i], M[i][k].op = "add"
      PROVE  \E e \in E : e.origin = i /\ AddOf(M, e, k)
  <2>1. k \in 1 .. s[i] BY <1>3, <1>8
  <2>2. PICK d \in D : d.origin = i /\ AddOf(M, d, k) BY <1>1, <1>8, <2>1 DEF OrsetView
  <2>3. Mark(d) \in E /\ Mark(d).origin = i /\ AddOf(M, Mark(d), k) BY <1>4, <1>5, <2>2, SMTT(20)
  <2> QED BY <2>3, Zenon
<1>9. ASSUME NEW x \in E, NEW y \in E, SameTag(x, y) PROVE x = y
  <2>1. PICK c \in D, d \in D : x = Mark(c) /\ y = Mark(d) OBVIOUS
  <2>2. SameTag(c, d) BY <1>4, <1>9, <2>1 DEF SameTag
  <2>3. c = d BY <1>1, <2>2 DEF OrsetView
  <2> QED BY <2>1, <2>3
<1>10. ASSUME NEW x \in E, NEW k \in 1 .. t[x.origin], AddOf(M, x, k)
       PROVE  x.removed <=> Removed(M, t, x.origin, k, x.value)
  <2>1. PICK d \in D : x = Mark(d) OBVIOUS
  <2>2. /\ d.origin = x.origin /\ d.value = x.value /\ d.origin \in Nodes /\ AddOf(M, d, k)
        /\ x.removed <=> d.removed \/ d.value = v
    BY <1>4, <1>5, <1>10, <2>1, Zenon
  <2>3. k \in 1 .. s[d.origin]
    <3>1. M[d.origin][k].op = "add" BY <2>2 DEF AddOf
    <3> QED BY <1>3, <1>10, <2>2, <3>1
  <2>4. d.removed <=> Removed(M, s, d.origin, k, d.value) BY <1>1, <2>2, <2>3 DEF OrsetView
  <2>5. k <= s[d.origin] BY <1>2, <2>2, <2>3
  <2> QED BY <1>6, <2>2, <2>4, <2>5
<1>11. OrsetView(M, E, t) BY <1>7, <1>8, <1>9, <1>10, Zenon DEF OrsetView
<1> QED BY <1>11 DEF Marked

\* A write later than those seen is the latest one.
LEMMA LwwWritten ==
    ASSUME NEW M \in Logs, NEW n \in Nodes, NEW s \in Vectors, NEW t \in Vectors,
           t[n] = s[n] + 1, \A i \in Nodes : i # n => t[i] = s[i], Known(M, t),
           \A i \in Nodes : \A k \in 1 .. s[i] : M[i][k].stamp < M[n][t[n]].stamp,
           NEW data, data.value = {M[n][t[n]].arg}, data.timestamp_us = M[n][t[n]].stamp
    PROVE  LwwView(M, data, t)
<1>1. \A i \in Nodes : s[i] \in Nat /\ t[i] \in Nat BY DEF Vectors
<1>2. \A i \in Nodes : \A k : k \in 1 .. t[i] <=> k \in 1 .. s[i] \/ (i = n /\ k = t[n]) BY <1>1
<1>3. \A i \in Nodes : \A k \in 1 .. t[i] : M[i][k].stamp \in Nat
  <2>1. \A i \in Nodes : t[i] <= Len(M[i]) BY DEF Known
  <2>2. \A i \in Nodes : \A k \in 1 .. t[i] : k \in DOMAIN M[i] BY <1>1, <2>1 DEF Logs
  <2>3. \A i \in Nodes : \A k \in DOMAIN M[i] : M[i][k] \in Updates BY DEF Logs
  <2>4. \A u \in Updates : u.stamp \in Nat BY DEF Updates
  <2> QED BY <2>2, <2>3, <2>4, Zenon
<1>4. \A i \in Nodes : \A k \in 1 .. t[i] : M[i][k].stamp <= M[n][t[n]].stamp BY <1>2, <1>3
<1>5. t[n] \in 1 .. t[n] BY <1>1
<1> QED BY <1>4, <1>5, Zenon DEF LwwView

\* Two sets that the same updates make are one.
LEMMA OneSet ==
    ASSUME NEW L, NEW s, NEW D \in SUBSET Entries, NEW E \in SUBSET Entries,
           OrsetView(L, D, s), OrsetView(L, E, s)
    PROVE  D \subseteq E
<1> SUFFICES ASSUME NEW d \in D PROVE d \in E
  OBVIOUS
<1>1. d \in Entries /\ d.origin \in Nodes BY DEF Entries
<1>2. PICK k \in 1 .. s[d.origin] : AddOf(L, d, k) BY Zenon DEF OrsetView
<1>3. L[d.origin][k].op = "add" BY <1>2 DEF AddOf
<1>4. PICK e \in E : e.origin = d.origin /\ AddOf(L, e, k) BY <1>1, <1>2, <1>3, Zenon DEF OrsetView
<1>5. e.value = d.value /\ e.tag = d.tag BY <1>2, <1>4, Zenon DEF AddOf
<1>6. e.removed <=> d.removed BY <1>2, <1>4, <1>5, Zenon DEF OrsetView
<1>7. d = e BY <1>1, <1>4, <1>5, <1>6 DEF Entries
<1> QED BY <1>7
=============================================================================
