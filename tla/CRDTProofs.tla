----------------------------- MODULE CRDTProofs -----------------------------
(***************************************************************************)
(* Proofs about CRDT, for any nodes, elements, increments and bounds: what *)
(* the OR-Set contains and what the register holds is a function of the    *)
(* updates a replica has seen, whatever copies were merged on the way.     *)
(*                                                                         *)
(* The inductive invariant says this of every replica and of the copy:     *)
(* they know the updates that the updates they have seen had seen, and     *)
(* their data are those the updates they have seen make.                   *)
(***************************************************************************)
EXTENDS CRDTViews

\* A node has seen its own updates.
Causal ==
    /\ \A n \in Nodes : Known(log, replica[n].seen) /\ replica[n].seen[n] = Len(log[n])
    /\ Known(log, copy.seen)

\* A node has not used its next tag.
Tags ==
    type = "ORSET" =>
        /\ TagsDiffer(log)
        /\ \A n \in Nodes :
               /\ replica[n].data.next_tag <= Len(log[n]) + 1
               /\ \A k \in DOMAIN log[n] :
                      log[n][k].op = "add" => log[n][k].stamp < replica[n].data.next_tag

OrsetInv ==
    type = "ORSET" =>
        /\ \A n \in Nodes : OrsetView(log, replica[n].data.entries, replica[n].seen)
        /\ OrsetView(log, copy.data.entries, copy.seen)

LwwInv ==
    type = "LWW" =>
        /\ Writing(log)
        /\ ClocksAgree => /\ \A n \in Nodes : LwwView(log, replica[n].data, replica[n].seen)
                          /\ LwwView(log, copy.data, copy.seen)

CRDTInv == TypeOK /\ Causal /\ Tags /\ OrsetInv /\ LwwInv

-----------------------------------------------------------------------------
(* Updates                                                                 *)

\* The update that node n appends.
Stored(n, op, arg, stamp) ==
    LET u == log'[n][Len(log[n]) + 1]
    IN  u.op = op /\ u.arg = arg /\ u.stamp = stamp /\ u.seen = replica[n].seen

\* What update does.
LEMMA Updated ==
    ASSUME TypeOK, NEW n \in Nodes, NEW data, NEW op, NEW arg, NEW stamp,
           [op |-> op, arg |-> arg, stamp |-> stamp, seen |-> replica[n].seen] \in Updates,
           update(n, data, op, arg, stamp)
    PROVE  /\ DOMAIN replica' = Nodes /\ replica'[n].data = data
           /\ replica'[n].seen = [replica[n].seen EXCEPT ![n] = @ + 1]
           /\ \A m \in Nodes : m # n => replica'[m] = replica[m] /\ log'[m] = log[m]
           /\ copy' = copy /\ type' = type /\ Len(log[n]) + 2 < TagSpace
           /\ log' \in Logs /\ Len(log'[n]) = Len(log[n]) + 1
           /\ Stored(n, op, arg, stamp)
           /\ Grows(log, log')
<1> DEFINE u == [op |-> op, arg |-> arg, stamp |-> stamp, seen |-> replica[n].seen]
           t == Append(log[n], u)
<1>1. /\ replica' = [replica EXCEPT ![n] =
                         [data |-> data, seen |-> [replica[n].seen EXCEPT ![n] = @ + 1]]]
      /\ log' = [log EXCEPT ![n] = t] /\ UNCHANGED <<type, copy>> /\ Len(log[n]) + 2 < TagSpace
  BY DEF update
<1>2. log[n] \in Seq(Updates) /\ u \in Updates BY DEF TypeOK
<1> HIDE DEF u
<1>3. /\ t \in Seq(Updates) /\ Len(t) = Len(log[n]) + 1 /\ t[Len(log[n]) + 1] = u
      /\ \A k \in 1 .. Len(log[n]) : t[k] = log[n][k]
  BY <1>2
<1> HIDE DEF t
<1>4. log'[n] = t /\ log' \in [Nodes -> Seq(Updates)] /\ \A m \in Nodes : m # n => log'[m] = log[m]
  BY <1>1, <1>3 DEF TypeOK
<1>5. \A i \in Nodes : Len(log[i]) \in Nat BY DEF TypeOK
<1>6. Grows(log, log')
  <2>1. ASSUME NEW i \in Nodes
        PROVE  /\ Len(log[i]) <= Len(log'[i])
               /\ \A k \in 1 .. Len(log[i]) : log'[i][k] = log[i][k]
    BY <1>3, <1>4, <1>5
  <2> QED BY <2>1, Zenon DEF Grows
<1>7. /\ DOMAIN replica' = Nodes /\ replica'[n].data = data
      /\ replica'[n].seen = [replica[n].seen EXCEPT ![n] = @ + 1]
      /\ \A m \in Nodes : m # n => replica'[m] = replica[m]
  BY <1>1 DEF TypeOK
<1>8. Stored(n, op, arg, stamp) BY <1>3, <1>4 DEF u, Stored
<1> QED BY <1>1, <1>3, <1>4, <1>6, <1>7, <1>8 DEF Logs

\* After an update the node has seen it, and all have seen what they had.
LEMMA UpdateKeeps ==
    ASSUME TypeOK, Causal, NEW n \in Nodes, NEW data, NEW op, NEW arg, NEW stamp,
           [op |-> op, arg |-> arg, stamp |-> stamp, seen |-> replica[n].seen] \in Updates,
           update(n, data, op, arg, stamp), HasType(type, data)
    PROVE  TypeOK' /\ Causal'
<1>1. /\ DOMAIN replica' = Nodes /\ replica'[n].data = data
      /\ replica'[n].seen = [replica[n].seen EXCEPT ![n] = @ + 1]
      /\ \A m \in Nodes : m # n => replica'[m] = replica[m] /\ log'[m] = log[m]
      /\ copy' = copy /\ type' = type
      /\ log' \in Logs /\ Len(log'[n]) = Len(log[n]) + 1
      /\ Grows(log, log')
  BY Updated, Zenon
<1>2. /\ log \in Logs /\ copy.seen \in Vectors
      /\ \A m \in Nodes : /\ replica[m].seen \in Vectors /\ Len(log[m]) \in Nat
                          /\ Known(log, replica[m].seen) /\ replica[m].seen[m] = Len(log[m])
      /\ Known(log, copy.seen)
  BY DEF TypeOK, Causal, Logs, Vectors
<1>3. log'[n][Len(log[n]) + 1].seen = replica[n].seen
  <2>1. Stored(n, op, arg, stamp) BY Updated, Zenon
  <2> QED BY <2>1 DEF Stored
<1> DEFINE s == replica[n].seen
           t == [s EXCEPT ![n] = @ + 1]
<1>4. t \in Vectors /\ t[n] = Len(log[n]) + 1 /\ \A i \in Nodes : i # n => t[i] = s[i]
  BY <1>2 DEF Vectors
<1> HIDE DEF t
<1>5. TypeOK'
  <2>1. \A m \in Nodes : HasType(type', replica'[m].data) /\ replica'[m].seen \in [Nodes -> Nat]
    BY <1>1, <1>4, Zenon DEF TypeOK, Vectors, t
  <2>2. HasType(type', copy'.data) /\ copy'.seen \in [Nodes -> Nat] BY <1>1 DEF TypeOK
  <2> QED BY <1>1, <2>1, <2>2 DEF TypeOK, Logs
<1>6. Known(log', t)
  <2>1. \A i \in Nodes : \A k \in 1 .. s[i] : log'[i][k] = log[i][k] BY <1>1, <1>2, SeenKept
  <2>2. \A i \in Nodes : s[i] \in Nat /\ s[i] <= Len(log[i]) /\ s[i] <= t[i] /\ t[i] \in Nat
    <3>1. \A i \in Nodes : s[i] \in Nat /\ t[i] \in Nat BY <1>2, <1>4 DEF Vectors
    <3>2. \A i \in Nodes : s[i] <= Len(log[i]) BY <1>2 DEF Known
    <3>3. s[n] = Len(log[n]) BY <1>2
    <3>4. \A i \in Nodes : s[i] <= t[i] BY <1>4, <3>1, <3>3
    <3> QED BY <3>1, <3>2, <3>4
  <2>3. \A i \in Nodes : t[i] <= Len(log'[i]) BY <1>1, <1>2, <1>4, <2>2
  <2>4. ASSUME NEW i \in Nodes, NEW k \in 1 .. t[i], NEW j \in Nodes
        PROVE  log'[i][k].seen[j] <= t[j]
    <3>1. CASE k \in 1 .. s[i]
      <4>1. log'[i][k].seen[j] <= s[j] BY <1>2, <2>1, <3>1 DEF Known
      <4>2. log'[i][k].seen[j] \in Nat
        <5>1. k \in DOMAIN log[i] /\ log[i] \in Seq(Updates) BY <1>2, <2>2, <3>1 DEF Logs
        <5>2. log[i][k] \in Updates BY <5>1
        <5>3. log[i][k].seen \in [Nodes -> Nat] BY <5>2 DEF Updates
        <5> QED BY <5>3, <2>1, <3>1
      <4> QED BY <2>2, <4>1, <4>2
    <3>2. CASE i = n /\ k = Len(log[n]) + 1 BY <1>3, <2>2, <3>2
    <3> QED BY <1>2, <1>4, <2>2, <3>1, <3>2
  <2> QED BY <2>3, <2>4 DEF Known
<1>7. \A m \in Nodes : Known(log', replica'[m].seen) /\ replica'[m].seen[m] = Len(log'[m])
  <2>1. \A m \in Nodes : Known(log', replica[m].seen) BY <1>1, <1>2, KnownKept
  <2>2. replica'[n].seen = t BY <1>1 DEF t
  <2> QED BY <1>1, <1>2, <1>4, <1>6, <2>1, <2>2
<1>8. Known(log', copy'.seen) BY <1>1, <1>2, KnownKept
<1> QED BY <1>5, <1>7, <1>8 DEF Causal

\* What an update leaves.
Wrote(n, data, op, arg, stamp) ==
    /\ log \in Logs /\ log' \in Logs /\ type' = type /\ copy' = copy
    /\ replica'[n].data = data /\ Len(log[n]) + 2 < TagSpace
    /\ \A m \in Nodes : /\ replica[m].seen \in Vectors /\ replica'[m].seen \in Vectors
                        /\ m # n => replica'[m] = replica[m] /\ log'[m] = log[m]
    /\ Follows(log, log', n, replica[n].seen, replica'[n].seen)
    /\ log'[n][replica'[n].seen[n]].op = op
    /\ log'[n][replica'[n].seen[n]].arg = arg
    /\ log'[n][replica'[n].seen[n]].stamp = stamp
    /\ log'[n][replica'[n].seen[n]].seen = replica[n].seen
    /\ Len(log'[n]) = Len(log[n]) + 1 /\ replica'[n].seen[n] = Len(log[n]) + 1

\* An update of update leaves it.
LEMMA UpdateFacts ==
    ASSUME TypeOK, Causal, NEW n \in Nodes, NEW data, NEW op, NEW arg, NEW stamp,
           [op |-> op, arg |-> arg, stamp |-> stamp, seen |-> replica[n].seen] \in Updates,
           update(n, data, op, arg, stamp), HasType(type, data)
    PROVE  TypeOK' /\ Causal' /\ Wrote(n, data, op, arg, stamp)
<1>1. TypeOK' /\ Causal' BY UpdateKeeps
<1>2. /\ replica'[n].data = data /\ Len(log[n]) + 2 < TagSpace /\ Grows(log, log')
      /\ replica'[n].seen = [replica[n].seen EXCEPT ![n] = @ + 1]
      /\ \A m \in Nodes : m # n => replica'[m] = replica[m] /\ log'[m] = log[m]
      /\ type' = type /\ copy' = copy /\ Len(log'[n]) = Len(log[n]) + 1
  BY Updated, Zenon
<1>3. /\ log'[n][Len(log[n]) + 1].op = op /\ log'[n][Len(log[n]) + 1].arg = arg
      /\ log'[n][Len(log[n]) + 1].stamp = stamp
      /\ log'[n][Len(log[n]) + 1].seen = replica[n].seen
  <2>1. Stored(n, op, arg, stamp) BY Updated, Zenon
  <2> QED BY <2>1 DEF Stored
<1>4. log \in Logs /\ log' \in Logs /\ \A m \in Nodes : /\ replica[m].seen \in Vectors
                                                        /\ replica'[m].seen \in Vectors
  BY <1>1, Zenon DEF TypeOK, Logs, Vectors
<1>5. /\ Known(log, replica[n].seen) /\ replica[n].seen[n] = Len(log[n])
      /\ replica'[n].seen[n] = Len(log[n]) + 1
      /\ \A i \in Nodes : i # n => replica'[n].seen[i] = replica[n].seen[i]
  <2>1. Known(log, replica[n].seen) /\ replica[n].seen[n] = Len(log[n]) BY DEF Causal
  <2>2. replica[n].seen \in [Nodes -> Nat] BY <1>4 DEF Vectors
  <2>3. \A r \in [Nodes -> Nat] : /\ [r EXCEPT ![n] = @ + 1][n] = r[n] + 1
                                  /\ \A i \in Nodes : i # n => [r EXCEPT ![n] = @ + 1][i] = r[i]
    OBVIOUS
  <2> QED BY <1>2, <2>1, <2>2, <2>3
<1>6. Follows(log, log', n, replica[n].seen, replica'[n].seen) BY <1>2, <1>5 DEF Follows
<1> QED BY <1>1, <1>2, <1>3, <1>4, <1>5, <1>6, Zenon DEF Wrote

\* The sets of the other nodes stay what they were.
LEMMA OthersKept ==
    ASSUME TypeOK, Causal, OrsetInv, type = "ORSET", NEW n \in Nodes, Grows(log, log'),
           log' \in Logs, copy' = copy, \A m \in Nodes : m # n => replica'[m] = replica[m]
    PROVE  /\ \A m \in Nodes : m # n => OrsetView(log', replica'[m].data.entries, replica'[m].seen)
           /\ OrsetView(log', copy'.data.entries, copy'.seen)
<1>1. /\ log \in Logs /\ copy.seen \in Vectors /\ copy.data.entries \in SUBSET Entries
      /\ \A m \in Nodes : replica[m].seen \in Vectors /\ replica[m].data.entries \in SUBSET Entries
  BY DEF TypeOK, Logs, Vectors, HasType
<1>2. /\ \A m \in Nodes : /\ Known(log, replica[m].seen)
                          /\ OrsetView(log, replica[m].data.entries, replica[m].seen)
      /\ Known(log, copy.seen) /\ OrsetView(log, copy.data.entries, copy.seen)
  BY Zenon DEF Causal, OrsetInv
<1>3. \A m \in Nodes : OrsetView(log', replica[m].data.entries, replica[m].seen)
  BY <1>1, <1>2, OrsetKept
<1>4. OrsetView(log', copy.data.entries, copy.seen) BY <1>1, <1>2, OrsetKept
<1> QED BY <1>3, <1>4

-----------------------------------------------------------------------------
(* The commands                                                            *)

\* ORSET add.
LEMMA AddKeeps ==
    ASSUME CRDTInv, NEW n \in Nodes, orsetAddCommand(n)
    PROVE  CRDTInv'
<1> SUFFICES ASSUME NEW D, D = replica[n].data.entries, NEW g, g = replica[n].data.next_tag
             PROVE  CRDTInv'
  OBVIOUS
<1>1. TypeOK /\ Causal /\ Tags /\ OrsetInv /\ type = "ORSET" BY DEF CRDTInv, orsetAddCommand
<1>2. PICK v \in Elements : update(n, orset_add(replica[n].data, n, v), "add", v, g)
  BY DEF orsetAddCommand
<1> DEFINE x == [value |-> v, tag |-> g, origin |-> n, removed |-> FALSE]
           data == orset_add(replica[n].data, n, v)
<1>3. D \in SUBSET Entries /\ g \in Nat /\ replica[n].seen \in [Nodes -> Nat]
  BY <1>1 DEF TypeOK, HasType
<1>4. /\ x \in Entries /\ x.origin = n /\ ~x.removed /\ x.tag = g /\ x.value = v
      /\ data.entries = D \cup {x} /\ data.next_tag = (g + 1) % TagSpace
      /\ data = [entries |-> D \cup {x}, next_tag |-> (g + 1) % TagSpace]
  BY <1>3 DEF orset_add, Entries
<1>5. g <= Len(log[n]) + 1 /\ Len(log[n]) \in Nat BY <1>1 DEF Tags, TypeOK
<1>6. (g + 1) % TagSpace = g + 1
  <2>1. Len(log[n]) + 2 < TagSpace BY <1>2 DEF update
  <2>2. g + 1 \in Nat /\ g + 1 < TagSpace /\ TagSpace \in Nat BY <1>3, <1>5, <2>1, CountAssumption, SMTT(20)
  <2> QED BY <2>2, SmallMod
<1>7. HasType(type, data)
  <2>1. \A E \in SUBSET Entries : \A h \in Nat :
            [entries |-> E, next_tag |-> h] \in [entries : SUBSET Entries, next_tag : Nat]
    OBVIOUS
  <2>2. x \in Entries BY <1>4
  <2>3. data = [entries |-> D \cup {x}, next_tag |-> g + 1] BY <1>4, <1>6, Zenon
  <2> HIDE DEF data, x
  <2>5. D \cup {x} \in SUBSET Entries /\ g + 1 \in Nat BY <1>3, <2>2
  <2>4. data \in [entries : SUBSET Entries, next_tag : Nat] BY <2>1, <2>3, <2>5
  <2> QED BY <1>1, <2>4 DEF HasType
<1>8. [op |-> "add", arg |-> v, stamp |-> g, seen |-> replica[n].seen] \in Updates
  BY <1>3 DEF Updates
<1>9. update(n, data, "add", v, g) BY <1>2
<1> HIDE DEF x, data
<1>10. TypeOK' /\ Causal' /\ Wrote(n, data, "add", v, g) BY <1>1, <1>7, <1>8, <1>9, UpdateFacts, Zenon
<1>11. \A k \in DOMAIN log[n] : /\ log[n][k].stamp \in Nat
                                /\ log[n][k].op = "add" => log[n][k].stamp < g
  <2>1. \A k \in DOMAIN log[n] : log[n][k] \in Updates BY <1>10 DEF Wrote, Logs
  <2> QED BY <1>1, <2>1 DEF Tags, Updates
<1>12. OrsetInv'
  <2>1. AddOf(log', x, replica'[n].seen[n]) BY <1>4, <1>10 DEF AddOf, Wrote
  <2>2. OrsetView(log, D, replica[n].seen) BY <1>1 DEF OrsetInv
  <2>3. OrsetView(log', D \cup {x}, replica'[n].seen)
    <3>1. /\ log \in Logs /\ log' \in Logs /\ replica[n].seen \in Vectors /\ replica'[n].seen \in Vectors
          /\ Follows(log, log', n, replica[n].seen, replica'[n].seen)
      BY <1>10 DEF Wrote
    <3>2. x \in Entries /\ x.origin = n /\ ~x.removed BY <1>4
    <3>3. \A k \in DOMAIN log[n] : log[n][k].op = "add" => log[n][k].stamp < x.tag BY <1>4, <1>11
    <3> QED BY <1>3, <2>1, <2>2, <3>1, <3>2, <3>3, OrsetAdded, Zenon
  <2>4. Grows(log, log') BY <1>10 DEF Follows, Wrote
  <2>5. /\ \A m \in Nodes : m # n => OrsetView(log', replica'[m].data.entries, replica'[m].seen)
        /\ OrsetView(log', copy'.data.entries, copy'.seen)
    BY <1>1, <1>10, <2>4, OthersKept, Zenon DEF Wrote
  <2>6. replica'[n].data.entries = D \cup {x} BY <1>4, <1>10 DEF Wrote
  <2> QED BY <2>3, <2>5, <2>6, Zenon DEF OrsetInv
<1>13. Tags'
  <2>1. DOMAIN log[n] = 1 .. Len(log[n]) /\ DOMAIN log'[n] = 1 .. Len(log[n]) + 1 /\ Len(log[n]) \in Nat
    BY <1>10 DEF Wrote, Logs
  <2>2. \A k \in DOMAIN log'[n] : (k \in DOMAIN log[n] /\ log'[n][k] = log[n][k]) \/ k = Len(log[n]) + 1
    BY <1>10, <2>1 DEF Follows, Grows, Wrote
  <2>3. TagsDiffer(log')
    <3> SUFFICES ASSUME NEW i \in Nodes, NEW k \in DOMAIN log'[i], NEW l \in DOMAIN log'[i],
                        log'[i][k].op = "add", log'[i][l].op = "add",
                        log'[i][k].stamp = log'[i][l].stamp
                 PROVE  k = l
      BY DEF TagsDiffer
    <3>1. CASE i # n BY <1>1, <1>10, <3>1 DEF Tags, TagsDiffer, Wrote
    <3>2. CASE i = n
      <4>1. CASE k \in DOMAIN log[n] /\ l \in DOMAIN log[n]
        BY <1>1, <2>1, <2>2, <3>2, <4>1 DEF Tags, TagsDiffer
      <4>2. \A j \in DOMAIN log[n] : log'[n][j].op = "add" => log'[n][j].stamp < g
        BY <1>11, <2>1, <2>2
      <4>3. \A j \in DOMAIN log[n] : log'[n][j].stamp \in Nat BY <1>11, <2>1, <2>2
      <4>4. log'[n][Len(log[n]) + 1].stamp = g BY <1>10 DEF Wrote
      <4> QED BY <1>3, <2>2, <3>2, <4>1, <4>2, <4>3, <4>4
    <3> QED BY <3>1, <3>2
  <2>4. replica'[n].data.next_tag = g + 1 BY <1>4, <1>6, <1>10 DEF Wrote
  <2>5. \A k \in DOMAIN log'[n] : log'[n][k].op = "add" => log'[n][k].stamp < g + 1
    <3>1. log'[n][Len(log[n]) + 1].stamp = g BY <1>10 DEF Wrote
    <3> QED BY <1>3, <1>11, <2>2, <3>1
  <2>6. ASSUME NEW m \in Nodes
        PROVE  /\ replica'[m].data.next_tag <= Len(log'[m]) + 1
               /\ \A k \in DOMAIN log'[m] :
                      log'[m][k].op = "add" => log'[m][k].stamp < replica'[m].data.next_tag
    <3>1. CASE m = n BY <1>3, <1>5, <1>10, <2>4, <2>5, <3>1, SMTT(20) DEF Wrote
    <3>2. CASE m # n BY <1>1, <1>10, <3>2, Zenon DEF Tags, Wrote
    <3> QED BY <3>1, <3>2
  <2> QED BY <2>3, <2>6 DEF Tags
<1>14. LwwInv' BY <1>1, <1>10, Zenon DEF LwwInv, Wrote
<1> QED BY <1>10, <1>12, <1>13, <1>14 DEF CRDTInv

\* ORSET remove.
LEMMA RemoveKeeps ==
    ASSUME CRDTInv, NEW n \in Nodes, orsetRemoveCommand(n)
    PROVE  CRDTInv'
<1> SUFFICES ASSUME NEW R, R = replica[n].data, NEW D, D = R.entries PROVE CRDTInv'
  OBVIOUS
<1>1. TypeOK /\ Causal /\ Tags /\ OrsetInv /\ type = "ORSET" BY DEF CRDTInv, orsetRemoveCommand
<1>2. PICK v \in Elements : update(n, orset_remove(R, v), "remove", v, 0) BY DEF orsetRemoveCommand
<1> DEFINE Mark(e) == [e EXCEPT !.removed = e.removed \/ e.value = v]
           E == Marked(D, v)
           data == orset_remove(R, v)
<1>3. /\ R \in [entries : SUBSET Entries, next_tag : Nat] /\ D \in SUBSET Entries
      /\ replica[n].seen \in [Nodes -> Nat]
  BY <1>1 DEF TypeOK, HasType
<1>4. data = [R EXCEPT !.entries = E] BY DEF orset_remove, Marked
<1>5. \A e \in D : Mark(e) \in Entries
  <2>1. \A e \in Entries, b \in BOOLEAN : [e EXCEPT !.removed = b] \in Entries BY DEF Entries
  <2>2. \A e \in D : e \in Entries /\ (e.removed \/ e.value = v) \in BOOLEAN BY <1>3
  <2> QED BY <2>1, <2>2, Zenon
<1>6. update(n, data, "remove", v, 0) BY <1>2
<1>7. E \in SUBSET Entries BY <1>5 DEF Marked
<1> HIDE DEF E, data
<1>8. data \in [entries : SUBSET Entries, next_tag : Nat] /\ data.entries = E /\ data.next_tag = R.next_tag
  BY <1>3, <1>4, <1>7
<1>9. HasType(type, data) BY <1>1, <1>8 DEF HasType
<1>10. [op |-> "remove", arg |-> v, stamp |-> 0, seen |-> replica[n].seen] \in Updates
  BY <1>3 DEF Updates
<1>11. TypeOK' /\ Causal' /\ Wrote(n, data, "remove", v, 0) BY <1>1, <1>6, <1>9, <1>10, UpdateFacts, Zenon
<1>12. OrsetInv'
  <2>1. OrsetView(log, D, replica[n].seen) BY <1>1 DEF OrsetInv
  <2>2. OrsetView(log', E, replica'[n].seen)
    <3>1. /\ log \in Logs /\ log' \in Logs /\ replica[n].seen \in Vectors /\ replica'[n].seen \in Vectors
          /\ Follows(log, log', n, replica[n].seen, replica'[n].seen)
          /\ log'[n][replica'[n].seen[n]].op = "remove" /\ log'[n][replica'[n].seen[n]].arg = v
          /\ log'[n][replica'[n].seen[n]].seen = replica[n].seen
      BY <1>11, Zenon DEF Wrote
    <3> QED BY <1>3, <2>1, <3>1, OrsetMarked, Zenon DEF E
  <2>3. Grows(log, log') BY <1>11 DEF Follows, Wrote
  <2>4. /\ \A m \in Nodes : m # n => OrsetView(log', replica'[m].data.entries, replica'[m].seen)
        /\ OrsetView(log', copy'.data.entries, copy'.seen)
    BY <1>1, <1>11, <2>3, OthersKept, Zenon DEF Wrote
  <2>5. replica'[n].data.entries = E BY <1>8, <1>11, Zenon DEF Wrote
  <2> QED BY <2>2, <2>4, <2>5 DEF OrsetInv
<1>13. Tags'
  <2>1. DOMAIN log[n] = 1 .. Len(log[n]) /\ DOMAIN log'[n] = 1 .. Len(log[n]) + 1 /\ Len(log[n]) \in Nat
    BY <1>11 DEF Wrote, Logs
  <2>2. \A k \in DOMAIN log'[n] : (k \in DOMAIN log[n] /\ log'[n][k] = log[n][k]) \/ k = Len(log[n]) + 1
    BY <1>11, <2>1 DEF Follows, Grows, Wrote
  <2>3. log'[n][Len(log[n]) + 1].op # "add" BY <1>11 DEF Wrote
  <2>4. \A m \in Nodes : \A k \in DOMAIN log'[m] :
            log'[m][k].op = "add" => k \in DOMAIN log[m] /\ log'[m][k] = log[m][k]
    BY <1>11, <2>2, <2>3, Zenon DEF Wrote
  <2>5. TagsDiffer(log') BY <1>1, <2>4 DEF Tags, TagsDiffer
  <2>6. \A m \in Nodes : replica'[m].data.next_tag = replica[m].data.next_tag BY <1>8, <1>11 DEF Wrote
  <2>7. \A m \in Nodes : replica'[m].data.next_tag <= Len(log'[m]) + 1
    <3>1. \A m \in Nodes : replica[m].data.next_tag \in Nat BY <1>1 DEF TypeOK, HasType
    <3>2. \A m \in Nodes : Len(log[m]) \in Nat /\ Len(log[m]) <= Len(log'[m]) /\ Len(log'[m]) \in Nat
      BY <1>11 DEF Wrote, Follows, Grows, Logs
    <3> QED BY <1>1, <2>6, <3>1, <3>2, SMTT(20) DEF Tags
  <2>8. \A m \in Nodes : \A k \in DOMAIN log'[m] :
            log'[m][k].op = "add" => log'[m][k].stamp < replica'[m].data.next_tag
    BY <1>1, <2>4, <2>6 DEF Tags
  <2> QED BY <2>5, <2>7, <2>8 DEF Tags
<1>14. LwwInv' BY <1>1, <1>11 DEF LwwInv, Wrote
<1> QED BY <1>11, <1>12, <1>13, <1>14 DEF CRDTInv

\* It is.
LEMMA AgreeFacts == (ClocksAgree <=> Agree(log)) /\ (ClocksAgree' <=> Agree(log'))
<1>1. \A i, k : <<i, k>>[1] = i /\ <<i, k>>[2] = k OBVIOUS
<1>2. ClocksAgree <=> Agree(log) BY <1>1 DEF ClocksAgree, Agree, Time
<1>3. ClocksAgree' <=> Agree(log') BY <1>1 DEF ClocksAgree, Agree, Time
<1> QED BY <1>2, <1>3

\* LWW set.
LEMMA SetKeeps ==
    ASSUME CRDTInv, NEW n \in Nodes, lwwSetCommand(n)
    PROVE  CRDTInv'
<1> SUFFICES ASSUME NEW R, R = replica[n].data, NEW v, v = <<n, Len(log[n])>> PROVE CRDTInv'
  BY Zenon
<1>1. TypeOK /\ Causal /\ LwwInv /\ type = "LWW" BY DEF CRDTInv, lwwSetCommand
<1>2. PICK now \in 1 .. MaxTime : update(n, lww_set(R, v, now), "set", v, now) BY DEF lwwSetCommand
<1> DEFINE data == lww_set(R, v, now)
<1>3. update(n, data, "set", v, now) /\ now \in Nat /\ now > 0 BY <1>2, CountAssumption
<1>4. /\ R \in [value : SUBSET (Nodes \X Nat), timestamp_us : Nat, node_id : Nat]
      /\ replica[n].seen \in [Nodes -> Nat] /\ Len(log[n]) \in Nat
  BY <1>1 DEF TypeOK, HasType
<1>5. v \in Nodes \X Nat BY <1>4
<1>6. data.value = {v} /\ data.timestamp_us = now BY <1>4 DEF lww_set
<1>7. data \in [value : SUBSET (Nodes \X Nat), timestamp_us : Nat, node_id : Nat]
  <2>1. {v} \in SUBSET (Nodes \X Nat) BY <1>5
  <2> QED BY <1>3, <1>4, <2>1, Zenon DEF lww_set
<1> HIDE DEF data
<1>8. HasType(type, data) BY <1>1, <1>7 DEF HasType
<1>9. [op |-> "set", arg |-> v, stamp |-> now, seen |-> replica[n].seen] \in Updates
  BY <1>3, <1>4, <1>5 DEF Updates
<1>10. TypeOK' /\ Causal' /\ Wrote(n, data, "set", v, now) BY <1>1, <1>3, <1>8, <1>9, UpdateFacts, Zenon
<1>11. /\ log \in Logs /\ log' \in Logs /\ Grows(log, log')
       /\ \A m \in Nodes : replica[m].seen \in Vectors /\ replica'[m].seen \in Vectors
       /\ \A m \in Nodes : Known(log, replica[m].seen) /\ Known(log', replica'[m].seen)
       /\ copy.seen \in Vectors /\ Known(log, copy.seen)
  <2>1. log \in Logs /\ log' \in Logs /\ Grows(log, log') BY <1>10 DEF Wrote, Follows
  <2>2. \A m \in Nodes : replica[m].seen \in Vectors /\ replica'[m].seen \in Vectors BY <1>10 DEF Wrote
  <2>3. \A m \in Nodes : Known(log, replica[m].seen) /\ Known(log', replica'[m].seen)
    BY <1>1, <1>10 DEF Causal
  <2>4. copy.seen \in Vectors /\ Known(log, copy.seen) BY <1>1 DEF Causal, TypeOK, Vectors
  <2> QED BY <2>1, <2>2, <2>3, <2>4
<1>12. Writing(log')
  <2>1. DOMAIN log[n] = 1 .. Len(log[n]) /\ DOMAIN log'[n] = 1 .. Len(log[n]) + 1 /\ Len(log[n]) \in Nat
    BY <1>10 DEF Wrote, Logs
  <2>2. \A k \in DOMAIN log'[n] : (k \in DOMAIN log[n] /\ log'[n][k] = log[n][k]) \/ k = Len(log[n]) + 1
    BY <1>10, <2>1 DEF Follows, Grows, Wrote
  <2>3. log'[n][Len(log[n]) + 1].op = "set" /\ log'[n][Len(log[n]) + 1].stamp = now BY <1>10 DEF Wrote
  <2>4. Writing(log) BY <1>1 DEF LwwInv
  <2>5. \A m \in Nodes : m # n => log'[m] = log[m] BY <1>10 DEF Wrote
  <2> QED BY <1>3, <2>2, <2>3, <2>4, <2>5 DEF Writing
<1>13. ASSUME ClocksAgree'
       PROVE  /\ \A m \in Nodes : LwwView(log', replica'[m].data, replica'[m].seen)
              /\ LwwView(log', copy'.data, copy'.seen)
  <2>1. Agree(log') BY <1>13, AgreeFacts
  <2>2. ClocksAgree BY <1>11, <2>1, AgreeBefore, AgreeFacts
  <2>3. /\ \A m \in Nodes : LwwView(log, replica[m].data, replica[m].seen)
        /\ LwwView(log, copy.data, copy.seen)
    BY <1>1, <2>2 DEF LwwInv
  <2>4. \A m \in Nodes : LwwView(log', replica[m].data, replica[m].seen) BY <1>11, <2>3, LwwKept
  <2>5. LwwView(log', copy.data, copy.seen) BY <1>11, <2>3, LwwKept
  <2>6. \A m \in Nodes : m # n => LwwView(log', replica'[m].data, replica'[m].seen)
    BY <1>10, <2>4, Zenon DEF Wrote
  <2>7. LwwView(log', copy'.data, copy'.seen) BY <1>10, <2>5, Zenon DEF Wrote
  <2> DEFINE s == replica[n].seen
             t == replica'[n].seen
  <2>8. /\ t[n] = s[n] + 1 /\ (\A i \in Nodes : i # n => t[i] = s[i])
        /\ log'[n][t[n]].seen = s /\ log'[n][t[n]].arg = v /\ log'[n][t[n]].stamp = now
        /\ replica'[n].data = data
    BY <1>10, Zenon DEF Wrote, Follows
  <2>9. s \in Vectors /\ t \in Vectors /\ Known(log', t) BY <1>11, Zenon
  <2> HIDE DEF s, t
  <2>10. \A i \in Nodes : \A k \in 1 .. t[i] : k \in DOMAIN log'[i]
    BY <1>11, <2>9 DEF Known, Logs, Vectors
  <2>11. \A i \in Nodes : s[i] \in Nat /\ t[i] \in Nat /\ s[i] <= t[i] BY <2>8, <2>9 DEF Vectors
  <2>12. \A i \in Nodes : \A k \in 1 .. s[i] : log'[i][k].stamp < log'[n][t[n]].stamp
    <3>1. t[n] \in DOMAIN log'[n] BY <2>8, <2>10, <2>11
    <3>2. \A i \in Nodes : \A k \in 1 .. s[i] : k \in DOMAIN log'[i] BY <2>10, <2>11
    <3> QED BY <2>1, <2>8, <2>11, <3>1, <3>2 DEF Agree
  <2>13. LwwView(log', data, t) BY <1>6, <1>11, <2>8, <2>9, <2>12, LwwWritten, Zenon
  <2> QED BY <2>6, <2>7, <2>8, <2>13 DEF t
<1>14. LwwInv' BY <1>12, <1>13, Zenon DEF LwwInv
<1>15. Tags' /\ OrsetInv' BY <1>1, <1>10, Zenon DEF Tags, OrsetInv, Wrote
<1> QED BY <1>10, <1>14, <1>15 DEF CRDTInv

\* Counters are added to and taken from: no other type is concerned.
LEMMA CountKeeps ==
    ASSUME CRDTInv, type \in {"GCOUNTER", "PNCOUNTER"}, NEW n \in Nodes, NEW data, NEW op \in {"incr", "decr"},
           NEW d \in Deltas, update(n, data, op, d, 0), HasType(type, data)
    PROVE  CRDTInv'
<1>1. TypeOK /\ Causal BY DEF CRDTInv
<1>2. [op |-> op, arg |-> d, stamp |-> 0, seen |-> replica[n].seen] \in Updates
  BY <1>1 DEF TypeOK, Updates
<1>3. TypeOK' /\ Causal' /\ type' = type
  <2>1. TypeOK' /\ Causal' /\ Wrote(n, data, op, d, 0) BY <1>1, <1>2, UpdateFacts, Zenon
  <2> QED BY <2>1, Zenon DEF Wrote
<1> QED BY <1>3, Zenon DEF CRDTInv, Tags, OrsetInv, LwwInv

\* GINCR.
LEMMA GincrKeeps ==
    ASSUME CRDTInv, NEW n \in Nodes, gincrCommand(n)
    PROVE  CRDTInv'
<1>1. type = "GCOUNTER" /\ replica[n].data \in Counts BY DEF CRDTInv, TypeOK, HasType, gincrCommand
<1>2. PICK d \in Deltas : update(n, gcounter_increment(replica[n].data, n, d), "incr", d, 0)
  BY DEF gincrCommand
<1>3. gcounter_increment(replica[n].data, n, d) \in Counts BY <1>1, CountAdded DEF gcounter_increment
<1>4. HasType(type, gcounter_increment(replica[n].data, n, d)) BY <1>1, <1>3 DEF HasType
<1> QED BY <1>1, <1>2, <1>4, CountKeeps

\* PNINCR.
LEMMA PnincrKeeps ==
    ASSUME CRDTInv, NEW n \in Nodes, pnincrCommand(n)
    PROVE  CRDTInv'
<1> SUFFICES ASSUME NEW p, p = replica[n].data PROVE CRDTInv'
  OBVIOUS
<1>1. type = "PNCOUNTER" /\ p \in [positive : Counts, negative : Counts]
  BY Zenon DEF CRDTInv, TypeOK, HasType, pnincrCommand
<1>2. PICK d \in Deltas : \/ update(n, pncounter_increment(p, n, d), "incr", d, 0)
                          \/ update(n, pncounter_decrement(p, n, d), "decr", d, 0)
  BY DEF pnincrCommand
<1>3. /\ [p.positive EXCEPT ![n] = saturating(@, d)] \in Counts
      /\ [p.negative EXCEPT ![n] = saturating(@, d)] \in Counts
  BY <1>1, CountAdded
<1>4. /\ pncounter_increment(p, n, d) \in [positive : Counts, negative : Counts]
      /\ pncounter_decrement(p, n, d) \in [positive : Counts, negative : Counts]
  BY <1>1, <1>3 DEF pncounter_increment, pncounter_decrement
<1>5. HasType(type, pncounter_increment(p, n, d)) /\ HasType(type, pncounter_decrement(p, n, d))
  BY <1>1, <1>4 DEF HasType
<1> QED BY <1>1, <1>2, <1>5, CountKeeps

-----------------------------------------------------------------------------
(* Copies                                                                  *)

\* A copy of a replica is what the replica was.
LEMMA PublishKeeps ==
    ASSUME CRDTInv, NEW n \in Nodes, publish(n)
    PROVE  CRDTInv'
<1>1. copy' = replica[n] /\ type' = type /\ replica' = replica /\ log' = log BY DEF publish
<1>2. TypeOK' BY <1>1 DEF CRDTInv, TypeOK
<1>3. Causal' BY <1>1 DEF CRDTInv, Causal
<1>4. Tags' BY <1>1 DEF CRDTInv, Tags
<1>5. OrsetInv' BY <1>1 DEF CRDTInv, OrsetInv
<1>6. LwwInv'
  <2>1. ClocksAgree' <=> ClocksAgree BY <1>1, AgreeFacts
  <2> QED BY <1>1, <2>1 DEF CRDTInv, LwwInv
<1> QED BY <1>2, <1>3, <1>4, <1>5, <1>6 DEF CRDTInv

\* The copy src is one a replica was, and is still on its way.
Copied(src) ==
    /\ HasType(type, src.data) /\ src.seen \in Vectors /\ Known(log, src.seen)
    /\ type = "ORSET" => OrsetView(log, src.data.entries, src.seen)
    /\ type = "LWW" /\ ClocksAgree => LwwView(log, src.data, src.seen)

\* Every replica, and the copy on its way, is one that may be merged.
LEMMA CopiesMade == CRDTInv => Copied(copy) /\ \A m \in Nodes : Copied(replica[m])
<1> SUFFICES ASSUME CRDTInv PROVE Copied(copy) /\ \A m \in Nodes : Copied(replica[m])
  OBVIOUS
<1>1. TypeOK /\ Causal /\ OrsetInv /\ LwwInv BY DEF CRDTInv
<1>2. Copied(copy) BY <1>1 DEF TypeOK, Causal, OrsetInv, LwwInv, Copied, Vectors
<1>3. \A m \in Nodes : Copied(replica[m])
  BY <1>1, Zenon DEF TypeOK, Causal, OrsetInv, LwwInv, Copied, Vectors
<1> QED BY <1>2, <1>3

\* A merge, of whichever copy and however often, makes the replica of the
\* updates seen on either side.
LEMMA MergeKeeps ==
    ASSUME CRDTInv, NEW n \in Nodes, NEW src, Copied(src), merge(n, src)
    PROVE  CRDTInv'
<1> DEFINE s == replica[n].seen
           t == src.seen
           data == Merged(replica[n].data, src.data)
<1>1. TypeOK /\ Causal /\ Tags /\ OrsetInv /\ LwwInv /\ Copied(replica[n]) BY CopiesMade DEF CRDTInv
<1>2. /\ DOMAIN replica' = Nodes /\ replica'[n].data = data /\ replica'[n].seen = Later(s, t)
      /\ \A m \in Nodes : m # n => replica'[m] = replica[m]
      /\ copy' = copy /\ type' = type /\ log' = log
  BY <1>1, Zenon DEF merge, TypeOK
<1>3. /\ HasType(type, replica[n].data) /\ s \in Vectors /\ Known(log, s)
      /\ HasType(type, src.data) /\ t \in Vectors /\ Known(log, t)
  BY <1>1, Zenon DEF Copied
<1>4. HasType(type, data) BY <1>1, <1>3, MergedType DEF TypeOK
<1>5. log \in Logs BY <1>1 DEF TypeOK, Logs
<1>6. Known(log, Later(s, t)) BY <1>3, <1>5, KnownMerged
<1>7. Later(s, t) \in Vectors /\ Later(s, t)[n] = Len(log[n])
  <2>1. s \in [Nodes -> Nat] /\ t \in [Nodes -> Nat] BY <1>3 DEF Vectors
  <2>2. /\ Later(s, t) \in [Nodes -> Nat] /\ s[n] <= Later(s, t)[n]
        /\ Later(s, t)[n] = s[n] \/ Later(s, t)[n] = t[n]
    BY <2>1, LaterFacts
  <2>3. s[n] = Len(log[n]) /\ t[n] <= Len(log[n]) /\ s[n] \in Nat /\ t[n] \in Nat
    BY <1>1, <1>3, <2>1 DEF Causal, Known
  <2> QED BY <2>2, <2>3 DEF Vectors
<1> HIDE DEF data, s, t
<1>8. TypeOK'
  <2>1. \A m \in Nodes : HasType(type', replica'[m].data) /\ replica'[m].seen \in [Nodes -> Nat]
    BY <1>1, <1>2, <1>4, <1>7, Zenon DEF TypeOK, Vectors
  <2> QED BY <1>1, <1>2, <2>1, Zenon DEF TypeOK
<1>9. Causal' BY <1>1, <1>2, <1>6, <1>7 DEF Causal
<1>10. ASSUME type = "ORSET"
       PROVE  OrsetView(log, data.entries, Later(s, t)) /\ data.next_tag = replica[n].data.next_tag
  <2> DEFINE d == replica[n].data
  <2>1. /\ d \in [entries : SUBSET Entries, next_tag : Nat] /\ src.data.entries \in SUBSET Entries
        /\ TagsDiffer(log) /\ OrsetView(log, d.entries, s) /\ OrsetView(log, src.data.entries, t)
    BY <1>1, <1>3, <1>10, Zenon DEF HasType, Tags, Copied, s, t
  <2>2. data = orset_merge(d, src.data) BY <1>10 DEF data, Merged
  <2> HIDE DEF d
  <2>3. d = [entries |-> d.entries, next_tag |-> d.next_tag] /\ d.entries \in SUBSET Entries BY <2>1, Zenon
  <2>4. OrsetView(log, orset_merge(d, src.data).entries, Later(s, t))
    BY <1>3, <1>5, <2>1, <2>3, OrsetMerged, Zenon
  <2>5. orset_merge(d, src.data).next_tag = d.next_tag BY <2>1 DEF orset_merge
  <2> QED BY <2>2, <2>4, <2>5 DEF d
<1>11. Tags'
  <2>1. type = "ORSET" => \A m \in Nodes : replica'[m].data.next_tag = replica[m].data.next_tag
    BY <1>2, <1>10
  <2> QED BY <1>1, <1>2, <2>1 DEF Tags
<1>12. OrsetInv' BY <1>1, <1>2, <1>10 DEF OrsetInv
<1>13. LwwInv'
  <2>1. ClocksAgree' <=> ClocksAgree BY <1>2, AgreeFacts
  <2>2. ASSUME type = "LWW", ClocksAgree PROVE LwwView(log, data, Later(s, t))
    <3>1. data = lww_merge(replica[n].data, src.data) BY <2>2 DEF data, Merged
    <3>2. Writing(log) /\ LwwView(log, replica[n].data, s) /\ LwwView(log, src.data, t)
      BY <1>1, <2>2, Zenon DEF LwwInv, Copied, s, t
    <3> QED BY <1>3, <1>5, <3>1, <3>2, LwwMerged, Zenon
  <2> QED BY <1>1, <1>2, <2>1, <2>2 DEF LwwInv
<1> QED BY <1>8, <1>9, <1>11, <1>12, <1>13 DEF CRDTInv

-----------------------------------------------------------------------------
(* The invariant, and what follows from it                                 *)

\* The replicas of a new key have seen nothing.
LEMMA InitInv == Init => CRDTInv
<1> SUFFICES ASSUME Init PROVE CRDTInv
  OBVIOUS
<1>1. PICK own_id \in BOOLEAN : replica = [n \in Nodes |-> [data |-> Created(type, n, own_id), seen |-> Zero]]
  BY DEF Init
<1>2. /\ DOMAIN replica = Nodes
      /\ \A n \in Nodes : replica[n].data = Created(type, n, own_id) /\ replica[n].seen = Zero
  BY <1>1
<1>3. PICK c \in Nodes : copy = replica[c] BY <1>2 DEF Init, Range
<1>4. type \in Types /\ log \in Logs /\ (\A n \in Nodes : log[n] = <<>>) BY DEF Init, Logs
<1>5. Zero \in [Nodes -> Nat] /\ \A i \in Nodes : Zero[i] = 0 BY DEF Zero
<1>6. ASSUME NEW n \in Nodes PROVE HasType(type, Created(type, n, own_id))
  <2>1. CASE type = "GCOUNTER"
    <3>1. Zero \in Counts BY CountAssumption DEF Zero, Counts
    <3> QED BY <2>1, <3>1 DEF HasType, Created
  <2>2. CASE type = "PNCOUNTER"
    <3>1. Zero \in Counts BY CountAssumption DEF Zero, Counts
    <3> QED BY <2>2, <3>1 DEF HasType, Created
  <2>3. CASE type = "ORSET" BY <2>3 DEF HasType, Created
  <2>4. CASE type = "LWW" BY <2>4, CountAssumption DEF HasType, Created
  <2> QED BY <1>4, <2>1, <2>2, <2>3, <2>4 DEF Types
<1>7. TypeOK BY <1>2, <1>3, <1>4, <1>5, <1>6 DEF TypeOK, Logs
<1>8. Known(log, Zero) BY <1>4, <1>5 DEF Known
<1>9. Causal BY <1>2, <1>3, <1>4, <1>5, <1>8 DEF Causal
<1>10. ASSUME type = "ORSET"
       PROVE  \A n \in Nodes : replica[n].data.entries = {} /\ replica[n].data.next_tag = 1
  BY <1>2, <1>10 DEF Created
<1>11. Tags BY <1>4, <1>10 DEF Tags, TagsDiffer
<1>12. OrsetView(log, {}, Zero) BY <1>5 DEF OrsetView
<1>13. OrsetInv BY <1>2, <1>3, <1>10, <1>12, Zenon DEF OrsetInv
<1>14. LwwInv
  <2>1. Writing(log) BY <1>4 DEF Writing
  <2>2. ASSUME type = "LWW" PROVE \A n \in Nodes : LwwView(log, replica[n].data, Zero)
    <3>1. \A n \in Nodes : replica[n].data.value = {} /\ replica[n].data.timestamp_us = 0
      <4> SUFFICES ASSUME NEW n \in Nodes
                   PROVE  replica[n].data.value = {} /\ replica[n].data.timestamp_us = 0
        OBVIOUS
      <4>1. Created(type, n, own_id) =
                [value |-> {}, timestamp_us |-> 0, node_id |-> IF own_id THEN n ELSE 0]
        BY <2>2 DEF Created
      <4> QED BY <1>2, <4>1
    <3> QED BY <1>5, <3>1, Zenon DEF LwwView
  <2> QED BY <1>2, <1>3, <2>1, <2>2 DEF LwwInv
<1> QED BY <1>7, <1>9, <1>11, <1>13, <1>14 DEF CRDTInv

\* Every step keeps the invariant.
LEMMA CRDTStep == CRDTInv /\ [Next]_vars => CRDTInv'
<1> SUFFICES ASSUME CRDTInv, [Next]_vars PROVE CRDTInv'
  OBVIOUS
<1>1. CASE UNCHANGED vars
  <2>1. type' = type /\ replica' = replica /\ copy' = copy /\ log' = log BY <1>1 DEF vars
  <2>2. TypeOK' /\ Causal' BY <2>1 DEF CRDTInv, TypeOK, Causal
  <2>3. Tags' /\ OrsetInv' BY <2>1 DEF CRDTInv, Tags, OrsetInv
  <2>4. LwwInv'
    <3>1. ClocksAgree' <=> ClocksAgree BY <2>1, AgreeFacts
    <3> QED BY <2>1, <3>1 DEF CRDTInv, LwwInv
  <2> QED BY <2>2, <2>3, <2>4 DEF CRDTInv
<1>2. CASE Next
  <2>1. PICK n \in Nodes :
            \/ gincrCommand(n) \/ pnincrCommand(n) \/ orsetAddCommand(n) \/ orsetRemoveCommand(n)
            \/ lwwSetCommand(n) \/ publish(n)
            \/ merge(n, copy)
            \/ \E m \in Nodes : merge(n, replica[m])
    BY <1>2 DEF Next
  <2>2. CASE gincrCommand(n) BY <2>2, GincrKeeps
  <2>3. CASE pnincrCommand(n) BY <2>3, PnincrKeeps
  <2>4. CASE orsetAddCommand(n) BY <2>4, AddKeeps
  <2>5. CASE orsetRemoveCommand(n) BY <2>5, RemoveKeeps
  <2>6. CASE lwwSetCommand(n) BY <2>6, SetKeeps
  <2>7. CASE publish(n) BY <2>7, PublishKeeps
  <2>8. CASE merge(n, copy) BY <2>8, CopiesMade, MergeKeeps
  <2>9. CASE \E m \in Nodes : merge(n, replica[m]) BY <2>9, CopiesMade, MergeKeeps
  <2> QED BY <2>1, <2>2, <2>3, <2>4, <2>5, <2>6, <2>7, <2>8, <2>9
<1> QED BY <1>1, <1>2

\* CRDTInv is an invariant of the replicated types.
THEOREM CRDTInvariant == Spec => []CRDTInv
BY InitInv, CRDTStep, PTL DEF Spec

(***************************************************************************)
(* The OR-Set of crdt.c: orset_contains finds an element in a replica      *)
(* exactly when orset_add was called for it, by a node whose add the       *)
(* replica has seen, and no orset_remove it has seen had seen that add,    *)
(* whatever copies orset_merge was given, in any order.                    *)
(***************************************************************************)
THEOREM ObservedRemoveHolds == Spec => []ObservedRemove
<1>1. CRDTInv => ObservedRemove
  <2> SUFFICES ASSUME CRDTInv, type = "ORSET", NEW n \in Nodes, NEW v \in Elements
               PROVE  orset_contains(replica[n].data, v) <=>
                          \E i \in Nodes : \E k \in Seen(n, i, "add") :
                              /\ log[i][k].arg = v
                              /\ \A j \in Nodes : \A l \in Seen(n, j, "remove") :
                                     log[j][l].arg = v => log[j][l].seen[i] < k
    BY DEF ObservedRemove
  <2> DEFINE D == replica[n].data.entries
             s == replica[n].seen
             Lives(i, k) == \A j \in Nodes : \A l \in Seen(n, j, "remove") :
                                log[j][l].arg = v => log[j][l].seen[i] < k
  <2>1. /\ D \in SUBSET Entries /\ s \in Vectors /\ log \in Logs /\ OrsetView(log, D, s) /\ Known(log, s)
    BY Zenon DEF CRDTInv, TypeOK, HasType, OrsetInv, Causal, Vectors, Logs
  <2>2. \A j \in Nodes : \A l \in 1 .. s[j] : \A i \in Nodes : log[j][l].seen[i] \in Nat
    <3>1. \A j \in Nodes : s[j] \in Nat /\ s[j] <= Len(log[j]) /\ Len(log[j]) \in Nat
      BY <2>1 DEF Vectors, Logs, Known
    <3>2. \A j \in Nodes : \A l \in 1 .. s[j] : l \in DOMAIN log[j] BY <2>1, <3>1 DEF Logs
    <3>3. \A j \in Nodes : \A l \in DOMAIN log[j] : log[j][l] \in Updates BY <2>1 DEF Logs
    <3> QED BY <3>2, <3>3 DEF Updates
  <2>3. \A i \in Nodes : \A k \in 1 .. s[i] : Lives(i, k) <=> ~Removed(log, s, i, k, v)
    <3> SUFFICES ASSUME NEW i \in Nodes, NEW k \in 1 .. s[i]
                 PROVE  Lives(i, k) <=> ~Removed(log, s, i, k, v)
      OBVIOUS
    <3>1. k \in Int OBVIOUS
    <3>2. \A j \in Nodes : \A l \in 1 .. s[j] : log[j][l].seen[i] < k <=> ~(k <= log[j][l].seen[i])
      BY <2>2, <3>1
    <3> QED BY <3>2 DEF Seen, Removed
  <2> HIDE DEF D, s, Lives
  <2>4. ASSUME NEW e \in D, e.value = v, ~e.removed
        PROVE  \E i \in Nodes : \E k \in Seen(n, i, "add") : log[i][k].arg = v /\ Lives(i, k)
    <3>1. e.origin \in Nodes BY <2>1 DEF Entries
    <3>2. PICK k \in 1 .. s[e.origin] : AddOf(log, e, k) BY <2>1, Zenon DEF OrsetView
    <3>3. Lives(e.origin, k) BY <2>1, <2>3, <2>4, <3>1, <3>2, Zenon DEF OrsetView
    <3>4. k \in Seen(n, e.origin, "add") /\ log[e.origin][k].arg = v
      BY <2>4, <3>2 DEF AddOf, Seen, s
    <3> QED BY <3>1, <3>3, <3>4
  <2>5. ASSUME NEW i \in Nodes, NEW k \in Seen(n, i, "add"), log[i][k].arg = v, Lives(i, k)
        PROVE  \E e \in D : e.value = v /\ ~e.removed
    <3>1. k \in 1 .. s[i] /\ log[i][k].op = "add" BY DEF Seen, s
    <3>2. PICK e \in D : e.origin = i /\ AddOf(log, e, k) BY <2>1, <3>1 DEF OrsetView
    <3>3. e.value = v BY <2>5, <3>2 DEF AddOf
    <3>4. ~Removed(log, s, i, k, v) BY <2>3, <2>5, <3>1
    <3>5. ~e.removed BY <2>1, <3>1, <3>2, <3>3, <3>4, Zenon DEF OrsetView
    <3> QED BY <3>3, <3>5
  <2> QED BY <2>4, <2>5 DEF orset_contains, D, Lives
<1> QED BY <1>1, CRDTInvariant, PTL

(***************************************************************************)
(* The register of crdt.c: as long as the wall clocks that lww_set reads   *)
(* agree, a replica holds the latest write it has seen, whatever copies    *)
(* lww_merge was given, in any order.                                      *)
(***************************************************************************)
THEOREM LatestWriteHeld == Spec => []LastWriteWins
<1>1. CRDTInv => LastWriteWins
  <2> SUFFICES ASSUME CRDTInv, type = "LWW", ClocksAgree, NEW n \in Nodes, NEW w \in Writes(n),
                      \A x \in Writes(n) : Time(x) <= Time(w)
               PROVE  replica[n].data.value = {log[w[1]][w[2]].arg}
    BY DEF LastWriteWins
  <2> DEFINE s == replica[n].seen
  <2>1. /\ Agree(log) /\ Writing(log) /\ LwwView(log, replica[n].data, s)
        /\ s \in Vectors /\ log \in Logs /\ Known(log, s)
    BY AgreeFacts, Zenon DEF CRDTInv, LwwInv, TypeOK, Causal, Vectors, Logs
  <2>2. \A i \in Nodes : \A k \in 1 .. s[i] : k \in DOMAIN log[i] /\ log[i][k].stamp \in Nat
    <3>1. \A j \in Nodes : s[j] \in Nat /\ s[j] <= Len(log[j]) /\ Len(log[j]) \in Nat
      BY <2>1 DEF Vectors, Logs, Known
    <3>2. \A j \in Nodes : \A l \in 1 .. s[j] : l \in DOMAIN log[j] BY <2>1, <3>1 DEF Logs
    <3>3. \A j \in Nodes : \A l \in DOMAIN log[j] : log[j][l] \in Updates BY <2>1 DEF Logs
    <3> QED BY <3>2, <3>3 DEF Updates
  <2>3. PICK i \in Nodes : \E k \in Seen(n, i, "set") : w = <<i, k>> BY DEF Writes
  <2>4. PICK k \in Seen(n, i, "set") : w = <<i, k>> BY <2>3
  <2>5. k \in 1 .. s[i] /\ w[1] = i /\ w[2] = k /\ s[i] \in Nat BY <2>1, <2>4, SMTT(20) DEF Seen, Vectors
  <2>6. PICK j \in Nodes, l \in Nat :
            /\ l \in 1 .. s[j] /\ replica[n].data.value = {log[j][l].arg}
            /\ log[i][k].stamp <= log[j][l].stamp
    BY <2>1, <2>5 DEF LwwView
  <2>7. <<j, l>> \in Writes(n)
    <3>1. l \in Seen(n, j, "set") BY <2>1, <2>2, <2>6, Zenon DEF Seen, Writing
    <3> QED BY <3>1 DEF Writes
  <2>8. log[j][l].stamp <= log[i][k].stamp BY <2>5, <2>7 DEF Time
  <2>9. log[j][l].stamp = log[i][k].stamp BY <2>2, <2>5, <2>6, <2>8, SMTT(20)
  <2>10. <<i, k>> = <<j, l>> BY <2>1, <2>2, <2>5, <2>6, <2>9 DEF Agree
  <2> QED BY <2>5, <2>6, <2>10
<1> QED BY <1>1, CRDTInvariant, PTL

(***************************************************************************)
(* Replicas that have seen the same updates agree: two sets have the same  *)
(* entries and, as long as the clocks agree, two registers the same value. *)
(***************************************************************************)
Convergent ==
    \A m, n \in Nodes : replica[m].seen = replica[n].seen =>
        /\ type = "ORSET" => replica[m].data.entries = replica[n].data.entries
        /\ type = "LWW" /\ ClocksAgree => replica[m].data.value = replica[n].data.value

\* The merges of crdt.c converge.
THEOREM ReplicasConverge == Spec => []Convergent
<1>1. CRDTInv => Convergent
  <2> SUFFICES ASSUME CRDTInv, NEW m \in Nodes, NEW n \in Nodes, replica[m].seen = replica[n].seen
               PROVE  /\ type = "ORSET" => replica[m].data.entries = replica[n].data.entries
                      /\ type = "LWW" /\ ClocksAgree => replica[m].data.value = replica[n].data.value
    BY DEF Convergent
  <2>1. ASSUME type = "ORSET" PROVE replica[m].data.entries = replica[n].data.entries
    <3> DEFINE D == replica[m].data.entries
               E == replica[n].data.entries
    <3>1. /\ D \in SUBSET Entries /\ E \in SUBSET Entries
          /\ OrsetView(log, D, replica[n].seen) /\ OrsetView(log, E, replica[n].seen)
      BY <2>1 DEF CRDTInv, TypeOK, HasType, OrsetInv
    <3> HIDE DEF D, E
    <3>2. D \subseteq E /\ E \subseteq D BY <3>1, OneSet
    <3> QED BY <3>2, Zenon DEF D, E
  <2>2. ASSUME type = "LWW", ClocksAgree PROVE replica[m].data.value = replica[n].data.value
    <3> DEFINE s == replica[n].seen
    <3>1. /\ LwwView(log, replica[m].data, s) /\ LwwView(log, replica[n].data, s) /\ Agree(log)
          /\ s \in Vectors /\ log \in Logs /\ Known(log, s)
      BY <2>2, AgreeFacts, Zenon DEF CRDTInv, LwwInv, TypeOK, Causal, Vectors, Logs
    <3>2. \A i \in Nodes : \A k \in 1 .. s[i] : k \in DOMAIN log[i] /\ log[i][k].stamp \in Nat
      <4>1. \A j \in Nodes : s[j] \in Nat /\ s[j] <= Len(log[j]) /\ Len(log[j]) \in Nat
        BY <3>1 DEF Vectors, Logs, Known
      <4>2. \A j \in Nodes : \A l \in 1 .. s[j] : l \in DOMAIN log[j] BY <3>1, <4>1 DEF Logs
      <4>3. \A j \in Nodes : \A l \in DOMAIN log[j] : log[j][l] \in Updates BY <3>1 DEF Logs
      <4> QED BY <4>2, <4>3 DEF Updates
    <3> HIDE DEF s
    <3>3. CASE \A i \in Nodes : s[i] = 0
      <4>1. \A i \in Nodes : 1 .. s[i] = {} BY <3>3
      <4> QED BY <3>1, <4>1, Zenon DEF LwwView
    <3>4. CASE ~\A i \in Nodes : s[i] = 0
      <4>1. PICK i \in Nodes, k \in Nat :
                /\ k \in 1 .. s[i] /\ replica[m].data.value = {log[i][k].arg}
                /\ \A j \in Nodes : \A l \in 1 .. s[j] : log[j][l].stamp <= log[i][k].stamp
        BY <3>1, <3>4, SMTT(20) DEF LwwView
      <4>2. PICK j \in Nodes, l \in Nat :
                /\ l \in 1 .. s[j] /\ replica[n].data.value = {log[j][l].arg}
                /\ \A h \in Nodes : \A g \in 1 .. s[h] : log[h][g].stamp <= log[j][l].stamp
        BY <3>1, <3>4, SMTT(20) DEF LwwView
      <4>3. log[j][l].stamp = log[i][k].stamp BY <3>2, <4>1, <4>2, SMTT(20)
      <4>4. <<i, k>> = <<j, l>> BY <3>1, <3>2, <4>1, <4>2, <4>3 DEF Agree
      <4> QED BY <4>1, <4>2, <4>4, SMTT(20)
    <3> QED BY <3>3, <3>4
  <2> QED BY <2>1, <2>2
<1> QED BY <1>1, CRDTInvariant, PTL
=============================================================================
