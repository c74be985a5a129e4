---------------------------- MODULE LockService ----------------------------
(***************************************************************************)
(* What the Virtual Lock Layer promises its callers: a transaction gets    *)
(* all its locks in one step, and only when nobody else's locks exclude    *)
(* them; it gives all of them up in one step.                              *)
(***************************************************************************)
EXTENDS Integers

CONSTANTS Threads, Slots, READ, WRITE

VARIABLE granted   \* thread -> the set of <<slot, lock type>> it has

Compatible(ls, ms) ==
    \A l \in ls, m \in ms : l[1] = m[1] => l[2] = READ /\ m[2] = READ

Init == granted = [t \in Threads |-> {}]

Grant(t, ls) ==
    /\ granted' = [granted EXCEPT ![t] = ls]
    /\ granted[t] = {}
    /\ \A u \in Threads \ {t} : Compatible(ls, granted[u])

Release(t) ==
    /\ granted[t] # {}
    /\ granted' = [granted EXCEPT ![t] = {}]

Next ==
    \E t \in Threads :
        \/ \E ls \in (SUBSET (Slots \X {READ, WRITE})) \ {{}} : Grant(t, ls)
        \/ Release(t)

Spec == Init /\ [][Next]_granted
=============================================================================
