------------------------------- MODULE MCCRDT -------------------------------
(***************************************************************************)
(* Instances of CRDT and of HazardPtr, one of which moves in a behaviour   *)
(* while the other stays in one of its initial states:                     *)
(*  - "crdt": three nodes and three updates of one key: a concurrent pair  *)
(*    and a third node that learns of it from either, or from an old copy; *)
(*  - "hazard": two threads that read, replace and retire two objects, and *)
(*    scan after each retired one; o1 is the first, as they are alike.     *)
(***************************************************************************)
EXTENDS CRDT, HazardPtr, TLC

CONSTANT o1

VARIABLE part

MCInit ==
    /\ part \in {"crdt", "hazard"}
    /\ Init
    /\ HazardInit /\ shared = o1
    /\ part = "hazard" => type = "GCOUNTER" /\ copy = [data |-> Zero, seen |-> Zero]

MCNext ==
    \/ part = "crdt" /\ Next /\ UNCHANGED <<part, hazardVars>>
    \/ part = "hazard" /\ HazardNext /\ UNCHANGED <<part, vars>>

MCSpec == MCInit /\ [][MCNext]_<<part, vars, hazardVars>>

\* The elements of the sets are alike.
Symmetry == Permutations(Elements)

\* Clocks that disagreed once disagree for good: LastWriteWins says nothing
\* about the states that follow.
StillAgree == type = "LWW" => ClocksAgree
=============================================================================
