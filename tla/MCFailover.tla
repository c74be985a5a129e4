------------------------------ MODULE MCFailover ------------------------------
(***************************************************************************)
(* Model checking of ClusterElection and ClusterConfig: a run explores one *)
(* of them at a time, the one that layer names.                            *)
(***************************************************************************)
EXTENDS ClusterElection, ClusterConfig, TLC

VARIABLE layer

vars == <<electionVars, configVars, layer>>

Init ==
    /\ ElectionInit
    /\ ConfigInit
    /\ layer \in {"election", "config"}
    /\ layer = "config" => \A n \in Nodes : ~node[n].failed

Next ==
    \/ layer = "election" /\ ElectionNext /\ UNCHANGED <<layer, configVars>>
    \/ layer = "config" /\ ConfigNext /\ UNCHANGED <<layer, electionVars>>

Spec == Init /\ [][Next]_vars

\* Replicas of the shard are alike, and so are the other primaries.
Symmetry == {f @@ g : f \in Permutations(Replicas), g \in Permutations(Voters)}

=============================================================================
