------------------------------- MODULE MCVLL -------------------------------
(***************************************************************************)
(* Instances of VLL and of AOF, one of which moves in a behaviour while    *)
(* the other stays in its initial state:                                   *)
(*  - "vll": hashes 0 and 2 share slot 0 of a table of two slots, so both  *)
(*    a key met twice and two keys in one slot occur;                      *)
(*  - "aof": the writes, rewrites, failures and crashes of the .cfg.       *)
(***************************************************************************)
EXTENDS VLL, AOF

CONSTANT Parts

VARIABLE part

MCInit ==
    /\ part \in Parts
    /\ Init
    /\ AofInit
    /\ part = "vll" => policy = CHOOSE p \in AofPolicies : TRUE

MCNext ==
    \/ part = "vll" /\ Next /\ UNCHANGED <<part, aofVars>>
    \/ part = "aof" /\ AofNext /\ UNCHANGED <<part, vars>>

\* The fairness of the part that moves.
MCSpec ==
    /\ MCInit /\ [][MCNext]_<<part, vars, aofVars>>
    /\ \A t \in Threads : WF_vars(part = "vll" /\ Step(t))
    /\ WF_aofVars(part = "aof" /\ CronRewrite)
    /\ WF_aofVars(part = "aof" /\ RewriteHandler)
=============================================================================
