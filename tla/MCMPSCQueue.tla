---------------------------- MODULE MCMPSCQueue ----------------------------
(***************************************************************************)
(* Instances of MPSCQueue for TLC.                                         *)
(***************************************************************************)
EXTENDS MPSCQueue
=============================================================================
