----------------------------- MODULE MCSegcache -----------------------------
(***************************************************************************)
(* Instances of Segcache and of NexDash, one of which moves in a           *)
(* behaviour:                                                              *)
(*  - "segcache": k1 and k2 share a bucket and a fingerprint, k3 lives in  *)
(*    another shard;                                                       *)
(*  - "dash": a table whose segments have two slots, so that the third key *)
(*    of a segment forces a rehash; k1 and k2 have equal hashes, and k3    *)
(*    parts from them only after the second rehash;                        *)
(*  - "ttl": a table of one slot and two keys that expire.                 *)
(***************************************************************************)
EXTENDS Segcache, TLC

CONSTANTS Parts, k1, k2, k3, OK, ERROR

MCBucket  == (k1 :> 1 @@ k2 :> 1 @@ k3 :> 2)
MCBucket2 == (k1 :> 1 @@ k2 :> 1)
MCFp      == (k1 :> 7 @@ k2 :> 7 @@ k3 :> 7)
MCFp2     == (k1 :> 7 @@ k2 :> 7)
MCShardOf == (1 :> 1 @@ 2 :> 2)
OneShard  == (1 :> 1)

VARIABLES part, directory, item_count, used_memory, bloom, heap, dashNow, reply

Dash == INSTANCE NexDash WITH
    Keys <- {k1, k2, k3}, Hash <- (k1 :> 0 @@ k2 :> 0 @@ k3 :> 2),
    Values <- 1 .. 6, Blocks <- (k1 :> {1, 2} @@ k2 :> {3, 4} @@ k3 :> {5, 6}),
    SizeOf <- [v \in 1 .. 6 |-> 1 + (v % 2)], TTLs <- {}, Buckets <- 2, SlotsPer <- 1, Shift <- 2,
    InitSegments <- 1, MaxSegments <- 4, Granularity <- 2, Overhead <- 1, MaxTime <- 2,
    now <- dashNow

TTL == INSTANCE NexDash WITH
    Keys <- {k1, k2}, Hash <- (k1 :> 0 @@ k2 :> 0),
    Values <- 1 .. 4, Blocks <- (k1 :> {1, 2} @@ k2 :> {3, 4}),
    SizeOf <- [v \in 1 .. 4 |-> 1], TTLs <- {2}, Buckets <- 1, SlotsPer <- 1, Shift <- 2,
    InitSegments <- 1, MaxSegments <- 1, Granularity <- 2, Overhead <- 1, MaxTime <- 6,
    now <- dashNow

ASSUME DashAssumptions ==
    /\ Dash!SizeAssumption /\ Dash!InputAssumption
    /\ TTL!SizeAssumption /\ TTL!InputAssumption

dashVars == <<directory, item_count, used_memory, bloom, heap, dashNow, reply>>

MCInit ==
    /\ part \in Parts
    /\ Init
    /\ IF part = "ttl" THEN TTL!Init ELSE Dash!Init

MCNext ==
    \/ part = "segcache" /\ Next /\ UNCHANGED <<part, dashVars>>
    \/ part = "dash" /\ Dash!Next /\ UNCHANGED <<part, vars>>
    \/ part = "ttl" /\ TTL!Next /\ UNCHANGED <<part, vars>>

\* The fairness of Segcache; in the other parts nothing is expected to happen.
MCSpec == MCInit /\ [][MCNext]_<<part, vars, dashVars>> /\ Fairness

-----------------------------------------------------------------------------
(* The properties of NexDash for the part that moves; see there. *)

\* Every entry is where ndapi_get probes for it, after rehashes too, and the
\* table accounts exactly for its entries: the allocated NDValue blocks are
\* theirs, so that none is leaked or freed twice, and used_memory is their cost.
DashExactAccounts ==
    /\ part = "dash" => Dash!Reachable /\ Dash!ExactHeap /\ Dash!ExactMemory
    /\ part = "ttl" => TTL!Reachable /\ TTL!ExactHeap /\ TTL!ExactMemory

\* A table is a map that forgets only what it drops, grown or not; a value with
\* a time to live is served until its deadline and not after.
DashIsATimedMap ==
    /\ [][(part = "dash" => Dash!Map!Next) /\ (part = "ttl" => TTL!Map!Next)]_dashVars
    /\ TTL!ServedUntilDeadline
=============================================================================
