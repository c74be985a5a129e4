------------------------------ MODULE CacheMap ------------------------------
(***************************************************************************)
(* What a NexStorage backend promises its callers: a map in which a key    *)
(* has the value set last, or none.  A value may be dropped (it expired,   *)
(* or it was evicted), but a lookup never returns anything else, and an    *)
(* operation on one key leaves the others alone.                           *)
(***************************************************************************)
CONSTANTS Keys, Values, None, OK, ERROR

VARIABLES
    map,     \* key -> its value, or None
    reply    \* what the last call returned

Init == map = [k \in Keys |-> None] /\ reply = None

Without(k) == [map EXCEPT ![k] = None]

\* What a call may do to key k and reply.
Set(k, old, new) == reply' = OK /\ new \in Values

\* A refused write may reveal that the old value has expired.
Refuse(k, old, new) == reply' = ERROR /\ new \in {old, None}

Get(k, old, new) == reply' = new /\ new \in {old, None}

Del(k, old, new) == reply' = (IF old = None THEN None ELSE OK) /\ new = None

\* Expiry and eviction, at a time of the backend's choosing.
Drop(old, new) == reply' = OK /\ \A k \in Keys : new[k] \in {old[k], None}

Next ==
    LET old == map
        new == map'
    IN  /\ DOMAIN new = Keys
        /\ \/ \E k \in Keys :
                /\ \A j \in Keys \ {k} : new[j] = old[j]
                /\ \/ Set(k, old[k], new[k]) \/ Refuse(k, old[k], new[k])
                   \/ Get(k, old[k], new[k]) \/ Del(k, old[k], new[k])
           \/ Drop(old, new)

Spec == Init /\ [][Next]_<<map, reply>>
=============================================================================
