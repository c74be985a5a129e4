------------------------------ MODULE Keyspace ------------------------------
(***************************************************************************)
(* The path of a key through the server (db.c): the databases, the filter  *)
(* of sovereign.c that answers misses without a lookup, and the object     *)
(* store of NexStorage, where the CRDT commands of t_hash.c keep their     *)
(* values and from which lookupKey promotes a key it does not find.        *)
(*                                                                         *)
(* Commands run on the main thread, one at a time.  A restart loads the    *)
(* snapshot written at shutdown; NexStorage and the filter start empty and *)
(* the hash function has a new seed.  The main store of NexStorage stays   *)
(* empty: only the workers of Engine write to it, and the server gives     *)
(* them no commands.                                                       *)
(***************************************************************************)
EXTENDS Integers, FiniteSets

CONSTANTS
    Dbs,           \* database numbers
    Keys,
    Values,        \* values of SET
    Hashes,        \* functions from keys to the bits of the filter, one per seed
    TTLs,          \* expire times of SET, from now; 0 for none
    MaxCount,      \* bound on the counters
    MaxTime,       \* bound on the clock
    None

ASSUME ConstantsAssumption ==
    /\ MaxCount \in Nat \ {0}
    /\ MaxTime \in Nat
    /\ TTLs \subseteq Nat
    /\ None \notin 1 .. MaxCount
    /\ None \notin Values

VARIABLES
    keys,          \* db -> key -> the value and its expire time, or None
    object,        \* key -> the counter in the object store, or None
    filter,        \* the bits of sovereign_filter that are set
    hash,          \* the hash function of this run of the server
    paused,        \* CLIENT PAUSE WRITE
    now,
    reply,         \* the value the last lookup for reading returned
    flushed        \* auxiliary: keys no command has written since FLUSHALL

vars == <<keys, object, filter, hash, paused, now, reply, flushed>>

Empty == [d \in Dbs |-> [k \in Keys |-> None]]

Init ==
    /\ keys = Empty
    /\ object = [k \in Keys |-> None]
    /\ filter = {}
    /\ hash \in Hashes
    /\ paused = FALSE
    /\ now = 0
    /\ reply = None
    /\ flushed = {}

-----------------------------------------------------------------------------
(* What one command does to the databases, the object store and the filter *)

State == [keys |-> keys, object |-> object, filter |-> filter]

Become(s) == keys' = s.keys /\ object' = s.object /\ filter' = s.filter

\* A key without expire time has expire = 0.
Expired(o) == o.expire # 0 /\ now > o.expire

Sovereign_SpeculativeMiss(s, k) == hash[k] \notin s.filter

Sovereign_UpdateFilter(s, k) == [s EXCEPT !.filter = @ \cup {hash[k]}]

\* kvstoreHashtableAdd leaves a key that exists alone.
kvstoreHashtableAdd(s, d, k, o) ==
    IF s.keys[d][k] = None THEN [s EXCEPT !.keys[d][k] = o] ELSE s

dbAdd(s, d, k, o) == Sovereign_UpdateFilter(kvstoreHashtableAdd(s, d, k, o), k)

\* Mutation: the bit of the key is cleared with it.
MutDeleteClearsBit(s, d, k) ==
    [s EXCEPT !.object[k] = None, !.keys[d][k] = None, !.filter = @ \ {hash[k]}]

\* Mutation: only the databases forget the key.
MutDeleteKeepsObject(s, d, k) == [s EXCEPT !.keys[d][k] = None]

\* NexStorage does not know databases.
dbGenericDelete(s, d, k) == [s EXCEPT !.object[k] = None, !.keys[d][k] = None]

promote(s, d, k) == dbAdd(s, d, k, [value |-> s.object[k], expire |-> 0])

\* While writes are paused an expired key is ignored and kept.
lookupKey(s, d, k) ==
    LET found == s.keys[d][k]
        live  == found # None /\ ~Expired(found)
        t     == IF found # None /\ ~live /\ ~paused THEN dbGenericDelete(s, d, k) ELSE s
    IN  IF Sovereign_SpeculativeMiss(s, k) THEN [state |-> s, val |-> None]
        ELSE IF live THEN [state |-> s, val |-> found.value]
        ELSE IF t.object[k] # None THEN [state |-> promote(t, d, k), val |-> t.object[k]]
        ELSE [state |-> t, val |-> None]

-----------------------------------------------------------------------------
(* Commands *)

\* GET, EXISTS and other readers
lookupKeyRead(d, k) ==
    LET found == lookupKey(State, d, k) IN
    /\ Become(found.state)
    /\ reply' = found.val
    /\ UNCHANGED <<hash, paused, now, flushed>>

\* SET: dbSetValue if the lookup found the key, dbAdd otherwise
setGenericCommand(d, k, v, ttl) ==
    LET found == lookupKey(State, d, k)
        o     == [value |-> v, expire |-> IF ttl = 0 THEN 0 ELSE now + ttl]
    IN  /\ ~paused
        /\ Become(IF found.val # None
                  THEN [found.state EXCEPT !.keys[d][k] = o]
                  ELSE dbAdd(found.state, d, k, o))
        /\ flushed' = flushed \ {k}
        /\ UNCHANGED <<hash, paused, now, reply>>

\* DEL, and the deletion of an expired key by the active expire cycle
delGenericCommand(d, k) ==
    /\ ~paused
    /\ Become(dbGenericDelete(State, d, k))
    /\ UNCHANGED <<hash, paused, now, reply, flushed>>

\* GINCR: nexstorage_rmw on the object store; neither the databases nor the
\* filter learn of the key.
gincrCommand(k) ==
    /\ ~paused
    /\ object[k] # None => object[k] < MaxCount
    /\ object' = [object EXCEPT ![k] = IF @ = None THEN 1 ELSE @ + 1]
    /\ flushed' = flushed \ {k}
    /\ UNCHANGED <<keys, filter, hash, paused, now, reply>>

flushallCommand ==
    /\ ~paused
    /\ keys' = Empty
    /\ flushed' = Keys
    /\ UNCHANGED <<object, filter, hash, paused, now, reply>>

client_pause ==
    /\ paused' = ~paused
    /\ UNCHANGED <<keys, object, filter, hash, now, reply, flushed>>

Loaded == {k \in Keys : \E d \in Dbs : keys[d][k] # None /\ ~Expired(keys[d][k])}

\* Mutation: the keys of the snapshot are not entered in the filter.
MutLoadNoFilter(h) == {}

dbAddRDBLoad(h) == {h[k] : k \in Loaded}

restart(h) ==
    /\ hash' = h
    /\ keys' = [d \in Dbs |-> [k \in Keys |->
                   IF keys[d][k] # None /\ ~Expired(keys[d][k]) THEN keys[d][k] ELSE None]]
    /\ filter' = dbAddRDBLoad(h)
    /\ object' = [k \in Keys |-> None]
    /\ paused' = FALSE
    /\ reply' = None
    /\ flushed' = {}
    /\ UNCHANGED now

tick ==
    /\ now < MaxTime
    /\ now' = now + 1
    /\ UNCHANGED <<keys, object, filter, hash, paused, reply, flushed>>

Next ==
    \/ \E d \in Dbs, k \in Keys :
           \/ lookupKeyRead(d, k) \/ delGenericCommand(d, k)
           \/ \E v \in Values, ttl \in TTLs : setGenericCommand(d, k, v, ttl)
    \/ \E k \in Keys : gincrCommand(k)
    \/ flushallCommand \/ client_pause \/ tick
    \/ \E h \in Hashes : restart(h)

Spec == Init /\ [][Next]_vars

-----------------------------------------------------------------------------

Objects == [value : Values \cup 1 .. MaxCount, expire : Nat] \cup {None}

\* The shape of the state; the filter holds bits of this run's hash only.
TypeOK ==
    /\ keys \in [Dbs -> [Keys -> Objects]]
    /\ object \in [Keys -> 1 .. MaxCount \cup {None}]
    /\ hash \in Hashes
    /\ filter \subseteq {hash[k] : k \in Keys}
    /\ paused \in BOOLEAN
    /\ now \in 0 .. MaxTime
    /\ flushed \subseteq Keys

(***************************************************************************)
(* Sovereign_SpeculativeMissByHash, "Definite miss": no key of a database  *)
(* is answered with a miss by the filter, whichever way it came in (dbAdd, *)
(* promotion, snapshot), whatever was deleted or shares its bit.           *)
(***************************************************************************)
DefiniteMiss ==
    \A d \in Dbs, k \in Keys : keys[d][k] # None => ~Sovereign_SpeculativeMiss(State, k)

(***************************************************************************)
(* SET stores its value: dbAdd, which a lookup that reports a miss leads   *)
(* to, never meets a key that exists.                                      *)
(***************************************************************************)
SetStores ==
    [][\A d \in Dbs, k \in Keys, v \in Values, ttl \in TTLs :
           setGenericCommand(d, k, v, ttl) => keys'[d][k].value = v]_vars

(***************************************************************************)
(* A lookup does not bring an expired key back to life: it deletes it, or  *)
(* keeps it as it is while expiration is paused, although a counter of     *)
(* the same name may be in NexStorage.                                     *)
(***************************************************************************)
NoRevival ==
    [][\A d \in Dbs, k \in Keys :
           lookupKeyRead(d, k) /\ keys[d][k] # None /\ Expired(keys[d][k])
               => keys'[d][k] \in {keys[d][k], None}]_vars

(***************************************************************************)
(* commands/flushall.json: FLUSHALL "Removes all keys from all databases." *)
(* A key that was not written since is in no database.                     *)
(***************************************************************************)
FlushedIsGone ==
    \A d \in Dbs, k \in flushed : keys[d][k] = None
=============================================================================
