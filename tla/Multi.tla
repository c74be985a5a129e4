-------------------------------- MODULE Multi --------------------------------
(***************************************************************************)
(* MULTI, EXEC, DISCARD, WATCH and UNWATCH (multi.c) on a primary, with    *)
(* the commands of other connections that write, expire, flush, swap or    *)
(* restore the watched keys (db.c, cluster.c).                             *)
(*                                                                         *)
(* All of it runs on the main thread: one command is one step.  A key of a *)
(* database is none, plain, volatile (it has an expire time ahead) or      *)
(* lapsed (its expire time has passed and nobody has deleted it yet).      *)
(*                                                                         *)
(* EXEC locks its keys with VLL, which refuses a request that names a key  *)
(* twice with a write among the two; no other thread takes these locks.    *)
(***************************************************************************)
EXTENDS Integers, FiniteSets, Sequences, SequencesExt

CONSTANTS
    Clients,       \* the connections that watch keys
    Selects,       \* client -> the databases it selects before WATCH
    Executors,     \* the clients that go on to MULTI
    Keys,
    Commands,      \* commands a transaction may queue: <<name, db, key>>
    MaxQueue       \* bound on the commands of a transaction

VARIABLES
    store,         \* db -> key -> none, plain, volatile or lapsed
    watched,       \* place -> db->watched_keys: the watchedKey of each client
    client,        \* client -> its flags and c->mstate
    watching,      \* server.watching_clients
    since,         \* auxiliary: client -> place -> what happened to it since WATCH
    lost           \* auxiliary: the clients told QUEUED of a command that is gone

vars == <<store, watched, client, watching, since, lost>>

Databases == {0, 1}
Places == Databases \X Keys

NewClient ==
    [multi |-> FALSE, dirty_cas |-> FALSE, dirty_exec |-> FALSE, commands |-> << >>]

NotWatched == [p \in Places |-> "unwatched"]

Init ==
    /\ store = [d \in Databases |-> [k \in Keys |-> "none"]]
    /\ watched = [p \in Places |-> << >>]
    /\ client = [c \in Clients |-> NewClient]
    /\ watching = 0
    /\ since = [c \in Clients |-> NotWatched]
    /\ lost = {}

-----------------------------------------------------------------------------
(* A command works on the server's state as a record, so that EXEC can run *)
(* its commands one after the other.                                       *)

Server ==
    [store |-> store, watched |-> watched, client |-> client,
     watching |-> watching, since |-> since, lost |-> lost]

Become(s) ==
    /\ store' = s.store
    /\ watched' = s.watched
    /\ client' = s.client
    /\ watching' = s.watching
    /\ since' = s.since
    /\ lost' = s.lost

dbFind(s, p) == s.store[p[1]][p[2]] # "none"

keyIsExpired(s, p) == s.store[p[1]][p[2]] = "lapsed"

Live(s, p) == dbFind(s, p) /\ ~keyIsExpired(s, p)

Put(s, p, v) == [s EXCEPT !.store[p[1]][p[2]] = v]

\* Auxiliary: the clients that watch the places ps no longer see the same.
Change(s, ps, how) ==
    [s EXCEPT !.since =
        [c \in Clients |->
            [p \in Places |->
                IF p \in ps /\ @[c][p] \in {"same", "changed"} THEN how ELSE @[c][p]]]]

Watches(s, c) ==
    {p \in Places : \E i \in DOMAIN s.watched[p] : s.watched[p][i].client = c}

unwatchAllKeys(s, cs) ==
    [s EXCEPT
        !.watched = [p \in Places |->
                        SelectSeq(@[p], LAMBDA wk : wk.client \notin cs)],
        !.watching = @ - Cardinality({c \in cs : Watches(s, c) # {}})]

resetClientMultiState(s, cs) ==
    [s EXCEPT
        !.client = [c \in Clients |->
                       IF c \in cs THEN [@[c] EXCEPT !.commands = << >>] ELSE @[c]],
        !.lost = @ \cup {c \in cs : s.client[c].commands # << >>}]

\* c->flag.dirty_cas = 1, for the clients cs.
MarkDirty(s, cs) ==
    [resetClientMultiState(s, cs) EXCEPT !.client =
        [c \in Clients |-> [@[c] EXCEPT !.dirty_cas = @ \/ c \in cs]]]

\* The walk ends at the first watchedKey that was lapsed at WATCH, unless the
\* key is gone now.
touchWatchedKey(s, p) ==
    LET list == s.watched[p]
        gone == ~dbFind(s, p)
        Reached(i) == gone \/ \A j \in 1 .. i - 1 : ~list[j].expired
        touched == {list[i].client : i \in {n \in DOMAIN list :
                                        ~list[n].expired /\ Reached(n)}}
        t == unwatchAllKeys(MarkDirty(s, touched), touched)
    IN  IF gone
        THEN [t EXCEPT !.watched[p] =
                [i \in DOMAIN @ |-> [@[i] EXCEPT !.expired = FALSE]]]
        ELSE t

\* signalModifiedKey after a change of the value.  A watchedKey that still says
\* its key was lapsed, though the key is there, hides the change from the
\* clients behind it.
signalModifiedKey(s, p) ==
    LET hidden == dbFind(s, p) /\ \E i \in DOMAIN s.watched[p] : s.watched[p][i].expired
    IN  Change(touchWatchedKey(s, p), {p}, IF hidden THEN "hidden" ELSE "changed")

-----------------------------------------------------------------------------
(* The commands on one key                                                 *)

expireIfNeeded(s, p) ==
    IF keyIsExpired(s, p) THEN touchWatchedKey(Put(s, p, "none"), p) ELSE s

setKey(s, p, v) ==
    signalModifiedKey(Put(expireIfNeeded(s, p), p, v), p)

delGenericCommand(s, p) ==
    IF Live(s, p) THEN signalModifiedKey(Put(s, p, "none"), p)
    ELSE expireIfNeeded(s, p)

\* RESTORE with REPLACE deletes the old key itself: no expireIfNeeded.
restoreCommand(s, p, v) == signalModifiedKey(Put(s, p, v), p)

call(s, cmd) ==
    LET p == <<cmd[2], cmd[3]>>
    IN  CASE cmd[1] = "get" -> expireIfNeeded(s, p)
          [] cmd[1] = "set" -> setKey(s, p, "plain")
          [] cmd[1] = "setex" -> setKey(s, p, "volatile")
          [] cmd[1] = "del" -> delGenericCommand(s, p)
          [] cmd[1] = "restore" -> restoreCommand(s, p, "plain")

(* FLUSHDB and SWAPDB: the database e is emptied, or replaced with r.      *)
\* Mutation: a deleted key that was swapped for a lapsed one keeps its flag.
MutSwapForgets(s, p, q, wk) ==
    CASE wk.expired /\ (q = p \/ ~dbFind(s, q)) -> "live"
      [] wk.expired /\ q # p /\ keyIsExpired(s, q) -> "lapsed"
      [] ~wk.expired /\ ~dbFind(s, p) /\ keyIsExpired(s, q) -> "live"
      [] OTHER -> "dirty"

\* The watchedKey wk of the place p: what becomes of its flag, or dirty.
AfterTouchAll(s, p, q, wk) ==
    CASE wk.expired /\ (q = p \/ ~dbFind(s, q)) -> "live"
      [] wk.expired /\ q # p /\ keyIsExpired(s, q) -> "lapsed"
      [] ~wk.expired /\ ~dbFind(s, p) /\ keyIsExpired(s, q) -> "lapsed"
      [] OTHER -> "dirty"

\* r = e when there is no replacement.
touchAllWatchedKeysInDb(s, e, r) ==
    LET Meant(p) == p[1] = e /\ (dbFind(s, p) \/ dbFind(s, <<r, p[2]>>))
        After(p, wk) == AfterTouchAll(s, p, <<r, p[2]>>, wk)
        dirty == UNION {{s.watched[p][i].client : i \in
                            {n \in DOMAIN s.watched[p] :
                                After(p, s.watched[p][n]) = "dirty"}} :
                        p \in {x \in Places : Meant(x)}}
        Flag(p, wk) == IF After(p, wk) = "dirty" THEN wk
                       ELSE [wk EXCEPT !.expired = After(p, wk) = "lapsed"]
    IN  MarkDirty(
            [s EXCEPT !.watched =
                [p \in Places |->
                    IF Meant(p) THEN [i \in DOMAIN @[p] |-> Flag(p, @[p][i])]
                    ELSE @[p]]],
            dirty)

flushdbCommand(d) ==
    LET s == touchAllWatchedKeysInDb(Server, d, d)
        gone == {p \in Places : p[1] = d /\ Live(Server, p)}
    IN  Become([Change(s, gone, "changed") EXCEPT !.store[d] = [k \in Keys |-> "none"]])

dbSwapDatabases ==
    LET s == touchAllWatchedKeysInDb(touchAllWatchedKeysInDb(Server, 0, 1), 1, 0)
        moved == {p \in Places : Live(Server, p) \/ Live(Server, <<1 - p[1], p[2]>>)}
    IN  Become([Change(s, moved, "changed") EXCEPT !.store = [d \in Databases |-> @[1 - d]]])

\* The expire time of a key passes.
Lapse(p) ==
    /\ store[p[1]][p[2]] = "volatile"
    /\ Become(Change(Put(Server, p, "lapsed"), {p}, "changed"))

\* A connection outside the transactions runs a command on a key.
OtherCommand(name, p) == Become(call(Server, <<name, p[1], p[2]>>))

-----------------------------------------------------------------------------
(* The transactions                                                        *)

watchForKey(s, c, p) ==
    IF p \in Watches(s, c) THEN s
    ELSE [s EXCEPT
            !.watching = IF Watches(s, c) = {} THEN @ + 1 ELSE @,
            !.watched[p] = Append(@, [client |-> c, expired |-> keyIsExpired(s, p)]),
            !.since[c][p] = "same"]

\* Refused inside MULTI, where WATCH fails the transaction: see flagTransaction.
watchCommand(c, p) ==
    /\ p[1] \in Selects[c]
    /\ ~client[c].multi
    /\ IF client[c].dirty_cas THEN Become(Server)
       ELSE Become(watchForKey(Server, c, p))

unwatchCommand(c) ==
    /\ ~client[c].multi
    /\ Become([unwatchAllKeys(Server, {c}) EXCEPT
                  !.client[c].dirty_cas = FALSE,
                  !.since[c] = NotWatched])

multiCommand(c) ==
    /\ c \in Executors
    /\ ~client[c].multi
    /\ Become([Server EXCEPT !.client[c].multi = TRUE])

\* The client is answered QUEUED also when the command is dropped.
queueMultiCommand(c, cmd) ==
    /\ client[c].multi
    /\ IF client[c].dirty_cas \/ client[c].dirty_exec
       THEN Become([Server EXCEPT !.lost = @ \cup {c}])
       ELSE /\ Len(client[c].commands) < MaxQueue
            /\ Become([Server EXCEPT !.client[c].commands = Append(@, cmd)])

\* From rejectCommand.
flagTransaction(c) ==
    /\ client[c].multi
    /\ Become([resetClientMultiState(Server, {c}) EXCEPT !.client[c].dirty_exec = TRUE])

discardTransaction(s, c) ==
    [unwatchAllKeys(s, {c}) EXCEPT
        !.client[c] = NewClient,
        !.since[c] = NotWatched,
        !.lost = @ \ {c}]

discardCommand(c) ==
    /\ client[c].multi
    /\ Become(discardTransaction(Server, c))

\* Mutation: EXEC does not look for watched keys that lapsed.
MutNoExpiredTest(c) == FALSE

isWatchedKeyExpired(c) ==
    \E p \in Places : \E i \in DOMAIN watched[p] :
        /\ watched[p][i].client = c
        /\ ~watched[p][i].expired
        /\ keyIsExpired(Server, p)

\* EXEC answers nil, or EXECABORT.
Fails(c) ==
    client[c].dirty_cas \/ isWatchedKeyExpired(c) \/ client[c].dirty_exec

execDiscarded(c) ==
    /\ client[c].multi
    /\ Fails(c)
    /\ Become(discardTransaction(Server, c))

\* VLL: two requests for one key of which one writes.
vllRefuses(cmds) ==
    \E i, j \in DOMAIN cmds :
        i < j /\ cmds[i][3] = cmds[j][3] /\ (cmds[i][1] # "get" \/ cmds[j][1] # "get")

\* The early return also leaves c->flag.deny_blocking set.
execRefused(c) ==
    /\ client[c].multi
    /\ ~Fails(c)
    /\ vllRefuses(client[c].commands)
    /\ Become(discardTransaction(Server, c))

execRuns(c) ==
    /\ client[c].multi
    /\ ~Fails(c)
    /\ ~vllRefuses(client[c].commands)
    /\ LET start == unwatchAllKeys(Server, {c})
       IN  Become(discardTransaction(
               FoldLeft(call, start, client[c].commands), c))

\* The connection is closed; another takes its place.
freeClient(c) == Become(discardTransaction(Server, c))

Next ==
    \/ \E c \in Clients :
        \/ \E p \in Places : watchCommand(c, p)
        \/ unwatchCommand(c)
        \/ multiCommand(c)
        \/ \E cmd \in Commands : queueMultiCommand(c, cmd)
        \/ flagTransaction(c)
        \/ discardCommand(c)
        \/ execDiscarded(c)
        \/ execRefused(c)
        \/ execRuns(c)
        \/ freeClient(c)
    \/ \E p \in Places :
        \/ Lapse(p)
        \/ \E name \in {"get", "set", "setex", "del", "restore"} : OtherCommand(name, p)
    \/ \E d \in Databases : flushdbCommand(d)
    \/ dbSwapDatabases

Spec == Init /\ [][Next]_vars

-----------------------------------------------------------------------------
(* Properties                                                              *)

\* An EXEC that would run its commands finds every key it watched as it was at
\* WATCH: touchWatchedKey says that it touches a key "so that if this key is
\* being WATCHed by some client the next EXEC will fail".  Excepted are writes
\* to a key that is there while some client's watchedKey still says that it was
\* lapsed, which do escape it: no other write, deletion, expiry, FLUSHDB or
\* SWAPDB in either database does.
WatchedUnchangedUnlessHidden ==
    \A c \in Clients : client[c].multi /\ ~Fails(c) =>
        \A p \in Places : since[c][p] # "changed"

\* EXEC answers nil only to a client one of whose watched keys did change: the
\* lazy deletion, flush or swap of a key that was lapsed at WATCH is no change.
AbortsForAReason ==
    \A c \in Clients : client[c].dirty_cas \/ isWatchedKeyExpired(c) =>
        \E p \in Places : since[c][p] \in {"changed", "hidden"}

\* What EXEC runs is every command the client was answered QUEUED for:
\* queueMultiCommand and resetClientMultiState drop commands only of a
\* transaction whose EXEC will fail.
RunsAllQueued ==
    \A c \in Clients : client[c].multi /\ ~Fails(c) =>
        c \notin lost
==============================================================================
