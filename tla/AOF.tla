-------------------------------- MODULE AOF --------------------------------
(***************************************************************************)
(* The multi-part append only file of aof.c: a BASE file, the INCR files   *)
(* that follow it, the manifest that names them, the rewrite child, the    *)
(* bio worker that fsyncs and closes files, appendonly switched off and on *)
(* at run time, and what a restart loads after a crash.                    *)
(*                                                                         *)
(* A write is its position in the history of the dataset, so the dataset   *)
(* is <<1, ..., db>> and a file is the sequence of the writes it replays.  *)
(* A BASE file replays the prefix the child saw at the fork.  Every write  *)
(* advances primary_repl_offset by one: db is also that offset.            *)
(***************************************************************************)
EXTENDS Integers, Sequences, FiniteSets, SequencesExt, TLC

CONSTANTS
  MaxWrites,        \* bound on the length of the dataset
  MaxAofEvents,     \* bound on the rewrites a client asks for, the changes of
                    \* appendonly, the failures and the crashes together
  AofPolicies,      \* the appendfsync settings: "always", "everysec"
  RewriteWhileOff,  \* may BGREWRITEAOF be issued while AOF is off?
  DieInFlush        \* may the process die between write(2) and fsync(2)?

VARIABLES
  policy,           \* server.aof_fsync
  mem,              \* the AOF fields of struct server: lost in a crash
  files,            \* the directory: name -> what write(2) and fsync(2) left
  disk,             \* the manifest file
  acked,            \* writes answered to their client under "always"
  aofEvents         \* how many of those there were

aofVars == <<policy, mem, files, disk, acked, aofEvents>>

Base(n) == <<"base", n>>
Incr(n) == <<"incr", n>>
TempIncr == <<"temp", 0>>
NoFile == <<"none", 0>>
NoChild == -1

\* aofManifest.  curr_base_file_seq and curr_incr_file_seq are bseq and iseq.
Manifest(base, incr, hist, bseq, iseq) ==
  [base |-> base, incr |-> incr, hist |-> hist, bseq |-> bseq, iseq |-> iseq]

Written(cmds) == [cmds |-> cmds, synced |-> Len(cmds)]
EmptyFile == Written(<<>>)
Dataset(n) == [i \in 1..n |-> i]

---------------------------------------------------------------------------
(* Loading. *)

\* The BASE file and the INCR files in the order they are replayed.
Active(m) == (IF m.base = 0 THEN <<>> ELSE <<Base(m.base)>>)
             \o [i \in DOMAIN m.incr |-> Incr(m.incr[i])]

\* A file the manifest names and the directory lacks is a fatal error.
Loads(m, fs) == \A i \in DOMAIN Active(m) : Active(m)[i] \in DOMAIN fs

loadAppendOnlyFiles(m, fs) ==
  FlattenSeq([i \in DOMAIN Active(m) |-> fs[Active(m)[i]].cmds])

\* The sequence numbers are taken from the BASE line and the last INCR line.
aofLoadManifestFromFile(m) ==
  [m EXCEPT !.bseq = m.base, !.iseq = IF m.incr = <<>> THEN 0 ELSE Last(m.incr)]

---------------------------------------------------------------------------
(* The manifest in memory. *)

getNewBaseFileNameAndMarkPreAsHistory(m) ==
  [m EXCEPT !.hist = @ \cup (IF m.base = 0 THEN {} ELSE {Base(m.base)}),
            !.bseq = @ + 1, !.base = m.bseq + 1]

getNewIncrAofName(m) ==
  [m EXCEPT !.iseq = @ + 1, !.incr = Append(@, m.iseq + 1)]

\* The bug of forgetting that the last INCR file is being written.
MutMarkLast(m, fd) ==
  [m EXCEPT !.hist = @ \cup {Incr(n) : n \in Range(m.incr)}, !.incr = <<>>]

\* The last INCR file is kept when a file is open for writing.
markRewrittenIncrAofAsHistory(m, fd) ==
  LET kept == IF fd # NoFile /\ m.incr # <<>> THEN <<Last(m.incr)>> ELSE <<>>
  IN [m EXCEPT !.hist = @ \cup {Incr(n) : n \in Range(m.incr) \ Range(kept)},
               !.incr = kept]

Unlink(fs, names) == [f \in DOMAIN fs \ names |-> fs[f]]
Create(fs, f, content) == [g \in DOMAIN fs \cup {f} |-> IF g = f THEN content ELSE fs[g]]
Rename(fs, f, g) == Create(Unlink(fs, {f}), g, fs[f])

---------------------------------------------------------------------------
(* Writing.  A world w is [mem, files, disk]; the operators below map a    *)
(* world to the one the function leaves.                                   *)

World == [mem |-> mem, files |-> files, disk |-> disk]

\* fsync(2) through a descriptor: a file that was unlinked is out of reach.
Synced(fs, f) == IF f \in DOMAIN fs THEN [fs EXCEPT ![f].synced = Len(fs[f].cmds)] ELSE fs

WriteBuffer(w) ==
  [w EXCEPT !.files = IF w.mem.fd \in DOMAIN w.files
                        THEN [w.files EXCEPT ![w.mem.fd].cmds = @ \o w.mem.buf]
                        ELSE w.files,
            !.mem.dirty = @ \/ w.mem.buf # <<>>,
            !.mem.buf = <<>>]

Job(w) == [file |-> w.mem.fd, offset |-> w.mem.db]

\* The bug of answering clients before the fsync of "always".
MutTryFsync(w, elapsed, busy) ==
  IF policy = "everysec" /\ elapsed /\ ~busy
    THEN [w EXCEPT !.mem.jobs = Append(@, Job(w)), !.mem.dirty = FALSE]
    ELSE w

TryFsync(w, elapsed, busy) ==
  IF policy = "always"
    THEN [w EXCEPT !.files = Synced(@, w.mem.fd), !.mem.dirty = FALSE,
                   !.mem.pending = w.mem.db]
    ELSE IF elapsed /\ ~busy
      THEN [w EXCEPT !.mem.jobs = Append(@, Job(w)), !.mem.dirty = FALSE]
      ELSE w

\* elapsed: a second has passed since aof_last_fsync.  patient: the write has
\* been postponed for less than two seconds.
flushAppendOnlyFile(w, force, elapsed, patient) ==
  LET busy == policy = "everysec" /\ w.mem.jobs # <<>>
      fsyncDue == w.mem.dirty /\ (policy = "always" \/ (elapsed /\ ~busy))
      \* sync_in_progress is read only when the tests before it hold.
      busySeen == policy = "everysec" /\ w.mem.dirty /\ elapsed /\ busy
  IN CASE w.mem.buf = <<>> /\ fsyncDue -> TryFsync(w, elapsed, FALSE)
       [] w.mem.buf = <<>> /\ ~fsyncDue /\ busySeen -> w
       [] w.mem.buf = <<>> /\ ~fsyncDue /\ ~busySeen -> [w EXCEPT !.mem.pending = w.mem.db]
       [] w.mem.buf # <<>> /\ busy /\ ~force /\ patient -> w
       [] OTHER -> TryFsync(WriteBuffer(w), elapsed, busy)

feedAppendOnlyFile(m) == m.state = "ON" \/ (m.state = "WAIT" /\ m.child # NoChild)

---------------------------------------------------------------------------
(* Opening files. *)

NewIncr(w) == getNewIncrAofName(w.mem.am)

openNewIncrAofForAppend(w) ==
  IF w.mem.state = "OFF" THEN w
  ELSE LET am == IF w.mem.state = "WAIT" THEN w.mem.am ELSE NewIncr(w)
           name == IF w.mem.state = "WAIT" THEN TempIncr ELSE Incr(am.iseq)
       IN [w EXCEPT !.files = Create(@, name, EmptyFile),
                    !.disk = IF w.mem.state = "WAIT" THEN @ ELSE am,
                    !.mem.am = am,
                    !.mem.jobs = IF w.mem.fd = NoFile THEN @ ELSE Append(@, Job(w)),
                    !.mem.fd = name,
                    !.mem.dirty = FALSE]

\* The manifest could not be replaced: the new file stays, nothing names it.
OpenFails(w) == [w EXCEPT !.files = Create(@, Incr(NewIncr(w).iseq), EmptyFile)]

RunJob(w, job) == [w EXCEPT !.files = Synced(@, job.file), !.mem.pending = job.offset]

bioDrainWorker(w) == [FoldLeft(RunJob, w, w.mem.jobs) EXCEPT !.mem.jobs = <<>>]

\* The bug of opening the new INCR file with writes still in the buffer.
MutBeforeRewrite(w, elapsed) == w

BeforeRewrite(w, elapsed) == flushAppendOnlyFile(w, TRUE, elapsed, FALSE)

\* The files a rewrite needs are open; the fork follows.
ReadyToFork(w, elapsed) ==
  LET o == openNewIncrAofForAppend(BeforeRewrite(w, elapsed))
  IN IF w.mem.state = "WAIT"
       THEN [bioDrainWorker(o) EXCEPT !.mem.pending = w.mem.db, !.mem.fsynced = 0]
       ELSE o

Forked(w) == [w EXCEPT !.mem.child = w.mem.db]

---------------------------------------------------------------------------
(* Steps.  pc is where the main thread is in backgroundRewriteDoneHandler, *)
(* or in the start of the server; "idle" is the event loop.                *)

Is(w) == mem' = w.mem /\ files' = w.files /\ disk' = w.disk
Idle == mem.pc = "idle"
AofEvent == aofEvents < MaxAofEvents /\ aofEvents' = aofEvents + 1

AofInit ==
  /\ policy \in AofPolicies
  /\ disk = Manifest(1, <<1>>, {}, 1, 1)
  /\ files = (Base(1) :> EmptyFile) @@ (Incr(1) :> EmptyFile)
  /\ mem = [state |-> "ON", fd |-> Incr(1), buf |-> <<>>, dirty |-> FALSE, db |-> 0,
            child |-> NoChild, am |-> disk, next |-> disk, jobs |-> <<>>,
            pending |-> 0, fsynced |-> 0, pc |-> "idle"]
  /\ acked = 0
  /\ aofEvents = 0

\* A write command is executed and propagated.
AofWrite ==
  /\ Idle
  /\ mem.db < MaxWrites
  /\ mem' = [mem EXCEPT !.db = @ + 1,
                        !.buf = IF feedAppendOnlyFile(mem) THEN Append(@, mem.db + 1) ELSE @]
  /\ UNCHANGED <<policy, files, disk, acked, aofEvents>>

\* beforeSleep: the buffer is flushed, then the replies leave.
BeforeSleep ==
  \E elapsed, patient \in BOOLEAN :
    LET w == flushAppendOnlyFile(World, FALSE, elapsed, patient)
    IN /\ Idle
       /\ mem.state # "OFF"
       /\ Is([w EXCEPT !.mem.fsynced = IF mem.state = "ON" /\ @ # -1 THEN w.mem.pending ELSE @])
       /\ acked' = IF policy = "always" /\ mem.state = "ON" /\ mem.buf # <<>> THEN mem.db ELSE acked
       /\ UNCHANGED <<policy, aofEvents>>

\* bioProcessBackgroundJobs: the worker ends its oldest AOF job.
BioJob ==
  /\ mem.jobs # <<>>
  /\ Is([RunJob(World, Head(mem.jobs)) EXCEPT !.mem.jobs = Tail(@)])
  /\ UNCHANGED <<policy, acked, aofEvents>>

\* The ways rewriteAppendOnlyFileBackground ends in the world w.
RewriteStarts(w, elapsed) == Is(Forked(ReadyToFork(w, elapsed)))
ForkFails(w, elapsed) == Is(ReadyToFork(w, elapsed)) /\ AofEvent
IncrFails(w, elapsed) ==
  /\ w.mem.state = "ON"
  /\ Is(OpenFails(BeforeRewrite(w, elapsed)))
  /\ AofEvent

MayRewrite == Idle /\ mem.child = NoChild

bgrewriteaofCommand ==
  /\ MayRewrite
  /\ mem.state = "ON" \/ (mem.state = "OFF" /\ RewriteWhileOff)
  /\ \E elapsed \in BOOLEAN :
       \/ RewriteStarts(World, elapsed) /\ AofEvent
       \/ ForkFails(World, elapsed)
       \/ IncrFails(World, elapsed)
  /\ UNCHANGED <<policy, acked>>

\* The bug of scheduling the rewrite only if no temporary INCR file is open.
MutScheduled == MayRewrite /\ mem.state = "WAIT" /\ mem.fd = NoFile

\* serverCron starts the rewrite AOF_WAIT_REWRITE scheduled.
Scheduled == MayRewrite /\ mem.state = "WAIT"

CronRewrite ==
  /\ Scheduled
  /\ \E elapsed \in BOOLEAN : RewriteStarts(World, elapsed)
  /\ UNCHANGED <<policy, acked, aofEvents>>

CronRewriteFails ==
  /\ Scheduled
  /\ \E elapsed \in BOOLEAN : ForkFails(World, elapsed)
  /\ UNCHANGED <<policy, acked>>

stopAppendOnly ==
  LET w == IF mem.fd = NoFile THEN World ELSE flushAppendOnlyFile(World, TRUE, FALSE, FALSE)
  IN /\ Idle
     /\ mem.state # "OFF"
     /\ Is([w EXCEPT !.files = Synced(@, mem.fd),
                     !.mem.fd = NoFile, !.mem.state = "OFF", !.mem.dirty = FALSE,
                     !.mem.fsynced = -1, !.mem.pending = 0, !.mem.child = NoChild,
                     !.mem.buf = <<>>])
     /\ acked' = 0
     /\ AofEvent
     /\ UNCHANGED policy

\* The child of a rewrite started while AOF was off is killed.
startAppendOnly ==
  LET w == [World EXCEPT !.mem.state = "WAIT", !.mem.child = NoChild]
  IN /\ Idle
     /\ mem.state = "OFF"
     /\ \E elapsed \in BOOLEAN :
          \/ RewriteStarts(w, elapsed) /\ UNCHANGED aofEvents
          \/ LET f == ReadyToFork(w, elapsed) IN Is([f EXCEPT !.mem.state = "OFF"]) /\ AofEvent
     /\ UNCHANGED <<policy, acked>>

\* The end of backgroundRewriteDoneHandler for a rewrite that failed.
Cleanup(w) ==
  [w EXCEPT !.mem.pc = "idle", !.mem.child = NoChild,
            !.mem.buf = IF w.mem.state = "WAIT" THEN <<>> ELSE @,
            !.files = IF w.mem.state = "WAIT" THEN Unlink(@, {TempIncr}) ELSE @]

\* The child fails, or its file cannot be renamed.
RewriteFails ==
  /\ Idle
  /\ mem.child # NoChild
  /\ Is(Cleanup(World))
  /\ AofEvent
  /\ UNCHANGED <<policy, acked>>

\* A descriptor follows its file to the new name.
RenameJob(job, name) == [job EXCEPT !.file = IF @ = TempIncr THEN name ELSE @]

\* The temporary files get the names the next manifest has for them.
RewriteDone ==
  LET m1 == getNewBaseFileNameAndMarkPreAsHistory(mem.am)
      m2 == IF mem.state = "WAIT" THEN getNewIncrAofName(m1) ELSE m1
      fs == Create(files, Base(m1.base), Written(Dataset(mem.child)))
  IN /\ Idle
     /\ mem.child # NoChild
     /\ files' = IF mem.state = "WAIT" THEN Rename(fs, TempIncr, Incr(m2.iseq)) ELSE fs
     /\ mem' = [mem EXCEPT !.pc = "persist",
                           !.next = markRewrittenIncrAofAsHistory(m2, mem.fd),
                           !.fd = IF mem.state = "WAIT" THEN Incr(m2.iseq) ELSE @,
                           !.jobs = [i \in DOMAIN @ |-> RenameJob(@[i], Incr(m2.iseq))]]
     /\ UNCHANGED <<policy, disk, acked, aofEvents>>

\* persistAofManifest writes a temporary file, renames it and fsyncs the
\* directory before the next step.
Persisted == mem.next

PersistRewrite ==
  /\ mem.pc = "persist"
  /\ disk' = Persisted
  /\ mem' = [mem EXCEPT !.pc = "gc", !.am = mem.next]
  /\ UNCHANGED <<policy, files, acked, aofEvents>>

PersistFails ==
  LET new == {Base(mem.next.base)} \cup IF mem.state = "WAIT" THEN {mem.fd} ELSE {}
  IN /\ mem.pc = "persist"
     /\ Is(Cleanup([World EXCEPT !.files = Unlink(@, new)]))
     /\ AofEvent
     /\ UNCHANGED <<policy, acked>>

\* AOF_WAIT_REWRITE ends: fsynced_reploff becomes valid.
Finished(m) ==
  [m EXCEPT !.pc = "idle", !.child = NoChild,
            !.state = IF @ = "WAIT" THEN "ON" ELSE @,
            !.fsynced = IF m.state = "WAIT" THEN m.pending ELSE @]

\* aofDelHistoryFiles: the files are unlinked, then the manifest forgets them.
aofDelHistoryFiles ==
  /\ mem.pc = "gc"
  /\ files' = Unlink(files, mem.am.hist)
  /\ mem' = IF mem.am.hist = {} THEN Finished(mem)
            ELSE [mem EXCEPT !.am.hist = {}, !.pc = "forget"]
  /\ UNCHANGED <<policy, disk, acked, aofEvents>>

ForgetHistory ==
  /\ mem.pc = "forget"
  /\ mem' = Finished(mem)
  /\ \/ disk' = mem.am /\ UNCHANGED aofEvents
     \/ UNCHANGED disk /\ AofEvent
  /\ UNCHANGED <<policy, files, acked>>

\* What the disk may hold after a power loss: each file keeps what was
\* fsynced and some of what was written after it.
PowerLoss(fs) ==
  LET Unsynced == {f \in DOMAIN fs : fs[f].synced < Len(fs[f].cmds)}
      Kept == {n \in [Unsynced -> 0..MaxWrites] : \A f \in Unsynced : n[f] \in fs[f].synced..Len(fs[f].cmds)}
      Left(f, n) == [cmds |-> SubSeq(fs[f].cmds, 1, n), synced |-> n]
  IN {[f \in DOMAIN fs |-> IF f \in Unsynced THEN Left(f, n[f]) ELSE fs[f]] : n \in Kept}

\* What a crash may leave.  Under "everysec" only the process dies.  It may
\* die in flushAppendOnlyFile between the write and the fsync, as it does
\* when one of the two fails under "always".
Crashed ==
  LET torn == IF mem.state = "OFF" \/ ~DieInFlush THEN {files} ELSE {files, WriteBuffer(World).files}
  IN IF policy = "always" THEN UNION {PowerLoss(fs) : fs \in torn} \cup torn ELSE torn

aofOpenIfNeededOnServerStart(m) ==
  IF m.incr = <<>> THEN getNewIncrAofName(m) ELSE m

\* The process dies and starts with "appendonly yes".
CrashRestart ==
  \E fs \in Crashed :
    LET m == aofLoadManifestFromFile(disk)
        am == aofOpenIfNeededOnServerStart(m)
        name == Incr(Last(am.incr))
        data == loadAppendOnlyFiles(m, fs)
    IN /\ AofEvent
       /\ Loads(m, fs)
       /\ files' = IF name \in DOMAIN fs THEN fs ELSE Create(fs, name, EmptyFile)
       /\ disk' = am
       /\ mem' = [state |-> "ON", fd |-> name, buf |-> <<>>, dirty |-> FALSE, db |-> Len(data),
                  child |-> NoChild, am |-> am, next |-> am, jobs |-> <<>>,
                  pending |-> 0, fsynced |-> 0, pc |-> "gc"]
       /\ UNCHANGED <<policy, acked>>

RewriteHandler == RewriteDone \/ PersistRewrite \/ aofDelHistoryFiles \/ ForgetHistory

AofNext ==
  \/ AofWrite \/ BeforeSleep \/ BioJob
  \/ bgrewriteaofCommand \/ CronRewrite \/ CronRewriteFails
  \/ stopAppendOnly \/ startAppendOnly
  \/ RewriteHandler \/ RewriteFails \/ PersistFails
  \/ CrashRestart

AofSpec == AofInit /\ [][AofNext]_aofVars

---------------------------------------------------------------------------
(* Properties. *)

\* While AOF is on, what a restart would load followed by aof_buf is exactly
\* the dataset, at every point of a rewrite, of its failure and of the removal
\* of the history files: no write is missing and none is replayed twice.
FilesPlusBuffer ==
  mem.state = "ON" => Loads(disk, files) /\ loadAppendOnlyFiles(disk, files) \o mem.buf = Dataset(mem.db)

\* A restart always finds the files its manifest names and loads a prefix of
\* the history, also while AOF is off or waits for its first rewrite.
Recoverable ==
  Loads(disk, files) /\ IsPrefix(loadAppendOnlyFiles(disk, files), Dataset(MaxWrites))

\* Under "always" a write whose client got its reply survives a power loss at
\* any instant: the contract flushAppendOnlyFile exits to keep.
AckedSurvive ==
  policy = "always" =>
    \A fs \in Crashed : Loads(disk, fs) /\ Len(loadAppendOnlyFiles(disk, fs)) >= acked

\* AOF_WAIT_REWRITE does not last: the rewrite is scheduled again until one
\* succeeds or AOF is switched off.
WaitEnds == (mem.state = "WAIT") ~> (mem.state # "WAIT")

\* History files may be deleted late or not at all: no file the manifest
\* needs is ever missing.
HistoryIsHarmless == Loads(disk, files)
=============================================================================
