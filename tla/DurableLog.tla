------------------------------ MODULE DurableLog ------------------------------
(***************************************************************************)
(* A durable session's write-ahead log, its checkpoint file, and what of   *)
(* them a crash leaves.  Everything that appends, publishes or fixes a     *)
(* (graph, LSN, offset) triple runs under the commit gate, so there is one *)
(* commit in flight at most; save and the online checkpoint share the      *)
(* checkpoint gate.  The online checkpoint writes its file with neither    *)
(* gate nor lock held, so commits, direct writes and crashes interleave    *)
(* with it freely.                                                         *)
(*                                                                         *)
(* What is abstracted:                                                     *)
(*   - A graph is the sequence of commits applied to it, so a frame        *)
(*     replayed twice, out of order or over newer state is a different     *)
(*     graph.  Module WalReplay is about what folding frames computes.     *)
(*   - Offsets count frames; the header is offset 0.  A torn frame is no   *)
(*     frame: the scan stops there and repair_tail cuts it.                *)
(*   - A file is what the page cache holds (a process crash keeps it) and  *)
(*     what the platter holds for certain.  Losing power keeps the platter *)
(*     and any prefix of what was written since.  A rename is certain only *)
(*     once its directory is synced; until then the name may still lead    *)
(*     to the file it replaced.                                            *)
(***************************************************************************)
EXTENDS Integers, Sequences, SequencesExt, Kept

CONSTANTS
    Scenarios,    \* what a session is opened with and what may happen to it
    MaxCommits,   \* bound on commits and direct writes attempted
    MaxRewrites,  \* bound on checkpoints started
    MaxCrashes    \* bound on crashes

AllFaults == {"append", "barrier", "cut", "clone", "file", "dirsync", "reopen",
              "logdir"}

Scenario ==
    [level : {"normal", "full"},
     uses : SUBSET {"save", "online", "sync", "direct"},
     faults : SUBSET AllFaults,                  \* the file operations that may fail
     crashes : SUBSET {"process", "power"}]      \* how the process may die

ASSUME DurableLogAssumption ==
    /\ Scenarios \subseteq Scenario
    /\ MaxCommits \in Nat /\ MaxRewrites \in Nat /\ MaxCrashes \in Nat

VARIABLES
    scenario,     \* fixed for a run
    \* the process
    mem,          \* the published graph: the commits applied, in order
    nextLsn,      \* DurableState.next_lsn
    diverged,     \* DurableState.diverged
    end, epoch, poisoned,   \* Wal.end, Wal.epoch, Wal.poisoned
    inflight,     \* the staged commit, as a record; see Idle
    pending,      \* direct writes between mark_diverged and the commit gate
    ckpt,         \* the checkpoint running, as a record; see NoCheckpoint
    \* the disk
    cache, platter,   \* the log's frames: page cache and platter
    olderLogs,    \* logs the directory may still name after a power loss
    file,         \* the checkpoint file
    olderFiles,   \* checkpoint files the directory may still name
    \* what clients were told
    acked,        \* commits acknowledged
    refused,      \* commits refused with DurabilityFailed
    stranded,     \* those of them whose frame a poisoned log was left with
    promised,     \* commits whose survival of a power loss was promised
    \* bounds
    attempts, rewrites, crashes

process == <<mem, nextLsn, diverged, end, epoch, poisoned, inflight, pending, ckpt>>
logFile == <<cache, platter, olderLogs>>
ckptFile == <<file, olderFiles>>
told    == <<acked, refused, stranded, promised>>
bounds  == <<attempts, rewrites, crashes>>
vars    == <<scenario, process, logFile, ckptFile, told, bounds>>

-----------------------------------------------------------------------------
Commits == 1 .. MaxCommits
Frame == [lsn : Nat, commit : Commits]
File == [lsn : Nat, graph : Seq(Commits)]

Idle == [pc |-> "none", commit |-> 0, lsn |-> 0, prevEnd |-> 0]
NoCheckpoint == [pc |-> "none", kind |-> "save", lsn |-> 0, graph |-> <<>>,
                 offset |-> 0, epoch |-> 0]

TypeOK ==
    /\ scenario \in Scenarios
    /\ mem \in Seq(Commits)
    /\ nextLsn \in Nat \ {0}
    /\ diverged \in BOOLEAN /\ poisoned \in BOOLEAN
    /\ end \in Nat /\ epoch \in Nat
    /\ inflight \in [pc : {"none", "staged"}, commit : 0 .. MaxCommits,
                     lsn : Nat, prevEnd : Nat]
    /\ pending \subseteq Commits
    /\ ckpt \in [pc : {"none", "barrier", "write", "renamed", "synced", "truncated", "trimmed"},
                 kind : {"save", "online"}, lsn : Nat, graph : Seq(Commits),
                 offset : Nat, epoch : Nat]
    /\ cache \in Seq(Frame) /\ platter \in Seq(Frame)
    /\ \A o \in olderLogs : o \in [cache : Seq(Frame), platter : Seq(Frame)]
    /\ file \in File
    /\ \A f \in olderFiles : f \in File
    /\ acked \subseteq Commits /\ promised \subseteq Commits
    /\ refused \subseteq Commits /\ stranded \subseteq refused
    /\ attempts \in 0 .. MaxCommits
    /\ rewrites \in 0 .. MaxRewrites
    /\ crashes \in 0 .. MaxCrashes

\* open_durable on a checkpoint that holds nothing, with a fresh log.
Init ==
    /\ scenario \in Scenarios
    /\ mem = <<>> /\ nextLsn = 1 /\ diverged = FALSE
    /\ end = 0 /\ epoch = 0 /\ poisoned = FALSE
    /\ inflight = Idle /\ pending = {} /\ ckpt = NoCheckpoint
    /\ cache = <<>> /\ platter = <<>> /\ olderLogs = {}
    /\ file = [lsn |-> 0, graph |-> <<>>] /\ olderFiles = {}
    /\ acked = {} /\ refused = {} /\ stranded = {} /\ promised = {}
    /\ attempts = 0 /\ rewrites = 0 /\ crashes = 0

-----------------------------------------------------------------------------
Elems(s) == {s[i] : i \in DOMAIN s}
FirstN(s, n) == SubSeq(s, 1, n)
FromN(s, n) == SubSeq(s, n + 1, Len(s))

\* A stretch of the code that holds the graph and durable locks throughout.
LocksHeld ==
    \/ ckpt.kind = "save" /\ ckpt.pc # "none"
    \/ ckpt.pc \in {"truncated", "trimmed"}

\* The commit gate is free: no commit mid-barrier, no save, no trim.
GateFree == inflight.pc = "none" /\ ~LocksHeld

Full == scenario.level = "full"
CanFail(op) == op \in scenario.faults

\* Mutant of Unreplayed: the frame the checkpoint ends with is replayed again.
UnreplayedInclusive(f, log) == Kept(log, {i \in DOMAIN log : log[i].lsn >= f.lsn})

\* Frames an open would replay: those past the file's checkpoint_lsn.
Unreplayed(f, log) == Kept(log, {i \in DOMAIN log : log[i].lsn > f.lsn})
Recovered(f, log) ==
    LET tail == Unreplayed(f, log)
    IN  f.graph \o [i \in DOMAIN tail |-> tail[i].commit]

-----------------------------------------------------------------------------
(* A commit: stage, barrier, publish.                                      *)

NewCommit == attempts + 1
NewFrame == [lsn |-> nextLsn, commit |-> NewCommit]

\* The bytes are in the log and the LSN is consumed; the barrier is to come.
StageOk ==
    /\ cache' = Append(cache, NewFrame)
    /\ end' = end + 1
    /\ nextLsn' = nextLsn + 1
    /\ inflight' = [pc |-> "staged", commit |-> NewCommit, lsn |-> nextLsn, prevEnd |-> end]
    /\ UNCHANGED <<platter, poisoned, refused>>

\* cut_back_to_end: the file is cut to `n` frames, and synced under a barrier.
\* (One step here, done or not; in module WalFile the cut may be done and its
\* sync fail.)
CutBackTo(n) ==
    /\ cache' = FirstN(cache, n)
    /\ platter' = IF Full THEN cache' ELSE platter

\* The write failed: cut back to the last complete frame, or poison the log
\* (what the short write left is torn).
StageWriteFails ==
    /\ CanFail("append")
    /\ \/ CutBackTo(end) /\ UNCHANGED poisoned
       \/ CanFail("cut") /\ poisoned' = TRUE /\ UNCHANGED <<cache, platter>>
    /\ refused' = refused \cup {NewCommit}
    /\ UNCHANGED <<end, nextLsn, inflight>>

\* Duplicating the handle for the barrier failed: `end` is put back, and the
\* frame stays in the file.
StageCloneFails ==
    /\ Full /\ CanFail("clone")
    /\ cache' = Append(cache, NewFrame)
    /\ refused' = refused \cup {NewCommit}
    /\ UNCHANGED <<platter, end, nextLsn, inflight, poisoned>>

\* stage_working_commit; a diverged session or a poisoned log refuses outright.
Stage ==
    /\ GateFree
    /\ attempts < MaxCommits
    /\ ~diverged /\ ~poisoned
    /\ StageOk \/ StageWriteFails \/ StageCloneFails
    /\ attempts' = attempts + 1
    /\ UNCHANGED <<mem, diverged, epoch, pending, ckpt, olderLogs, ckptFile,
                   acked, stranded, promised, rewrites, crashes>>

\* The barrier succeeds (there is none at `normal`) and the graph is swapped.
Publish ==
    /\ inflight.pc = "staged"
    /\ platter' = IF Full THEN cache ELSE platter
    /\ mem' = Append(mem, inflight.commit)
    /\ acked' = acked \cup {inflight.commit}
    /\ promised' = IF Full THEN promised \cup {inflight.commit} ELSE promised
    /\ inflight' = Idle
    /\ UNCHANGED <<nextLsn, diverged, end, epoch, poisoned, pending, ckpt, cache,
                   olderLogs, ckptFile, refused, stranded, bounds>>

\* Mutants of BarrierFails: the frame is left in; the LSN is stepped back once
\* more than it was stepped forward.
BarrierFailsKeepingFrame ==
    /\ inflight.pc = "staged"
    /\ Full /\ CanFail("barrier")
    /\ refused' = refused \cup {inflight.commit}
    /\ inflight' = Idle
    /\ UNCHANGED <<mem, nextLsn, diverged, end, epoch, poisoned, pending, ckpt,
                   logFile, ckptFile, acked, stranded, promised, bounds>>

BarrierFailsLsnOff ==
    /\ inflight.pc = "staged"
    /\ Full /\ CanFail("barrier")
    /\ CutBackTo(inflight.prevEnd)
    /\ refused' = refused \cup {inflight.commit}
    /\ end' = inflight.prevEnd
    /\ nextLsn' = inflight.lsn - 1
    /\ inflight' = Idle
    /\ UNCHANGED <<mem, diverged, epoch, poisoned, pending, ckpt, olderLogs,
                   ckptFile, acked, stranded, promised, bounds>>

\* The barrier fails: the frame is cut back out and its LSN given back.  If
\* the cut fails too the frame stays, at the end of a log that takes no more.
\* The client is refused either way.
BarrierFails ==
    /\ inflight.pc = "staged"
    /\ Full /\ CanFail("barrier")
    /\ \/ CutBackTo(inflight.prevEnd) /\ UNCHANGED <<poisoned, stranded>>
       \/ /\ CanFail("cut")
          /\ poisoned' = TRUE
          /\ stranded' = stranded \cup {inflight.commit}
          /\ UNCHANGED <<cache, platter>>
    /\ refused' = refused \cup {inflight.commit}
    /\ end' = inflight.prevEnd
    /\ nextLsn' = inflight.lsn
    /\ inflight' = Idle
    /\ UNCHANGED <<mem, diverged, epoch, pending, ckpt, olderLogs, ckptFile,
                   acked, promised, bounds>>

\* sync(): refused when diverged; nothing to do at `full`; else a barrier.
Sync ==
    /\ "sync" \in scenario.uses
    /\ GateFree
    /\ ~diverged
    /\ Full \/ ~poisoned
    /\ platter' = IF Full THEN platter ELSE cache
    /\ promised' = promised \cup Elems(mem)
    /\ UNCHANGED <<process, cache, olderLogs, ckptFile, acked, refused, stranded, bounds>>

-----------------------------------------------------------------------------
(* write() and transact() on a durable session: mark_diverged takes the    *)
(* durable lock on its own, before the commit gate.                        *)

MarkDiverged ==
    /\ "direct" \in scenario.uses
    /\ ~LocksHeld
    /\ attempts < MaxCommits
    /\ attempts' = attempts + 1
    /\ pending' = pending \cup {NewCommit}
    /\ diverged' = TRUE
    /\ UNCHANGED <<mem, nextLsn, end, epoch, poisoned, inflight, ckpt, logFile,
                   ckptFile, told, rewrites, crashes>>

DirectWrite(w) ==
    /\ w \in pending
    /\ GateFree
    /\ pending' = pending \ {w}
    /\ mem' = Append(mem, w)
    /\ UNCHANGED <<nextLsn, diverged, end, epoch, poisoned, inflight, ckpt, logFile,
                   ckptFile, told, bounds>>

-----------------------------------------------------------------------------
(* Checkpoints: save holds every lock; the online one only to fix its      *)
(* point and to trim.                                                      *)

\* Mutant of Point: the stamp claims the LSN the next commit will take.
PointAhead(kind, pc) ==
    [pc |-> pc, kind |-> kind, lsn |-> nextLsn, graph |-> mem,
     offset |-> end, epoch |-> epoch]

\* The triple both kinds fix, and the file stamp it becomes.
Point(kind, pc) ==
    [pc |-> pc, kind |-> kind, lsn |-> nextLsn - 1, graph |-> mem,
     offset |-> end, epoch |-> epoch]

StartCheckpoint ==
    /\ ckpt.pc = "none"
    /\ GateFree
    /\ rewrites < MaxRewrites
    /\ rewrites' = rewrites + 1

\* checkpoint_prologue: flush the log (a poisoned one refuses), then stamp.
SaveStart ==
    /\ "save" \in scenario.uses
    /\ StartCheckpoint
    /\ ~poisoned
    /\ platter' = cache
    /\ ckpt' = Point("save", "write")
    /\ UNCHANGED <<mem, nextLsn, diverged, end, epoch, poisoned, inflight, pending,
                   cache, olderLogs, ckptFile, told, attempts, crashes>>

\* begin_online; at `normal` the frames in the snapshot still need a barrier.
OnlineStart ==
    /\ "online" \in scenario.uses
    /\ StartCheckpoint
    /\ ~diverged
    /\ ckpt' = Point("online", IF Full THEN "write" ELSE "barrier")
    /\ UNCHANGED <<mem, nextLsn, diverged, end, epoch, poisoned, inflight, pending,
                   logFile, ckptFile, told, attempts, crashes>>

OnlineBarrier ==
    /\ ckpt.pc = "barrier"
    /\ platter' = cache
    /\ ckpt' = [ckpt EXCEPT !.pc = "write"]
    /\ UNCHANGED <<mem, nextLsn, diverged, end, epoch, poisoned, inflight, pending,
                   cache, olderLogs, ckptFile, told, bounds>>

\* write_kgl_with_stamp: the synced temp file is renamed over the checkpoint...
RenameFile ==
    /\ ckpt.pc = "write"
    /\ file' = [lsn |-> ckpt.lsn, graph |-> ckpt.graph]
    /\ olderFiles' = olderFiles \cup {file}
    /\ ckpt' = [ckpt EXCEPT !.pc = "renamed"]
    /\ UNCHANGED <<mem, nextLsn, diverged, end, epoch, poisoned, inflight, pending,
                   logFile, told, bounds>>

\* ...and the directory synced, which makes the rename certain.
SyncFileDir ==
    /\ ckpt.pc = "renamed"
    /\ olderFiles' = {}
    /\ ckpt' = [ckpt EXCEPT !.pc = "synced"]
    /\ UNCHANGED <<mem, nextLsn, diverged, end, epoch, poisoned, inflight, pending,
                   logFile, file, told, bounds>>

\* The write, the rename or the directory sync fails: the log stays whole.
CheckpointFails ==
    /\ \/ CanFail("file") /\ ckpt.pc \in {"barrier", "write"}
       \/ CanFail("dirsync") /\ ckpt.pc = "renamed"
    /\ ckpt' = NoCheckpoint
    /\ UNCHANGED <<mem, nextLsn, diverged, end, epoch, poisoned, inflight, pending,
                   logFile, ckptFile, told, bounds>>

StaleOffset == poisoned \/ ckpt.epoch # epoch \/ ckpt.offset > end

\* Mutant of TruncateLog: the rename's directory has not been synced.
TruncateLogEarly ==
    /\ ckpt.pc \in {"renamed", "synced"}
    /\ \/ ckpt.kind = "save"
       \/ inflight.pc = "none" /\ ~StaleOffset /\ ckpt.offset = end
    /\ cache' = <<>>
    /\ ckpt' = [ckpt EXCEPT !.pc = "truncated"]
    /\ UNCHANGED <<mem, nextLsn, diverged, end, epoch, poisoned, inflight, pending,
                   platter, olderLogs, ckptFile, told, bounds>>

\* reset(), for a save or for a trim with nothing committed since: the file
\* is truncated in place...
TruncateLog ==
    /\ ckpt.pc = "synced"
    /\ \/ ckpt.kind = "save"
       \/ inflight.pc = "none" /\ ~StaleOffset /\ ckpt.offset = end
    /\ cache' = <<>>
    /\ ckpt' = [ckpt EXCEPT !.pc = "truncated"]
    /\ UNCHANGED <<mem, nextLsn, diverged, end, epoch, poisoned, inflight, pending,
                   platter, olderLogs, ckptFile, told, bounds>>

\* Mutant of SyncTruncation: an online checkpoint clears the latch too.
SyncTruncationUnlatching ==
    /\ ckpt.pc = "truncated"
    /\ platter' = <<>>
    /\ end' = 0
    /\ epoch' = epoch + 1
    /\ poisoned' = FALSE
    /\ diverged' = FALSE
    /\ promised' = promised \cup Elems(ckpt.graph)
    /\ ckpt' = NoCheckpoint
    /\ UNCHANGED <<mem, nextLsn, inflight, pending, cache, olderLogs, ckptFile,
                   acked, refused, stranded, bounds>>

\* ...and the truncation synced.  A save has now folded direct writes in.
SyncTruncation ==
    /\ ckpt.pc = "truncated"
    /\ platter' = <<>>
    /\ end' = 0
    /\ epoch' = epoch + 1
    /\ poisoned' = FALSE
    /\ diverged' = (diverged /\ ckpt.kind = "online")
    /\ promised' = promised \cup Elems(ckpt.graph)
    /\ ckpt' = NoCheckpoint
    /\ UNCHANGED <<mem, nextLsn, inflight, pending, cache, olderLogs, ckptFile,
                   acked, refused, stranded, bounds>>

\* trim_through with commits since: the kept tail, synced, is renamed over the
\* log; the append handle moves to it, or the log is poisoned.
TrimLog ==
    /\ ckpt.pc = "synced" /\ ckpt.kind = "online"
    /\ inflight.pc = "none"
    /\ ~StaleOffset /\ ckpt.offset < end
    /\ cache' = SubSeq(cache, ckpt.offset + 1, end)
    /\ platter' = cache'
    /\ olderLogs' = olderLogs \cup {[cache |-> cache, platter |-> platter]}
    /\ \/ /\ end' = end - ckpt.offset
          /\ epoch' = epoch + 1
          /\ ckpt' = [ckpt EXCEPT !.pc = "trimmed"]
          /\ UNCHANGED poisoned
       \/ /\ CanFail("reopen")
          /\ poisoned' = TRUE
          /\ ckpt' = NoCheckpoint
          /\ UNCHANGED <<end, epoch>>
    /\ UNCHANGED <<mem, nextLsn, diverged, inflight, pending, ckptFile, told, bounds>>

\* The log's directory is synced; a failure is reported and nothing else.
SyncLogDir ==
    /\ ckpt.pc = "trimmed"
    /\ \/ olderLogs' = {} /\ promised' = promised \cup Elems(ckpt.graph)
       \/ CanFail("logdir") /\ UNCHANGED <<olderLogs, promised>>
    /\ ckpt' = NoCheckpoint
    /\ UNCHANGED <<mem, nextLsn, diverged, end, epoch, poisoned, inflight, pending,
                   cache, platter, ckptFile, acked, refused, stranded, bounds>>

\* The log was poisoned or rewritten meanwhile: the trim is refused.
TrimRefused ==
    /\ ckpt.pc = "synced" /\ ckpt.kind = "online"
    /\ inflight.pc = "none"
    /\ StaleOffset
    /\ ckpt' = NoCheckpoint
    /\ UNCHANGED <<mem, nextLsn, diverged, end, epoch, poisoned, inflight, pending,
                   logFile, ckptFile, told, bounds>>

-----------------------------------------------------------------------------
(* Crashes and reopening.                                                  *)

\* What a power loss may leave of a file with these two contents.
Survivors(platterNow, cacheNow) ==
    LET agreed == LongestCommonPrefix({platterNow, cacheNow})
        From(s) == {FirstN(s, n) : n \in Len(agreed) .. Len(s)}
    IN  From(platterNow) \cup From(cacheNow)

LogsAfterPowerLoss ==
    Survivors(platter, cache) \cup
    UNION {Survivors(o.platter, o.cache) : o \in olderLogs}

FilesAfterPowerLoss == {file} \cup olderFiles

LastLsn(f, log) == IF log = <<>> \/ Last(log).lsn < f.lsn THEN f.lsn ELSE Last(log).lsn

\* open_log: replay onto the file, open the log for append, publish.
Reopen(f, log) ==
    /\ mem' = Recovered(f, log)
    /\ nextLsn' = LastLsn(f, log) + 1
    /\ diverged' = FALSE /\ poisoned' = FALSE
    /\ end' = Len(log) /\ epoch' = 0
    /\ inflight' = Idle /\ pending' = {} /\ ckpt' = NoCheckpoint

\* The process dies; the page cache does not.
ProcessCrash ==
    /\ "process" \in scenario.crashes
    /\ crashes < MaxCrashes
    /\ crashes' = crashes + 1
    /\ Reopen(file, cache)
    /\ UNCHANGED <<logFile, ckptFile, told, attempts, rewrites>>

PowerLoss ==
    /\ "power" \in scenario.crashes
    /\ crashes < MaxCrashes
    /\ crashes' = crashes + 1
    /\ \E log \in LogsAfterPowerLoss, f \in FilesAfterPowerLoss :
        /\ Reopen(f, log)
        /\ cache' = log /\ platter' = log
        /\ file' = f
        /\ acked' = acked \cap Elems(Recovered(f, log))
    /\ olderLogs' = {} /\ olderFiles' = {}
    /\ UNCHANGED <<refused, stranded, promised, attempts, rewrites>>

-----------------------------------------------------------------------------
CheckpointStep ==
    \/ OnlineBarrier \/ RenameFile \/ SyncFileDir \/ CheckpointFails
    \/ TruncateLog \/ SyncTruncation \/ TrimLog \/ SyncLogDir \/ TrimRefused

Step ==
    \/ Stage \/ Publish \/ BarrierFails \/ Sync
    \/ MarkDiverged \/ \E w \in pending : DirectWrite(w)
    \/ SaveStart \/ OnlineStart \/ CheckpointStep
    \/ ProcessCrash \/ PowerLoss

Next == Step /\ UNCHANGED scenario

Spec == Init /\ [][Next]_vars

-----------------------------------------------------------------------------
(* Properties.                                                             *)

\* Whatever power loss does now, a commit acknowledged at `full`, synced at
\* `normal`, or held by a finished checkpoint is recovered.  (Not when the sync
\* of the log's directory failed: the session appends to a log whose rename is
\* not certain, and does not know.)
PromisedSurvives ==
    ~CanFail("logdir") =>
    \A log \in LogsAfterPowerLoss, f \in FilesAfterPowerLoss :
        promised \subseteq Elems(Recovered(f, log))

\* If the process died now, every acknowledged commit would be recovered.
AckedSurvivesCrash == acked \subseteq Elems(Recovered(file, cache))

\* Whatever a crash leaves, recovery gives a state the graph went through: a
\* prefix of the publish order, or all of it and one commit more: the one in
\* flight, or the one that a poisoned log was left with.
RecoveredIsPrefix ==
    LET after == IF inflight.pc = "staged" THEN {inflight.commit}
                 ELSE IF poisoned THEN stranded
                 ELSE {}
    IN  ~diverged =>
        \A log \in LogsAfterPowerLoss \cup {cache}, f \in FilesAfterPowerLoss :
            \/ IsPrefix(Recovered(f, log), mem)
            \/ \E c \in after : Recovered(f, log) = Append(mem, c)

\* A commit refused with DurabilityFailed is never recovered, whatever a crash
\* leaves, unless its frame could not be cut out of the log either: that log is
\* poisoned, and what the next open finds in it decides.
RefusedIsForgotten ==
    \A log \in LogsAfterPowerLoss \cup {cache}, f \in FilesAfterPowerLoss :
        (refused \ stranded) \cap Elems(Recovered(f, log)) = {}

\* Unless the session knows it has diverged, the checkpoint and the log
\* describe the published graph exactly.
LogDescribesGraph ==
    GateFree /\ ~diverged /\ ~poisoned => Recovered(file, cache) = mem
=============================================================================
