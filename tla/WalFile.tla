------------------------------ MODULE WalFile ------------------------------
(***************************************************************************)
(* The bytes of the write-ahead log: what the scan takes for a frame, a    *)
(* torn tail or damage in the middle; what an open saves, cuts, upgrades   *)
(* and syncs before it appends; and what an append, a cut-back and a       *)
(* reset leave when one of their file operations fails or the machine      *)
(* stops in between.  Module DurableLog has the same log in whole frames,  *)
(* beside its checkpoint and its trims.                                    *)
(*                                                                         *)
(* What is abstracted:                                                     *)
(*   - A file is a sequence of cells: one for the header, three for every  *)
(*     frame (length, checksum, payload).  Frames are numbered in the      *)
(*     order of the attempts to append them, the failed ones included.     *)
(*   - A power loss keeps what was synced; of the rest any cells and any   *)
(*     length, of any content since the sync.  A file emptied by a         *)
(*     truncation shares no block with what it held before.                *)
(*   - A failed sync is retried with nothing lost; the header is written   *)
(*     whole or as a stub; a copy to a sibling is one step, being synced   *)
(*     with its directory before anything is cut.                          *)
(*   - A checkpoint is `folded`, the frame up to which replay skips.       *)
(***************************************************************************)
EXTENDS Naturals, Sequences, FiniteSets, SequencesExt, FiniteSetsExt

CONSTANTS
    Modes,       \* subset of {"Barrier", "PageCache"}: SyncMode
    Faults,      \* subset of {"write", "barrier", "cut", "open"}
    Losses,      \* subset of {"process", "power", "damage"}
    MaxFrames, MaxLosses, MaxFolds    \* bounds

ASSUME WalFileAssumption ==
    /\ Modes \subseteq {"Barrier", "PageCache"}
    /\ Faults \subseteq {"write", "barrier", "cut", "open"}
    /\ Losses \subseteq {"process", "power", "damage"}
    /\ MaxFrames \in Nat \ {0} /\ MaxLosses \in Nat /\ MaxFolds \in Nat

VARIABLES
    sync,        \* the handle's SyncMode
    file,        \* what a read of the file returns
    versions,    \* the contents since the last sync, the synced one included
    before,      \* what a power loss could leave had the file not been emptied since
    halted,      \* an owner stopped with a cut or a header it had not synced
    pc, point,   \* where the owner is; the scan's ResumePoint
    end, poisoned,   \* Wal.end, Wal.poisoned
    asides,      \* the frames that stand whole in a .torn- or .quarantine- sibling
    next,        \* the next frame's number
    log,         \* the frames the owner has written and not taken back
    folded,      \* the last frame of the checkpoint
    acked,       \* the frames whose commit was acknowledged
    promised,    \* those of them that were synced
    damaged,     \* the frames with a damaged cell
    struck,      \* those and the frames that stood behind one
    losses, folds

disk    == <<file, versions, before, halted>>
handle  == <<end, poisoned>>
answers == <<acked, promised>>
hurt    == <<damaged, struck>>
vars    == <<sync, disk, pc, point, handle, asides, next, log, folded, answers,
             hurt, losses, folds>>

-----------------------------------------------------------------------------
\* Cells.  A damaged length claims more or less than its frame has.
Cell(kind, n) == [is |-> kind, of |-> n]
Zero    == Cell("zero", 0)
V3      == Cell("v3", 0)
V4      == Cell("v4", 0)
Stub    == Cell("stub", 0)
FrameOf(n) == <<Cell("length", n), Cell("crc", n), Cell("payload", n)>>
Cells   == [is : {"zero", "v3", "v4", "stub", "length", "short", "huge", "crc",
                  "payload", "junk"}, of : 0..MaxFrames]

NonZero(s) == \E i \in DOMAIN s : s[i] # Zero
From(f, i) == SubSeq(f, i + 1, Len(f))
Whole(s)   == {n \in 1..MaxFrames : \E i \in DOMAIN s :
                  i + 2 <= Len(s) /\ SubSeq(s, i, i + 2) = FrameOf(n)}

\* set_len: cut, or extend with zeros.
SetLen(f, n) ==
    [i \in 1..n |-> IF i <= Len(f) THEN f[i] ELSE Zero]

\* read_frame_step: the cells of slot k, the k-th three after the header, are a
\* complete frame.
FrameAt(f, k) == 3 * k + 1 <= Len(f)
                 /\ SubSeq(f, 3 * k - 1, 3 * k + 1) = FrameOf(f[3 * k + 1].of)

\* scan_frames: the frames, and the cells, up to the first thing that is not a
\* complete frame.
Reach(f) == Max({k \in 0..Len(f) : \A j \in 1..k : FrameAt(f, j)})
ValidLen(f) == 3 * Reach(f) + 1
HasHeader(f) == Len(f) > 0 /\ f[1] \in {V3, V4}
Frames(f) == IF HasHeader(f) THEN [k \in 1..Reach(f) |-> f[3 * k + 1].of] ELSE <<>>

\* What stopped the scan, and whether anything non-zero comes after it: after
\* a hole its own bytes count, after a corrupt frame those past the end that
\* its length claims, after a torn one none.
NonTail(f) ==
    LET v == ValidLen(f)
        after == IF f[v + 1] = Zero THEN v
                 ELSE v + (IF f[v + 1].is = "short" THEN 2 ELSE 3)
        torn == f[v + 1].is \notin {"zero", "length", "short"} \/ after > Len(f)
    IN  v < Len(f) /\ ~torn /\ NonZero(From(f, after))

ResumePoint == [valid : Nat, nonTail : BOOLEAN]
NoPoint == [valid |-> 0, nonTail |-> FALSE]
\* Mutant of Scan: the frame that stopped it is counted.
ScanPastStop(f) ==
    [valid |-> IF ValidLen(f) < Len(f) THEN ValidLen(f) + 3 ELSE ValidLen(f), nonTail |-> NonTail(f)]
Scan(f) == [valid |-> ValidLen(f), nonTail |-> NonTail(f)]

-----------------------------------------------------------------------------
\* The disk.
Wrote(f) ==
    /\ file' = f
    /\ versions' = versions \cup {f}
    /\ UNCHANGED <<before, halted>>
Synced ==
    /\ versions' = {file}
    /\ before' = {}
    /\ UNCHANGED file

\* What a power loss leaves: every cell as some content since the last sync
\* had it, zero where that content ends before it.
At(f, i) == IF i <= Len(f) THEN f[i] ELSE Zero
Lengths  == {Len(f) : f \in versions}
MixUpTo ==
    LET mix[n \in 0..Max(Lengths)] ==
            IF n = 0 THEN {<<>>}
            ELSE {Append(s, c) : s \in mix[n - 1], c \in {At(f, n) : f \in versions}}
    IN  mix
Mixes == (UNION {MixUpTo[n] : n \in Min(Lengths)..Max(Lengths)})
         \cup (IF <<>> \in versions THEN {<<Stub>>} ELSE {})
Emptied ==
    /\ file' = <<>>
    /\ before' = before \cup Mixes
    /\ versions' = {<<>>}
    /\ UNCHANGED halted

\* The owner goes, the page cache stays.
Left ==
    /\ halted' = (halted \/ before # {} \/ \E v \in versions : ~IsPrefix(v, file))
    /\ UNCHANGED <<file, versions, before>>

Init ==
    \E f \in {<<>>, <<V3>> \o FrameOf(1)} :
        /\ sync \in Modes
        /\ file = f /\ versions = {f} /\ before = {} /\ halted = FALSE
        /\ pc = "closed" /\ point = NoPoint
        /\ end = 0 /\ poisoned = FALSE
        /\ asides = {}
        /\ next = 2
        /\ log = Frames(f)
        /\ folded = 0
        /\ acked = ToSet(log) /\ promised = acked /\ damaged = {} /\ struck = {}
        /\ losses = 0 /\ folds = 0

TypeOK ==
    /\ sync \in Modes
    /\ file \in Seq(Cells) /\ file \in versions
    /\ versions \in SUBSET Seq(Cells) /\ before \in SUBSET Seq(Cells)
    /\ halted \in BOOLEAN
    /\ pc \in {"closed", "saving", "cut", "cutsync", "upgrade", "upgradesync",
               "restart", "create", "createsync", "ready", "barrier", "undo",
               "undosync", "empty", "header", "headersync"}
    /\ point \in ResumePoint /\ point.valid <= Len(file)
    /\ end \in Nat /\ poisoned \in BOOLEAN
    /\ asides \subseteq 1..MaxFrames
    /\ next \in 1..(MaxFrames + 1)
    /\ log \in Seq(1..MaxFrames) /\ folded \in 0..MaxFrames
    /\ promised \subseteq acked /\ acked \subseteq 1..(next - 1)
    /\ damaged \subseteq struck /\ struck \subseteq 1..MaxFrames
    /\ losses \in 0..MaxLosses /\ folds \in 0..MaxFolds

-----------------------------------------------------------------------------
(***************************************************************************)
(* Opening: prepare_wal_file, then the append handle.                      *)
(***************************************************************************)
Opening == {"saving", "cut", "cutsync", "upgrade", "upgradesync", "restart",
            "create", "createsync"}

\* The header is classified.  A longer file without magic refuses: it stays
\* closed, which is no step.
Open ==
    /\ pc = "closed"
    /\ \/ file = <<>> /\ pc' = "create" /\ UNCHANGED point
       \/ Len(file) = 1 /\ ~HasHeader(file) /\ pc' = "restart" /\ UNCHANGED point
       \/ HasHeader(file) /\ pc' = "saving" /\ point' = Scan(file)
    /\ UNCHANGED <<sync, disk, handle, asides, next, log, folded, answers, hurt,
                   losses, folds>>

\* Mutant of SaveAside: only what comes before other data is worth a copy.
SaveNonTail ==
    /\ pc = "saving"
    /\ pc' = "cut"
    /\ asides' = asides \cup (IF point.nonTail THEN Whole(file) ELSE {})
    /\ UNCHANGED <<sync, disk, point, handle, next, log, folded, answers, hurt,
                   losses, folds>>
\* quarantine_log copies the file whole, save_torn_tail a tail that is not zeros.
SaveAside ==
    /\ pc = "saving"
    /\ pc' = "cut"
    /\ asides' = asides \cup (IF point.nonTail THEN Whole(file)
                              ELSE Whole(From(file, point.valid)))
    /\ UNCHANGED <<sync, disk, point, handle, next, log, folded, answers, hurt,
                   losses, folds>>

\* repair_tail: set_len, and sync_all if it cut anything.
Cut ==
    /\ pc = "cut"
    /\ IF point.valid < Len(file)
       THEN Wrote(SetLen(file, point.valid)) /\ pc' = "cutsync"
       ELSE UNCHANGED disk /\ pc' = "upgrade"
    /\ UNCHANGED <<sync, point, handle, asides, next, log, folded, answers, hurt,
                   losses, folds>>

\* Mutant of CutSync: the cut is left to the page cache.
CutUnsynced ==
    /\ pc = "cutsync" /\ pc' = "upgrade"
    /\ UNCHANGED <<sync, disk, point, handle, asides, next, log, folded, answers,
                   hurt, losses, folds>>
CutSync ==
    /\ pc = "cutsync" /\ pc' = "upgrade"
    /\ Synced
    /\ UNCHANGED <<sync, halted, point, handle, asides, next, log, folded, answers, hurt,
                   losses, folds>>

\* open_at_boundary: the append handle starts at the end of the file.
Ready ==
    /\ pc' = "ready"
    /\ end' = Len(file')
    /\ poisoned' = FALSE
    /\ log' = Frames(file')
    /\ halted' = (halted /\ (versions' # {file'} \/ before' # {}))
    /\ point' = NoPoint

\* Mutant of Upgrade: the header keeps its version.
UpgradeSkipped ==
    /\ pc = "upgrade"
    /\ UNCHANGED <<file, versions, before>> /\ Ready
    /\ UNCHANGED <<sync, asides, next, folded, answers, hurt, losses, folds>>
\* An older header gets the version of the frames about to follow it.
Upgrade ==
    /\ pc = "upgrade"
    /\ IF file[1] = V4 THEN UNCHANGED <<file, versions, before>> /\ Ready
       ELSE /\ Wrote([file EXCEPT ![1] = V4])
            /\ pc' = "upgradesync"
            /\ UNCHANGED <<point, handle, log>>
    /\ UNCHANGED <<sync, asides, next, folded, answers, hurt, losses, folds>>

UpgradeSync ==
    /\ pc = "upgradesync"
    /\ Synced /\ Ready
    /\ UNCHANGED <<sync, asides, next, folded, answers, hurt, losses, folds>>

\* truncate_to_header: empty the file, write the header, sync; for a stub found
\* by an open and for a reset.
Restart(from, to) ==
    /\ pc = from /\ pc' = to
    /\ Emptied
    /\ UNCHANGED <<sync, point, handle, asides, next, log, folded, answers, hurt,
                   losses, folds>>
WriteHeader(from, to) ==
    /\ pc = from /\ pc' = to
    /\ Wrote(<<V4>>)
    /\ UNCHANGED <<sync, point, handle, asides, next, log, folded, answers, hurt,
                   losses, folds>>
SyncHeader(from) ==
    /\ pc = from
    /\ Synced /\ Ready
    /\ UNCHANGED <<sync, asides, next, folded, answers, hurt, losses, folds>>

\* Any file operation of an open fails: the handle is dropped.
OpenFails ==
    /\ "open" \in Faults
    /\ pc \in Opening
    /\ pc' = "closed" /\ point' = NoPoint
    /\ Left
    /\ UNCHANGED <<sync, handle, asides, next, log, folded, answers,
                   hurt, losses, folds>>

-----------------------------------------------------------------------------
(***************************************************************************)
(* Appending, and taking an append back.                                   *)
(***************************************************************************)
Acknowledge(n) == acked' = acked \cup {n}

\* stage_framed: the frame goes to the end of the file, wherever `end` is.
Write ==
    /\ pc = "ready" /\ ~poisoned /\ next <= MaxFrames
    /\ Wrote(file \o FrameOf(next))
    /\ end' = end + 3
    /\ next' = next + 1
    /\ log' = Append(log, next)
    /\ IF sync = "Barrier"
       THEN pc' = "barrier" /\ UNCHANGED acked
       ELSE UNCHANGED pc /\ Acknowledge(next)
    /\ UNCHANGED <<sync, point, poisoned, asides, folded, promised, hurt, losses, folds>>

\* write_frame stops short of the frame.
WriteFails ==
    /\ "write" \in Faults
    /\ pc = "ready" /\ ~poisoned /\ next <= MaxFrames
    /\ \E k \in 0..2 : Wrote(file \o SubSeq(FrameOf(next), 1, k))
    /\ pc' = "undo"
    /\ next' = next + 1
    /\ UNCHANGED <<sync, point, handle, asides, log, folded, answers, hurt,
                   losses, folds>>

\* Mutant of Barrier: the commit is acknowledged with no barrier.
BarrierSkipped ==
    /\ pc = "barrier" /\ pc' = "ready"
    /\ UNCHANGED disk
    /\ Acknowledge(next - 1)
    /\ promised' = promised \cup {next - 1}
    /\ UNCHANGED <<sync, point, handle, asides, next, log, folded, hurt, losses, folds>>
\* StagedFrame.sync: the commit point.
Barrier ==
    /\ pc = "barrier" /\ pc' = "ready"
    /\ Synced /\ halted' = FALSE
    /\ Acknowledge(next - 1)
    /\ promised' = promised \cup {next - 1}
    /\ UNCHANGED <<sync, point, handle, asides, next, log, folded, hurt, losses, folds>>

\* Mutant of BarrierFails: the frame's bytes are still counted.
BarrierFailsKeepingEnd ==
    /\ "barrier" \in Faults
    /\ pc = "barrier" /\ pc' = "undo"
    /\ UNCHANGED <<sync, disk, point, handle, asides, next, log, folded, answers,
                   hurt, losses, folds>>
\* abort_staged: the log ends where the frame began.
BarrierFails ==
    /\ "barrier" \in Faults
    /\ pc = "barrier" /\ pc' = "undo"
    /\ end' = end - 3
    /\ UNCHANGED <<sync, disk, point, poisoned, asides, next, log, folded, answers,
                   hurt, losses, folds>>

\* cut_back_to_end: set_len, synced under a barrier; the caller is then told
\* that its commit failed.
Undo ==
    /\ pc = "undo"
    /\ Wrote(SetLen(file, end))
    /\ pc' = IF sync = "Barrier" THEN "undosync" ELSE "ready"
    /\ UNCHANGED <<sync, point, handle, asides, next, log, folded, answers, hurt,
                   losses, folds>>
\* The log without the frame that is being taken back.
Undone == IF log # <<>> /\ Last(log) = next - 1 THEN Front(log) ELSE log
UndoSync ==
    /\ pc = "undosync" /\ pc' = "ready"
    /\ Synced /\ halted' = FALSE
    /\ log' = Undone
    /\ UNCHANGED <<sync, point, handle, asides, next, folded, answers, hurt,
                   losses, folds>>
\* cut_back_after: the log is poisoned.
UndoFails ==
    /\ "cut" \in Faults
    /\ pc \in {"undo", "undosync"} /\ pc' = "ready"
    /\ poisoned' = TRUE
    /\ UNCHANGED <<sync, disk, point, end, asides, next, log, folded, answers, hurt,
                   losses, folds>>

\* Wal::sync, on the user's demand.
Sync ==
    /\ sync = "PageCache" /\ versions # {file}
    /\ pc = "ready" /\ ~poisoned
    /\ Synced /\ halted' = FALSE
    /\ promised' = promised \cup {n \in acked : n \in ToSet(log)}
    /\ UNCHANGED <<sync, pc, point, handle, asides, next, log, folded, acked, hurt,
                   losses, folds>>

-----------------------------------------------------------------------------
(***************************************************************************)
(* Checkpoint and reset.                                                   *)
(***************************************************************************)
\* checkpoint_prologue flushes the log, which a poisoned one refuses; then the
\* caller makes its checkpoint durable.
Fold ==
    /\ pc = "ready" /\ ~poisoned /\ folds < MaxFolds
    /\ Synced /\ halted' = FALSE
    /\ pc' = "empty"
    /\ folds' = folds + 1
    /\ folded' = Max(ToSet(log) \cup {folded})
    /\ UNCHANGED <<sync, point, handle, asides, next, log, answers, hurt, losses>>

\* reset's own file operations fail: it returns before it touches the handle.
ResetFails ==
    /\ pc \in {"empty", "header", "headersync"} /\ pc' = "ready"
    /\ UNCHANGED <<sync, disk, point, handle, asides, next, log, folded, answers, hurt,
                   losses, folds>>

-----------------------------------------------------------------------------
(***************************************************************************)
(* Stops.                                                                  *)
(***************************************************************************)
Lost == losses < MaxLosses /\ losses' = losses + 1
Stop ==
    /\ pc' = "closed" /\ point' = NoPoint
    /\ end' = 0 /\ poisoned' = FALSE

\* The handle is dropped.
Close ==
    /\ pc = "ready"
    /\ Stop /\ Left
    /\ UNCHANGED <<sync, asides, next, log, folded, answers, hurt, losses, folds>>

\* The process dies; the page cache lives.
ProcessDies ==
    /\ "process" \in Losses /\ pc \notin {"closed", "ready"}
    /\ Lost /\ Stop /\ Left
    /\ UNCHANGED <<sync, asides, next, log, folded, answers, hurt, folds>>

PowerLoss ==
    /\ "power" \in Losses
    /\ Lost /\ Stop
    /\ \E f \in Mixes \cup before :
          file' = f /\ versions' = {f}
    /\ before' = {}
    /\ UNCHANGED <<sync, halted, asides, next, log, folded, answers, hurt, folds>>

\* A cell of a file at rest changes.
Damage ==
    /\ "damage" \in Losses
    /\ pc = "closed" /\ versions = {file} /\ before = {}
    /\ Lost
    /\ \E i \in 2..Len(file) :
          /\ file[i].is \in {"length", "crc", "payload"}
          /\ \E kind \in {"zero", "junk"} \cup
                         (IF file[i].is = "length" THEN {"short", "huge"} ELSE {}) :
                /\ file' = [file EXCEPT ![i] = Cell(kind, 0)]
                /\ damaged' = damaged \cup {file[i].of}
                /\ struck' = struck \cup ({file[j].of : j \in i..Len(file)} \ {0})
    /\ versions' = {file'}
    /\ UNCHANGED <<sync, before, halted, pc, point, handle, asides, next, log, folded, answers, folds>>

-----------------------------------------------------------------------------
Opens ==
    \/ Open \/ SaveAside \/ Cut \/ CutSync \/ Upgrade \/ UpgradeSync \/ OpenFails
    \/ Restart("restart", "create")
    \/ WriteHeader("create", "createsync")
    \/ SyncHeader("createsync")
Appends ==
    \/ Write \/ WriteFails \/ Barrier \/ BarrierFails
    \/ Undo \/ UndoSync \/ UndoFails \/ Sync
Resets ==
    \/ Fold
    \/ Restart("empty", "header")
    \/ WriteHeader("header", "headersync")
    \/ SyncHeader("headersync")
Next == Opens \/ Appends \/ Resets \/ Close \/ ProcessDies \/ PowerLoss \/ Damage

Spec == Init /\ [][Next]_vars
\* The same with a reset that may fail half-way.
FailingResetSpec == Init /\ [][Next \/ ResetFails]_vars

-----------------------------------------------------------------------------
(***************************************************************************)
(* Properties.                                                             *)
(***************************************************************************)
AtRest == pc \in {"closed", "ready"}

\* A frame that was synced before its commit was acknowledged, and that no
\* checkpoint holds, is found by every later scan unless damage struck it or a
\* frame it stood behind: no torn tail, cut-back, repair or upgrade of an earlier
\* open takes it with it.
PromisedIsServed ==
    AtRest => \A n \in promised \ struck : n > folded => n \in ToSet(Frames(file))

\* Whatever a stop leaves, a scan replays the frames its owner wrote, in
\* order, up to some point: never one past a gap, never a cell of an older
\* tail, never one that was cut back out.  (The frame of a refused commit that
\* could not be cut out is still in `log`, at the end of a poisoned one: a scan
\* may serve it, and the next owner takes it for its own.)
NoOldTail == pc = "closed" => IsPrefix(Frames(file), log)

\* The same, of a log none of whose owners went between a cut, or a new header,
\* and its sync: the next open finds the file as it should be and syncs nothing.
ServedIsPrefix == halted \/ NoOldTail

\* An undamaged frame that was promised is whole in the log or in a sibling of
\* it ("no non-zero byte is ever discarded without a copy").
IntactIsKept ==
    \A n \in promised \ damaged : n > folded => n \in Whole(file) \cup asides

\* A promised frame of this build is never under the header of an older one, whose
\* schema a reader would decode it with.
HeaderNamesFrames ==
    HasHeader(file) /\ file[1] = V3 => Whole(file) \cap promised \subseteq {1}

\* A handle that accepts appends ends where the file does, behind a header and
\* nothing but the frames it wrote: the next frame is one the scan will reach.
AppendsAtFrames ==
    pc = "ready" /\ ~poisoned =>
        /\ end = Len(file) /\ end = 3 * Len(log) + 1
        /\ file[1] = V4 /\ Frames(file) = log
=============================================================================
