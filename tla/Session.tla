------------------------------- MODULE Session -------------------------------
(***************************************************************************)
(* The transaction core of a kglite `Session`: one published graph behind  *)
(* an Arc, snapshots taken by cloning that Arc, and every way the library  *)
(* offers of publishing a new graph:                                       *)
(*                                                                         *)
(*   begin / execute / commit   explicit transactions, with or without OCC *)
(*   execute_auto_commit        in place on an unshared graph, else a fork *)
(*                              committed with OCC and retried             *)
(*   write_logged/apply_unlogged   a closure on a fork made under the gate *)
(*   write, transact            direct writes under the graph lock         *)
(*   lock_ontology, retire, checkpoint_if_changed                          *)
(*                                                                         *)
(* What is abstracted:                                                     *)
(*   - A graph is its version, the set of write tokens its statements have *)
(*     applied, and the runtime ontology-lock flag.  A statement applies   *)
(*     one token; two statements never share one.                          *)
(*   - An Arc is a memory cell; cloning it is naming the cell, and         *)
(*     Arc::get_mut succeeds when nobody else names it.                    *)
(*   - The write-ahead log answers a commit with success or refusal; what  *)
(*     it stores is the business of module DurableLog.  Group commit is    *)
(*     module GroupCommit.                                                 *)
(*   - A section that holds the graph mutex from start to end is one step; *)
(*     one that holds only the commit gate is several.                     *)
(***************************************************************************)
EXTENDS Integers

CONSTANTS
    Clients,      \* threads calling into one session
    Cells,        \* Arc allocations a DirGraph can live in
    Writes,       \* write tokens: the bound on how much the clients write
    Attempts,     \* the `attempts` bound of an auto-commit statement
    Level,        \* "none", "normal" or "full": the session's durability
    Calls,        \* which of the API calls below the clients make
    NoClient, NoCell

AllCalls == {"tx", "lww", "auto", "closure", "config", "direct", "transact",
             "lock", "retire", "checkpoint"}

ASSUME SessionAssumption ==
    /\ NoClient \notin Clients
    /\ NoCell \notin Cells
    /\ Cells # {}
    /\ Attempts \in Nat \ {0}
    /\ Level \in {"none", "normal", "full"}
    /\ Calls \subseteq AllCalls

VARIABLES
    heap,         \* heap[k]: the graph in cell k
    published,    \* the cell Session.graph names
    pc,           \* pc[c]: where client c is in its call
    snap,         \* snap[c]: the cell c's snapshot names
    work,         \* work[c]: c's working copy, owned by c alone
    base,         \* base[c]: the version c's transaction began at
    mine,         \* mine[c]: the writes of c's call; empty = no working copy
    occ,          \* occ[c]: whether c's commit checks the version
    tries,        \* tries[c]: the attempt an auto-commit statement is on
    gate,         \* holder of commit_gate
    autoWriter,   \* holder of auto_commit_writer
    retired,      \* the session was retired
    used,         \* writes some statement has executed
    acked,        \* writes whose call returned success
    discarded,    \* writes whose call returned an error or rolled back
    saved,        \* writes in the last checkpoint file
    lastVersion   \* checkpoint_if_changed's last_version

store  == <<heap, published>>
locals == <<pc, snap, work, base, mine, occ, tries>>
ghost  == <<used, acked, discarded>>
disk   == <<saved, lastVersion>>
vars   == <<store, locals, gate, autoWriter, retired, ghost, disk>>

-----------------------------------------------------------------------------
Graph == [version : Nat, writes : SUBSET Writes, locked : BOOLEAN]
Blank == [version |-> 0, writes |-> {}, locked |-> FALSE]
NeverSaved == -1

PCs == {"idle", "reading", "open", "autoTry", "autoFork", "autoRun", "commit",
        "flush", "closure", "ckSave", "ckRecord"}

TypeOK ==
    /\ heap \in [Cells -> Graph]
    /\ published \in Cells
    /\ pc \in [Clients -> PCs]
    /\ snap \in [Clients -> Cells \cup {NoCell}]
    /\ work \in [Clients -> Graph]
    /\ base \in [Clients -> Nat]
    /\ mine \in [Clients -> SUBSET Writes]
    /\ occ \in [Clients -> BOOLEAN]
    /\ tries \in [Clients -> Nat]
    /\ gate \in Clients \cup {NoClient}
    /\ autoWriter \in Clients \cup {NoClient}
    /\ retired \in BOOLEAN
    /\ used \subseteq Writes
    /\ acked \subseteq Writes
    /\ discarded \subseteq Writes
    /\ saved \subseteq Writes
    /\ lastVersion \in Nat \cup {NeverSaved}

Init ==
    /\ heap = [k \in Cells |-> Blank]
    /\ published = CHOOSE k \in Cells : TRUE
    /\ pc = [c \in Clients |-> "idle"]
    /\ snap = [c \in Clients |-> NoCell]
    /\ work = [c \in Clients |-> Blank]
    /\ base = [c \in Clients |-> 0]
    /\ mine = [c \in Clients |-> {}]
    /\ occ = [c \in Clients |-> FALSE]
    /\ tries = [c \in Clients |-> 0]
    /\ gate = NoClient
    /\ autoWriter = NoClient
    /\ retired = FALSE
    /\ used = {}
    /\ acked = {}
    /\ discarded = {}
    /\ saved = {}
    /\ lastVersion = NeverSaved

-----------------------------------------------------------------------------
Current == heap[published]

\* Mutant of Unshared: the strong count is not consulted.
UnsharedUnchecked == TRUE

\* Arc::get_mut(&mut guard) on the published graph: nobody else names its cell.
Unshared == \A c \in Clients : snap[c] # published

\* What a transaction reads: its working copy, else its snapshot.
View(c) == IF mine[c] = {} THEN heap[snap[c]] ELSE work[c]

\* A statement's effect on a graph: its write, and bump_version.
Mutated(g, w) == [g EXCEPT !.writes = @ \cup {w}, !.version = @ + 1]

\* Cells some snapshot names.  Which free cell an allocation gets makes no
\* difference, and what a freed cell held is gone by the next one.
Held == {snap[c] : c \in Clients} \ {NoCell}
FreeCells == Cells \ (Held \cup {published})

\* *guard = Arc::new(g): the graph lands in a cell nobody names.
Swap(g) ==
    /\ FreeCells # {}
    /\ published' = CHOOSE k \in FreeCells : TRUE
    /\ heap' = [k \in Cells |-> IF k = published' THEN g
                                ELSE IF k \in Held THEN heap[k] ELSE Blank]

\* Mutate the published graph where it is when it is unshared, else fork it.
InPlaceOrFork(g) ==
    IF Unshared
    THEN heap' = [heap EXCEPT ![published] = g] /\ UNCHANGED published
    ELSE Swap(g)

\* The call returns: its transaction is consumed and its mutex guards drop.
EndCall(c) ==
    /\ pc' = [pc EXCEPT ![c] = "idle"]
    /\ snap' = [snap EXCEPT ![c] = NoCell]
    /\ work' = [work EXCEPT ![c] = Blank]
    /\ base' = [base EXCEPT ![c] = 0]
    /\ mine' = [mine EXCEPT ![c] = {}]
    /\ occ' = [occ EXCEPT ![c] = FALSE]
    /\ tries' = [tries EXCEPT ![c] = 0]
    /\ autoWriter' = IF autoWriter = c THEN NoClient ELSE autoWriter

Succeed(c) == EndCall(c) /\ acked' = acked \cup mine[c] /\ UNCHANGED <<used, discarded>>
Fail(c) == EndCall(c) /\ discarded' = discarded \cup mine[c] /\ UNCHANGED <<used, acked>>

\* A direct call's write is executed and acknowledged in the same step.
Acknowledge(w) ==
    /\ used' = used \cup {w}
    /\ acked' = acked \cup {w}
    /\ UNCHANGED discarded

-----------------------------------------------------------------------------
(* Explicit transactions and readers.                                      *)

TakeSnapshot(c) ==
    /\ snap' = [snap EXCEPT ![c] = published]
    /\ base' = [base EXCEPT ![c] = Current.version]

Begin(c) ==
    /\ "tx" \in Calls
    /\ pc[c] = "idle"
    /\ TakeSnapshot(c)
    /\ \E p \in {"open", "reading"} : pc' = [pc EXCEPT ![c] = p]
    /\ UNCHANGED <<store, work, mine, occ, tries, gate, autoWriter, retired, ghost, disk>>

\* A read-only transaction ends, or a transaction rolls back.
Rollback(c) ==
    /\ pc[c] \in {"reading", "open"}
    /\ Fail(c)
    /\ UNCHANGED <<store, gate, retired, disk>>

\* execute_mut over working_mut: the first mutation consumes the snapshot and
\* forks (or moves) it; later ones extend the working copy.
Execute(c, w) ==
    /\ pc[c] = "open"
    /\ w \notin used
    /\ work' = [work EXCEPT ![c] = Mutated(View(c), w)]
    /\ snap' = [snap EXCEPT ![c] = NoCell]
    /\ mine' = [mine EXCEPT ![c] = @ \cup {w}]
    /\ used' = used \cup {w}
    /\ UNCHANGED <<store, pc, base, occ, tries, gate, autoWriter, retired,
                   acked, discarded, disk>>

\* commit: no working copy is a no-op; the end-of-transaction verdict may
\* refuse; otherwise the commit goes on to wait for the gate.
Commit(c) ==
    /\ pc[c] = "open"
    /\ \/ mine[c] = {} /\ Succeed(c)
       \/ mine[c] # {} /\ Fail(c)
       \/ /\ mine[c] # {}
          /\ pc' = [pc EXCEPT ![c] = "commit"]
          /\ \E o \in {TRUE} \cup (IF "lww" \in Calls THEN {FALSE} ELSE {}) :
                occ' = [occ EXCEPT ![c] = o]
          /\ UNCHANGED <<snap, work, base, mine, tries, autoWriter, ghost>>
    /\ UNCHANGED <<store, gate, retired, disk>>

-----------------------------------------------------------------------------
(* publish_gated: the check, the log, the barrier and the swap.            *)

\* Mutant of Conflicts: one commit is let by.
ConflictsOffByOne(c) == occ[c] /\ Current.version > base[c] + 1

Conflicts(c) == occ[c] /\ Current.version # base[c]

\* A lost race: an explicit commit reports the conflict; an auto-commit
\* statement runs again on a fresh begin until its attempts are spent.
Conflicted(c) ==
    \/ /\ autoWriter # c \/ tries[c] >= Attempts
       /\ Fail(c)
    \/ /\ autoWriter = c /\ tries[c] < Attempts
       /\ pc' = [pc EXCEPT ![c] = "autoFork"]
       /\ tries' = [tries EXCEPT ![c] = @ + 1]
       /\ work' = [work EXCEPT ![c] = Blank]
       /\ UNCHANGED <<snap, base, mine, occ, autoWriter, ghost>>

\* Mutant of PublishCheck: the gate is dropped before the barrier.
PublishCheckUngated(c) ==
    /\ pc[c] = "commit"
    /\ gate = NoClient
    /\ \/ retired /\ Fail(c)
       \/ ~retired /\ Conflicts(c) /\ Conflicted(c)
       \/ /\ ~retired /\ ~Conflicts(c)
          /\ pc' = [pc EXCEPT ![c] = "flush"]
          /\ UNCHANGED <<snap, work, base, mine, occ, tries, autoWriter, ghost>>
    /\ UNCHANGED <<store, gate, retired, disk>>

\* Under the commit gate: retired, then the OCC check, then the frame.  With
\* the frame staged the gate stays held while the barrier runs.
PublishCheck(c) ==
    /\ pc[c] = "commit"
    /\ gate = NoClient
    /\ \/ /\ retired \/ (~Conflicts(c) /\ Level # "none")
          /\ Fail(c)
          /\ UNCHANGED gate
       \/ /\ ~retired /\ Conflicts(c)
          /\ Conflicted(c)
          /\ UNCHANGED gate
       \/ /\ ~retired /\ ~Conflicts(c)
          /\ gate' = c
          /\ pc' = [pc EXCEPT ![c] = "flush"]
          /\ UNCHANGED <<snap, work, base, mine, occ, tries, autoWriter, ghost>>
    /\ UNCHANGED <<store, retired, disk>>

\* Mutant of Published: the version the copy was forked with.
PublishedFromBase(c) == [work[c] EXCEPT !.version = base[c]]

\* The barrier succeeded: bump from the current version and swap.
Published(c) == [work[c] EXCEPT !.version = Current.version + 1]

Publish(c) ==
    /\ pc[c] = "flush"
    /\ Swap(Published(c))
    /\ gate' = NoClient
    /\ Succeed(c)
    /\ UNCHANGED <<retired, disk>>

\* Mutants of FlushFails: swapped all the same; the gate never dropped.
FlushFailsSwapped(c) ==
    /\ pc[c] = "flush"
    /\ Level # "none"
    /\ Swap(Published(c))
    /\ gate' = NoClient
    /\ Fail(c)
    /\ UNCHANGED <<retired, disk>>

FlushFailsHoldingGate(c) ==
    /\ pc[c] = "flush"
    /\ Level # "none"
    /\ Fail(c)
    /\ UNCHANGED <<store, gate, retired, disk>>

\* The barrier failed: the swap is skipped and the working copy dropped.
FlushFails(c) ==
    /\ pc[c] = "flush"
    /\ Level # "none"
    /\ gate' = NoClient
    /\ Fail(c)
    /\ UNCHANGED <<store, retired, disk>>

-----------------------------------------------------------------------------
(* execute_auto_commit, for the statements that are not group-committed.   *)

AutoStart(c, w) ==
    /\ "auto" \in Calls
    /\ pc[c] = "idle"
    /\ autoWriter = NoClient
    /\ w \notin used
    /\ autoWriter' = c
    /\ pc' = [pc EXCEPT ![c] = "autoTry"]
    /\ mine' = [mine EXCEPT ![c] = {w}]
    /\ used' = used \cup {w}
    /\ UNCHANGED <<store, snap, work, base, occ, tries, gate, retired, acked, discarded, disk>>

\* in_place_with: a plain data write on an unshared graph, below `full`, runs
\* on the published graph under the gate and the graph lock.  A statement that
\* errors, or whose frame the log refuses, is rolled back by its journal.
AutoInPlace(c) ==
    /\ pc[c] = "autoTry"
    /\ Level # "full"
    /\ gate = NoClient
    /\ \/ /\ ~retired
          /\ Unshared
          /\ \E w \in mine[c] : heap' = [heap EXCEPT ![published] = Mutated(@, w)]
          /\ Succeed(c)
       \/ (retired \/ Unshared) /\ Fail(c) /\ UNCHANGED heap
    /\ UNCHANGED <<published, gate, retired, disk>>

\* The statement is not a plain data write, the session is at `full`, or the
\* graph is shared: the fork path takes over.
AutoFallback(c) ==
    /\ pc[c] = "autoTry"
    /\ pc' = [pc EXCEPT ![c] = "autoFork"]
    /\ tries' = [tries EXCEPT ![c] = 1]
    /\ UNCHANGED <<store, snap, work, base, mine, occ, gate, autoWriter, retired, ghost, disk>>

AutoBegin(c) ==
    /\ pc[c] = "autoFork"
    /\ TakeSnapshot(c)
    /\ pc' = [pc EXCEPT ![c] = "autoRun"]
    /\ UNCHANGED <<store, work, mine, occ, tries, gate, autoWriter, retired, ghost, disk>>

\* Fork, run the statement, and commit with the version checked; a fork, a
\* statement or a verdict that fails ends the call.
AutoExecute(c) ==
    /\ pc[c] = "autoRun"
    /\ \/ /\ \E w \in mine[c] :
                work' = [work EXCEPT ![c] = Mutated(heap[snap[c]], w)]
          /\ snap' = [snap EXCEPT ![c] = NoCell]
          /\ occ' = [occ EXCEPT ![c] = TRUE]
          /\ pc' = [pc EXCEPT ![c] = "commit"]
          /\ UNCHANGED <<base, mine, tries, autoWriter, ghost>>
       \/ Fail(c)
    /\ UNCHANGED <<store, gate, retired, disk>>

-----------------------------------------------------------------------------
(* Closure writes: the gate is held from the fork to the swap.             *)

\* "closure" mutates logged state and bumps the version; "config" changes
\* state the log does not describe and leaves the version alone.
ClosureRun(c, w) ==
    /\ pc[c] = "idle"
    /\ gate = NoClient
    /\ ~retired
    /\ w \notin used
    /\ gate' = c
    /\ pc' = [pc EXCEPT ![c] = "closure"]
    /\ base' = [base EXCEPT ![c] = Current.version]
    /\ \/ "closure" \in Calls /\ work' = [work EXCEPT ![c] = Mutated(Current, w)]
       \/ "config" \in Calls
          /\ work' = [work EXCEPT ![c] = [Current EXCEPT !.writes = @ \cup {w}]]
    /\ mine' = [mine EXCEPT ![c] = {w}]
    /\ used' = used \cup {w}
    /\ UNCHANGED <<store, snap, occ, tries, autoWriter, retired, acked, discarded, disk>>

\* The closure, its verdict, the captured-ops rule or the log refuses; or an
\* unversioned result is swapped in as it is; or it goes on to the barrier.
ClosureEnd(c) ==
    /\ pc[c] = "closure"
    /\ \/ Fail(c) /\ gate' = NoClient /\ UNCHANGED store
       \/ /\ work[c].version = base[c]
          /\ Swap(work[c])
          /\ gate' = NoClient
          /\ Succeed(c)
       \/ /\ work[c].version # base[c]
          /\ pc' = [pc EXCEPT ![c] = "flush"]
          /\ UNCHANGED <<store, snap, work, base, mine, occ, tries, gate, autoWriter, ghost>>
    /\ UNCHANGED <<retired, disk>>

-----------------------------------------------------------------------------
(* Direct writes and runtime posture: under the gate and the graph lock.   *)

\* write(): the guard's deref_mut mutates in place or forks once.
DirectWrite(c, w) ==
    /\ "direct" \in Calls
    /\ pc[c] = "idle"
    /\ gate = NoClient
    /\ w \notin used
    /\ InPlaceOrFork(Mutated(Current, w))
    /\ Acknowledge(w)
    /\ UNCHANGED <<locals, gate, autoWriter, retired, disk>>

\* transact(): always a fork, swapped with the version one past the current.
Transact(c, w) ==
    /\ "transact" \in Calls
    /\ pc[c] = "idle"
    /\ gate = NoClient
    /\ w \notin used
    /\ Swap(Mutated(Current, w))
    /\ Acknowledge(w)
    /\ UNCHANGED <<locals, gate, autoWriter, retired, disk>>

LockOntology(c) ==
    /\ "lock" \in Calls
    /\ pc[c] = "idle"
    /\ gate = NoClient
    /\ InPlaceOrFork([Current EXCEPT !.locked = TRUE])
    /\ UNCHANGED <<locals, gate, autoWriter, retired, ghost, disk>>

\* Mutant of Retire: the flag is set without waiting for the gate.
RetireUngated(c) ==
    /\ "retire" \in Calls
    /\ pc[c] = "idle"
    /\ retired' = TRUE
    /\ UNCHANGED <<store, locals, gate, autoWriter, ghost, disk>>

\* retire() waits out the gates, so what is in flight finishes first.
Retire(c) ==
    /\ "retire" \in Calls
    /\ pc[c] = "idle"
    /\ gate = NoClient
    /\ retired' = TRUE
    /\ UNCHANGED <<store, locals, gate, autoWriter, ghost, disk>>

-----------------------------------------------------------------------------
(* checkpoint_if_changed.  The caller's mutex around last_version lets one *)
(* checkpoint run at a time.                                               *)

CheckpointRead(c) ==
    /\ "checkpoint" \in Calls
    /\ pc[c] = "idle"
    /\ \A d \in Clients : pc[d] \notin {"ckSave", "ckRecord"}
    /\ lastVersion # Current.version          \* else Skipped
    /\ base' = [base EXCEPT ![c] = Current.version]
    /\ pc' = [pc EXCEPT ![c] = "ckSave"]
    /\ UNCHANGED <<store, snap, work, mine, occ, tries, gate, autoWriter, retired, ghost, disk>>

\* save(): under both gates and the graph lock.
CheckpointSave(c) ==
    /\ pc[c] = "ckSave"
    /\ gate = NoClient
    /\ \/ /\ ~retired
          /\ saved' = Current.writes
          /\ pc' = [pc EXCEPT ![c] = "ckRecord"]
          /\ UNCHANGED <<snap, work, base, mine, occ, tries, autoWriter, ghost>>
       \/ Fail(c) /\ UNCHANGED saved
    /\ UNCHANGED <<store, gate, retired, lastVersion>>

\* Mutant of CheckpointRecord: the version is read again after the save.
CheckpointRecordLate(c) ==
    /\ pc[c] = "ckRecord"
    /\ lastVersion' = Current.version
    /\ Succeed(c)
    /\ UNCHANGED <<store, gate, retired, saved>>

\* *last_version = Some(version): the version read before the save.
CheckpointRecord(c) ==
    /\ pc[c] = "ckRecord"
    /\ lastVersion' = base[c]
    /\ Succeed(c)
    /\ UNCHANGED <<store, gate, retired, saved>>

-----------------------------------------------------------------------------
\* Steps a call takes on its own once made, as opposed to a client's choice.
Progress(c) ==
    \/ PublishCheck(c) \/ Publish(c) \/ FlushFails(c)
    \/ AutoInPlace(c) \/ AutoFallback(c) \/ AutoBegin(c) \/ AutoExecute(c)
    \/ ClosureEnd(c)
    \/ CheckpointSave(c) \/ CheckpointRecord(c)

Request(c) ==
    \/ Begin(c) \/ Rollback(c) \/ Commit(c)
    \/ LockOntology(c) \/ Retire(c) \/ CheckpointRead(c)
    \/ \E w \in Writes :
        \/ Execute(c, w) \/ AutoStart(c, w) \/ ClosureRun(c, w)
        \/ DirectWrite(c, w) \/ Transact(c, w)

Next == \E c \in Clients : Request(c) \/ Progress(c)

Spec == Init /\ [][Next]_vars

\* A thread inside a call keeps running; nothing obliges a client to make one.
FairSpec == Spec /\ \A c \in Clients : WF_vars(Progress(c))

-----------------------------------------------------------------------------
(* Properties.                                                             *)

\* No acknowledged write is ever lost: every write a call returned success
\* for is in the published graph, whoever published since.  Needs the version
\* to be checked by every commit and moved by every write.
NoLostUpdate == acked \subseteq Current.writes

\* A write whose call failed or rolled back is visible to nobody: it is in no
\* graph a reader can reach, now or later.
FailedIsInvisible ==
    /\ Current.writes \cap discarded = {}
    /\ \A c \in Clients : snap[c] # NoCell => heap[snap[c]].writes \cap discarded = {}

\* A held snapshot never changes, whatever is written in place meanwhile.
SnapshotIsStable ==
    [][\A c \in Clients :
        snap[c] # NoCell /\ snap'[c] = snap[c] => heap'[snap[c]] = heap[snap[c]]]_vars

\* The published version never moves back, last-writer-wins commits included:
\* the bump is from the current version, not from the transaction's base.
VersionNeverFalls == [][heap'[published'].version >= Current.version]_vars

\* Once retire() has returned, no commit, auto-commit statement, closure or
\* checkpoint publishes or saves, those already begun included.  write() and
\* transact() do not ask whether the session is retired: their steps, which
\* leave pc as it is, are not covered.
RetiredEndsCommits ==
    [][retired /\ pc' # pc => heap'[published'] = Current /\ saved' = saved]_vars

\* checkpoint_if_changed never skips a save that is needed: while the recorded
\* version is the published one, the file holds every published write.
SkippedCheckpointIsCurrent ==
    lastVersion = Current.version => saved = Current.writes

\* Every call that has started its own run returns.
CallsReturn ==
    \A c \in Clients : pc[c] \notin {"idle", "open", "reading"} ~> pc[c] = "idle"
=============================================================================
