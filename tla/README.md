# kglite: a TLA+ model of its sessions, logs and stores

kglite is an embedded property-graph database: a Rust engine
(`src/crates/kglite`) with Python, Node, C and Java bindings, a Bolt server, an
MCP server and a CLI on top. Most of the code is sequential (a Cypher
engine, storage layouts, algorithms, codecs). What is hard to test is where
threads, processes, failing files and crashes meet: the *session* and its
commits, the write-ahead log from its bytes to its replay, the change stream,
the Bolt server's writer slot, and the generations of a disk-mode directory.
This project models those, checks them with TLC on small instances and proves
part of them with TLAPS for every instance.

Paths below are relative to `src/crates/kglite/src/graph/` unless they start
with `src/`.

## 1. Inventory

| Component | State it keeps | Operations | Modelled in |
|---|---|---|---|
| Session transactions (`session/transaction.rs`, `logged_write.rs`, `auto_commit.rs`) | `graph: Mutex<Arc<DirGraph>>`, `commit_gate`, `auto_commit_writer`, `retired`; per transaction a snapshot, a working copy, a base version | `begin`, `begin_read`, `execute_mut`, `commit` (with and without OCC), `rollback`, `execute_auto_commit`, `write_logged` / `apply_unlogged`, `write`, `transact`, `lock_ontology`, `retire`, `checkpoint_if_changed` | `Session`, `SnapshotStore`, `SessionStore`; proofs in `SessionProofs` |
| Group commit (`session/group_commit.rs`) | `Queue {leader_active, waiting}`, a `Parker` per writer, the batch lent from writer to writer | `execute_grouped`, `lead_batch`, `follow_batch`, `run_in_batch`, `publish_batch`, `Handoff::drop`, `Roster` | `GroupCommit`; proofs in `GroupCommitProofs` |
| Durable session (`session/durable.rs`, `session/online_checkpoint.rs`) | `DurableState {wal, next_lsn, diverged, ...}`, `checkpoint_gate` | stage, flush, abort, `sync`, `save`, `checkpoint_online`, `mark_diverged` | `DurableLog`; proofs in `DurableLogProofs` |
| Write-ahead log file (`wal.rs`), open (`durability.rs`) | `Wal {end, epoch, poisoned, sync}`, the file's bytes, siblings set aside; the checkpoint file and its LSN stamp | scan, quarantine, cut, header upgrade, append, barrier, cut back, `reset`, `trim_through`, reopen | `WalFile` in cells, `DurableLog` in whole frames; proofs in `WalFileProofs` |
| Checkpoint writer (`io/file.rs`, `durable_io.rs`) | temp file, renamed file | write, rename, sync the directory | `DurableLog` |
| WAL capture and replay (`storage/recording*`, `mutation/wal_replay/`) | touches of a transaction; the plan of a recovery | record a touch, checkpoint and rewind the buffer, resolve at commit, absorb, install | `WalReplay` |
| Change data capture (`cdc/`, the `db.cdc.*` procedures) | the bounded ring, sequence numbers, capture state of a graph, stateless cursors | publish at commit, enable, resize, disable, restart, query | `ChangeLog`; proofs in `ChangeLogProofs` |
| Disk generations (`storage/disk/generation.rs`, `storage/disk/graph*`, `dir_graph/disk_persistence.rs`) | generation directories, `CURRENT`, the writer lease and its permit; per handle its lineage, base, pins | resolve and open, fork, first write, save, prune, end authority, create | `DiskGenerations`; proofs in `DiskGenerationsProofs` |
| Rollback journal (`dir_graph/rollback.rs`, `storage/undo.rs`) | undo entries, marks into the capture buffer, the previous change log | record, apply backwards | what it does to the capture buffer and the change log: `WalReplay`, `ChangeLog` |
| Bolt server writer slot (`src/crates/kglite-bolt-server/src/backend*`) | the slot's semaphore and FIFO, `TxState` by handle, in-flight marks, reaped handles | BEGIN, RUN, COMMIT, ROLLBACK, RESET, close, auto-commit, poll, reclaim, wait timeout | `BoltWriter`; proofs in `BoltWriterProofs` |
| Forked overlay (`storage/forked*.rs`) | base plus overlay | read through, write, compact | no: see section 5 |
| Backup (`session/backup.rs`), checkpoint coalescer (`src/crates/kglite-bolt-server/src/coalesce.rs`) | none of its own; calls in flight | stamped copy of a snapshot; spacing of checkpoints | no: see section 5 |
| Graph handle, Cypher engine, bulk mutation, algorithms, import/export, bindings, MCP server, CLI, Bolt framing | request-local | | no: sequential computation, codecs, argument conversion or network I/O around the parts above |

### How they interact

A call into a session takes up to four locks, always in this order:
`checkpoint_gate`, `commit_gate`, the graph mutex, the durable mutex
(`session/durable.rs:49-71`; `auto_commit_writer` comes first where it is used).
The graph mutex is the only thing a reader waits for and is held briefly: a
commit drops it while the log's barrier runs and takes it again to swap. What
keeps two commits apart in that window is the commit gate. A commit is therefore

    gate -> retired? -> version check -> stage frame -> barrier -> swap -> gate drops

and every other writer does the same or holds the gate over something shorter.
Three calls are special: an auto-commit statement on an unshared graph below
`full` writes *in place*; at `full`, plain data writes are *grouped* under one
barrier; and `write` / `transact` bypass the log and set the `diverged` latch,
which refuses logged commits until a `save` folds their effect in.
A checkpoint writes the graph with the LSN it stands for, then shortens
the log; `checkpoint_online` writes the file with no lock held.

A statement records touches in its working copy's capture buffer; the commit
resolves them into the frame it stages and into the events it hands to the change
ring. The Bolt server puts its writer slot around all this: a queue-mode
transaction holds the slot from before its snapshot to its end. A disk-mode
graph has no log: `save` publishes a generation directory under the lease of its
lineage, and the processes that share the directory meet only there.

### What is hard here

* **Interleaving**: the version check and the swap are in different
  critical sections; a retire, a checkpoint or a direct write can fall anywhere.
  A RUN overlaps its own COMMIT; a resize of the change ring overlaps publishes;
  a revocation overlaps a sibling's save.
* **Stale state**: the version is taken to name the graph by the OCC check, by
  `checkpoint_if_changed` and by the batch's publish; a cursor is checked under one
  lock and used under another; a save is built from a generation that may be old.
* **Partial failure**: an append, its cut-back, its barrier, a rename or
  a directory sync can each fail on its own; a statement of a batch or of a
  transaction may fail after others have left their traces.
* **Crashes**: process crash (page cache survives) and power loss (any part
  of what was not synced, old directory entries) between any two file steps.
* **Long sequences**: delete, reuse of the slot, recreation and relinking in one
  frame; disable, enable and failure in one transaction.
* **Liveness**: the baton of group commit, the bounded retries of auto-commit,
  the queue behind a writer that has gone quiet.

`PROJECT.json` lists each hazard at its line with the properties aimed at it.

### What makes each component correct

* Session: commits are serialisable, atomic and never lost; readers see one
  graph; what failed is never seen; after `retire` nothing commits; a skipped
  checkpoint was not needed; every call returns.
* Group commit: exactly one baton; nothing is visible before its barrier; graph
  and log agree; failures leave no trace; everyone is answered, soon.
* Durability: what was promised survives; what was refused is forgotten; what
  is recovered is a state the graph went through; the replay gate neither skips
  nor repeats a frame.
* The log's bytes: a scan serves a prefix of what was written, with all that was
  promised in it; nothing intact is discarded without a copy; what a handle appends
  will be reached.
* Replay: installing the fold on the checkpoint gives back the committed graph, and
  on a graph that has the effects already it changes nothing.
* Change stream: exactly the committed writes, each under one number for good; a
  reader misses nothing without being told.
* Writer slot: the window of a transaction is exclusive, answers are true,
  everybody who waits is answered.
* Disk directory: what a save acknowledged stays; `CURRENT` names a generation
  that is there; a save is alone; nobody's mapped files are deleted.

## 2. The modules and the code

### `Session` — transactions on one session

State: `heap` maps a cell to the `DirGraph` in it, an `Arc` is the name of a
cell, `published` is the cell `Session.graph` names; `snap[c]`, `work[c]`,
`base[c]` are a transaction's `Arc` clone, working copy and base version.
`Unshared` is `Arc::get_mut` succeeding. `gate` and `autoWriter` hold the client
inside the mutex of that name. A graph is its version, its set of *write tokens*
(one per executed statement) and the runtime ontology lock.
The sets `acked` and `discarded` are ghosts: what callers were told.

| Code | Action |
|---|---|
| `begin`, `begin_read` | `Begin` |
| `working_mut` in `execute_mut` | `Execute` (the first one consumes the snapshot) |
| `commit_reporting` up to the gate | `Commit` |
| `publish_gated`: check and frame / barrier and swap / barrier failed | `PublishCheck` / `Publish` / `FlushFails` |
| `execute_auto_commit`: mutex, `in_place_with`, fallback, begin, fork, retry | `AutoStart`, `AutoInPlace`, `AutoFallback`, `AutoBegin`, `AutoExecute`, `Conflicted` |
| `closure_write` (`write_logged`, `apply_unlogged`) | `ClosureRun`, `ClosureEnd` |
| `write`, `transact`, `lock_ontology`, `retire` | `DirectWrite`, `Transact`, `LockOntology`, `Retire` |
| `checkpoint_if_changed`: read, save, record | `CheckpointRead`, `CheckpointSave`, `CheckpointRecord` |

A section that holds the graph mutex throughout is one step; a section that
holds only the gate is several. The log answers yes or no here; what it
stores is `DurableLog`'s subject.

### `SnapshotStore`, `SessionStore` — the promise, and the refinement

`SnapshotStore` is the abstract specification: `contents` grows by batches, a
client's `view` is the contents at one instant, and a client that has read may
add a batch only while its view is still the contents. `SessionStore` maps
`Session` to it (`contents` is the published graph's writes; the view of a client
with a working copy is that copy less its own writes).

### `GroupCommit` — leader, followers, one barrier

A call is named by its statement; `mail` is its `Parker`. The leader's path is
`lead`, `own`, `admit`/`await` (one lap per follower), `flush`, `publish`,
`announce`, `handoff`, a step each, because followers, new writers, other
commits and a retire run in between. A statement's effect is a frame in `log`
and an entry in the fork. `RunOwn` includes the panic that
drops the batch; a follower that unwinds still posts `TurnDone`.

### `DurableLog` — log, checkpoint, crash, recovery

A graph is the *sequence* of commits applied to it, so a frame replayed
twice, skipped or out of order is a different graph. Each file is a page cache
and a platter. A power loss keeps the platter and any prefix of what was
written since, and a rename may be undone until its directory is synced
(`olderLogs`, `olderFiles`). `Stage`, `Publish`, `BarrierFails` are a commit;
`SaveStart` or `OnlineStart` fix the (graph, LSN, offset) triple, then
`RenameFile`, `SyncFileDir`, and `TruncateLog`/`SyncTruncation` or
`TrimLog`/`SyncLogDir` or `TrimRefused`; `MarkDiverged` and `DirectWrite` are the
two halves of `write()`. The cut after a failed barrier is one step here, which
succeeds or poisons the log with the frame still in it; `WalFile` has its steps.
Ghosts: `acked`, `refused`, what clients were told; `stranded`, the refused commits whose
frame a poisoned log was left with; `promised`, what has to survive a power loss. `ProcessCrash` and `PowerLoss` reopen the session on
what is left. A behaviour has a `scenario`: the level, the calls in use, the
operations that may fail and the kinds of crash.

### `WalFile` — the bytes of the log

A file is a sequence of cells, one for the header and three for every frame, so
that a length, a checksum and a payload tear apart. A slot is the three cells after
the header or after another slot; the scan takes slots while they are complete
frames (`FrameAt`, `Reach`). `versions` is what a power loss may leave cell by cell:
anything since the last sync (`Mixes`); `before` is what it may leave of a file
that was emptied since. Ghosts: `log`, the frames its owners wrote and did not take
back (a refused one that could not be cut out, in a poisoned file, is among them); `promised`, those synced before their commit was acknowledged; `folded`, the
last frame of the checkpoint; `damaged` and `struck`, the frames that lost a cell,
and those and the frames behind them, which the scan cannot reach; `halted`, that an
owner went between a cut or a new header and its sync.

| Code (`wal.rs`) | Action or operator |
|---|---|
| `scan_frames`, `ResumePoint`, the non-tail test | `FrameAt`, `Reach`, `ValidLen`, `Frames`, `Scan`, `NonTail`, `NonZero` |
| open: quarantine or copy of the tail, cut, sync, header upgrade | `Open`, `SaveAside`, `Cut`, `CutSync`, `Upgrade`, `UpgradeSync`, `Ready`, `OpenFails` |
| append, its barrier, `cut_back_to_end`, poison | `Write`, `WriteFails`, `Barrier`, `BarrierFails`, `Acknowledge`, `Undo`, `Undone`, `UndoSync`, `UndoFails` |
| `sync`, `reset` | `Sync`; `Fold`, `Restart`, `WriteHeader`, `SyncHeader`, `ResetFails` |

### `WalReplay` — from touches to a recovered graph

`published` and `working` are graphs by slot; `touches` is the recording
graph's buffer, `mark` the failing statement's checkpoint in it. `Resolve` (format
v4) and `LegacyOps` (v3) turn touches into operations at `Commit`; `Absorb`
folds each frame into `plan`, keyed by identity with generations for what was
deleted and recreated; `Installed` is the one pass over the checkpoint. The
properties compare that with the graph that was committed.

### `ChangeLog` — the change stream

`log[e]` is the ring of epoch `e`, shared by every fork; `txs[t].cap` is the
capture state a working copy carries: the live handle, an isolated copy
while a resize is uncommitted, the handoff of an epoch that ended. `StartEnable`,
`StartDisable`, `StartNew` and `Configured`/`ConfigureFails` are the procedures and
the rollback of their statement; `Admit`, `Drain`, `Flush`, `Swap` a commit, where
a durable one publishes its events after the swap and another before it; `Look`,
`TakeCursor`, `Check`, `Read` are the two lock sections of `db.cdc.query`.

### `Kept` — filtering a sequence

What is left of a sequence when some of its positions are kept, in order: the
`filter` and `pop_front` loops of the ring and of the replay. `DurableLog` and
`ChangeLog` use it in place of `SelectSeq`, whose definition the provers cannot expand.
`KeptProofs` has its lemmas.

### `BoltWriter` — the writer slot

A call is a transaction or an auto-commit statement named by its handle.
`waiting` is the semaphore's queue, `exclusive` and `sharing` its permits.

| Code (`backend.rs`, `backend/writer_slot.rs`) | Action |
|---|---|
| acquire, grant, snapshot | `Arrive`, `Grant`, `Start` |
| RUN: lookup, in-flight mark, end | `Run`, `Mark`, `RunEnds` |
| COMMIT, ROLLBACK: taken out of the map, put back while a RUN holds it | `Take`, `PutBack`, `CommitEnds`, `RollbackEnds` |
| RESET, close, reclaim | `Reset`, `Discard`, `Poll`, `Reclaim` |
| wait timeout, idle clock | `GiveUp`, `Idle` |
| auto-commit | `AutoPublishes`, `AutoRetries`, `AutoFails` |

### `DiskGenerations` — one directory, several processes

State: `gens` the generations by id, each the set of writes in it; `listed`,
`durable` what of them and of `CURRENT` a power loss keeps; `owner` the lineage
whose lease has the OS lock, `permit` the save inside `publication_permit`;
`handles[h]` a handle with its lineage, lease, base, pins and the call it is in.
`saved` is a ghost: what a save returned Ok for.

| Code | Action |
|---|---|
| `load_disk_dir`: resolve, open | `Resolve`, `Open` |
| `prepare_mutation`, `detach_ended_lineage` | `Mutate`, `Detached` |
| clone, drop | `Fork`, `Drop`, `KeepsLock` |
| `end_writer_authority`: flag, lock | `End`, `EndLease` |
| `save_disk`: lease, permit, stale check, stage | `SaveLease`, `SavePermit`, `SaveBegin` |
| `GenerationTxn::publish`: rename, sync, pointer, sync | `Rename`, `SyncList`, `Select`, `SyncRoot` |
| `finish_generation`, `prune_generations` | `Finish`, `Pinned`, `Outdated` |
| `new_dir_graph_in_mode`, `publish_initial_generation` | `Create`, `CreateBegin`, `CreateEnds` |
| death of a process, power loss | `Crash`, `PowerLoss` |

Every step of a save may fail; what it leaves then is `Fails`.

## 3. What the runs check

Each `.cfg` names its bounds. Symmetry (threads, writes, statements, identities)
is used only where no liveness is checked. Times are for two workers.

| Run | Instance | Distinct states | Shows |
|---|---|---|---|
| `session` | 3 threads, 3 writes, OCC calls, direct writes, checkpoints, retire | 97 k | `NoLostUpdate`, `SkippedCheckpointIsCurrent`, `RetiredEndsCommits`, and `ImplementsSnapshotStore`, the refinement |
| `session_live` | 2 threads, 2 writes, every call, last-writer-wins included, fairness | 173 k | `FailedIsInvisible`, `SnapshotIsStable`, `VersionNeverFalls`, `CallsReturn` |
| `group_commit` | 3 calls in batches of 2, 1 other commit, every fault, fairness | 222 k, half a minute | `OneBaton`, `PublishedIsDurable`, `LogIsGraph`, `FailedIsNowhere`, `WaitsTwoBatches`, `EveryWriterAnswered` |
| `log` | three scenarios: `full` with failing files and power losses; `normal` with direct writes and both kinds of crash; `normal` with `sync` and saves; 4 commits, 2 checkpoints, 2 crashes | 930 k, 1 min | `PromisedSurvives`, `AckedSurvivesCrash`, `RefusedIsForgotten`, `RecoveredIsPrefix`, `LogDescribesGraph` |
| `wal_file` | 3 frames, both sync modes, failing writes, barriers, cuts and opens, 2 stops or damaged cells, 1 fold | 1.77 M, half a minute | `PromisedIsServed`, `ServedIsPrefix`, `IntactIsKept`, `HeaderNamesFrames`, `AppendsAtFrames` |
| `replay` | 2 identities in 2 slots, up to 2 parallel edges, 2 commits of 4 touches, three mixes of writes over every small checkpoint, both formats | 929 k, 2 min | `ReplayIsExact`, `ReplayConverges` |
| `change_log` | 3 transactions of 2 statements, 1 consumer, capacities 1 and 2, 2 epochs, with and without a log | 1.53 M, 1 min | `NoPhantom`, `NothingMissing`, `SeqNamesOneChange`, `SkippedWhileReading`, `HandoffIsTheEnd` |
| `bolt` | 3 calls, any number of RUNs; queue mode with both timeouts, either, or none and readers; optimistic mode; fairness | 370 k, 1.5 min | `WindowIsExclusive`, `ToldIsApplied`, `WaiterAnswered` |
| `disk` | 2 handles of one process, 1 of another; 1 or 2 writes, 3 or 4 saves and creates, up to 2 failures, crashes or revocations | 3.17 M, 2 min | `SavedStays`, `SelectedResolves`, `PublishesAlone`, `ReadersKeepFiles` |

The type invariants of all modules but `WalReplay` are proved. Those of `WalFile` and
`ChangeLog` are checked in their runs too; that of `WalReplay` is stated in the module
and holds on the same instance, and no run spends its time on it.

Three runs end in a violation, each a disagreement between the code and a sentence
beside it:

| Run | What happens | What the code says of itself |
|---|---|---|
| `wal_reset_fails` | `reset()` empties the file and fails before its header is back; the handle is not poisoned, the next commit is acknowledged into a file with no header, and the next open refuses the log. | "If the log cannot be cut back it is poisoned rather than appended to blindly" (`wal.rs:1868-1873`, of a failed append) |
| `change_log_gap` | `db.cdc.query` checks the cursor under one lock and reads under another; an append in between evicts events, and the answer starts late without saying so. | "reporting a short answer instead would be a silent gap" (`languages/cypher/executor/cdc_procedures.rs:119-121`) |
| `disk_create` | A create publishes without the lease and asks `CURRENT` afterwards what it published; when another process has loaded and saved in between, the empty handle's next save passes the check and takes that save's place. | a save is "Refused with [`SaveError::Refused`] when another writer published a generation since this handle loaded or last published one" (`dir_graph/disk_persistence.rs:373-376`) |

The passing runs leave those triggers out where the property would fail for that
reason alone: `wal_file` has no failing reset, `change_log` checks
`SkippedWhileReading` (nothing is skipped but what was evicted after the check),
`disk` has `CreatesAlone`. `session` has no `"lww"` and no `"config"` calls: a
last-writer-wins commit overwrites by design, and the first observation below says
what a `"config"` write does. `log` has no fault `"clone"` and no scenario with both
`"save"` and `"direct"`, for three observations below.

### Observations

Met while modelling, where the code disagrees with a sentence of its own or where a
property had to be weakened; none has a run of its own.

* A closure write that changes unlogged state does not move the version. An open
  OCC transaction then passes its check and overwrites it, against
  `session/logged_write.rs:133-135` ("must not be dropped"). For the same reason
  `checkpoint_if_changed` skips a save only such a write calls for, and a
  transaction forked before `lock_ontology` unlocks the graph again when it commits
  (`session/transaction.rs:258-259`: "later forks and commits carry it").
* `write()` marks the session diverged before it waits for the gate; a `save` that
  holds the gate clears the mark, and the direct write lands on a session whose
  log goes on, against "every subsequent durability operation fails loudly"
  (`session/transaction.rs:240-246`). A scenario with both `"save"` and `"direct"`
  violates `LogDescribesGraph` so; the ones of `log` have one or the other.
* `write()` and `transact()` do not ask whether the session is retired.
  `RetiredEndsCommits` speaks of the other calls.
* A process may die between the rename and the directory sync of a save that folds a
  direct write in. The next open finds the new file and goes on committing, as a
  session that never diverged; a power loss then may leave the old file, and the
  later frames replay onto a graph without the direct write. That too needs both
  `"save"` and `"direct"`.
* The frame is written before the handle for its barrier is duplicated. When that
  fails `end` is put back and the commit refused, but the frame stays, in a log that is
  neither cut nor poisoned (`wal.rs:1886-1892`), and an open replays it, against "its
  bytes must not stay" (`wal.rs:1868-1869`). With the fault `"clone"` the step
  `StageCloneFails` violates `RefusedIsForgotten`; no scenario of `log` has it.
* When a barrier fails and the cut of its frame fails too, the log is poisoned with
  the frame at its end (`wal.rs:1915-1928`), and the next open may replay it, although
  the client was answered `DurabilityFailed` ("commit was NOT applied",
  `error.rs:776-780`). `RefusedIsForgotten` excepts these commits (`stranded`), and
  `RecoveredIsPrefix` allows one of them behind what the graph went through;
  `ServedIsPrefix` counts their frames as written. A batch of grouped writes may leave
  several: what `GroupCommit` says of a failed batch is said of a cut that succeeds.
* A trim renames the shortened log and syncs its directory. If that sync fails, or the
  process dies before it, the log goes on being appended to although its entry
  may not be durable (`durable_io.rs:10-13`). `PromisedSurvives` excepts the fault.
* An open replays and publishes frames that are only in the page cache, and syncs
  nothing but what it changed itself (`wal.rs:1304`). So does the open after a stop
  between a cut or a header and its sync, which finds the file as it should be;
  `ServedIsPrefix` excepts such a log.
* CDC epochs start at 1 in every process (`cdc/log.rs:13-17`), so a cursor of
  an earlier process can name an epoch of this one, against `cdc/log.rs:124-129` and
  `cdc/mod.rs:39-41`.
* A session with no log publishes its events while it stages, before the graph is
  swapped (`session/durable.rs:487-490`), against "Change events follow visibility"
  (`session/transaction.rs:520`). `NoPhantom` allows for the instant.
* A rolled-back transaction that resized the change ring leaves it resized when
  the working copy shared it.
* With an idle timeout and no wait timeout a holder that sends RUNs for ever keeps the
  slot for ever: each RUN touches its record, and `wait_for` has no deadline of its own
  (`writer_slot.rs:210-237`). `WaiterAnswered` excepts such a holder, there only.
* A reclaim may take a transaction whose RUN began after the idle check, against "the
  holder is never reaped while one is in flight" (`writer_slot.rs:92-93`).
* Pruning counts the generations below `CURRENT`, the orphan of a failed publish
  among them: with the default window of 1 the next save then deletes the
  previous snapshot and keeps the orphan.
* A detached handle is not compared with `CURRENT` when it saves to the original
  path, nor is one whose authority ends in the middle of its save; a handle
  created over an existing graph expects nothing and is not compared either. A
  root sync that fails after `CURRENT` moved makes the handle's own next save look
  like another process's. A refused save keeps its lease.

### Mutants

Every property of a passing run has a mutant: a variant of one definition that
is a plausible bug (a gate not held, an off-by-one in the version check, a cut
to the wrong offset, a directory not synced, a cursor not compared). The variants stand
just before the definition they vary, under a comment that says "Mutant".

### Bounds, and why they are enough

* **Session**: the hazards involve a commit, whoever overtakes it, and a reader or
  checkpoint watching: three threads. `session_live` has two: its properties
  compare a state with a held snapshot or the next state, and a retry needs one rival.
  Cells are threads + 2, so a swap is never refused for want of memory. An
  auto-commit statement that loses a race, retries (`Attempts = 2`) and gives up
  needs two writes of others.
* **Group commit**: a leader, a follower, a writer left over for the next
  batch, and a commit that does not group. `waited` counts batches ended
  while a writer is owed an answer.
* **Log**: four commits let a trim keep a tail and a commit follow it; two
  checkpoints put one after the other's crash; two crashes put one into recovery
  from the first. A scenario leaves out what another has, so that the product of
  faults stays small.
* **File**: three frames put one before and one after any that is torn; two losses
  put one into the repair of the first.
* **Replay**: two identities in two slots is the least in which a slot changes its
  owner and an identity its slot; four touches are a delete, a recreation and an
  edge at either end; a second frame meets the first one's plan.
* **Change log**: a ring of one overflows at every second event; three
  transactions are one that resizes, one that publishes meanwhile and one that
  commits after the merge; the second epoch is a restart.
* **Writer slot**: a holder, the waiter at the head and one behind it. `MaxRuns`
  bounds the statements of a transaction that write, so that its write set stays finite;
  its RUNs have no bound, so a holder may keep the slot busy for ever. The calls that
  stand in line and the readers are in settings of their own: a reader in queue mode
  touches neither the queue nor the slot.
* **Disk**: two handles share a process (pins, siblings, one lineage), the third
  is a stranger; a create, a save, and a save built on the generation before it
  need three publications, a fourth takes the window past `KeepPrevious = 1`. The
  budgets trade writes, publications and troubles for each other; four lineages
  are one more than the handles, so a detached handle always finds a name.

### Fairness

`Session!FairSpec` is weak fairness of `Progress(c)` per client: a thread inside
a call keeps running. Nothing obliges a client to begin, commit or roll
back, and an open transaction may stay open for ever: it holds no lock.
Locks are not assumed fair: `CallsReturn` holds under weak fairness since the
bound on writes bounds how often a gate can be taken by others; what the model does
not show is that a std mutex is starvation-free. `GroupCommit!FairSpec` is weak
fairness of each call's own step; a parked writer's step is enabled only by a post.
`BoltWriter!FairSpec` is weak fairness of what the runtime does by itself: the idle
clock runs (`Idle`), the task of each call is polled (`Works`), and so are the thread
of its RUN (`Runs`), its poll of the idle holder (`Watches`) and its deadline
(`GiveUp`). It is stated for queue mode, where calls wait for each other. One
condition for the whole server would not do: a client may repeat its COMMIT for ever
while a RUN is in flight (`Take`, `PutBack`). Nor would one for the two timers of a
waiter: a poll that finds a busy holder is a step, and would stand in for the deadline.
Nothing obliges a client to speak, and nothing obliges it to stop. Hence the premise
`HolderFallsSilent` of `WaiterAnswered`: where a waiter has no deadline, the holder of
the slot does not start RUNs for ever. Where there is a wait timeout the premise holds
of every behaviour; where there is only the idle timeout it is needed, since without it
TLC finds the holder that is never idle. `DurableLog`, `WalFile`, `WalReplay`,
`ChangeLog` and `DiskGenerations` state safety only: an owner may stop anywhere.

### Deadlock

TLC's deadlock check is off in every run, since each bounded system really comes
to rest: every write used, every call answered, every budget spent. That a
call is not stuck half-way is what `CallsReturn`, `EveryWriterAnswered` and
`WaiterAnswered` check.

## 4. What is proved

Hierarchical proofs, checked by TLAPS with no gap, for any values of the
constants that meet the module's named assumption.

| Module | Theorem | States |
|---|---|---|
| `SessionProofs` | `ShapeCorrect`, `TypeCorrect` | every call keeps its shape; the types |
| | `AcknowledgedWritesStay` | with `"lww"` and `"config"` not among `Calls`, `Spec => []NoLostUpdate` |
| | `SnapshotsStand` | `Spec => SnapshotIsStable`, for every call |
| | `VersionClimbs` | `Spec => VersionNeverFalls`, for every call |
| | `FailuresStayInvisible` | `Spec => []FailedIsInvisible`, for every call |
| | `RetirementIsFinal` | `Spec => RetiredEndsCommits`, for every call but `write()` and `transact()`, which the property leaves out |
| | `SkipsAreSound` | with `"config"` not among `Calls`, `Spec => []SkippedCheckpointIsCurrent` |
| | `SessionIsSnapshotStore` | with `"lww"` and `"config"` not among `Calls`, `Spec => ImplementsSnapshotStore` |
| `GroupCommitProofs` | `GroupInvariant`, `GroupTypes` | the inductive invariant; the types |
| | `BatonIsSingle` | `Spec => []OneBaton` |
| | `PublishedAreDurable`, `LogIsTheGraph` | `Spec => []PublishedIsDurable` and `Spec => []LogIsGraph` |
| | `FailuresAreNowhere` | `Spec => []FailedIsNowhere` |
| | `TwoBatches` | with at most `MaxBatch + 1` statements, `Spec => []WaitsTwoBatches` |
| | `WaitsItsTurn` | with at most `MaxBatch * (B - 1) + 1` statements, nobody waits for more than `B` batches |
| `DurableLogProofs` | `LogTypes` | the types, in plain scenarios (see below) |
| | `LogIsTheGraph` | in plain scenarios, `Spec => []LogDescribesGraph` |
| | `RecoveryIsPrefix`, `RefusalIsFinal` | in plain scenarios, `Spec => []RecoveredIsPrefix` and `Spec => []RefusedIsForgotten` |
| | `AcknowledgedSurvivesProcessCrash` | in plain scenarios, `Spec => []AckedSurvivesCrash` |
| | `PromisesAreKept` | in plain scenarios without process crashes, `Spec => []PromisedSurvives` |
| `WalFileProofs` | `TypesHold` | `Spec => []TypeOK` |
| | `PromisesAreServed` | `Spec => []PromisedIsServed` |
| | `ScansServePrefixes` | `Spec => []ServedIsPrefix` |
| | `NothingIsDiscarded` | `Spec => []IntactIsKept` |
| | `HeadersNameFrames`, `AppendsFollowFrames` | `Spec => []HeaderNamesFrames` and `Spec => []AppendsAtFrames` |
| `ChangeLogProofs` | `ChangeLogTypes` | the types |
| | `PositionsStand`, `CursorsFollow` | `Spec => []SeqNamesOneChange` and `Spec => []SkippedWhileReading` |
| | `StreamTellsNoLies`, `StreamTellsAll` | `Spec => []NoPhantom` and `Spec => []NothingMissing` |
| | `HandoffStands` | `Spec => []HandoffIsTheEnd` |
| `BoltWriterProofs` | `BoltTypeCorrect` | the types |
| | `WindowStaysExclusive` | `Spec => []WindowIsExclusive` |
| | `AnswersAreTrue` | `Spec => []ToldIsApplied` |
| `DiskGenerationsProofs` | `DiskTypeCorrect` | the types |
| | `PublicationIsAlone` | `Spec => []PublishesAlone` |
| | `SavesStay`, `PointerResolves` | with `CreatesAlone`, `Spec => []SavedStays` and `Spec => []SelectedResolves` |
| | `ReadersAreSpared` | `Spec => ReadersKeepFiles` |

**Session.** `NoLostUpdate` (`acked \subseteq Current.writes`) is not
inductive: nothing in it says that what a commit swaps in contains what is
published. Two strengthenings supply that.
`ShapeInv` needs no assumption on calls. It is the type invariant and, per
client: a snapshot is held exactly while the call reads through one
(`SnapHeld`); a call that has written nothing owns no write (`MineOK`); the
auto-commit mutex is held by a one-statement call on its way through (`AutoOK`);
and the gate is held by exactly the client at the barrier or in a closure
(`GateOK`). There is one lemma per action.
`OccInv` is inductive relative to `ShapeInv` and is where the version check
earns its keep. Per client: a snapshot is never newer than the published graph,
and *equals* it when the versions are equal (`SnapOK`); the same of a working
copy, up to the call's own writes (`WorkOK`); whoever holds the gate is about
to publish the published writes plus its own (`HeldOK`); and every commit at the
gate checks its version (`OccOK`). All steps rest on `OthersOcc`: a step that
leaves other clients' variables and snapshots alone, and under which the
version grows with the writes (`Moves`), keeps what the invariant says of
the others. `PublishCheckOcc` is the heart: passing the check means that the base
is the current version, and then `WorkOK` becomes `HeldOK`. The two hypotheses
are needed: a last-writer-wins commit overwrites by design, and the first
observation above is a counterexample with `"config"`.
`VersionClimbs` adds `ClosureBase` to `ShapeInv`: a closure inside the gate
started from the current version, so its bump climbs.


**Session, what failed and what ended.** `ProvenanceInv` follows every write from the
statement that executes it: a call's own writes are published nowhere, in no other
call's copy and in no snapshot, so that discarding them is seen by nobody.
`RetiredQuiet` is that the gate is free once the session is retired: `retire` waits for
it, and every way in asks afterwards. `SavedInv` ties a checkpoint's reading to the
published version; two graphs at one version are then the same graph, which is
what `"config"` breaks.

**The refinement.** `SessionIsSnapshotStore` maps each step of `Session` to a step of
`SnapshotStore` or to a stutter: a swap is the store's `Update`, a snapshot taken is a
`Read`, and cells, versions, gates and retries do not show. It rests on `OccInv` (the
view of a client about to publish is the contents) and `ProvenanceInv` (the batch
it adds is new).

**Group commit.** `QueueInv` is the types and who may be where. The baton is with
exactly one call, by its place or by the message waiting for it (`BatonOK`); what is
queued is parked and has been told nothing (`QueueOK`); the fork is lent to one
member of the batch, while its leader waits (`TurnOK`); a member has its turn or is
owed the verdict (`RosterOK`). `DataInv` says what log, fork and graph are to each
other: equal while the gate is free, apart by the batch's frames while it is not,
durable up to the graph or, after the barrier, to the end. `OutcomeInv` adds what
statements were told. `PublishedIsDurable` needs `QueueInv` and `DataInv` together, and
`FailedIsNowhere` all three.
How long a writer waits is a matter of places. `WaitInv(B)` says, of whoever has the
baton and of the `i`-th in the queue, that `i` is at most the places that this batch
still has (`Still`) plus `MaxBatch` for every further batch the writer may see end
(`Slack`). A writer that joins the queue finds at most the other writers before it,
which is where the bound on their number comes in; a batch that ends gives the next
leader as many places as it took from the slack; a leader stops admitting only when
its batch is full or nobody is in line, so no place is wasted. With more writers than
`TwoBatches` allows, a writer may wait for more batches, which is what
`WaitsItsTurn` counts.

**Durable log.** The invariant is that there is one history `h`, the commits by
LSN, and everything on the disk is a piece of it (`Describes`): each checkpoint file
a crash may leave is the prefix its stamp names (`FileFits`), each log carries commits
of `h` at their numbers (`LogFits`) and has no gap after a file (`Continues`), and
the page cache reaches the end of `h` from every file (`DiskOK`). Around that: what
is published is `h` up to a commit in flight or left behind in a poisoned log
(`OrderOK`, `FlightOK`); what clients were told is in or out of `h` (`ToldOK`); a
running checkpoint's stamp, offset and locks fit (`PointOK`). `RecoveredIs` is the
heart: what an open makes of a file and a log that fit is a prefix of `h`, and its
length is the log's last LSN. A staged commit appends to `h`, a cut after a failed
barrier takes the last one off, a truncation or a trim leaves it, a power loss
leaves a prefix; each has a lemma. `TypeOK` is part of the induction: a cut goes
back to `prevEnd`, which is the end before the frame only while the log is what its
handle believes.
For `PromisedSurvives` the invariant gains a number `d` (`CoverInv`): every promise is
among the first `d` commits, and no file and log that may survive together leave
one of these out. Either the file's stamp is past `d`, or page cache and platter
agree up to a frame numbered `d` or more (`ReachesIn`).
A scenario is *plain* when no `"clone"` fails and it has not both `"save"` and
`"direct"`. Both are needed: the observations above on the duplicated handle, on the mark
that a save clears, and on the process that dies in a save over direct writes are
counterexamples. A failing cut needs no such hypothesis: the refused
commit then stays in `h`, as its last one while the log is poisoned and, once an
open has replayed it, as a commit like any other; `ToldOK` says so of `stranded`. So is the one on page-cache frames that an open replays, for
`PromisesAreKept` when a process may crash. Every scenario of `log` is plain; the
one of them with process crashes has the fault `"logdir"`, which
`PromisedSurvives` excepts.

**The log's bytes.** `PromisedIsServed` speaks of the file as it is read; a power loss
next would read another. The invariant therefore speaks of all the contents the disk
may still return (`All`), and a step is described by what it adds to them (`NewFile`:
an older content, a mix of the unsynced ones cell by cell, or the one file the step
writes). Each property is about one thing all those contents share.
`Served(n)`: one sequence of frames ends in `n` and every content *carries* it, slot by
slot from the header on (`Carries`). Cells that all contents share survive a mix
(`MixCarries`), so do the frames before the boundary of a scan that a cut goes back
to, and a cut-back ends where the frame began (`CarriedOn`). `Held(n)`: frame `n`
*stands* whole at one place in every content, not necessarily where a scan gets to; an
open that will cut there has a copy (`StandsOn`). These two are what damage leaves of
the promises: `Served` of what is not `struck`, `Held` of what is not `damaged`.
`Phase` says what the file is at each step of an open, an append, a cut-back or a
reset: the boundary is the scan's of this file (`Pointed`); between the cut and the
first append the file is an *image* of the frames a scan reads, those and nothing else
(`Opened`); while appends are accepted it is an image of `log` (`Appending`); what a
failed append left after `end` is the one frame that nobody was told of (`Undoing`).
`PayloadOK` says for `ServedIsPrefix` that every payload in every content is in the
slot where `log` has its frame, as long as no owner went between a cut or header and
its sync; where an open may begin, every content is then a prefix of the file
(`Prefixed`), which is why the open need not sync it. `HeaderOK` and `Filed` are about
the version in the header and the numbers in the cells. There is one lemma per
conjunct. That a power loss takes any mix is a statement about a recursive function
over the length of the file; `MixUpToCells` proves what is needed of it by the least
counterexample, and the same way `Scanned` says what the greatest reach of a scan is.
The specification has no failing reset; `wal_reset_fails` is the counterexample.

**Change stream.** `ShapeInv` has the types, which epochs exist (`KnownOK`), and that
every ring is numbered without gaps up to the next number and is the newest part of
all that was ever published (`RingsOK`): an append, a resize and a merge of an
isolated copy each leave a suffix (`Kept`). `FollowInv` says what a cursor was given:
everything after its start but what was evicted while it read. `WriteInv` ties the
capture buffer to the transaction's writes, through rewinds, resizes and the
gate; `ToldInv` says that what the ring was ever given is committed, or its
commit has passed its last refusal. `HandInv` is about the position an epoch ended with:
a transaction whose base is the published version, and whom no other has overtaken
at the ring, has the last one.

**Induction over data.** `Kept` and the histories are sequences of any length. Where
a fact about them needs induction it is proved by the least counterexample
(`LeastElement` of `KeptProofs`), which needs no operator as a parameter.

**Writer slot.** `Inv` has the queue without repeats (`QueueOK`), what a call's kind
and name say of its state (`KindOK`), and in queue mode: the exclusive permit is
held by exactly the call that may publish (`PermitOK`), and such a call read
the version there is (`WindowOK`). `StepOf` reduces a step of one call to that call's
part of the invariant: a permit keeps everybody else's window closed.

**Disk directory.** `LockInv` relates the permit and the lock to the places of the
handles: the permit is exactly the set of saves between it and their return
(`LeaseOK`), at most one, and that one's lineage has the lock. `QuietLease`,
`KeptLease` and `LeftLease` are the three kinds of step. `SaveInv` adds how far
each publication has come (`StageOK`: its id is past `CURRENT` until `CURRENT`
is moved to it, its generation is whole, then listed, then named, then durable),
that a graph has all that the generation it came from has (`SourceOK`), and
that a create has the directory to itself (`CreateOK`). At most one call is
then in a save or a create (`OneInSave`), so what it does to the disk no other
handle notices (`OthersUnaware`); `BeginSave` is the heart: a save that passes the
comparison came from `CURRENT`, so its graph has all that is saved. The
hypothesis `CreatesAlone` is needed: `disk_create` is the counterexample.
`ReadersKeepFiles` needs neither invariant but the types: a handle goes from a
published generation to rest in two steps only (`ReturnFacts`), and the one that
prunes spares what any live handle of its process has mapped.

**Model-checked only.**

* Liveness under fairness: `CallsReturn`, `EveryWriterAnswered`, `WaiterAnswered`. The
  provers do not handle `ENABLED`.
* `WaitsTwoBatches` where more writers than `MaxBatch + 1` can stand in line: it does
  not hold there, and `WaitsItsTurn` gives the bound that does.
* `WalReplay`: what a fold over touches and frames computes is a recursion over data
  with a map for its state, and its properties compare it with another one. That would
  be an induction whose hypothesis is the plan's whole meaning.

Not covered by either: `DurableLog` where saves and direct writes meet, and where a
`"clone"` fails, since the properties do not hold there.

## 5. What is not modelled

* Statement execution: a statement applies its token or fails without trace.
  That the undo entries restore the graph is taken as given; what a failed
  statement does to the capture buffer and the change ring is modelled.
* Session clones, savepoints, queries' read paths and the plan cache.
* `save` to a foreign path (a second log), the automatic checkpoint's
  thresholds, floor and back-off with its drain loop, backup, the Bolt server's
  checkpoint coalescer.
* The envelope of a frame and the `.kgl` file are codecs.
* Of replay: declarations, embeddings, the constraint check of the recovered
  graph, endpoints vivified for logs that name a node no frame made, several node
  and connection types.
* Of the change stream: enrichment, selectors, the disk backend (refused there).
* Of the Bolt server: cancellation, connection limits, authentication, framing.
* Of disk mode: flat directories of the old format, bulk builds, generic and
  independent copies, compaction, sidecars and the arrays inside a generation.
* The forked overlay: here a fork is a copy. That the overlay reads as one is a
  sequential property of a large data structure, which the repository tests
  against the plain graph.
* In group commit, a leader that unwinds once it has admitted followers: the
  `Drop` of `Roster` (`session/group_commit.rs:156-162`), which answers them.
* In group commit, the panic window after a frame is pushed and before its
  statement is counted (`session/group_commit.rs:353`).
* The Cypher engine, bulk mutation, indexes and algorithms, import and export,
  bindings, MCP server and CLI: sequential computation, codecs or I/O. They are
  nine tenths and more of the repository's lines, so the share of it this project
  models is small; a model of a query executor would be a second implementation.

## 6. What could come next

1. `RecoverableStore`: the abstract specification of `DurableLog` (a sequence of
   commits with a promised prefix). `Describes` and `CoverInv` are most of the
   refinement.
2. `DurableLog` with saves over direct writes: a history whose entries are commits
   and direct writes, and properties that except the observations above.
3. `WalReplay`: the plan's meaning as an invariant of a fold taken a touch at a
   time, as actions instead of an operator.
4. `DurableLog` with save-as and the automatic checkpoint's drain loop; the coalescer
   and backup on top of it.
5. The forked overlay against the plain graph it stands for, over small bases.
