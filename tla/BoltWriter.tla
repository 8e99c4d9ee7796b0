----------------------------- MODULE BoltWriter -----------------------------
(***************************************************************************)
(* The Bolt server's admission of writers: one process-wide slot, a fair   *)
(* readers-writer gate.  A write transaction holds all of it from before   *)
(* its snapshot until its TxState is dropped, an auto-commit statement for *)
(* as long as it runs (shared with others if the engine groups it).  A     *)
(* holder that goes quiet is rolled back by whoever waits behind it.       *)
(*                                                                         *)
(* What is abstracted:                                                     *)
(*   - A call is a transaction or an auto-commit statement, named by its   *)
(*     handle, and so is the connection while it is in it; a RUN may be in *)
(*     flight beside the COMMIT, ROLLBACK or RESET of its own transaction. *)
(*   - The engine's commit is one step (module Session has it in full): it *)
(*     checks the version and publishes the call's writes, or refuses.     *)
(*   - tokio's semaphore is its FIFO: the head is granted its permits as   *)
(*     soon as they are free, and nobody passes the head.                  *)
(*   - Time is the flag `quiet`: the holder has been idle past the limit.  *)
(***************************************************************************)
EXTENDS Naturals, Sequences, SequencesExt

CONSTANTS
    Handles,      \* the names tx_counter gives to calls
    Configs,      \* the settings explored: see Config
    MaxRuns,      \* statements that write in a transaction (bound)
    ReapedCap,    \* ReapedHandles::CAP
    Attempts,     \* OPTIMISTIC_ATTEMPTS
    None          \* no handle

Kinds == {"write", "read", "auto", "grouped"}

\* --write-concurrency is queue; the wait and the idle timeout are set; the
\* kinds of the calls that clients make.
Config == [queue : BOOLEAN, waits : BOOLEAN, idles : BOOLEAN, kinds : SUBSET Kinds]

ASSUME BoltWriterAssumption ==
    /\ Handles \subseteq Nat /\ None \notin Handles
    /\ Configs \subseteq Config
    /\ MaxRuns \in Nat
    /\ ReapedCap \in Nat \ {0}
    /\ Attempts \in Nat \ {0}

VARIABLES
    config,
    tx_counter,   \* the next call's handle
    version,      \* of the published graph
    waiting,      \* the semaphore's queue
    exclusive,    \* the call holding every permit
    sharing,      \* the calls holding one permit each
    holder,       \* WriterSlot.holder: the call named by the record
    quiet,        \* the record's idle_for() exceeds the idle timeout
    reaped,       \* ReapedHandles, newest last
    calls,        \* calls[h]: the call's state, TxState included
    polled        \* polled[h]: the handle waiter h is about to reclaim

slot == <<exclusive, sharing, holder, quiet>>
vars == <<config, tx_counter, version, waiting, slot, reaped, calls, polled>>

-----------------------------------------------------------------------------
\* "open" is in the map of transactions, "taken" is out of it in the hands of
\* COMMIT or ROLLBACK, "orphan" is out of it with a RUN still holding the Arc.
States == {"new", "waiting", "granted", "open", "taken", "orphan", "running",
           "committed", "conflict", "failed", "gone"}
Live    == {"open", "taken", "orphan", "running"}

\* tries: attempts of an auto-commit statement.
\* run: the RUN in flight is between the look-up and the in-flight mark, runs
\* with the mark, runs without it, or is not there.
Call == [state : States, kind : Kinds,
         base : Nat, wrote : Nat, shown : Nat, tries : Nat,
         run : {"no", "looked", "marked", "unmarked"},
         ending : {"no", "commit", "rollback"}]

NewCall == [state |-> "new", kind |-> "read", base |-> 0, wrote |-> 0,
            shown |-> 0, tries |-> 0, run |-> "no", ending |-> "no"]

TypeOK ==
    /\ config \in Configs
    /\ tx_counter \in Nat
    /\ version \in Nat
    /\ waiting \in Seq(Handles)
    /\ exclusive \in Handles \cup {None}
    /\ sharing \subseteq Handles
    /\ holder \in Handles \cup {None}
    /\ quiet \in BOOLEAN
    /\ reaped \in Seq(Handles) /\ Len(reaped) <= ReapedCap
    /\ calls \in [Handles -> Call]
    /\ polled \in [Handles -> Handles \cup {None}]

Init ==
    /\ config \in Configs
    /\ tx_counter = 1
    /\ version = 0
    /\ waiting = <<>>
    /\ exclusive = None
    /\ sharing = {}
    /\ holder = None
    /\ quiet = FALSE
    /\ reaped = <<>>
    /\ calls = [h \in Handles |-> NewCall]
    /\ polled = [h \in Handles |-> None]

-----------------------------------------------------------------------------
\* Activity on h's record, if it has the slot.
Touch(h) == quiet' = (quiet /\ holder # h)

\* Dropping the permits of h: the record is cleared if it is h's own.
Release(h) ==
    /\ exclusive' = IF exclusive = h THEN None ELSE exclusive
    /\ sharing' = sharing \ {h}
    /\ holder' = IF holder = h THEN None ELSE holder
    /\ Touch(h)

\* The engine's optimistic check.
Stale(h) == calls[h].base # version

\* The step is the call's own.
Becomes(h, call) == calls' = [calls EXCEPT ![h] = call]

\* The call is over and its TxState gone: what is left is what it came to.
Over(h, state, shown) ==
    Becomes(h, [NewCall EXCEPT !.state = state, !.run = calls[h].run,
                               !.wrote = shown, !.shown = shown])

\* A call's writes appear in the published graph, under a new version.
Published(h, writes) == version' = version + 1 /\ Over(h, "committed", writes)

\* It ends and leaves nothing.
Unpublished(h, state) == UNCHANGED version /\ Over(h, state, 0)

-----------------------------------------------------------------------------
(***************************************************************************)
(* Arrival.                                                                *)
(***************************************************************************)
TakesSlot(kind) == config.queue /\ kind # "read"

\* begin_transaction or an auto-commit RUN: takes a name and, if it writes,
\* joins the queue; otherwise it takes its snapshot at once.
Arrive(h, kind) ==
    /\ h = tx_counter
    /\ tx_counter' = tx_counter + 1
    /\ Becomes(h, [calls[h] EXCEPT
           !.kind = kind,
           !.base = IF TakesSlot(kind) THEN @ ELSE version,
           !.state = IF TakesSlot(kind) THEN "waiting"
                     ELSE IF kind \in {"write", "read"} THEN "open" ELSE "running"])
    /\ waiting' = IF TakesSlot(kind) THEN Append(waiting, h) ELSE waiting
    /\ UNCHANGED <<config, version, slot, reaped, polled>>

\* The semaphore serves its head.
Fits(h) == exclusive = None /\ (calls[h].kind = "grouped" \/ sharing = {})
Grant(h) ==
    /\ waiting # <<>> /\ h = Head(waiting)
    /\ Fits(h)
    /\ waiting' = Tail(waiting)
    /\ IF calls[h].kind = "grouped"
       THEN sharing' = sharing \cup {h} /\ UNCHANGED exclusive
       ELSE exclusive' = h /\ UNCHANGED sharing
    /\ Becomes(h, [calls[h] EXCEPT !.state = "granted"])
    /\ polled' = [polled EXCEPT ![h] = None]
    /\ UNCHANGED <<config, tx_counter, version, holder, quiet, reaped>>

\* Mutant of Start: the snapshot was taken before the wait.
StartStale(h) ==
    /\ calls[h].state = "granted"
    /\ Becomes(h, [calls[h] EXCEPT
           !.state = IF calls[h].kind = "write" THEN "open" ELSE "running"])
    /\ IF calls[h].kind = "grouped"
       THEN UNCHANGED <<holder, quiet>>
       ELSE holder' = h /\ quiet' = FALSE
    /\ UNCHANGED <<config, tx_counter, version, waiting, exclusive, sharing, reaped,
                   polled>>

\* The waiter wakes with its permits: an exclusive one writes the holder's
\* record, and only then are the snapshot taken and the transaction entered in
\* the map.
Start(h) ==
    /\ calls[h].state = "granted"
    /\ Becomes(h, [calls[h] EXCEPT
           !.base = version,
           !.state = IF calls[h].kind = "write" THEN "open" ELSE "running"])
    /\ IF calls[h].kind = "grouped"
       THEN UNCHANGED <<holder, quiet>>
       ELSE holder' = h /\ quiet' = FALSE
    /\ UNCHANGED <<config, tx_counter, version, waiting, exclusive, sharing,
                   reaped, polled>>

\* A waiter's poll, in two steps: it reads the record under the record's lock,
\* then asks the backend to discard the transaction it read there.
InFlight(h) == calls[h].run = "marked" \/ calls[h].state = "running"
Poll(h) ==
    /\ config.idles
    /\ calls[h].state = "waiting"
    /\ holder # None /\ quiet /\ ~InFlight(holder)
    /\ polled[h] # holder
    /\ polled' = [polled EXCEPT ![h] = holder]
    /\ UNCHANGED <<config, tx_counter, version, waiting, slot, reaped, calls>>

\* ReapedHandles::record: the oldest of a full list is forgotten.
Recorded(h) == Append(IF Len(reaped) = ReapedCap THEN Tail(reaped) ELSE reaped, h)

\* A TxState leaves the map: dropped now, or by the RUN that still holds it.
Discard(h) ==
    IF calls[h].run = "no"
    THEN Over(h, "gone", 0) /\ Release(h)
    ELSE Becomes(h, [calls[h] EXCEPT !.state = "orphan"]) /\ UNCHANGED slot

Reclaim(h) ==
    LET idler == polled[h] IN
    /\ calls[h].state = "waiting" /\ idler # None
    /\ polled' = [polled EXCEPT ![h] = None]
    /\ IF calls[idler].state = "open"
       THEN Discard(idler) /\ reaped' = Recorded(idler)
       ELSE UNCHANGED <<calls, slot, reaped>>
    /\ UNCHANGED <<config, tx_counter, version, waiting>>

\* The wait timeout: the call leaves the queue with a retriable error.
GiveUp(h) ==
    /\ config.waits
    /\ calls[h].state = "waiting"
    /\ \E i \in DOMAIN waiting : waiting[i] = h /\ waiting' = RemoveAt(waiting, i)
    /\ Unpublished(h, "gone")
    /\ polled' = [polled EXCEPT ![h] = None]
    /\ UNCHANGED <<config, tx_counter, slot, reaped>>

\* Time passes without activity on the holder's record.
Idle ==
    /\ config.idles
    /\ holder # None /\ ~quiet
    /\ quiet' = TRUE
    /\ UNCHANGED <<config, tx_counter, version, waiting, exclusive, sharing,
                   holder, reaped,
                   calls, polled>>

-----------------------------------------------------------------------------
(***************************************************************************)
(* RUN in a transaction.                                                   *)
(***************************************************************************)
\* The Arc is cloned out of the map, which is then unlocked.
Run(h) ==
    /\ calls[h].state = "open" /\ calls[h].run = "no"
    /\ Becomes(h, [calls[h] EXCEPT !.run = "looked"])
    /\ UNCHANGED <<config, tx_counter, version, waiting, slot, reaped, polled>>

\* The in-flight mark, taken through try_lock: it is not taken if a RESET or a
\* close of another connection is reading this transaction's owner, and there
\* is none to take without a permit.
Mark(h, seen) ==
    /\ calls[h].run = "looked"
    /\ Becomes(h, [calls[h] EXCEPT !.run = IF seen THEN "marked" ELSE "unmarked"])
    /\ IF seen THEN Touch(h) ELSE UNCHANGED quiet
    /\ UNCHANGED <<config, tx_counter, version, waiting, exclusive, sharing,
                   holder, reaped,
                   polled>>

\* A write is refused in a read-mode transaction of queue mode.
MayWrite(h) == calls[h].kind = "write" \/ ~config.queue

\* Mutant of RunEnds: an orphan's end leaves its permit with nobody.
RunEndsLeaking(h, writes) ==
    /\ calls[h].run \in {"marked", "unmarked"}
    /\ writes => MayWrite(h) /\ calls[h].wrote < MaxRuns
    /\ IF calls[h].state = "orphan"
       THEN /\ Becomes(h, [NewCall EXCEPT !.state = "gone"])
            /\ UNCHANGED slot
       ELSE /\ Becomes(h, [calls[h] EXCEPT !.run = "no",
                                            !.wrote = IF writes THEN @ + 1 ELSE @])
            /\ IF calls[h].run = "marked" THEN Touch(h) ELSE UNCHANGED quiet
            /\ UNCHANGED <<exclusive, sharing, holder>>
    /\ UNCHANGED <<config, tx_counter, version, waiting, reaped, polled>>

\* The statement has run on the working copy and is acknowledged, or failed;
\* the mark and the Arc are dropped, and with the last Arc an orphan's permit.
RunEnds(h, writes) ==
    /\ calls[h].run \in {"marked", "unmarked"}
    /\ writes => MayWrite(h) /\ calls[h].wrote < MaxRuns
    /\ IF calls[h].state = "orphan"
       THEN /\ Becomes(h, [NewCall EXCEPT !.state = "gone"])
            /\ Release(h)
       ELSE /\ Becomes(h, [calls[h] EXCEPT !.run = "no",
                                            !.wrote = IF writes THEN @ + 1 ELSE @])
            /\ IF calls[h].run = "marked" THEN Touch(h) ELSE UNCHANGED quiet
            /\ UNCHANGED <<exclusive, sharing, holder>>
    /\ UNCHANGED <<config, tx_counter, version, waiting, reaped, polled>>

-----------------------------------------------------------------------------
(***************************************************************************)
(* COMMIT, ROLLBACK, RESET.                                                *)
(***************************************************************************)
\* The entry is removed from the map under the map's lock.
Take(h, ending) ==
    /\ calls[h].state = "open"
    /\ Becomes(h, [calls[h] EXCEPT !.state = "taken", !.ending = ending])
    /\ UNCHANGED <<config, tx_counter, version, waiting, slot, reaped, polled>>

\* Mutant of Sole: COMMIT does not look for a RUN in flight.
SoleUnchecked(h) == TRUE

\* Arc::try_unwrap: while a RUN holds the other clone, the entry goes back.
Sole(h) == calls[h].run = "no"
PutBack(h) ==
    /\ calls[h].state = "taken" /\ ~Sole(h)
    /\ Becomes(h, [calls[h] EXCEPT !.state = "open", !.ending = "no"])
    /\ UNCHANGED <<config, tx_counter, version, waiting, slot, reaped, polled>>

RollbackEnds(h) ==
    /\ calls[h].state = "taken" /\ Sole(h) /\ calls[h].ending = "rollback"
    /\ Unpublished(h, "gone")
    /\ Release(h)
    /\ UNCHANGED <<config, tx_counter, waiting, reaped, polled>>

\* Session::commit_reporting, whose outcomes are told apart by the version
\* check and the log; the permit is dropped after it.
CommitEnds(h) ==
    /\ calls[h].state = "taken" /\ Sole(h) /\ calls[h].ending = "commit"
    /\ \/ calls[h].wrote = 0 /\ Unpublished(h, "committed")
       \/ calls[h].wrote > 0 /\ ~Stale(h) /\ Published(h, calls[h].wrote)
       \/ calls[h].wrote > 0 /\ ~Stale(h) /\ Unpublished(h, "failed")
       \/ calls[h].wrote > 0 /\ Stale(h) /\ Unpublished(h, "conflict")
    /\ Release(h)
    /\ UNCHANGED <<config, tx_counter, waiting, reaped, polled>>

\* RESET or the end of the connection: its transaction leaves the map.
Reset(h) ==
    /\ calls[h].state = "open"
    /\ Discard(h)
    /\ UNCHANGED <<config, tx_counter, version, waiting, reaped, polled>>

-----------------------------------------------------------------------------
(***************************************************************************)
(* Auto-commit: one statement, run and published while the permit is held. *)
(* Grouped statements run one after another on the batch's fork, so none   *)
(* of them meets a stale version; an optimistic statement holds no permit  *)
(* and takes a new snapshot when it has lost its race.                     *)
(***************************************************************************)
AutoPublishes(h) ==
    /\ calls[h].state = "running"
    /\ Stale(h) => calls[h].kind = "grouped"
    /\ Published(h, 1)
    /\ Release(h)
    /\ UNCHANGED <<config, tx_counter, waiting, reaped, polled>>

AutoRetries(h) ==
    /\ calls[h].state = "running" /\ calls[h].kind = "auto" /\ Stale(h)
    /\ calls[h].tries + 1 < Attempts
    /\ Becomes(h, [calls[h] EXCEPT !.tries = @ + 1, !.base = version])
    /\ UNCHANGED <<config, tx_counter, version, waiting, slot, reaped, polled>>

\* The statement or its log frame failed, it was cancelled, or the last
\* attempt lost its race.
AutoFails(h) ==
    /\ calls[h].state = "running"
    /\ Stale(h) => calls[h].kind = "grouped" \/ calls[h].tries + 1 >= Attempts
    /\ Unpublished(h, IF Stale(h) /\ calls[h].kind = "auto" THEN "conflict" ELSE "failed")
    /\ Release(h)
    /\ UNCHANGED <<config, tx_counter, waiting, reaped, polled>>

-----------------------------------------------------------------------------
Asks(h) ==
    \/ \E kind \in config.kinds : Arrive(h, kind)
    \/ Run(h)
    \/ \E ending \in {"commit", "rollback"} : Take(h, ending)
    \/ Reset(h)

\* The thread of the RUN in flight.
Runs(h) ==
    \/ \E seen \in BOOLEAN : Mark(h, seen)
    \/ \E writes \in BOOLEAN : RunEnds(h, writes)

\* What else the server does for a call without being asked again.
Works(h) ==
    \/ Grant(h) \/ Start(h)
    \/ PutBack(h) \/ RollbackEnds(h) \/ CommitEnds(h)
    \/ AutoPublishes(h) \/ AutoRetries(h) \/ AutoFails(h)

\* The task of a call that waits for the slot looks at the record on every
\* tick, and at its own deadline as well.
Watches(h) == Poll(h) \/ Reclaim(h)
Waits(h) == Watches(h) \/ GiveUp(h)

Next ==
    \/ \E h \in Handles : Asks(h) \/ Works(h) \/ Runs(h) \/ Waits(h)
    \/ Idle

Spec == Init /\ [][Next]_vars

\* The runtime polls its tasks, timers fire, statements end; stated for queue
\* mode, where calls wait for each other.  Nothing obliges a client to say
\* anything again.
FairSpec ==
    /\ Spec
    /\ WF_vars(Idle)
    /\ \A h \in Handles : /\ WF_vars(config.queue /\ Works(h))
                          /\ WF_vars(config.queue /\ Runs(h))
                          /\ WF_vars(config.queue /\ Watches(h))
                          /\ WF_vars(config.queue /\ GiveUp(h))

-----------------------------------------------------------------------------
(***************************************************************************)
(* Properties.                                                             *)
(***************************************************************************)
\* From the snapshot of a queue-mode write transaction until it is published
\* or discarded, by whomever, nothing else is published: its COMMIT cannot
\* conflict, however RUNs, resets, reclaims and grouped statements interleave.
WindowIsExclusive ==
    config.queue =>
        \A h \in Handles :
            /\ calls[h].kind = "write" /\ calls[h].state \in Live => ~Stale(h)
            /\ calls[h].state # "conflict"

\* A call's writes are in the graph exactly if it was told so, all of them,
\* those a RUN in flight at the COMMIT acknowledged later included; what was
\* rolled back, reset, reclaimed, refused or timed out left nothing.
ToldIsApplied ==
    \A h \in Handles :
        calls[h].shown = IF calls[h].state = "committed" THEN calls[h].wrote ELSE 0

\* Where there is no wait timeout, the transaction that has the slot is not sent
\* RUNs for ever.
HolderFallsSilent ==
    <>[][\A h \in Handles : Run(h) => config.waits \/ h # holder]_vars

\* With an idle timeout or a wait timeout set, every queued writer is served or
\* told to retry.  With a wait timeout that is so whatever the holder does.  With
\* the idle timeout alone it is so unless the holder sends RUNs for ever, as one
\* that stays within the limit may: a client that never speaks again, or whose
\* transaction is discarded under a RUN, does not keep the others out.
WaiterAnswered ==
    HolderFallsSilent =>
        \A h \in Handles :
            calls[h].state = "waiting" /\ (config.idles \/ config.waits)
                ~> calls[h].state # "waiting"
=============================================================================
