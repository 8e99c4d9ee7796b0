----------------------------- MODULE ChangeLog -----------------------------
(***************************************************************************)
(* Change data capture: the bounded ring of events a session's commits     *)
(* publish, shared by every fork of the graph, the procedures that resize, *)
(* stop and restart it inside a transaction, and the consumers that poll   *)
(* it with stateless cursors from other threads.                           *)
(*                                                                         *)
(* What is abstracted:                                                     *)
(*   - A write is named by its transaction and number, and is one event.   *)
(*   - Every commit checks the version (module Session has the others); a  *)
(*     durable session's barrier is one step that may fail.                *)
(*   - Enrichment, selectors and the wording of refusals are left out; so  *)
(*     is the disk backend, where enabling is refused.                     *)
(***************************************************************************)
EXTENDS Naturals, Sequences, FiniteSets, SequencesExt, Kept

CONSTANTS
    Txs,            \* transactions, each used once
    Consumers,      \* threads that poll the stream
    Capacities,     \* ring capacities asked for
    Durability,     \* subset of BOOLEAN: whether the session has a log
    MaxStatements,  \* statements in a transaction (bound)
    MaxEpochs,      \* logs minted (bound)
    None            \* no transaction

ASSUME ChangeLogAssumption ==
    /\ None \notin Txs
    /\ Capacities \subseteq Nat \ {0}
    /\ Durability \subseteq BOOLEAN
    /\ MaxStatements \in Nat /\ MaxEpochs \in Nat

VARIABLES
    durable,     \* the session owns a write-ahead log
    log,         \* log[e]: the CdcLog of epoch e, in the order of next_epoch()
    main,        \* the published graph
    gate,        \* the transaction that holds the commit gate
    txs,         \* txs[t]: the transaction's working copy
    consumers    \* consumers[c]: what the thread holds

vars == <<durable, log, main, gate, txs, consumers>>

-----------------------------------------------------------------------------
Change == Txs \X (1..MaxStatements)
Event  == [seq : Nat, change : Change]
\* floor is a ghost: the oldest event retained when the cursor was accepted.
Delivery == [seq : Nat, change : Change, floor : Nat]

\* ever is a ghost: all that was appended under this epoch.
Log == [next : Nat, capacity : Capacities, events : Seq(Event), ever : Seq(Change)]

\* Handle 0 is no log; an epoch's handle is shared by every fork that has it.
Handles == 0..MaxEpochs
Handoff == [epoch : Handles, last : Nat]
NoHandoff == [epoch |-> 0, last |-> 0]

\* What a graph holds for capture.  ops is the wrapper's buffer; an unwrapped
\* backend records nothing.
Capture == [handle : Handles, handoff : Handoff, recording : BOOLEAN, ops : Seq(Change)]
Bare(d) == [handle |-> 0, handoff |-> NoHandoff, recording |-> d, ops |-> <<>>]

\* A log in use by a statement that reconfigures it is an isolated copy.
Shape == [next : Nat, capacity : Capacities \cup {0}, events : Seq(Event)]
NoCopy == [next |-> 0, capacity |-> 0, events |-> <<>>]

Transaction ==
    [state : {"idle", "open", "configuring", "committing", "drained", "logged", "committed",
              "dropped"},
     base : Nat, from : Handles, cap : Capture, saved : Capture, copy : Shape,
     writes : Seq(Change), statements : 0..MaxStatements]
Reader ==
    [state : {"idle", "checked"}, handle : Handles, cursor : [epoch : Handles, seq : Nat],
     floor : Nat, start : Nat, got : Seq(Delivery)]

TypeOK ==
    /\ durable \in Durability
    /\ log \in Seq(Log) /\ Len(log) <= MaxEpochs
    /\ \A e \in DOMAIN log : Len(log[e].events) <= log[e].capacity
    /\ main \in [version : Nat, cap : Capture, history : Seq(Change)]
    /\ gate \in Txs \cup {None}
    /\ txs \in [Txs -> Transaction]
    /\ consumers \in [Consumers -> Reader]

Init ==
    /\ durable \in Durability
    /\ log = <<>>
    /\ main = [version |-> 0, cap |-> Bare(durable), history |-> <<>>]
    /\ gate = None
    /\ txs = [t \in Txs |-> [state |-> "idle", base |-> 0, from |-> 0, cap |-> Bare(durable),
                             saved |-> Bare(durable), copy |-> NoCopy, writes |-> <<>>,
                             statements |-> 0]]
    /\ consumers = [c \in Consumers |-> [state |-> "idle", handle |-> 0,
                                         cursor |-> [epoch |-> 0, seq |-> 0],
                                         floor |-> 0, start |-> 0, got |-> <<>>]]

-----------------------------------------------------------------------------
(***************************************************************************)
(* The ring.                                                               *)
(***************************************************************************)
Current(l)  == l.next - 1
Earliest(l) == IF l.events = <<>> THEN l.next ELSE Head(l.events).seq
Newest(s, n) == IF Len(s) > n THEN SubSeq(s, Len(s) - n + 1, Len(s)) ELSE s

\* Mutant of Appended: nothing is evicted.
AppendedUnbounded(l, changes) ==
    [l EXCEPT !.next = @ + Len(changes),
              !.events = @ \o [i \in DOMAIN changes |->
                                  [seq |-> l.next + i - 1, change |-> changes[i]]],
              !.ever = @ \o changes]
\* CdcLog::append: numbered in order, the oldest evicted.
Appended(l, changes) ==
    [l EXCEPT !.next = @ + Len(changes),
              !.events = Newest(@ \o [i \in DOMAIN changes |->
                                        [seq |-> l.next + i - 1, change |-> changes[i]]],
                                l.capacity),
              !.ever = @ \o changes]

\* publish_pending: into the log the graph holds, if it holds one.
Publish(handle, changes) ==
    log' = IF handle = 0 THEN log ELSE [log EXCEPT ![handle] = Appended(@, changes)]

Resized(l, n) == [l EXCEPT !.capacity = n, !.events = Newest(@, n)]

\* Mutant of Merged: the statement's copy replaces the live log.
MergedByReplacing(l, copy) ==
    [l EXCEPT !.next = copy.next, !.capacity = copy.capacity, !.events = copy.events]
\* commit_reconfiguration: what the copy evicted goes, what was published
\* meanwhile stays.
Merged(l, copy) ==
    LET first == Earliest(copy)
        reached == {i \in DOMAIN l.events : \E j \in 1..i : l.events[j].seq >= first}
    IN Resized([l EXCEPT !.events = Kept(@, reached)], copy.capacity)

\* CdcLog::since.
Since(events, from) == Kept(events, {i \in DOMAIN events : events[i].seq > from})

NewLog(n) == [next |-> 1, capacity |-> n, events |-> <<>>, ever |-> <<>>]

-----------------------------------------------------------------------------
(***************************************************************************)
(* A transaction.                                                          *)
(***************************************************************************)
Tx(t, new) == txs' = [txs EXCEPT ![t] = new]
CanRun(t) == txs[t].state = "open" /\ txs[t].statements < MaxStatements

\* fork_transaction: the fork shares the log and starts with an empty buffer.
Begin(t) ==
    /\ txs[t].state = "idle"
    /\ Tx(t, [txs[t] EXCEPT !.state = "open", !.base = main.version,
                            !.from = main.cap.handle,
                            !.cap = [main.cap EXCEPT !.ops = <<>>]])
    /\ UNCHANGED <<durable, log, main, gate, consumers>>

Write(t) ==
    /\ CanRun(t)
    /\ LET change == <<t, txs[t].statements + 1>>
       IN Tx(t, [txs[t] EXCEPT !.statements = @ + 1,
                               !.writes = Append(@, change),
                               !.cap.ops = IF txs[t].cap.recording THEN Append(@, change) ELSE @])
    /\ UNCHANGED <<durable, log, main, gate, consumers>>

\* Mutant of WriteFails: the buffer keeps what the statement recorded.
WriteFailsKeepingOps(t) ==
    /\ CanRun(t)
    /\ LET change == <<t, txs[t].statements + 1>>
       IN Tx(t, [txs[t] EXCEPT !.statements = @ + 1,
                               !.cap.ops = IF txs[t].cap.recording THEN Append(@, change) ELSE @])
    /\ UNCHANGED <<durable, log, main, gate, consumers>>
\* A statement that fails after its first write: rolled back, its ops truncated.
WriteFails(t) ==
    /\ CanRun(t)
    /\ Tx(t, [txs[t] EXCEPT !.statements = @ + 1])
    /\ UNCHANGED <<durable, log, main, gate, consumers>>

\* db.cdc.disable: the position goes into the handoff, the wrapper comes off
\* with its buffer unless the write-ahead log owns it.
Disabled(cap, current) ==
    [handle |-> 0,
     handoff |-> IF cap.handle = 0 THEN cap.handoff
                 ELSE [epoch |-> cap.handle, last |-> current],
     recording |-> durable,
     ops |-> IF durable THEN cap.ops ELSE <<>>]

\* A statement that calls db.cdc.enable, .disable, or one after the other.  It
\* works on an isolated copy of the log, others publish meanwhile.
StartEnable(t) ==
    /\ CanRun(t) /\ txs[t].cap.handle # 0
    /\ LET l == log[txs[t].cap.handle]
           as == [next |-> l.next, capacity |-> l.capacity, events |-> l.events]
       IN \E n, m \in Capacities :       \* m: for a while, within the statement
            Tx(t, [txs[t] EXCEPT !.state = "configuring", !.statements = @ + 1,
                                 !.saved = txs[t].cap,
                                 !.copy = Resized(Resized(as, m), n)])
    /\ UNCHANGED <<durable, log, main, gate, consumers>>
StartDisable(t) ==
    /\ CanRun(t) /\ txs[t].cap.handle # 0
    /\ Tx(t, [txs[t] EXCEPT !.state = "configuring", !.statements = @ + 1,
                            !.saved = txs[t].cap, !.copy = NoCopy,
                            !.cap = Disabled(@, Current(log[txs[t].cap.handle]))])
    /\ UNCHANGED <<durable, log, main, gate, consumers>>
\* From nothing, or after a disable in the same statement: a new epoch.
StartNew(t) ==
    /\ CanRun(t) /\ Len(log) < MaxEpochs
    /\ \E n \in Capacities :
          /\ log' = Append(log, NewLog(n))
          /\ LET old == txs[t].cap
                 off == IF old.handle = 0 THEN old ELSE Disabled(old, Current(log[old.handle]))
             IN Tx(t, [txs[t] EXCEPT !.state = "configuring", !.statements = @ + 1,
                                     !.saved = old, !.copy = NoCopy,
                                     !.cap = [off EXCEPT !.handle = Len(log'),
                                                         !.recording = TRUE]])
    /\ UNCHANGED <<durable, main, gate, consumers>>

\* The statement succeeds: CdcCheckpoint::commit, which only a
\* reconfiguration of the old handle has something to do for.
Configured(t) ==
    /\ txs[t].state = "configuring"
    /\ log' = IF txs[t].copy = NoCopy THEN log
              ELSE [log EXCEPT ![txs[t].cap.handle] = Merged(@, txs[t].copy)]
    /\ Tx(t, [txs[t] EXCEPT !.state = "open", !.copy = NoCopy, !.saved = Bare(durable)])
    /\ UNCHANGED <<durable, main, gate, consumers>>

\* Mutant of ConfigureFails: the buffer the wrapper had is not put back.
ConfigureFailsLosingOps(t) ==
    /\ txs[t].state = "configuring"
    /\ Tx(t, [txs[t] EXCEPT !.state = "open", !.copy = NoCopy,
                            !.cap = [txs[t].saved EXCEPT !.ops = txs[t].cap.ops],
                            !.saved = Bare(durable)])
    /\ UNCHANGED <<durable, log, main, gate, consumers>>
\* It fails: CdcCheckpoint::restore.
ConfigureFails(t) ==
    /\ txs[t].state = "configuring"
    /\ Tx(t, [txs[t] EXCEPT !.state = "open", !.copy = NoCopy, !.cap = txs[t].saved,
                            !.saved = Bare(durable)])
    /\ UNCHANGED <<durable, log, main, gate, consumers>>

Drop(t) ==
    Tx(t, [txs[t] EXCEPT !.state = "dropped", !.base = 0, !.from = 0, !.writes = <<>>,
                         !.statements = 0, !.cap = Bare(durable)])

Rollback(t) ==
    /\ txs[t].state = "open"
    /\ Drop(t)
    /\ UNCHANGED <<durable, log, main, gate, consumers>>

-----------------------------------------------------------------------------
(***************************************************************************)
(* Commit, under the gate.                                                 *)
(***************************************************************************)
\* Mutant of Admit: the version is not compared.
AdmitUnchecked(t) ==
    /\ txs[t].state = "open" /\ gate = None /\ txs[t].statements > 0
    /\ gate' = t
    /\ Tx(t, [txs[t] EXCEPT !.state = "committing"])
    /\ UNCHANGED <<durable, log, main, consumers>>
\* A transaction whose base is no longer published has to retry.
Admit(t) ==
    /\ txs[t].state = "open" /\ gate = None /\ txs[t].statements > 0
    /\ IF txs[t].base = main.version
       THEN gate' = t /\ Tx(t, [txs[t] EXCEPT !.state = "committing"])
       ELSE UNCHANGED gate /\ Drop(t)
    /\ UNCHANGED <<durable, log, main, consumers>>

\* stage_working_commit with no write-ahead log: drained here.
Drain(t) ==
    /\ txs[t].state = "committing" /\ ~durable
    /\ Publish(txs[t].cap.handle, txs[t].cap.ops)
    /\ Tx(t, [txs[t] EXCEPT !.state = "drained", !.cap.ops = <<>>])
    /\ UNCHANGED <<durable, main, gate, consumers>>

\* With one: the frame is appended and flushed, or the commit fails.
Flush(t) ==
    /\ txs[t].state = "committing" /\ durable
    /\ Tx(t, [txs[t] EXCEPT !.state = "logged"])
    /\ UNCHANGED <<durable, log, main, gate, consumers>>
FlushFails(t) ==
    /\ txs[t].state = "committing" /\ durable
    /\ gate' = None
    /\ Drop(t)
    /\ UNCHANGED <<durable, log, main, consumers>>

\* The working copy becomes the graph; what a durable commit drained is
\* published before the graph's lock is released.
Swap(t) ==
    /\ txs[t].state \in {"drained", "logged"}
    /\ main' = [version |-> main.version + 1,
                cap |-> [txs[t].cap EXCEPT !.ops = <<>>],
                history |-> main.history \o txs[t].writes]
    /\ Publish(txs[t].cap.handle, txs[t].cap.ops)
    /\ gate' = None
    /\ Tx(t, [txs[t] EXCEPT !.state = "committed", !.base = 0, !.statements = 0,
                            !.cap.ops = <<>>])
    /\ UNCHANGED <<durable, consumers>>

-----------------------------------------------------------------------------
(***************************************************************************)
(* A consumer.                                                             *)
(***************************************************************************)
Consumer(c, new) ==
    /\ consumers' = [consumers EXCEPT ![c] = new]
    /\ UNCHANGED <<durable, log, main, gate, txs>>

\* Its next call runs on the graph published now; it may keep an older one.
Look(c) ==
    /\ consumers[c].state = "idle"
    /\ Consumer(c, [consumers[c] EXCEPT !.handle = main.cap.handle])

\* db.cdc.current and db.cdc.earliest: a position to start from.
TakeCursor(c) ==
    /\ consumers[c].state = "idle" /\ consumers[c].handle # 0
    /\ LET e == consumers[c].handle
       IN \E seq \in {Current(log[e]), Earliest(log[e]) - 1} :
             Consumer(c, [consumers[c] EXCEPT !.cursor = [epoch |-> e, seq |-> seq],
                                              !.start = seq, !.got = <<>>])

\* decode_cursor accepts the cursor against the log's status.
Accepts(l, e, cursor) ==
    cursor.epoch = e /\ cursor.seq <= Current(l) /\ cursor.seq + 1 >= Earliest(l)

\* Mutant of Check: a cursor whose events are gone is accepted.
CheckUnbounded(c) ==
    /\ consumers[c].state = "idle" /\ consumers[c].handle # 0
    /\ LET l == log[consumers[c].handle]
       IN /\ consumers[c].cursor.epoch = consumers[c].handle
          /\ consumers[c].cursor.seq <= Current(l)
          /\ Consumer(c, [consumers[c] EXCEPT !.state = "checked", !.floor = Earliest(l)])
\* db.cdc.query, first lock: a refused cursor is of no more use.
Check(c) ==
    /\ consumers[c].state = "idle" /\ consumers[c].handle # 0
    /\ LET l == log[consumers[c].handle]
       IN /\ Accepts(l, consumers[c].handle, consumers[c].cursor)
          /\ Consumer(c, [consumers[c] EXCEPT !.state = "checked", !.floor = Earliest(l)])

\* Second lock: the events past the cursor, maxRows at most.
Read(c) ==
    /\ consumers[c].state = "checked"
    /\ LET events == log[consumers[c].handle].events
           all == Since(events, consumers[c].cursor.seq)
       IN \E n \in {1, Len(all)} :
            LET rows == SubSeq(all, 1, IF n <= Len(all) THEN n ELSE 0)
            IN Consumer(c, [consumers[c] EXCEPT
                              !.state = "idle", !.floor = 0,
                              !.got = @ \o [i \in DOMAIN rows |->
                                  [seq |-> rows[i].seq, change |-> rows[i].change,
                                   floor |-> consumers[c].floor]],
                              !.cursor.seq = IF rows = <<>> THEN @ ELSE Last(rows).seq])

-----------------------------------------------------------------------------
Runs(t) ==
    \/ Begin(t) \/ Write(t) \/ WriteFails(t)
    \/ StartEnable(t) \/ StartDisable(t) \/ StartNew(t) \/ Configured(t) \/ ConfigureFails(t)
    \/ Rollback(t) \/ Admit(t) \/ Drain(t) \/ Flush(t) \/ FlushFails(t) \/ Swap(t)
Polls(c) == Look(c) \/ TakeCursor(c) \/ Check(c) \/ Read(c)
Next == (\E t \in Txs : Runs(t)) \/ (\E c \in Consumers : Polls(c))

Spec == Init /\ [][Next]_vars

-----------------------------------------------------------------------------
(***************************************************************************)
(* Properties.                                                             *)
(***************************************************************************)
\* "A change that was not committed must never appear in the stream": not one
\* of a failed statement, of a rolled-back or refused transaction, or of a
\* commit whose log failed.  A session with no write-ahead log publishes an
\* instant before the graph; one with, not before.
NoPhantom ==
    \A e \in DOMAIN log : \A i \in DOMAIN log[e].ever :
        LET change == log[e].ever[i]
        IN \/ change \in ToSet(main.history)
           \/ txs[change[1]].state = "drained" /\ change \in ToSet(txs[change[1]].writes)

\* Nothing is missing either: a transaction that began with a log and ended
\* with the same one has all its writes in it, whatever statements that
\* reconfigure or stop the stream failed in between.
NothingMissing ==
    \A t \in Txs :
        txs[t].state = "committed" /\ txs[t].from # 0 /\ txs[t].cap.handle = txs[t].from =>
            ToSet(txs[t].writes) \subseteq ToSet(log[txs[t].from].ever)

\* A position names one change for good: what the ring retains is the newest
\* of all it was given, under the numbers they were given, though statements
\* reconfigure copies of it while others publish.
SeqNamesOneChange ==
    \A e \in DOMAIN log :
        /\ log[e].next = Len(log[e].ever) + 1
        /\ \A i \in DOMAIN log[e].events :
              /\ log[e].events[i].seq = log[e].next - 1 - Len(log[e].events) + i
              /\ log[e].events[i].change = log[e].ever[log[e].events[i].seq]

\* A consumer that follows its cursor is given what was published, each change
\* once and in order.  A query skips nothing but what was still retained when it
\* accepted the cursor.
SkippedWhileReading ==
    \A c \in Consumers : \A i \in DOMAIN consumers[c].got :
        LET got == consumers[c].got[i]
            before == IF i = 1 THEN consumers[c].start ELSE consumers[c].got[i - 1].seq
        IN /\ got.seq > before
           /\ got.change = log[consumers[c].cursor.epoch].ever[got.seq]
           /\ got.seq > before + 1 => got.floor <= before + 1

\* The same with nothing skipped: "reporting a short answer instead would be a
\* silent gap".
NoSilentGap ==
    \A c \in Consumers : \A i \in DOMAIN consumers[c].got :
        consumers[c].got[i].seq = consumers[c].start + i

\* The position a graph records for an epoch that ended is the last that epoch
\* published: a consumer told it was caught up was.
HandoffIsTheEnd ==
    LET h == main.cap.handoff
    IN h.epoch # 0 /\ main.cap.handle # h.epoch => h.last = Current(log[h.epoch])
=============================================================================
