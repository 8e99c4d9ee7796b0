----------------------------- MODULE GroupCommit -----------------------------
(***************************************************************************)
(* Group commit: the plain data writes of a session durable at `full`      *)
(* share one log barrier.  The first writer to find no leader leads; the   *)
(* rest park in a FIFO.  The leader takes the commit gate, forks the       *)
(* published graph once, runs its own statement on the fork, lends the     *)
(* fork to the front of the FIFO in turn, takes one barrier, swaps the     *)
(* fork in, drops the gate, tells its members the verdict, and passes the  *)
(* baton on.                                                               *)
(*                                                                         *)
(* What is abstracted:                                                     *)
(*   - A call of execute_auto_commit is named by its statement, and made   *)
(*     once; its Parker is its one-message mailbox.                        *)
(*   - A graph is its version and the statements applied, in order; a log  *)
(*     frame is the statement that staged it.  A failed append or barrier  *)
(*     is cut back: what a failed cut leaves is in module DurableLog.      *)
(*   - Commits that do not group (module Session) are single steps here:   *)
(*     they hold the gate and take their own barrier.                      *)
(***************************************************************************)
EXTENDS Integers, Sequences, FiniteSets

CONSTANTS
    Statements,   \* the grouped auto-commit calls made
    Others,       \* commits through the same gate that do not group
    MaxBatch,     \* MAX_BATCH
    Faults,       \* subset of {"append", "barrier", "fork", "panic", "retire"}
    NoOne         \* holder of a free gate

ASSUME GroupCommitAssumption ==
    /\ MaxBatch \in Nat \ {0}
    /\ NoOne \notin Statements
    /\ Statements \cap Others = {}
    /\ Faults \subseteq {"append", "barrier", "fork", "panic", "retire"}

VARIABLES
    leaderActive, waiting,        \* the session's writer queue
    pc,           \* pc[s]: where call s is
    mail,         \* mail[s]: the message in s's Parker
    result,       \* result[s]: what its statement came to, then its answer
    gate,         \* holder of commit_gate
    graph,        \* the published graph
    batch,        \* the running batch: fork, frames, committed, roster, verdict
    log, durable, \* the log's frames; how many a power loss keeps
    retired,
    waited        \* waited[s]: batches whose verdict was given out while s was
                  \* owed an answer

queue  == <<leaderActive, waiting>>
calls  == <<pc, mail, result>>
disk   == <<log, durable>>
vars   == <<queue, calls, gate, graph, batch, disk, retired, waited>>

-----------------------------------------------------------------------------
Graph == [version : Nat, writes : Seq(Statements \cup Others)]
NoBatch == [leader |-> NoOne, fork |-> [version |-> 0, writes |-> <<>>],
            start |-> 0, frames |-> <<>>, committed |-> 0, roster |-> <<>>,
            verdict |-> "ok"]

Leading == {"lead", "own", "admit", "await", "flush", "publish", "announce", "handoff"}
PCs == {"new", "queued", "turn", "verdict", "done"} \cup Leading
Msgs == {"none", "lead", "turn", "turnDone", "ok", "refused"}

TypeOK ==
    /\ leaderActive \in BOOLEAN
    /\ waiting \in Seq(Statements)
    /\ pc \in [Statements -> PCs]
    /\ mail \in [Statements -> Msgs]
    /\ result \in [Statements -> {"none", "ok", "error", "refused"}]
    /\ gate \in Statements \cup {NoOne}
    /\ graph \in Graph
    /\ batch \in [leader : Statements \cup {NoOne}, fork : Graph, start : Nat,
                  frames : Seq(Statements), committed : Nat,
                  roster : Seq(Statements), verdict : {"ok", "refused"}]
    /\ log \in Seq(Statements \cup Others)
    /\ durable \in 0 .. Len(log)
    /\ retired \in BOOLEAN
    /\ waited \in [Statements -> Nat]

Init ==
    /\ leaderActive = FALSE /\ waiting = <<>>
    /\ pc = [s \in Statements |-> "new"]
    /\ mail = [s \in Statements |-> "none"]
    /\ result = [s \in Statements |-> "none"]
    /\ gate = NoOne
    /\ graph = [version |-> 0, writes |-> <<>>]
    /\ batch = NoBatch
    /\ log = <<>> /\ durable = 0
    /\ retired = FALSE
    /\ waited = [s \in Statements |-> 0]

-----------------------------------------------------------------------------
Elems(q) == {q[i] : i \in DOMAIN q}
Goto(s, where) == pc' = [pc EXCEPT ![s] = where]
Post(s, msg) == mail' = [mail EXCEPT ![s] = msg]

\* The calls still owed an answer, in the queue or in a batch.
Owed == {s \in Statements : pc[s] \notin {"new", "done"} /\ mail[s] \notin {"ok", "refused"}}

-----------------------------------------------------------------------------
(* The queue.                                                              *)

\* execute_grouped: lead at once, or park at the back of the FIFO.
Enqueue(s) ==
    /\ pc[s] = "new"
    /\ IF leaderActive
       THEN Goto(s, "queued") /\ waiting' = Append(waiting, s) /\ UNCHANGED leaderActive
       ELSE Goto(s, "lead") /\ leaderActive' = TRUE /\ UNCHANGED waiting
    /\ UNCHANGED <<mail, result, gate, graph, batch, disk, retired, waited>>

\* A parked writer takes the Lead or the Turn it was posted.
Wake(s) ==
    /\ pc[s] = "queued"
    /\ mail[s] \in {"lead", "turn"}
    /\ Goto(s, mail[s])
    /\ Post(s, "none")
    /\ UNCHANGED <<queue, result, gate, graph, batch, disk, retired, waited>>

\* Mutant of Handoff: the baton is put down even when it has been passed on.
HandoffTwice(s) ==
    /\ pc[s] = "handoff"
    /\ Goto(s, "done")
    /\ leaderActive' = FALSE
    /\ IF waiting = <<>>
       THEN UNCHANGED <<waiting, mail>>
       ELSE waiting' = Tail(waiting) /\ Post(Head(waiting), "lead")
    /\ UNCHANGED <<result, gate, graph, batch, disk, retired, waited>>

\* Handoff's drop, as the leader's call returns: the front of the FIFO leads.
Handoff(s) ==
    /\ pc[s] = "handoff"
    /\ Goto(s, "done")
    /\ IF waiting = <<>>
       THEN leaderActive' = FALSE /\ UNCHANGED <<waiting, mail>>
       ELSE waiting' = Tail(waiting) /\ Post(Head(waiting), "lead") /\ UNCHANGED leaderActive
    /\ UNCHANGED <<result, gate, graph, batch, disk, retired, waited>>

-----------------------------------------------------------------------------
(* Statements on the batch's fork.                                         *)

\* run_in_batch: the statement runs under its own journal and stages its frame
\* with no barrier; a failing one leaves fork and log as it found them.
Ran(s, outcome) ==
    \/ /\ outcome = "ok"
       /\ batch' = [batch EXCEPT !.fork.writes = Append(@, s),
                                 !.frames = Append(@, s),
                                 !.committed = @ + 1]
       /\ log' = Append(log, s)
    \/ /\ outcome = "ok"                    \* it wrote nothing: no frame
       /\ batch' = [batch EXCEPT !.committed = @ + 1]
       /\ UNCHANGED log
    \/ /\ outcome = "error" \/ (outcome = "refused" /\ "append" \in Faults)
       /\ UNCHANGED <<batch, log>>

\* Mutant of TakeGate: the fork is taken before the gate is waited for.
TakeGateStale(s) ==
    /\ pc[s] = "lead"
    /\ batch.leader = s \/ gate = NoOne
    /\ IF batch.leader # s
       THEN /\ batch' = [NoBatch EXCEPT !.leader = s, !.fork = graph, !.start = graph.version]
            /\ UNCHANGED <<pc, gate>>
       ELSE gate = NoOne /\ Goto(s, "own") /\ gate' = s /\ UNCHANGED batch
    /\ UNCHANGED <<queue, mail, result, graph, disk, retired, waited>>

\* lead_batch under the gate: retired, the fork, an empty roster.
TakeGate(s) ==
    /\ pc[s] = "lead"
    /\ gate = NoOne
    /\ \/ /\ retired \/ "fork" \in Faults
          /\ Goto(s, "handoff")
          /\ result' = [result EXCEPT ![s] = IF retired THEN "refused" ELSE "error"]
          /\ UNCHANGED <<gate, batch>>
       \/ /\ ~retired
          /\ Goto(s, "own")
          /\ gate' = s
          /\ batch' = [NoBatch EXCEPT !.leader = s, !.fork = graph, !.start = graph.version]
          /\ UNCHANGED result
    /\ UNCHANGED <<queue, mail, graph, disk, retired, waited>>

\* The leader's own statement; only a panic ends the batch here.
RunOwn(s) ==
    /\ pc[s] = "own"
    /\ \/ \E o \in {"ok", "error", "refused"} :
            /\ Ran(s, o)
            /\ result' = [result EXCEPT ![s] = o]
            /\ Goto(s, "admit")
            /\ UNCHANGED gate
       \/ /\ "panic" \in Faults
          /\ result' = [result EXCEPT ![s] = "error"]
          /\ Goto(s, "handoff")
          /\ gate' = NoOne
          /\ batch' = NoBatch
          /\ UNCHANGED log
    /\ UNCHANGED <<queue, mail, graph, durable, retired, waited>>

\* Lend the fork to the front of the FIFO...
RoomInBatch == Len(batch.roster) + 1 < MaxBatch

\* Mutant of Admit: room for one statement fewer than the bound.
AdmitShort(s) ==
    /\ pc[s] = "admit"
    /\ IF Len(batch.roster) + 2 < MaxBatch /\ waiting # <<>>
       THEN /\ waiting' = Tail(waiting)
            /\ Post(Head(waiting), "turn")
            /\ batch' = [batch EXCEPT !.roster = Append(@, Head(waiting))]
            /\ Goto(s, "await")
       ELSE Goto(s, "flush") /\ UNCHANGED <<waiting, mail, batch>>
    /\ UNCHANGED <<leaderActive, result, gate, graph, disk, retired, waited>>

Admit(s) ==
    /\ pc[s] = "admit"
    /\ IF RoomInBatch /\ waiting # <<>>
       THEN /\ waiting' = Tail(waiting)
            /\ Post(Head(waiting), "turn")
            /\ batch' = [batch EXCEPT !.roster = Append(@, Head(waiting))]
            /\ Goto(s, "await")
       ELSE Goto(s, "flush") /\ UNCHANGED <<waiting, mail, batch>>
    /\ UNCHANGED <<leaderActive, result, gate, graph, disk, retired, waited>>

\* ...and wait until it is finished with it.
AwaitTurn(s) ==
    /\ pc[s] = "await"
    /\ mail[s] = "turnDone"
    /\ Post(s, "none")
    /\ Goto(s, "admit")
    /\ UNCHANGED <<queue, result, gate, graph, batch, disk, retired, waited>>

\* Mutant of RunTurn: a failing statement returns without TurnDone.
RunTurnSilent(s) ==
    /\ pc[s] = "turn"
    /\ \E o \in {"ok", "error", "refused"} :
        /\ Ran(s, o)
        /\ result' = [result EXCEPT ![s] = o]
        /\ Goto(s, IF o = "ok" THEN "verdict" ELSE "done")
        /\ IF o = "ok" THEN Post(batch.leader, "turnDone") ELSE UNCHANGED mail
    /\ UNCHANGED <<queue, gate, graph, durable, retired, waited>>

\* follow_batch: run, tell the leader (unwinding included), and wait for the
\* verdict unless the statement failed.
RunTurn(s) ==
    /\ pc[s] = "turn"
    /\ \E o \in {"ok", "error", "refused"} :
        /\ Ran(s, o)
        /\ result' = [result EXCEPT ![s] = o]
        /\ Goto(s, IF o = "ok" THEN "verdict" ELSE "done")
    /\ Post(batch.leader, "turnDone")
    /\ UNCHANGED <<queue, gate, graph, durable, retired, waited>>

-----------------------------------------------------------------------------
(* One barrier, one swap, and the verdict.                                 *)

\* The log up to the batch's first frame.
BeforeBatch == SubSeq(log, 1, Len(log) - Len(batch.frames))

\* Mutant of Flush: a failed barrier cuts back the last frame only.
FlushCuttingLast(s) ==
    /\ pc[s] = "flush"
    /\ \/ /\ batch.committed > 0
          /\ durable' = IF batch.frames = <<>> THEN durable ELSE Len(log)
          /\ Goto(s, "publish")
          /\ UNCHANGED <<gate, batch, log>>
       \/ /\ batch.committed > 0 /\ batch.frames # <<>> /\ "barrier" \in Faults
          /\ log' = SubSeq(log, 1, Len(log) - 1)
          /\ batch' = [batch EXCEPT !.verdict = "refused"]
          /\ gate' = NoOne
          /\ Goto(s, "announce")
          /\ UNCHANGED durable
       \/ /\ batch.committed = 0
          /\ gate' = NoOne
          /\ Goto(s, "announce")
          /\ UNCHANGED <<batch, disk>>
    /\ UNCHANGED <<queue, mail, result, graph, retired, waited>>

\* Mutant of Flush: the barrier is skipped.
FlushUnsynced(s) ==
    /\ pc[s] = "flush"
    /\ Goto(s, "publish")
    /\ UNCHANGED <<queue, mail, result, gate, graph, batch, disk, retired, waited>>

\* flush_group: a barrier on the last frame covers them all; one that fails
\* cuts the log back to the batch's first frame and drops the fork.
Flush(s) ==
    /\ pc[s] = "flush"
    /\ \/ /\ batch.committed > 0
          /\ durable' = IF batch.frames = <<>> THEN durable ELSE Len(log)
          /\ Goto(s, "publish")
          /\ UNCHANGED <<gate, batch, log>>
       \/ /\ batch.committed > 0 /\ batch.frames # <<>> /\ "barrier" \in Faults
          /\ log' = BeforeBatch
          /\ batch' = [batch EXCEPT !.verdict = "refused"]
          /\ gate' = NoOne
          /\ Goto(s, "announce")
          /\ UNCHANGED durable
       \/ /\ batch.committed = 0
          /\ gate' = NoOne
          /\ Goto(s, "announce")
          /\ UNCHANGED <<batch, disk>>
    /\ UNCHANGED <<queue, mail, result, graph, retired, waited>>

\* publish_batch, and the gate drops.
Publish(s) ==
    /\ pc[s] = "publish"
    /\ graph' = [batch.fork EXCEPT !.version = batch.start + batch.committed]
    /\ gate' = NoOne
    /\ Goto(s, "announce")
    /\ UNCHANGED <<queue, mail, result, batch, disk, retired, waited>>

\* The members are told one by one, then the leader's own answer is settled.
Answer(verdict, ran) == IF verdict = "refused" /\ ran = "ok" THEN "refused" ELSE ran

Announce(s) ==
    /\ pc[s] = "announce"
    /\ IF batch.roster # <<>>
       THEN /\ Post(Head(batch.roster), batch.verdict)
            /\ batch' = [batch EXCEPT !.roster = Tail(@)]
            /\ UNCHANGED <<pc, result, waited>>
       ELSE /\ result' = [result EXCEPT ![s] = Answer(batch.verdict, @)]
            /\ Goto(s, "handoff")
            /\ waited' = [t \in Statements |-> IF t \in Owed THEN waited[t] + 1 ELSE waited[t]]
            /\ UNCHANGED <<mail, batch>>
    /\ UNCHANGED <<queue, gate, graph, disk, retired>>

TakeVerdict(s) ==
    /\ pc[s] = "verdict"
    /\ mail[s] \in {"ok", "refused"}
    /\ result' = [result EXCEPT ![s] = Answer(mail[s], @)]
    /\ Post(s, "none")
    /\ Goto(s, "done")
    /\ UNCHANGED <<queue, gate, graph, batch, disk, retired, waited>>

-----------------------------------------------------------------------------
(* The rest of the session, through the same gate.                         *)

OtherCommit(o) ==
    /\ gate = NoOne
    /\ ~retired
    /\ o \notin Elems(graph.writes)
    /\ graph' = [version |-> graph.version + 1, writes |-> Append(graph.writes, o)]
    /\ log' = Append(log, o)
    /\ durable' = Len(log')
    /\ UNCHANGED <<queue, calls, gate, batch, retired, waited>>

Retire ==
    /\ "retire" \in Faults
    /\ gate = NoOne
    /\ retired' = TRUE
    /\ UNCHANGED <<queue, calls, gate, graph, batch, disk, waited>>

-----------------------------------------------------------------------------
Step(s) ==
    \/ Wake(s) \/ Handoff(s)
    \/ TakeGate(s) \/ RunOwn(s) \/ Admit(s) \/ AwaitTurn(s) \/ RunTurn(s)
    \/ Flush(s) \/ Publish(s) \/ Announce(s) \/ TakeVerdict(s)

Next ==
    \/ \E s \in Statements : Enqueue(s) \/ Step(s)
    \/ \E o \in Others : OtherCommit(o)
    \/ Retire

Spec == Init /\ [][Next]_vars

\* A thread inside execute_auto_commit keeps running.
FairSpec == Spec /\ \A s \in Statements : WF_vars(Step(s))

-----------------------------------------------------------------------------
(* Properties.                                                             *)

\* The baton is never lost and never doubled: the queue says there is a
\* leader exactly when one call leads or has been told to.
OneBaton ==
    LET Baton == {s \in Statements : pc[s] \in Leading \/ mail[s] = "lead"}
    IN  /\ leaderActive <=> Baton # {}
        /\ \A s, t \in Baton : s = t

\* No reader sees a statement before its batch's barrier, and the published
\* graph and the durable log agree on the order.
PublishedIsDurable ==
    graph.writes = SubSeq(log, 1, Len(graph.writes)) /\ Len(graph.writes) <= durable

\* Between batches the log holds the published writes and nothing else: what a
\* failed statement or a failed barrier wrote has been cut back out.  And the
\* version has moved for each of them.
LogIsGraph ==
    gate = NoOne => log = graph.writes /\ graph.version >= Len(graph.writes)

\* A statement told DurabilityFailed, or an error, is in neither graph nor log.
FailedIsNowhere ==
    \A s \in Statements :
        pc[s] = "done" /\ result[s] # "ok" =>
            s \notin Elems(graph.writes) \cup Elems(log)

\* A writer waits for at most the running batch and the one it joins, as long
\* as no more writers wait than a batch has room for.
WaitsTwoBatches == \A s \in Statements : waited[s] <= 2

\* Every writer is answered.
EveryWriterAnswered == \A s \in Statements : pc[s] = "queued" ~> pc[s] = "done"
=============================================================================
