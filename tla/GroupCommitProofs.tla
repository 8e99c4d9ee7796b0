--------------------------- MODULE GroupCommitProofs ---------------------------
(***************************************************************************)
(* Theorems about GroupCommit, for any number of writers, any batch bound  *)
(* and every fault: there is one leader, readers see no statement before   *)
(* its barrier, the log between batches is the graph, a statement told     *)
(* that it failed is in neither, and a writer waits for at most two        *)
(* batches, where one batch has room for all who can wait.                 *)
(***************************************************************************)
EXTENDS GroupCommit, SequenceTheorems, FiniteSetTheorems, TLAPS

-----------------------------------------------------------------------------
(* The inductive invariant, in named parts.                                *)

\* No call is queued, or in a batch, twice.
Distinct(q) == \A i, j \in DOMAIN q : q[i] = q[j] => i = j

\* A message waits only for a call that is at the point of taking it.
MailOK(s) ==
    /\ mail[s] \in {"lead", "turn"} => pc[s] = "queued"
    /\ mail[s] = "turnDone" => pc[s] = "await"
    /\ mail[s] \in {"ok", "refused"} => pc[s] \in {"verdict", "done"}

\* The baton is with the call that leads, or with the one told to.
HasBaton(s) == pc[s] \in Leading \/ mail[s] = "lead"
BatonOK ==
    /\ leaderActive <=> \E s \in Statements : HasBaton(s)
    /\ \A s, t \in Statements : HasBaton(s) /\ HasBaton(t) => s = t

\* Who waits in the FIFO is parked, and has been told nothing yet.
QueueOK ==
    /\ Distinct(waiting)
    /\ \A s \in Elems(waiting) : pc[s] = "queued" /\ mail[s] = "none"

\* The gate is held by the leader from its fork to its swap, and the batch is
\* that leader's from the fork to the last verdict.
InGate == {"own", "admit", "await", "flush", "publish"}
GateOK(s) ==
    /\ gate = s <=> pc[s] \in InGate
    /\ pc[s] \in InGate \cup {"announce"} => batch.leader = s
    /\ pc[s] = "own" => batch.frames = <<>> /\ batch.roster = <<>>

\* The fork is lent to one member at a time, whom the leader awaits.
HasTurn(s) == pc[s] = "turn" \/ mail[s] = "turn"
TurnOK ==
    /\ \A s \in Statements : HasTurn(s) =>
         /\ s \in Elems(batch.roster)
         /\ batch.leader \in Statements
         /\ pc[batch.leader] = "await" /\ mail[batch.leader] = "none"
    /\ \A s, t \in Statements : HasTurn(s) /\ HasTurn(t) => s = t

\* A member has its turn, or has had it and is still owed the verdict.
RosterOK ==
    /\ Distinct(batch.roster)
    /\ \A s \in Elems(batch.roster) :
         /\ HasTurn(s) \/ pc[s] \in {"verdict", "done"}
         /\ mail[s] \in {"none", "turn"}
         /\ batch.leader \in Statements
         /\ pc[batch.leader] \in (InGate \cup {"announce"}) \ {"own"}

CallsOK == \A s \in Statements : MailOK(s) /\ GateOK(s)
Queue == BatonOK /\ QueueOK /\ TurnOK /\ RosterOK /\ CallsOK
QueueInv == TypeOK /\ Queue

\* While the gate is free log and graph are one and durable; while a batch runs
\* the log and the fork are the graph and the batch's frames.
DataInv ==
    /\ graph.version >= Len(graph.writes)
    /\ gate = NoOne => log = graph.writes /\ durable = Len(log)
    /\ gate # NoOne =>
         /\ log = graph.writes \o batch.frames
         /\ batch.fork.writes = log
         /\ batch.start = graph.version
         /\ Len(batch.frames) <= batch.committed
         /\ durable = IF pc[gate] = "publish" THEN Len(log) ELSE Len(graph.writes)

\* A frame's statement has succeeded and is in the batch that will decide it; a
\* published one has succeeded, and no other verdict is on its way to it.
FramesOK ==
    gate # NoOne =>
        /\ batch.verdict = "ok"
        /\ \A s \in Elems(batch.frames) :
             /\ result[s] = "ok"
             /\ s = gate \/ (pc[s] = "verdict" /\ s \in Elems(batch.roster))
PublishedOK(s) ==
    s \in Elems(graph.writes) =>
        /\ result[s] = "ok"
        /\ pc[s] \in {"verdict", "announce", "handoff", "done"}
        /\ mail[s] # "refused"
        /\ pc[s] = "announce" \/ s \in Elems(batch.roster) =>
             gate = NoOne /\ batch.verdict = "ok"

OutcomeInv == FramesOK /\ \A s \in Statements : PublishedOK(s)

-----------------------------------------------------------------------------
(* Lemmas about the queues.                                                *)

Batches == [leader : Statements \cup {NoOne}, fork : Graph, start : Nat,
            frames : Seq(Statements), committed : Nat,
            roster : Seq(Statements), verdict : {"ok", "refused"}]
Answers == {"none", "ok", "error", "refused"}
Logs == Seq(Statements \cup Others)

\* Who is in a concatenation is in one of its parts.
LEMMA JoinedElems ==
    ASSUME NEW q \in Logs, NEW r \in Logs
    PROVE  Elems(q \o r) = Elems(q) \cup Elems(r)
  <1>1. /\ Len(q) \in Nat /\ Len(r) \in Nat
        /\ DOMAIN q = 1 .. Len(q) /\ DOMAIN r = 1 .. Len(r)
        /\ DOMAIN (q \o r) = 1 .. Len(q) + Len(r)
        /\ \A i \in 1 .. Len(q) + Len(r) :
             (q \o r)[i] = IF i <= Len(q) THEN q[i] ELSE r[i - Len(q)]
    BY ConcatProperties, LenProperties DEF Logs
  <1>2. ASSUME NEW i \in DOMAIN (q \o r)
        PROVE  (q \o r)[i] \in Elems(q) \cup Elems(r)
    <2>1. CASE i <= Len(q)
      BY <1>1, <2>1 DEF Elems
    <2>2. CASE i > Len(q)
      <3>1. i - Len(q) \in DOMAIN r /\ (q \o r)[i] = r[i - Len(q)]
        BY <1>1, <2>2
      <3> QED
        BY <3>1 DEF Elems
    <2> QED
      BY <1>1, <2>1, <2>2
  <1>3. ASSUME NEW i \in DOMAIN q
        PROVE  q[i] \in Elems(q \o r)
    <2>1. i \in DOMAIN (q \o r) /\ (q \o r)[i] = q[i]
      BY <1>1
    <2> QED
      BY <2>1 DEF Elems
  <1>4. ASSUME NEW i \in DOMAIN r
        PROVE  r[i] \in Elems(q \o r)
    <2>1. Len(q) + i \in DOMAIN (q \o r) /\ (q \o r)[Len(q) + i] = r[i]
      BY <1>1
    <2> QED
      BY <2>1 DEF Elems
  <1> QED
    BY <1>2, <1>3, <1>4 DEF Elems

\* Joining the back of a queue adds one element, and no duplicate.
LEMMA JoinQueue ==
    ASSUME NEW S, NEW q \in Seq(S), NEW e \in S
    PROVE  /\ Append(q, e) \in Seq(S) /\ Append(q, e) # <<>>
           /\ Elems(Append(q, e)) = Elems(q) \cup {e}
           /\ Distinct(q) /\ e \notin Elems(q) => Distinct(Append(q, e))
  <1>1. /\ DOMAIN q = 1 .. Len(q) /\ Len(q) \in Nat
        /\ DOMAIN Append(q, e) = 1 .. Len(q) + 1
        /\ \A i \in 1 .. Len(q) : Append(q, e)[i] = q[i]
        /\ Append(q, e)[Len(q) + 1] = e
        /\ Append(q, e) \in Seq(S) /\ Append(q, e) # <<>>
    BY AppendProperties, LenProperties
  <1>2. Elems(Append(q, e)) = Elems(q) \cup {e}
    BY <1>1 DEF Elems
  <1> QED
    BY <1>1, <1>2 DEF Distinct, Elems

\* Leaving the front removes that one element.
LEMMA LeaveQueue ==
    ASSUME NEW S, NEW q \in Seq(S), q # <<>>
    PROVE  /\ Tail(q) \in Seq(S)
           /\ Head(q) \in S /\ Head(q) \in Elems(q)
           /\ Elems(q) = Elems(Tail(q)) \cup {Head(q)}
           /\ Distinct(q) => Distinct(Tail(q)) /\ Head(q) \notin Elems(Tail(q))
  <1>1. /\ DOMAIN q = 1 .. Len(q) /\ Len(q) \in Nat \ {0}
        /\ Tail(q) \in Seq(S) /\ Head(q) \in S /\ Head(q) = q[1]
        /\ DOMAIN Tail(q) = 1 .. Len(q) - 1
        /\ \A i \in 1 .. Len(q) - 1 : Tail(q)[i] = q[i + 1]
    BY HeadTailProperties, LenProperties, EmptySeq
  <1>2. \A i \in 2 .. Len(q) : i - 1 \in 1 .. Len(q) - 1 /\ q[i] = Tail(q)[i - 1]
    BY <1>1
  <1>3. Elems(q) = Elems(Tail(q)) \cup {Head(q)}
    <2>1. ASSUME NEW i \in DOMAIN q
          PROVE  q[i] \in Elems(Tail(q)) \cup {Head(q)}
      <3>1. CASE i = 1
        BY <3>1, <1>1
      <3>2. CASE i # 1
        <4>1. i \in 2 .. Len(q) /\ i - 1 \in DOMAIN Tail(q) /\ q[i] = Tail(q)[i - 1]
          BY <3>2, <1>1, <1>2
        <4> QED
          BY <4>1 DEF Elems
      <3> QED
        BY <3>1, <3>2
    <2>2. Elems(Tail(q)) \cup {Head(q)} \subseteq Elems(q)
      BY <1>1 DEF Elems
    <2> QED
      BY <2>1, <2>2 DEF Elems
  <1>4. Distinct(q) => Distinct(Tail(q)) /\ Head(q) \notin Elems(Tail(q))
    BY <1>1 DEF Distinct, Elems
  <1> QED
    BY <1>1, <1>3, <1>4

\* The elements of a sequence over S are in S; the empty one has none.
LEMMA ElemsIn ==
    ASSUME NEW S, NEW q \in Seq(S)
    PROVE  Elems(q) \subseteq S
  BY LenProperties, ElementOfSeq DEF Elems

\* An empty queue holds nothing.
LEMMA EmptyQueue == Elems(<<>>) = {} /\ Distinct(<<>>)
  BY DEF Elems, Distinct

\* BatonOK is OneBaton, by who has the baton.
LEMMA BatonDef == OneBaton <=> BatonOK
  BY DEF OneBaton, BatonOK, HasBaton

\* The front part of a concatenation.
LEMMA Prefix ==
    ASSUME NEW S, NEW g \in Seq(S), NEW f \in Seq(S), NEW l, l = g \o f
    PROVE  /\ Len(l) = Len(g) + Len(f)
           /\ SubSeq(l, 1, Len(g)) = g
           /\ SubSeq(l, 1, Len(l) - Len(f)) = g
  <1>1. /\ l \in Seq(S) /\ Len(l) = Len(g) + Len(f)
        /\ Len(g) \in Nat /\ Len(f) \in Nat
        /\ \A i \in 1 .. Len(g) : l[i] = g[i] /\ l[i] \in S
    BY ConcatProperties, LenProperties, ElementOfSeq
  <1>2. /\ SubSeq(l, 1, Len(g)) \in Seq(S)
        /\ Len(SubSeq(l, 1, Len(g))) = Len(g)
        /\ \A i \in 1 .. Len(g) : SubSeq(l, 1, Len(g))[i] = g[i]
    BY <1>1, SubSeqProperties
  <1>3. SubSeq(l, 1, Len(g)) = g
    BY <1>2, SeqEqual
  <1>4. Len(l) - Len(f) = Len(g)
    BY <1>1
  <1> QED
    BY <1>1, <1>3, <1>4

-----------------------------------------------------------------------------
(* Types.                                                                  *)


Typed == /\ waiting \in Seq(Statements)
         /\ pc \in [Statements -> PCs] /\ mail \in [Statements -> Msgs]
         /\ result \in [Statements -> Answers]
         /\ gate \in Statements \cup {NoOne} /\ graph \in Graph
         /\ batch \in Batches /\ log \in Logs /\ durable \in 0 .. Len(log)
         /\ waited \in [Statements -> Nat]
Flags == leaderActive \in BOOLEAN /\ retired \in BOOLEAN

\* Typed is TypeOK but for the two flags, with the type of a batch by name.
LEMMA Types == TypeOK <=> Typed /\ Flags
  BY DEF TypeOK, Typed, Flags, Batches, Answers, Logs

\* The fields of a batch.
LEMMA BatchFields ==
    ASSUME NEW b \in Batches
    PROVE  /\ b.leader \in Statements \cup {NoOne} /\ b.fork \in Graph
           /\ b.fork.version \in Nat /\ b.fork.writes \in Logs
           /\ b.start \in Nat /\ b.committed \in Nat
           /\ b.frames \in Seq(Statements) /\ b.roster \in Seq(Statements)
           /\ b.verdict \in {"ok", "refused"}
  BY DEF Batches, Graph, Logs

\* Changing the roster, the verdict or the count of a batch changes no other part.
LEMMA BatchUpdates ==
    ASSUME NEW b \in Batches, NEW c,
           \/ \E q \in Seq(Statements) : c = [b EXCEPT !.roster = q]
           \/ c = [b EXCEPT !.verdict = "refused"]
           \/ c = [b EXCEPT !.committed = @ + 1]
    PROVE  /\ c \in Batches
           /\ c.leader = b.leader /\ c.fork = b.fork /\ c.start = b.start
           /\ c.frames = b.frames
           /\ (\E q \in Seq(Statements) : c = [b EXCEPT !.roster = q])
                 \/ c.roster = b.roster
           /\ c.committed \in {b.committed, b.committed + 1}
           /\ c.verdict \in {b.verdict, "refused"}
  BY DEF Batches

\* The roster that is set is the roster.
LEMMA NewRoster ==
    ASSUME NEW b \in Batches, NEW q \in Seq(Statements), NEW c,
           c = [b EXCEPT !.roster = q]
    PROVE  /\ c \in Batches /\ c.roster = q
           /\ c.leader = b.leader /\ c.fork = b.fork /\ c.start = b.start
           /\ c.frames = b.frames /\ c.committed = b.committed
           /\ c.verdict = b.verdict
  BY DEF Batches

\* No batch is a batch without leader, frames or members.
LEMMA BlankBatch ==
    /\ NoBatch \in Batches /\ NoBatch.leader = NoOne
    /\ NoBatch.frames = <<>> /\ NoBatch.roster = <<>>
    /\ NoBatch.committed = 0 /\ NoBatch.verdict = "ok"
  BY DEF NoBatch, Batches, Graph

\* A batch that begins: the graph is its fork, and it is empty.
LEMMA NewBatch ==
    ASSUME graph \in Graph, NEW s \in Statements,
           batch' = [NoBatch EXCEPT !.leader = s, !.fork = graph, !.start = graph.version]
    PROVE  /\ batch' \in Batches /\ batch'.leader = s /\ batch'.fork = graph
           /\ batch'.start = graph.version
           /\ batch'.frames = <<>> /\ batch'.committed = 0
           /\ batch'.roster = <<>> /\ batch'.verdict = "ok"
  <1>1. NoBatch \in Batches /\ graph.version \in Nat
    BY BlankBatch DEF Graph
  <1>2. /\ batch' \in Batches /\ batch'.leader = s /\ batch'.fork = graph
        /\ batch'.start = graph.version
        /\ batch'.frames = NoBatch.frames /\ batch'.committed = NoBatch.committed
        /\ batch'.roster = NoBatch.roster /\ batch'.verdict = NoBatch.verdict
    BY <1>1 DEF Batches
  <1> QED
    BY <1>2, BlankBatch

\* What a statement that runs does to batch and log: all or nothing of a frame,
\* and it counts exactly when it succeeds.
LEMMA RanEffect ==
    ASSUME batch \in Batches, log \in Logs,
           NEW s \in Statements, NEW o, Ran(s, o)
    PROVE  /\ batch' \in Batches /\ log' \in Logs
           /\ batch'.leader = batch.leader /\ batch'.roster = batch.roster
           /\ batch'.start = batch.start /\ batch'.verdict = batch.verdict
           /\ batch'.committed \in {batch.committed, batch.committed + 1}
           /\ \/ /\ batch'.fork = batch.fork /\ batch'.frames = batch.frames
                 /\ log' = log
              \/ /\ o = "ok" /\ batch'.committed = batch.committed + 1
                 /\ batch'.fork.writes = Append(batch.fork.writes, s)
                 /\ batch'.frames = Append(batch.frames, s)
                 /\ log' = Append(log, s)
  <1>1. /\ Append(batch.fork.writes, s) \in Logs
        /\ Append(batch.frames, s) \in Seq(Statements)
        /\ Append(log, s) \in Logs
    BY AppendProperties, BatchFields DEF Logs
  <1>2. CASE UNCHANGED <<batch, log>>
    BY <1>2
  <1>3. CASE batch' = [batch EXCEPT !.committed = @ + 1] /\ UNCHANGED log
    BY <1>3, SMTT(30) DEF Batches
  <1>4. CASE /\ o = "ok"
             /\ batch' = [batch EXCEPT !.fork.writes = Append(@, s),
                                       !.frames = Append(@, s),
                                       !.committed = @ + 1]
             /\ log' = Append(log, s)
    <2>1. batch' = [leader |-> batch.leader,
                    fork |-> [version |-> batch.fork.version,
                              writes |-> Append(batch.fork.writes, s)],
                    start |-> batch.start, frames |-> Append(batch.frames, s),
                    committed |-> batch.committed + 1, roster |-> batch.roster,
                    verdict |-> batch.verdict]
      BY <1>4 DEF Batches, Graph
    <2>2. batch' \in Batches
      BY <1>1, <2>1, BatchFields DEF Batches, Graph, Logs
    <2>3. o = "ok" /\ log' = Append(log, s)
      BY <1>4
    <2> QED
      BY <1>1, <2>1, <2>2, <2>3
  <1> QED
    BY <1>2, <1>3, <1>4 DEF Ran

\* A sequence of statements is one of statements and other commits.
LEMMA Wider ==
    ASSUME NEW q \in Seq(Statements)
    PROVE  q \in Logs
  <1>1. \A i \in 1 .. Len(q) : q[i] \in Statements \cup Others
    BY ElementOfSeq
  <1>2. q = [i \in 1 .. Len(q) |-> q[i]] /\ Len(q) \in Nat
    BY LenProperties
  <1> QED
    BY <1>1, <1>2, IsASeq DEF Logs

\* What the front of the FIFO is, and what a queue or a roster is without it.
LEMMA Fronts ==
    ASSUME TypeOK
    PROVE  /\ waiting # <<>> =>
                /\ Head(waiting) \in Statements /\ Tail(waiting) \in Seq(Statements)
                /\ Append(batch.roster, Head(waiting)) \in Seq(Statements)
           /\ batch.roster # <<>> =>
                /\ Head(batch.roster) \in Statements
                /\ Tail(batch.roster) \in Seq(Statements)
           /\ \A s \in Statements : Append(waiting, s) \in Seq(Statements)
  BY Types, BatchFields, HeadTailProperties, AppendProperties DEF Typed

\* While a batch runs, the log up to its first frame is the graph.
LEMMA BeforeIsGraph ==
    ASSUME TypeOK, DataInv, gate # NoOne
    PROVE  /\ BeforeBatch = graph.writes
           /\ Len(log) = Len(graph.writes) + Len(batch.frames)
           /\ graph.writes = SubSeq(log, 1, Len(graph.writes))
  <1>1. /\ graph.writes \in Logs /\ batch.frames \in Logs /\ log \in Logs
        /\ log = graph.writes \o batch.frames
    BY Types, BatchFields, Wider DEF Typed, Graph, DataInv, Logs
  <1> QED
    BY <1>1, Prefix DEF BeforeBatch, Logs

\* Every step keeps the types.
LEMMA NextTypes ==
    ASSUME QueueInv, DataInv, [Next]_vars
    PROVE  TypeOK'
  <1>t. Typed
    BY Types DEF QueueInv
  <1>f. Flags'
    <2>1. Flags
      BY Types DEF QueueInv
    <2>2. leaderActive' \in {leaderActive, TRUE, FALSE} /\ retired' \in {retired, TRUE}
      BY DEF Next, vars, Step, Enqueue, Wake, Handoff, TakeGate, RunOwn, Admit, AwaitTurn,
             RunTurn, Flush, Publish, Announce, TakeVerdict, OtherCommit, Retire, queue
    <2> QED
      BY <2>1, <2>2 DEF Flags
  <1> SUFFICES Typed'
    BY <1>f DEF TypeOK, Typed, Flags, Batches, Answers, Logs
  <1> USE DEF Typed, Goto, Post, PCs, Msgs, Leading, calls, disk, queue, Answers
  <1>s. ASSUME NEW s \in Statements, Enqueue(s) \/ Step(s)
        PROVE  Typed'
    <2>1. CASE Enqueue(s)
      BY <1>t, <2>1, Fronts DEF Enqueue, QueueInv
    <2>2. CASE Wake(s)
      BY <1>t, <2>2 DEF Wake
    <2>3. CASE Handoff(s)
      BY <1>t, <2>3, Fronts DEF Handoff, QueueInv
    <2>4. CASE TakeGate(s)
      <3>1. batch' \in Batches
        <4>1. batch' = batch \/ batch' = [NoBatch EXCEPT !.leader = s, !.fork = graph,
                                                         !.start = graph.version]
          BY <2>4 DEF TakeGate
        <4> QED
          BY <1>t, <4>1, NewBatch
      <3> QED
        BY <1>t, <2>4, <3>1 DEF TakeGate
    <2>5. CASE RunOwn(s)
      <3>1. batch' \in Batches /\ log' \in Logs /\ Len(log) <= Len(log')
        BY <1>t, <2>5, RanEffect, BlankBatch, AppendProperties, LenProperties DEF RunOwn, Logs
      <3>2. durable' \in 0 .. Len(log')
        BY <1>t, <2>5, <3>1, LenProperties DEF RunOwn, Logs
      <3> QED
        BY <1>t, <2>5, <3>1, <3>2 DEF RunOwn
    <2>6. CASE Admit(s)
      <3>1. batch' \in Batches
        <4>1. \/ batch' = batch
              \/ /\ waiting # <<>>
                 /\ batch' = [batch EXCEPT !.roster = Append(batch.roster, Head(waiting))]
          BY <2>6 DEF Admit
        <4> QED
          BY <1>t, <4>1, Fronts, NewRoster DEF QueueInv
      <3> QED
        BY <1>t, <2>6, <3>1, Fronts DEF Admit, QueueInv
    <2>7. CASE AwaitTurn(s)
      BY <1>t, <2>7 DEF AwaitTurn
    <2>8. CASE RunTurn(s)
      <3>1. batch' \in Batches /\ log' \in Logs /\ Len(log) <= Len(log')
        BY <1>t, <2>8, RanEffect, AppendProperties, LenProperties DEF RunTurn, Logs
      <3>2. durable' \in 0 .. Len(log')
        BY <1>t, <2>8, <3>1, LenProperties DEF RunTurn, Logs
      <3> QED
        BY <1>t, <2>8, <3>1, <3>2 DEF RunTurn
    <2>9. CASE Flush(s)
      <3>1. gate = s /\ gate # NoOne
        BY <2>9, GroupCommitAssumption DEF Flush, QueueInv, Queue, CallsOK, GateOK, InGate
      <3>2. /\ BeforeBatch = graph.writes /\ Len(graph.writes) \in Nat
            /\ durable <= Len(graph.writes) /\ BeforeBatch \in Logs
        BY <1>t, <2>9, <3>1, BeforeIsGraph, LenProperties
        DEF DataInv, Flush, Graph, Logs, QueueInv
      <3>3. batch' \in Batches
        BY <1>t, <2>9, BatchUpdates DEF Flush
      <3>4. log' \in Logs /\ durable' \in 0 .. Len(log')
        BY <1>t, <2>9, <3>2, LenProperties DEF Flush, Logs
      <3> QED
        BY <1>t, <2>9, <3>3, <3>4 DEF Flush
    <2>10. CASE Publish(s)
      <3>1. batch.fork \in Graph /\ batch.start + batch.committed \in Nat
        BY <1>t, BatchFields
      <3>2. graph' \in Graph
        BY <2>10, <3>1 DEF Publish, Graph
      <3> QED
        BY <1>t, <2>10, <3>2 DEF Publish
    <2>11. CASE Announce(s)
      <3>1. batch' \in Batches
        BY <1>t, <2>11, Fronts, NewRoster, ZenonT(40) DEF Announce, QueueInv
      <3>2. waited' \in [Statements -> Nat]
        BY <1>t, <2>11 DEF Announce
      <3> QED
        BY <1>t, <2>11, <3>1, <3>2, Fronts, BatchFields DEF Announce, Answer, QueueInv
    <2>12. CASE TakeVerdict(s)
      BY <1>t, <2>12 DEF TakeVerdict, Answer
    <2> QED
      BY <1>s, <2>1, <2>2, <2>3, <2>4, <2>5, <2>6, <2>7, <2>8, <2>9, <2>10, <2>11, <2>12
      DEF Step
  <1>o. ASSUME NEW o \in Others, OtherCommit(o)
        PROVE  Typed'
    <2>1. /\ graph.version \in Nat /\ Append(graph.writes, o) \in Logs
          /\ Append(log, o) \in Logs
      BY <1>t, AppendProperties DEF Graph, Logs
    <2>2. Len(Append(log, o)) \in Nat
      BY <2>1, LenProperties DEF Logs
    <2> QED
      BY <1>t, <1>o, <2>1, <2>2 DEF OtherCommit, Graph, Logs
  <1>r. CASE Retire \/ UNCHANGED vars
    BY <1>t, <1>r DEF Retire, vars
  <1> QED
    BY <1>s, <1>o, <1>r DEF Next

-----------------------------------------------------------------------------
(* The queue: every step of a call keeps the baton single, the FIFO and the *)
(* roster duplicate-free, and the fork with one member at a time.           *)

\* The types the arguments about the queue use.
LEMMA QueueTypes ==
    ASSUME TypeOK
    PROVE  /\ pc \in [Statements -> PCs] /\ mail \in [Statements -> Msgs]
           /\ waiting \in Seq(Statements) /\ batch.roster \in Seq(Statements)
           /\ batch.leader \in Statements \cup {NoOne} /\ NoOne \notin Statements
           /\ Elems(waiting) \subseteq Statements
           /\ Elems(batch.roster) \subseteq Statements
  BY Types, BatchFields, ElemsIn, GroupCommitAssumption DEF Typed

\* A call arrives: it leads, or it parks behind the others.
LEMMA EnqueueQueue ==
    ASSUME QueueInv, NEW s \in Statements, Enqueue(s)
    PROVE  Queue'
  <1>t. /\ pc \in [Statements -> PCs] /\ mail \in [Statements -> Msgs]
        /\ waiting \in Seq(Statements)
        /\ Elems(waiting) \subseteq Statements /\ Elems(batch.roster) \subseteq Statements
    BY QueueTypes DEF QueueInv
  <1>1. /\ pc[s] = "new" /\ (pc' = [pc EXCEPT ![s] = "queued"] \/ pc' = [pc EXCEPT ![s] = "lead"])
        /\ UNCHANGED <<mail, gate, batch>>
    BY DEF Enqueue, Goto
  <1> USE DEF QueueInv, Queue, CallsOK
  <1>2. BatonOK'
    BY <1>t DEF Enqueue, BatonOK, HasBaton, Goto, Leading, MailOK
  <1>3. QueueOK'
    <2>1. CASE waiting' = waiting
      BY <1>t, <1>1, <2>1 DEF QueueOK
    <2>2. CASE leaderActive
      <3>1. waiting' = Append(waiting, s) /\ pc' = [pc EXCEPT ![s] = "queued"]
        BY <2>2 DEF Enqueue, Goto
      <3>2. s \notin Elems(waiting) /\ mail[s] = "none"
        BY <1>t, <1>1 DEF QueueOK, MailOK, Msgs
      <3>3. Distinct(waiting') /\ Elems(waiting') = Elems(waiting) \cup {s}
        BY <1>t, <3>1, <3>2, JoinQueue DEF QueueOK
      <3> QED
        BY <1>t, <1>1, <3>1, <3>2, <3>3 DEF QueueOK
    <2> QED
      BY <2>1, <2>2 DEF Enqueue
  <1>4. TurnOK'
    BY <1>t, <1>1 DEF TurnOK, HasTurn, GateOK, MailOK
  <1>5. RosterOK'
    BY <1>t, <1>1 DEF RosterOK, HasTurn, InGate
  <1>6. CallsOK'
    BY <1>t, <1>1 DEF MailOK, GateOK, InGate
  <1> QED
    BY <1>2, <1>3, <1>4, <1>5, <1>6

\* The baton passes to the front of the FIFO, or is put down.
LEMMA HandoffQueue ==
    ASSUME QueueInv, NEW s \in Statements, Handoff(s)
    PROVE  Queue'
  <1>t. /\ pc \in [Statements -> PCs] /\ mail \in [Statements -> Msgs]
        /\ waiting \in Seq(Statements)
        /\ Elems(waiting) \subseteq Statements /\ Elems(batch.roster) \subseteq Statements
    BY QueueTypes DEF QueueInv
  <1>1. /\ pc[s] = "handoff" /\ pc' = [pc EXCEPT ![s] = "done"]
        /\ UNCHANGED <<gate, batch>>
        /\ \/ waiting = <<>> /\ UNCHANGED <<waiting, mail>> /\ ~leaderActive'
           \/ /\ waiting # <<>> /\ waiting' = Tail(waiting)
              /\ mail' = [mail EXCEPT ![Head(waiting)] = "lead"] /\ UNCHANGED leaderActive
    BY DEF Handoff, Goto, Post
  <1>h. waiting # <<>> =>
          /\ Head(waiting) \in Statements /\ Head(waiting) \in Elems(waiting)
          /\ Elems(waiting) = Elems(Tail(waiting)) \cup {Head(waiting)}
          /\ Distinct(waiting) =>
               Distinct(Tail(waiting)) /\ Head(waiting) \notin Elems(Tail(waiting))
    BY <1>t, LeaveQueue
  <1> USE DEF QueueInv, Queue, CallsOK
  <1>2. BatonOK'
    <2>1. \A t \in Statements : HasBaton(t) => t = s
      BY <1>1 DEF BatonOK, HasBaton, Leading
    <2>2. CASE waiting = <<>> /\ UNCHANGED mail /\ ~leaderActive'
      BY <1>t, <1>1, <2>1, <2>2 DEF HasBaton, BatonOK, Leading, CallsOK, MailOK
    <2>3. CASE waiting # <<>> /\ UNCHANGED leaderActive
      <3> DEFINE h == Head(waiting)
      <3>1. /\ mail' = [mail EXCEPT ![h] = "lead"] /\ h \in Statements
            /\ pc[h] = "queued" /\ leaderActive
        BY <1>1, <1>h, <2>3 DEF QueueOK, BatonOK, HasBaton, Leading
      <3> HIDE DEF h
      <3>2. \A t \in Statements : HasBaton(t)' <=> t = h
        BY <1>t, <1>1, <2>1, <3>1 DEF HasBaton, Leading, CallsOK, MailOK
      <3> QED
        BY <2>3, <3>1, <3>2 DEF BatonOK
    <2> QED
      BY <1>1, <2>2, <2>3
  <1>3. QueueOK'
    BY <1>t, <1>1, <1>h DEF QueueOK
  <1>4. TurnOK'
    BY <1>t, <1>1, <1>h DEF TurnOK, QueueOK, HasTurn
  <1>5. RosterOK'
    BY <1>t, <1>1, <1>h DEF RosterOK, QueueOK, HasTurn, InGate
  <1>6. CallsOK'
    BY <1>t, <1>1, <1>h DEF MailOK, GateOK, QueueOK, InGate
  <1> QED
    BY <1>2, <1>3, <1>4, <1>5, <1>6

\* The leader takes the gate and begins a batch, or gives up at once.  No other
\* batch can be under way: its leader would have the baton.
LEMMA TakeGateQueue ==
    ASSUME QueueInv, NEW s \in Statements, TakeGate(s)
    PROVE  Queue'
  <1>t. /\ pc \in [Statements -> PCs] /\ mail \in [Statements -> Msgs]
        /\ Elems(waiting) \subseteq Statements /\ Elems(batch.roster) \subseteq Statements
        /\ NoOne \notin Statements
    BY QueueTypes DEF QueueInv
  <1>1. /\ pc[s] = "lead" /\ gate = NoOne /\ UNCHANGED <<leaderActive, waiting, mail>>
        /\ \/ pc' = [pc EXCEPT ![s] = "handoff"] /\ UNCHANGED <<gate, batch>>
           \/ /\ pc' = [pc EXCEPT ![s] = "own"] /\ gate' = s
              /\ batch'.leader = s /\ batch'.roster = <<>> /\ batch'.frames = <<>>
    <2>1. graph \in Graph
      BY Types DEF QueueInv, Typed
    <2>2. CASE batch' = [NoBatch EXCEPT !.leader = s, !.fork = graph, !.start = graph.version]
      <3>1. batch'.leader = s /\ batch'.roster = <<>> /\ batch'.frames = <<>>
        BY <2>1, <2>2, NewBatch
      <3>2. /\ pc[s] = "lead" /\ gate = NoOne /\ UNCHANGED <<leaderActive, waiting, mail>>
            /\ \/ pc' = [pc EXCEPT ![s] = "handoff"] /\ UNCHANGED <<gate, batch>>
               \/ pc' = [pc EXCEPT ![s] = "own"] /\ gate' = s
        BY DEF TakeGate, Goto, queue
      <3> QED
        BY <3>1, <3>2
    <2>3. CASE batch' = batch /\ pc' = [pc EXCEPT ![s] = "handoff"] /\ gate' = gate
      BY <2>3 DEF TakeGate, Goto, queue
    <2> QED
      BY <2>2, <2>3 DEF TakeGate, Goto
  <1> USE DEF QueueInv, Queue, CallsOK
  <1>2. BatonOK'
    BY <1>t, <1>1 DEF BatonOK, HasBaton, Leading
  <1>3. QueueOK'
    BY <1>t, <1>1 DEF QueueOK
  <1>4. TurnOK'
    BY <1>t, <1>1 DEF TurnOK, HasTurn, GateOK, MailOK, InGate, BatonOK, HasBaton, Leading
  <1>5. RosterOK'
    BY <1>t, <1>1, EmptyQueue
    DEF RosterOK, HasTurn, InGate, GateOK, BatonOK, HasBaton, Leading
  <1>6. CallsOK'
    BY <1>t, <1>1 DEF MailOK, GateOK, InGate, BatonOK, HasBaton, Leading
  <1> QED
    BY <1>2, <1>3, <1>4, <1>5, <1>6

\* The leader's own statement; a panic leaves no batch behind.
LEMMA RunOwnQueue ==
    ASSUME QueueInv, NEW s \in Statements, RunOwn(s)
    PROVE  Queue'
  <1>t. /\ pc \in [Statements -> PCs] /\ mail \in [Statements -> Msgs]
        /\ Elems(waiting) \subseteq Statements /\ Elems(batch.roster) \subseteq Statements
        /\ NoOne \notin Statements
    BY QueueTypes DEF QueueInv
  <1>1. /\ pc[s] = "own" /\ UNCHANGED <<leaderActive, waiting, mail>>
        /\ \/ /\ pc' = [pc EXCEPT ![s] = "admit"] /\ gate' = gate
              /\ batch'.leader = batch.leader /\ batch'.roster = batch.roster
           \/ /\ pc' = [pc EXCEPT ![s] = "handoff"] /\ gate' = NoOne
              /\ batch'.leader = NoOne /\ batch'.roster = <<>> /\ batch'.frames = <<>>
    <2>1. batch \in Batches /\ log \in Logs
      BY Types DEF QueueInv, Typed
    <2>2. CASE batch' = NoBatch /\ gate' = NoOne /\ pc' = [pc EXCEPT ![s] = "handoff"]
      BY <2>2, BlankBatch DEF RunOwn, queue
    <2>3. CASE /\ \E o \in {"ok", "error", "refused"} : Ran(s, o)
               /\ pc' = [pc EXCEPT ![s] = "admit"] /\ gate' = gate
      <3>1. batch'.leader = batch.leader /\ batch'.roster = batch.roster
        BY <2>1, <2>3, RanEffect
      <3> QED
        BY <2>3, <3>1 DEF RunOwn, queue
    <2> QED
      BY <2>2, <2>3 DEF RunOwn, Goto
  <1> USE DEF QueueInv, Queue, CallsOK
  <1>2. BatonOK'
    BY <1>t, <1>1 DEF BatonOK, HasBaton, Leading
  <1>3. QueueOK'
    BY <1>t, <1>1 DEF QueueOK
  <1>4. TurnOK'
    BY <1>t, <1>1 DEF TurnOK, HasTurn, GateOK, InGate
  <1>5. RosterOK'
    BY <1>t, <1>1, EmptyQueue DEF RosterOK, HasTurn, InGate, GateOK
  <1>6. CallsOK'
    BY <1>t, <1>1 DEF MailOK, GateOK, InGate, BatonOK, HasBaton, Leading
  <1> QED
    BY <1>2, <1>3, <1>4, <1>5, <1>6

\* The front of the FIFO gets the turn, or the batch closes.
LEMMA AdmitQueue ==
    ASSUME QueueInv, NEW s \in Statements, Admit(s)
    PROVE  Queue'
  <1>t. /\ pc \in [Statements -> PCs] /\ mail \in [Statements -> Msgs]
        /\ waiting \in Seq(Statements) /\ batch.roster \in Seq(Statements)
        /\ Elems(waiting) \subseteq Statements /\ Elems(batch.roster) \subseteq Statements
        /\ NoOne \notin Statements
    BY QueueTypes DEF QueueInv
  <1> USE DEF QueueInv, Queue, CallsOK
  <1>1. /\ pc[s] = "admit" /\ UNCHANGED <<leaderActive, gate>> /\ batch.leader = s
    BY DEF Admit, GateOK, InGate
  <1>2. CASE pc' = [pc EXCEPT ![s] = "flush"] /\ UNCHANGED <<waiting, mail, batch>>
    <2>1. BatonOK' /\ QueueOK'
      BY <1>t, <1>1, <1>2 DEF BatonOK, HasBaton, Leading, QueueOK
    <2>2. TurnOK' /\ RosterOK' /\ CallsOK'
      BY <1>t, <1>1, <1>2 DEF TurnOK, RosterOK, HasTurn, MailOK, GateOK, InGate
    <2> QED
      BY <2>1, <2>2
  <1>3. CASE /\ waiting # <<>> /\ waiting' = Tail(waiting)
             /\ mail' = [mail EXCEPT ![Head(waiting)] = "turn"]
             /\ batch' = [batch EXCEPT !.roster = Append(batch.roster, Head(waiting))]
             /\ pc' = [pc EXCEPT ![s] = "await"]
    <2> DEFINE h == Head(waiting)
    <2>1. /\ h \in Statements /\ h \in Elems(waiting)
          /\ Elems(waiting) = Elems(waiting') \cup {h}
          /\ Distinct(waiting') /\ h \notin Elems(waiting')
      BY <1>t, <1>3, LeaveQueue DEF QueueOK
    <2>2. pc[h] = "queued" /\ mail[h] = "none"
      BY <2>1 DEF QueueOK
    <2>3. h \notin Elems(batch.roster)
      BY <2>1, <2>2 DEF RosterOK, HasTurn
    <2>4. batch'.roster = Append(batch.roster, h) /\ batch'.leader = s /\ batch'.frames = batch.frames
      <3>1. batch \in Batches /\ Append(batch.roster, h) \in Seq(Statements)
        BY <1>t, <2>1, Types, AppendProperties DEF Typed
      <3> QED
        BY <1>1, <1>3, <3>1, NewRoster
    <2>5. Distinct(batch'.roster) /\ Elems(batch'.roster) = Elems(batch.roster) \cup {h}
      BY <1>t, <2>1, <2>3, <2>4, JoinQueue DEF RosterOK
    <2>6. /\ mail' = [mail EXCEPT ![h] = "turn"] /\ pc' = [pc EXCEPT ![s] = "await"]
          /\ \A t \in Statements : ~HasTurn(t)
      BY <1>1, <1>3 DEF TurnOK
    <2> HIDE DEF h
    <2>7. BatonOK'
      BY <1>t, <1>1, <2>1, <2>2, <2>6 DEF BatonOK, HasBaton, Leading
    <2>8. QueueOK'
      BY <1>t, <1>1, <2>1, <2>2, <2>6 DEF QueueOK
    <2>9. TurnOK'
      <3>1. mail[s] = "none" /\ s # h
        BY <1>t, <1>1, <2>2 DEF MailOK, Msgs
      <3>2. \A t \in Statements : HasTurn(t)' => t = h
        BY <1>t, <1>1, <2>1, <2>6 DEF HasTurn
      <3>3. pc'[s] = "await" /\ mail'[s] = "none"
        BY <1>t, <2>1, <2>6, <3>1
      <3> QED
        BY <2>1, <2>4, <2>5, <3>2, <3>3 DEF TurnOK
    <2>10. RosterOK'
      BY <1>t, <1>1, <2>1, <2>2, <2>3, <2>4, <2>5, <2>6 DEF RosterOK, HasTurn, InGate
    <2>11. CallsOK'
      BY <1>t, <1>1, <2>1, <2>2, <2>4, <2>6 DEF MailOK, GateOK, InGate
    <2> QED
      BY <2>7, <2>8, <2>9, <2>10, <2>11
  <1> QED
    BY <1>2, <1>3 DEF Admit, Goto, Post

\* A parked call wakes, the leader resumes, or a member takes its verdict: each
\* takes the one message that waits for it.
LEMMA TakenQueue ==
    ASSUME QueueInv, NEW s \in Statements, Wake(s) \/ AwaitTurn(s) \/ TakeVerdict(s)
    PROVE  Queue'
  <1>t. /\ pc \in [Statements -> PCs] /\ mail \in [Statements -> Msgs]
        /\ Elems(waiting) \subseteq Statements /\ Elems(batch.roster) \subseteq Statements
        /\ NoOne \notin Statements
    BY QueueTypes DEF QueueInv
  <1>1. /\ mail' = [mail EXCEPT ![s] = "none"]
        /\ UNCHANGED <<leaderActive, waiting, gate, batch>>
        /\ \/ /\ pc[s] = "queued" /\ mail[s] \in {"lead", "turn"}
              /\ pc' = [pc EXCEPT ![s] = mail[s]]
           \/ /\ pc[s] = "await" /\ mail[s] = "turnDone"
              /\ pc' = [pc EXCEPT ![s] = "admit"]
           \/ /\ pc[s] = "verdict" /\ mail[s] \in {"ok", "refused"}
              /\ pc' = [pc EXCEPT ![s] = "done"]
    BY DEF Wake, AwaitTurn, TakeVerdict, Goto, Post, queue
  <1> USE DEF QueueInv, Queue, CallsOK
  <1>2. BatonOK'
    <2>1. \A t \in Statements : HasBaton(t)' <=> HasBaton(t)
      BY <1>t, <1>1 DEF HasBaton, Leading
    <2> QED
      BY <1>1, <2>1 DEF BatonOK
  <1>3. QueueOK'
    BY <1>t, <1>1 DEF QueueOK
  <1>4. TurnOK'
    BY <1>t, <1>1 DEF TurnOK, HasTurn
  <1>5. RosterOK'
    BY <1>t, <1>1 DEF RosterOK, HasTurn, InGate
  <1>6. CallsOK'
    BY <1>t, <1>1 DEF MailOK, GateOK, InGate
  <1> QED
    BY <1>2, <1>3, <1>4, <1>5, <1>6

\* The member with the turn runs, and tells the leader, who awaits it.
LEMMA RunTurnQueue ==
    ASSUME QueueInv, NEW s \in Statements, RunTurn(s)
    PROVE  Queue'
  <1>t. /\ pc \in [Statements -> PCs] /\ mail \in [Statements -> Msgs]
        /\ Elems(waiting) \subseteq Statements /\ Elems(batch.roster) \subseteq Statements
        /\ NoOne \notin Statements
    BY QueueTypes DEF QueueInv
  <1> DEFINE l == batch.leader
  <1>1. /\ pc[s] = "turn" /\ pc'[s] \in {"verdict", "done"}
        /\ \A t \in Statements \ {s} : pc'[t] = pc[t]
        /\ UNCHANGED <<leaderActive, waiting, gate>>
        /\ mail' = [mail EXCEPT ![l] = "turnDone"]
    BY <1>t DEF RunTurn, Goto, Post, queue
  <1>2. batch'.leader = l /\ batch'.roster = batch.roster
    <2>1. batch \in Batches /\ log \in Logs
      BY Types DEF QueueInv, Typed
    <2>2. \E o \in {"ok", "error", "refused"} : Ran(s, o)
      BY DEF RunTurn
    <2> QED
      BY <2>1, <2>2, RanEffect
  <1> USE DEF QueueInv, Queue, CallsOK
  <1>3. /\ l \in Statements /\ pc[l] = "await" /\ mail[l] = "none" /\ l # s
        /\ s \in Elems(batch.roster)
        /\ \A t \in Statements : HasTurn(t) => t = s
    BY <1>1 DEF TurnOK, HasTurn
  <1> HIDE DEF l
  <1>4. mail[s] = "none"
    BY <1>t, <1>1 DEF MailOK, Msgs
  <1>5. BatonOK'
    <2>1. \A t \in Statements : HasBaton(t)' <=> HasBaton(t)
      BY <1>t, <1>1, <1>3 DEF HasBaton, Leading
    <2> QED
      BY <1>1, <2>1 DEF BatonOK
  <1>6. QueueOK'
    BY <1>t, <1>1, <1>3 DEF QueueOK
  <1>7. TurnOK'
    BY <1>t, <1>1, <1>3, <1>4 DEF HasTurn, TurnOK
  <1>8. RosterOK'
    BY <1>t, <1>1, <1>2, <1>3, <1>4 DEF RosterOK, HasTurn, InGate, l
  <1>9. CallsOK'
    BY <1>t, <1>1, <1>2, <1>3, <1>4 DEF MailOK, GateOK, InGate, l
  <1> QED
    BY <1>5, <1>6, <1>7, <1>8, <1>9

\* The leader takes its barrier and swaps; the roster stands.
LEMMA CloseQueue ==
    ASSUME QueueInv, NEW s \in Statements, Flush(s) \/ Publish(s)
    PROVE  Queue'
  <1>t. /\ pc \in [Statements -> PCs] /\ mail \in [Statements -> Msgs]
        /\ Elems(waiting) \subseteq Statements /\ Elems(batch.roster) \subseteq Statements
        /\ NoOne \notin Statements
    BY QueueTypes DEF QueueInv
  <1>1. /\ pc[s] \in {"flush", "publish"}
        /\ UNCHANGED <<leaderActive, waiting, mail>>
        /\ \/ pc' = [pc EXCEPT ![s] = "publish"] /\ gate' = gate
           \/ pc' = [pc EXCEPT ![s] = "announce"] /\ gate' = NoOne
    BY DEF Flush, Publish, Goto, queue
  <1>2. batch'.leader = batch.leader /\ batch'.roster = batch.roster
    <2>1. CASE batch' = batch
      BY <2>1
    <2>2. CASE batch' = [batch EXCEPT !.verdict = "refused"]
      BY <2>2, Types, BatchFields DEF Batches, Typed, QueueInv
    <2> QED
      BY <2>1, <2>2 DEF Flush, Publish
  <1> USE DEF QueueInv, Queue, CallsOK
  <1>3. BatonOK'
    <2>1. \A t \in Statements : HasBaton(t)' <=> HasBaton(t)
      BY <1>t, <1>1 DEF HasBaton, Leading
    <2> QED
      BY <1>1, <2>1 DEF BatonOK
  <1>4. QueueOK'
    BY <1>t, <1>1 DEF QueueOK
  <1>5. TurnOK'
    BY <1>t, <1>1, <1>2 DEF TurnOK, HasTurn, GateOK, InGate
  <1>6. RosterOK'
    BY <1>t, <1>1, <1>2 DEF RosterOK, HasTurn, InGate
  <1>7. CallsOK'
    BY <1>t, <1>1, <1>2 DEF MailOK, GateOK, InGate, BatonOK, HasBaton, Leading
  <1> QED
    BY <1>3, <1>4, <1>5, <1>6, <1>7

\* The front of the roster is told the verdict, or the leader's call ends.
LEMMA AnnounceQueue ==
    ASSUME QueueInv, NEW s \in Statements, Announce(s)
    PROVE  Queue'
  <1>t. /\ pc \in [Statements -> PCs] /\ mail \in [Statements -> Msgs]
        /\ batch.roster \in Seq(Statements)
        /\ Elems(waiting) \subseteq Statements /\ Elems(batch.roster) \subseteq Statements
        /\ NoOne \notin Statements
    BY QueueTypes DEF QueueInv
  <1> USE DEF QueueInv, Queue, CallsOK
  <1>1. /\ pc[s] = "announce" /\ UNCHANGED <<leaderActive, waiting, gate>>
        /\ batch.leader = s /\ gate # s
        /\ \A t \in Statements : ~HasTurn(t)
    BY DEF Announce, queue, GateOK, InGate, TurnOK
  <1>2. CASE batch.roster = <<>>
    <2>1. pc' = [pc EXCEPT ![s] = "handoff"] /\ UNCHANGED <<mail, batch>>
      BY <1>2 DEF Announce, Goto
    <2>2. BatonOK'
      <3>1. \A t \in Statements : HasBaton(t)' <=> HasBaton(t)
        BY <1>t, <1>1, <2>1 DEF HasBaton, Leading
      <3> QED
        BY <1>1, <3>1 DEF BatonOK
    <2>3. QueueOK' /\ TurnOK'
      BY <1>t, <1>1, <2>1 DEF QueueOK, TurnOK, HasTurn
    <2>4. RosterOK' /\ CallsOK'
      BY <1>t, <1>1, <1>2, <2>1, EmptyQueue DEF RosterOK, MailOK, GateOK, InGate
    <2> QED
      BY <2>2, <2>3, <2>4
  <1>3. CASE batch.roster # <<>>
    <2> DEFINE h == Head(batch.roster)
               v == batch.verdict
    <2>1. /\ h \in Statements /\ h \in Elems(batch.roster)
          /\ Elems(batch.roster) = Elems(Tail(batch.roster)) \cup {h}
          /\ Distinct(Tail(batch.roster)) /\ h \notin Elems(Tail(batch.roster))
          /\ Tail(batch.roster) \in Seq(Statements)
      BY <1>t, <1>3, LeaveQueue DEF RosterOK
    <2>2. pc[h] \in {"verdict", "done"} /\ mail[h] = "none" /\ v \in {"ok", "refused"}
      BY <1>1, <2>1, Types, BatchFields DEF RosterOK, HasTurn, Typed
    <2>3. batch'.roster = Tail(batch.roster) /\ batch'.leader = s /\ batch'.frames = batch.frames
      <3>1. batch \in Batches /\ batch' = [batch EXCEPT !.roster = Tail(batch.roster)]
        BY <1>3, Types DEF Typed, Announce
      <3> QED
        BY <1>1, <2>1, <3>1, NewRoster
    <2>4. mail' = [mail EXCEPT ![h] = v] /\ pc' = pc
      BY <1>3 DEF Announce, Post
    <2> HIDE DEF h, v
    <2>5. BatonOK'
      <3>1. \A t \in Statements : HasBaton(t)' <=> HasBaton(t)
        BY <1>t, <1>1, <2>1, <2>2, <2>4 DEF HasBaton, Leading
      <3> QED
        BY <1>1, <3>1 DEF BatonOK
    <2>6. QueueOK'
      BY <1>t, <1>1, <2>1, <2>2, <2>4 DEF QueueOK
    <2>7. TurnOK'
      BY <1>t, <1>1, <2>1, <2>2, <2>4 DEF TurnOK, HasTurn
    <2>8. RosterOK'
      BY <1>t, <1>1, <2>1, <2>2, <2>3, <2>4 DEF RosterOK, HasTurn, InGate
    <2>9. CallsOK'
      BY <1>t, <1>1, <2>1, <2>2, <2>3, <2>4
      DEF MailOK, GateOK, InGate, BatonOK, HasBaton, Leading
    <2> QED
      BY <2>5, <2>6, <2>7, <2>8, <2>9
  <1> QED
    BY <1>2, <1>3

\* No step breaks the queue.
LEMMA NextQueue ==
    ASSUME QueueInv, [Next]_vars
    PROVE  Queue'
  <1>1. ASSUME NEW s \in Statements, Enqueue(s) \/ Step(s)
        PROVE  Queue'
    BY <1>1, EnqueueQueue, HandoffQueue, TakeGateQueue, RunOwnQueue, AdmitQueue,
       TakenQueue, RunTurnQueue, CloseQueue, AnnounceQueue DEF Step
  <1>2. CASE (\E o \in Others : OtherCommit(o)) \/ Retire \/ UNCHANGED vars
    <2>1. UNCHANGED <<leaderActive, waiting, pc, mail, gate, batch>>
      BY <1>2 DEF OtherCommit, Retire, vars, queue, calls
    <2> QED
      BY <2>1 DEF QueueInv, Queue, BatonOK, QueueOK, TurnOK, RosterOK, CallsOK,
                  HasBaton, HasTurn, MailOK, GateOK, Elems, Distinct
  <1> QED
    BY <1>1, <1>2 DEF Next

-----------------------------------------------------------------------------
(* The data: log, fork and graph.                                          *)

\* The types the arguments about the data use.
LEMMA DataTypes ==
    ASSUME TypeOK
    PROVE  /\ pc \in [Statements -> PCs] /\ gate \in Statements \cup {NoOne}
           /\ NoOne \notin Statements
           /\ graph \in Graph /\ graph.version \in Nat /\ graph.writes \in Logs
           /\ batch \in Batches /\ log \in Logs
           /\ batch.frames \in Seq(Statements) /\ batch.frames \in Logs
           /\ batch.start \in Nat /\ batch.committed \in Nat
           /\ batch.fork \in Graph /\ batch.fork.writes \in Logs
           /\ Len(log) \in Nat /\ Len(graph.writes) \in Nat /\ Len(batch.frames) \in Nat
           /\ (batch.frames = <<>> <=> Len(batch.frames) = 0)
  <1>1. /\ graph \in Graph /\ log \in Logs /\ batch \in Batches
        /\ pc \in [Statements -> PCs] /\ gate \in Statements \cup {NoOne}
    BY Types DEF Typed
  <1>2. graph.version \in Nat /\ graph.writes \in Logs
    BY <1>1 DEF Graph, Logs
  <1>3. batch.frames \in Logs
    BY <1>1, BatchFields, Wider
  <1> QED
    BY <1>1, <1>2, <1>3, BatchFields, LenProperties, EmptySeq, GroupCommitAssumption
    DEF Logs

\* A step that leaves log, graph, gate and the batch's frames alone.
LEMMA DataStands ==
    ASSUME DataInv, gate # NoOne => (pc'[gate] = "publish" <=> pc[gate] = "publish"),
           UNCHANGED <<graph, log, durable, gate>>,
           batch'.frames = batch.frames, batch'.fork = batch.fork,
           batch'.start = batch.start, batch'.committed = batch.committed
    PROVE  DataInv'
  BY DEF DataInv

\* The queue's own steps move no data.
LEMMA QueueData ==
    ASSUME QueueInv, DataInv, NEW s \in Statements,
           \/ Enqueue(s) \/ Wake(s) \/ Handoff(s) \/ Admit(s) \/ AwaitTurn(s)
           \/ Announce(s) \/ TakeVerdict(s)
    PROVE  DataInv'
  <1>t. TypeOK /\ pc \in [Statements -> PCs] /\ gate \in Statements \cup {NoOne}
    BY DataTypes DEF QueueInv
  <1>1. /\ UNCHANGED <<graph, log, durable, gate>>
        /\ \/ pc' = pc
           \/ pc[s] # "publish" /\ \E w \in PCs \ {"publish"} : pc' = [pc EXCEPT ![s] = w]
    BY <1>t DEF Enqueue, Wake, Handoff, Admit, AwaitTurn, Announce, TakeVerdict,
                Goto, disk, PCs, Leading
  <1>2. \/ batch' = batch
        \/ \E q \in Seq(Statements) : batch' = [batch EXCEPT !.roster = q]
    <2>1. CASE Admit(s)
      BY <1>t, <2>1, Fronts DEF Admit
    <2>2. CASE Announce(s)
      BY <1>t, <2>2, Fronts DEF Announce
    <2> QED
      BY <2>1, <2>2 DEF Enqueue, Wake, Handoff, AwaitTurn, TakeVerdict
  <1>3. /\ batch'.frames = batch.frames /\ batch'.fork = batch.fork
        /\ batch'.start = batch.start /\ batch'.committed = batch.committed
    BY <1>t, <1>2, DataTypes, NewRoster
  <1>4. gate # NoOne => (pc'[gate] = "publish" <=> pc[gate] = "publish")
    BY <1>t, <1>1
  <1> QED
    BY <1>1, <1>3, <1>4, DataStands

\* The fork is taken when log and graph are one.
LEMMA TakeGateData ==
    ASSUME QueueInv, DataInv, NEW s \in Statements, TakeGate(s)
    PROVE  DataInv'
  <1>t. /\ pc \in [Statements -> PCs] /\ graph \in Graph /\ log \in Logs
        /\ NoOne \notin Statements /\ Len(graph.writes) \in Nat
    BY DataTypes DEF QueueInv
  <1>1. /\ log = graph.writes /\ durable = Len(log) /\ UNCHANGED <<graph, log, durable>>
        /\ gate = NoOne
    BY DEF TakeGate, DataInv, disk
  <1>2. CASE UNCHANGED gate
    BY <1>1, <1>2 DEF DataInv
  <1>3. CASE /\ pc' = [pc EXCEPT ![s] = "own"] /\ gate' = s
             /\ batch' = [NoBatch EXCEPT !.leader = s, !.fork = graph, !.start = graph.version]
    <2>1. /\ batch'.fork = graph /\ batch'.start = graph.version
          /\ batch'.frames = <<>> /\ batch'.committed = 0
      BY <1>t, <1>3, NewBatch
    <2>2. log = log \o <<>> /\ Len(<<>>) = 0
      BY <1>t, ConcatEmptySeq DEF Logs
    <2>3. pc'[gate'] = "own" /\ gate' # NoOne
      BY <1>t, <1>3
    <2> QED
      BY <1>1, <2>1, <2>2, <2>3 DEF DataInv
  <1> QED
    BY <1>2, <1>3 DEF TakeGate, Goto

\* A frame appended to the log is appended to the batch's.
LEMMA AppendLast ==
    ASSUME NEW g \in Logs, NEW f \in Logs, NEW e \in Statements
    PROVE  Append(g \o f, e) = g \o Append(f, e)
  <1> DEFINE S == Statements \cup Others
  <1>1. g \in Seq(S) /\ f \in Seq(S) /\ e \in S
    BY DEF Logs
  <1> HIDE DEF S
  <1>2. /\ Append(g \o f, e) = (g \o f) \o <<e>>
        /\ Append(f, e) = f \o <<e>>
        /\ <<e>> \in Seq(S)
    BY <1>1, AppendIsConcat, ConcatProperties
  <1> QED
    BY <1>1, <1>2, ConcatAssociative

\* A frame joins the log and the batch's frames, a write the fork.
LEMMA RanData ==
    ASSUME QueueInv, DataInv, NEW s \in Statements, NEW o, Ran(s, o),
           gate # NoOne, pc[gate] # "publish", pc'[gate] # "publish",
           UNCHANGED <<graph, durable, gate>>
    PROVE  DataInv'
  <1>t. /\ batch \in Batches /\ log \in Logs /\ graph.writes \in Logs
        /\ batch.frames \in Logs /\ batch.frames \in Seq(Statements)
        /\ batch.committed \in Nat /\ Len(batch.frames) \in Nat
    BY DataTypes DEF QueueInv
  <1>1. /\ log = graph.writes \o batch.frames /\ batch.fork.writes = log
        /\ batch.start = graph.version /\ Len(batch.frames) <= batch.committed
        /\ durable = Len(graph.writes) /\ graph.version >= Len(graph.writes)
    BY DEF DataInv
  <1>2. batch'.start = batch.start
    BY <1>t, RanEffect
  <1>3. CASE /\ batch'.fork = batch.fork /\ batch'.frames = batch.frames /\ log' = log
             /\ batch'.committed \in {batch.committed, batch.committed + 1}
    <2>1. Len(batch'.frames) <= batch'.committed
      BY <1>t, <1>1, <1>3
    <2> QED
      BY <1>1, <1>2, <1>3, <2>1 DEF DataInv
  <1>4. CASE /\ batch'.committed = batch.committed + 1
             /\ batch'.fork.writes = Append(batch.fork.writes, s)
             /\ batch'.frames = Append(batch.frames, s)
             /\ log' = Append(log, s)
    <2>1. Append(log, s) = graph.writes \o Append(batch.frames, s)
      <3>1. Append(graph.writes \o batch.frames, s) = graph.writes \o Append(batch.frames, s)
        BY <1>t, AppendLast
      <3> QED
        BY <1>1, <3>1
    <2>2. Len(Append(batch.frames, s)) = Len(batch.frames) + 1
      BY <1>t, AppendProperties
    <2>3. Len(batch'.frames) <= batch'.committed
      BY <1>t, <1>1, <1>4, <2>2
    <2>4. log' = graph.writes \o batch'.frames /\ batch'.fork.writes = log'
      BY <1>1, <1>4, <2>1
    <2> QED
      BY <1>1, <1>2, <2>3, <2>4 DEF DataInv
  <1> QED
    BY <1>t, <1>3, <1>4, RanEffect

\* The leader's statement, or a member's: the gate's holder is at neither end
\* of the batch.  A panic of the leader's own leaves no frame.
LEMMA RunData ==
    ASSUME QueueInv, DataInv, NEW s \in Statements, RunOwn(s) \/ RunTurn(s)
    PROVE  DataInv'
  <1>t. /\ pc \in [Statements -> PCs] /\ graph.writes \in Logs /\ log \in Logs
        /\ NoOne \notin Statements
    BY DataTypes DEF QueueInv
  <1> USE DEF QueueInv, Queue, CallsOK
  <1>1. CASE RunTurn(s)
    <2>1. gate \in Statements /\ gate # s /\ pc[gate] = "await"
      BY <1>1 DEF RunTurn, TurnOK, HasTurn, GateOK, InGate
    <2>2. /\ UNCHANGED <<graph, durable, gate>> /\ pc'[gate] = pc[gate]
          /\ \E o \in {"ok", "error", "refused"} : Ran(s, o)
      BY <1>t, <1>1, <2>1 DEF RunTurn, Goto
    <2> QED
      BY <1>t, <2>1, <2>2, RanData
  <1>2. CASE RunOwn(s)
    <2>1. gate = s /\ gate # NoOne /\ pc[s] = "own" /\ batch.frames = <<>>
      BY <1>t, <1>2 DEF RunOwn, GateOK, InGate
    <2>2. CASE gate' = NoOne /\ UNCHANGED log
      <3>1. log = graph.writes
        BY <1>t, <2>1, ConcatEmptySeq DEF DataInv, Logs
      <3>2. UNCHANGED <<graph, durable>>
        BY <1>2 DEF RunOwn
      <3> QED
        BY <2>1, <2>2, <3>1, <3>2 DEF DataInv
    <2>3. CASE /\ pc' = [pc EXCEPT ![s] = "admit"] /\ UNCHANGED gate
               /\ \E o \in {"ok", "error", "refused"} : Ran(s, o)
      <3>1. UNCHANGED <<graph, durable>> /\ pc'[gate] = "admit"
        BY <1>t, <1>2, <2>1, <2>3 DEF RunOwn
      <3> QED
        BY <2>1, <2>3, <3>1, RanData
    <2> QED
      BY <1>2, <2>2, <2>3 DEF RunOwn, Goto
  <1> QED
    BY <1>1, <1>2

\* The barrier covers every frame, or the log is cut back to the graph.
LEMMA FlushData ==
    ASSUME QueueInv, DataInv, NEW s \in Statements, Flush(s)
    PROVE  DataInv'
  <1>t. /\ TypeOK /\ pc \in [Statements -> PCs] /\ graph.writes \in Logs /\ log \in Logs
        /\ batch \in Batches /\ NoOne \notin Statements
        /\ batch.committed \in Nat /\ Len(batch.frames) \in Nat
        /\ (batch.frames = <<>> <=> Len(batch.frames) = 0)
    BY DataTypes DEF QueueInv
  <1>1. /\ gate = s /\ gate # NoOne /\ pc[s] = "flush" /\ graph' = graph
    BY <1>t DEF QueueInv, Queue, CallsOK, Flush, GateOK, InGate
  <1>2. /\ log = graph.writes \o batch.frames /\ batch.fork.writes = log
        /\ batch.start = graph.version /\ Len(batch.frames) <= batch.committed
        /\ durable = Len(graph.writes) /\ graph.version >= Len(graph.writes)
    BY <1>1 DEF DataInv
  <1>3. batch.frames = <<>> => log = graph.writes
    BY <1>t, <1>2, ConcatEmptySeq DEF Logs
  <1>4. CASE /\ durable' = (IF batch.frames = <<>> THEN durable ELSE Len(log))
             /\ pc' = [pc EXCEPT ![s] = "publish"] /\ UNCHANGED <<gate, batch, log>>
    <2>1. durable' = Len(log) /\ pc'[gate'] = "publish" /\ gate' # NoOne
      BY <1>t, <1>1, <1>2, <1>3, <1>4
    <2> QED
      BY <1>1, <1>2, <1>4, <2>1 DEF DataInv
  <1>5. CASE log' = BeforeBatch /\ gate' = NoOne /\ UNCHANGED durable
    BY <1>t, <1>1, <1>2, <1>5, BeforeIsGraph DEF DataInv
  <1>6. CASE batch.committed = 0 /\ gate' = NoOne /\ UNCHANGED <<log, durable>>
    <2>1. batch.frames = <<>>
      BY <1>t, <1>2, <1>6
    <2> QED
      BY <1>1, <1>2, <1>3, <1>6, <2>1 DEF DataInv
  <1> QED
    BY <1>4, <1>5, <1>6 DEF Flush, Goto, disk

\* The fork that is swapped in is what the log holds.
LEMMA PublishData ==
    ASSUME QueueInv, DataInv, NEW s \in Statements, Publish(s)
    PROVE  DataInv'
  <1>t. /\ TypeOK /\ batch.fork \in Graph /\ batch.start \in Nat /\ batch.committed \in Nat
        /\ Len(batch.frames) \in Nat /\ Len(graph.writes) \in Nat /\ NoOne \notin Statements
    BY DataTypes DEF QueueInv
  <1>1. gate = s /\ gate # NoOne /\ pc[s] = "publish" /\ gate' = NoOne
        /\ UNCHANGED <<log, durable>>
    BY <1>t DEF QueueInv, Queue, CallsOK, Publish, GateOK, InGate, disk
  <1>2. Len(log) = Len(graph.writes) + Len(batch.frames)
    BY <1>t, <1>1, BeforeIsGraph
  <1>3. /\ batch.fork.writes = log /\ durable = Len(log)
        /\ batch.start = graph.version /\ Len(batch.frames) <= batch.committed
        /\ graph.version >= Len(graph.writes)
    BY <1>1 DEF DataInv
  <1>4. graph'.writes = batch.fork.writes /\ graph'.version = batch.start + batch.committed
    BY <1>t DEF Publish, Graph
  <1>5. graph'.version >= Len(graph'.writes)
    <2>1. batch.start >= Len(graph.writes) /\ Len(batch.frames) <= batch.committed
      BY <1>3
    <2>2. batch.start + batch.committed >= Len(graph.writes) + Len(batch.frames)
      <3>1. \A a, b, c, d \in Nat : a >= b /\ d <= c => a + c >= b + d
        OBVIOUS
      <3> QED
        BY <1>t, <2>1, <3>1
    <2> QED
      BY <1>2, <1>3, <1>4, <2>2
  <1> QED
    BY <1>1, <1>3, <1>4, <1>5 DEF DataInv

\* No step parts the log from the graph and the frames of the running batch.
LEMMA NextData ==
    ASSUME QueueInv, DataInv, [Next]_vars
    PROVE  DataInv'
  <1>1. ASSUME NEW s \in Statements, Enqueue(s) \/ Step(s)
        PROVE  DataInv'
    BY <1>1, QueueData, TakeGateData, RunData, FlushData, PublishData DEF Step
  <1>2. ASSUME NEW o \in Others, OtherCommit(o)
        PROVE  DataInv'
    <2>1. /\ graph.version \in Nat /\ graph.writes \in Logs /\ Len(graph.writes) \in Nat
      BY DataTypes DEF QueueInv
    <2>2. /\ gate = NoOne /\ log = graph.writes /\ gate' = NoOne
          /\ graph'.version = graph.version + 1 /\ graph'.writes = Append(graph.writes, o)
          /\ log' = Append(log, o) /\ durable' = Len(log')
          /\ graph.version >= Len(graph.writes)
      BY <1>2 DEF OtherCommit, DataInv
    <2>3. Len(Append(graph.writes, o)) = Len(graph.writes) + 1
      BY <2>1, AppendProperties DEF Logs
    <2> QED
      BY <2>1, <2>2, <2>3 DEF DataInv
  <1>3. CASE Retire \/ UNCHANGED vars
    BY <1>3 DEF Retire, vars, calls, disk, DataInv
  <1> QED
    BY <1>1, <1>2, <1>3 DEF Next

-----------------------------------------------------------------------------
(* The outcomes: who is in the log or the graph has succeeded.             *)

\* The types the arguments about outcomes use.
LEMMA OutcomeTypes ==
    ASSUME TypeOK
    PROVE  /\ pc \in [Statements -> PCs] /\ mail \in [Statements -> Msgs]
           /\ result \in [Statements -> Answers]
           /\ gate \in Statements \cup {NoOne} /\ NoOne \notin Statements
           /\ batch \in Batches /\ log \in Logs /\ graph \in Graph
           /\ batch.roster \in Seq(Statements) /\ batch.frames \in Seq(Statements)
           /\ Elems(batch.roster) \subseteq Statements
           /\ Elems(batch.frames) \subseteq Statements
  BY Types, BatchFields, ElemsIn, GroupCommitAssumption DEF Typed

\* A call arrives, wakes, resumes, hands the baton on or takes its verdict.
LEMMA TakenOutcome ==
    ASSUME QueueInv, OutcomeInv, NEW s \in Statements,
           Enqueue(s) \/ Wake(s) \/ AwaitTurn(s) \/ TakeVerdict(s)
    PROVE  OutcomeInv'
  <1>t. /\ pc \in [Statements -> PCs] /\ mail \in [Statements -> Msgs]
        /\ result \in [Statements -> Answers]
        /\ Elems(batch.frames) \subseteq Statements /\ Elems(batch.roster) \subseteq Statements
        /\ gate \in Statements \cup {NoOne} /\ NoOne \notin Statements
    BY OutcomeTypes DEF QueueInv
  <1>1. /\ UNCHANGED <<graph, gate, batch>>
        /\ mail' \in {mail, [mail EXCEPT ![s] = "none"]}
        /\ \/ /\ pc[s] \in {"new", "queued", "await"} /\ UNCHANGED result
              /\ pc' \in {[pc EXCEPT ![s] = w] : w \in {"queued", "lead", "turn", "admit"}}
           \/ /\ pc[s] = "verdict" /\ mail[s] \in {"ok", "refused"}
              /\ result' = [result EXCEPT ![s] = Answer(mail[s], result[s])]
              /\ pc' = [pc EXCEPT ![s] = "done"]
    BY DEF Enqueue, Wake, AwaitTurn, TakeVerdict, Goto, Post, queue
  <1> USE DEF QueueInv, Queue, CallsOK, OutcomeInv
  <1>2. FramesOK'
    BY <1>t, <1>1 DEF FramesOK, GateOK, InGate, RosterOK, Answer
  <1>3. \A t \in Statements : PublishedOK(t)'
    BY <1>t, <1>1 DEF PublishedOK, Answer
  <1> QED
    BY <1>2, <1>3

\* The baton passes: the message is not a verdict.
LEMMA HandoffOutcome ==
    ASSUME QueueInv, OutcomeInv, NEW s \in Statements, Handoff(s)
    PROVE  OutcomeInv'
  <1>t. /\ pc \in [Statements -> PCs] /\ mail \in [Statements -> Msgs]
        /\ waiting \in Seq(Statements)
        /\ Elems(batch.frames) \subseteq Statements /\ Elems(batch.roster) \subseteq Statements
        /\ gate \in Statements \cup {NoOne} /\ NoOne \notin Statements
    BY OutcomeTypes, QueueTypes DEF QueueInv
  <1>1. /\ UNCHANGED <<graph, gate, batch, result>>
        /\ mail' = mail \/ \E h \in Statements : mail' = [mail EXCEPT ![h] = "lead"]
        /\ pc[s] = "handoff" /\ pc' = [pc EXCEPT ![s] = "done"]
    BY <1>t, LeaveQueue DEF Handoff, Goto, Post
  <1> USE DEF QueueInv, Queue, CallsOK, OutcomeInv
  <1>2. FramesOK'
    BY <1>t, <1>1 DEF FramesOK, GateOK, InGate
  <1>3. \A t \in Statements : PublishedOK(t)'
    BY <1>t, <1>1 DEF PublishedOK
  <1> QED
    BY <1>2, <1>3

\* A batch begins, with no other batch's verdict still to give.
LEMMA TakeGateOutcome ==
    ASSUME QueueInv, OutcomeInv, NEW s \in Statements, TakeGate(s)
    PROVE  OutcomeInv'
  <1>t. /\ pc \in [Statements -> PCs] /\ result \in [Statements -> Answers]
        /\ graph \in Graph /\ NoOne \notin Statements
    BY OutcomeTypes DEF QueueInv
  <1>1. pc[s] = "lead" /\ gate = NoOne /\ UNCHANGED <<graph, mail>>
    BY DEF TakeGate
  <1> USE DEF QueueInv, Queue, CallsOK, OutcomeInv
  <1>2. \A t \in Statements : pc[t] # "announce"
    BY <1>1 DEF BatonOK, HasBaton, Leading
  <1>3. CASE /\ pc' = [pc EXCEPT ![s] = "handoff"] /\ UNCHANGED <<gate, batch>>
             /\ \E r \in Answers : result' = [result EXCEPT ![s] = r]
    BY <1>t, <1>1, <1>2, <1>3 DEF FramesOK, PublishedOK
  <1>4. CASE /\ pc' = [pc EXCEPT ![s] = "own"] /\ gate' = s /\ UNCHANGED result
             /\ batch' = [NoBatch EXCEPT !.leader = s, !.fork = graph, !.start = graph.version]
    <2>1. batch'.frames = <<>> /\ batch'.roster = <<>> /\ batch'.verdict = "ok"
      BY <1>t, <1>4, NewBatch
    <2>2. FramesOK'
      BY <2>1, EmptyQueue DEF FramesOK
    <2>3. \A t \in Statements : PublishedOK(t)'
      BY <1>t, <1>1, <1>2, <1>4, <2>1, EmptyQueue DEF PublishedOK
    <2> QED
      BY <2>2, <2>3
  <1> QED
    BY <1>3, <1>4 DEF TakeGate, Goto, Answers

\* A statement that stages a frame succeeds; one that is published runs no more.
LEMMA RanOutcome ==
    ASSUME QueueInv, OutcomeInv, NEW s \in Statements,
           NEW o \in {"ok", "error", "refused"}, Ran(s, o),
           result' = [result EXCEPT ![s] = o],
           NEW w \in {"admit", "verdict", "done"}, pc' = [pc EXCEPT ![s] = w],
           mail' = mail \/ \E l \in Statements : mail' = [mail EXCEPT ![l] = "turnDone"],
           UNCHANGED <<graph, gate>>, gate # NoOne, pc[s] \in {"own", "turn"},
           gate = s \/ (o = "ok" => w = "verdict" /\ s \in Elems(batch.roster))
    PROVE  OutcomeInv'
  <1>t. /\ pc \in [Statements -> PCs] /\ mail \in [Statements -> Msgs]
        /\ result \in [Statements -> Answers]
        /\ batch \in Batches /\ log \in Logs /\ batch.frames \in Seq(Statements)
        /\ Elems(batch.frames) \subseteq Statements /\ Elems(batch.roster) \subseteq Statements
    BY OutcomeTypes DEF QueueInv
  <1>1. /\ batch'.roster = batch.roster /\ batch'.verdict = batch.verdict
        /\ batch'.frames = batch.frames
           \/ (o = "ok" /\ batch'.frames = Append(batch.frames, s))
    BY <1>t, RanEffect
  <1> USE DEF QueueInv, Queue, CallsOK, OutcomeInv
  <1>2. batch'.verdict = "ok" /\ s \notin Elems(batch.frames)
    BY <1>1, EmptyQueue DEF FramesOK, GateOK, InGate
  <1>3. \A t \in Elems(batch'.frames) : t \in Elems(batch.frames) \/ (t = s /\ o = "ok")
    <2>1. Elems(Append(batch.frames, s)) = Elems(batch.frames) \cup {s}
      BY <1>t, JoinQueue
    <2> QED
      BY <1>1, <2>1
  <1>4. FramesOK'
    BY <1>t, <1>1, <1>2, <1>3 DEF FramesOK
  <1>5. \A t \in Statements : PublishedOK(t)'
    BY <1>t, <1>1, <1>2 DEF PublishedOK
  <1> QED
    BY <1>4, <1>5

\* The leader's own statement, and a member's.
LEMMA RunOutcome ==
    ASSUME QueueInv, OutcomeInv, NEW s \in Statements, RunOwn(s) \/ RunTurn(s)
    PROVE  OutcomeInv'
  <1>t. /\ pc \in [Statements -> PCs] /\ result \in [Statements -> Answers]
        /\ NoOne \notin Statements
    BY OutcomeTypes DEF QueueInv
  <1> USE DEF QueueInv, Queue, CallsOK
  <1>1. CASE RunTurn(s)
    <2>1. /\ pc[s] = "turn" /\ s \in Elems(batch.roster) /\ batch.leader \in Statements
          /\ gate = batch.leader
      BY <1>1 DEF RunTurn, TurnOK, HasTurn, GateOK, InGate
    <2>2. PICK o \in {"ok", "error", "refused"} :
            /\ Ran(s, o)
            /\ result' = [result EXCEPT ![s] = o]
            /\ pc' = [pc EXCEPT ![s] = IF o = "ok" THEN "verdict" ELSE "done"]
      BY <1>1 DEF RunTurn, Goto
    <2>3. /\ \E l \in Statements : mail' = [mail EXCEPT ![l] = "turnDone"]
          /\ UNCHANGED <<graph, gate>> /\ gate # NoOne
      BY <1>t, <1>1, <2>1 DEF RunTurn, Post
    <2> DEFINE w == IF o = "ok" THEN "verdict" ELSE "done"
    <2>4. w \in {"admit", "verdict", "done"} /\ (o = "ok" => w = "verdict")
      OBVIOUS
    <2> QED
      BY <2>1, <2>2, <2>3, <2>4, RanOutcome
  <1>2. CASE RunOwn(s)
    <2>1. gate = s /\ gate # NoOne /\ pc[s] = "own" /\ UNCHANGED <<graph, mail>>
      BY <1>t, <1>2 DEF RunOwn, GateOK, InGate
    <2>2. CASE /\ batch' = NoBatch /\ gate' = NoOne
               /\ pc' = [pc EXCEPT ![s] = "handoff"]
               /\ result' = [result EXCEPT ![s] = "error"]
      <3>1. batch'.roster = <<>> /\ batch'.verdict = "ok"
        BY <2>2, BlankBatch
      <3> QED
        BY <1>t, <2>1, <2>2, <3>1, EmptyQueue DEF OutcomeInv, FramesOK, PublishedOK
    <2>3. CASE \E o \in {"ok", "error", "refused"} :
                 /\ Ran(s, o) /\ result' = [result EXCEPT ![s] = o]
                 /\ pc' = [pc EXCEPT ![s] = "admit"] /\ UNCHANGED gate
      BY <2>1, <2>3, RanOutcome
    <2> QED
      BY <1>2, <2>2, <2>3 DEF RunOwn, Goto
  <1> QED
    BY <1>1, <1>2

\* The roster grows by a call that has not run yet.
LEMMA AdmitOutcome ==
    ASSUME QueueInv, OutcomeInv, NEW s \in Statements, Admit(s)
    PROVE  OutcomeInv'
  <1>t. /\ pc \in [Statements -> PCs] /\ mail \in [Statements -> Msgs]
        /\ waiting \in Seq(Statements) /\ batch.roster \in Seq(Statements)
        /\ batch \in Batches /\ TypeOK
        /\ Elems(batch.frames) \subseteq Statements /\ Elems(batch.roster) \subseteq Statements
        /\ gate \in Statements \cup {NoOne} /\ NoOne \notin Statements
    BY OutcomeTypes, QueueTypes DEF QueueInv
  <1> USE DEF QueueInv, Queue, CallsOK, OutcomeInv
  <1>1. pc[s] = "admit" /\ UNCHANGED <<graph, gate, result>> /\ gate = s
    BY DEF Admit, GateOK, InGate
  <1>2. CASE pc' = [pc EXCEPT ![s] = "flush"] /\ UNCHANGED <<mail, batch>>
    BY <1>t, <1>1, <1>2 DEF FramesOK, PublishedOK
  <1>3. CASE /\ waiting # <<>> /\ mail' = [mail EXCEPT ![Head(waiting)] = "turn"]
             /\ batch' = [batch EXCEPT !.roster = Append(batch.roster, Head(waiting))]
             /\ pc' = [pc EXCEPT ![s] = "await"]
    <2> DEFINE h == Head(waiting)
    <2>1. /\ h \in Statements /\ pc[h] = "queued" /\ mail' = [mail EXCEPT ![h] = "turn"]
      BY <1>t, <1>3, LeaveQueue DEF QueueOK
    <2>2. /\ batch'.roster = Append(batch.roster, h)
          /\ batch'.frames = batch.frames /\ batch'.verdict = batch.verdict
      BY <1>t, <1>3, Fronts, NewRoster
    <2>3. Elems(batch'.roster) = Elems(batch.roster) \cup {h}
      BY <1>t, <2>1, <2>2, JoinQueue
    <2> HIDE DEF h
    <2>4. FramesOK'
      BY <1>t, <1>1, <1>3, <2>1, <2>2, <2>3 DEF FramesOK
    <2>5. \A t \in Statements : PublishedOK(t)'
      BY <1>t, <1>1, <1>3, <2>1, <2>2, <2>3 DEF PublishedOK
    <2> QED
      BY <2>4, <2>5
  <1> QED
    BY <1>2, <1>3 DEF Admit, Goto, Post

\* The verdict falls on statements none of which is published.
LEMMA FlushOutcome ==
    ASSUME QueueInv, OutcomeInv, NEW s \in Statements, Flush(s)
    PROVE  OutcomeInv'
  <1>t. /\ pc \in [Statements -> PCs] /\ batch \in Batches
        /\ Elems(batch.frames) \subseteq Statements /\ NoOne \notin Statements
    BY OutcomeTypes DEF QueueInv
  <1> USE DEF QueueInv, Queue, CallsOK, OutcomeInv
  <1>1. /\ pc[s] = "flush" /\ UNCHANGED <<graph, result, mail>>
        /\ gate = s /\ gate # NoOne
    BY <1>t DEF Flush, GateOK, InGate
  <1>2. CASE pc' = [pc EXCEPT ![s] = "publish"] /\ UNCHANGED <<gate, batch>>
    BY <1>t, <1>1, <1>2 DEF FramesOK, PublishedOK
  <1>3. CASE gate' = NoOne /\ pc' = [pc EXCEPT ![s] = "announce"]
    <2>1. batch'.roster = batch.roster
      <3>1. CASE batch' = batch
        BY <3>1
      <3>2. CASE batch' = [batch EXCEPT !.verdict = "refused"]
        BY <1>t, <3>2 DEF Batches
      <3> QED
        BY <3>1, <3>2 DEF Flush
    <2> QED
      BY <1>t, <1>1, <1>3, <2>1 DEF FramesOK, PublishedOK
  <1> QED
    BY <1>2, <1>3 DEF Flush, Goto

\* What is published are the frames, whose statements have succeeded.
LEMMA PublishOutcome ==
    ASSUME QueueInv, DataInv, OutcomeInv, NEW s \in Statements, Publish(s)
    PROVE  OutcomeInv'
  <1>t. /\ pc \in [Statements -> PCs] /\ batch \in Batches
        /\ Elems(batch.frames) \subseteq Statements /\ NoOne \notin Statements
        /\ graph.writes \in Logs /\ batch.frames \in Logs /\ batch.fork \in Graph
    BY OutcomeTypes, DataTypes DEF QueueInv
  <1> USE DEF QueueInv, Queue, CallsOK, OutcomeInv
  <1>1. /\ pc[s] = "publish" /\ UNCHANGED <<batch, result, mail>>
        /\ gate = s /\ gate # NoOne /\ gate' = NoOne
        /\ pc' = [pc EXCEPT ![s] = "announce"]
    BY <1>t DEF Publish, GateOK, InGate, Goto
  <1>2. graph'.writes = graph.writes \o batch.frames
    <2>1. graph'.writes = batch.fork.writes
      BY <1>t DEF Publish, Graph
    <2> QED
      BY <1>1, <2>1 DEF DataInv
  <1>3. Elems(graph'.writes) = Elems(graph.writes) \cup Elems(batch.frames)
    BY <1>t, <1>2, JoinedElems
  <1>4. FramesOK'
    BY <1>1 DEF FramesOK
  <1>5. \A t \in Statements : PublishedOK(t)'
    BY <1>t, <1>1, <1>3 DEF PublishedOK, FramesOK, RosterOK, MailOK
  <1> QED
    BY <1>4, <1>5

\* A published member is told ok, and a published leader's answer stays ok.
LEMMA AnnounceOutcome ==
    ASSUME QueueInv, OutcomeInv, NEW s \in Statements, Announce(s)
    PROVE  OutcomeInv'
  <1>t. /\ pc \in [Statements -> PCs] /\ mail \in [Statements -> Msgs]
        /\ result \in [Statements -> Answers]
        /\ batch.roster \in Seq(Statements) /\ batch \in Batches
        /\ Elems(batch.roster) \subseteq Statements
        /\ gate \in Statements \cup {NoOne} /\ NoOne \notin Statements
    BY OutcomeTypes DEF QueueInv
  <1> USE DEF QueueInv, Queue, CallsOK, OutcomeInv
  <1>1. pc[s] = "announce" /\ UNCHANGED <<graph, gate>>
    BY DEF Announce
  <1>2. gate = NoOne
    BY <1>t, <1>1 DEF GateOK, InGate, BatonOK, HasBaton, Leading
  <1>3. FramesOK'
    BY <1>1, <1>2 DEF FramesOK
  <1>4. CASE batch.roster = <<>>
    <2>1. /\ pc' = [pc EXCEPT ![s] = "handoff"] /\ UNCHANGED <<mail, batch>>
          /\ result' = [result EXCEPT ![s] = Answer(batch.verdict, result[s])]
      BY <1>4 DEF Announce, Goto
    <2>2. \A t \in Statements : PublishedOK(t)'
      BY <1>t, <1>1, <1>2, <2>1 DEF PublishedOK, Answer
    <2> QED
      BY <1>3, <2>2
  <1>5. CASE batch.roster # <<>>
    <2> DEFINE h == Head(batch.roster)
    <2>1. /\ h \in Elems(batch.roster) /\ h \in Statements
          /\ Elems(batch.roster) = Elems(Tail(batch.roster)) \cup {h}
          /\ Tail(batch.roster) \in Seq(Statements)
      BY <1>t, <1>5, LeaveQueue
    <2>2. /\ mail' = [mail EXCEPT ![h] = batch.verdict] /\ UNCHANGED <<pc, result>>
          /\ batch' = [batch EXCEPT !.roster = Tail(batch.roster)]
      BY <1>5 DEF Announce, Post
    <2>3. batch'.roster = Tail(batch.roster) /\ batch'.verdict = batch.verdict
      BY <1>t, <2>1, <2>2, NewRoster
    <2>4. mail' = [mail EXCEPT ![h] = batch.verdict] /\ UNCHANGED <<pc, result>>
      BY <2>2
    <2> HIDE DEF h
    <2>5. \A t \in Statements : PublishedOK(t)'
      BY <1>t, <1>1, <1>2, <2>1, <2>3, <2>4 DEF PublishedOK
    <2> QED
      BY <1>3, <2>5
  <1> QED
    BY <1>4, <1>5

\* No step publishes a failure, or fails what is published.
LEMMA NextOutcome ==
    ASSUME QueueInv, DataInv, OutcomeInv, [Next]_vars
    PROVE  OutcomeInv'
  <1>1. ASSUME NEW s \in Statements, Enqueue(s) \/ Step(s)
        PROVE  OutcomeInv'
    BY <1>1, TakenOutcome, HandoffOutcome, TakeGateOutcome, RunOutcome, AdmitOutcome,
       FlushOutcome, PublishOutcome, AnnounceOutcome DEF Step
  <1>2. ASSUME NEW o \in Others, OtherCommit(o)
        PROVE  OutcomeInv'
    <2>1. /\ UNCHANGED <<pc, mail, result, gate, batch>>
          /\ graph'.writes = Append(graph.writes, o)
      BY <1>2 DEF OtherCommit, calls
    <2>2. Elems(graph'.writes) = Elems(graph.writes) \cup {o} /\ o \notin Statements
      BY <2>1, DataTypes, JoinQueue, GroupCommitAssumption DEF QueueInv, Logs
    <2> QED
      BY <2>1, <2>2 DEF OutcomeInv, FramesOK, PublishedOK
  <1>3. CASE Retire \/ UNCHANGED vars
    BY <1>3 DEF Retire, vars, calls, OutcomeInv, FramesOK, PublishedOK
  <1> QED
    BY <1>1, <1>2, <1>3 DEF Next

-----------------------------------------------------------------------------
(* The theorems.                                                           *)

\* A session that starts has no writers, no batch and an empty log.
LEMMA InitGroup == Init => QueueInv /\ DataInv /\ OutcomeInv
  <1> SUFFICES ASSUME Init PROVE QueueInv /\ DataInv /\ OutcomeInv
    OBVIOUS
  <1>1. TypeOK
    <2>1. Typed
      BY BlankBatch, EmptySeq DEF Init, Typed, PCs, Msgs, Answers, Graph, Logs
    <2> QED
      BY <2>1, Types DEF Init, Flags
  <1>2. Queue
    BY BlankBatch, EmptyQueue, GroupCommitAssumption
    DEF Init, Queue, BatonOK, HasBaton, Leading, QueueOK, TurnOK, HasTurn, RosterOK,
        CallsOK, MailOK, GateOK, InGate
  <1>3. DataInv /\ OutcomeInv
    BY EmptyQueue, EmptySeq DEF Init, DataInv, OutcomeInv, FramesOK, PublishedOK
  <1> QED
    BY <1>1, <1>2, <1>3 DEF QueueInv

\* The inductive invariant.
THEOREM GroupInvariant == Spec => [](QueueInv /\ DataInv /\ OutcomeInv)
  <1>1. QueueInv /\ DataInv /\ OutcomeInv /\ [Next]_vars =>
          (QueueInv /\ DataInv /\ OutcomeInv)'
    BY NextTypes, NextQueue, NextData, NextOutcome DEF QueueInv
  <1> QED
    BY InitGroup, <1>1, PTL DEF Spec

\* The variables of group_commit.rs and the batch keep their types.
THEOREM GroupTypes == Spec => []TypeOK
  BY GroupInvariant, PTL DEF QueueInv

\* The baton is never lost and never doubled: leader_active is true exactly when
\* one call leads or has been told to.
THEOREM BatonIsSingle == Spec => []OneBaton
  <1>1. QueueInv => OneBaton
    BY BatonDef DEF QueueInv, Queue
  <1> QED
    BY <1>1, GroupInvariant, PTL

\* Between batches the log holds the published writes and nothing else, and the
\* version has moved for each of them: flush_group cut back what it had to.
THEOREM LogIsTheGraph == Spec => []LogIsGraph
  <1>1. DataInv => LogIsGraph
    BY DEF DataInv, LogIsGraph
  <1> QED
    BY <1>1, GroupInvariant, PTL

\* No reader sees a statement before its batch's barrier: the published graph
\* is a durable prefix of the log.
THEOREM PublishedAreDurable == Spec => []PublishedIsDurable
  <1>1. QueueInv /\ DataInv => PublishedIsDurable
    <2> SUFFICES ASSUME QueueInv, DataInv PROVE PublishedIsDurable
      OBVIOUS
    <2>t. /\ TypeOK /\ graph.writes \in Logs /\ Len(graph.writes) \in Nat
          /\ Len(batch.frames) \in Nat
      BY DataTypes DEF QueueInv
    <2>1. CASE gate = NoOne
      <3>1. log = graph.writes /\ durable = Len(log)
        BY <2>1 DEF DataInv
      <3>2. graph.writes = SubSeq(graph.writes, 1, Len(graph.writes))
        BY <2>t, SubSeqFull DEF Logs
      <3> QED
        BY <2>t, <3>1, <3>2 DEF PublishedIsDurable
    <2>2. CASE gate # NoOne
      <3>1. /\ graph.writes = SubSeq(log, 1, Len(graph.writes))
            /\ Len(log) = Len(graph.writes) + Len(batch.frames)
        BY <2>t, <2>2, BeforeIsGraph
      <3>2. durable = Len(log) \/ durable = Len(graph.writes)
        BY <2>2 DEF DataInv
      <3>3. Len(graph.writes) <= durable
        <4>1. \A a, b \in Nat : a <= a /\ a <= a + b
          OBVIOUS
        <4> QED
          BY <2>t, <3>1, <3>2, <4>1
      <3> QED
        BY <3>1, <3>3 DEF PublishedIsDurable
    <2> QED
      BY <2>1, <2>2
  <1> QED
    BY <1>1, GroupInvariant, PTL

\* A statement told that it failed, by its own error, by a refused append or by
\* the batch's failed barrier, is in neither graph nor log.
THEOREM FailuresAreNowhere == Spec => []FailedIsNowhere
  <1>1. QueueInv /\ DataInv /\ OutcomeInv => FailedIsNowhere
    <2> SUFFICES ASSUME QueueInv, DataInv, OutcomeInv,
                        NEW s \in Statements, pc[s] = "done", result[s] # "ok"
                 PROVE  s \notin Elems(graph.writes) \cup Elems(log)
      BY DEF FailedIsNowhere
    <2>1. s \notin Elems(graph.writes)
      BY DEF OutcomeInv, PublishedOK
    <2>2. s \notin Elems(log)
      <3>1. CASE gate = NoOne
        BY <2>1, <3>1 DEF DataInv
      <3>2. CASE gate # NoOne
        <4>1. s \notin Elems(batch.frames)
          BY <3>2 DEF OutcomeInv, FramesOK
        <4>2. /\ graph.writes \in Logs /\ batch.frames \in Logs
              /\ log = graph.writes \o batch.frames
          BY <3>2, DataTypes DEF QueueInv, DataInv
        <4> QED
          BY <2>1, <4>1, <4>2, JoinedElems
      <3> QED
        BY <3>1, <3>2
    <2> QED
      BY <2>1, <2>2
  <1> QED
    BY <1>1, GroupInvariant, PTL

-----------------------------------------------------------------------------
(* How long a writer waits: the position of a call in the FIFO, against the   *)
(* members the batches to come still have room for.                           *)

\* Members that the batch the baton is about, run by s, may still take.
Still(s) ==
    IF pc[s] = "handoff" THEN MaxBatch
    ELSE IF pc[s] \in {"flush", "publish", "announce"} THEN 0
    ELSE IF pc[s] \in {"own", "admit", "await"} THEN MaxBatch - 1 - Len(batch.roster)
    ELSE MaxBatch - 1

\* Places in the batches that a call which has waited for w of them may still see
\* end before it must be in one.
Slack(B, w) == (B - 1 - w) * MaxBatch

\* A call owed an answer is where the next message for it will come from.
Placed ==
    /\ waiting # <<>> => leaderActive
    /\ \A s \in Statements :
         /\ pc[s] = "queued" /\ mail[s] = "none" => s \in Elems(waiting)
         /\ pc[s] = "verdict" /\ mail[s] = "none" => s \in Elems(batch.roster)

\* No call has waited for more than B batches, and one that arrives for none.
Elapsed(B) == \A s \in Statements : waited[s] <= B /\ (pc[s] = "new" => waited[s] = 0)

\* Who has the baton may still see a batch end, and so may the i-th in the FIFO.
Patient(B, s) ==
    /\ Still(s) >= 0
    /\ pc[s] # "handoff" => waited[s] < B
    /\ \A i \in 1 .. Len(waiting) : i <= Still(s) + Slack(B, waited[waiting[i]])
Patience(B) == \A s \in Statements : HasBaton(s) => Patient(B, s)

WaitInv(B) == Placed /\ Elapsed(B) /\ Patience(B)

\* Places go by batches: one fewer to wait for is MaxBatch places fewer.
LEMMA Places ==
    ASSUME NEW M \in Nat \ {0}, NEW k \in Int
    PROVE  /\ k * M \in Int
           /\ (k - 1) * M = k * M - M
           /\ k <= 0 => k * M <= 0
  BY SMT

\* Calls that are all different fill a queue no longer than they are many.
LEMMA QueueLength ==
    ASSUME NEW S, IsFiniteSet(S), NEW T, NEW q \in Seq(T), Distinct(q), Elems(q) \subseteq S
    PROVE  Len(q) \in Nat /\ Len(q) <= Cardinality(S)
  <1>1. Len(q) \in Nat /\ DOMAIN q = 1 .. Len(q) /\ q \in [1 .. Len(q) -> S]
    BY LenProperties DEF Elems
  <1>2. q \in Injection(1 .. Len(q), S)
    BY <1>1 DEF Injection, Distinct, IsInjective
  <1>3. Cardinality(1 .. Len(q)) <= Cardinality(S)
    BY <1>2, FS_Injection
  <1>4. Cardinality(1 .. Len(q)) = Len(q)
    BY <1>1, FS_Interval
  <1> QED
    BY <1>1, <1>3, <1>4

\* The types the arguments about waiting use.
LEMMA WaitTypes ==
    ASSUME TypeOK, NEW B \in Nat \ {0}
    PROVE  /\ pc \in [Statements -> PCs] /\ mail \in [Statements -> Msgs]
           /\ waited \in [Statements -> Nat] /\ MaxBatch \in Nat \ {0}
           /\ waiting \in Seq(Statements) /\ Len(waiting) \in Nat
           /\ DOMAIN waiting = 1 .. Len(waiting)
           /\ \A i \in 1 .. Len(waiting) : waiting[i] \in Statements
           /\ batch.roster \in Seq(Statements) /\ Len(batch.roster) \in Nat
           /\ \A s \in Statements : Still(s) \in Int
           /\ \A w \in Nat : Slack(B, w) \in Int
  <1>1. /\ pc \in [Statements -> PCs] /\ mail \in [Statements -> Msgs]
        /\ waited \in [Statements -> Nat] /\ MaxBatch \in Nat \ {0}
        /\ waiting \in Seq(Statements) /\ batch.roster \in Seq(Statements)
    BY QueueTypes, GroupCommitAssumption DEF TypeOK
  <1>2. /\ Len(waiting) \in Nat /\ DOMAIN waiting = 1 .. Len(waiting)
        /\ \A i \in 1 .. Len(waiting) : waiting[i] \in Statements
        /\ Len(batch.roster) \in Nat
    BY <1>1, LenProperties, ElementOfSeq
  <1>3. \A s \in Statements : Still(s) \in Int
    BY <1>1, <1>2 DEF Still
  <1>4. ASSUME NEW w \in Nat
        PROVE  Slack(B, w) \in Int
    <2>1. B - 1 - w \in Int
      OBVIOUS
    <2> QED
      BY <1>1, <2>1, Places DEF Slack
  <1> QED
    BY <1>1, <1>2, <1>3, <1>4

\* What each kind of step does to the FIFO, the roster and the calls in them.
LEMMA RosterSteps ==
    ASSUME QueueInv, NEW s \in Statements, Step(s)
    PROVE  /\ Wake(s) \/ AwaitTurn(s) \/ RunTurn(s) \/ Flush(s) \/ Publish(s)
                \/ TakeVerdict(s) \/ Handoff(s) => batch'.roster = batch.roster
           /\ TakeGate(s) => \/ batch'.roster = batch.roster /\ pc'[s] = "handoff"
                             \/ batch'.roster = <<>> /\ pc'[s] = "own"
           /\ RunOwn(s) => /\ batch.roster = <<>> /\ batch'.roster = <<>>
                           /\ pc'[s] \in {"admit", "handoff"}
           /\ Admit(s) => \/ /\ RoomInBatch /\ waiting # <<>> /\ pc'[s] = "await"
                             /\ batch'.roster = Append(batch.roster, Head(waiting))
                          \/ /\ ~RoomInBatch \/ waiting = <<>>
                             /\ pc'[s] = "flush" /\ waiting' = waiting
                             /\ batch'.roster = batch.roster
           /\ Announce(s) => \/ /\ batch.roster # <<>> /\ pc' = pc
                                /\ batch'.roster = Tail(batch.roster)
                             \/ /\ batch.roster = <<>> /\ batch'.roster = <<>>
                                /\ pc'[s] = "handoff"
  <1>t. /\ pc \in [Statements -> PCs] /\ batch \in Batches /\ log \in Logs
        /\ graph \in Graph /\ waiting \in Seq(Statements)
        /\ batch.roster \in Seq(Statements)
    BY Types, BatchFields DEF QueueInv, Typed
  <1>1. CASE Wake(s) \/ AwaitTurn(s) \/ TakeVerdict(s) \/ Handoff(s) \/ Publish(s)
    BY <1>1, <1>t DEF Wake, AwaitTurn, TakeVerdict, Handoff, Publish, Goto,
                      TakeGate, RunOwn, Admit, Announce
  <1>2. CASE RunTurn(s)
    <2>1. \E o \in {"ok", "error", "refused"} : Ran(s, o)
      BY <1>2 DEF RunTurn
    <2> QED
      BY <1>2, <1>t, <2>1, RanEffect DEF RunTurn, TakeGate, RunOwn, Admit, Announce
  <1>3. CASE Flush(s)
    <2>1. CASE batch' = batch
      BY <1>3, <2>1 DEF Flush, TakeGate, RunOwn, Admit, Announce
    <2>2. CASE batch' = [batch EXCEPT !.verdict = "refused"]
      <3>1. batch'.roster = batch.roster
        BY <1>t, <2>2 DEF Batches
      <3> QED
        BY <1>3, <3>1 DEF Flush, TakeGate, RunOwn, Admit, Announce
    <2> QED
      BY <1>3, <2>1, <2>2 DEF Flush
  <1>4. CASE TakeGate(s)
    <2>1. CASE pc' = [pc EXCEPT ![s] = "handoff"] /\ batch' = batch
      BY <1>4, <1>t, <2>1 DEF TakeGate, Wake, AwaitTurn, RunTurn, Flush, Publish,
                              TakeVerdict, Handoff, RunOwn, Admit, Announce
    <2>2. CASE /\ pc' = [pc EXCEPT ![s] = "own"]
               /\ batch' = [NoBatch EXCEPT !.leader = s, !.fork = graph,
                                           !.start = graph.version]
      <3>1. batch'.roster = <<>>
        BY <1>t, <2>2, NewBatch
      <3> QED
        BY <1>4, <1>t, <2>2, <3>1 DEF TakeGate, Wake, AwaitTurn, RunTurn, Flush, Publish,
                              TakeVerdict, Handoff, RunOwn, Admit, Announce
    <2> QED
      BY <1>4, <2>1, <2>2 DEF TakeGate, Goto
  <1>5. CASE RunOwn(s)
    <2>1. pc[s] = "own" /\ batch.roster = <<>>
      BY <1>5 DEF RunOwn, QueueInv, Queue, CallsOK, GateOK
    <2>2. batch'.roster = <<>> /\ pc'[s] \in {"admit", "handoff"}
      <3>1. CASE batch' = NoBatch /\ pc' = [pc EXCEPT ![s] = "handoff"]
        BY <1>t, <3>1, BlankBatch
      <3>2. CASE /\ \E o \in {"ok", "error", "refused"} : Ran(s, o)
                 /\ pc' = [pc EXCEPT ![s] = "admit"]
        BY <1>t, <2>1, <3>2, RanEffect
      <3> QED
        BY <1>5, <3>1, <3>2 DEF RunOwn, Goto
    <2> QED
      BY <2>1, <2>2, <1>5 DEF Wake, AwaitTurn, RunTurn, Flush, Publish,
                              TakeVerdict, Handoff, TakeGate, Admit, Announce
  <1>6. CASE Admit(s)
    <2>1. pc[s] = "admit"
      BY <1>6 DEF Admit
    <2>2. CASE RoomInBatch /\ waiting # <<>>
      <3>1. /\ pc' = [pc EXCEPT ![s] = "await"]
            /\ batch' = [batch EXCEPT !.roster = Append(batch.roster, Head(waiting))]
        BY <1>6, <2>2 DEF Admit, Goto
      <3>2. Append(batch.roster, Head(waiting)) \in Seq(Statements)
        BY <1>t, <2>2, LeaveQueue, JoinQueue
      <3>3. batch'.roster = Append(batch.roster, Head(waiting))
        BY <1>t, <3>1, <3>2, NewRoster
      <3> QED
        BY <1>t, <2>1, <2>2, <3>1, <3>3 DEF Wake, AwaitTurn, RunTurn, Flush, Publish,
                              TakeVerdict, Handoff, TakeGate, RunOwn, Announce
    <2>3. CASE ~(RoomInBatch /\ waiting # <<>>)
      <3>1. pc' = [pc EXCEPT ![s] = "flush"] /\ UNCHANGED <<waiting, batch>>
        BY <1>6, <2>3 DEF Admit, Goto
      <3> QED
        BY <1>t, <2>1, <2>3, <3>1 DEF Wake, AwaitTurn, RunTurn, Flush, Publish,
                              TakeVerdict, Handoff, TakeGate, RunOwn, Announce
    <2> QED
      BY <2>2, <2>3
  <1>7. CASE Announce(s)
    <2>1. pc[s] = "announce"
      BY <1>7 DEF Announce
    <2>2. CASE batch.roster # <<>>
      <3>1. /\ UNCHANGED pc /\ batch' = [batch EXCEPT !.roster = Tail(batch.roster)]
        BY <1>7, <2>2 DEF Announce
      <3>2. batch'.roster = Tail(batch.roster)
        BY <1>t, <2>2, <3>1, LeaveQueue, NewRoster
      <3> QED
        BY <1>t, <2>1, <2>2, <3>1, <3>2 DEF Wake, AwaitTurn, RunTurn, Flush, Publish,
                              TakeVerdict, Handoff, TakeGate, RunOwn, Admit
    <2>3. CASE batch.roster = <<>>
      <3>1. pc' = [pc EXCEPT ![s] = "handoff"] /\ UNCHANGED batch
        BY <1>7, <2>3 DEF Announce, Goto
      <3> QED
        BY <1>t, <2>1, <2>3, <3>1 DEF Wake, AwaitTurn, RunTurn, Flush, Publish,
                              TakeVerdict, Handoff, TakeGate, RunOwn, Admit
    <2> QED
      BY <2>2, <2>3
  <1> QED
    BY <1>1, <1>2, <1>3, <1>4, <1>5, <1>6, <1>7 DEF Step

\* A parked call stays in the FIFO until it is posted to, a member in the roster.
LEMMA NextPlaced ==
    ASSUME QueueInv, Placed, [Next]_vars
    PROVE  Placed'
  <1>t. /\ pc \in [Statements -> PCs] /\ mail \in [Statements -> Msgs]
        /\ waiting \in Seq(Statements) /\ batch.roster \in Seq(Statements)
    BY QueueTypes DEF QueueInv
  <1>w. waiting # <<>> =>
          /\ Head(waiting) \in Statements /\ Elems(waiting) = Elems(Tail(waiting)) \cup {Head(waiting)}
    BY <1>t, LeaveQueue
  <1>1. ASSUME NEW s \in Statements, Enqueue(s)
        PROVE  Placed'
    <2>1. CASE leaderActive
      <3>1. /\ waiting' = Append(waiting, s) /\ pc' = [pc EXCEPT ![s] = "queued"]
            /\ UNCHANGED <<leaderActive, mail, batch>>
        BY <1>1, <2>1 DEF Enqueue, Goto
      <3>2. Elems(waiting') = Elems(waiting) \cup {s}
        BY <1>t, <3>1, JoinQueue
      <3> QED
        BY <1>t, <2>1, <3>1, <3>2 DEF Placed
    <2>2. CASE ~leaderActive
      <3>1. /\ pc' = [pc EXCEPT ![s] = "lead"] /\ leaderActive'
            /\ UNCHANGED <<waiting, mail, batch>>
        BY <1>1, <2>2 DEF Enqueue, Goto
      <3> QED
        BY <1>t, <3>1 DEF Placed
    <2> QED
      BY <2>1, <2>2
  <1>2. ASSUME NEW s \in Statements, Wake(s) \/ AwaitTurn(s) \/ TakeVerdict(s)
        PROVE  Placed'
    <2>1. /\ mail' = [mail EXCEPT ![s] = "none"] /\ UNCHANGED <<leaderActive, waiting, batch>>
          /\ \E p \in {"lead", "turn", "admit", "done"} : pc' = [pc EXCEPT ![s] = p]
      BY <1>2 DEF Wake, AwaitTurn, TakeVerdict, Goto, Post, queue
    <2> QED
      BY <1>t, <2>1 DEF Placed
  <1>3. ASSUME NEW s \in Statements, RunTurn(s)
        PROVE  Placed'
    <2>1. batch'.roster = batch.roster
      BY <1>3, RosterSteps DEF Step
    <2>2. /\ UNCHANGED <<leaderActive, waiting>> /\ s \in Elems(batch.roster)
          /\ mail' = [mail EXCEPT ![batch.leader] = "turnDone"]
          /\ \A t \in Statements \ {s} : pc'[t] = pc[t]
          /\ pc'[s] \in {"verdict", "done"}
      BY <1>3, <1>t DEF RunTurn, Goto, Post, queue, QueueInv, Queue, TurnOK, HasTurn
    <2> QED
      BY <1>t, <2>1, <2>2 DEF Placed
  <1>4. ASSUME NEW s \in Statements, TakeGate(s) \/ RunOwn(s)
        PROVE  Placed'
    <2>1. /\ UNCHANGED <<leaderActive, waiting, mail>>
          /\ \E p \in {"handoff", "own", "admit"} : pc' = [pc EXCEPT ![s] = p]
          /\ pc[s] \in {"lead", "own"}
      BY <1>4 DEF TakeGate, RunOwn, Goto, queue
    <2>2. batch'.roster = batch.roster \/ batch.roster = <<>> \/ pc[s] = "lead"
      BY <1>4, RosterSteps DEF Step, TakeGate
    <2>3. pc[s] = "lead" =>
            \A t \in Statements : pc[t] = "verdict" => mail[t] # "none"
      <3> SUFFICES ASSUME pc[s] = "lead", NEW t \in Elems(batch.roster) PROVE FALSE
        BY DEF Placed
      <3>1. /\ batch.leader \in Statements
            /\ pc[batch.leader] \in InGate \cup {"announce"}
        BY DEF QueueInv, Queue, RosterOK
      <3>2. batch.leader = s
        BY <3>1 DEF QueueInv, Queue, BatonOK, HasBaton, Leading, InGate
      <3> QED
        BY <3>1, <3>2 DEF InGate
    <2>4. batch.roster = <<>> => \A t \in Statements : pc[t] = "verdict" => mail[t] # "none"
      BY EmptyQueue DEF Placed
    <2> QED
      BY <1>t, <2>1, <2>2, <2>3, <2>4 DEF Placed
  <1>5. ASSUME NEW s \in Statements, Admit(s)
        PROVE  Placed'
    <2>1. CASE RoomInBatch /\ waiting # <<>>
      <3>1. /\ waiting' = Tail(waiting) /\ mail' = [mail EXCEPT ![Head(waiting)] = "turn"]
            /\ pc' = [pc EXCEPT ![s] = "await"] /\ leaderActive' = leaderActive
        BY <1>5, <2>1 DEF Admit, Goto, Post
      <3>2. batch'.roster = Append(batch.roster, Head(waiting))
        BY <1>5, <2>1, RosterSteps DEF Step
      <3>3. Elems(batch'.roster) = Elems(batch.roster) \cup {Head(waiting)}
        BY <1>t, <1>w, <2>1, <3>2, JoinQueue
      <3> QED
        BY <1>t, <1>w, <2>1, <3>1, <3>3 DEF Placed
    <2>2. CASE ~(RoomInBatch /\ waiting # <<>>)
      <3>1. /\ UNCHANGED <<leaderActive, waiting, mail, batch>>
            /\ pc' = [pc EXCEPT ![s] = "flush"]
        BY <1>5, <2>2 DEF Admit, Goto
      <3> QED
        BY <1>t, <3>1 DEF Placed
    <2> QED
      BY <2>1, <2>2
  <1>6. ASSUME NEW s \in Statements, Handoff(s)
        PROVE  Placed'
    <2>1. pc' = [pc EXCEPT ![s] = "done"] /\ UNCHANGED batch
      BY <1>6 DEF Handoff, Goto
    <2>2. CASE waiting = <<>> /\ UNCHANGED <<waiting, mail>>
      BY <1>t, <2>1, <2>2 DEF Placed
    <2>3. CASE /\ waiting # <<>> /\ waiting' = Tail(waiting) /\ UNCHANGED leaderActive
               /\ mail' = [mail EXCEPT ![Head(waiting)] = "lead"]
      BY <1>t, <1>w, <2>1, <2>3 DEF Placed
    <2> QED
      BY <1>6, <2>2, <2>3 DEF Handoff, Post
  <1>7. ASSUME NEW s \in Statements, Flush(s) \/ Publish(s)
        PROVE  Placed'
    <2>1. /\ UNCHANGED <<leaderActive, waiting, mail>>
          /\ \E p \in {"publish", "announce"} : pc' = [pc EXCEPT ![s] = p]
      BY <1>7 DEF Flush, Publish, Goto, queue
    <2>2. batch'.roster = batch.roster
      BY <1>7, RosterSteps DEF Step
    <2> QED
      BY <1>t, <2>1, <2>2 DEF Placed
  <1>8. ASSUME NEW s \in Statements, Announce(s)
        PROVE  Placed'
    <2>1. CASE batch.roster = <<>>
      <3>1. /\ UNCHANGED <<leaderActive, waiting, mail, batch>>
            /\ pc' = [pc EXCEPT ![s] = "handoff"]
        BY <1>8, <2>1 DEF Announce, Goto, queue
      <3> QED
        BY <1>t, <3>1 DEF Placed
    <2>2. CASE batch.roster # <<>>
      <3> DEFINE h == Head(batch.roster)
                 v == batch.verdict
      <3>1. /\ UNCHANGED <<leaderActive, waiting, pc>> /\ pc[s] = "announce"
            /\ mail' = [mail EXCEPT ![h] = v]
        BY <1>8, <2>2 DEF Announce, Post, queue
      <3>2. batch'.roster = Tail(batch.roster)
        BY <1>8, <2>2, <3>1, RosterSteps DEF Step
      <3>3. /\ h \in Statements /\ Elems(batch.roster) = Elems(Tail(batch.roster)) \cup {h}
        BY <1>t, <2>2, LeaveQueue
      <3>4. v # "none"
        BY Types, BatchFields DEF QueueInv, Typed
      <3> HIDE DEF h, v
      <3> QED
        BY <1>t, <3>1, <3>2, <3>3, <3>4 DEF Placed
    <2> QED
      BY <2>1, <2>2
  <1>9. CASE (\E o \in Others : OtherCommit(o)) \/ Retire \/ UNCHANGED vars
    <2>1. UNCHANGED <<leaderActive, waiting, pc, mail, batch>>
      BY <1>9 DEF OtherCommit, Retire, vars, queue, calls
    <2> QED
      BY <2>1 DEF Placed, Elems
  <1> QED
    BY <1>1, <1>2, <1>3, <1>4, <1>5, <1>6, <1>7, <1>8, <1>9 DEF Next, Step

\* When a batch's verdict is out, the calls owed an answer are its leader and
\* the FIFO.
LEMMA OwedAtEnd ==
    ASSUME QueueInv, Placed, NEW s \in Statements, pc[s] = "announce", batch.roster = <<>>
    PROVE  Owed \subseteq {s} \cup Elems(waiting)
  <1>t. /\ pc \in [Statements -> PCs] /\ mail \in [Statements -> Msgs]
    BY QueueTypes DEF QueueInv
  <1>1. \A t \in Statements : ~HasTurn(t)
    BY EmptyQueue DEF QueueInv, Queue, TurnOK
  <1>2. \A t \in Statements : HasBaton(t) => t = s
    BY DEF QueueInv, Queue, BatonOK, HasBaton, Leading
  <1>3. \A t \in Statements : mail[t] = "none" \/ mail[t] \in {"ok", "refused"}
                               \/ HasTurn(t) \/ t = s
    BY <1>t, <1>2 DEF QueueInv, Queue, CallsOK, MailOK, Msgs, HasBaton, HasTurn, Leading
  <1> QED
    BY <1>t, <1>1, <1>2, <1>3, EmptyQueue DEF Owed, Placed, PCs, HasBaton, HasTurn

\* Only the end of a batch makes anyone wait for one more.
LEMMA WaitedStands ==
    ASSUME TypeOK, [Next]_vars,
           ~ \E s \in Statements : Announce(s) /\ batch.roster = <<>>
    PROVE  UNCHANGED waited
  BY DEF Next, Step, Enqueue, Wake, Handoff, TakeGate, RunOwn, Admit, AwaitTurn, RunTurn,
         Flush, Publish, Announce, TakeVerdict, OtherCommit, Retire, vars

\* A call that may see one batch fewer end has MaxBatch places fewer.
LEMMA SlackOf ==
    ASSUME NEW B \in Nat \ {0}, NEW w \in Nat, NEW v \in Nat
    PROVE  /\ Slack(B, w) \in Int
           /\ w >= B - 1 => Slack(B, w) <= 0
           /\ w >= B => Slack(B, w) <= 0 - MaxBatch
           /\ v <= w + 1 => Slack(B, v) >= Slack(B, w) - MaxBatch
  <1>1. MaxBatch \in Nat \ {0} /\ \A x \in Nat : B - 1 - x \in Int
    BY GroupCommitAssumption
  <1>2. \A x \in Nat : Slack(B, x) \in Int
    BY <1>1, Places DEF Slack
  <1>3. w >= B - 1 => Slack(B, w) <= 0
    BY <1>1, Places DEF Slack
  <1>4. \A M \in Nat \ {0} : \A a, b \in Int : a >= b - 1 => a * M >= b * M - M
    BY SMT
  <1>5. v <= w + 1 => Slack(B, v) >= Slack(B, w) - MaxBatch
    <2>1. v <= w + 1 => B - 1 - v >= (B - 1 - w) - 1
      OBVIOUS
    <2> QED
      BY <1>1, <1>4, <2>1 DEF Slack
  <1>6. w >= B => Slack(B, w) <= 0 - MaxBatch
    <2>1. \A M \in Nat \ {0} : \A a \in Int : a <= 0 - 1 => a * M <= 0 - M
      BY SMT
    <2>2. w >= B => B - 1 - w <= 0 - 1
      OBVIOUS
    <2> QED
      BY <1>1, <2>1, <2>2 DEF Slack
  <1> QED
    BY <1>2, <1>3, <1>5, <1>6

\* The baton stays with the call, which has as much room before it, and the FIFO
\* stands.
LEMMA PatienceStands ==
    ASSUME QueueInv, QueueInv', NEW B \in Nat \ {0}, Patience(B),
           UNCHANGED <<waiting, waited>>,
           \A t \in Statements :
               HasBaton(t)' => /\ HasBaton(t) /\ Still(t)' >= Still(t)
                               /\ pc'[t] # "handoff" => pc[t] # "handoff"
    PROVE  Patience(B)'
  <1>1. TypeOK /\ TypeOK'
    BY DEF QueueInv
  <1>2. /\ \A t \in Statements : Still(t) \in Int /\ \A w \in Nat : Slack(B, w) \in Int
        /\ \A i \in 1 .. Len(waiting) : waited[waiting[i]] \in Nat
        /\ Len(waiting) \in Nat
    BY <1>1, WaitTypes
  <1>3. \A t \in Statements : Still(t)' \in Int
    <2>1. Len(batch'.roster) \in Nat
      BY <1>1, LenProperties DEF TypeOK
    <2> QED
      BY <2>1, GroupCommitAssumption DEF Still
  <1> SUFFICES ASSUME NEW t \in Statements, HasBaton(t)'
               PROVE  Patient(B, t)'
    BY DEF Patience
  <1>5. /\ Still(t) >= 0 /\ Still(t)' >= Still(t)
        /\ pc'[t] # "handoff" => waited[t] < B
        /\ \A i \in 1 .. Len(waiting) : i <= Still(t) + Slack(B, waited[waiting[i]])
    BY DEF Patience, Patient
  <1>6. \A i \in 1 .. Len(waiting) : i <= Still(t)' + Slack(B, waited[waiting[i]])
    BY <1>2, <1>3, <1>5
  <1>7. Still(t)' >= 0
    BY <1>2, <1>3, <1>5
  <1> QED
    BY <1>5, <1>6, <1>7 DEF Patient

\* A call arrives: it leads, having waited for nothing, or it is behind all the
\* others, who cannot be so many that the last batch it may see has no room.
LEMMA EnqueuePatience ==
    ASSUME QueueInv, QueueInv', NEW B \in Nat \ {0}, WaitInv(B),
           IsFiniteSet(Statements), Cardinality(Statements) <= MaxBatch * (B - 1) + 1,
           NEW s \in Statements, Enqueue(s)
    PROVE  Patience(B)'
  <1>t. /\ pc \in [Statements -> PCs] /\ mail \in [Statements -> Msgs]
        /\ waiting \in Seq(Statements) /\ Len(waiting) \in Nat
        /\ waited \in [Statements -> Nat] /\ MaxBatch \in Nat \ {0}
        /\ \A i \in 1 .. Len(waiting) : waiting[i] \in Statements
        /\ \A i \in 1 .. Len(waiting) : waited[waiting[i]] \in Nat
        /\ \A t \in Statements : Still(t) \in Int
        /\ \A w \in Nat : Slack(B, w) \in Int
    BY WaitTypes DEF QueueInv
  <1>1. pc[s] = "new" /\ UNCHANGED <<mail, batch, waited>> /\ waited[s] = 0
    BY DEF Enqueue, WaitInv, Elapsed
  <1>2. CASE leaderActive
    <2>1. waiting' = Append(waiting, s) /\ pc' = [pc EXCEPT ![s] = "queued"]
      BY <1>2 DEF Enqueue, Goto
    <2>2. mail[s] = "none" /\ ~HasBaton(s)'
      BY <1>t, <1>1, <2>1 DEF QueueInv, Queue, CallsOK, MailOK, Msgs, HasBaton, Leading
    <2> SUFFICES ASSUME NEW t \in Statements, HasBaton(t)'
                 PROVE  Patient(B, t)'
      BY DEF Patience
    <2>3. t # s /\ HasBaton(t) /\ pc'[t] = pc[t] /\ Still(t)' = Still(t)
      BY <1>t, <1>1, <2>1, <2>2 DEF HasBaton, Still
    <2>4. Patient(B, t)
      BY <2>3 DEF WaitInv, Patience
    <2>5. Len(waiting) + 1 <= Slack(B, 0)
      <3>1. /\ Distinct(waiting) /\ Elems(waiting) \subseteq Statements
            /\ s \notin Elems(waiting) /\ t \notin Elems(waiting)
        BY <1>t, <1>1, <2>3, QueueTypes
        DEF QueueInv, Queue, QueueOK, HasBaton, Leading
      <3>2. /\ IsFiniteSet(Statements \ {s}) /\ Cardinality(Statements \ {s}) = Cardinality(Statements) - 1
            /\ IsFiniteSet((Statements \ {s}) \ {t})
            /\ Cardinality((Statements \ {s}) \ {t}) = Cardinality(Statements \ {s}) - 1
            /\ Cardinality(Statements) \in Nat
        BY <2>3, FS_RemoveElement, FS_CardinalityType
      <3>3. Len(waiting) <= Cardinality((Statements \ {s}) \ {t})
        BY <1>t, <3>1, <3>2, QueueLength
      <3>4. Slack(B, 0) = MaxBatch * (B - 1)
        BY <1>t, <1>1 DEF Slack
      <3>5. MaxBatch * (B - 1) \in Int
        BY <1>t, <3>4
      <3> HIDE DEF Slack
      <3> QED
        BY <1>t, <3>2, <3>3, <3>4, <3>5
    <2>6. /\ Len(waiting') = Len(waiting) + 1 /\ waiting'[Len(waiting) + 1] = s
          /\ \A i \in 1 .. Len(waiting) : waiting'[i] = waiting[i]
      BY <1>t, <2>1, AppendProperties
    <2>7. ASSUME NEW i \in 1 .. Len(waiting')
          PROVE  i <= Still(t)' + Slack(B, waited'[waiting'[i]])
      <3>1. CASE i \in 1 .. Len(waiting)
        <4>1. waiting'[i] = waiting[i] /\ i <= Still(t) + Slack(B, waited[waiting[i]])
          BY <2>4, <2>6, <3>1 DEF Patient
        <4> QED
          BY <1>1, <2>3, <4>1
      <3>2. CASE i = Len(waiting) + 1
        <4>1. waited'[waiting'[i]] = 0
          BY <1>1, <2>6, <3>2
        <4>2. Still(t) >= 0
          BY <2>4 DEF Patient
        <4> QED
          BY <1>t, <2>3, <2>5, <3>2, <4>1, <4>2
      <3>3. i \in 1 .. Len(waiting) \/ i = Len(waiting) + 1
        BY <1>t, <2>6
      <3> QED
        BY <3>1, <3>2, <3>3
    <2>8. Still(t)' >= 0 /\ (pc'[t] # "handoff" => waited'[t] < B)
      BY <1>1, <2>3, <2>4 DEF Patient
    <2> QED
      BY <2>7, <2>8 DEF Patient
  <1>3. CASE ~leaderActive
    <2>1. waiting' = <<>> /\ pc' = [pc EXCEPT ![s] = "lead"]
      BY <1>3 DEF Enqueue, Goto, WaitInv, Placed
    <2>2. \A t \in Statements : HasBaton(t)' => t = s
      BY <1>t, <1>1, <1>3, <2>1 DEF HasBaton, Leading, QueueInv, Queue, BatonOK
    <2>3. Patient(B, s)'
      BY <1>t, <1>1, <2>1, EmptySeq DEF Patient, Still
    <2> QED
      BY <2>2, <2>3 DEF Patience
  <1> QED
    BY <1>2, <1>3

\* The front of the FIFO leaves it: the others move up by one.
LEMMA MoveUp ==
    ASSUME TypeOK, waiting # <<>>
    PROVE  /\ Head(waiting) = waiting[1] /\ Head(waiting) \in Statements
           /\ 1 \in 1 .. Len(waiting) /\ Len(Tail(waiting)) = Len(waiting) - 1
           /\ \A i \in 1 .. Len(Tail(waiting)) :
                i + 1 \in 1 .. Len(waiting) /\ Tail(waiting)[i] = waiting[i + 1]
  <1>1. waiting \in Seq(Statements) /\ Len(waiting) \in Nat \ {0}
    BY EmptySeq, LenProperties DEF TypeOK
  <1>2. /\ Head(waiting) = waiting[1] /\ Head(waiting) \in Statements
        /\ Len(Tail(waiting)) = Len(waiting) - 1
        /\ \A i \in 1 .. Len(Tail(waiting)) : Tail(waiting)[i] = waiting[i + 1]
    BY <1>1, HeadTailProperties
  <1> QED
    BY <1>1, <1>2

\* The baton passes on: the next batch has room for its leader and MaxBatch - 1.
LEMMA HandoffPatience ==
    ASSUME QueueInv, QueueInv', NEW B \in Nat \ {0}, WaitInv(B),
           NEW s \in Statements, Handoff(s)
    PROVE  Patience(B)'
  <1>t. /\ pc \in [Statements -> PCs] /\ mail \in [Statements -> Msgs]
        /\ Len(waiting) \in Nat /\ MaxBatch \in Nat \ {0}
        /\ \A i \in 1 .. Len(waiting) : waited[waiting[i]] \in Nat
        /\ \A w \in Nat : Slack(B, w) \in Int
    BY WaitTypes DEF QueueInv
  <1>1. pc[s] = "handoff" /\ pc' = [pc EXCEPT ![s] = "done"] /\ UNCHANGED waited
    BY DEF Handoff, Goto
  <1>2. \A i \in 1 .. Len(waiting) : i <= MaxBatch + Slack(B, waited[waiting[i]])
    BY <1>1 DEF WaitInv, Patience, Patient, Still, HasBaton, Leading
  <1>3. CASE waiting = <<>> /\ ~leaderActive'
    BY <1>3 DEF Patience, QueueInv, Queue, BatonOK
  <1>4. CASE /\ waiting # <<>> /\ waiting' = Tail(waiting)
             /\ mail' = [mail EXCEPT ![Head(waiting)] = "lead"]
    <2>m. /\ Head(waiting) = waiting[1] /\ Head(waiting) \in Statements
          /\ 1 \in 1 .. Len(waiting) /\ Len(waiting') = Len(waiting) - 1
          /\ \A i \in 1 .. Len(waiting') :
               i + 1 \in 1 .. Len(waiting) /\ waiting'[i] = waiting[i + 1]
      BY <1>4, MoveUp DEF QueueInv
    <2> PICK h \in Statements : h = Head(waiting)
      BY <2>m
    <2>1. h = waiting[1] /\ h \in Statements /\ mail' = [mail EXCEPT ![h] = "lead"]
      BY <1>4, <2>m
    <2>2. pc[h] = "queued"
      BY <1>4, LeaveQueue DEF QueueInv, Queue, QueueOK, TypeOK
    <2>3. pc'[h] = "queued" /\ HasBaton(h)'
      BY <1>t, <1>1, <2>1, <2>2 DEF HasBaton
    <2>4. \A t \in Statements : HasBaton(t)' => t = h
      BY <2>1, <2>3 DEF QueueInv, Queue, BatonOK
    <2>5. waited[h] < B
      <3>1. 1 <= MaxBatch + Slack(B, waited[h]) /\ waited[h] \in Nat
        BY <1>t, <1>2, <2>m, <2>1
      <3>2. waited[h] >= B => Slack(B, waited[h]) <= 0 - MaxBatch
        BY <3>1, SlackOf
      <3> QED
        BY <1>t, <3>1, <3>2
    <2>6. Still(h)' = MaxBatch - 1
      BY <2>3 DEF Still
    <2>7. ASSUME NEW i \in 1 .. Len(waiting')
          PROVE  i <= (MaxBatch - 1) + Slack(B, waited[waiting'[i]])
      <3>1. i + 1 \in 1 .. Len(waiting) /\ waiting'[i] = waiting[i + 1]
        BY <2>m
      <3>2. i + 1 <= MaxBatch + Slack(B, waited[waiting'[i]])
        BY <1>2, <3>1
      <3>3. Slack(B, waited[waiting'[i]]) \in Int /\ i \in Int /\ MaxBatch \in Int
        BY <1>t, <3>1
      <3> QED
        BY <3>2, <3>3
    <2>8. Patient(B, h)'
      <3>1. MaxBatch - 1 >= 0
        BY <1>t
      <3> QED
        BY <1>1, <2>5, <2>6, <2>7, <3>1 DEF Patient
    <2> QED
      BY <2>4, <2>8 DEF Patience
  <1> QED
    BY <1>3, <1>4 DEF Handoff, Post

\* A turn is lent: one member fewer to take, and the others are one place nearer.
LEMMA LendPatience ==
    ASSUME QueueInv, QueueInv', NEW B \in Nat \ {0}, WaitInv(B),
           NEW s \in Statements, Admit(s), RoomInBatch, waiting # <<>>
    PROVE  Patience(B)'
  <1>t. /\ pc \in [Statements -> PCs] /\ Len(waiting) \in Nat /\ MaxBatch \in Nat \ {0}
        /\ batch.roster \in Seq(Statements) /\ Len(batch.roster) \in Nat
        /\ \A i \in 1 .. Len(waiting) : waited[waiting[i]] \in Nat
        /\ \A w \in Nat : Slack(B, w) \in Int
    BY WaitTypes DEF QueueInv
  <1>1. /\ pc[s] = "admit" /\ pc' = [pc EXCEPT ![s] = "await"]
        /\ waiting' = Tail(waiting) /\ UNCHANGED waited
    BY DEF Admit, Goto
  <1>2. /\ waited[s] < B
        /\ \A i \in 1 .. Len(waiting) :
             i <= (MaxBatch - 1 - Len(batch.roster)) + Slack(B, waited[waiting[i]])
    BY <1>1 DEF WaitInv, Patience, Patient, Still, HasBaton, Leading
  <1>3. /\ Len(waiting') = Len(waiting) - 1
        /\ \A i \in 1 .. Len(waiting') :
             i + 1 \in 1 .. Len(waiting) /\ waiting'[i] = waiting[i + 1]
        /\ Head(waiting) \in Statements
    BY <1>1, MoveUp DEF QueueInv
  <1>4. Len(batch'.roster) = Len(batch.roster) + 1
    <2>1. batch'.roster = Append(batch.roster, Head(waiting))
      BY <1>1, RosterSteps DEF Step
    <2> QED
      BY <1>t, <1>3, <2>1, AppendProperties
  <1>5. Still(s)' = MaxBatch - 1 - (Len(batch.roster) + 1) /\ Still(s)' >= 0
    BY <1>t, <1>1, <1>4 DEF Still, RoomInBatch
  <1>6. \A t \in Statements : HasBaton(t)' => t = s
    BY <1>t, <1>1 DEF QueueInv, Queue, BatonOK, HasBaton, Leading
  <1>7. ASSUME NEW i \in 1 .. Len(waiting')
        PROVE  i <= Still(s)' + Slack(B, waited[waiting'[i]])
    <2>1. i + 1 \in 1 .. Len(waiting) /\ waiting'[i] = waiting[i + 1]
      BY <1>3
    <2>2. i + 1 <= (MaxBatch - 1 - Len(batch.roster)) + Slack(B, waited[waiting'[i]])
      BY <1>2, <2>1
    <2>3. Slack(B, waited[waiting'[i]]) \in Int /\ i \in Int
      BY <1>t, <2>1
    <2>4. \A m, l, x \in Int : i + 1 <= (m - 1 - l) + x => i <= (m - 1 - (l + 1)) + x
      BY <2>3
    <2>5. i <= (MaxBatch - 1 - (Len(batch.roster) + 1)) + Slack(B, waited[waiting'[i]])
      <3>1. MaxBatch \in Int /\ Len(batch.roster) \in Int
        BY <1>t
      <3> QED
        BY <2>2, <2>3, <2>4, <3>1
    <2> QED
      BY <1>5, <2>5
  <1>8. Patient(B, s)'
    BY <1>1, <1>2, <1>5, <1>7 DEF Patient
  <1> QED
    BY <1>6, <1>8 DEF Patience

\* A batch ends: every call in the FIFO has seen one more, and the next one has
\* room for MaxBatch of them.
LEMMA EndPatience ==
    ASSUME QueueInv, QueueInv', NEW B \in Nat \ {0}, WaitInv(B),
           NEW s \in Statements, Announce(s), batch.roster = <<>>
    PROVE  Elapsed(B)' /\ Patience(B)'
  <1>t. /\ pc \in [Statements -> PCs] /\ Len(waiting) \in Nat /\ MaxBatch \in Nat \ {0}
        /\ waited \in [Statements -> Nat]
        /\ \A i \in 1 .. Len(waiting) : waiting[i] \in Statements
        /\ Elems(waiting) \subseteq Statements /\ DOMAIN waiting = 1 .. Len(waiting)
        /\ \A w \in Nat : Slack(B, w) \in Int
    BY WaitTypes, QueueTypes DEF QueueInv
  <1>1. /\ pc[s] = "announce" /\ pc' = [pc EXCEPT ![s] = "handoff"] /\ UNCHANGED waiting
        /\ waited' = [t \in Statements |-> IF t \in Owed THEN waited[t] + 1 ELSE waited[t]]
    BY DEF Announce, Goto, queue
  <1>2. /\ waited[s] < B
        /\ \A i \in 1 .. Len(waiting) : i <= 0 + Slack(B, waited[waiting[i]])
    BY <1>1 DEF WaitInv, Patience, Patient, Still, HasBaton, Leading
  <1>3. Owed \subseteq {s} \cup Elems(waiting)
    BY <1>1, OwedAtEnd DEF WaitInv
  <1>4. \A t \in Elems(waiting) : waited[t] + 1 < B
    <2> SUFFICES ASSUME NEW i \in 1 .. Len(waiting)
                 PROVE  waited[waiting[i]] + 1 < B
      BY <1>t DEF Elems
    <2>1. /\ waited[waiting[i]] \in Nat
          /\ waited[waiting[i]] >= B - 1 => Slack(B, waited[waiting[i]]) <= 0
          /\ i <= 0 + Slack(B, waited[waiting[i]])
          /\ Slack(B, waited[waiting[i]]) \in Int
      BY <1>t, <1>2, SlackOf
    <2> QED
      BY <2>1
  <1>5. Elapsed(B)'
    <2> SUFFICES ASSUME NEW t \in Statements
                 PROVE  waited'[t] <= B /\ (pc'[t] = "new" => waited'[t] = 0)
      BY DEF Elapsed
    <2>1. waited[t] \in Nat /\ waited[t] <= B /\ (pc[t] = "new" => waited[t] = 0)
      BY <1>t DEF WaitInv, Elapsed
    <2>2. CASE t \in Owed
      <3>1. waited'[t] = waited[t] + 1
        BY <1>1, <2>2
      <3>2. pc[t] # "new"
        BY <2>2 DEF Owed
      <3>3. waited[t] < B
        <4>1. CASE t = s
          BY <1>2, <4>1
        <4>2. CASE t \in Elems(waiting)
          BY <1>4, <2>1, <4>2
        <4> QED
          BY <1>3, <2>2, <4>1, <4>2
      <3>4. pc'[t] # "new"
        BY <1>t, <1>1, <3>2
      <3> QED
        BY <2>1, <3>1, <3>3, <3>4
    <2>3. CASE t \notin Owed
      BY <1>t, <1>1, <2>1, <2>3
    <2> QED
      BY <2>2, <2>3
  <1>6. \A t \in Statements : HasBaton(t)' => t = s
    BY <1>t, <1>1 DEF QueueInv, Queue, BatonOK, HasBaton, Leading
  <1>7. Still(s)' = MaxBatch /\ pc'[s] = "handoff"
    BY <1>t, <1>1 DEF Still
  <1>8. ASSUME NEW i \in 1 .. Len(waiting)
        PROVE  i <= MaxBatch + Slack(B, waited'[waiting[i]])
    <2>1. /\ waited[waiting[i]] \in Nat /\ waited'[waiting[i]] \in Nat
          /\ waited'[waiting[i]] <= waited[waiting[i]] + 1
      BY <1>t, <1>1
    <2>2. Slack(B, waited'[waiting[i]]) >= Slack(B, waited[waiting[i]]) - MaxBatch
      BY <2>1, SlackOf
    <2>3. Slack(B, waited'[waiting[i]]) \in Int /\ Slack(B, waited[waiting[i]]) \in Int
      BY <1>t, <2>1
    <2>4. i <= 0 + Slack(B, waited[waiting[i]])
      BY <1>2
    <2> QED
      BY <1>t, <2>2, <2>3, <2>4
  <1>9. Patient(B, s)'
    <2>1. MaxBatch >= 0
      BY <1>t
    <2> QED
      BY <1>1, <1>7, <1>8, <2>1 DEF Patient
  <1> QED
    BY <1>5, <1>6, <1>9 DEF Patience

\* A step that leaves the FIFO alone and ends no batch leaves as much room.
LEMMA QuietPatience ==
    ASSUME QueueInv, QueueInv', NEW B \in Nat \ {0}, WaitInv(B),
           NEW s \in Statements, Step(s), UNCHANGED <<waiting, waited>>, ~Handoff(s)
    PROVE  Patience(B)'
  <1>t. /\ pc \in [Statements -> PCs] /\ mail \in [Statements -> Msgs]
        /\ MaxBatch \in Nat \ {0} /\ Len(batch.roster) \in Nat
        /\ \A t \in Statements : Still(t) \in Int
    BY WaitTypes DEF QueueInv
  <1>1. Patience(B)
    BY DEF WaitInv
  <1>2. CASE Wake(s) \/ AwaitTurn(s) \/ TakeVerdict(s)
    <2>1. /\ mail' = [mail EXCEPT ![s] = "none"] /\ UNCHANGED batch
          /\ \/ /\ pc[s] = "queued" /\ mail[s] \in {"lead", "turn"}
                /\ pc' = [pc EXCEPT ![s] = mail[s]]
             \/ pc[s] = "await" /\ pc' = [pc EXCEPT ![s] = "admit"]
             \/ pc[s] = "verdict" /\ pc' = [pc EXCEPT ![s] = "done"]
      BY <1>2 DEF Wake, AwaitTurn, TakeVerdict, Goto, Post
    <2>2. \A t \in Statements :
            HasBaton(t)' => /\ HasBaton(t) /\ Still(t)' = Still(t)
                            /\ (pc'[t] # "handoff" => pc[t] # "handoff")
      BY <1>t, <2>1 DEF HasBaton, Leading, Still
    <2> QED
      BY <1>t, <1>1, <2>2, PatienceStands
  <1>3. CASE RunTurn(s)
    <2>1. batch'.roster = batch.roster
      BY <1>3, RosterSteps
    <2>2. /\ pc[s] = "turn" /\ pc'[s] \in {"verdict", "done"}
          /\ \A t \in Statements \ {s} : pc'[t] = pc[t]
          /\ mail' = [mail EXCEPT ![batch.leader] = "turnDone"]
      BY <1>3, <1>t DEF RunTurn, Goto, Post
    <2>3. mail[s] # "lead"
      BY <2>2 DEF QueueInv, Queue, CallsOK, MailOK
    <2>4. \A t \in Statements :
            HasBaton(t)' => /\ HasBaton(t) /\ Still(t)' = Still(t)
                            /\ (pc'[t] # "handoff" => pc[t] # "handoff")
      BY <1>t, <2>1, <2>2, <2>3 DEF HasBaton, Leading, Still
    <2> QED
      BY <1>t, <1>1, <2>4, PatienceStands
  <1>4. CASE TakeGate(s) \/ RunOwn(s) \/ Admit(s) \/ Flush(s) \/ Publish(s) \/ Announce(s)
    <2>1. /\ pc[s] \in {"lead", "own", "admit", "flush", "publish", "announce"}
          /\ \E p \in Leading : pc' = [pc EXCEPT ![s] = p]
      <3>1. CASE pc' = pc
        BY <1>t, <1>4, <3>1 DEF TakeGate, RunOwn, Admit, Flush, Publish, Announce, Leading
      <3>2. CASE pc' # pc
        BY <1>4, <3>2 DEF TakeGate, RunOwn, Admit, Flush, Publish, Announce, Leading, Goto
      <3> QED
        BY <3>1, <3>2
    <2>2. HasBaton(s) /\ Patient(B, s)
      BY <1>1, <2>1 DEF HasBaton, Leading, Patience
    <2>3. HasBaton(s)' /\ \A t \in Statements : HasBaton(t)' => t = s
      BY <1>t, <2>1 DEF HasBaton, QueueInv, Queue, BatonOK
    <2>4. pc'[s] # "handoff" => pc[s] # "handoff"
      BY <2>1
    <2>5. CASE TakeGate(s) \/ RunOwn(s)
      <3>1. /\ pc[s] = "lead" \/ (pc[s] = "own" /\ batch.roster = <<>>)
            /\ \/ pc'[s] = "handoff"
               \/ pc'[s] \in {"own", "admit"} /\ batch'.roster = <<>>
        BY <2>5, RosterSteps DEF TakeGate, RunOwn
      <3>2. Still(s) = MaxBatch - 1 /\ Still(s)' \in {MaxBatch, MaxBatch - 1}
        BY <1>t, <3>1, EmptySeq DEF Still
      <3> QED
        BY <1>t, <1>1, <2>2, <2>3, <2>4, <3>2, PatienceStands
    <2>6. CASE Flush(s) \/ Publish(s)
      <3>1. /\ pc[s] \in {"flush", "publish"}
            /\ pc'[s] \in {"publish", "announce"}
        BY <1>t, <2>6 DEF Flush, Publish, Goto
      <3>2. Still(s) = 0 /\ Still(s)' = 0
        BY <3>1 DEF Still
      <3> QED
        BY <1>1, <2>2, <2>3, <2>4, <3>2, PatienceStands
    <2>7. CASE Announce(s)
      <3>1. CASE pc' = pc
        <4>1. Still(s) = 0 /\ Still(s)' = 0
          BY <2>7, <3>1 DEF Still, Announce
        <4> QED
          BY <1>1, <2>2, <2>3, <2>4, <4>1, PatienceStands
      <3>2. CASE pc'[s] = "handoff"
        <4>1. Still(s) = 0 /\ Still(s)' = MaxBatch
          BY <2>7, <3>2 DEF Still, Announce
        <4> QED
          BY <1>t, <1>1, <2>2, <2>3, <2>4, <4>1, PatienceStands
      <3> QED
        BY <2>7, <3>1, <3>2, RosterSteps
    <2>8. CASE Admit(s)
      <3>1. /\ ~RoomInBatch \/ waiting = <<>>
            /\ pc[s] = "admit" /\ pc'[s] = "flush"
        <4>1. CASE RoomInBatch /\ waiting # <<>>
          <5>1. waiting' = Tail(waiting)
            BY <2>8, <4>1 DEF Admit
          <5>2. Len(Tail(waiting)) = Len(waiting) - 1 /\ Len(waiting) \in Nat
            BY <4>1, MoveUp, WaitTypes DEF QueueInv
          <5> QED
            BY <5>1, <5>2
        <4>2. CASE ~(RoomInBatch /\ waiting # <<>>)
          BY <1>t, <2>8, <4>2 DEF Admit, Goto
        <4> QED
          BY <4>1, <4>2
      <3>2. Still(s)' = 0 /\ Still(s) = MaxBatch - 1 - Len(batch.roster)
        BY <3>1 DEF Still
      <3>3. CASE waiting = <<>>
        <4>1. Len(waiting') = 0
          BY <3>3, EmptySeq
        <4> QED
          BY <2>2, <2>3, <3>1, <3>2, <4>1 DEF Patience, Patient
      <3>4. CASE ~RoomInBatch
        <4>1. Still(s) <= 0
          BY <1>t, <3>2, <3>4 DEF RoomInBatch
        <4>2. Still(s)' >= Still(s)
          BY <3>2, <4>1
        <4> QED
          BY <1>1, <2>2, <2>3, <2>4, <4>2, PatienceStands
      <3> QED
        BY <3>1, <3>3, <3>4
    <2> QED
      BY <1>4, <2>5, <2>6, <2>7, <2>8
  <1> QED
    BY <1>2, <1>3, <1>4 DEF Step

\* No step makes a call wait longer than the batches it had to.
LEMMA NextWait ==
    ASSUME QueueInv, QueueInv', NEW B \in Nat \ {0}, WaitInv(B), [Next]_vars,
           IsFiniteSet(Statements), Cardinality(Statements) <= MaxBatch * (B - 1) + 1
    PROVE  WaitInv(B)'
  <1>1. Placed'
    BY NextPlaced DEF WaitInv
  <1>t. pc \in [Statements -> PCs] /\ waited \in [Statements -> Nat]
    BY WaitTypes DEF QueueInv
  <1>2. ASSUME UNCHANGED waited, \A s \in Statements : pc'[s] = "new" => pc[s] = "new"
        PROVE  Elapsed(B)'
    BY <1>2 DEF WaitInv, Elapsed
  <1>3. ASSUME NEW s \in Statements, Enqueue(s)
        PROVE  WaitInv(B)'
    <2>1. UNCHANGED waited /\ \A t \in Statements : pc'[t] = "new" => pc[t] = "new"
      BY <1>t, <1>3 DEF Enqueue, Goto
    <2> QED
      BY <1>1, <1>2, <1>3, <2>1, EnqueuePatience DEF WaitInv
  <1>4. ASSUME NEW s \in Statements, Announce(s), batch.roster = <<>>
        PROVE  WaitInv(B)'
    BY <1>1, <1>4, EndPatience DEF WaitInv
  <1>5. ASSUME NEW s \in Statements, Step(s), ~(Announce(s) /\ batch.roster = <<>>)
        PROVE  WaitInv(B)'
    <2>1. UNCHANGED waited
      BY <1>5 DEF Step, Wake, Handoff, TakeGate, RunOwn, Admit, AwaitTurn, RunTurn,
                  Flush, Publish, Announce, TakeVerdict
    <2>2. \A t \in Statements : pc'[t] = "new" => pc[t] = "new"
      <3>1. pc' = pc \/ \E p \in PCs \ {"new"} : pc' = [pc EXCEPT ![s] = p]
        BY <1>5 DEF Step, Wake, Handoff, TakeGate, RunOwn, Admit, AwaitTurn, RunTurn,
                    Flush, Publish, Announce, TakeVerdict, Goto, PCs, Leading
      <3> QED
        BY <1>t, <3>1
    <2>3. Patience(B)'
      <3>1. CASE Handoff(s)
        BY <3>1, HandoffPatience
      <3>2. CASE Admit(s) /\ RoomInBatch /\ waiting # <<>>
        BY <3>2, LendPatience
      <3>3. CASE ~Handoff(s) /\ ~(Admit(s) /\ RoomInBatch /\ waiting # <<>>)
        <4>1. UNCHANGED waiting
          BY <1>5, <3>3 DEF Step, Wake, TakeGate, RunOwn, Admit, AwaitTurn, RunTurn,
                            Flush, Publish, Announce, TakeVerdict, queue
        <4> QED
          BY <1>5, <2>1, <3>3, <4>1, QuietPatience
      <3> QED
        BY <3>1, <3>2, <3>3
    <2> QED
      BY <1>1, <1>2, <2>1, <2>2, <2>3 DEF WaitInv
  <1>6. CASE (\E o \in Others : OtherCommit(o)) \/ Retire \/ UNCHANGED vars
    <2>1. UNCHANGED <<waiting, pc, mail, batch, waited>>
      BY <1>6 DEF OtherCommit, Retire, vars, queue, calls
    <2>2. Patience(B)'
      BY <2>1 DEF WaitInv, Patience, Patient, HasBaton, Still
    <2> QED
      BY <1>1, <1>2, <2>1, <2>2 DEF WaitInv
  <1> QED
    BY <1>3, <1>4, <1>5, <1>6 DEF Next

\* At first nobody waits.
LEMMA InitWait ==
    ASSUME Init, NEW B \in Nat \ {0}
    PROVE  WaitInv(B)
  <1>1. \A s \in Statements : ~HasBaton(s)
    BY DEF Init, HasBaton, Leading
  <1> QED
    BY <1>1 DEF Init, WaitInv, Placed, Elapsed, Patience

\* In general: where no more than MaxBatch * (B - 1) writers can stand behind the
\* one that leads, none waits for more than B batches.
THEOREM WaitsItsTurn ==
    ASSUME NEW B \in Nat \ {0},
           IsFiniteSet(Statements), Cardinality(Statements) <= MaxBatch * (B - 1) + 1
    PROVE  Spec => [](\A s \in Statements : waited[s] <= B)
  <1>1. Init => WaitInv(B)
    BY InitWait
  <1>2. QueueInv /\ QueueInv' /\ WaitInv(B) /\ [Next]_vars => WaitInv(B)'
    BY NextWait
  <1>3. WaitInv(B) => \A s \in Statements : waited[s] <= B
    BY DEF WaitInv, Elapsed
  <1> QED
    BY <1>1, <1>2, <1>3, GroupInvariant, PTL DEF Spec

\* A writer waits for at most the running batch and the one it joins, where no
\* more writers than one batch admits can stand behind the leader.
THEOREM TwoBatches ==
    ASSUME IsFiniteSet(Statements), Cardinality(Statements) <= MaxBatch + 1
    PROVE  Spec => []WaitsTwoBatches
  <1>1. 2 \in Nat \ {0} /\ Cardinality(Statements) <= MaxBatch * (2 - 1) + 1
    BY GroupCommitAssumption
  <1>2. Init => WaitInv(2)
    BY <1>1, InitWait
  <1>3. QueueInv /\ QueueInv' /\ WaitInv(2) /\ [Next]_vars => WaitInv(2)'
    BY <1>1, NextWait
  <1>4. WaitInv(2) => WaitsTwoBatches
    BY DEF WaitInv, Elapsed, WaitsTwoBatches
  <1> QED
    BY <1>2, <1>3, <1>4, GroupInvariant, PTL DEF Spec
=============================================================================
