---------------------------- MODULE SessionProofs ----------------------------
(***************************************************************************)
(* Theorems about Session, for any number of threads, cells and writes:    *)
(* the types; that no acknowledged write is ever lost as long as every     *)
(* commit checks the version and every write moves it; that a failed       *)
(* call's writes are never seen, retirement is final and a skipped         *)
(* checkpoint is one not needed; and that a session whose commits check    *)
(* the version and whose writes move it implements SnapshotStore.          *)
(***************************************************************************)
EXTENDS SessionStore, TLAPS

-----------------------------------------------------------------------------
(* The inductive invariant, in named parts.  Shape holds whatever calls are *)
(* made; Occ needs the version to be checked and moved.                    *)

\* A client that reads through a snapshot holds one, and nobody else does.
Reading(c) == pc[c] \in {"reading", "autoRun"} \/ (pc[c] = "open" /\ mine[c] = {})
SnapHeld(c) == Reading(c) <=> snap[c] # NoCell

\* Calls that have written nothing own no writes.
MineOK(c) == pc[c] \in {"idle", "reading", "ckSave", "ckRecord"} => mine[c] = {}

\* The auto-commit mutex is held by a one-statement call on its way through.
AutoOK(c) ==
    /\ pc[c] \in {"autoTry", "autoFork", "autoRun"} => autoWriter = c
    /\ autoWriter = c =>
        /\ pc[c] \in {"autoTry", "autoFork", "autoRun", "commit", "flush"}
        /\ \E w \in Writes : mine[c] = {w}

\* The commit gate is held by the one client inside it.
GateOK(c) == gate = c <=> pc[c] \in {"flush", "closure"}

Shape(c) == SnapHeld(c) /\ MineOK(c) /\ AutoOK(c) /\ GateOK(c)
ShapeInv == TypeOK /\ \A c \in Clients : Shape(c)

\* A snapshot is never ahead of the published graph, and says what it says
\* when it is not behind it.
SnapOK(c) ==
    snap[c] # NoCell =>
        /\ base[c] = heap[snap[c]].version
        /\ base[c] <= Current.version
        /\ base[c] = Current.version => heap[snap[c]].writes = Current.writes

\* The same of a working copy, which adds its own writes.
WorkOK(c) ==
    pc[c] = "commit" \/ (pc[c] = "open" /\ mine[c] # {}) =>
        /\ base[c] <= Current.version
        /\ base[c] = Current.version => work[c].writes = Current.writes \cup mine[c]

\* Whoever holds the gate is about to publish the published writes and its own.
HeldOK(c) ==
    pc[c] \in {"flush", "closure"} =>
        /\ work[c].writes = Current.writes \cup mine[c]
        /\ pc[c] = "closure" => work[c].version # base[c]

OccOK(c) == pc[c] = "commit" => occ[c]

Occ(c) == SnapOK(c) /\ WorkOK(c) /\ HeldOK(c) /\ OccOK(c)
OccInv == NoLostUpdate /\ \A c \in Clients : Occ(c)

-----------------------------------------------------------------------------
(* Lemmas about the operators the actions are built from.                  *)

\* A freshly allocated cell is one nobody names, and holds the graph given;
\* cells a snapshot names keep what they held.
LEMMA SwapFacts ==
    ASSUME NEW g, Swap(g), TypeOK
    PROVE  /\ published' \in FreeCells
           /\ heap'[published'] = g
           /\ \A k \in Held \cap Cells : k # published' /\ heap'[k] = heap[k]
           /\ g \in Graph => heap' \in [Cells -> Graph]
  <1>1. published' \in FreeCells
    BY DEF Swap
  <1>2. published' \in Cells
    BY <1>1 DEF FreeCells
  <1>3. \A k \in Held \cap Cells : k # published'
    BY <1>1 DEF FreeCells
  <1>4. heap' = [k \in Cells |-> IF k = published' THEN g
                                 ELSE IF k \in Held THEN heap[k] ELSE Blank]
    BY DEF Swap
  <1>5. Blank \in Graph
    BY DEF Blank, Graph
  <1>6. ASSUME g \in Graph PROVE heap' \in [Cells -> Graph]
    BY <1>4, <1>5, <1>6 DEF TypeOK
  <1> QED
    BY <1>1, <1>2, <1>3, <1>4, <1>6

\* A statement's result is a graph, one version on, with one write more.
LEMMA MutatedFacts ==
    ASSUME NEW g \in Graph, NEW w \in Writes
    PROVE  /\ Mutated(g, w) \in Graph
           /\ Mutated(g, w).version = g.version + 1
           /\ Mutated(g, w).writes = g.writes \cup {w}
  <1>1. g.version \in Nat /\ g.writes \in SUBSET Writes
    BY DEF Graph
  <1>2. g.version + 1 \in Nat /\ g.writes \cup {w} \in SUBSET Writes
    BY <1>1
  <1>3. [g EXCEPT !.writes = g.writes \cup {w}] \in Graph
    BY <1>2 DEF Graph
  <1> QED
    BY <1>1, <1>2, <1>3 DEF Mutated, Graph

\* Returning from a call keeps the types of everything it resets.
LEMMA EndCallTypes ==
    ASSUME TypeOK, NEW c \in Clients, EndCall(c)
    PROVE  /\ pc' \in [Clients -> PCs]
           /\ snap' \in [Clients -> Cells \cup {NoCell}]
           /\ work' \in [Clients -> Graph]
           /\ base' \in [Clients -> Nat]
           /\ mine' \in [Clients -> SUBSET Writes]
           /\ occ' \in [Clients -> BOOLEAN]
           /\ tries' \in [Clients -> Nat]
           /\ autoWriter' \in Clients \cup {NoClient}
  <1>1. Blank \in Graph
    BY DEF Blank, Graph
  <1> QED
    BY <1>1 DEF TypeOK, EndCall, PCs

\* Success moves a call's writes to the acknowledged ones.
LEMMA SucceedTypes ==
    ASSUME TypeOK, NEW c \in Clients, Succeed(c)
    PROVE  acked' \subseteq Writes /\ used' \subseteq Writes /\ discarded' \subseteq Writes
  BY DEF TypeOK, Succeed

\* Failure moves them to the discarded ones.
LEMMA FailTypes ==
    ASSUME TypeOK, NEW c \in Clients, Fail(c)
    PROVE  acked' \subseteq Writes /\ used' \subseteq Writes /\ discarded' \subseteq Writes
  BY DEF TypeOK, Fail

\* The published graph and every snapshot are graphs.
LEMMA CurrentIsGraph ==
    ASSUME TypeOK
    PROVE  /\ Current \in Graph
           /\ \A c \in Clients : snap[c] # NoCell => heap[snap[c]] \in Graph
  BY DEF TypeOK, Current

-----------------------------------------------------------------------------
(* Type correctness, with the shape of a call that it rests on.            *)

\* The invariant holds of a session just opened.
LEMMA InitShape == Init => ShapeInv
  <1> SUFFICES ASSUME Init PROVE ShapeInv
    OBVIOUS
  <1>1. Blank \in Graph
    BY DEF Blank, Graph
  <1>2. published \in Cells
    BY SessionAssumption DEF Init
  <1>3. TypeOK
    BY <1>1, <1>2 DEF Init, TypeOK, PCs, NeverSaved
  <1>4. \A c \in Clients : Shape(c)
    BY SessionAssumption DEF Init, Shape, SnapHeld, Reading, MineOK, AutoOK, GateOK
  <1> QED
    BY <1>3, <1>4 DEF ShapeInv

\* Beginning names a snapshot.
LEMMA BeginShape ==
    ASSUME ShapeInv, NEW c \in Clients, Begin(c)
    PROVE  ShapeInv'
  <1> USE DEF store, locals, ghost, disk
  <1>1. TypeOK /\ Current \in Graph /\ \A d \in Clients : Shape(d)
    BY CurrentIsGraph DEF ShapeInv
  <1>2. TypeOK'
    BY <1>1 DEF Begin, TakeSnapshot, TypeOK, Graph, PCs
  <1>3. \A d \in Clients : Shape(d)'
    BY <1>1, SessionAssumption DEF Begin, TakeSnapshot, TypeOK, Shape, SnapHeld, Reading, MineOK, AutoOK, GateOK
  <1> QED
    BY <1>2, <1>3 DEF ShapeInv

\* A rollback resets the call.
LEMMA RollbackShape ==
    ASSUME ShapeInv, NEW c \in Clients, Rollback(c)
    PROVE  ShapeInv'
  <1> USE DEF store, locals, ghost, disk
  <1>1. TypeOK /\ Current \in Graph /\ \A d \in Clients : Shape(d)
    BY CurrentIsGraph DEF ShapeInv
  <1>2. TypeOK'
    BY <1>1, EndCallTypes, FailTypes DEF Rollback, Fail, TypeOK
  <1>3. \A d \in Clients : Shape(d)'
    BY <1>1, SessionAssumption DEF Rollback, Fail, EndCall, TypeOK, Shape, SnapHeld, Reading, MineOK, AutoOK, GateOK
  <1> QED
    BY <1>2, <1>3 DEF ShapeInv

\* A first mutation swaps the snapshot for a working copy.
LEMMA ExecuteShape ==
    ASSUME ShapeInv, NEW c \in Clients, NEW w \in Writes, Execute(c, w)
    PROVE  ShapeInv'
  <1> USE DEF store, locals, ghost, disk
  <1>1. TypeOK /\ Current \in Graph /\ \A d \in Clients : Shape(d)
    BY CurrentIsGraph DEF ShapeInv
  <1>2. Mutated(View(c), w) \in Graph
    BY <1>1, CurrentIsGraph, MutatedFacts DEF Execute, View, TypeOK, Shape, SnapHeld, Reading
  <1>3. TypeOK'
    BY <1>1, <1>2 DEF Execute, TypeOK
  <1>4. \A d \in Clients : Shape(d)'
    BY <1>1, <1>2, SessionAssumption DEF Execute, TypeOK, Shape, SnapHeld, Reading, MineOK, AutoOK, GateOK
  <1> QED
    BY <1>3, <1>4 DEF ShapeInv

\* A commit ends the call or goes on to the gate.
LEMMA CommitShape ==
    ASSUME ShapeInv, NEW c \in Clients, Commit(c)
    PROVE  ShapeInv'
  <1> USE DEF store, locals, ghost, disk
  <1>1. TypeOK /\ Current \in Graph /\ \A d \in Clients : Shape(d)
    BY CurrentIsGraph DEF ShapeInv
  <1>2. TypeOK'
    BY <1>1, EndCallTypes, SucceedTypes, FailTypes, ZenonT(40) DEF Commit, Succeed, Fail, TypeOK, PCs
  <1>3. CASE EndCall(c)
    BY <1>1, <1>2, <1>3, SessionAssumption DEF Commit, EndCall, TypeOK, ShapeInv, Shape, SnapHeld, Reading, MineOK, AutoOK, GateOK
  <1>4. CASE /\ mine[c] # {}
             /\ pc' = [pc EXCEPT ![c] = "commit"]
             /\ UNCHANGED <<snap, mine, autoWriter>>
    BY <1>1, <1>2, <1>4, SessionAssumption DEF Commit, TypeOK, ShapeInv, Shape, SnapHeld, Reading, MineOK, AutoOK, GateOK
  <1> QED
    BY <1>3, <1>4 DEF Commit, Succeed, Fail

\* The check ends the call, sends it round again or takes the gate.
LEMMA PublishCheckShape ==
    ASSUME ShapeInv, NEW c \in Clients, PublishCheck(c)
    PROVE  ShapeInv'
  <1> USE DEF store, locals, ghost, disk
  <1>1. TypeOK /\ Current \in Graph /\ \A d \in Clients : Shape(d)
    BY CurrentIsGraph DEF ShapeInv
  <1>2. CASE Fail(c) /\ UNCHANGED gate
    <2>1. TypeOK'
      BY <1>1, <1>2, EndCallTypes, FailTypes DEF PublishCheck, Fail, TypeOK
    <2> QED
      BY <1>1, <1>2, <2>1, SessionAssumption DEF PublishCheck, Fail, EndCall, TypeOK, ShapeInv, Shape, SnapHeld, Reading, MineOK, AutoOK, GateOK
  <1>3. CASE /\ autoWriter = c /\ UNCHANGED gate
             /\ pc' = [pc EXCEPT ![c] = "autoFork"]
             /\ tries' = [tries EXCEPT ![c] = @ + 1]
             /\ work' = [work EXCEPT ![c] = Blank]
             /\ UNCHANGED <<snap, base, mine, occ, autoWriter, ghost>>
    <2>1. Blank \in Graph
      BY DEF Blank, Graph
    <2>2. TypeOK'
      BY <1>1, <1>3, <2>1 DEF PublishCheck, TypeOK, PCs
    <2> QED
      BY <1>1, <1>3, <2>2, SessionAssumption DEF PublishCheck, TypeOK, ShapeInv, Shape, SnapHeld, Reading, MineOK, AutoOK, GateOK
  <1>4. CASE /\ gate' = c
             /\ pc' = [pc EXCEPT ![c] = "flush"]
             /\ UNCHANGED <<snap, work, base, mine, occ, tries, autoWriter, ghost>>
    <2>1. TypeOK'
      BY <1>1, <1>4 DEF PublishCheck, TypeOK, PCs
    <2> QED
      BY <1>1, <1>4, <2>1, SessionAssumption DEF PublishCheck, TypeOK, ShapeInv, Shape, SnapHeld, Reading, MineOK, AutoOK, GateOK
  <1> QED
    BY <1>2, <1>3, <1>4 DEF PublishCheck, Conflicted

\* The swap gives the gate back.
LEMMA PublishShape ==
    ASSUME ShapeInv, NEW c \in Clients, Publish(c)
    PROVE  ShapeInv'
  <1> USE DEF store, locals, ghost, disk
  <1>1. TypeOK /\ Current \in Graph /\ \A d \in Clients : Shape(d)
    BY CurrentIsGraph DEF ShapeInv
  <1>2. Published(c) \in Graph
    BY <1>1 DEF Published, TypeOK, Graph
  <1>3. TypeOK'
    BY <1>1, <1>2, SwapFacts, EndCallTypes, SucceedTypes DEF Publish, Succeed, FreeCells, TypeOK
  <1>4. \A d \in Clients : Shape(d)'
    BY <1>1, <1>2, SessionAssumption DEF Publish, Succeed, EndCall, TypeOK, Shape, SnapHeld, Reading, MineOK, AutoOK, GateOK
  <1> QED
    BY <1>3, <1>4 DEF ShapeInv

\* A failed barrier gives the gate back.
LEMMA FlushFailsShape ==
    ASSUME ShapeInv, NEW c \in Clients, FlushFails(c)
    PROVE  ShapeInv'
  <1> USE DEF store, locals, ghost, disk
  <1>1. TypeOK /\ Current \in Graph /\ \A d \in Clients : Shape(d)
    BY CurrentIsGraph DEF ShapeInv
  <1>2. TypeOK'
    BY <1>1, EndCallTypes, FailTypes DEF FlushFails, Fail, TypeOK
  <1>3. \A d \in Clients : Shape(d)'
    BY <1>1, SessionAssumption DEF FlushFails, Fail, EndCall, TypeOK, Shape, SnapHeld, Reading, MineOK, AutoOK, GateOK
  <1> QED
    BY <1>2, <1>3 DEF ShapeInv

\* An auto-commit statement takes its mutex.
LEMMA AutoStartShape ==
    ASSUME ShapeInv, NEW c \in Clients, NEW w \in Writes, AutoStart(c, w)
    PROVE  ShapeInv'
  <1> USE DEF store, locals, ghost, disk
  <1>1. TypeOK /\ Current \in Graph /\ \A d \in Clients : Shape(d)
    BY CurrentIsGraph DEF ShapeInv
  <1>2. TypeOK'
    BY <1>1 DEF AutoStart, TypeOK, PCs
  <1>3. \A d \in Clients : Shape(d)'
    BY <1>1, SessionAssumption DEF AutoStart, TypeOK, Shape, SnapHeld, Reading, MineOK, AutoOK, GateOK
  <1> QED
    BY <1>2, <1>3 DEF ShapeInv

\* The in-place path ends the call.
LEMMA AutoInPlaceShape ==
    ASSUME ShapeInv, NEW c \in Clients, AutoInPlace(c)
    PROVE  ShapeInv'
  <1> USE DEF store, locals, ghost, disk
  <1>1. TypeOK /\ Current \in Graph /\ \A d \in Clients : Shape(d)
    BY CurrentIsGraph DEF ShapeInv
  <1>2. heap' \in [Cells -> Graph]
    <2>1. ASSUME NEW w \in mine[c], heap' = [heap EXCEPT ![published] = Mutated(@, w)]
          PROVE  heap' \in [Cells -> Graph]
      <3>1. w \in Writes
        BY <1>1 DEF TypeOK
      <3>2. Mutated(heap[published], w) \in Graph
        BY <1>1, <3>1, MutatedFacts DEF Current
      <3> QED
        BY <1>1, <2>1, <3>2 DEF TypeOK
    <2> QED
      BY <1>1, <2>1 DEF AutoInPlace, TypeOK
  <1>3. EndCall(c) /\ (Succeed(c) \/ Fail(c)) /\ UNCHANGED <<published, gate, retired, disk>>
    BY DEF AutoInPlace, Succeed, Fail
  <1>4. TypeOK'
    BY <1>1, <1>2, <1>3, EndCallTypes, SucceedTypes, FailTypes DEF TypeOK
  <1>5. \A d \in Clients : Shape(d)'
    BY <1>1, <1>3, SessionAssumption DEF AutoInPlace, EndCall, TypeOK, Shape, SnapHeld, Reading, MineOK, AutoOK, GateOK
  <1> QED
    BY <1>4, <1>5 DEF ShapeInv

\* The fork path starts.
LEMMA AutoFallbackShape ==
    ASSUME ShapeInv, NEW c \in Clients, AutoFallback(c)
    PROVE  ShapeInv'
  <1> USE DEF store, locals, ghost, disk
  <1>1. TypeOK /\ Current \in Graph /\ \A d \in Clients : Shape(d)
    BY CurrentIsGraph DEF ShapeInv
  <1>2. TypeOK'
    BY <1>1 DEF AutoFallback, TypeOK, PCs
  <1>3. \A d \in Clients : Shape(d)'
    BY <1>1, SessionAssumption DEF AutoFallback, TypeOK, Shape, SnapHeld, Reading, MineOK, AutoOK, GateOK
  <1> QED
    BY <1>2, <1>3 DEF ShapeInv

\* The fork path takes a snapshot.
LEMMA AutoBeginShape ==
    ASSUME ShapeInv, NEW c \in Clients, AutoBegin(c)
    PROVE  ShapeInv'
  <1> USE DEF store, locals, ghost, disk
  <1>1. TypeOK /\ Current \in Graph /\ \A d \in Clients : Shape(d)
    BY CurrentIsGraph DEF ShapeInv
  <1>2. TypeOK'
    BY <1>1 DEF AutoBegin, TakeSnapshot, TypeOK, PCs, Graph
  <1>3. \A d \in Clients : Shape(d)'
    BY <1>1, SessionAssumption DEF AutoBegin, TakeSnapshot, TypeOK, Shape, SnapHeld, Reading, MineOK, AutoOK, GateOK
  <1> QED
    BY <1>2, <1>3 DEF ShapeInv

\* The fork path has its working copy, or the call ends.
LEMMA AutoExecuteShape ==
    ASSUME ShapeInv, NEW c \in Clients, AutoExecute(c)
    PROVE  ShapeInv'
  <1> USE DEF store, locals, ghost, disk
  <1>1. TypeOK /\ Current \in Graph /\ \A d \in Clients : Shape(d)
    BY CurrentIsGraph DEF ShapeInv
  <1>2. CASE Fail(c)
    <2>1. TypeOK'
      BY <1>1, <1>2, EndCallTypes, FailTypes DEF AutoExecute, Fail, TypeOK
    <2> QED
      BY <1>1, <1>2, <2>1, SessionAssumption DEF AutoExecute, Fail, EndCall, TypeOK, ShapeInv, Shape, SnapHeld, Reading, MineOK, AutoOK, GateOK
  <1>3. ASSUME NEW w \in mine[c],
               work' = [work EXCEPT ![c] = Mutated(heap[snap[c]], w)],
               snap' = [snap EXCEPT ![c] = NoCell],
               occ' = [occ EXCEPT ![c] = TRUE],
               pc' = [pc EXCEPT ![c] = "commit"],
               UNCHANGED <<base, mine, tries, autoWriter, ghost>>
        PROVE  ShapeInv'
    <2>1. w \in Writes
      BY <1>1 DEF TypeOK
    <2>2. Mutated(heap[snap[c]], w) \in Graph
      BY <1>1, <2>1, CurrentIsGraph, MutatedFacts DEF AutoExecute, Shape, SnapHeld, Reading, MineOK, AutoOK, GateOK
    <2>3. TypeOK'
      BY <1>1, <1>3, <2>2 DEF AutoExecute, TypeOK, PCs
    <2> QED
      BY <1>1, <1>3, <2>3, SessionAssumption DEF AutoExecute, TypeOK, ShapeInv, Shape, SnapHeld, Reading, MineOK, AutoOK, GateOK
  <1> QED
    BY <1>2, <1>3 DEF AutoExecute

\* A closure runs under the gate.
LEMMA ClosureRunShape ==
    ASSUME ShapeInv, NEW c \in Clients, NEW w \in Writes, ClosureRun(c, w)
    PROVE  ShapeInv'
  <1> USE DEF store, locals, ghost, disk
  <1>1. TypeOK /\ Current \in Graph /\ \A d \in Clients : Shape(d)
    BY CurrentIsGraph DEF ShapeInv
  <1>2. Current.version \in Nat
    BY <1>1 DEF Graph
  <1>3. Mutated(Current, w) \in Graph
    BY <1>1, MutatedFacts
  <1>4. [Current EXCEPT !.writes = @ \cup {w}] \in Graph
    BY <1>1 DEF Graph
  <1>5. work' \in [Clients -> Graph]
    BY <1>1, <1>3, <1>4 DEF ClosureRun, TypeOK
  <1>6. TypeOK'
    BY <1>1, <1>2, <1>5 DEF ClosureRun, TypeOK, PCs
  <1>7. \A d \in Clients : Shape(d)'
    BY <1>1, SessionAssumption DEF ClosureRun, TypeOK, Shape, SnapHeld, Reading, MineOK, AutoOK, GateOK
  <1> QED
    BY <1>6, <1>7 DEF ShapeInv

\* A closure ends, or keeps the gate for its barrier.
LEMMA ClosureEndShape ==
    ASSUME ShapeInv, NEW c \in Clients, ClosureEnd(c)
    PROVE  ShapeInv'
  <1> USE DEF store, locals, ghost, disk
  <1>1. TypeOK /\ Current \in Graph /\ \A d \in Clients : Shape(d)
    BY CurrentIsGraph DEF ShapeInv
  <1>2. work[c] \in Graph
    BY <1>1 DEF TypeOK
  <1>3. TypeOK'
    BY <1>1, <1>2, SwapFacts, EndCallTypes, SucceedTypes, FailTypes DEF ClosureEnd, Succeed, Fail, FreeCells, TypeOK, PCs
  <1>4. \A d \in Clients : Shape(d)'
    BY <1>1, <1>2, SessionAssumption DEF ClosureEnd, Succeed, Fail, EndCall, TypeOK, Shape, SnapHeld, Reading, MineOK, AutoOK, GateOK
  <1> QED
    BY <1>3, <1>4 DEF ShapeInv

\* A direct write touches no call.
LEMMA DirectWriteShape ==
    ASSUME ShapeInv, NEW c \in Clients, NEW w \in Writes, DirectWrite(c, w)
    PROVE  ShapeInv'
  <1> USE DEF store, locals, ghost, disk
  <1>1. TypeOK /\ Current \in Graph /\ \A d \in Clients : Shape(d)
    BY CurrentIsGraph DEF ShapeInv
  <1>2. Mutated(Current, w) \in Graph
    BY <1>1, MutatedFacts
  <1>3. TypeOK'
    BY <1>1, <1>2, MutatedFacts, SwapFacts, ZenonT(40) DEF DirectWrite, InPlaceOrFork, Acknowledge, FreeCells, TypeOK
  <1>4. \A d \in Clients : Shape(d)'
    BY <1>1, <1>2, SessionAssumption DEF DirectWrite, TypeOK, Shape, SnapHeld, Reading, MineOK, AutoOK, GateOK
  <1> QED
    BY <1>3, <1>4 DEF ShapeInv

\* A detached transaction touches no call.
LEMMA TransactShape ==
    ASSUME ShapeInv, NEW c \in Clients, NEW w \in Writes, Transact(c, w)
    PROVE  ShapeInv'
  <1> USE DEF store, locals, ghost, disk
  <1>1. TypeOK /\ Current \in Graph /\ \A d \in Clients : Shape(d)
    BY CurrentIsGraph DEF ShapeInv
  <1>2. Mutated(Current, w) \in Graph
    BY <1>1, MutatedFacts
  <1>3. TypeOK'
    BY <1>1, <1>2, SwapFacts DEF Transact, Acknowledge, FreeCells, TypeOK
  <1>4. \A d \in Clients : Shape(d)'
    BY <1>1, <1>2, SessionAssumption DEF Transact, TypeOK, Shape, SnapHeld, Reading, MineOK, AutoOK, GateOK
  <1> QED
    BY <1>3, <1>4 DEF ShapeInv

\* Locking the ontology touches no call.
LEMMA LockOntologyShape ==
    ASSUME ShapeInv, NEW c \in Clients, LockOntology(c)
    PROVE  ShapeInv'
  <1> USE DEF store, locals, ghost, disk
  <1>1. TypeOK /\ Current \in Graph /\ \A d \in Clients : Shape(d)
    BY CurrentIsGraph DEF ShapeInv
  <1>2. [Current EXCEPT !.locked = TRUE] \in Graph
    BY <1>1 DEF Graph
  <1>3. TypeOK'
    BY <1>1, <1>2, SwapFacts DEF LockOntology, InPlaceOrFork, FreeCells, TypeOK
  <1>4. \A d \in Clients : Shape(d)'
    BY <1>1, <1>2, SessionAssumption DEF LockOntology, TypeOK, Shape, SnapHeld, Reading, MineOK, AutoOK, GateOK
  <1> QED
    BY <1>3, <1>4 DEF ShapeInv

\* Retiring touches no call.
LEMMA RetireShape ==
    ASSUME ShapeInv, NEW c \in Clients, Retire(c)
    PROVE  ShapeInv'
  <1> USE DEF store, locals, ghost, disk
  <1>1. TypeOK /\ Current \in Graph /\ \A d \in Clients : Shape(d)
    BY CurrentIsGraph DEF ShapeInv
  <1>2. TypeOK'
    BY <1>1 DEF Retire, TypeOK
  <1>3. \A d \in Clients : Shape(d)'
    BY <1>1, SessionAssumption DEF Retire, TypeOK, Shape, SnapHeld, Reading, MineOK, AutoOK, GateOK
  <1> QED
    BY <1>2, <1>3 DEF ShapeInv

\* A checkpoint reads the version.
LEMMA CheckpointReadShape ==
    ASSUME ShapeInv, NEW c \in Clients, CheckpointRead(c)
    PROVE  ShapeInv'
  <1> USE DEF store, locals, ghost, disk
  <1>1. TypeOK /\ Current \in Graph /\ \A d \in Clients : Shape(d)
    BY CurrentIsGraph DEF ShapeInv
  <1>2. TypeOK'
    BY <1>1 DEF CheckpointRead, TypeOK, PCs, Graph
  <1>3. \A d \in Clients : Shape(d)'
    BY <1>1, SessionAssumption DEF CheckpointRead, TypeOK, Shape, SnapHeld, Reading, MineOK, AutoOK, GateOK
  <1> QED
    BY <1>2, <1>3 DEF ShapeInv

\* A checkpoint saves.
LEMMA CheckpointSaveShape ==
    ASSUME ShapeInv, NEW c \in Clients, CheckpointSave(c)
    PROVE  ShapeInv'
  <1> USE DEF store, locals, ghost, disk
  <1>1. TypeOK /\ Current \in Graph /\ \A d \in Clients : Shape(d)
    BY CurrentIsGraph DEF ShapeInv
  <1>2. TypeOK'
    BY <1>1, EndCallTypes, FailTypes DEF CheckpointSave, Fail, TypeOK, PCs, Graph
  <1>3. \A d \in Clients : Shape(d)'
    BY <1>1, SessionAssumption DEF CheckpointSave, Fail, EndCall, TypeOK, Shape, SnapHeld, Reading, MineOK, AutoOK, GateOK
  <1> QED
    BY <1>2, <1>3 DEF ShapeInv

\* A checkpoint records the version it read.
LEMMA CheckpointRecordShape ==
    ASSUME ShapeInv, NEW c \in Clients, CheckpointRecord(c)
    PROVE  ShapeInv'
  <1> USE DEF store, locals, ghost, disk
  <1>1. TypeOK /\ Current \in Graph /\ \A d \in Clients : Shape(d)
    BY CurrentIsGraph DEF ShapeInv
  <1>2. TypeOK'
    BY <1>1, EndCallTypes, SucceedTypes DEF CheckpointRecord, Succeed, TypeOK
  <1>3. \A d \in Clients : Shape(d)'
    BY <1>1, SessionAssumption DEF CheckpointRecord, Succeed, EndCall, TypeOK, Shape, SnapHeld, Reading, MineOK, AutoOK, GateOK
  <1> QED
    BY <1>2, <1>3 DEF ShapeInv

\* Every step keeps the shape.
LEMMA NextShape == ShapeInv /\ [Next]_vars => ShapeInv'
  <1> SUFFICES ASSUME ShapeInv, [Next]_vars PROVE ShapeInv'
    OBVIOUS
  <1>1. CASE UNCHANGED vars
    BY <1>1 DEF vars, store, locals, ghost, disk, ShapeInv, TypeOK, Shape, SnapHeld, Reading, MineOK, AutoOK, GateOK
  <1>2. CASE Next
    <2>1. PICK c \in Clients : Request(c) \/ Progress(c)
      BY <1>2 DEF Next
    <2>2. CASE Request(c)
      BY <2>2, BeginShape, RollbackShape, CommitShape, LockOntologyShape, RetireShape,
         CheckpointReadShape, ExecuteShape, AutoStartShape, ClosureRunShape,
         DirectWriteShape, TransactShape DEF Request
    <2>3. CASE Progress(c)
      BY <2>3, PublishCheckShape, PublishShape, FlushFailsShape, AutoInPlaceShape,
         AutoFallbackShape, AutoBeginShape, AutoExecuteShape, ClosureEndShape,
         CheckpointSaveShape, CheckpointRecordShape DEF Progress
    <2> QED
      BY <2>1, <2>2, <2>3
  <1> QED
    BY <1>1, <1>2

\* Whatever calls clients make and however many there are, every variable
\* keeps its type and every call its shape: the gate and the auto-commit mutex
\* are held by the clients inside them, and a transaction holds a snapshot
\* exactly until its first mutation.
THEOREM ShapeCorrect == Spec => []ShapeInv
  <1>1. Init => ShapeInv
    BY InitShape
  <1>2. ShapeInv /\ [Next]_vars => ShapeInv'
    BY NextShape
  <1> QED
    BY <1>1, <1>2, PTL DEF Spec

\* Type correctness.
THEOREM TypeCorrect == Spec => []TypeOK
  <1>1. ShapeInv => TypeOK
    BY DEF ShapeInv
  <1> QED
    BY <1>1, ShapeCorrect, PTL

-----------------------------------------------------------------------------
(* No acknowledged write is lost.                                          *)

\* The published graph stands, or moves on: its version grows, and its writes
\* with it.
Moves ==
    \/ /\ Current'.version > Current.version
       /\ Current.writes \subseteq Current'.writes
    \/ /\ Current'.version = Current.version
       /\ Current'.writes = Current.writes

\* Every snapshot holds the graph it held.
SnapsStand == \A d \in Clients : snap[d] # NoCell => heap'[snap[d]] = heap[snap[d]]

\* What the calls of the clients other than c know is unchanged.
OthersStand(c) ==
    \A d \in Clients \ {c} :
        /\ pc'[d] = pc[d]
        /\ snap'[d] = snap[d]
        /\ work'[d] = work[d]
        /\ base'[d] = base[d]
        /\ mine'[d] = mine[d]
        /\ occ'[d] = occ[d]

\* A swap publishes the graph given and leaves every snapshot alone.
LEMMA SwapPublishes ==
    ASSUME TypeOK, NEW g, Swap(g)
    PROVE  Current' = g /\ SnapsStand
  <1>1. Current' = g
    BY SwapFacts DEF Current
  <1>2. ASSUME NEW d \in Clients, snap[d] # NoCell PROVE snap[d] \in Held \cap Cells
    BY <1>2 DEF TypeOK, Held
  <1> QED
    BY <1>1, <1>2, SwapFacts DEF SnapsStand

\* So does a write that works in place when the published cell is unshared.
LEMMA InPlaceOrForkPublishes ==
    ASSUME TypeOK, NEW g, InPlaceOrFork(g)
    PROVE  Current' = g /\ SnapsStand
  <1>1. CASE Unshared
    BY <1>1 DEF InPlaceOrFork, Unshared, Current, SnapsStand, TypeOK
  <1>2. CASE ~Unshared
    BY <1>2, SwapPublishes DEF InPlaceOrFork
  <1> QED
    BY <1>1, <1>2

\* A graph that nobody touches stands.
LEMMA StoreStands ==
    ASSUME UNCHANGED store
    PROVE  Current' = Current /\ Moves /\ SnapsStand
  BY DEF store, Current, Moves, SnapsStand

\* Whoever finds the gate free, or holds it, is alone past it.
LEMMA GateExcludes ==
    ASSUME ShapeInv, NEW c \in Clients, gate = NoClient \/ gate = c
    PROVE  \A d \in Clients \ {c} : pc[d] \notin {"flush", "closure"}
  BY SessionAssumption DEF ShapeInv, Shape, GateOK

\* A step of one client keeps what the invariant says of the others, as long
\* as it moves the graph only while none of them is past the gate.
LEMMA OthersOcc ==
    ASSUME ShapeInv, ShapeInv', OccInv, NEW c \in Clients,
           OthersStand(c), SnapsStand, Moves,
           \/ Current' = Current
           \/ \A d \in Clients \ {c} : pc[d] \notin {"flush", "closure"}
    PROVE  \A d \in Clients \ {c} : Occ(d)'
  <1> TAKE d \in Clients \ {c}
  <1>1. /\ Occ(d)
        /\ base[d] \in Nat
        /\ Current.version \in Nat
        /\ Current'.version \in Nat
    BY CurrentIsGraph DEF OccInv, ShapeInv, TypeOK, Current, Graph
  <1>2. /\ pc'[d] = pc[d] /\ snap'[d] = snap[d] /\ work'[d] = work[d]
        /\ base'[d] = base[d] /\ mine'[d] = mine[d] /\ occ'[d] = occ[d]
    BY DEF OthersStand
  <1>3. ASSUME base[d] <= Current.version, base[d] = Current'.version
        PROVE  base[d] = Current.version /\ Current'.writes = Current.writes
    BY <1>1, <1>3 DEF Moves
  <1>4. base[d] <= Current.version => base[d] <= Current'.version
    BY <1>1 DEF Moves
  <1>5. SnapOK(d)'
    <2> SUFFICES ASSUME snap[d] # NoCell
                 PROVE  /\ base[d] = heap'[snap[d]].version
                        /\ base[d] <= Current'.version
                        /\ base[d] = Current'.version
                             => heap'[snap[d]].writes = Current'.writes
      BY <1>2 DEF SnapOK
    <2>1. heap'[snap[d]] = heap[snap[d]]
      BY DEF SnapsStand
    <2> QED
      BY <1>1, <1>3, <1>4, <2>1 DEF Occ, SnapOK
  <1>6. WorkOK(d)'
    <2> SUFFICES ASSUME pc[d] = "commit" \/ (pc[d] = "open" /\ mine[d] # {})
                 PROVE  /\ base[d] <= Current'.version
                        /\ base[d] = Current'.version
                             => work[d].writes = Current'.writes \cup mine[d]
      BY <1>2 DEF WorkOK
    <2> QED
      BY <1>1, <1>3, <1>4 DEF Occ, WorkOK
  <1>7. HeldOK(d)'
    BY <1>1, <1>2 DEF Occ, HeldOK
  <1>8. OccOK(d)'
    BY <1>1, <1>2 DEF Occ, OccOK
  <1> QED
    BY <1>5, <1>6, <1>7, <1>8 DEF Occ

\* A client whose call has ended has nothing left to say.
LEMMA EndedOcc ==
    ASSUME TypeOK, NEW c \in Clients, EndCall(c)
    PROVE  Occ(c)' /\ OthersStand(c)
  <1>1. pc'[c] = "idle" /\ snap'[c] = NoCell
    BY DEF EndCall, TypeOK
  <1>2. OthersStand(c)
    BY DEF EndCall, OthersStand, TypeOK
  <1> QED
    BY <1>1, <1>2 DEF Occ, SnapOK, WorkOK, HeldOK, OccOK

\* A call that fails, or has nothing to publish, leaves every graph alone and
\* acknowledges nothing.
LEMMA FailOcc ==
    ASSUME ShapeInv, ShapeInv', OccInv, NEW c \in Clients, Fail(c), UNCHANGED store
    PROVE  OccInv'
  <1>1. Occ(c)' /\ OthersStand(c)
    BY EndedOcc DEF Fail, ShapeInv
  <1>2. \A d \in Clients \ {c} : Occ(d)'
    BY <1>1, OthersOcc, StoreStands
  <1>3. NoLostUpdate'
    BY StoreStands DEF OccInv, NoLostUpdate, Fail
  <1> QED
    BY <1>1, <1>2, <1>3 DEF OccInv

\* A call that goes on without touching the graph or acknowledging anything
\* only has to answer for itself.
LEMMA GoesOnOcc ==
    ASSUME ShapeInv, ShapeInv', OccInv, NEW c \in Clients,
           OthersStand(c), UNCHANGED <<store, acked>>, Occ(c)'
    PROVE  OccInv'
  <1>1. \A d \in Clients \ {c} : Occ(d)'
    BY OthersOcc, StoreStands DEF store
  <1>2. NoLostUpdate'
    BY StoreStands DEF OccInv, NoLostUpdate, store
  <1> QED
    BY <1>1, <1>2 DEF OccInv

\* A client past the gate that publishes a graph with every published write,
\* and acknowledges only writes in it, loses none.
LEMMA PublishedOcc ==
    ASSUME ShapeInv, ShapeInv', OccInv, NEW c \in Clients,
           gate = NoClient \/ gate = c,
           OthersStand(c), SnapsStand, Moves, Occ(c)',
           acked' \subseteq acked \cup Current'.writes
    PROVE  OccInv'
  <1>1. \A d \in Clients \ {c} : Occ(d)'
    BY OthersOcc, GateExcludes
  <1>2. Current.writes \subseteq Current'.writes
    BY DEF Moves
  <1>3. NoLostUpdate'
    BY <1>2 DEF OccInv, NoLostUpdate
  <1> QED
    BY <1>1, <1>3 DEF OccInv

-----------------------------------------------------------------------------
(* One lemma for each action that can disturb it.                          *)

\* An idle client knows nothing of the graph.
LEMMA IdleOcc ==
    ASSUME ShapeInv, NEW c \in Clients, pc[c] = "idle"
    PROVE  mine[c] = {} /\ snap[c] = NoCell
  BY DEF ShapeInv, Shape, MineOK, SnapHeld, Reading

\* A snapshot just taken is the published graph.
LEMMA SnapshotOcc ==
    ASSUME ShapeInv, ShapeInv', OccInv, NEW c \in Clients, Begin(c) \/ AutoBegin(c)
    PROVE  OccInv'
  <1>1. /\ OthersStand(c)
        /\ UNCHANGED <<store, acked>>
        /\ snap'[c] = published
        /\ base'[c] = Current.version
        /\ pc'[c] \in {"open", "reading", "autoRun"}
        /\ pc'[c] = "open" => mine'[c] = {}
    BY IdleOcc DEF Begin, AutoBegin, TakeSnapshot, OthersStand, ShapeInv, TypeOK,
                   store, ghost
  <1>2. Current.version \in Nat
    BY CurrentIsGraph DEF ShapeInv, Graph
  <1>3. SnapOK(c)'
    BY <1>1, <1>2 DEF SnapOK, Current, store
  <1>4. WorkOK(c)' /\ HeldOK(c)' /\ OccOK(c)'
    BY <1>1 DEF WorkOK, HeldOK, OccOK
  <1> QED
    BY <1>1, <1>3, <1>4, GoesOnOcc DEF Occ

\* A mutation adds its write to the working copy and to the call's own.
LEMMA ExecuteOcc ==
    ASSUME ShapeInv, ShapeInv', OccInv, NEW c \in Clients, NEW w \in Writes, Execute(c, w)
    PROVE  OccInv'
  <1>1. /\ OthersStand(c)
        /\ UNCHANGED <<store, acked>>
        /\ pc[c] = "open" /\ pc'[c] = "open"
        /\ snap'[c] = NoCell
        /\ base'[c] = base[c]
        /\ work'[c] = Mutated(View(c), w)
        /\ mine'[c] = mine[c] \cup {w}
    BY DEF Execute, OthersStand, ShapeInv, TypeOK, store
  <1>2. View(c) \in Graph
    BY <1>1, CurrentIsGraph DEF View, ShapeInv, TypeOK, Shape, SnapHeld, Reading
  <1>3. work'[c].writes = View(c).writes \cup {w}
    BY <1>1, <1>2, MutatedFacts
  <1>4. /\ base[c] <= Current.version
        /\ base[c] = Current.version => View(c).writes = Current.writes \cup mine[c]
    <2>1. CASE mine[c] = {}
      BY <1>1, <2>1 DEF OccInv, Occ, SnapOK, View, ShapeInv, Shape, SnapHeld, Reading
    <2>2. CASE mine[c] # {}
      BY <1>1, <2>2 DEF OccInv, Occ, WorkOK, View
    <2> QED
      BY <2>1, <2>2
  <1>5. Current' = Current
    BY <1>1 DEF store, Current
  <1>6. WorkOK(c)'
    BY <1>1, <1>3, <1>4, <1>5 DEF WorkOK
  <1>7. SnapOK(c)' /\ HeldOK(c)' /\ OccOK(c)'
    BY <1>1 DEF SnapOK, HeldOK, OccOK
  <1> QED
    BY <1>1, <1>6, <1>7, GoesOnOcc DEF Occ

\* A commit that goes on to the gate will check its version.
LEMMA CommitOcc ==
    ASSUME "lww" \notin Calls,
           ShapeInv, ShapeInv', OccInv, NEW c \in Clients, Commit(c)
    PROVE  OccInv'
  <1>1. CASE mine[c] = {} /\ Succeed(c)
    <2>1. Occ(c)' /\ OthersStand(c)
      BY <1>1, EndedOcc DEF Succeed, ShapeInv
    <2>2. UNCHANGED <<store, acked>>
      BY <1>1 DEF Commit, Succeed
    <2> QED
      BY <2>1, <2>2, GoesOnOcc
  <1>2. CASE Fail(c)
    BY <1>2, FailOcc DEF Commit
  <1>3. CASE /\ mine[c] # {}
             /\ pc' = [pc EXCEPT ![c] = "commit"]
             /\ \E o \in {TRUE} \cup (IF "lww" \in Calls THEN {FALSE} ELSE {}) :
                   occ' = [occ EXCEPT ![c] = o]
             /\ UNCHANGED <<snap, work, base, mine, tries, autoWriter, ghost>>
    <2>1. occ' = [occ EXCEPT ![c] = TRUE]
      BY <1>3
    <2>2. /\ OthersStand(c)
          /\ UNCHANGED <<store, acked>>
          /\ pc[c] = "open" /\ pc'[c] = "commit"
          /\ occ'[c]
          /\ snap'[c] = snap[c] /\ work'[c] = work[c]
          /\ base'[c] = base[c] /\ mine'[c] = mine[c]
      BY <1>3, <2>1 DEF Commit, OthersStand, ShapeInv, TypeOK, store, ghost
    <2>3. Current' = Current
      BY <2>2 DEF store, Current
    <2>4. snap[c] = NoCell
      BY <1>3, <2>2 DEF ShapeInv, Shape, SnapHeld, Reading
    <2>5. WorkOK(c)'
      BY <1>3, <2>2, <2>3 DEF OccInv, Occ, WorkOK
    <2>6. SnapOK(c)' /\ HeldOK(c)' /\ OccOK(c)'
      BY <2>2, <2>4 DEF SnapOK, HeldOK, OccOK
    <2> QED
      BY <2>2, <2>5, <2>6, GoesOnOcc DEF Occ
  <1> QED
    BY <1>1, <1>2, <1>3 DEF Commit

\* A commit takes the gate only when its working copy adds to the very graph
\* that is published.
LEMMA PublishCheckOcc ==
    ASSUME ShapeInv, ShapeInv', OccInv, NEW c \in Clients, PublishCheck(c)
    PROVE  OccInv'
  <1>1. CASE Fail(c)
    BY <1>1, FailOcc DEF PublishCheck
  <1>2. pc[c] = "commit" /\ snap[c] = NoCell /\ UNCHANGED store
    BY DEF PublishCheck, ShapeInv, Shape, SnapHeld, Reading
  <1>3. CASE /\ pc' = [pc EXCEPT ![c] = "autoFork"]
             /\ work' = [work EXCEPT ![c] = Blank]
             /\ UNCHANGED <<snap, base, mine, occ, autoWriter, ghost>>
    <2>1. /\ OthersStand(c)
          /\ UNCHANGED acked
          /\ pc'[c] = "autoFork" /\ snap'[c] = NoCell
      BY <1>2, <1>3 DEF OthersStand, ShapeInv, TypeOK, ghost
    <2>2. Occ(c)'
      BY <2>1 DEF Occ, SnapOK, WorkOK, HeldOK, OccOK
    <2> QED
      BY <1>2, <2>1, <2>2, GoesOnOcc
  <1>4. CASE /\ ~Conflicts(c)
             /\ pc' = [pc EXCEPT ![c] = "flush"]
             /\ UNCHANGED <<snap, work, base, mine, occ, tries, autoWriter, ghost>>
    <2>1. /\ OthersStand(c)
          /\ UNCHANGED acked
          /\ pc'[c] = "flush" /\ snap'[c] = NoCell
          /\ work'[c] = work[c] /\ mine'[c] = mine[c]
      BY <1>2, <1>4 DEF OthersStand, ShapeInv, TypeOK, ghost
    <2>2. Current' = Current
      BY <1>2 DEF store, Current
    <2>3. base[c] = Current.version
      BY <1>2, <1>4 DEF Conflicts, OccInv, Occ, OccOK
    <2>4. work[c].writes = Current.writes \cup mine[c]
      BY <1>2, <2>3 DEF OccInv, Occ, WorkOK
    <2>5. Occ(c)'
      BY <2>1, <2>2, <2>4 DEF Occ, SnapOK, WorkOK, HeldOK, OccOK
    <2> QED
      BY <1>2, <2>1, <2>5, GoesOnOcc
  <1> QED
    BY <1>1, <1>3, <1>4 DEF PublishCheck, Conflicted

\* The swap publishes what was published with the commit's own writes.
LEMMA PublishOcc ==
    ASSUME ShapeInv, ShapeInv', OccInv, NEW c \in Clients, Publish(c)
    PROVE  OccInv'
  <1>1. gate = c
    BY DEF Publish, ShapeInv, Shape, GateOK
  <1>2. Current' = Published(c) /\ SnapsStand
    BY SwapPublishes DEF Publish, ShapeInv
  <1>3. Current.version \in Nat /\ work[c] \in Graph
    BY CurrentIsGraph DEF ShapeInv, TypeOK, Graph
  <1>4. Current'.version = Current.version + 1 /\ Current'.writes = work[c].writes
    BY <1>2, <1>3 DEF Published, Graph
  <1>5. work[c].writes = Current.writes \cup mine[c]
    BY DEF Publish, OccInv, Occ, HeldOK
  <1>6. Moves
    BY <1>3, <1>4, <1>5 DEF Moves
  <1>7. Occ(c)' /\ OthersStand(c)
    BY EndedOcc DEF Publish, Succeed, ShapeInv
  <1>8. acked' \subseteq acked \cup Current'.writes
    BY <1>4, <1>5 DEF Publish, Succeed
  <1> QED
    BY <1>1, <1>2, <1>6, <1>7, <1>8, PublishedOcc

\* An in-place statement adds its one write to the published graph.
LEMMA AutoInPlaceOcc ==
    ASSUME ShapeInv, ShapeInv', OccInv, NEW c \in Clients, AutoInPlace(c)
    PROVE  OccInv'
  <1>1. CASE Fail(c) /\ UNCHANGED heap
    BY <1>1, FailOcc DEF AutoInPlace, store
  <1>2. ASSUME NEW w \in mine[c], Unshared, Succeed(c),
               heap' = [heap EXCEPT ![published] = Mutated(@, w)]
        PROVE  OccInv'
    <2>1. gate = NoClient /\ published' = published
      BY DEF AutoInPlace
    <2>2. Current' = Mutated(Current, w) /\ SnapsStand
      BY <1>2, <2>1 DEF Unshared, Current, SnapsStand, ShapeInv, TypeOK
    <2>3. w \in Writes /\ Current \in Graph /\ Current.version \in Nat
      BY CurrentIsGraph DEF ShapeInv, TypeOK, Graph
    <2>4. Current'.version = Current.version + 1 /\ Current'.writes = Current.writes \cup {w}
      BY <2>2, <2>3, MutatedFacts
    <2>5. Moves
      BY <2>3, <2>4 DEF Moves
    <2>6. mine[c] = {w}
      BY DEF AutoInPlace, ShapeInv, Shape, AutoOK
    <2>7. Occ(c)' /\ OthersStand(c)
      BY <1>2, EndedOcc DEF Succeed, ShapeInv
    <2>8. acked' \subseteq acked \cup Current'.writes
      BY <1>2, <2>4, <2>6 DEF Succeed
    <2> QED
      BY <2>1, <2>2, <2>5, <2>7, <2>8, PublishedOcc
  <1> QED
    BY <1>1, <1>2 DEF AutoInPlace

\* A statement on its fork has the write of its call, over what it read.
LEMMA AutoExecuteOcc ==
    ASSUME ShapeInv, ShapeInv', OccInv, NEW c \in Clients, AutoExecute(c)
    PROVE  OccInv'
  <1>1. CASE Fail(c)
    BY <1>1, FailOcc DEF AutoExecute
  <1>2. ASSUME NEW w \in mine[c],
               work' = [work EXCEPT ![c] = Mutated(heap[snap[c]], w)],
               snap' = [snap EXCEPT ![c] = NoCell],
               occ' = [occ EXCEPT ![c] = TRUE],
               pc' = [pc EXCEPT ![c] = "commit"],
               UNCHANGED <<base, mine, tries, autoWriter, ghost>>
        PROVE  OccInv'
    <2>1. /\ OthersStand(c)
          /\ UNCHANGED <<store, acked>>
          /\ pc'[c] = "commit" /\ snap'[c] = NoCell /\ occ'[c]
          /\ base'[c] = base[c] /\ mine'[c] = mine[c]
          /\ work'[c] = Mutated(heap[snap[c]], w)
      BY <1>2 DEF AutoExecute, OthersStand, ShapeInv, TypeOK, store, ghost
    <2>2. w \in Writes /\ mine[c] = {w}
      BY <1>2 DEF AutoExecute, ShapeInv, TypeOK, Shape, AutoOK
    <2>3. snap[c] # NoCell
      BY DEF AutoExecute, ShapeInv, Shape, SnapHeld, Reading
    <2>4. work'[c].writes = heap[snap[c]].writes \cup mine[c]
      BY <2>1, <2>2, <2>3, CurrentIsGraph, MutatedFacts DEF ShapeInv
    <2>5. Current' = Current
      BY <2>1 DEF store, Current
    <2>6. WorkOK(c)'
      BY <2>1, <2>3, <2>4, <2>5 DEF OccInv, Occ, SnapOK, WorkOK
    <2>7. SnapOK(c)' /\ HeldOK(c)' /\ OccOK(c)'
      BY <2>1 DEF SnapOK, HeldOK, OccOK
    <2> QED
      BY <2>1, <2>6, <2>7, GoesOnOcc DEF Occ
  <1> QED
    BY <1>1, <1>2 DEF AutoExecute

\* A closure runs on the published graph and moves its version.
LEMMA ClosureRunOcc ==
    ASSUME "config" \notin Calls,
           ShapeInv, ShapeInv', OccInv, NEW c \in Clients, NEW w \in Writes, ClosureRun(c, w)
    PROVE  OccInv'
  <1>1. /\ OthersStand(c)
        /\ UNCHANGED <<store, acked>>
        /\ pc'[c] = "closure" /\ snap'[c] = NoCell
        /\ base'[c] = Current.version
        /\ work'[c] = Mutated(Current, w)
        /\ mine'[c] = {w}
    BY IdleOcc DEF ClosureRun, OthersStand, ShapeInv, TypeOK, store
  <1>2. /\ Current.version \in Nat
        /\ work'[c].version = Current.version + 1
        /\ work'[c].writes = Current.writes \cup {w}
    BY <1>1, CurrentIsGraph, MutatedFacts DEF ShapeInv, Graph
  <1>3. Current' = Current
    BY <1>1 DEF store, Current
  <1>4. HeldOK(c)'
    BY <1>1, <1>2, <1>3 DEF HeldOK
  <1>5. SnapOK(c)' /\ WorkOK(c)' /\ OccOK(c)'
    BY <1>1 DEF SnapOK, WorkOK, OccOK
  <1> QED
    BY <1>1, <1>4, <1>5, GoesOnOcc DEF Occ

\* A closure that moved the version waits for its barrier, gate in hand.
LEMMA ClosureEndOcc ==
    ASSUME ShapeInv, ShapeInv', OccInv, NEW c \in Clients, ClosureEnd(c)
    PROVE  OccInv'
  <1>1. CASE Fail(c) /\ UNCHANGED store
    BY <1>1, FailOcc
  <1>2. CASE work[c].version = base[c]
    BY <1>2 DEF ClosureEnd, OccInv, Occ, HeldOK
  <1>3. CASE /\ pc' = [pc EXCEPT ![c] = "flush"]
             /\ UNCHANGED <<store, snap, work, base, mine, occ, tries, gate, autoWriter, ghost>>
    <2>1. /\ OthersStand(c)
          /\ UNCHANGED <<store, acked>>
          /\ pc[c] = "closure" /\ pc'[c] = "flush"
          /\ snap'[c] = NoCell
          /\ work'[c] = work[c] /\ mine'[c] = mine[c]
      BY <1>3 DEF ClosureEnd, OthersStand, ShapeInv, TypeOK, Shape, SnapHeld, Reading, ghost
    <2>2. Current' = Current
      BY <2>1 DEF store, Current
    <2>3. Occ(c)'
      BY <2>1, <2>2 DEF OccInv, Occ, SnapOK, WorkOK, HeldOK, OccOK
    <2> QED
      BY <2>1, <2>3, GoesOnOcc
  <1> QED
    BY <1>1, <1>2, <1>3 DEF ClosureEnd

\* Direct writes and the ontology lock move the published graph on.
LEMMA DirectOcc ==
    ASSUME ShapeInv, ShapeInv', OccInv, NEW c \in Clients,
           \/ LockOntology(c)
           \/ \E w \in Writes : DirectWrite(c, w) \/ Transact(c, w)
    PROVE  OccInv'
  <1>1. /\ pc[c] = "idle" /\ gate = NoClient /\ UNCHANGED locals
    BY DEF LockOntology, DirectWrite, Transact
  <1>2. OthersStand(c)
    BY <1>1 DEF OthersStand, locals
  <1>3. Occ(c)'
    BY <1>1, IdleOcc DEF locals, Occ, SnapOK, WorkOK, HeldOK, OccOK
  <1>4. TypeOK /\ Current \in Graph /\ Current.version \in Nat
    BY CurrentIsGraph DEF ShapeInv, Graph
  <1>5. CASE LockOntology(c)
    <2>1. Current' = [Current EXCEPT !.locked = TRUE] /\ SnapsStand
      BY <1>4, <1>5, InPlaceOrForkPublishes DEF LockOntology
    <2>2. Moves
      BY <1>4, <2>1 DEF Moves, Graph
    <2> QED
      BY <1>1, <1>2, <1>3, <1>5, <2>1, <2>2, PublishedOcc DEF LockOntology, ghost
  <1>6. ASSUME NEW w \in Writes, DirectWrite(c, w) \/ Transact(c, w)
        PROVE  OccInv'
    <2>1. Current' = Mutated(Current, w) /\ SnapsStand
      BY <1>4, <1>6, InPlaceOrForkPublishes, SwapPublishes DEF DirectWrite, Transact
    <2>2. Current'.version = Current.version + 1 /\ Current'.writes = Current.writes \cup {w}
      BY <1>4, <2>1, MutatedFacts
    <2>3. Moves
      BY <1>4, <2>2 DEF Moves
    <2>4. acked' \subseteq acked \cup Current'.writes
      BY <1>6, <2>2 DEF DirectWrite, Transact, Acknowledge
    <2> QED
      BY <1>1, <1>2, <1>3, <2>1, <2>3, <2>4, PublishedOcc
  <1> QED
    BY <1>5, <1>6

\* Checkpoints, retiring and the bookkeeping of an auto-commit statement touch
\* no graph.
LEMMA BookkeepingOcc ==
    ASSUME ShapeInv, ShapeInv', OccInv, NEW c \in Clients,
           \/ Retire(c) \/ CheckpointRead(c) \/ CheckpointSave(c) \/ CheckpointRecord(c)
           \/ AutoFallback(c) \/ \E w \in Writes : AutoStart(c, w)
    PROVE  OccInv'
  <1>1. UNCHANGED store
    BY DEF Retire, CheckpointRead, CheckpointSave, CheckpointRecord, AutoFallback, AutoStart
  <1>2. CASE Fail(c)
    BY <1>1, <1>2, FailOcc
  <1>3. CASE CheckpointRecord(c)
    <2>1. Occ(c)' /\ OthersStand(c)
      BY <1>3, EndedOcc DEF CheckpointRecord, Succeed, ShapeInv
    <2>2. mine[c] = {} /\ acked' = acked
      BY <1>3 DEF CheckpointRecord, Succeed, ShapeInv, Shape, MineOK
    <2> QED
      BY <1>1, <2>1, <2>2, GoesOnOcc
  <1>4. CASE /\ pc'[c] \in {"idle", "ckSave", "ckRecord", "autoTry", "autoFork"}
             /\ snap'[c] = NoCell
             /\ OthersStand(c)
             /\ UNCHANGED acked
    <2>1. Occ(c)'
      BY <1>4 DEF Occ, SnapOK, WorkOK, HeldOK, OccOK
    <2> QED
      BY <1>1, <1>4, <2>1, GoesOnOcc
  <1>5. snap[c] = NoCell
    BY DEF Retire, CheckpointRead, CheckpointSave, CheckpointRecord, AutoFallback, AutoStart,
           ShapeInv, Shape, SnapHeld, Reading
  <1>6. CASE Retire(c)
    BY <1>4, <1>5, <1>6 DEF Retire, OthersStand, locals, ghost
  <1>7. CASE CheckpointRead(c)
    BY <1>4, <1>5, <1>7 DEF CheckpointRead, OthersStand, ShapeInv, TypeOK, ghost
  <1>8. CASE CheckpointSave(c)
    BY <1>2, <1>4, <1>5, <1>8 DEF CheckpointSave, OthersStand, ShapeInv, TypeOK, ghost
  <1>9. CASE AutoFallback(c)
    BY <1>4, <1>5, <1>9 DEF AutoFallback, OthersStand, ShapeInv, TypeOK, ghost
  <1>10. CASE \E w \in Writes : AutoStart(c, w)
    BY <1>4, <1>5, <1>10 DEF AutoStart, OthersStand, ShapeInv, TypeOK
  <1> QED
    BY <1>3, <1>6, <1>7, <1>8, <1>9, <1>10

-----------------------------------------------------------------------------
\* Every step keeps the invariant.
LEMMA NextOcc ==
    ASSUME "lww" \notin Calls, "config" \notin Calls,
           ShapeInv, ShapeInv', OccInv, [Next]_vars
    PROVE  OccInv'
  <1>1. CASE UNCHANGED vars
    BY <1>1 DEF vars, store, locals, ghost, disk, OccInv, NoLostUpdate, Current,
                Occ, SnapOK, WorkOK, HeldOK, OccOK
  <1>2. CASE Next
    <2>1. PICK c \in Clients : Request(c) \/ Progress(c)
      BY <1>2 DEF Next
    <2>2. CASE Rollback(c) \/ FlushFails(c)
      BY <2>2, FailOcc DEF Rollback, FlushFails
    <2>3. CASE Request(c)
      BY <2>2, <2>3, SnapshotOcc, CommitOcc, ExecuteOcc, ClosureRunOcc, DirectOcc,
         BookkeepingOcc DEF Request
    <2>4. CASE Progress(c)
      BY <2>2, <2>4, PublishCheckOcc, PublishOcc, AutoInPlaceOcc, SnapshotOcc,
         AutoExecuteOcc, ClosureEndOcc, BookkeepingOcc DEF Progress
    <2> QED
      BY <2>1, <2>3, <2>4
  <1> QED
    BY <1>1, <1>2

\* The published graph holds every acknowledged write, and what each call holds
\* is the published graph, as it was at its base version, and its own writes.
LEMMA OccHolds ==
    ASSUME "lww" \notin Calls, "config" \notin Calls
    PROVE  Spec => []OccInv
  <1>1. Init => OccInv
    BY SessionAssumption DEF Init, OccInv, NoLostUpdate, Occ, SnapOK, WorkOK, HeldOK, OccOK
  <1>2. ShapeInv /\ ShapeInv' /\ OccInv /\ [Next]_vars => OccInv'
    BY NextOcc
  <1> QED
    BY <1>1, <1>2, ShapeCorrect, PTL DEF Spec

\* No acknowledged write is ever lost: as long as no call commits without the
\* version check or writes without moving the version, every write a call
\* returned success for stays in the published graph, for any number of
\* threads, snapshots, writes and retries, at every durability level.
THEOREM AcknowledgedWritesStay ==
    ASSUME "lww" \notin Calls, "config" \notin Calls
    PROVE  Spec => []NoLostUpdate
  <1>1. OccInv => NoLostUpdate
    BY DEF OccInv
  <1> QED
    BY <1>1, OccHolds, PTL

-----------------------------------------------------------------------------
(* Snapshots.                                                              *)

\* No step of any call changes a graph that a snapshot names.
LEMMA StepSnaps ==
    ASSUME ShapeInv, NEW c \in Clients, Request(c) \/ Progress(c)
    PROVE  SnapsStand
  <1>1. TypeOK
    BY DEF ShapeInv
  <1>2. CASE UNCHANGED store
    BY <1>2, StoreStands
  <1>3. CASE Publish(c)
    BY <1>1, <1>3, SwapPublishes DEF Publish
  <1>4. CASE ClosureEnd(c)
    BY <1>1, <1>2, <1>4, SwapPublishes DEF ClosureEnd
  <1>5. CASE LockOntology(c)
    BY <1>1, <1>5, InPlaceOrForkPublishes DEF LockOntology
  <1>6. ASSUME NEW w \in Writes, DirectWrite(c, w) \/ Transact(c, w)
        PROVE  SnapsStand
    BY <1>1, <1>6, InPlaceOrForkPublishes, SwapPublishes DEF DirectWrite, Transact
  <1>7. CASE AutoInPlace(c)
    <2>1. CASE UNCHANGED heap
      BY <1>2, <1>7, <2>1 DEF AutoInPlace, store
    <2>2. ASSUME Unshared,
                 NEW w \in mine[c], heap' = [heap EXCEPT ![published] = Mutated(@, w)]
          PROVE  SnapsStand
      BY <1>1, <2>2 DEF Unshared, SnapsStand, TypeOK
    <2> QED
      BY <1>7, <2>1, <2>2 DEF AutoInPlace
  <1>8. CASE \/ Begin(c) \/ Rollback(c) \/ Commit(c) \/ Retire(c) \/ CheckpointRead(c)
             \/ \E w \in Writes : Execute(c, w) \/ AutoStart(c, w) \/ ClosureRun(c, w)
    BY <1>2, <1>8 DEF Begin, Rollback, Commit, Retire, CheckpointRead, Execute,
                      AutoStart, ClosureRun
  <1>9. CASE \/ PublishCheck(c) \/ FlushFails(c) \/ AutoFallback(c) \/ AutoBegin(c)
             \/ AutoExecute(c) \/ CheckpointSave(c) \/ CheckpointRecord(c)
    BY <1>2, <1>9 DEF PublishCheck, FlushFails, AutoFallback, AutoBegin, AutoExecute,
                      CheckpointSave, CheckpointRecord
  <1> QED
    BY <1>3, <1>4, <1>5, <1>6, <1>7, <1>8, <1>9 DEF Request, Progress

\* A held snapshot never changes: what a transaction reads stays what it was
\* when it began, whatever is published or written in place meanwhile.
THEOREM SnapshotsStand == Spec => SnapshotIsStable
  <1>1. ShapeInv /\ [Next]_vars =>
          [\A c \in Clients : snap[c] # NoCell /\ snap'[c] = snap[c]
                                => heap'[snap[c]] = heap[snap[c]]]_vars
    BY StepSnaps DEF Next, SnapsStand
  <1> QED
    BY <1>1, ShapeCorrect, PTL DEF Spec, SnapshotIsStable

-----------------------------------------------------------------------------
(* The version.                                                            *)

\* A closure under the gate runs at the published version: nothing publishes
\* between its fork and its swap, so the swap of an unversioned result is level.
ClosureBase == \A c \in Clients : pc[c] = "closure" => base[c] = Current.version

\* A call leaves the control of the others alone.
ControlStands(c) == \A d \in Clients \ {c} : pc'[d] = pc[d] /\ base'[d] = base[d]

\* A step of one client keeps it, as long as the version moves only while no
\* other client's closure is under the gate.
LEMMA ClosuresStand ==
    ASSUME ClosureBase, NEW c \in Clients, ControlStands(c),
           pc'[c] = "closure" => base'[c] = Current'.version,
           \/ Current'.version = Current.version
           \/ \A d \in Clients \ {c} : pc[d] \notin {"flush", "closure"}
    PROVE  ClosureBase'
  BY DEF ClosureBase, ControlStands

\* A call that ends is not in a closure.
LEMMA EndedControl ==
    ASSUME TypeOK, NEW c \in Clients, EndCall(c)
    PROVE  ControlStands(c) /\ pc'[c] = "idle"
  BY DEF EndCall, ControlStands, TypeOK

\* No step moves the published version back.
LEMMA StepVersion ==
    ASSUME ShapeInv, ClosureBase, NEW c \in Clients, Request(c) \/ Progress(c)
    PROVE  Current'.version >= Current.version /\ ClosureBase'
  <1>1. TypeOK /\ Current \in Graph /\ Current.version \in Nat /\ work[c] \in Graph
    BY CurrentIsGraph DEF ShapeInv, TypeOK, Graph
  <1>2. ASSUME UNCHANGED store, ControlStands(c), pc'[c] # "closure"
        PROVE  Current'.version >= Current.version /\ ClosureBase'
    BY <1>1, <1>2, StoreStands, ClosuresStand
  <1>3. ASSUME Current'.version >= Current.version, ControlStands(c), pc'[c] # "closure",
               gate = NoClient \/ gate = c
        PROVE  Current'.version >= Current.version /\ ClosureBase'
    BY <1>3, GateExcludes, ClosuresStand
  <1>4. ASSUME UNCHANGED store, Fail(c) \/ Succeed(c)
        PROVE  Current'.version >= Current.version /\ ClosureBase'
    BY <1>1, <1>2, <1>4, EndedControl DEF Fail, Succeed
  <1>5. CASE Publish(c)
    <2>1. Current'.version = Current.version + 1
      BY <1>1, <1>5, SwapPublishes DEF Publish, Published, Graph
    <2>2. ControlStands(c) /\ pc'[c] = "idle" /\ gate = c
      BY <1>1, <1>5, EndedControl DEF Publish, Succeed, ShapeInv, Shape, GateOK
    <2> QED
      BY <1>1, <1>3, <2>1, <2>2
  <1>6. CASE ClosureEnd(c)
    <2>1. gate = c
      BY <1>6 DEF ClosureEnd, ShapeInv, Shape, GateOK
    <2>2. CASE Fail(c) /\ UNCHANGED store
      BY <1>4, <2>2
    <2>3. CASE work[c].version = base[c] /\ Swap(work[c]) /\ Succeed(c)
      <3>1. Current'.version = Current.version
        BY <1>1, <1>6, <2>3, SwapPublishes DEF ClosureEnd, ClosureBase
      <3>2. ControlStands(c) /\ pc'[c] = "idle"
        BY <1>1, <2>3, EndedControl DEF Succeed
      <3> QED
        BY <1>1, <1>3, <2>1, <3>1, <3>2
    <2>4. CASE pc' = [pc EXCEPT ![c] = "flush"] /\ UNCHANGED store /\ UNCHANGED base
      BY <1>1, <1>2, <2>4 DEF ControlStands, TypeOK
    <2> QED
      BY <1>6, <2>2, <2>3, <2>4 DEF ClosureEnd
  <1>7. CASE \E w \in Writes : ClosureRun(c, w)
    <2>1. UNCHANGED store /\ ControlStands(c) /\ base'[c] = Current.version
      BY <1>1, <1>7 DEF ClosureRun, ControlStands, TypeOK
    <2>2. Current' = Current
      BY <2>1, StoreStands
    <2> QED
      BY <1>1, <2>1, <2>2, ClosuresStand
  <1>8. ASSUME NEW w \in Writes, DirectWrite(c, w) \/ Transact(c, w)
        PROVE  Current'.version >= Current.version /\ ClosureBase'
    <2>1. Current' = Mutated(Current, w)
      BY <1>1, <1>8, InPlaceOrForkPublishes, SwapPublishes DEF DirectWrite, Transact
    <2>2. Current'.version = Current.version + 1
      BY <1>1, <2>1, MutatedFacts
    <2>3. ControlStands(c) /\ pc'[c] = "idle" /\ gate = NoClient
      BY <1>8 DEF DirectWrite, Transact, locals, ControlStands
    <2> QED
      BY <1>1, <1>3, <2>2, <2>3
  <1>9. CASE LockOntology(c)
    <2>1. Current' = [Current EXCEPT !.locked = TRUE]
      BY <1>1, <1>9, InPlaceOrForkPublishes DEF LockOntology
    <2>2. Current'.version = Current.version
      BY <1>1, <2>1 DEF Graph
    <2>3. ControlStands(c) /\ pc'[c] = "idle" /\ gate = NoClient
      BY <1>9 DEF LockOntology, locals, ControlStands
    <2> QED
      BY <1>1, <1>3, <2>2, <2>3
  <1>10. CASE AutoInPlace(c)
    <2>1. CASE Fail(c) /\ UNCHANGED heap
      BY <1>4, <1>10, <2>1 DEF AutoInPlace, store
    <2>2. ASSUME Succeed(c), NEW w \in mine[c],
                 heap' = [heap EXCEPT ![published] = Mutated(@, w)]
          PROVE  Current'.version >= Current.version /\ ClosureBase'
      <3>1. w \in Writes /\ Current' = Mutated(Current, w) /\ gate = NoClient
        BY <1>1, <1>10, <2>2 DEF AutoInPlace, Current, TypeOK
      <3>2. Current'.version = Current.version + 1
        BY <1>1, <3>1, MutatedFacts
      <3>3. ControlStands(c) /\ pc'[c] = "idle"
        BY <1>1, <2>2, EndedControl DEF Succeed
      <3> QED
        BY <1>1, <1>3, <3>1, <3>2, <3>3
    <2> QED
      BY <1>10, <2>1, <2>2 DEF AutoInPlace
  <1>11. CASE \/ Begin(c) \/ Rollback(c) \/ Retire(c) \/ CheckpointRead(c)
              \/ \E w \in Writes : Execute(c, w) \/ AutoStart(c, w)
    <2>1. UNCHANGED store
      BY <1>11 DEF Begin, Rollback, Retire, CheckpointRead, Execute, AutoStart
    <2>2. CASE Rollback(c)
      BY <1>4, <2>1, <2>2 DEF Rollback
    <2>3. CASE Begin(c) \/ Retire(c) \/ CheckpointRead(c)
      <3>1. ControlStands(c) /\ pc'[c] # "closure"
        BY <1>1, <2>3 DEF Begin, TakeSnapshot, Retire, CheckpointRead, locals,
                          ControlStands, TypeOK
      <3> QED
        BY <1>2, <2>1, <3>1
    <2>4. CASE \E w \in Writes : Execute(c, w) \/ AutoStart(c, w)
      <3>1. ControlStands(c) /\ pc'[c] # "closure"
        BY <1>1, <2>4 DEF Execute, AutoStart, ControlStands, TypeOK
      <3> QED
        BY <1>2, <2>1, <3>1
    <2> QED
      BY <1>11, <2>2, <2>3, <2>4
  <1>12. CASE \/ Commit(c) \/ PublishCheck(c) \/ FlushFails(c) \/ AutoFallback(c)
              \/ AutoBegin(c) \/ AutoExecute(c) \/ CheckpointSave(c) \/ CheckpointRecord(c)
    <2>1. UNCHANGED store
      BY <1>12 DEF Commit, PublishCheck, FlushFails, AutoFallback, AutoBegin, AutoExecute,
                   CheckpointSave, CheckpointRecord
    <2>2. CASE Fail(c) \/ Succeed(c)
      BY <1>4, <2>1, <2>2
    <2>3. CASE ControlStands(c) /\ pc'[c] # "closure"
      BY <1>2, <2>1, <2>3
    <2>4. CASE Commit(c) \/ PublishCheck(c)
      BY <1>1, <2>2, <2>3, <2>4
         DEF Commit, PublishCheck, Conflicted, ControlStands, TypeOK
    <2>5. CASE FlushFails(c) \/ CheckpointRecord(c)
      BY <2>2, <2>5 DEF FlushFails, CheckpointRecord
    <2>6. CASE AutoFallback(c) \/ AutoBegin(c)
      BY <1>1, <2>3, <2>6 DEF AutoFallback, AutoBegin, TakeSnapshot, ControlStands, TypeOK
    <2>7. CASE AutoExecute(c) \/ CheckpointSave(c)
      BY <1>1, <2>2, <2>3, <2>7 DEF AutoExecute, CheckpointSave, ControlStands, TypeOK
    <2> QED
      BY <1>12, <2>4, <2>5, <2>6, <2>7
  <1> QED
    BY <1>5, <1>6, <1>7, <1>8, <1>9, <1>10, <1>11, <1>12 DEF Request, Progress

\* A closure under the gate always runs at the published version.
LEMMA ClosureBaseHolds == Spec => []ClosureBase
  <1>1. Init => ClosureBase
    BY DEF Init, ClosureBase
  <1>2. ShapeInv /\ ClosureBase /\ [Next]_vars => ClosureBase'
    <2>1. ASSUME ClosureBase, UNCHANGED vars PROVE ClosureBase'
      BY <2>1 DEF ClosureBase, Current, vars, store, locals
    <2> QED
      BY <2>1, StepVersion DEF Next
  <1> QED
    BY <1>1, <1>2, ShapeCorrect, PTL DEF Spec

\* The published version never falls, whatever calls are made: a last-writer-wins
\* commit bumps the current version, not the one it was forked at, and a closure
\* whose result is swapped in unversioned still holds the gate it forked under.
THEOREM VersionClimbs == Spec => VersionNeverFalls
  <1>1. ShapeInv /\ ClosureBase /\ [Next]_vars => [Current'.version >= Current.version]_vars
    BY StepVersion DEF Next
  <1>2. Current'.version >= Current.version <=> heap'[published'].version >= Current.version
    BY DEF Current
  <1>3. ShapeInv /\ ClosureBase /\ [Next]_vars
          => [heap'[published'].version >= Current.version]_vars
    BY <1>1, <1>2
  <1> QED
    BY <1>3, ClosureBaseHolds, ShapeCorrect, PTL DEF Spec, VersionNeverFalls


-----------------------------------------------------------------------------
(* Where writes come from and go to.  A write is fresh until a statement    *)
(* executes it; from then on it is one call's own, published, or discarded. *)

\* The writes a graph may hold.
Kept == used \ discarded

\* What client c reads, and what it works on, holds no discarded write...
CleanOK(c) ==
    /\ work[c].writes \subseteq Kept
    /\ snap[c] # NoCell => heap[snap[c]].writes \subseteq Kept

\* ...and its own writes are published nowhere...
OwnOK(c) ==
    /\ mine[c] \subseteq Kept
    /\ mine[c] \cap Current.writes = {}

\* ...and are in no graph of another client, nor in any snapshot.
ApartOK(c, d) ==
    /\ c # d => mine[c] \cap (mine[d] \cup work[d].writes) = {}
    /\ snap[d] # NoCell => mine[c] \cap heap[snap[d]].writes = {}

ProvenanceInv ==
    /\ discarded \subseteq used
    /\ Current.writes \subseteq Kept
    /\ \A c \in Clients : CleanOK(c) /\ OwnOK(c)
    /\ \A c, d \in Clients : ApartOK(c, d)

\* No write is in a graph anybody reads and among the discarded.
LEMMA ProvenanceHides == ProvenanceInv => FailedIsInvisible
  BY DEF ProvenanceInv, CleanOK, Kept, FailedIsInvisible

\* A call that fails discards its own writes, which nobody else has.
LEMMA FailProvenance ==
    ASSUME ShapeInv, ProvenanceInv, NEW c \in Clients, Fail(c), UNCHANGED store
    PROVE  ProvenanceInv'
  <1>1. OthersStand(c) /\ TypeOK
    BY EndedOcc DEF Fail, ShapeInv
  <1>2. /\ mine'[c] = {} /\ snap'[c] = NoCell /\ work'[c].writes = {}
        /\ used' = used /\ discarded' = discarded \cup mine[c]
        /\ Current' = Current
        /\ \A k \in Cells : heap'[k] = heap[k]
    BY <1>1, StoreStands DEF Fail, EndCall, Blank, TypeOK, store
  <1>3. \A d \in Clients \ {c} : CleanOK(d)' /\ OwnOK(d)'
    BY <1>1, <1>2 DEF ProvenanceInv, CleanOK, OwnOK, ApartOK, Kept, OthersStand, TypeOK
  <1>4. CleanOK(c)' /\ OwnOK(c)'
    BY <1>2 DEF CleanOK, OwnOK, Kept
  <1>5. \A d, e \in Clients : ApartOK(d, e)'
    BY <1>1, <1>2 DEF ProvenanceInv, ApartOK, OthersStand, TypeOK
  <1>6. discarded' \subseteq used' /\ Current'.writes \subseteq Kept'
    BY <1>2 DEF ProvenanceInv, OwnOK, Kept
  <1> QED
    BY <1>3, <1>4, <1>5, <1>6 DEF ProvenanceInv

\* A call that succeeds publishes nothing but what it read and wrote.
LEMMA SucceedProvenance ==
    ASSUME ShapeInv, ProvenanceInv, NEW c \in Clients, Succeed(c), SnapsStand,
           Current'.writes \subseteq Current.writes \cup work[c].writes \cup mine[c]
    PROVE  ProvenanceInv'
  <1>1. OthersStand(c) /\ TypeOK
    BY EndedOcc DEF Succeed, ShapeInv
  <1>2. /\ mine'[c] = {} /\ snap'[c] = NoCell /\ work'[c].writes = {}
        /\ used' = used /\ discarded' = discarded
    BY <1>1 DEF Succeed, EndCall, Blank, TypeOK
  <1>3. \A d \in Clients \ {c} : CleanOK(d)' /\ OwnOK(d)'
    BY <1>1, <1>2 DEF ProvenanceInv, CleanOK, OwnOK, ApartOK, Kept, OthersStand, SnapsStand
  <1>4. CleanOK(c)' /\ OwnOK(c)'
    BY <1>2 DEF CleanOK, OwnOK, Kept
  <1>5. \A d, e \in Clients : ApartOK(d, e)'
    BY <1>1, <1>2 DEF ProvenanceInv, ApartOK, OthersStand, SnapsStand
  <1>6. discarded' \subseteq used' /\ Current'.writes \subseteq Kept'
    BY <1>2 DEF ProvenanceInv, CleanOK, OwnOK, Kept
  <1> QED
    BY <1>3, <1>4, <1>5, <1>6 DEF ProvenanceInv

\* The writes client c can reach: the published ones, those of its snapshot
\* and of its working copy.
Reach(c) ==
    Current.writes \cup work[c].writes \cup (IF snap[c] # NoCell THEN heap[snap[c]].writes ELSE {})

\* A call that goes on adds fresh writes only, to its own and to its copy.
LEMMA GoesOnProvenance ==
    ASSUME ShapeInv, ProvenanceInv, NEW c \in Clients, OthersStand(c),
           UNCHANGED <<store, discarded>>,
           NEW fresh \in SUBSET Writes, fresh \cap used = {}, used' = used \cup fresh,
           mine'[c] = mine[c] \cup fresh,
           work'[c].writes \subseteq Reach(c) \cup mine'[c],
           snap'[c] \in {snap[c], published, NoCell}
    PROVE  ProvenanceInv'
  <1>1. TypeOK /\ Current' = Current /\ heap' = heap
    BY StoreStands DEF ShapeInv, store
  <1>2. Reach(c) \subseteq Kept
    BY DEF ProvenanceInv, CleanOK, Reach
  <1>3. \A d \in Clients \ {c} : CleanOK(d)' /\ OwnOK(d)'
    BY <1>1 DEF ProvenanceInv, CleanOK, OwnOK, Kept, OthersStand
  <1>4. snap'[c] # NoCell => heap'[snap'[c]].writes \subseteq Reach(c)
    BY <1>1 DEF Reach, Current
  <1>5. CleanOK(c)' /\ OwnOK(c)'
    BY <1>1, <1>2, <1>4 DEF ProvenanceInv, CleanOK, OwnOK, Kept
  <1>6. \A d \in Clients : mine'[d] \cap Kept = mine[d]
    BY DEF ProvenanceInv, OwnOK, Kept, OthersStand
  <1>7. \A d \in Clients \ {c} : mine[d] \cap Reach(c) = {}
    BY DEF ProvenanceInv, OwnOK, ApartOK, Reach
  <1>8. \A d \in Clients \ {c} : ApartOK(c, d)'
    BY <1>1 DEF ProvenanceInv, ApartOK, OwnOK, CleanOK, Kept, OthersStand
  <1>9. \A d \in Clients \ {c} : ApartOK(d, c)'
    BY <1>1, <1>4, <1>7 DEF ProvenanceInv, ApartOK, OwnOK, Kept, OthersStand
  <1>10. ApartOK(c, c)'
    BY <1>1 DEF ProvenanceInv, ApartOK, OwnOK, CleanOK, Kept, Current
  <1>11. \A d, e \in Clients \ {c} : ApartOK(d, e)'
    BY <1>1 DEF ProvenanceInv, ApartOK, OthersStand
  <1>12. discarded' \subseteq used' /\ Current'.writes \subseteq Kept'
    BY <1>1 DEF ProvenanceInv, Kept
  <1> QED
    BY <1>3, <1>5, <1>8, <1>9, <1>10, <1>11, <1>12 DEF ProvenanceInv

\* A direct call publishes fresh writes and keeps nothing.
LEMMA DirectProvenance ==
    ASSUME ShapeInv, ProvenanceInv, SnapsStand, UNCHANGED <<locals, discarded>>,
           NEW fresh \in SUBSET Writes, fresh \cap used = {}, used' = used \cup fresh,
           Current'.writes = Current.writes \cup fresh
    PROVE  ProvenanceInv'
  <1>1. UNCHANGED <<snap, work, mine>>
    BY DEF locals
  <1>2. \A d \in Clients : CleanOK(d)' /\ OwnOK(d)'
    BY <1>1 DEF ProvenanceInv, CleanOK, OwnOK, Kept, SnapsStand
  <1>3. \A d, e \in Clients : ApartOK(d, e)'
    BY <1>1 DEF ProvenanceInv, ApartOK, SnapsStand
  <1>4. discarded' \subseteq used' /\ Current'.writes \subseteq Kept'
    BY DEF ProvenanceInv, Kept
  <1> QED
    BY <1>2, <1>3, <1>4 DEF ProvenanceInv

\* Every step keeps it.
LEMMA StepProvenance ==
    ASSUME ShapeInv, ShapeInv', ProvenanceInv, NEW c \in Clients, Request(c) \/ Progress(c)
    PROVE  ProvenanceInv'
  <1>1. /\ TypeOK /\ Current \in Graph /\ Current.version \in Nat
        /\ work[c] \in Graph /\ mine[c] \subseteq Writes
        /\ Shape(c) /\ SnapsStand
    BY CurrentIsGraph, StepSnaps DEF ShapeInv, TypeOK, Graph
  <1>2. ASSUME Fail(c), UNCHANGED store PROVE ProvenanceInv'
    BY <1>2, FailProvenance
  <1>3. ASSUME Succeed(c), UNCHANGED store PROVE ProvenanceInv'
    BY <1>1, <1>3, StoreStands, SucceedProvenance
  <1>4. ASSUME OthersStand(c), UNCHANGED <<store, discarded, used>>,
               mine'[c] = mine[c],
               work'[c] = work[c] \/ work'[c].writes \subseteq Reach(c) \cup mine'[c],
               snap'[c] \in {snap[c], published, NoCell}
        PROVE  ProvenanceInv'
    <2>1. work'[c].writes \subseteq Reach(c) \cup mine'[c]
      BY <1>4 DEF Reach
    <2> DEFINE none == {}
    <2>2. none \in SUBSET Writes /\ none \cap used = {} /\ used' = used \cup none
          /\ mine'[c] = mine[c] \cup none
      BY <1>4
    <2> QED
      BY <1>4, <2>1, <2>2, GoesOnProvenance
  <1>5. CASE Rollback(c) \/ FlushFails(c) \/ CheckpointRecord(c)
    BY <1>2, <1>3, <1>5 DEF Rollback, FlushFails, CheckpointRecord
  <1>6. CASE Begin(c) \/ AutoBegin(c)
    BY <1>1, <1>4, <1>6 DEF Begin, AutoBegin, TakeSnapshot, OthersStand, TypeOK, ghost
  <1>7. CASE Commit(c)
    <2>1. CASE Fail(c) \/ Succeed(c)
      BY <1>2, <1>3, <1>7, <2>1 DEF Commit
    <2>2. CASE /\ pc' = [pc EXCEPT ![c] = "commit"]
               /\ \E o \in BOOLEAN : occ' = [occ EXCEPT ![c] = o]
               /\ UNCHANGED <<snap, work, base, mine, tries, autoWriter, ghost>>
      BY <1>1, <1>4, <1>7, <2>2 DEF Commit, OthersStand, TypeOK, ghost
    <2> QED
      BY <1>7, <2>1, <2>2 DEF Commit
  <1>8. CASE PublishCheck(c)
    <2>1. CASE Fail(c)
      BY <1>2, <1>8, <2>1 DEF PublishCheck
    <2>2. CASE /\ pc' = [pc EXCEPT ![c] = "autoFork"]
               /\ work' = [work EXCEPT ![c] = Blank]
               /\ UNCHANGED <<snap, base, mine, occ, autoWriter, ghost>>
      BY <1>1, <1>4, <1>8, <2>2 DEF PublishCheck, OthersStand, TypeOK, Blank, ghost
    <2>3. CASE /\ pc' = [pc EXCEPT ![c] = "flush"]
               /\ UNCHANGED <<snap, work, base, mine, occ, tries, autoWriter, ghost>>
      BY <1>1, <1>4, <1>8, <2>3 DEF PublishCheck, OthersStand, TypeOK, ghost
    <2> QED
      BY <1>8, <2>1, <2>2, <2>3 DEF PublishCheck, Conflicted
  <1>9. CASE Publish(c)
    <2>1. Current'.writes = work[c].writes
      BY <1>1, <1>9, SwapPublishes DEF Publish, Published, Graph
    <2> QED
      BY <1>1, <1>9, <2>1, SucceedProvenance DEF Publish
  <1>10. CASE AutoInPlace(c)
    <2>1. CASE Fail(c) /\ UNCHANGED heap
      BY <1>2, <1>10, <2>1 DEF AutoInPlace, store
    <2>2. ASSUME Succeed(c), NEW w \in mine[c],
                 heap' = [heap EXCEPT ![published] = Mutated(@, w)]
          PROVE  ProvenanceInv'
      <3>1. w \in Writes /\ Current' = Mutated(Current, w)
        BY <1>1, <1>10, <2>2 DEF AutoInPlace, Current, TypeOK
      <3>2. Current'.writes = Current.writes \cup {w}
        BY <1>1, <3>1, MutatedFacts
      <3> QED
        BY <1>1, <2>2, <3>2, SucceedProvenance
    <2> QED
      BY <1>10, <2>1, <2>2 DEF AutoInPlace
  <1>11. CASE AutoFallback(c) \/ Retire(c) \/ CheckpointRead(c)
    BY <1>1, <1>4, <1>11 DEF AutoFallback, Retire, CheckpointRead, OthersStand, TypeOK, ghost, locals
  <1>12. CASE AutoExecute(c)
    <2>1. CASE Fail(c)
      BY <1>2, <1>12, <2>1 DEF AutoExecute
    <2>2. ASSUME NEW w \in mine[c],
                 work' = [work EXCEPT ![c] = Mutated(heap[snap[c]], w)],
                 snap' = [snap EXCEPT ![c] = NoCell],
                 occ' = [occ EXCEPT ![c] = TRUE],
                 pc' = [pc EXCEPT ![c] = "commit"],
                 UNCHANGED <<base, mine, tries, autoWriter, ghost>>
          PROVE  ProvenanceInv'
      <3>1. snap[c] # NoCell /\ w \in Writes
        BY <1>1, <1>12, <2>2 DEF AutoExecute, Shape, SnapHeld, Reading
      <3>2. work'[c].writes = heap[snap[c]].writes \cup {w}
        BY <1>1, <2>2, <3>1, CurrentIsGraph, MutatedFacts DEF TypeOK
      <3>3. OthersStand(c) /\ mine'[c] = mine[c] /\ snap'[c] = NoCell
        BY <1>1, <2>2 DEF OthersStand, TypeOK
      <3>4. work'[c].writes \subseteq Reach(c) \cup mine'[c]
        BY <3>1, <3>2, <3>3 DEF Reach
      <3> QED
        BY <1>4, <1>12, <2>2, <3>3, <3>4 DEF AutoExecute, ghost
    <2> QED
      BY <1>12, <2>1, <2>2 DEF AutoExecute
  <1>13. CASE ClosureEnd(c)
    <2>1. CASE Fail(c) /\ UNCHANGED store
      BY <1>2, <2>1
    <2>2. CASE Swap(work[c]) /\ Succeed(c)
      BY <1>1, <2>2, SwapPublishes, SucceedProvenance
    <2>3. CASE /\ pc' = [pc EXCEPT ![c] = "flush"]
               /\ UNCHANGED <<store, snap, work, base, mine, occ, tries, gate, autoWriter, ghost>>
      BY <1>1, <1>4, <2>3 DEF OthersStand, TypeOK, ghost
    <2> QED
      BY <1>13, <2>1, <2>2, <2>3 DEF ClosureEnd
  <1>14. CASE CheckpointSave(c)
    <2>1. CASE Fail(c)
      BY <1>2, <1>14, <2>1 DEF CheckpointSave
    <2>2. CASE /\ pc' = [pc EXCEPT ![c] = "ckRecord"]
               /\ UNCHANGED <<snap, work, base, mine, occ, tries, autoWriter, ghost>>
      BY <1>1, <1>4, <1>14, <2>2 DEF CheckpointSave, OthersStand, TypeOK, ghost
    <2> QED
      BY <1>14, <2>1, <2>2 DEF CheckpointSave
  <1>15. CASE LockOntology(c)
    <2>1. Current' = [Current EXCEPT !.locked = TRUE]
      BY <1>1, <1>15, InPlaceOrForkPublishes DEF LockOntology
    <2>2. Current'.writes = Current.writes
      BY <1>1, <2>1 DEF Graph
    <2> DEFINE none == {}
    <2>3. /\ none \in SUBSET Writes /\ none \cap used = {} /\ used' = used \cup none
          /\ Current'.writes = Current.writes \cup none
          /\ UNCHANGED <<locals, discarded>>
      BY <1>15, <2>2 DEF LockOntology, ghost
    <2> QED
      BY <1>1, <2>3, DirectProvenance
  <1>16. ASSUME NEW w \in Writes, DirectWrite(c, w) \/ Transact(c, w)
         PROVE  ProvenanceInv'
    <2>1. Current' = Mutated(Current, w)
      BY <1>1, <1>16, InPlaceOrForkPublishes, SwapPublishes DEF DirectWrite, Transact
    <2>2. Current'.writes = Current.writes \cup {w}
      BY <1>1, <2>1, MutatedFacts
    <2>3. /\ {w} \in SUBSET Writes /\ {w} \cap used = {} /\ used' = used \cup {w}
          /\ UNCHANGED <<locals, discarded>>
      BY <1>16 DEF DirectWrite, Transact, Acknowledge
    <2> QED
      BY <1>1, <2>2, <2>3, DirectProvenance
  <1>17. ASSUME NEW w \in Writes, Execute(c, w)
         PROVE  ProvenanceInv'
    <2>1. View(c) \in Graph /\ View(c).writes \subseteq Reach(c)
      BY <1>1, <1>17, CurrentIsGraph DEF Execute, View, Reach, Shape, SnapHeld, Reading
    <2>2. work'[c].writes = View(c).writes \cup {w}
      BY <1>1, <1>17, <2>1, MutatedFacts DEF Execute, TypeOK
    <2>3. /\ OthersStand(c) /\ UNCHANGED <<store, discarded>>
          /\ {w} \in SUBSET Writes /\ {w} \cap used = {} /\ used' = used \cup {w}
          /\ mine'[c] = mine[c] \cup {w}
          /\ snap'[c] = NoCell
      BY <1>1, <1>17 DEF Execute, OthersStand, TypeOK
    <2> QED
      BY <2>1, <2>2, <2>3, GoesOnProvenance
  <1>18. ASSUME NEW w \in Writes, AutoStart(c, w)
         PROVE  ProvenanceInv'
    <2>1. mine[c] = {}
      BY <1>1, <1>18 DEF AutoStart, Shape, MineOK
    <2>2. /\ OthersStand(c) /\ UNCHANGED <<store, discarded>>
          /\ {w} \in SUBSET Writes /\ {w} \cap used = {} /\ used' = used \cup {w}
          /\ mine'[c] = mine[c] \cup {w}
          /\ work'[c] = work[c] /\ snap'[c] = snap[c]
      BY <1>1, <1>18, <2>1 DEF AutoStart, OthersStand, TypeOK
    <2>3. work'[c].writes \subseteq Reach(c)
      BY <2>2 DEF Reach
    <2> QED
      BY <2>2, <2>3, GoesOnProvenance
  <1>19. ASSUME NEW w \in Writes, ClosureRun(c, w)
         PROVE  ProvenanceInv'
    <2>1. mine[c] = {}
      BY <1>1, <1>19 DEF ClosureRun, Shape, MineOK
    <2>2. /\ OthersStand(c) /\ UNCHANGED <<store, discarded>>
          /\ {w} \in SUBSET Writes /\ {w} \cap used = {} /\ used' = used \cup {w}
          /\ mine'[c] = mine[c] \cup {w}
          /\ snap'[c] = snap[c]
      BY <1>1, <1>19, <2>1 DEF ClosureRun, OthersStand, TypeOK
    <2>3. work'[c].writes = Current.writes \cup {w}
      BY <1>1, <1>19, MutatedFacts DEF ClosureRun, TypeOK, Graph
    <2>4. work'[c].writes \subseteq Reach(c) \cup mine'[c]
      BY <2>2, <2>3 DEF Reach
    <2> QED
      BY <2>2, <2>4, GoesOnProvenance
  <1> QED
    BY <1>5, <1>6, <1>7, <1>8, <1>9, <1>10, <1>11, <1>12, <1>13, <1>14, <1>15, <1>16,
       <1>17, <1>18, <1>19 DEF Request, Progress

\* Every step of the session keeps it...
LEMMA NextProvenance == ShapeInv /\ ShapeInv' /\ ProvenanceInv /\ [Next]_vars => ProvenanceInv'
  <1>1. ASSUME ProvenanceInv, UNCHANGED vars PROVE ProvenanceInv'
    BY <1>1 DEF vars, store, locals, ghost, ProvenanceInv, CleanOK, OwnOK, ApartOK, Kept, Current
  <1> QED
    BY <1>1, StepProvenance DEF Next

\* ...and a session begins with nothing written.
LEMMA InitProvenance == Init => ProvenanceInv
  <1> SUFFICES ASSUME Init PROVE ProvenanceInv
    OBVIOUS
  <1>1. published \in Cells
    BY SessionAssumption DEF Init
  <1> QED
    BY <1>1 DEF Init, ProvenanceInv, CleanOK, OwnOK, ApartOK, Kept, Current, Blank

\* Every write in a graph that anybody reads is the write of a call that has
\* not failed, and no two calls write the same.
LEMMA ProvenanceHolds == Spec => []ProvenanceInv
  BY InitProvenance, NextProvenance, ShapeCorrect, PTL DEF Spec

\* A write whose call failed or rolled back is visible to nobody, now or later,
\* whatever calls are made: commits without the version check and closures that
\* move no version included.
THEOREM FailuresStayInvisible == Spec => []FailedIsInvisible
  BY ProvenanceHides, ProvenanceHolds, PTL

-----------------------------------------------------------------------------
(* Retirement.  Whoever retires the session found the gate free, and nobody *)
(* takes it afterwards.                                                     *)

RetiredQuiet == retired => gate = NoClient

\* Every step leaves a retired session quiet.
LEMMA NextQuiet == ShapeInv /\ RetiredQuiet /\ [Next]_vars => RetiredQuiet'
  <1>1. ASSUME RetiredQuiet, UNCHANGED <<retired, gate>> PROVE RetiredQuiet'
    BY <1>1 DEF RetiredQuiet
  <1>2. ASSUME ShapeInv, RetiredQuiet, NEW c \in Clients, Request(c)
        PROVE  RetiredQuiet'
    BY <1>1, <1>2 DEF Request, Begin, Rollback, Commit, LockOntology, Retire, CheckpointRead,
                      Execute, AutoStart, ClosureRun, DirectWrite, Transact, RetiredQuiet
  <1>3. ASSUME ShapeInv, RetiredQuiet, NEW c \in Clients, Progress(c)
        PROVE  RetiredQuiet'
    BY <1>1, <1>3 DEF Progress, PublishCheck, Publish, FlushFails, AutoInPlace, AutoFallback,
                      AutoBegin, AutoExecute, ClosureEnd, CheckpointSave, CheckpointRecord,
                      RetiredQuiet
  <1> QED
    BY <1>1, <1>2, <1>3 DEF Next, vars

\* A step of a retired session that ends or moves a call publishes and saves
\* nothing.
LEMMA StepRetired ==
    ASSUME ShapeInv, RetiredQuiet, NEW c \in Clients, Request(c) \/ Progress(c),
           retired, pc' # pc
    PROVE  Current' = Current /\ saved' = saved
  <1>1. TypeOK /\ pc[c] \notin {"flush", "closure"}
    BY SessionAssumption DEF ShapeInv, Shape, GateOK, RetiredQuiet
  <1>2. ASSUME UNCHANGED <<store, saved>> PROVE Current' = Current /\ saved' = saved
    BY <1>2, StoreStands
  <1>3. CASE Request(c)
    BY <1>1, <1>2, <1>3 DEF Request, Begin, Rollback, Commit, LockOntology, Retire, CheckpointRead,
                      Execute, AutoStart, ClosureRun, DirectWrite, Transact, locals, disk
  <1>4. CASE Progress(c)
    BY <1>1, <1>2, <1>4 DEF Progress, PublishCheck, Publish, FlushFails, AutoInPlace, AutoFallback,
                      AutoBegin, AutoExecute, ClosureEnd, CheckpointSave, CheckpointRecord,
                      store, disk
  <1> QED
    BY <1>3, <1>4

\* Once retire() has returned, no commit, auto-commit statement, closure or
\* checkpoint publishes or saves, those begun before it included.  Of write()
\* and transact(), which do not ask, it says nothing.
THEOREM RetirementIsFinal == Spec => RetiredEndsCommits
  <1>1. Init => RetiredQuiet
    BY DEF Init, RetiredQuiet
  <1>2. ShapeInv /\ RetiredQuiet /\ [Next]_vars =>
          [retired /\ pc' # pc => heap'[published'] = Current /\ saved' = saved]_vars
    BY StepRetired DEF Next, Current
  <1> QED
    BY <1>1, <1>2, NextQuiet, ShapeCorrect, PTL DEF Spec, RetiredEndsCommits

-----------------------------------------------------------------------------
(* Checkpoints.  With every write moving the version, two graphs published *)
(* at one version are the same graph.                                      *)

\* A closure that goes on to its swap has moved its copy's version.
ClosureMoves == \A c \in Clients : pc[c] = "closure" => work[c].version # base[c]

\* The checkpoint's bookkeeping never runs ahead of the published version, and
\* what it read a version for is what it saved, if that version stands.
CheckpointOK(c) ==
    /\ pc[c] \in {"ckSave", "ckRecord"} => base[c] <= Current.version
    /\ pc[c] = "ckRecord" /\ base[c] = Current.version => saved = Current.writes

SavedInv ==
    /\ ClosureBase /\ ClosureMoves
    /\ lastVersion <= Current.version
    /\ SkippedCheckpointIsCurrent
    /\ \A c \in Clients : CheckpointOK(c)

\* A step publishes a later version, or the same writes again.
LEMMA StepMoves ==
    ASSUME "config" \notin Calls, ShapeInv, ClosureBase, ClosureMoves,
           NEW c \in Clients, Request(c) \/ Progress(c)
    PROVE  \/ Current'.version > Current.version
           \/ Current'.version = Current.version /\ Current'.writes = Current.writes
  <1>1. TypeOK /\ Current \in Graph /\ Current.version \in Nat /\ work[c] \in Graph
    BY CurrentIsGraph DEF ShapeInv, TypeOK, Graph
  <1>2. CASE UNCHANGED store
    BY <1>2, StoreStands
  <1>3. CASE Publish(c)
    <2>1. Current'.version = Current.version + 1
      BY <1>1, <1>3, SwapPublishes DEF Publish, Published, Graph
    <2> QED
      BY <1>1, <2>1
  <1>4. ASSUME NEW w \in Writes, DirectWrite(c, w) \/ Transact(c, w)
        PROVE  Current'.version > Current.version
    <2>1. Current' = Mutated(Current, w)
      BY <1>1, <1>4, InPlaceOrForkPublishes, SwapPublishes DEF DirectWrite, Transact
    <2> QED
      BY <1>1, <2>1, MutatedFacts
  <1>5. CASE LockOntology(c)
    <2>1. Current' = [Current EXCEPT !.locked = TRUE]
      BY <1>1, <1>5, InPlaceOrForkPublishes DEF LockOntology
    <2> QED
      BY <1>1, <2>1 DEF Graph
  <1>6. CASE AutoInPlace(c)
    <2>1. CASE UNCHANGED heap
      BY <1>2, <1>6, <2>1 DEF AutoInPlace, store
    <2>2. ASSUME NEW w \in mine[c], heap' = [heap EXCEPT ![published] = Mutated(@, w)]
          PROVE  Current'.version > Current.version
      <3>1. w \in Writes /\ Current' = Mutated(Current, w)
        BY <1>1, <1>6, <2>2 DEF AutoInPlace, Current, TypeOK
      <3> QED
        BY <1>1, <3>1, MutatedFacts
    <2> QED
      BY <1>6, <2>1, <2>2 DEF AutoInPlace
  <1>7. CASE ClosureEnd(c)
    BY <1>2, <1>7 DEF ClosureEnd, ClosureMoves
  <1>8. CASE \/ Begin(c) \/ Rollback(c) \/ Commit(c) \/ Retire(c) \/ CheckpointRead(c)
             \/ \E w \in Writes : Execute(c, w) \/ AutoStart(c, w) \/ ClosureRun(c, w)
    BY <1>2, <1>8 DEF Begin, Rollback, Commit, Retire, CheckpointRead, Execute,
                      AutoStart, ClosureRun
  <1>9. CASE \/ PublishCheck(c) \/ FlushFails(c) \/ AutoFallback(c) \/ AutoBegin(c)
             \/ AutoExecute(c) \/ CheckpointSave(c) \/ CheckpointRecord(c)
    BY <1>2, <1>9 DEF PublishCheck, FlushFails, AutoFallback, AutoBegin, AutoExecute,
                      CheckpointSave, CheckpointRecord
  <1> QED
    BY <1>3, <1>4, <1>5, <1>6, <1>7, <1>8, <1>9 DEF Request, Progress

\* Closures that move the version still do.
LEMMA StepClosureMoves ==
    ASSUME "config" \notin Calls, ShapeInv, ClosureMoves,
           NEW c \in Clients, Request(c) \/ Progress(c)
    PROVE  ClosureMoves'
  <1>1. TypeOK /\ Current \in Graph /\ Current.version \in Nat
    BY CurrentIsGraph DEF ShapeInv, TypeOK, Graph
  <1>2. ASSUME \A d \in Clients \ {c} : pc'[d] = pc[d] /\ work'[d] = work[d] /\ base'[d] = base[d],
               pc'[c] # "closure"
        PROVE  ClosureMoves'
    BY <1>2 DEF ClosureMoves
  <1>3. CASE EndCall(c)
    BY <1>1, <1>2, <1>3 DEF EndCall, TypeOK
  <1>4. CASE Request(c)
    <2>1. ASSUME NEW w \in Writes, ClosureRun(c, w) PROVE ClosureMoves'
      <3>1. /\ work'[c] = Mutated(Current, w) /\ base'[c] = Current.version
            /\ \A d \in Clients \ {c} : pc'[d] = pc[d] /\ work'[d] = work[d] /\ base'[d] = base[d]
        BY <1>1, <2>1 DEF ClosureRun, TypeOK
      <3>2. work'[c].version = Current.version + 1
        BY <1>1, <3>1, MutatedFacts
      <3> QED
        BY <1>1, <3>1, <3>2 DEF ClosureMoves
    <2>2. CASE \/ Begin(c) \/ Commit(c) \/ LockOntology(c) \/ Retire(c) \/ CheckpointRead(c)
               \/ \E w \in Writes : Execute(c, w) \/ AutoStart(c, w)
                                    \/ DirectWrite(c, w) \/ Transact(c, w)
      BY <1>1, <1>2, <1>3, <2>2 DEF Begin, TakeSnapshot, Commit, Succeed, Fail, LockOntology, Retire,
         CheckpointRead, Execute, AutoStart, DirectWrite, Transact, locals, TypeOK
    <2>3. CASE Rollback(c)
      BY <1>3, <2>3 DEF Rollback, Fail
    <2> QED
      BY <1>4, <2>1, <2>2, <2>3 DEF Request
  <1>5. CASE Progress(c)
    BY <1>1, <1>2, <1>3, <1>5 DEF Progress, PublishCheck, Conflicted, Publish, FlushFails,
       AutoInPlace, AutoFallback, AutoBegin, TakeSnapshot, AutoExecute, ClosureEnd,
       CheckpointSave, CheckpointRecord, Succeed, Fail, TypeOK
  <1> QED
    BY <1>4, <1>5

\* A step that leaves the checkpoint file and the recorded version alone keeps
\* what is said of them.
LEMMA StandSaved ==
    ASSUME ShapeInv, ShapeInv', SavedInv, NEW c \in Clients,
           UNCHANGED disk, ControlStands(c),
           pc'[c] \notin {"ckSave", "ckRecord"} \/ (pc'[c] = pc[c] /\ base'[c] = base[c]),
           \/ Current'.version > Current.version
           \/ Current'.version = Current.version /\ Current'.writes = Current.writes
    PROVE  /\ lastVersion' <= Current'.version
           /\ SkippedCheckpointIsCurrent'
           /\ \A d \in Clients : CheckpointOK(d)'
  <1>1. /\ Current.version \in Nat /\ Current'.version \in Nat
        /\ lastVersion \in Int /\ lastVersion' = lastVersion /\ saved' = saved
        /\ \A d \in Clients : base[d] \in Nat
    BY CurrentIsGraph DEF ShapeInv, TypeOK, Current, Graph, NeverSaved, disk
  <1>2. lastVersion' <= Current'.version /\ SkippedCheckpointIsCurrent'
    BY <1>1 DEF SavedInv, SkippedCheckpointIsCurrent
  <1>3. ASSUME NEW d \in Clients PROVE CheckpointOK(d)'
    <2>1. CASE pc'[d] = pc[d] /\ base'[d] = base[d]
      BY <1>1, <2>1 DEF SavedInv, CheckpointOK
    <2>2. CASE pc'[d] \notin {"ckSave", "ckRecord"}
      BY <2>2 DEF CheckpointOK
    <2> QED
      BY <2>1, <2>2 DEF ControlStands
  <1> QED
    BY <1>2, <1>3

\* Every step keeps it.
LEMMA StepSaved ==
    ASSUME "config" \notin Calls, ShapeInv, ShapeInv', SavedInv,
           NEW c \in Clients, Request(c) \/ Progress(c)
    PROVE  SavedInv'
  <1>1. /\ TypeOK /\ TypeOK' /\ Current.version \in Nat
        /\ lastVersion \in Int /\ \A d \in Clients : base[d] \in Nat
    BY CurrentIsGraph DEF ShapeInv, TypeOK, Graph, NeverSaved
  <1>2. ClosureBase' /\ ClosureMoves'
    BY StepVersion, StepClosureMoves DEF SavedInv
  <1>3. \/ Current'.version > Current.version
        \/ Current'.version = Current.version /\ Current'.writes = Current.writes
    BY StepMoves DEF SavedInv
  <1>4. ASSUME UNCHANGED disk, ControlStands(c),
               pc'[c] \notin {"ckSave", "ckRecord"} \/ (pc'[c] = pc[c] /\ base'[c] = base[c])
        PROVE  SavedInv'
    BY <1>2, <1>3, <1>4, StandSaved DEF SavedInv
  <1>5. ASSUME UNCHANGED disk, EndCall(c) PROVE SavedInv'
    BY <1>1, <1>4, <1>5, EndedControl
  <1>6. CASE CheckpointRead(c)
    <2>1. /\ Current' = Current /\ UNCHANGED disk /\ ControlStands(c)
          /\ base'[c] = Current.version /\ pc'[c] = "ckSave"
      BY <1>1, <1>6, StoreStands DEF CheckpointRead, ControlStands, TypeOK
    <2>2. \A d \in Clients : CheckpointOK(d)'
      BY <1>1, <2>1 DEF SavedInv, CheckpointOK, ControlStands, disk
    <2>3. lastVersion' <= Current'.version /\ SkippedCheckpointIsCurrent'
      BY <2>1 DEF SavedInv, SkippedCheckpointIsCurrent, disk
    <2> QED
      BY <1>2, <2>2, <2>3 DEF SavedInv
  <1>7. CASE CheckpointSave(c)
    <2>1. CASE Fail(c) /\ UNCHANGED saved
      BY <1>5, <1>7, <2>1 DEF CheckpointSave, Fail, disk
    <2>2. CASE /\ saved' = Current.writes
               /\ pc' = [pc EXCEPT ![c] = "ckRecord"]
               /\ UNCHANGED <<snap, work, base, mine, occ, tries, autoWriter, ghost>>
      <3>1. Current' = Current /\ lastVersion' = lastVersion /\ base' = base
            /\ pc[c] = "ckSave"
            /\ \A d \in Clients \ {c} : pc'[d] = pc[d]
        BY <1>1, <1>7, <2>2, StoreStands DEF CheckpointSave, TypeOK
      <3>2. \A d \in Clients : CheckpointOK(d)'
        BY <1>1, <2>2, <3>1 DEF SavedInv, CheckpointOK
      <3>3. lastVersion' <= Current'.version /\ SkippedCheckpointIsCurrent'
        BY <2>2, <3>1 DEF SavedInv, SkippedCheckpointIsCurrent
      <3> QED
        BY <1>2, <3>2, <3>3 DEF SavedInv
    <2> QED
      BY <1>7, <2>1, <2>2 DEF CheckpointSave
  <1>8. CASE CheckpointRecord(c)
    <2>1. /\ Current' = Current /\ lastVersion' = base[c] /\ saved' = saved
          /\ ControlStands(c) /\ pc'[c] = "idle" /\ pc[c] = "ckRecord"
      BY <1>1, <1>8, StoreStands, EndedControl DEF CheckpointRecord, Succeed
    <2>2. \A d \in Clients : CheckpointOK(d)'
      BY <1>1, <2>1 DEF SavedInv, CheckpointOK, ControlStands
    <2>3. lastVersion' <= Current'.version /\ SkippedCheckpointIsCurrent'
      BY <2>1 DEF SavedInv, CheckpointOK, SkippedCheckpointIsCurrent
    <2> QED
      BY <1>2, <2>2, <2>3 DEF SavedInv
  <1>9. CASE Request(c) /\ ~CheckpointRead(c)
    BY <1>1, <1>4, <1>5, <1>9, ZenonT(40) DEF Request, Begin, TakeSnapshot, Rollback, Commit, Succeed, Fail,
       LockOntology, Retire, Execute, AutoStart, ClosureRun, DirectWrite, Transact,
       locals, ControlStands, TypeOK
  <1>10. CASE Progress(c) /\ ~CheckpointSave(c) /\ ~CheckpointRecord(c)
    BY <1>1, <1>4, <1>5, <1>10 DEF Progress, PublishCheck, Conflicted, Publish, FlushFails,
       AutoInPlace, AutoFallback, AutoBegin, TakeSnapshot, AutoExecute, ClosureEnd,
       Succeed, Fail, ControlStands, TypeOK
  <1> QED
    BY <1>6, <1>7, <1>8, <1>9, <1>10

\* checkpoint_if_changed never skips a save that is needed, as long as every
\* write moves the version: a commit without the version check moves it too.
THEOREM SkipsAreSound ==
    ASSUME "config" \notin Calls
    PROVE  Spec => []SkippedCheckpointIsCurrent
  <1>1. Init => SavedInv
    <2> SUFFICES ASSUME Init PROVE SavedInv
      OBVIOUS
    <2>1. Current.version = 0 /\ lastVersion = -1
      BY SessionAssumption DEF Init, Current, Blank, NeverSaved
    <2> QED
      BY <2>1 DEF Init, SavedInv, ClosureBase, ClosureMoves, SkippedCheckpointIsCurrent, CheckpointOK
  <1>2. ShapeInv /\ ShapeInv' /\ SavedInv /\ [Next]_vars => SavedInv'
    <2>1. ASSUME SavedInv, UNCHANGED vars PROVE SavedInv'
      BY <2>1 DEF vars, store, locals, disk, SavedInv, ClosureBase, ClosureMoves, Current,
                  SkippedCheckpointIsCurrent, CheckpointOK
    <2> QED
      BY <2>1, StepSaved DEF Next
  <1>3. SavedInv => SkippedCheckpointIsCurrent
    BY DEF SavedInv
  <1> QED
    BY <1>1, <1>2, <1>3, ShapeCorrect, PTL DEF Spec

-----------------------------------------------------------------------------
(* The refinement.  Every step of a session is a read, a forgetting or an  *)
(* update of SnapshotStore, or changes neither its contents nor its views. *)

view == [c \in Clients |-> ReadView(c)]

\* The views of the clients whose call does not move stand.
LEMMA ViewsStand ==
    ASSUME NEW c \in Clients, OthersStand(c), SnapsStand
    PROVE  /\ \A d \in Clients \ {c} : ReadView(d)' = ReadView(d)
           /\ view' = [view EXCEPT ![c] = ReadView(c)']
  <1>1. \A d \in Clients \ {c} : ReadView(d)' = ReadView(d)
    BY ZenonT(40) DEF OthersStand, SnapsStand, ReadView, HasWork
  <1> QED
    BY <1>1 DEF view

\* A step that leaves the contents and c's view alone is a stutter...
LEMMA StoreStutters ==
    ASSUME NEW c \in Clients, OthersStand(c), SnapsStand,
           Current'.writes = Current.writes, ReadView(c)' = ReadView(c)
    PROVE  UNCHANGED Store!vars
  <1>1. view' = view
    BY ViewsStand DEF view
  <1> QED
    BY <1>1 DEF Store!vars, view

\* ...one that loses the view forgets...
LEMMA StoreForgets ==
    ASSUME NEW c \in Clients, OthersStand(c), SnapsStand,
           Current'.writes = Current.writes, ReadView(c)' = NoView
    PROVE  Store!Next
  <1>1. Store!Forget(c)
    BY ViewsStand DEF Store!Forget, view
  <1> QED
    BY <1>1 DEF Store!Next

\* ...one that takes the published writes for its view reads...
LEMMA StoreReads ==
    ASSUME NEW c \in Clients, OthersStand(c), SnapsStand,
           Current'.writes = Current.writes, ReadView(c)' = Current.writes
    PROVE  Store!Next
  <1>1. Store!Read(c)
    BY ViewsStand DEF Store!Read, view
  <1> QED
    BY <1>1 DEF Store!Next

\* ...and one that publishes new writes, having read the published ones if it
\* has read any, updates.
LEMMA StoreUpdates ==
    ASSUME NEW c \in Clients, OthersStand(c), SnapsStand,
           ReadView(c) \in {NoView, Current.writes}, ReadView(c)' = NoView,
           NEW batch \in SUBSET Writes, batch \cap Current.writes = {},
           Current'.writes = Current.writes \cup batch
    PROVE  Store!Next
  <1>1. view[c] = ReadView(c)
    BY DEF view
  <1>2. Store!Update(c, batch)
    BY <1>1, ViewsStand DEF Store!Update, view
  <1> QED
    BY <1>2 DEF Store!Next

\* A client whose call has ended reads nothing.
LEMMA EndedView ==
    ASSUME TypeOK, NEW c \in Clients, EndCall(c)
    PROVE  ReadView(c)' = NoView /\ OthersStand(c)
  <1>1. pc'[c] = "idle" /\ snap'[c] = NoCell
    BY DEF EndCall, TypeOK
  <1> QED
    BY <1>1, EndedOcc DEF ReadView, HasWork

\* A call that ends without publishing forgets what it read.
LEMMA EndedForgets ==
    ASSUME TypeOK, NEW c \in Clients, Fail(c) \/ Succeed(c), UNCHANGED store
    PROVE  Store!Next
  <1>1. ReadView(c)' = NoView /\ OthersStand(c)
    BY EndedView DEF Fail, Succeed
  <1> QED
    BY <1>1, StoreStands, StoreForgets

\* A client with no snapshot, outside a transaction that has written, reads
\* nothing.
LEMMA UnreadView ==
    ASSUME ShapeInv, NEW c \in Clients,
           pc[c] \in {"idle", "autoTry", "autoFork", "ckSave", "ckRecord"}
    PROVE  ReadView(c) = NoView /\ snap[c] = NoCell
  BY DEF ShapeInv, Shape, SnapHeld, Reading, ReadView, HasWork

\* The calls a client asks for, one by one.
LEMMA RequestMaps ==
    ASSUME "lww" \notin Calls, "config" \notin Calls,
           ShapeInv, ShapeInv', ProvenanceInv, OccInv,
           NEW c \in Clients, Request(c)
    PROVE  Store!Next \/ UNCHANGED Store!vars
  <1>1. /\ TypeOK /\ TypeOK' /\ Current \in Graph /\ Shape(c) /\ Shape(c)'
        /\ SnapsStand /\ work[c] \in Graph
    BY CurrentIsGraph, StepSnaps DEF ShapeInv, TypeOK
  <1>2. CASE Begin(c)
    <2>1. /\ OthersStand(c) /\ snap'[c] = published /\ published \in Cells
          /\ Current' = Current /\ heap' = heap
      BY <1>1, <1>2, StoreStands DEF Begin, TakeSnapshot, OthersStand, TypeOK, store
    <2>2. ReadView(c)' = Current.writes
      BY <2>1, SessionAssumption DEF ReadView, Current
    <2> QED
      BY <1>1, <2>1, <2>2, StoreReads
  <1>3. CASE Rollback(c)
    BY <1>1, <1>3, EndedForgets DEF Rollback
  <1>4. CASE Commit(c)
    <2>1. CASE Fail(c) \/ Succeed(c)
      BY <1>1, <1>4, <2>1, EndedForgets DEF Commit
    <2>2. CASE /\ mine[c] # {}
               /\ pc' = [pc EXCEPT ![c] = "commit"]
               /\ \E o \in BOOLEAN : occ' = [occ EXCEPT ![c] = o]
               /\ UNCHANGED <<snap, work, base, mine, tries, autoWriter, ghost>>
      <3>1. OthersStand(c) /\ Current' = Current /\ pc[c] = "open" /\ pc'[c] = "commit"
        BY <1>1, <1>4, <2>2, StoreStands DEF Commit, OthersStand, TypeOK
      <3>2. snap[c] = NoCell
        BY <1>1, <2>2, <3>1 DEF Shape, SnapHeld, Reading
      <3>3. ReadView(c)' = ReadView(c)
        BY <2>2, <3>1, <3>2 DEF ReadView, HasWork
      <3> QED
        BY <1>1, <3>1, <3>3, StoreStutters
    <2> QED
      BY <1>4, <2>1, <2>2 DEF Commit
  <1>5. CASE LockOntology(c)
    <2>1. Current' = [Current EXCEPT !.locked = TRUE]
      BY <1>1, <1>5, InPlaceOrForkPublishes DEF LockOntology
    <2>2. Current'.writes = Current.writes /\ OthersStand(c) /\ pc'[c] = "idle"
      BY <1>1, <1>5, <2>1 DEF LockOntology, OthersStand, locals, Graph
    <2>3. ReadView(c)' = NoView
      BY <1>1, <2>2 DEF ReadView, HasWork, Shape, SnapHeld, Reading
    <2> QED
      BY <1>1, <2>2, <2>3, StoreForgets
  <1>6. CASE Retire(c) \/ CheckpointRead(c)
    <2>1. OthersStand(c) /\ Current' = Current /\ pc'[c] \in {"idle", "ckSave"}
      BY <1>1, <1>6, StoreStands DEF Retire, CheckpointRead, OthersStand, locals, TypeOK
    <2>2. ReadView(c)' = NoView
      BY <1>1, <2>1 DEF ReadView, HasWork, Shape, SnapHeld, Reading
    <2> QED
      BY <1>1, <2>1, <2>2, StoreForgets
  <1>7. ASSUME NEW w \in Writes, Execute(c, w)
        PROVE  Store!Next \/ UNCHANGED Store!vars
    <2>1. /\ OthersStand(c) /\ Current' = Current
          /\ pc[c] = "open" /\ pc'[c] = "open" /\ snap'[c] = NoCell
          /\ mine'[c] = mine[c] \cup {w} /\ work'[c] = Mutated(View(c), w)
          /\ w \notin used
      BY <1>1, <1>7, StoreStands DEF Execute, OthersStand, TypeOK
    <2>2. View(c) \in Graph
      BY <1>1, <2>1, CurrentIsGraph DEF View, Shape, SnapHeld, Reading
    <2>3. work'[c].writes = View(c).writes \cup {w}
      BY <2>1, <2>2, MutatedFacts
    <2>4. ReadView(c)' = (View(c).writes \cup {w}) \ (mine[c] \cup {w})
      BY <2>1, <2>3 DEF ReadView, HasWork
    <2>5. w \notin View(c).writes
      BY <1>1, <2>1 DEF View, ProvenanceInv, CleanOK, Kept, Shape, SnapHeld, Reading
    <2>6. ReadView(c) = View(c).writes \ mine[c]
      BY <1>1, <2>1 DEF ReadView, HasWork, View, Shape, SnapHeld, Reading
    <2>7. ReadView(c)' = ReadView(c)
      BY <2>4, <2>5, <2>6
    <2> QED
      BY <1>1, <2>1, <2>7, StoreStutters
  <1>8. ASSUME NEW w \in Writes, AutoStart(c, w)
        PROVE  Store!Next \/ UNCHANGED Store!vars
    <2>1. OthersStand(c) /\ Current' = Current /\ pc'[c] = "autoTry"
      BY <1>1, <1>8, StoreStands DEF AutoStart, OthersStand, TypeOK
    <2>2. ReadView(c)' = NoView
      BY <1>1, <2>1 DEF ReadView, HasWork, Shape, SnapHeld, Reading
    <2> QED
      BY <1>1, <2>1, <2>2, StoreForgets
  <1>9. ASSUME NEW w \in Writes, ClosureRun(c, w)
        PROVE  Store!Next \/ UNCHANGED Store!vars
    <2>1. /\ OthersStand(c) /\ Current' = Current
          /\ pc'[c] = "closure" /\ mine'[c] = {w} /\ w \notin used
          /\ work'[c] = Mutated(Current, w)
      BY <1>1, <1>9, StoreStands DEF ClosureRun, OthersStand, TypeOK
    <2>2. work'[c].writes = Current.writes \cup {w}
      BY <1>1, <2>1, MutatedFacts
    <2>3. snap'[c] = NoCell
      BY <1>1, <2>1 DEF Shape, SnapHeld, Reading
    <2>4. ReadView(c)' = Current.writes
      BY <2>1, <2>2, <2>3 DEF ReadView, HasWork, ProvenanceInv, Kept
    <2> QED
      BY <1>1, <2>1, <2>4, StoreReads
  <1>10. ASSUME NEW w \in Writes, DirectWrite(c, w) \/ Transact(c, w)
         PROVE  Store!Next \/ UNCHANGED Store!vars
    <2>1. Current' = Mutated(Current, w)
      BY <1>1, <1>10, InPlaceOrForkPublishes, SwapPublishes DEF DirectWrite, Transact
    <2>2. Current'.writes = Current.writes \cup {w}
      BY <1>1, <2>1, MutatedFacts
    <2>3. OthersStand(c) /\ pc[c] = "idle" /\ pc'[c] = "idle" /\ w \notin used
      BY <1>10 DEF DirectWrite, Transact, OthersStand, locals
    <2>4. ReadView(c) = NoView /\ ReadView(c)' = NoView
      BY <1>1, <2>3 DEF ReadView, HasWork, Shape, SnapHeld, Reading
    <2>5. {w} \in SUBSET Writes /\ {w} \cap Current.writes = {}
      BY <2>3 DEF ProvenanceInv, Kept
    <2> QED
      BY <1>1, <2>2, <2>3, <2>4, <2>5, StoreUpdates
  <1> QED
    BY <1>2, <1>3, <1>4, <1>5, <1>6, <1>7, <1>8, <1>9, <1>10 DEF Request

\* The steps a call takes on its own.
LEMMA ProgressMaps ==
    ASSUME "lww" \notin Calls, "config" \notin Calls,
           ShapeInv, ShapeInv', ProvenanceInv, OccInv, ClosureBase,
           NEW c \in Clients, Progress(c)
    PROVE  Store!Next \/ UNCHANGED Store!vars
  <1>1. /\ TypeOK /\ TypeOK' /\ Current \in Graph /\ Shape(c) /\ Shape(c)'
        /\ SnapsStand /\ work[c] \in Graph /\ mine[c] \in SUBSET Writes
        /\ mine[c] \cap Current.writes = {}
    BY CurrentIsGraph, StepSnaps DEF ShapeInv, TypeOK, ProvenanceInv, OwnOK
  <1>2. CASE PublishCheck(c)
    <2>1. CASE Fail(c)
      BY <1>1, <1>2, <2>1, EndedForgets DEF PublishCheck
    <2>2. CASE /\ pc' = [pc EXCEPT ![c] = "autoFork"]
               /\ work' = [work EXCEPT ![c] = Blank]
               /\ UNCHANGED <<snap, base, mine, occ, autoWriter, ghost>>
      <3>1. OthersStand(c) /\ Current' = Current /\ pc'[c] = "autoFork"
        BY <1>1, <1>2, <2>2, StoreStands DEF PublishCheck, OthersStand, TypeOK
      <3>2. ReadView(c)' = NoView
        BY <1>1, <3>1 DEF ReadView, HasWork, Shape, SnapHeld, Reading
      <3> QED
        BY <1>1, <3>1, <3>2, StoreForgets
    <2>3. CASE /\ pc' = [pc EXCEPT ![c] = "flush"]
               /\ UNCHANGED <<snap, work, base, mine, occ, tries, autoWriter, ghost>>
      <3>1. OthersStand(c) /\ Current' = Current /\ pc[c] = "commit" /\ pc'[c] = "flush"
        BY <1>1, <1>2, <2>3, StoreStands DEF PublishCheck, OthersStand, TypeOK
      <3>2. ReadView(c)' = ReadView(c)
        BY <1>1, <2>3, <3>1 DEF ReadView, HasWork, Shape, SnapHeld, Reading
      <3> QED
        BY <1>1, <3>1, <3>2, StoreStutters
    <2> QED
      BY <1>2, <2>1, <2>2, <2>3 DEF PublishCheck, Conflicted
  <1>3. CASE Publish(c)
    <2>1. Current'.writes = work[c].writes
      BY <1>1, <1>3, SwapPublishes DEF Publish, Published, Graph
    <2>2. work[c].writes = Current.writes \cup mine[c] /\ pc[c] = "flush"
      BY <1>3 DEF Publish, OccInv, Occ, HeldOK
    <2>3. ReadView(c) = Current.writes
      BY <1>1, <2>2 DEF ReadView, HasWork, Shape, SnapHeld, Reading
    <2>4. ReadView(c)' = NoView /\ OthersStand(c)
      BY <1>1, <1>3, EndedView DEF Publish, Succeed
    <2> QED
      BY <1>1, <2>1, <2>2, <2>3, <2>4, StoreUpdates
  <1>4. CASE FlushFails(c) \/ CheckpointRecord(c)
    BY <1>1, <1>4, EndedForgets DEF FlushFails, CheckpointRecord
  <1>5. CASE AutoInPlace(c)
    <2>1. CASE Fail(c) /\ UNCHANGED heap
      BY <1>1, <1>5, <2>1, EndedForgets DEF AutoInPlace, store
    <2>2. ASSUME Succeed(c), NEW w \in mine[c],
                 heap' = [heap EXCEPT ![published] = Mutated(@, w)]
          PROVE  Store!Next
      <3>1. w \in Writes /\ Current' = Mutated(Current, w) /\ pc[c] = "autoTry"
        BY <1>1, <1>5, <2>2 DEF AutoInPlace, Current, TypeOK
      <3>2. Current'.writes = Current.writes \cup {w}
        BY <1>1, <3>1, MutatedFacts
      <3>3. ReadView(c)' = NoView /\ OthersStand(c) /\ ReadView(c) = NoView
        BY <1>1, <2>2, <3>1, EndedView, UnreadView DEF Succeed
      <3>4. {w} \in SUBSET Writes /\ {w} \cap Current.writes = {}
        BY <1>1, <3>1
      <3> QED
        BY <1>1, <3>2, <3>3, <3>4, StoreUpdates
    <2> QED
      BY <1>5, <2>1, <2>2 DEF AutoInPlace
  <1>6. CASE AutoFallback(c)
    <2>1. OthersStand(c) /\ Current' = Current /\ pc'[c] = "autoFork"
      BY <1>1, <1>6, StoreStands DEF AutoFallback, OthersStand, TypeOK
    <2>2. ReadView(c)' = NoView
      BY <1>1, <2>1 DEF ReadView, HasWork, Shape, SnapHeld, Reading
    <2> QED
      BY <1>1, <2>1, <2>2, StoreForgets
  <1>7. CASE AutoBegin(c)
    <2>1. /\ OthersStand(c) /\ snap'[c] = published /\ published \in Cells
          /\ Current' = Current /\ heap' = heap
      BY <1>1, <1>7, StoreStands DEF AutoBegin, TakeSnapshot, OthersStand, TypeOK, store
    <2>2. ReadView(c)' = Current.writes
      BY <2>1, SessionAssumption DEF ReadView, Current
    <2> QED
      BY <1>1, <2>1, <2>2, StoreReads
  <1>8. CASE AutoExecute(c)
    <2>1. CASE Fail(c)
      BY <1>1, <1>8, <2>1, EndedForgets DEF AutoExecute
    <2>2. ASSUME NEW w \in mine[c],
                 work' = [work EXCEPT ![c] = Mutated(heap[snap[c]], w)],
                 snap' = [snap EXCEPT ![c] = NoCell],
                 occ' = [occ EXCEPT ![c] = TRUE],
                 pc' = [pc EXCEPT ![c] = "commit"],
                 UNCHANGED <<base, mine, tries, autoWriter, ghost>>
          PROVE  UNCHANGED Store!vars
      <3>1. /\ pc[c] = "autoRun" /\ pc'[c] = "commit"
            /\ snap[c] # NoCell /\ snap'[c] = NoCell /\ w \in Writes
            /\ mine'[c] = mine[c]
            /\ OthersStand(c) /\ Current' = Current
        BY <1>1, <1>8, <2>2, StoreStands
           DEF AutoExecute, Shape, SnapHeld, Reading, OthersStand, TypeOK
      <3>2. work'[c].writes = heap[snap[c]].writes \cup {w}
        BY <1>1, <2>2, <3>1, CurrentIsGraph, MutatedFacts DEF TypeOK
      <3>3. mine[c] = {w}
        BY <1>1, <2>2, <3>1 DEF Shape, AutoOK
      <3>4. w \notin heap[snap[c]].writes
        BY <2>2, <3>1 DEF ProvenanceInv, ApartOK
      <3>5. ReadView(c)' = ReadView(c)
        BY <3>1, <3>2, <3>3, <3>4 DEF ReadView, HasWork
      <3> QED
        BY <1>1, <3>1, <3>5, StoreStutters
    <2> QED
      BY <1>8, <2>1, <2>2 DEF AutoExecute
  <1>9. CASE ClosureEnd(c)
    <2>1. CASE Fail(c) /\ UNCHANGED store
      BY <1>1, <2>1, EndedForgets
    <2>2. CASE work[c].version = base[c]
      BY <1>1, <1>9, <2>1, <2>2 DEF ClosureEnd, OccInv, Occ, HeldOK
    <2>3. CASE /\ pc' = [pc EXCEPT ![c] = "flush"]
               /\ UNCHANGED <<store, snap, work, base, mine, occ, tries, gate, autoWriter, ghost>>
      <3>1. OthersStand(c) /\ Current' = Current /\ pc[c] = "closure" /\ pc'[c] = "flush"
        BY <1>1, <1>9, <2>3, StoreStands DEF ClosureEnd, OthersStand, TypeOK
      <3>2. ReadView(c)' = ReadView(c)
        BY <1>1, <2>3, <3>1 DEF ReadView, HasWork, Shape, SnapHeld, Reading
      <3> QED
        BY <1>1, <3>1, <3>2, StoreStutters
    <2> QED
      BY <1>9, <2>1, <2>2, <2>3 DEF ClosureEnd
  <1>10. CASE CheckpointSave(c)
    <2>1. CASE Fail(c)
      BY <1>1, <1>10, <2>1, EndedForgets DEF CheckpointSave
    <2>2. CASE /\ pc' = [pc EXCEPT ![c] = "ckRecord"]
               /\ UNCHANGED <<snap, work, base, mine, occ, tries, autoWriter, ghost>>
      <3>1. OthersStand(c) /\ Current' = Current /\ pc'[c] = "ckRecord"
        BY <1>1, <1>10, <2>2, StoreStands DEF CheckpointSave, OthersStand, TypeOK
      <3>2. ReadView(c)' = NoView
        BY <1>1, <3>1 DEF ReadView, HasWork, Shape, SnapHeld, Reading
      <3> QED
        BY <1>1, <3>1, <3>2, StoreForgets
    <2> QED
      BY <1>10, <2>1, <2>2 DEF CheckpointSave
  <1> QED
    BY <1>2, <1>3, <1>4, <1>5, <1>6, <1>7, <1>8, <1>9, <1>10 DEF Progress

\* A session whose commits all check the version and whose writes all move it
\* is a store that gains whole batches of writes, each at one instant, each by
\* a client whose view was the store's contents at that instant: commits are
\* serializable and atomic, and a reader sees one published graph for as long
\* as it holds it.  Cells, versions, gates, retries and in-place writes do not
\* show.
THEOREM SessionIsSnapshotStore ==
    ASSUME "lww" \notin Calls, "config" \notin Calls
    PROVE  Spec => ImplementsSnapshotStore
  <1>1. Init => Store!Init
    <2> SUFFICES ASSUME Init PROVE Store!Init
      OBVIOUS
    <2>1. published \in Cells
      BY SessionAssumption DEF Init
    <2>2. Current.writes = {}
      BY <2>1 DEF Init, Current, Blank
    <2>3. \A c \in Clients : ReadView(c) = NoView
      BY DEF Init, ReadView, HasWork
    <2> QED
      BY <2>2, <2>3 DEF Store!Init
  <1>2. ShapeInv /\ ShapeInv' /\ ProvenanceInv /\ OccInv /\ ClosureBase /\ [Next]_vars
          => [Store!Next]_(Store!vars)
    <2>1. ASSUME UNCHANGED vars PROVE UNCHANGED Store!vars
      BY <2>1 DEF vars, store, locals, Store!vars, Current, ReadView, HasWork
    <2> QED
      BY <2>1, RequestMaps, ProgressMaps DEF Next
  <1>3. Spec => []OccInv
    BY OccHolds
  <1> QED
    BY <1>1, <1>2, <1>3, ClosureBaseHolds, ProvenanceHolds, ShapeCorrect, PTL
       DEF Spec, ImplementsSnapshotStore, Store!Spec
=============================================================================
