-------------------------- MODULE BoltWriterProofs --------------------------
(***************************************************************************)
(* Theorems about BoltWriter, for any number of calls, of any kinds, under *)
(* any admission settings: the types, that the window of a queue-mode      *)
(* write transaction is exclusive, and that what a call was told is what   *)
(* the published graph holds.                                              *)
(***************************************************************************)
EXTENDS BoltWriter, SequenceTheorems, TLAPS

-----------------------------------------------------------------------------
(* The inductive invariant, in named parts.                                *)

\* In, or just out of, the map of transactions; holding, or about to use, the slot.
InTx == {"open", "taken", "orphan"}
Held == Live \cup {"granted"}

\* A call waits in the semaphore's queue at most once.
QueueOK ==
    /\ \A i \in DOMAIN waiting : calls[waiting[i]].state = "waiting"
    /\ \A i, j \in DOMAIN waiting : waiting[i] = waiting[j] => i = j

\* What a call's kind and its name say of its state.
KindOK(h) ==
    /\ calls[h].state \in InTx => calls[h].kind \in {"write", "read"}
    /\ calls[h].state = "running" => calls[h].kind \in {"auto", "grouped"}
    /\ calls[h].state \in {"waiting", "granted"} => config.queue /\ calls[h].kind # "read"
    /\ calls[h].run # "no" => calls[h].state \in InTx
    /\ h >= tx_counter => calls[h].state = "new"
    /\ calls[h].state = "new" => calls[h].wrote = 0

\* ToldIsApplied, of one call.
ToldOK(h) ==
    calls[h].shown = IF calls[h].state = "committed" THEN calls[h].wrote ELSE 0

\* A call that may publish holds its permits.
PermitOK(h) ==
    /\ calls[h].kind \in {"write", "auto"} /\ calls[h].state \in Held => exclusive = h
    /\ calls[h].kind = "grouped" /\ calls[h].state \in Held => h \in sharing

\* An exclusive one reads the published graph; one without permits has no writes.
WindowOK(h) ==
    /\ calls[h].kind \in {"write", "auto"} /\ calls[h].state \in Live => calls[h].base = version
    /\ calls[h].kind = "read" /\ calls[h].state \in InTx => calls[h].wrote = 0
    /\ calls[h].state # "conflict"

SlotOK ==
    config.queue =>
        /\ exclusive # None => sharing = {}
        /\ \A h \in Handles : PermitOK(h) /\ WindowOK(h)

Inv == TypeOK /\ QueueOK /\ SlotOK /\ \A h \in Handles : KindOK(h) /\ ToldOK(h)

\* The step is h's: no other call, and no other call's permit, is touched, and
\* the version moves only if no other call's window is open.
OnlyOf(h) ==
    /\ calls' \in [Handles -> Call]
    /\ \A g \in Handles \ {h} : calls'[g] = calls[g]
    /\ config' = config
    /\ tx_counter' = tx_counter \/ tx_counter' = tx_counter + 1
    /\ config.queue /\ exclusive' # None => sharing' = {}
    /\ \A g \in Handles \ {h} : /\ exclusive = g => exclusive' = g
                                /\ g \in sharing => g \in sharing'
    /\ \/ version' = version
       \/ config.queue => \A g \in Handles \ {h} :
                            ~(calls[g].kind \in {"write", "auto"} /\ calls[g].state \in Live)

-----------------------------------------------------------------------------
(* Lemmas about the operators the actions are built from.                  *)

\* RemoveAt keeps the order of the rest.
LEMMA RemoveAtFacts ==
    ASSUME NEW S, NEW s \in Seq(S), NEW i \in DOMAIN s
    PROVE  /\ RemoveAt(s, i) \in Seq(S)
           /\ Len(RemoveAt(s, i)) = Len(s) - 1
           /\ \A j \in 1..(Len(s) - 1) :
                RemoveAt(s, i)[j] = IF j < i THEN s[j] ELSE s[j + 1]
  <1>1. i \in 1..Len(s) /\ Len(s) \in Nat
    OBVIOUS
  <1> DEFINE a == SubSeq(s, 1, i - 1)
             b == SubSeq(s, i + 1, Len(s))
  <1>2. a \in Seq(S) /\ Len(a) = i - 1 /\ \A j \in 1..(i - 1) : a[j] = s[j]
    BY <1>1
  <1>3. b \in Seq(S) /\ Len(b) = Len(s) - i /\ \A j \in 1..(Len(s) - i) : b[j] = s[i + j]
    BY <1>1
  <1>4. RemoveAt(s, i) = a \o b
    BY DEF RemoveAt
  <1> HIDE DEF a, b
  <1>5. /\ RemoveAt(s, i) \in Seq(S)
        /\ Len(RemoveAt(s, i)) = Len(s) - 1
    BY <1>1, <1>2, <1>3, <1>4
  <1>6. ASSUME NEW j \in 1..(Len(s) - 1)
        PROVE  RemoveAt(s, i)[j] = IF j < i THEN s[j] ELSE s[j + 1]
    <2>1. CASE j < i
      BY <1>1, <1>2, <1>3, <1>4, <2>1
    <2>2. CASE ~(j < i)
      <3>1. j - (i - 1) \in 1..(Len(s) - i) /\ b[j - (i - 1)] = s[j + 1]
        BY <1>1, <1>3, <2>2
      <3>2. /\ a \in Seq(S) /\ b \in Seq(S) /\ j \in Nat
            /\ Len(a) = i - 1 /\ Len(a) < j /\ j <= Len(a) + Len(b)
        BY <1>1, <1>2, <1>3, <2>2
      <3>3. (a \o b)[j] = b[j - Len(a)]
        BY <3>2, ConcatProperties
      <3> QED
        BY <1>4, <2>2, <3>1, <3>2, <3>3
    <2> QED
      BY <2>1, <2>2
  <1> QED
    BY <1>5, <1>6

\* The list of reclaimed handles stays within its bound.
LEMMA RecordedFacts ==
    ASSUME TypeOK, NEW h \in Handles
    PROVE  Recorded(h) \in Seq(Handles) /\ Len(Recorded(h)) <= ReapedCap
  <1>1. ReapedCap \in Nat \ {0} /\ reaped \in Seq(Handles) /\ Len(reaped) <= ReapedCap
    BY BoltWriterAssumption DEF TypeOK
  <1>2. CASE Len(reaped) = ReapedCap
    <2>1. reaped # <<>>
      BY <1>1, <1>2
    <2>2. Tail(reaped) \in Seq(Handles) /\ Len(Tail(reaped)) = Len(reaped) - 1
      BY <1>1, <2>1
    <2>3. QED
      BY <1>1, <1>2, <2>2 DEF Recorded
  <1>3. CASE Len(reaped) # ReapedCap
    BY <1>1, <1>3 DEF Recorded
  <1>4. QED
    BY <1>2, <1>3

\* The states by name.
LEMMA StateFacts ==
    /\ "new" \in States /\ "waiting" \in States /\ "granted" \in States
    /\ "open" \in States /\ "taken" \in States /\ "orphan" \in States /\ "running" \in States
    /\ "committed" \in States /\ "conflict" \in States /\ "failed" \in States
    /\ "gone" \in States
    /\ NewCall \in Call
  BY DEF States, Call, Kinds, NewCall

\* A call that is over keeps only its name and its outcome.
LEMMA OverFacts ==
    ASSUME calls \in [Handles -> Call], NEW h \in Handles, NEW state \in States, NEW shown \in Nat,
           Over(h, state, shown)
    PROVE  /\ calls' \in [Handles -> Call]
           /\ \A g \in Handles \ {h} : calls'[g] = calls[g]
           /\ calls'[h].state = state /\ calls'[h].kind = "read"
           /\ calls'[h].run = calls[h].run
           /\ calls'[h].wrote = shown /\ calls'[h].shown = shown
  <1> DEFINE c == [NewCall EXCEPT !.state = state, !.run = calls[h].run,
                                  !.wrote = shown, !.shown = shown]
  <1>1. c \in Call
    BY DEF Call, Kinds, NewCall
  <1>2. /\ c.state = state /\ c.kind = "read" /\ c.run = calls[h].run
        /\ c.wrote = shown /\ c.shown = shown
    BY DEF NewCall
  <1>3. calls' = [calls EXCEPT ![h] = c]
    BY DEF Over, Becomes
  <1> HIDE DEF c
  <1>4. QED
    BY <1>1, <1>2, <1>3

\* Dropping one call's permits leaves the others theirs.
LEMMA ReleaseFacts ==
    ASSUME TypeOK, NEW h \in Handles, Release(h)
    PROVE  /\ exclusive' \in Handles \cup {None} /\ sharing' \subseteq Handles
           /\ holder' \in Handles \cup {None} /\ quiet' \in BOOLEAN
           /\ exclusive' # None => exclusive # None
           /\ sharing' \subseteq sharing
           /\ \A g \in Handles \ {h} : /\ exclusive = g => exclusive' = g
                                       /\ g \in sharing => g \in sharing'
  BY DEF Release, Touch, TypeOK

\* A step of h alone preserves the invariant if it preserves h's part of it.
LEMMA StepOf ==
    ASSUME Inv, NEW h \in Handles, OnlyOf(h), TypeOK', QueueOK', (KindOK(h) /\ ToldOK(h))',
           config.queue => (PermitOK(h) /\ WindowOK(h))'
    PROVE  Inv'
  <1>1. ASSUME NEW g \in Handles PROVE (KindOK(g) /\ ToldOK(g))'
    <2>1. CASE g = h
      BY <2>1
    <2>2. CASE g # h
      <3>1. calls'[g] = calls[g] /\ KindOK(g) /\ ToldOK(g)
        BY <2>2 DEF OnlyOf, Inv
      <3>2. g >= tx_counter' => g >= tx_counter
        BY BoltWriterAssumption DEF OnlyOf, Inv, TypeOK
      <3>3. QED
        BY <3>1, <3>2 DEF KindOK, ToldOK, OnlyOf
    <2>3. QED
      BY <2>1, <2>2
  <1>2. ASSUME config.queue, NEW g \in Handles PROVE (PermitOK(g) /\ WindowOK(g))'
    <2>1. CASE g = h
      BY <1>2, <2>1
    <2>2. CASE g # h
      <3>1. calls'[g] = calls[g] /\ PermitOK(g) /\ WindowOK(g)
        BY <1>2, <2>2 DEF OnlyOf, Inv, SlotOK
      <3>2. PermitOK(g)'
        BY <3>1, <2>2 DEF PermitOK, OnlyOf
      <3>3. WindowOK(g)'
        BY <3>1, <2>2, <1>2 DEF WindowOK, OnlyOf
      <3>4. QED
        BY <3>2, <3>3
    <2>3. QED
      BY <2>1, <2>2
  <1>3. SlotOK'
    BY <1>2 DEF SlotOK, OnlyOf
  <1>4. QED
    BY <1>1, <1>3 DEF Inv

\* The queue is not disturbed by a call that is not in it.
LEMMA QueueKept ==
    ASSUME TypeOK, QueueOK, NEW h \in Handles, OnlyOf(h), waiting' = waiting,
           calls[h].state # "waiting" \/ calls'[h].state = "waiting"
    PROVE  QueueOK'
  <1>1. \A i \in DOMAIN waiting : waiting[i] \in Handles
    BY DEF TypeOK
  <1>2. \A i \in DOMAIN waiting : calls'[waiting[i]].state = "waiting"
    BY <1>1 DEF QueueOK, OnlyOf
  <1>3. QED
    BY <1>2 DEF QueueOK

-----------------------------------------------------------------------------
(* Every step preserves the invariant, a lemma for each.                   *)

\* Nothing has arrived.
LEMMA InitInv == Init => Inv
  <1> SUFFICES ASSUME Init PROVE Inv
    OBVIOUS
  <1>1. calls \in [Handles -> Call] /\ \A h \in Handles : calls[h] = NewCall
    BY StateFacts DEF Init
  <1>2. waiting \in Seq(Handles) /\ reaped \in Seq(Handles) /\ Len(reaped) <= ReapedCap
    BY BoltWriterAssumption DEF Init
  <1>3. TypeOK
    BY <1>1, <1>2 DEF Init, TypeOK
  <1>4. QueueOK
    BY DEF Init, QueueOK
  <1>5. \A h \in Handles : KindOK(h) /\ ToldOK(h)
    BY <1>1 DEF KindOK, ToldOK, NewCall, InTx
  <1>6. \A h \in Handles : PermitOK(h) /\ WindowOK(h)
    BY <1>1 DEF PermitOK, WindowOK, NewCall, InTx, Held, Live
  <1>7. QED
    BY <1>3, <1>4, <1>5, <1>6 DEF Inv, SlotOK, Init

\* The snapshot taken with the permit in hand is of the current version.
LEMMA StartStep ==
    ASSUME Inv, NEW h \in Handles, Start(h)
    PROVE  Inv'
  <1> DEFINE c == calls[h]
             d == [calls[h] EXCEPT !.base = version,
                                !.state = IF c.kind = "write" THEN "open" ELSE "running"]
  <1>1. TypeOK /\ QueueOK /\ SlotOK /\ KindOK(h) /\ ToldOK(h) /\ c \in Call
        /\ version \in Nat
    BY DEF Inv, TypeOK
  <1>2. /\ c.state = "granted" /\ d.state = IF c.kind = "write" THEN "open" ELSE "running"
        /\ d.base = version /\ d.run = c.run
        /\ d.kind = c.kind /\ d.wrote = c.wrote /\ d.shown = c.shown
        /\ c.kind \in Kinds
        /\ UNCHANGED <<config, tx_counter, version, exclusive, sharing>>
    BY <1>1 DEF Start, Becomes, Call
  <1>3. d \in Call
    BY <1>1, <1>2, StateFacts DEF Call
  <1>4. calls' = [calls EXCEPT ![h] = d]
    BY DEF Start, Becomes
  <1> HIDE DEF d
  <1>5. /\ calls' \in [Handles -> Call] /\ calls'[h] = d
        /\ \A g \in Handles \ {h} : calls'[g] = calls[g]
    BY <1>1, <1>3, <1>4 DEF TypeOK
  <1>6. TypeOK'
    BY <1>1, <1>5 DEF TypeOK, slot, Start, Becomes
  <1>7. OnlyOf(h)
    BY <1>1, <1>5 DEF OnlyOf, SlotOK, slot, Start, Becomes
  <1>8. QueueOK'
    BY <1>1, <1>2, <1>5, <1>7, QueueKept DEF Start, Becomes
  <1>9. (KindOK(h) /\ ToldOK(h))'
    BY <1>1, <1>2, <1>5 DEF KindOK, ToldOK, InTx, Kinds
  <1>10. config.queue => (PermitOK(h) /\ WindowOK(h))'
    BY <1>1, <1>2, <1>5 DEF SlotOK, PermitOK, WindowOK, Held, Live, InTx
  <1>11. QED
    BY <1>6, <1>7, <1>8, <1>9, <1>10, StepOf

\* Looking the transaction up changes nothing it holds.
LEMMA RunStep ==
    ASSUME Inv, NEW h \in Handles, Run(h)
    PROVE  Inv'
  <1> DEFINE c == calls[h]
             d == [calls[h] EXCEPT !.run = "looked"]
  <1>1. TypeOK /\ QueueOK /\ SlotOK /\ KindOK(h) /\ ToldOK(h) /\ c \in Call
        /\ version \in Nat
    BY DEF Inv, TypeOK
  <1>2. /\ c.state = "open" /\ d.state = "open"
        /\ d.kind = c.kind /\ d.base = c.base /\ d.wrote = c.wrote /\ d.shown = c.shown
        /\ UNCHANGED <<config, tx_counter, version, exclusive, sharing>>
    BY <1>1 DEF Run, slot, Becomes, Call
  <1>3. d \in Call
    BY <1>1, <1>2, StateFacts DEF Call
  <1>4. calls' = [calls EXCEPT ![h] = d]
    BY DEF Run, slot, Becomes
  <1> HIDE DEF d
  <1>5. /\ calls' \in [Handles -> Call] /\ calls'[h] = d
        /\ \A g \in Handles \ {h} : calls'[g] = calls[g]
    BY <1>1, <1>3, <1>4 DEF TypeOK
  <1>6. TypeOK'
    BY <1>1, <1>5 DEF TypeOK, slot, Run, slot, Becomes
  <1>7. OnlyOf(h)
    BY <1>1, <1>5 DEF OnlyOf, SlotOK, slot, Run, slot, Becomes
  <1>8. QueueOK'
    BY <1>1, <1>2, <1>5, <1>7, QueueKept DEF Run, slot, Becomes
  <1>9. (KindOK(h) /\ ToldOK(h))'
    BY <1>1, <1>2, <1>5 DEF KindOK, ToldOK, InTx
  <1>10. config.queue => (PermitOK(h) /\ WindowOK(h))'
    BY <1>1, <1>2, <1>5 DEF SlotOK, PermitOK, WindowOK, Held, Live, InTx
  <1>11. QED
    BY <1>6, <1>7, <1>8, <1>9, <1>10, StepOf

\* Nor does the in-flight mark, taken or missed.
LEMMA MarkStep ==
    ASSUME Inv, NEW h \in Handles, NEW seen \in BOOLEAN, Mark(h, seen)
    PROVE  Inv'
  <1> DEFINE c == calls[h]
             d == [calls[h] EXCEPT !.run = IF seen THEN "marked" ELSE "unmarked"]
  <1>1. TypeOK /\ QueueOK /\ SlotOK /\ KindOK(h) /\ ToldOK(h) /\ c \in Call
        /\ version \in Nat
    BY DEF Inv, TypeOK
  <1>2. /\ c.run = "looked" /\ d.state = c.state
        /\ d.kind = c.kind /\ d.base = c.base /\ d.wrote = c.wrote /\ d.shown = c.shown
        /\ UNCHANGED <<config, tx_counter, version, exclusive, sharing>>
    BY <1>1 DEF Mark, Touch, Becomes, Call
  <1>3. d \in Call
    BY <1>1, <1>2, StateFacts DEF Call
  <1>4. calls' = [calls EXCEPT ![h] = d]
    BY DEF Mark, Touch, Becomes
  <1> HIDE DEF d
  <1>5. /\ calls' \in [Handles -> Call] /\ calls'[h] = d
        /\ \A g \in Handles \ {h} : calls'[g] = calls[g]
    BY <1>1, <1>3, <1>4 DEF TypeOK
  <1>6. TypeOK'
    BY <1>1, <1>5 DEF TypeOK, slot, Mark, Touch, Becomes
  <1>7. OnlyOf(h)
    BY <1>1, <1>5 DEF OnlyOf, SlotOK, slot, Mark, Touch, Becomes
  <1>8. QueueOK'
    BY <1>1, <1>2, <1>5, <1>7, QueueKept DEF Mark, Touch, Becomes
  <1>9. (KindOK(h) /\ ToldOK(h))'
    BY <1>1, <1>2, <1>5 DEF KindOK, ToldOK, InTx
  <1>10. config.queue => (PermitOK(h) /\ WindowOK(h))'
    BY <1>1, <1>2, <1>5 DEF SlotOK, PermitOK, WindowOK, Held, Live, InTx
  <1>11. QED
    BY <1>6, <1>7, <1>8, <1>9, <1>10, StepOf

\* Out of the map, the call still holds its permit.
LEMMA TakeStep ==
    ASSUME Inv, NEW h \in Handles, NEW ending \in {"commit", "rollback"}, Take(h, ending)
    PROVE  Inv'
  <1> DEFINE c == calls[h]
             d == [calls[h] EXCEPT !.state = "taken", !.ending = ending]
  <1>1. TypeOK /\ QueueOK /\ SlotOK /\ KindOK(h) /\ ToldOK(h) /\ c \in Call
        /\ version \in Nat
    BY DEF Inv, TypeOK
  <1>2. /\ c.state = "open" /\ d.state = "taken" /\ d.run = c.run
        /\ d.kind = c.kind /\ d.base = c.base /\ d.wrote = c.wrote /\ d.shown = c.shown
        /\ UNCHANGED <<config, tx_counter, version, exclusive, sharing>>
    BY <1>1 DEF Take, slot, Becomes, Call
  <1>3. d \in Call
    BY <1>1, <1>2, StateFacts DEF Call
  <1>4. calls' = [calls EXCEPT ![h] = d]
    BY DEF Take, slot, Becomes
  <1> HIDE DEF d
  <1>5. /\ calls' \in [Handles -> Call] /\ calls'[h] = d
        /\ \A g \in Handles \ {h} : calls'[g] = calls[g]
    BY <1>1, <1>3, <1>4 DEF TypeOK
  <1>6. TypeOK'
    BY <1>1, <1>5 DEF TypeOK, slot, Take, slot, Becomes
  <1>7. OnlyOf(h)
    BY <1>1, <1>5 DEF OnlyOf, SlotOK, slot, Take, slot, Becomes
  <1>8. QueueOK'
    BY <1>1, <1>2, <1>5, <1>7, QueueKept DEF Take, slot, Becomes
  <1>9. (KindOK(h) /\ ToldOK(h))'
    BY <1>1, <1>2, <1>5 DEF KindOK, ToldOK, InTx
  <1>10. config.queue => (PermitOK(h) /\ WindowOK(h))'
    BY <1>1, <1>2, <1>5 DEF SlotOK, PermitOK, WindowOK, Held, Live, InTx
  <1>11. QED
    BY <1>6, <1>7, <1>8, <1>9, <1>10, StepOf

\* It goes back as it was.
LEMMA PutBackStep ==
    ASSUME Inv, NEW h \in Handles, PutBack(h)
    PROVE  Inv'
  <1> DEFINE c == calls[h]
             d == [calls[h] EXCEPT !.state = "open", !.ending = "no"]
  <1>1. TypeOK /\ QueueOK /\ SlotOK /\ KindOK(h) /\ ToldOK(h) /\ c \in Call
        /\ version \in Nat
    BY DEF Inv, TypeOK
  <1>2. /\ c.state = "taken" /\ d.state = "open" /\ d.run = c.run
        /\ d.kind = c.kind /\ d.base = c.base /\ d.wrote = c.wrote /\ d.shown = c.shown
        /\ UNCHANGED <<config, tx_counter, version, exclusive, sharing>>
    BY <1>1 DEF PutBack, slot, Becomes, Call
  <1>3. d \in Call
    BY <1>1, <1>2, StateFacts DEF Call
  <1>4. calls' = [calls EXCEPT ![h] = d]
    BY DEF PutBack, slot, Becomes
  <1> HIDE DEF d
  <1>5. /\ calls' \in [Handles -> Call] /\ calls'[h] = d
        /\ \A g \in Handles \ {h} : calls'[g] = calls[g]
    BY <1>1, <1>3, <1>4 DEF TypeOK
  <1>6. TypeOK'
    BY <1>1, <1>5 DEF TypeOK, slot, PutBack, slot, Becomes
  <1>7. OnlyOf(h)
    BY <1>1, <1>5 DEF OnlyOf, SlotOK, slot, PutBack, slot, Becomes
  <1>8. QueueOK'
    BY <1>1, <1>2, <1>5, <1>7, QueueKept DEF PutBack, slot, Becomes
  <1>9. (KindOK(h) /\ ToldOK(h))'
    BY <1>1, <1>2, <1>5 DEF KindOK, ToldOK, InTx
  <1>10. config.queue => (PermitOK(h) /\ WindowOK(h))'
    BY <1>1, <1>2, <1>5 DEF SlotOK, PermitOK, WindowOK, Held, Live, InTx
  <1>11. QED
    BY <1>6, <1>7, <1>8, <1>9, <1>10, StepOf

\* A retry's new snapshot is current; in queue mode there is nothing to retry.
LEMMA AutoRetriesStep ==
    ASSUME Inv, NEW h \in Handles, AutoRetries(h)
    PROVE  Inv'
  <1> DEFINE c == calls[h]
             d == [calls[h] EXCEPT !.tries = calls[h].tries + 1, !.base = version]
  <1>1. TypeOK /\ QueueOK /\ SlotOK /\ KindOK(h) /\ ToldOK(h) /\ c \in Call
        /\ version \in Nat
    BY DEF Inv, TypeOK
  <1>2. /\ c.state = "running" /\ d.state = "running" /\ d.run = c.run /\ d.base = version
        /\ d.tries \in Nat /\ d.kind = c.kind /\ d.wrote = c.wrote /\ d.shown = c.shown
        /\ UNCHANGED <<config, tx_counter, version, exclusive, sharing>>
    BY <1>1 DEF AutoRetries, slot, Becomes, Call
  <1>3. d \in Call
    BY <1>1, <1>2, StateFacts DEF Call
  <1>4. calls' = [calls EXCEPT ![h] = d]
    BY DEF AutoRetries, slot, Becomes
  <1> HIDE DEF d
  <1>5. /\ calls' \in [Handles -> Call] /\ calls'[h] = d
        /\ \A g \in Handles \ {h} : calls'[g] = calls[g]
    BY <1>1, <1>3, <1>4 DEF TypeOK
  <1>6. TypeOK'
    BY <1>1, <1>5 DEF TypeOK, slot, AutoRetries, slot, Becomes
  <1>7. OnlyOf(h)
    BY <1>1, <1>5 DEF OnlyOf, SlotOK, slot, AutoRetries, slot, Becomes
  <1>8. QueueOK'
    BY <1>1, <1>2, <1>5, <1>7, QueueKept DEF AutoRetries, slot, Becomes
  <1>9. (KindOK(h) /\ ToldOK(h))'
    BY <1>1, <1>2, <1>5 DEF KindOK, ToldOK, InTx
  <1>10. config.queue => (PermitOK(h) /\ WindowOK(h))'
    BY <1>1, <1>2, <1>5 DEF SlotOK, PermitOK, WindowOK, Held, Live, InTx
  <1>11. QED
    BY <1>6, <1>7, <1>8, <1>9, <1>10, StepOf

\* A call that ends gives up its permits, and with them its part of the invariant.
LEMMA EndStep ==
    ASSUME Inv, NEW h \in Handles, NEW d \in Call, calls' = [calls EXCEPT ![h] = d], Release(h),
           calls[h].state \notin {"new", "waiting"},
           d.kind = "read", d.run = "no", d.state \in {"committed", "conflict", "failed", "gone"},
           d.shown = d.wrote, d.state # "committed" => d.wrote = 0,
           config.queue => d.state # "conflict",
           UNCHANGED <<config, tx_counter, waiting>>, version' \in Nat,
           reaped' \in Seq(Handles) /\ Len(reaped') <= ReapedCap,
           polled' \in [Handles -> Handles \cup {None}],
           \/ version' = version
           \/ config.queue => \A g \in Handles \ {h} :
                                ~(calls[g].kind \in {"write", "auto"} /\ calls[g].state \in Live)
    PROVE  Inv'
  <1>1. TypeOK /\ QueueOK /\ SlotOK /\ KindOK(h) /\ ToldOK(h)
    BY DEF Inv
  <1>2. /\ calls' \in [Handles -> Call] /\ calls'[h] = d
        /\ \A g \in Handles \ {h} : calls'[g] = calls[g]
    BY <1>1 DEF TypeOK
  <1>3. TypeOK'
    BY <1>1, <1>2, ReleaseFacts DEF TypeOK
  <1>4. OnlyOf(h)
    BY <1>1, <1>2, ReleaseFacts DEF OnlyOf, SlotOK
  <1>5. QueueOK'
    BY <1>1, <1>4, QueueKept
  <1>6. (KindOK(h) /\ ToldOK(h))'
    BY <1>1, <1>2 DEF KindOK, ToldOK, InTx
  <1>7. config.queue => (PermitOK(h) /\ WindowOK(h))'
    BY <1>1, <1>2 DEF PermitOK, WindowOK, Held, Live, InTx
  <1>8. QED
    BY <1>3, <1>4, <1>5, <1>6, <1>7, StepOf

\* The same of a call that is over.
LEMMA OverStep ==
    ASSUME Inv, NEW h \in Handles, NEW state \in {"committed", "conflict", "failed", "gone"},
           NEW shown \in Nat, Over(h, state, shown), Release(h),
           calls[h].state \notin {"new", "waiting"}, calls[h].run = "no",
           state # "committed" => shown = 0, config.queue => state # "conflict",
           UNCHANGED <<config, tx_counter, waiting>>, version' \in Nat,
           reaped' \in Seq(Handles) /\ Len(reaped') <= ReapedCap,
           polled' \in [Handles -> Handles \cup {None}],
           \/ version' = version
           \/ config.queue => \A g \in Handles \ {h} :
                                ~(calls[g].kind \in {"write", "auto"} /\ calls[g].state \in Live)
    PROVE  Inv'
  <1>1. calls \in [Handles -> Call] /\ state \in States
    BY StateFacts DEF Inv, TypeOK
  <1>2. /\ calls' \in [Handles -> Call]
        /\ \A g \in Handles \ {h} : calls'[g] = calls[g]
        /\ calls'[h].state = state /\ calls'[h].kind = "read" /\ calls'[h].run = "no"
        /\ calls'[h].wrote = shown /\ calls'[h].shown = shown
    BY <1>1, OverFacts
  <1> DEFINE d == calls'[h]
  <1>3. d \in Call /\ calls' = [calls EXCEPT ![h] = d]
    BY <1>1, <1>2
  <1> HIDE DEF d
  <1>4. /\ d.state = state /\ d.kind = "read" /\ d.run = "no" /\ d.wrote = shown
        /\ d.shown = shown
    BY <1>2 DEF d
  <1>5. QED
    BY <1>3, <1>4, EndStep

\* ROLLBACK drops the transaction and its permit.
LEMMA RollbackEndsStep ==
    ASSUME Inv, NEW h \in Handles, RollbackEnds(h)
    PROVE  Inv'
  <1>1. Over(h, "gone", 0) /\ Release(h) /\ calls[h].state = "taken" /\ calls[h].run = "no"
    BY DEF RollbackEnds, Unpublished, Sole
  <1>2. UNCHANGED <<config, tx_counter, waiting, version, reaped, polled>>
    BY DEF RollbackEnds, Unpublished
  <1>3. version' \in Nat /\ reaped' \in Seq(Handles) /\ Len(reaped') <= ReapedCap
        /\ polled' \in [Handles -> Handles \cup {None}]
    BY <1>2 DEF Inv, TypeOK
  <1>4. QED
    BY <1>1, <1>2, <1>3, OverStep

\* While a writer publishes in queue mode nobody else's window is open.
LEMMA Alone ==
    ASSUME Inv, NEW h \in Handles, config.queue, calls[h].state \in Live,
           calls[h].kind # "read"
    PROVE  \A g \in Handles \ {h} :
              ~(calls[g].kind \in {"write", "auto"} /\ calls[g].state \in Live)
  <1> SUFFICES ASSUME NEW g \in Handles \ {h}, calls[g].kind \in {"write", "auto"},
                      calls[g].state \in Live
               PROVE  FALSE
    OBVIOUS
  <1>1. /\ exclusive # None => sharing = {}
        /\ PermitOK(g) /\ PermitOK(h)
    BY DEF Inv, SlotOK
  <1>2. exclusive = g /\ g # None
    BY <1>1, BoltWriterAssumption DEF PermitOK, Held
  <1>3. calls[h].kind \in {"write", "auto", "grouped"}
    BY DEF Inv, TypeOK, Call, Kinds
  <1>4. QED
    BY <1>1, <1>2, <1>3 DEF PermitOK, Held

\* A COMMIT, in each of its outcomes: the conflict is the optimistic mode's alone.
LEMMA CommitEndsStep ==
    ASSUME Inv, NEW h \in Handles, CommitEnds(h)
    PROVE  Inv'
  <1>1. /\ Release(h) /\ calls[h].state = "taken" /\ calls[h].run = "no"
        /\ UNCHANGED <<config, tx_counter, waiting, reaped, polled>>
    BY DEF CommitEnds, Sole
  <1>2. /\ version \in Nat /\ reaped' \in Seq(Handles) /\ Len(reaped') <= ReapedCap
        /\ polled' \in [Handles -> Handles \cup {None}]
        /\ calls[h].wrote \in Nat /\ calls[h].kind \in {"write", "read"}
    BY <1>1 DEF Inv, TypeOK, KindOK, InTx, Call
  <1>3. CASE calls[h].wrote = 0 /\ Unpublished(h, "committed")
    BY <1>1, <1>2, <1>3, OverStep DEF Unpublished
  <1>4. CASE calls[h].wrote > 0 /\ ~Stale(h) /\ Published(h, calls[h].wrote)
    <2>1. config.queue => calls[h].kind # "read"
      BY <1>1, <1>2, <1>4 DEF Inv, SlotOK, WindowOK, InTx
    <2>2. config.queue => \A g \in Handles \ {h} :
              ~(calls[g].kind \in {"write", "auto"} /\ calls[g].state \in Live)
      BY <1>1, <2>1, Alone DEF Live
    <2>3. QED
      BY <1>1, <1>2, <1>4, <2>2, OverStep DEF Published
  <1>5. CASE calls[h].wrote > 0 /\ ~Stale(h) /\ Unpublished(h, "failed")
    BY <1>1, <1>2, <1>5, OverStep DEF Unpublished
  <1>6. CASE calls[h].wrote > 0 /\ Stale(h) /\ Unpublished(h, "conflict")
    <2>1. ~config.queue
      BY <1>1, <1>2, <1>6 DEF Inv, SlotOK, WindowOK, InTx, Live, Stale
    <2>2. QED
      BY <1>1, <1>2, <1>6, <2>1, OverStep DEF Unpublished
  <1>7. QED
    BY <1>3, <1>4, <1>5, <1>6 DEF CommitEnds

\* A statement publishes with its permit still held.
LEMMA AutoPublishesStep ==
    ASSUME Inv, NEW h \in Handles, AutoPublishes(h)
    PROVE  Inv'
  <1>1. /\ Over(h, "committed", 1) /\ Release(h) /\ calls[h].state = "running"
        /\ version' = version + 1
        /\ UNCHANGED <<config, tx_counter, waiting, reaped, polled>>
    BY DEF AutoPublishes, Published
  <1>2. /\ version' \in Nat /\ reaped' \in Seq(Handles) /\ Len(reaped') <= ReapedCap
        /\ polled' \in [Handles -> Handles \cup {None}]
    BY <1>1 DEF Inv, TypeOK
  <1>3. calls[h].kind # "read" /\ calls[h].run = "no"
    BY <1>1 DEF Inv, KindOK, InTx
  <1>4. config.queue => \A g \in Handles \ {h} :
              ~(calls[g].kind \in {"write", "auto"} /\ calls[g].state \in Live)
    BY <1>1, <1>3, Alone DEF Live
  <1>5. QED
    BY <1>1, <1>2, <1>3, <1>4, OverStep

\* A failed statement leaves nothing; in queue mode it has met no stale version.
LEMMA AutoFailsStep ==
    ASSUME Inv, NEW h \in Handles, AutoFails(h)
    PROVE  Inv'
  <1> DEFINE state == IF Stale(h) /\ calls[h].kind = "auto" THEN "conflict" ELSE "failed"
  <1>1. /\ Over(h, state, 0) /\ Release(h) /\ calls[h].state = "running"
        /\ UNCHANGED <<version, config, tx_counter, waiting, reaped, polled>>
    BY DEF AutoFails, Unpublished
  <1>2. /\ version' \in Nat /\ reaped' \in Seq(Handles) /\ Len(reaped') <= ReapedCap
        /\ polled' \in [Handles -> Handles \cup {None}]
    BY <1>1 DEF Inv, TypeOK
  <1>3. calls[h].run = "no"
    BY <1>1 DEF Inv, KindOK, InTx
  <1>4. config.queue => state # "conflict"
    BY <1>1 DEF Inv, SlotOK, WindowOK, Live, Stale
  <1>5. state \in {"committed", "conflict", "failed", "gone"} /\ state # "committed"
    OBVIOUS
  <1> HIDE DEF state
  <1>6. QED
    BY <1>1, <1>2, <1>3, <1>4, <1>5, OverStep

\* RESET, the end of the connection and a reclaim.
LEMMA DiscardStep ==
    ASSUME Inv, NEW h \in Handles, calls[h].state = "open", Discard(h),
           UNCHANGED <<config, tx_counter, version, waiting>>,
           reaped' \in Seq(Handles) /\ Len(reaped') <= ReapedCap,
           polled' \in [Handles -> Handles \cup {None}]
    PROVE  Inv'
  <1>1. CASE calls[h].run = "no"
    <2>1. Over(h, "gone", 0) /\ Release(h) /\ version' \in Nat
      BY <1>1 DEF Discard, Inv, TypeOK
    <2>2. QED
      BY <1>1, <2>1, OverStep
  <1>2. CASE calls[h].run # "no"
    <2> DEFINE c == calls[h]
               d == [calls[h] EXCEPT !.state = "orphan"]
    <2>1. /\ TypeOK /\ QueueOK /\ SlotOK /\ KindOK(h) /\ ToldOK(h) /\ c \in Call
          /\ calls' = [calls EXCEPT ![h] = d] /\ UNCHANGED slot
      BY <1>2 DEF Inv, TypeOK, Discard, Becomes
    <2>2. /\ d.state = "orphan" /\ d.kind = c.kind /\ d.run = c.run /\ d.base = c.base
          /\ d.wrote = c.wrote /\ d.shown = c.shown
      BY <2>1 DEF Call
    <2>3. d \in Call
      BY <2>1, StateFacts DEF Call
    <2> HIDE DEF d
    <2>4. /\ calls' \in [Handles -> Call] /\ calls'[h] = d
          /\ \A g \in Handles \ {h} : calls'[g] = calls[g]
      BY <2>1, <2>3 DEF TypeOK
    <2>5. TypeOK'
      BY <2>1, <2>4 DEF TypeOK, slot
    <2>6. OnlyOf(h)
      BY <2>1, <2>4 DEF OnlyOf, SlotOK, slot
    <2>7. QueueOK'
      BY <2>1, <2>6, QueueKept
    <2>8. (KindOK(h) /\ ToldOK(h))'
      BY <2>1, <2>2, <2>4 DEF KindOK, ToldOK, InTx
    <2>9. config.queue => (PermitOK(h) /\ WindowOK(h))'
      BY <2>1, <2>2, <2>4 DEF SlotOK, PermitOK, WindowOK, Held, Live, InTx, slot
    <2>10. QED
      BY <2>5, <2>6, <2>7, <2>8, <2>9, StepOf
  <1>3. QED
    BY <1>1, <1>2

\* RESET and the end of the connection are a discard.
LEMMA ResetStep ==
    ASSUME Inv, NEW h \in Handles, Reset(h)
    PROVE  Inv'
  <1>1. /\ calls[h].state = "open" /\ Discard(h)
        /\ UNCHANGED <<config, tx_counter, version, waiting, reaped, polled>>
    BY DEF Reset
  <1>2. reaped' \in Seq(Handles) /\ Len(reaped') <= ReapedCap
        /\ polled' \in [Handles -> Handles \cup {None}]
    BY <1>1 DEF Inv, TypeOK
  <1>3. QED
    BY <1>1, <1>2, DiscardStep


\* Steps that touch neither a call nor a permit.
LEMMA QuietStep ==
    ASSUME Inv, UNCHANGED <<config, tx_counter, version, waiting, exclusive, sharing, holder,
                            reaped, calls>>,
           quiet' \in BOOLEAN, polled' \in [Handles -> Handles \cup {None}]
    PROVE  Inv'
  <1>1. TypeOK' /\ QueueOK'
    BY DEF Inv, TypeOK, QueueOK
  <1>2. ASSUME NEW h \in Handles PROVE (KindOK(h) /\ ToldOK(h))'
    BY DEF Inv, KindOK, ToldOK
  <1>3. SlotOK'
    BY DEF Inv, SlotOK, PermitOK, WindowOK
  <1>4. QED
    BY <1>1, <1>2, <1>3 DEF Inv

\* A reclaim discards what is still open under the handle read, or nothing.
LEMMA ReclaimStep ==
    ASSUME Inv, NEW h \in Handles, Reclaim(h)
    PROVE  Inv'
  <1> DEFINE idler == polled[h]
  <1>1. /\ idler \in Handles /\ polled' \in [Handles -> Handles \cup {None}]
        /\ UNCHANGED <<config, tx_counter, version, waiting>> /\ quiet \in BOOLEAN /\ TypeOK
    BY DEF Inv, TypeOK, Reclaim
  <1>2. CASE calls[idler].state = "open"
    <2>1. Discard(idler) /\ reaped' = Recorded(idler)
      BY <1>2 DEF Reclaim
    <2>2. reaped' \in Seq(Handles) /\ Len(reaped') <= ReapedCap
      BY <1>1, <2>1, RecordedFacts
    <2> HIDE DEF idler
    <2>3. QED
      BY <1>1, <1>2, <2>1, <2>2, DiscardStep
  <1>3. CASE calls[idler].state # "open"
    <2>1. UNCHANGED <<calls, slot, reaped>>
      BY <1>3 DEF Reclaim
    <2>2. QED
      BY <1>1, <2>1, QuietStep DEF slot
  <1>4. QED
    BY <1>2, <1>3

\* A call takes the next name, and joins the queue or takes its snapshot.
LEMMA ArriveStep ==
    ASSUME Inv, NEW h \in Handles, NEW kind \in Kinds,
           Arrive(h, kind)
    PROVE  Inv'
  <1> DEFINE c == calls[h]
             d == [calls[h] EXCEPT
                     !.kind = kind,
                     !.base = IF TakesSlot(kind) THEN c.base ELSE version,
                     !.state = IF TakesSlot(kind) THEN "waiting"
                               ELSE IF kind \in {"write", "read"} THEN "open" ELSE "running"]
  <1>1. TypeOK /\ QueueOK /\ SlotOK /\ KindOK(h) /\ ToldOK(h) /\ c \in Call /\ version \in Nat
        /\ h \in Nat
    BY BoltWriterAssumption DEF Inv, TypeOK
  <1>2. /\ h = tx_counter /\ tx_counter' = h + 1 /\ c.state = "new" /\ c.wrote = 0
        /\ c.run = "no" /\ c.shown = 0
        /\ UNCHANGED <<config, version, slot, reaped, polled>>
    BY <1>1 DEF Arrive, KindOK, ToldOK, InTx
  <1>3. /\ d.kind = kind /\ d.wrote = 0 /\ d.run = "no" /\ d.shown = 0
        /\ d.state = IF TakesSlot(kind) THEN "waiting"
                     ELSE IF kind \in {"write", "read"} THEN "open" ELSE "running"
    BY <1>1, <1>2 DEF Call
  <1>4. d \in Call
    BY <1>1, <1>3, StateFacts DEF Call
  <1>5. calls' = [calls EXCEPT ![h] = d]
    BY DEF Arrive, Becomes
  <1> HIDE DEF d
  <1>6. /\ calls' \in [Handles -> Call] /\ calls'[h] = d
        /\ \A g \in Handles \ {h} : calls'[g] = calls[g]
    BY <1>1, <1>4, <1>5 DEF TypeOK
  <1>7. waiting' = IF TakesSlot(kind) THEN Append(waiting, h) ELSE waiting
    BY DEF Arrive
  <1>8. TypeOK'
    BY <1>1, <1>2, <1>6, <1>7 DEF TypeOK, slot
  <1>9. OnlyOf(h)
    BY <1>1, <1>2, <1>6 DEF OnlyOf, SlotOK, slot
  <1>10. QueueOK'
    <2>1. \A i \in DOMAIN waiting : /\ waiting[i] \in Handles \ {h}
                                    /\ calls'[waiting[i]].state = "waiting"
      <3>1. \A i \in DOMAIN waiting : waiting[i] \in Handles
        BY <1>1 DEF TypeOK
      <3>2. \A i \in DOMAIN waiting : calls[waiting[i]].state = "waiting"
        BY <1>1 DEF QueueOK
      <3>3. QED
        BY <1>2, <1>6, <3>1, <3>2
    <2>2. CASE TakesSlot(kind)
      <3>1. /\ waiting \in Seq(Handles) /\ waiting' = Append(waiting, h)
            /\ \A i, j \in DOMAIN waiting : waiting[i] = waiting[j] => i = j
            /\ calls'[h].state = "waiting"
        BY <1>1, <1>3, <1>6, <1>7, <2>2 DEF TypeOK, QueueOK
      <3>2. /\ DOMAIN waiting' = DOMAIN waiting \cup {Len(waiting) + 1}
            /\ \A i \in DOMAIN waiting : waiting'[i] = waiting[i]
            /\ waiting'[Len(waiting) + 1] = h
        BY <3>1
      <3>3. QED
        BY <3>1, <3>2, <2>1 DEF QueueOK
    <2>3. CASE ~TakesSlot(kind)
      BY <1>1, <1>7, <2>1, <2>3 DEF QueueOK
    <2>4. QED
      BY <2>2, <2>3
  <1>11. (KindOK(h) /\ ToldOK(h))'
    BY <1>1, <1>2, <1>3, <1>6 DEF KindOK, ToldOK, InTx, TakesSlot, Kinds
  <1>12. config.queue => (PermitOK(h) /\ WindowOK(h))'
    BY <1>1, <1>2, <1>3, <1>6 DEF PermitOK, WindowOK, Held, Live, InTx, TakesSlot
  <1>13. QED
    BY <1>8, <1>9, <1>10, <1>11, <1>12, <1>1, StepOf

\* The head of the queue gets permits that are free.
LEMMA GrantStep ==
    ASSUME Inv, NEW h \in Handles, Grant(h)
    PROVE  Inv'
  <1> DEFINE c == calls[h]
             d == [calls[h] EXCEPT !.state = "granted"]
  <1>1. TypeOK /\ QueueOK /\ SlotOK /\ KindOK(h) /\ ToldOK(h) /\ c \in Call
    BY DEF Inv, TypeOK
  <1>2. /\ waiting \in Seq(Handles) /\ waiting # <<>> /\ h = waiting[1]
        /\ waiting' = Tail(waiting)
    BY <1>1 DEF Grant, TypeOK
  <1>3. c.state = "waiting" /\ config.queue /\ c.kind # "read" /\ c.run = "no" /\ c.shown = 0
    BY <1>1, <1>2 DEF QueueOK, KindOK, ToldOK, InTx
  <1>4. /\ d.state = "granted" /\ d.kind = c.kind /\ d.run = "no" /\ d.shown = 0
        /\ d.wrote = c.wrote
    BY <1>1, <1>3 DEF Call
  <1>5. d \in Call
    BY <1>1, StateFacts DEF Call
  <1>6. calls' = [calls EXCEPT ![h] = d]
    BY DEF Grant, Becomes
  <1> HIDE DEF d
  <1>7. /\ calls' \in [Handles -> Call] /\ calls'[h] = d
        /\ \A g \in Handles \ {h} : calls'[g] = calls[g]
    BY <1>1, <1>5, <1>6 DEF TypeOK
  <1>8. /\ exclusive = None
        /\ \/ c.kind = "grouped" /\ sharing' = sharing \cup {h} /\ exclusive' = None
           \/ c.kind # "grouped" /\ sharing = {} /\ sharing' = {} /\ exclusive' = h
        /\ UNCHANGED <<config, tx_counter, version, holder, quiet, reaped>>
        /\ polled' = [polled EXCEPT ![h] = None]
    BY DEF Grant, Fits
  <1>9. /\ waiting' \in Seq(Handles) /\ DOMAIN waiting' = 1..(Len(waiting) - 1)
        /\ \A i \in 1..(Len(waiting) - 1) : waiting'[i] = waiting[i + 1]
        /\ DOMAIN waiting = 1..Len(waiting) /\ Len(waiting) \in Nat \ {0}
    BY <1>2
  <1>10. TypeOK'
    BY <1>1, <1>7, <1>8, <1>9 DEF TypeOK
  <1>11. OnlyOf(h)
    BY <1>1, <1>7, <1>8, BoltWriterAssumption DEF OnlyOf
  <1>12. QueueOK'
    <2>1. ASSUME NEW i \in DOMAIN waiting'
          PROVE  waiting'[i] = waiting[i + 1] /\ i + 1 \in DOMAIN waiting /\ i + 1 # 1
      BY <1>9
    <2>2. \A i \in DOMAIN waiting' : calls'[waiting'[i]].state = "waiting"
      BY <1>1, <1>2, <1>7, <1>9, <2>1 DEF QueueOK, TypeOK
    <2>3. \A i, j \in DOMAIN waiting' : waiting'[i] = waiting'[j] => i = j
      BY <1>1, <1>9, <2>1 DEF QueueOK
    <2>4. QED
      BY <2>2, <2>3 DEF QueueOK
  <1>13. (KindOK(h) /\ ToldOK(h))'
    BY <1>1, <1>3, <1>4, <1>7, <1>8 DEF KindOK, ToldOK, InTx
  <1>14. (PermitOK(h) /\ WindowOK(h))'
    BY <1>1, <1>3, <1>4, <1>7, <1>8 DEF PermitOK, WindowOK, Held, Live, InTx
  <1>15. QED
    BY <1>10, <1>11, <1>12, <1>13, <1>14, StepOf

\* A call that gives up leaves the queue and holds nothing.
LEMMA GiveUpStep ==
    ASSUME Inv, NEW h \in Handles, GiveUp(h)
    PROVE  Inv'
  <1>1. TypeOK /\ QueueOK /\ SlotOK /\ KindOK(h) /\ calls[h].state = "waiting"
        /\ "gone" \in States /\ calls \in [Handles -> Call]
    BY StateFacts DEF Inv, TypeOK, GiveUp
  <1>2. Over(h, "gone", 0)
    BY DEF GiveUp, Unpublished
  <1>3. /\ calls' \in [Handles -> Call]
        /\ \A g \in Handles \ {h} : calls'[g] = calls[g]
        /\ calls'[h].state = "gone" /\ calls'[h].kind = "read" /\ calls'[h].run = "no"
        /\ calls'[h].wrote = 0 /\ calls'[h].shown = 0
    BY <1>1, <1>2, OverFacts DEF KindOK, InTx
  <1>4. PICK n \in DOMAIN waiting : waiting[n] = h /\ waiting' = RemoveAt(waiting, n)
    BY DEF GiveUp
  <1>5. /\ UNCHANGED <<config, tx_counter, version, exclusive, sharing, holder, quiet, reaped>>
        /\ polled' = [polled EXCEPT ![h] = None]
    BY DEF GiveUp, Unpublished, slot
  <1>6. /\ waiting \in Seq(Handles) /\ DOMAIN waiting = 1..Len(waiting) /\ Len(waiting) \in Nat
        /\ waiting' \in Seq(Handles) /\ DOMAIN waiting' = 1..(Len(waiting) - 1)
        /\ \A j \in 1..(Len(waiting) - 1) :
             waiting'[j] = IF j < n THEN waiting[j] ELSE waiting[j + 1]
    BY <1>1, <1>4, RemoveAtFacts DEF TypeOK
  <1>7. TypeOK'
    BY <1>1, <1>3, <1>5, <1>6 DEF TypeOK
  <1>8. OnlyOf(h)
    BY <1>1, <1>3, <1>5 DEF OnlyOf, SlotOK
  <1>9. QueueOK'
    <2> DEFINE from(j) == IF j < n THEN j ELSE j + 1
    <2>1. ASSUME NEW j \in DOMAIN waiting'
          PROVE  /\ waiting'[j] = waiting[from(j)] /\ from(j) \in DOMAIN waiting
                 /\ from(j) # n
      BY <1>6
    <2>2. \A i, j \in DOMAIN waiting' : from(i) = from(j) => i = j
      BY <1>6
    <2> HIDE DEF from
    <2>3. \A j \in DOMAIN waiting' : waiting'[j] \in Handles \ {h}
      BY <1>1, <1>4, <1>6, <2>1 DEF QueueOK
    <2>4. \A j \in DOMAIN waiting' : calls'[waiting'[j]].state = "waiting"
      BY <1>1, <1>3, <2>1, <2>3 DEF QueueOK
    <2>5. \A i, j \in DOMAIN waiting' : waiting'[i] = waiting'[j] => i = j
      BY <1>1, <2>1, <2>2 DEF QueueOK
    <2>6. QED
      BY <2>4, <2>5 DEF QueueOK
  <1>10. (KindOK(h) /\ ToldOK(h))'
    BY <1>1, <1>3, <1>5 DEF KindOK, ToldOK, InTx
  <1>11. config.queue => (PermitOK(h) /\ WindowOK(h))'
    BY <1>3 DEF PermitOK, WindowOK, Held, Live, InTx
  <1>12. QED
    BY <1>1, <1>7, <1>8, <1>9, <1>10, <1>11, StepOf

\* The end of a RUN: an orphan's drops the permit, any other's adds its write.
LEMMA RunEndsStep ==
    ASSUME Inv, NEW h \in Handles, NEW writes \in BOOLEAN, RunEnds(h, writes)
    PROVE  Inv'
  <1>1. /\ TypeOK /\ QueueOK /\ SlotOK /\ KindOK(h) /\ ToldOK(h) /\ calls[h] \in Call
        /\ calls[h].run \in {"marked", "unmarked"}
        /\ UNCHANGED <<config, tx_counter, version, waiting, reaped, polled>>
    BY DEF Inv, TypeOK, RunEnds
  <1>2. calls[h].state \in InTx
    BY <1>1 DEF KindOK
  <1>3. CASE calls[h].state = "orphan"
    <2> DEFINE d == [NewCall EXCEPT !.state = "gone"]
    <2>1. calls' = [calls EXCEPT ![h] = d] /\ Release(h)
      BY <1>3 DEF RunEnds, Becomes
    <2>2. /\ d \in Call /\ d.kind = "read" /\ d.run = "no" /\ d.state = "gone"
          /\ d.shown = 0 /\ d.wrote = 0
      BY DEF NewCall, Call, Kinds, States
    <2>3. version' \in Nat /\ reaped' \in Seq(Handles) /\ Len(reaped') <= ReapedCap
          /\ polled' \in [Handles -> Handles \cup {None}]
      BY <1>1 DEF TypeOK
    <2> HIDE DEF d
    <2>4. QED
      BY <1>1, <1>3, <2>1, <2>2, <2>3, EndStep
  <1>4. CASE calls[h].state # "orphan"
    <2> DEFINE c == calls[h]
               n == IF writes THEN calls[h].wrote + 1 ELSE calls[h].wrote
               d == [calls[h] EXCEPT !.run = "no", !.wrote = n]
    <2>1. /\ calls' = [calls EXCEPT ![h] = d]
          /\ UNCHANGED <<exclusive, sharing, holder>>
          /\ quiet' \in BOOLEAN
      BY <1>1, <1>4 DEF RunEnds, Becomes, Touch, TypeOK
    <2>2. n \in Nat /\ c.state \in {"open", "taken"} /\ c.shown = 0
      BY <1>1, <1>2, <1>4 DEF Call, ToldOK, InTx
    <2>3. config.queue /\ c.kind = "read" => n = c.wrote
      BY DEF RunEnds, MayWrite
    <2> HIDE DEF n
    <2>4. /\ d.state = c.state /\ d.kind = c.kind /\ d.base = c.base /\ d.shown = c.shown
          /\ d.run = "no" /\ d.wrote = n
      BY <1>1 DEF Call
    <2>5. d \in Call
      BY <1>1, <2>2 DEF Call
    <2> HIDE DEF d
    <2>6. /\ calls' \in [Handles -> Call] /\ calls'[h] = d
          /\ \A g \in Handles \ {h} : calls'[g] = calls[g]
      BY <1>1, <2>1, <2>5 DEF TypeOK
    <2>7. TypeOK'
      BY <1>1, <2>1, <2>6 DEF TypeOK
    <2>8. OnlyOf(h)
      BY <1>1, <2>1, <2>6 DEF OnlyOf, SlotOK
    <2>9. QueueOK'
      BY <1>1, <2>2, <2>8, QueueKept
    <2>10. (KindOK(h) /\ ToldOK(h))'
      BY <1>1, <2>2, <2>4, <2>6 DEF KindOK, ToldOK, InTx
    <2>11. config.queue => (PermitOK(h) /\ WindowOK(h))'
      BY <1>1, <1>2, <2>1, <2>2, <2>3, <2>4, <2>6
         DEF SlotOK, PermitOK, WindowOK, Held, Live, InTx
    <2>12. QED
      BY <1>1, <2>7, <2>8, <2>9, <2>10, <2>11, StepOf
  <1>5. QED
    BY <1>3, <1>4

-----------------------------------------------------------------------------
(* The invariant holds throughout.                                         *)

\* One step per action.
LEMMA NextInv == Inv /\ [Next]_vars => Inv'
  <1> SUFFICES ASSUME Inv, [Next]_vars PROVE Inv'
    OBVIOUS
  <1>1. ASSUME NEW h \in Handles, Asks(h) PROVE Inv'
    <2>1. ASSUME NEW kind \in config.kinds, Arrive(h, kind) PROVE Inv'
      <3>1. config \in Config
        BY BoltWriterAssumption DEF Inv, TypeOK
      <3>2. kind \in Kinds
        BY <2>1, <3>1 DEF Config
      <3> QED
        BY <2>1, <3>2, ArriveStep
    <2>2. QED
      BY <1>1, <2>1, RunStep, TakeStep, ResetStep DEF Asks
  <1>2. ASSUME NEW h \in Handles, Works(h) PROVE Inv'
    BY <1>2, GrantStep, StartStep, PutBackStep, RollbackEndsStep, CommitEndsStep,
       AutoPublishesStep, AutoRetriesStep, AutoFailsStep DEF Works
  <1>3. ASSUME NEW h \in Handles, Runs(h) PROVE Inv'
    BY <1>3, MarkStep, RunEndsStep DEF Runs
  <1>4. ASSUME NEW h \in Handles, Poll(h) PROVE Inv'
    BY <1>4, QuietStep DEF Poll, slot, Inv, TypeOK
  <1>5. ASSUME Idle PROVE Inv'
    BY <1>5, QuietStep DEF Idle, Inv, TypeOK
  <1>6. ASSUME UNCHANGED vars PROVE Inv'
    BY <1>6, QuietStep DEF vars, slot, Inv, TypeOK
  <1>7. QED
    BY <1>1, <1>2, <1>3, <1>4, <1>5, <1>6, ReclaimStep, GiveUpStep
       DEF Next, Waits, Watches

\* Type correctness: for any number of calls the queue, the permits, the list
\* of reclaimed handles (within ReapedHandles::CAP) and every call keep their
\* types.
THEOREM BoltTypeCorrect == Spec => []TypeOK
  <1>1. Inv => TypeOK
    BY DEF Inv
  <1>2. QED
    BY InitInv, NextInv, <1>1, PTL DEF Spec

\* The window of a queue-mode write transaction is exclusive, from the permit
\* the writer slot grants to the TxState's drop: no such COMMIT conflicts.
THEOREM WindowStaysExclusive == Spec => []WindowIsExclusive
  <1>1. Inv => WindowIsExclusive
    BY DEF Inv, SlotOK, WindowOK, WindowIsExclusive, Stale
  <1>2. QED
    BY InitInv, NextInv, <1>1, PTL DEF Spec

\* What a client was told of its COMMIT or statement is what the published
\* graph holds, in every admission mode, with RUNs still in flight included.
THEOREM AnswersAreTrue == Spec => []ToldIsApplied
  <1>1. Inv => ToldIsApplied
    BY DEF Inv, ToldOK, ToldIsApplied
  <1>2. QED
    BY InitInv, NextInv, <1>1, PTL DEF Spec
=============================================================================
