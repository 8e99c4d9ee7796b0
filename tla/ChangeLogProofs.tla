-------------------------- MODULE ChangeLogProofs --------------------------
(***************************************************************************)
(* The properties of ChangeLog, for any transactions, consumers, ring      *)
(* capacities and bounds.                                                  *)
(***************************************************************************)
EXTENDS ChangeLog, KeptProofs

-----------------------------------------------------------------------------
(***************************************************************************)
(* The ring.  What it holds is numbered without gaps up to the last number *)
(* given, so that each of its operations leaves a suffix.                  *)
(***************************************************************************)
Numbered(l) ==
    /\ Len(l.events) <= Len(l.ever)
    /\ l.next = Len(l.ever) + 1
    /\ \A i \in DOMAIN l.events :
          /\ l.events[i].seq = Len(l.ever) - Len(l.events) + i
          /\ l.events[i].change = l.ever[l.events[i].seq]
RingOK(l) == l \in Log /\ Numbered(l) /\ Len(l.events) <= l.capacity

\* The events from position k on keep their numbers.
LEMMA SuffixNumbered ==
    ASSUME NEW l \in Log, Numbered(l), NEW k \in 1..(Len(l.events) + 1), NEW m,
           m \in Log, m.next = l.next, m.ever = l.ever,
           m.events = SubSeq(l.events, k, Len(l.events))
    PROVE  Numbered(m)
<1> DEFINE s == l.events  n == Len(l.events)
<1>1. s \in Seq(Event) /\ l.ever \in Seq(Change) /\ n \in Nat
  BY DEF Log
<1>2. Len(m.events) = n - k + 1 /\ DOMAIN m.events = 1..(n - k + 1)
  BY <1>1
<1>3. \A i \in 1..(n - k + 1) : m.events[i] = s[k + i - 1] /\ k + i - 1 \in DOMAIN s
  BY <1>1
<1>4. \A i \in DOMAIN s : s[i].seq = Len(l.ever) - n + i /\ s[i].change = l.ever[s[i].seq]
  BY DEF Numbered
<1>5. l.next = Len(l.ever) + 1 /\ n <= Len(l.ever) /\ Len(l.ever) \in Nat
  BY <1>1 DEF Numbered
<1> HIDE DEF n, s
<1>6. ASSUME NEW i \in DOMAIN m.events
      PROVE  /\ m.events[i].seq = Len(m.ever) - Len(m.events) + i
             /\ m.events[i].change = m.ever[m.events[i].seq]
  <2>1. i \in 1..(n - k + 1) /\ m.events[i] = s[k + i - 1] /\ k + i - 1 \in DOMAIN s
    BY <1>2, <1>3, <1>6
  <2>2. m.events[i].seq = Len(l.ever) - n + (k + i - 1)
    BY <2>1, <1>4
  <2>3. n \in Nat /\ k \in Nat /\ i \in Nat
    BY <1>1, <2>1 DEF n, s
  <2>4. Len(l.ever) - n + (k + i - 1) = Len(l.ever) - (n - k + 1) + i
    BY <2>3, <1>5
  <2> QED BY <2>1, <2>2, <2>4, <1>2, <1>4
<1>7. Len(m.events) <= Len(m.ever)
  BY <1>2, <1>5, <1>1 DEF n
<1> QED BY <1>5, <1>6, <1>7 DEF Numbered

\* Newest is a suffix, of at most n events.
LEMMA NewestSuffix ==
    ASSUME NEW S, NEW s \in Seq(S), NEW n \in Nat
    PROVE  /\ Newest(s, n) \in Seq(S)
           /\ Len(Newest(s, n)) <= n
           /\ \E k \in 1..(Len(s) + 1) : Newest(s, n) = SubSeq(s, k, Len(s))
<1>1. CASE Len(s) > n
  <2>1. Len(s) - n + 1 \in 1..(Len(s) + 1)
    BY <1>1
  <2>2. Newest(s, n) = SubSeq(s, Len(s) - n + 1, Len(s))
    BY <1>1 DEF Newest
  <2>3. SubSeq(s, Len(s) - n + 1, Len(s)) \in Seq(S)
    BY <2>1
  <2>4. Len(SubSeq(s, Len(s) - n + 1, Len(s))) = n
    BY <1>1
  <2>5. Len(Newest(s, n)) <= n
    BY <2>2, <2>4
  <2> QED BY <2>1, <2>2, <2>3, <2>5
<1>2. CASE ~(Len(s) > n)
  <2>1. Newest(s, n) = s /\ Len(s) <= n
    BY <1>2 DEF Newest
  <2>2. s = SubSeq(s, 1, Len(s)) /\ 1 \in 1..(Len(s) + 1)
    OBVIOUS
  <2> QED BY <2>1, <2>2
<1> QED BY <1>1, <1>2

\* A resized ring is a suffix of what the ring held.
LEMMA ResizedRing ==
    ASSUME NEW l \in Log, Numbered(l), NEW n \in Capacities
    PROVE  /\ RingOK(Resized(l, n))
           /\ Resized(l, n).ever = l.ever /\ Resized(l, n).next = l.next
           /\ Resized(l, n).capacity = n
<1> DEFINE m == Resized(l, n)
<1>1. l.events \in Seq(Event) /\ n \in Nat
  BY ChangeLogAssumption DEF Log
<1>2. PICK k \in 1..(Len(l.events) + 1) : Newest(l.events, n) = SubSeq(l.events, k, Len(l.events))
  BY <1>1, NewestSuffix
<1>3. Newest(l.events, n) \in Seq(Event) /\ Len(Newest(l.events, n)) <= n
  BY <1>1, NewestSuffix
<1>4. m.next = l.next /\ m.ever = l.ever /\ m.capacity = n /\ m.events = Newest(l.events, n)
  BY DEF Resized, Log
<1>5. m \in Log
  BY <1>3 DEF Resized, Log
<1> HIDE DEF m
<1>6. Numbered(m)
  BY <1>2, <1>4, <1>5, SuffixNumbered
<1>7. RingOK(m)
  BY <1>3, <1>4, <1>5, <1>6 DEF RingOK
<1> QED BY <1>4, <1>7 DEF m

\* The events numbered n or more are those from some position on.
LEMMA FirstReached ==
    ASSUME NEW l \in Log, Numbered(l), NEW n \in Nat
    PROVE  \E k \in 1..(Len(l.events) + 1) :
              /\ \A i \in DOMAIN l.events : l.events[i].seq >= n <=> k <= i
              /\ k <= Len(l.events) => Len(l.ever) - Len(l.events) + k >= n
<1> DEFINE len == Len(l.events)  base == Len(l.ever) - Len(l.events)
<1>1. len \in Nat /\ base \in Nat /\ DOMAIN l.events = 1..len
  BY DEF Log, Numbered
<1>2. \A i \in DOMAIN l.events : l.events[i].seq = base + i
  BY DEF Numbered
<1> HIDE DEF len, base
<1> DEFINE First(k) == /\ \A i \in 1..len : base + i >= n <=> k <= i
                       /\ k <= len => base + k >= n
<1>3. \E k \in 1..(len + 1) : First(k)
  <2>1. CASE n <= base + 1
    <3>1. First(1) /\ 1 \in 1..(len + 1)
      BY <1>1, <2>1
    <3> QED BY <3>1
  <2>2. CASE n > base + 1 /\ n <= base + len
    <3>1. First(n - base) /\ n - base \in 1..(len + 1)
      BY <1>1, <2>2
    <3> QED BY <3>1
  <2>3. CASE n > base + 1 /\ n > base + len
    <3>1. First(len + 1) /\ len + 1 \in 1..(len + 1)
      BY <1>1, <2>3
    <3> QED BY <3>1
  <2> QED BY <2>1, <2>2, <2>3, <1>1
<1>4. PICK k \in 1..(len + 1) : First(k)
  BY <1>3
<1>5. \A i \in DOMAIN l.events : l.events[i].seq >= n <=> k <= i
  BY <1>1, <1>2, <1>4
<1> QED BY <1>4, <1>5 DEF len, base

\* CdcLog::since answers with the events past the cursor, all of them.
LEMMA SinceSuffix ==
    ASSUME NEW l \in Log, Numbered(l), NEW from \in Nat
    PROVE  \E k \in 1..(Len(l.events) + 1) :
              /\ Since(l.events, from) = SubSeq(l.events, k, Len(l.events))
              /\ k <= Len(l.events) => Len(l.ever) - Len(l.events) + k > from
<1>1. l.events \in Seq(Event) /\ Len(l.ever) \in Nat /\ Len(l.events) \in Nat
  BY DEF Log
<1>2. PICK k \in 1..(Len(l.events) + 1) :
              /\ \A i \in DOMAIN l.events : l.events[i].seq >= from + 1 <=> k <= i
              /\ k <= Len(l.events) => Len(l.ever) - Len(l.events) + k >= from + 1
  <2>1. from + 1 \in Nat
    OBVIOUS
  <2> QED BY <2>1, FirstReached
<1> DEFINE past == {i \in DOMAIN l.events : l.events[i].seq > from}
<1>3. \A i \in 1..Len(l.events) : l.events[i].seq \in Nat
  <2>1. \A i \in 1..Len(l.events) : l.events[i] \in Event
    BY <1>1
  <2>2. \A event \in Event : event.seq \in Nat
    BY DEF Event
  <2> QED BY <2>1, <2>2
<1>4. \A i \in 1..Len(l.events) : i \in past <=> k <= i
  <2>1. \A i \in 1..Len(l.events) : i \in past <=> l.events[i].seq > from
    BY <1>1
  <2>2. \A m \in Nat : m > from <=> m >= from + 1
    OBVIOUS
  <2>3. \A i \in 1..Len(l.events) : l.events[i].seq > from <=> l.events[i].seq >= from + 1
    BY <2>2, <1>3
  <2>4. DOMAIN l.events = 1..Len(l.events)
    BY <1>1
  <2> QED BY <2>1, <2>3, <2>4, <1>2
<1> HIDE DEF past
<1>5. Kept(l.events, past) = SubSeq(l.events, k, Len(l.events))
  BY <1>1, <1>4, KeptFrom
<1>6. k <= Len(l.events) => Len(l.ever) - Len(l.events) + k > from
  <2> DEFINE a == Len(l.ever)  b == Len(l.events)
  <2>1. a \in Nat /\ b \in Nat /\ k \in Nat /\ (k <= b => a - b + k >= from + 1)
    <3>1. a \in Nat /\ b \in Nat /\ k \in Nat
      BY <1>1
    <3> QED BY <3>1, <1>2
  <2> HIDE DEF a, b
  <2>2. k <= b => a - b + k > from
    BY <2>1
  <2> QED BY <2>2 DEF a, b
<1> QED BY <1>2, <1>5, <1>6 DEF past, Since

\* A merge keeps a suffix too, of the live log's own events.
LEMMA MergedRing ==
    ASSUME NEW l \in Log, Numbered(l), NEW copy, Earliest(copy) \in Nat,
           copy.capacity \in Capacities
    PROVE  /\ RingOK(Merged(l, copy))
           /\ Merged(l, copy).ever = l.ever /\ Merged(l, copy).next = l.next
<1> DEFINE first == Earliest(copy)
           reached == {i \in DOMAIN l.events : \E j \in 1..i : l.events[j].seq >= first}
           m == [l EXCEPT !.events = Kept(@, reached)]
<1>1. l.events \in Seq(Event) /\ Len(l.events) \in Nat
  BY DEF Log
<1>2. PICK k \in 1..(Len(l.events) + 1) :
              \A i \in DOMAIN l.events : l.events[i].seq >= first <=> k <= i
  BY FirstReached
<1>3. \A i \in 1..Len(l.events) : i \in reached <=> k <= i
  <2> SUFFICES ASSUME NEW i \in 1..Len(l.events) PROVE i \in reached <=> k <= i
    OBVIOUS
  <2>1. DOMAIN l.events = 1..Len(l.events)
    BY <1>1
  <2>2. \A j \in 1..i : l.events[j].seq >= first <=> k <= j
    BY <1>1, <1>2, <2>1
  <2>3. (\E j \in 1..i : k <= j) <=> k <= i
    BY <1>1
  <2> QED BY <2>1, <2>2, <2>3
<1>4. m.next = l.next /\ m.ever = l.ever /\ m.capacity = l.capacity
      /\ m.events = Kept(l.events, reached)
  BY DEF Log
<1>5. Kept(l.events, reached) \in Seq(Event) => m \in Log
  BY DEF Log
<1>6. Merged(l, copy) = Resized(m, copy.capacity)
  BY DEF Merged
<1> HIDE DEF m, reached, first
<1>7. Kept(l.events, reached) = SubSeq(l.events, k, Len(l.events))
  BY <1>1, <1>3, KeptFrom
<1>8. m \in Log
  BY <1>1, <1>5, <1>7
<1>9. Numbered(m)
  BY <1>4, <1>7, <1>8, SuffixNumbered
<1> QED BY <1>4, <1>6, <1>8, <1>9, ResizedRing

\* An append numbers what it is given from next on.
LEMMA AppendedRing ==
    ASSUME NEW l \in Log, Numbered(l), NEW changes \in Seq(Change)
    PROVE  /\ RingOK(Appended(l, changes))
           /\ Appended(l, changes).ever = l.ever \o changes
           /\ Appended(l, changes).capacity = l.capacity
<1> DEFINE new == [i \in DOMAIN changes |-> [seq |-> l.next + i - 1, change |-> changes[i]]]
           all == l.events \o new
<1>0. Len(l.events) \in Nat /\ Len(l.ever) \in Nat /\ Len(changes) \in Nat
  BY DEF Log
<1>1. /\ l.events \in Seq(Event) /\ l.ever \in Seq(Change)
      /\ l.next = Len(l.ever) + 1 /\ Len(l.events) <= Len(l.ever) /\ l.capacity \in Capacities
  BY DEF Log, Numbered
<1>2. new \in Seq(Event) /\ Len(new) = Len(changes)
      /\ \A i \in 1..Len(changes) : new[i].seq = Len(l.ever) + i /\ new[i].change = changes[i]
  <2>1. \A i \in 1..Len(changes) : [seq |-> l.next + i - 1, change |-> changes[i]] \in Event
    BY <1>1, <1>0 DEF Event
  <2>2. new \in Seq(Event) /\ Len(new) = Len(changes)
    BY <2>1
  <2>3. \A i \in 1..Len(changes) : l.next + i - 1 = Len(l.ever) + i
    BY <1>1, <1>0
  <2> QED BY <2>2, <2>3
<1>5. \A i \in DOMAIN l.events : l.events[i].seq = Len(l.ever) - Len(l.events) + i
                               /\ l.events[i].change = l.ever[l.events[i].seq]
  BY DEF Numbered
<1> HIDE DEF new
<1>6. all \in Seq(Event) /\ Len(all) = Len(l.events) + Len(changes)
      /\ DOMAIN all = 1..Len(all)
      /\ \A i \in 1..Len(all) :
            all[i] = IF i <= Len(l.events) THEN l.events[i] ELSE new[i - Len(l.events)]
  <2>1. all \in Seq(Event) /\ Len(all) = Len(l.events) + Len(changes)
    <3>1. \A x, y \in Seq(Event) : x \o y \in Seq(Event) /\ Len(x \o y) = Len(x) + Len(y)
      OBVIOUS
    <3> QED BY <1>1, <1>2, <3>1, ZenonT(30)
  <2>2. DOMAIN all = 1..Len(all)
    BY <2>1
  <2>3. \A i \in 1..(Len(l.events) + Len(new)) :
            all[i] = IF i <= Len(l.events) THEN l.events[i] ELSE new[i - Len(l.events)]
    <3> HIDE DEF all
    <3>1. all = l.events \o new
      BY DEF all
    <3>2. \A x, y \in Seq(Event) : \A i \in 1..(Len(x) + Len(y)) :
              (x \o y)[i] = IF i <= Len(x) THEN x[i] ELSE y[i - Len(x)]
      OBVIOUS
    <3> QED BY <1>1, <1>2, <3>1, <3>2
  <2> QED BY <2>1, <2>2, <2>3, <1>2
<1>10. Appended(l, changes) = [l EXCEPT !.next = @ + Len(changes),
                                       !.events = Newest(all, l.capacity),
                                       !.ever = @ \o changes]
  BY DEF Appended, new
<1> HIDE DEF all
<1> DEFINE m == [l EXCEPT !.next = @ + Len(changes), !.events = all, !.ever = @ \o changes]
<1>3. /\ m.next = l.next + Len(changes) /\ m.events = all /\ m.ever = l.ever \o changes
      /\ m.capacity = l.capacity
  BY DEF Log
<1>8. m \in Log
  <2>1. l.next + Len(changes) \in Nat /\ l.ever \o changes \in Seq(Change)
    BY <1>1, <1>0
  <2> QED BY <2>1, <1>1, <1>6 DEF Log
<1>4. Appended(l, changes) = Resized(m, l.capacity)
  BY <1>10, <1>1 DEF Resized, Log
<1> HIDE DEF m
<1>7. /\ Len(m.ever) = Len(l.ever) + Len(changes)
      /\ \A i \in 1..Len(m.ever) :
            m.ever[i] = IF i <= Len(l.ever) THEN l.ever[i] ELSE changes[i - Len(l.ever)]
  BY <1>1, <1>3
<1>9. Numbered(m)
  <2>1. ASSUME NEW i \in DOMAIN m.events
        PROVE  /\ m.events[i].seq = Len(m.ever) - Len(m.events) + i
               /\ m.events[i].change = m.ever[m.events[i].seq]
    <3>1. i \in 1..Len(all) /\ m.events[i] = all[i] /\ i \in Int
      BY <1>3, <1>6, <2>1
    <3>2. Len(m.ever) - Len(m.events) + i = Len(l.ever) - Len(l.events) + i
      <4> DEFINE a == Len(l.ever)  b == Len(l.events)  c == Len(changes)
      <4>1. /\ a \in Nat /\ b \in Nat /\ c \in Nat /\ i \in Int
            /\ Len(m.ever) = a + c /\ Len(m.events) = b + c
        BY <1>0, <1>3, <1>6, <1>7, <3>1
      <4> HIDE DEF a, b, c
      <4>2. (a + c) - (b + c) + i = a - b + i
        BY <4>1
      <4> QED BY <4>1, <4>2 DEF a, b
    <3>3. CASE i <= Len(l.events)
      <4>1. all[i] = l.events[i] /\ i \in DOMAIN l.events
        BY <1>1, <1>6, <3>1, <3>3
      <4>2. all[i].seq = Len(l.ever) - Len(l.events) + i
        BY <1>5, <4>1
      <4>3. all[i].seq \in 1..Len(l.ever)
        <5> DEFINE a == Len(l.ever)  b == Len(l.events)
        <5>1. a \in Nat /\ b \in Nat /\ b <= a /\ i \in 1..b /\ all[i].seq = a - b + i
          BY <1>0, <1>1, <3>1, <3>3, <4>2
        <5> HIDE DEF a, b
        <5>2. a - b + i \in 1..a
          BY <5>1
        <5> QED BY <5>1, <5>2 DEF a
      <4>4. m.ever[all[i].seq] = l.ever[all[i].seq]
        BY <1>0, <1>7, <4>3, SMTT(30)
      <4> QED BY <3>1, <3>2, <4>1, <4>2, <4>4, <1>5
    <3>4. CASE ~(i <= Len(l.events))
      <4>1. i - Len(l.events) \in 1..Len(changes) /\ all[i] = new[i - Len(l.events)]
        BY <1>1, <1>6, <3>1, <3>4
      <4>2. all[i].seq = Len(l.ever) + (i - Len(l.events))
            /\ all[i].change = changes[i - Len(l.events)]
        BY <1>2, <4>1
      <4>3. all[i].seq \in 1..Len(m.ever) /\ all[i].seq > Len(l.ever)
            /\ all[i].seq - Len(l.ever) = i - Len(l.events)
        BY <1>0, <1>7, <4>1, <4>2
      <4>4. m.ever[all[i].seq] = changes[i - Len(l.events)]
        <5> DEFINE p == all[i].seq  a == Len(l.ever)  q == i - Len(l.events)
        <5>1. p \in 1..Len(m.ever) /\ p \in Int /\ a \in Nat /\ p > a /\ p - a = q
          BY <1>0, <4>3
        <5>2. m.ever[p] = IF p <= a THEN l.ever[p] ELSE changes[p - a]
          BY <1>7, <5>1
        <5> HIDE DEF p, a, q
        <5>3. ~(p <= a)
          BY <5>1
        <5>4. m.ever[p] = changes[q]
          BY <5>1, <5>2, <5>3
        <5> QED BY <5>4 DEF p, q
      <4>5. all[i].seq = Len(l.ever) - Len(l.events) + i
        <5>1. \A a, b \in Nat : \A j \in Int : a + (j - b) = a - b + j
          OBVIOUS
        <5> QED BY <1>0, <3>1, <4>2, <5>1
      <4> QED BY <3>1, <3>2, <4>2, <4>4, <4>5
    <3> QED BY <3>3, <3>4
  <2>2. Len(m.events) <= Len(m.ever)
    BY <1>1, <1>3, <1>6, <1>7
  <2>3. m.next = Len(m.ever) + 1
    BY <1>1, <1>3, <1>7
  <2> QED BY <2>1, <2>2, <2>3 DEF Numbered
<1> QED BY <1>1, <1>3, <1>4, <1>8, <1>9, ResizedRing

\* The ring of a new epoch is empty.
LEMMA NewRing == \A n \in Capacities : RingOK(NewLog(n)) /\ NewLog(n).ever = <<>>
BY ChangeLogAssumption DEF NewLog, RingOK, Numbered, Log

\* The oldest position a consumer may start from.
LEMMA EarliestOf ==
    ASSUME NEW l \in Log, Numbered(l)
    PROVE  /\ Earliest(l) = Len(l.ever) - Len(l.events) + 1
           /\ Earliest(l) \in Nat \ {0}
           /\ Current(l) = Len(l.ever) /\ Current(l) \in Nat
<1>1. l.events \in Seq(Event) /\ Len(l.ever) \in Nat /\ l.next = Len(l.ever) + 1
      /\ Len(l.events) <= Len(l.ever)
  BY DEF Log, Numbered
<1>0. Len(l.events) \in Nat
  BY DEF Log
<1>2. CASE l.events = <<>>
  BY <1>1, <1>2 DEF Earliest, Current
<1>3. CASE l.events # <<>>
  <2>1. 1 \in DOMAIN l.events /\ Head(l.events) = l.events[1]
    BY <1>1, <1>3
  <2>2. l.events[1].seq = Len(l.ever) - Len(l.events) + 1
    BY <2>1 DEF Numbered
  <2>3. Earliest(l) = Len(l.ever) - Len(l.events) + 1 /\ Current(l) = Len(l.ever)
    <3>1. Earliest(l) = Len(l.ever) - Len(l.events) + 1
      BY <1>3, <2>1, <2>2 DEF Earliest
    <3>2. Current(l) = Len(l.ever)
      BY <1>1 DEF Current
    <3> QED BY <3>1, <3>2
  <2> QED BY <1>0, <1>1, <2>3
<1> QED BY <1>2, <1>3

-----------------------------------------------------------------------------
(***************************************************************************)
(* Types, and handles that name logs.                                      *)
(***************************************************************************)
Known == 0..Len(log)
Names(cap) == {cap.handle, cap.handoff.epoch}

\* Every handle is of a log that was minted, and a copy is of a live log.
KnownOK ==
    /\ Names(main.cap) \subseteq Known
    /\ \A t \in Txs :
          /\ Names(txs[t].cap) \cup Names(txs[t].saved) \cup {txs[t].from} \subseteq Known
          /\ txs[t].copy # NoCopy => /\ txs[t].state = "configuring" /\ txs[t].cap.handle # 0
                                     /\ txs[t].copy.capacity \in Capacities
    /\ \A c \in Consumers :
          /\ {consumers[c].handle, consumers[c].cursor.epoch} \subseteq Known
          /\ consumers[c].state = "checked" => consumers[c].handle # 0
RingsOK == \A e \in DOMAIN log : RingOK(log[e])
ShapeInv == TypeOK /\ KnownOK /\ RingsOK

\* What a step of t leaves alone.
OnlyTx(t) == txs' \in [Txs -> Transaction] /\ \A u \in Txs \ {t} : txs'[u] = txs[u]
\* A capture that differs at most in its buffer.
Alike(c, d) == c.handle = d.handle /\ c.handoff = d.handoff /\ c.recording = d.recording
\* A working copy whose capture and state alone may have moved.
Stays(r, o) == /\ r.base = o.base /\ r.from = o.from /\ r.writes = o.writes
Aside(r, o) == r.saved = o.saved /\ r.copy = o.copy
\* What a transaction that ends without a commit is left with.
Gone(r, o) == /\ r.state = "dropped" /\ r.base = 0 /\ r.from = 0 /\ r.writes = <<>>
              /\ r.cap = Bare(durable) /\ Aside(r, o)

\* A step that writes one transaction leaves the others alone.
LEMMA PutTx ==
    ASSUME NEW t \in Txs, TypeOK, NEW r \in Transaction, Tx(t, r)
    PROVE  OnlyTx(t) /\ txs'[t] = r
BY DEF TypeOK, Tx, OnlyTx

\* The records a transaction is made of.
LEMMA TxFields ==
    ASSUME NEW t \in Txs, ShapeInv
    PROVE  /\ txs[t] \in Transaction /\ txs[t].cap \in Capture /\ txs[t].saved \in Capture
           /\ txs[t].writes \in Seq(Change) /\ txs[t].statements \in 0..MaxStatements
           /\ txs[t].copy \in Shape /\ txs[t].cap.ops \in Seq(Change)
           /\ txs[t].cap.handle \in Handles /\ durable \in BOOLEAN
           /\ main.cap \in Capture /\ main.version \in Nat /\ MaxStatements \in Nat
           /\ main.history \in Seq(Change)
           /\ \A e \in DOMAIN log : log[e] \in Log /\ Numbered(log[e])
           /\ (txs[t].cap.handle # 0 => txs[t].cap.handle \in DOMAIN log)
<1>1. txs[t] \in Transaction /\ main.cap \in Capture /\ main.version \in Nat
      /\ main.history \in Seq(Change) /\ durable \in BOOLEAN /\ log \in Seq(Log)
  BY ChangeLogAssumption DEF ShapeInv, TypeOK
<1>2. txs[t].cap \in Capture /\ txs[t].saved \in Capture /\ txs[t].writes \in Seq(Change)
      /\ txs[t].statements \in 0..MaxStatements /\ txs[t].copy \in Shape
  BY <1>1 DEF Transaction
<1>3. txs[t].cap.ops \in Seq(Change) /\ txs[t].cap.handle \in Handles
  BY <1>2 DEF Capture
<1>4. \A e \in DOMAIN log : log[e] \in Log /\ Numbered(log[e])
  BY DEF ShapeInv, RingsOK, RingOK
<1>5. txs[t].cap.handle \in 0..Len(log)
  BY DEF ShapeInv, KnownOK, Known, Names
<1>6. txs[t].cap.handle # 0 => txs[t].cap.handle \in DOMAIN log
  BY <1>1, <1>5
<1> QED BY <1>1, <1>2, <1>3, <1>4, <1>6, ChangeLogAssumption

\* A capture whose buffer was emptied.
LEMMA Emptied ==
    ASSUME NEW cap \in Capture
    PROVE  /\ [cap EXCEPT !.ops = <<>>] \in Capture /\ Alike([cap EXCEPT !.ops = <<>>], cap)
           /\ [cap EXCEPT !.ops = <<>>].ops = <<>> /\ cap.handle \in Handles
           /\ cap.handoff \in Handoff
<1>1. <<>> \in Seq(Change)
  OBVIOUS
<1>2. [cap EXCEPT !.ops = <<>>] \in Capture
  BY <1>1 DEF Capture
<1>3. Alike([cap EXCEPT !.ops = <<>>], cap) /\ [cap EXCEPT !.ops = <<>>].ops = <<>>
  BY DEF Capture, Alike
<1>4. cap.handle \in Handles /\ cap.handoff \in Handoff
  BY DEF Capture
<1> QED BY <1>2, <1>3, <1>4

\* The capture state of a graph that records nothing is one.
LEMMA BareTyped == ASSUME durable \in BOOLEAN PROVE Bare(durable) \in Capture
BY ChangeLogAssumption DEF Bare, Capture, NoHandoff, Handoff, Handles

\* Begin takes the capture state of the graph, with an empty buffer.
LEMMA BeginEffect ==
    ASSUME NEW t \in Txs, ShapeInv, Begin(t)
    PROVE  LET o == txs[t] r == txs'[t] IN
           /\ OnlyTx(t) /\ UNCHANGED <<durable, log, main, gate, consumers>>
           /\ o.state = "idle" /\ r.state = "open" /\ r.base = main.version
           /\ r.from = main.cap.handle /\ Alike(r.cap, main.cap) /\ r.cap.ops = <<>>
           /\ r.writes = o.writes /\ Aside(r, o)
<1> DEFINE new == [txs[t] EXCEPT !.state = "open", !.base = main.version,
                            !.from = main.cap.handle,
                            !.cap = [main.cap EXCEPT !.ops = <<>>]]
<1>1. [main.cap EXCEPT !.ops = <<>>] \in Capture /\ main.cap.handle \in Handles
      /\ Alike([main.cap EXCEPT !.ops = <<>>], main.cap)
      /\ [main.cap EXCEPT !.ops = <<>>].ops = <<>>
  BY TxFields, Emptied
<1>2. new \in Transaction
  BY <1>1, TxFields DEF Transaction
<1>3. OnlyTx(t) /\ txs'[t] = new
  BY <1>2, PutTx DEF Begin, ShapeInv
<1>4. /\ new.state = "open" /\ new.base = main.version /\ new.from = main.cap.handle
      /\ new.cap = [main.cap EXCEPT !.ops = <<>>] /\ new.writes = txs[t].writes
      /\ new.saved = txs[t].saved /\ new.copy = txs[t].copy
  BY TxFields DEF Transaction
<1> HIDE DEF new
<1> QED BY <1>1, <1>3, <1>4 DEF Begin, Aside

\* A statement is remembered, and buffered if the graph records.
LEMMA WriteEffect ==
    ASSUME NEW t \in Txs, ShapeInv, Write(t)
    PROVE  LET o == txs[t] r == txs'[t] IN
           /\ OnlyTx(t) /\ UNCHANGED <<durable, log, main, gate, consumers>>
           /\ o.state = "open" /\ r.state = "open" /\ r.base = o.base /\ r.from = o.from
           /\ Aside(r, o) /\ Alike(r.cap, o.cap)
           /\ \E change \in Change :
                 /\ change[1] = t /\ r.writes = Append(o.writes, change)
                 /\ r.cap.ops = IF o.cap.recording THEN Append(o.cap.ops, change)
                                ELSE o.cap.ops
<1> DEFINE change == <<t, txs[t].statements + 1>>
           new == [txs[t] EXCEPT !.statements = @ + 1,
                               !.writes = Append(@, change),
                               !.cap.ops = IF txs[t].cap.recording THEN Append(@, change) ELSE @]
<1>1. change \in Change /\ change[1] = t /\ txs[t].statements + 1 \in 0..MaxStatements
  BY TxFields DEF Write, CanRun, Change
<1> HIDE DEF change
<1>2. Append(txs[t].writes, change) \in Seq(Change)
      /\ Append(txs[t].cap.ops, change) \in Seq(Change)
  BY <1>1, TxFields
<1> DEFINE cap == [txs[t].cap EXCEPT !.ops = IF txs[t].cap.recording THEN Append(@, change) ELSE @]
<1>3. cap \in Capture /\ Alike(cap, txs[t].cap)
      /\ cap.ops = IF txs[t].cap.recording THEN Append(txs[t].cap.ops, change) ELSE txs[t].cap.ops
  BY <1>2, TxFields DEF Capture, Alike
<1>4. new = [txs[t] EXCEPT !.statements = @ + 1, !.writes = Append(@, change), !.cap = cap]
  BY TxFields DEF Transaction
<1> HIDE DEF cap
<1>5. new \in Transaction
  <2> DEFINE again == [txs[t] EXCEPT !.statements = @ + 1, !.writes = Append(@, change),
                                     !.cap = cap]
  <2> HIDE DEF new
  <2>1. again \in Transaction
    BY <1>1, <1>2, <1>3, TxFields, ZenonT(30) DEF Transaction
  <2> QED BY <1>4, <2>1
<1>6. OnlyTx(t) /\ txs'[t] = new
  BY <1>5, PutTx DEF Write, ShapeInv, change
<1>7. /\ new.state = txs[t].state /\ new.base = txs[t].base /\ new.from = txs[t].from
      /\ new.cap = cap /\ new.writes = Append(txs[t].writes, change)
      /\ new.saved = txs[t].saved /\ new.copy = txs[t].copy
  BY <1>4, TxFields DEF Transaction
<1> HIDE DEF new
<1> QED BY <1>1, <1>3, <1>6, <1>7 DEF Write, CanRun, Aside

\* A statement that failed leaves the transaction where it was.
LEMMA WriteFailsEffect ==
    ASSUME NEW t \in Txs, ShapeInv, WriteFails(t)
    PROVE  LET o == txs[t] r == txs'[t] IN
           /\ OnlyTx(t) /\ UNCHANGED <<durable, log, main, gate, consumers>>
           /\ o.state = "open" /\ r.state = "open" /\ Stays(r, o) /\ Aside(r, o)
           /\ r.cap = o.cap
<1> DEFINE new == [txs[t] EXCEPT !.statements = @ + 1]
<1>1. txs[t].statements + 1 \in 0..MaxStatements
  BY TxFields DEF WriteFails, CanRun
<1>2. new \in Transaction
  BY <1>1, TxFields DEF Transaction
<1>3. OnlyTx(t) /\ txs'[t] = new
  BY <1>2, PutTx DEF WriteFails, ShapeInv
<1>4. new.state = txs[t].state /\ Stays(new, txs[t]) /\ Aside(new, txs[t])
      /\ new.cap = txs[t].cap
  BY TxFields DEF Transaction, Stays, Aside
<1> HIDE DEF new
<1> QED BY <1>3, <1>4 DEF WriteFails, CanRun

\* Disabling records where the stream ended, and keeps a durable buffer.
LEMMA DisabledCapture ==
    ASSUME NEW cap \in Capture, NEW current \in Nat, durable \in BOOLEAN
    PROVE  LET d == Disabled(cap, current) IN
           /\ d \in Capture /\ d.handle = 0
           /\ d.handoff = IF cap.handle = 0 THEN cap.handoff
                          ELSE [epoch |-> cap.handle, last |-> current]
           /\ d.ops \in {cap.ops, <<>>}
<1>1. cap.handle \in Handles /\ cap.handoff \in Handoff /\ cap.ops \in Seq(Change)
      /\ 0 \in Handles
  BY ChangeLogAssumption DEF Capture, Handles
<1>2. cap.handle # 0 => [epoch |-> cap.handle, last |-> current] \in Handoff
  BY <1>1 DEF Handoff
<1>3. <<>> \in Seq(Change)
  OBVIOUS
<1> QED BY <1>1, <1>2, <1>3 DEF Disabled, Capture

\* The isolated copy of a statement that reconfigures.
LEMMA CopyShape ==
    ASSUME NEW l \in Log, NEW m \in Capacities, NEW n \in Capacities
    PROVE  LET as == [next |-> l.next, capacity |-> l.capacity, events |-> l.events]
               copy == Resized(Resized(as, m), n)
           IN copy \in Shape /\ copy.capacity \in Capacities
<1> DEFINE as == [next |-> l.next, capacity |-> l.capacity, events |-> l.events]
           one == Resized(as, m)
           two == Resized(one, n)
<1>1. as \in Shape /\ n \in Nat /\ m \in Nat
  BY ChangeLogAssumption DEF Shape, Log
<1>2. one.events = Newest(as.events, m) /\ as.events \in Seq(Event)
  BY <1>1 DEF Resized, Shape
<1>3. Newest(as.events, m) \in Seq(Event)
  BY <1>1, <1>2, NewestSuffix
<1>4. one \in Shape
  BY <1>1, <1>3 DEF Resized, Shape
<1> HIDE DEF one
<1>5. one.events \in Seq(Event)
  BY <1>4 DEF Shape
<1>6. Newest(one.events, n) \in Seq(Event)
  BY <1>1, <1>5, NewestSuffix
<1>7. two \in Shape /\ two.capacity = n
  BY <1>1, <1>4, <1>6 DEF Resized, Shape
<1> QED BY <1>7 DEF one

\* The same of the isolated copy of a resize.
LEMMA ShapeEarliest == \A copy \in Shape : Earliest(copy) \in Nat
<1> SUFFICES ASSUME NEW copy \in Shape PROVE Earliest(copy) \in Nat
  OBVIOUS
<1>1. copy.next \in Nat /\ copy.events \in Seq(Event)
  BY DEF Shape
<1>2. CASE copy.events = <<>>
  BY <1>1, <1>2 DEF Earliest
<1>3. CASE copy.events # <<>>
  <2>1. Head(copy.events) \in Event
    BY <1>1, <1>3
  <2>2. Head(copy.events).seq \in Nat
    BY <2>1 DEF Event
  <2> QED BY <1>3, <2>2 DEF Earliest
<1> QED BY <1>2, <1>3

\* A resize keeps the live handle and works on an isolated copy.
LEMMA StartEnableEffect ==
    ASSUME NEW t \in Txs, ShapeInv, StartEnable(t)
    PROVE  LET o == txs[t] r == txs'[t] IN
           /\ OnlyTx(t) /\ UNCHANGED <<durable, log, main, gate, consumers>>
           /\ o.state = "open" /\ r.state = "configuring" /\ Stays(r, o)
           /\ r.cap = o.cap /\ r.saved = o.cap /\ o.cap.handle # 0
           /\ r.copy.capacity \in Capacities
<1>1. log[txs[t].cap.handle] \in Log
  BY TxFields DEF StartEnable
<1>2. txs[t].statements + 1 \in 0..MaxStatements
  BY TxFields DEF StartEnable, CanRun
<1>3. PICK copy :
        /\ Tx(t, [txs[t] EXCEPT !.state = "configuring", !.statements = @ + 1,
                                !.saved = txs[t].cap, !.copy = copy])
        /\ copy \in Shape /\ copy.capacity \in Capacities
  BY <1>1, CopyShape DEF StartEnable
<1> DEFINE new == [txs[t] EXCEPT !.state = "configuring", !.statements = @ + 1,
                                !.saved = txs[t].cap, !.copy = copy]
<1>4. new \in Transaction
  BY <1>2, <1>3, TxFields DEF Transaction
<1>5. OnlyTx(t) /\ txs'[t] = new
  BY <1>3, <1>4, PutTx DEF ShapeInv
<1>6. /\ new.state = "configuring" /\ Stays(new, txs[t]) /\ new.cap = txs[t].cap
      /\ new.saved = txs[t].cap /\ new.copy = copy
  BY TxFields DEF Transaction, Stays
<1> HIDE DEF new
<1> QED BY <1>3, <1>5, <1>6 DEF StartEnable, CanRun

\* Disabling leaves the epoch and the last number for the readers.
LEMMA StartDisableEffect ==
    ASSUME NEW t \in Txs, ShapeInv, StartDisable(t)
    PROVE  LET o == txs[t] r == txs'[t] IN
           /\ OnlyTx(t) /\ UNCHANGED <<durable, log, main, gate, consumers>>
           /\ o.state = "open" /\ r.state = "configuring" /\ Stays(r, o)
           /\ r.saved = o.cap /\ r.copy = NoCopy /\ o.cap.handle # 0
           /\ r.cap.handle = 0 /\ r.cap.ops \in {o.cap.ops, <<>>}
           /\ r.cap.handoff = [epoch |-> o.cap.handle, last |-> Current(log[o.cap.handle])]
<1> DEFINE cap == Disabled(txs[t].cap, Current(log[txs[t].cap.handle]))
           new == [txs[t] EXCEPT !.state = "configuring", !.statements = @ + 1,
                            !.saved = txs[t].cap, !.copy = NoCopy, !.cap = cap]
<1>1. txs[t].cap.handle # 0 /\ txs[t].cap.handle \in DOMAIN log
  BY TxFields DEF StartDisable
<1>2. Current(log[txs[t].cap.handle]) = Len(log[txs[t].cap.handle].ever)
  BY <1>1, TxFields, EarliestOf
<1>3. Current(log[txs[t].cap.handle]) \in Nat
  BY <1>1, <1>2, TxFields DEF Log
<1>4. /\ cap \in Capture /\ cap.handle = 0 /\ cap.ops \in {txs[t].cap.ops, <<>>}
      /\ cap.handoff = [epoch |-> txs[t].cap.handle,
                        last |-> Current(log[txs[t].cap.handle])]
  BY <1>1, <1>3, TxFields, DisabledCapture
<1>5. txs[t].statements + 1 \in 0..MaxStatements
  BY TxFields DEF StartDisable, CanRun
<1>6. Tx(t, new)
  BY DEF StartDisable
<1>7. NoCopy \in Shape
  BY DEF NoCopy, Shape
<1> HIDE DEF cap
<1>8. new \in Transaction
  BY <1>4, <1>5, <1>7, TxFields DEF Transaction
<1>9. /\ new.state = "configuring" /\ Stays(new, txs[t]) /\ new.cap = cap
      /\ new.saved = txs[t].cap /\ new.copy = NoCopy
  BY TxFields DEF Transaction, Stays
<1> HIDE DEF new
<1>10. OnlyTx(t) /\ txs'[t] = new
  BY <1>6, <1>8, PutTx DEF ShapeInv
<1> QED BY <1>1, <1>4, <1>9, <1>10 DEF StartDisable, CanRun

\* Enabling after a disable starts a new epoch.
LEMMA StartNewEffect ==
    ASSUME NEW t \in Txs, ShapeInv, StartNew(t)
    PROVE  LET o == txs[t] r == txs'[t] IN
           /\ OnlyTx(t) /\ UNCHANGED <<durable, main, gate, consumers>>
           /\ Len(log) < MaxEpochs
           /\ \E n \in Capacities : log' = Append(log, NewLog(n))
           /\ o.state = "open" /\ r.state = "configuring" /\ Stays(r, o)
           /\ r.saved = o.cap /\ r.copy = NoCopy
           /\ r.cap.handle = Len(log) + 1 /\ r.cap.recording = TRUE
           /\ r.cap.ops \in {o.cap.ops, <<>>}
           /\ r.cap.handoff = IF o.cap.handle = 0 THEN o.cap.handoff
                ELSE [epoch |-> o.cap.handle, last |-> Current(log[o.cap.handle])]
<1>1. PICK n \in Capacities : log' = Append(log, NewLog(n))
  BY DEF StartNew
<1>2. log \in Seq(Log) /\ Len(log) < MaxEpochs
  BY DEF ShapeInv, TypeOK, StartNew
<1>3. Len(log') = Len(log) + 1 /\ Len(log) + 1 \in Handles
  BY <1>1, <1>2, ChangeLogAssumption DEF Handles
<1> DEFINE old == txs[t].cap
           off == IF old.handle = 0 THEN old ELSE Disabled(old, Current(log[old.handle]))
           cap == [off EXCEPT !.handle = Len(log) + 1, !.recording = TRUE]
           new == [txs[t] EXCEPT !.state = "configuring", !.statements = @ + 1,
                                 !.saved = old, !.copy = NoCopy, !.cap = cap]
<1>4. /\ off \in Capture /\ off.ops \in {old.ops, <<>>}
      /\ off.handoff = IF old.handle = 0 THEN old.handoff
                ELSE [epoch |-> old.handle, last |-> Current(log[old.handle])]
  <2>1. CASE old.handle = 0
    BY <2>1, TxFields
  <2>2. CASE old.handle # 0
    <3>1. old.handle \in DOMAIN log
      BY <2>2, TxFields
    <3>2. Current(log[old.handle]) = Len(log[old.handle].ever)
      BY <3>1, TxFields, EarliestOf
    <3>3. Current(log[old.handle]) \in Nat
      BY <3>1, <3>2, TxFields DEF Log
    <3> QED BY <2>2, <3>3, TxFields, DisabledCapture
  <2> QED BY <2>1, <2>2
<1>5. txs[t].statements + 1 \in 0..MaxStatements
  BY TxFields DEF StartNew, CanRun
<1>6. Tx(t, new)
  BY <1>3 DEF StartNew
<1>7. NoCopy \in Shape
  BY DEF NoCopy, Shape
<1> HIDE DEF off
<1>8. /\ cap \in Capture /\ cap.handle = Len(log) + 1 /\ cap.ops = off.ops
      /\ cap.handoff = off.handoff
  BY <1>3, <1>4 DEF Capture
<1>9. cap.recording = TRUE
  BY <1>4 DEF Capture
<1> HIDE DEF cap
<1>10. new \in Transaction
  BY <1>5, <1>7, <1>8, TxFields DEF Transaction
<1>11. /\ new.state = "configuring" /\ Stays(new, txs[t]) /\ new.cap = cap
      /\ new.saved = old /\ new.copy = NoCopy
  BY TxFields DEF Transaction, Stays
<1> HIDE DEF new
<1>12. OnlyTx(t) /\ txs'[t] = new
  BY <1>6, <1>10, PutTx DEF ShapeInv
<1> QED BY <1>1, <1>2, <1>4, <1>8, <1>9, <1>11, <1>12 DEF StartNew, CanRun

\* Every step of the logs: one is given changes (h = 0: none), one may be
\* minted, and no log loses what it was given.
LogMoves(h, changes) ==
    /\ log' \in Seq(Log) /\ Len(log) <= Len(log') /\ Len(log') <= MaxEpochs
    /\ \A e \in DOMAIN log' : RingOK(log'[e])
    /\ \A e \in DOMAIN log :
          log'[e].ever = IF e = h THEN log[e].ever \o changes ELSE log[e].ever
    /\ \A e \in DOMAIN log' \ DOMAIN log : log'[e].ever = <<>>

\* A step that leaves the logs alone.
LEMMA LogStill == ASSUME ShapeInv, log' = log PROVE LogMoves(0, <<>>)
<1>1. log \in Seq(Log) /\ Len(log) <= MaxEpochs /\ Len(log) \in Nat
  BY DEF ShapeInv, TypeOK
<1>2. \A e \in DOMAIN log : RingOK(log[e]) /\ e # 0
  BY <1>1 DEF ShapeInv, RingsOK
<1> QED BY <1>1, <1>2 DEF LogMoves

\* A step that adds an epoch.
LEMMA LogMinted ==
    ASSUME ShapeInv, Len(log) < MaxEpochs, NEW n \in Capacities, log' = Append(log, NewLog(n))
    PROVE  LogMoves(0, <<>>) /\ Len(log') = Len(log) + 1
<1>1. log \in Seq(Log) /\ Len(log) \in Nat /\ NewLog(n) \in Log /\ MaxEpochs \in Nat
  BY NewRing, ChangeLogAssumption DEF ShapeInv, TypeOK, RingOK
<1>2. log' \in Seq(Log) /\ Len(log') = Len(log) + 1 /\ DOMAIN log' = 1..(Len(log) + 1)
      /\ log'[Len(log) + 1] = NewLog(n)
      /\ \A e \in DOMAIN log : log'[e] = log[e] /\ e # 0 /\ RingOK(log[e])
  BY <1>1 DEF ShapeInv, RingsOK
<1>3. DOMAIN log = 1..Len(log) /\ Len(log) <= Len(log') /\ Len(log') <= MaxEpochs
  BY <1>1, <1>2
<1>4. \A e \in DOMAIN log' : e \in DOMAIN log \/ e = Len(log) + 1
  BY <1>1, <1>2, <1>3
<1>5. \A e \in DOMAIN log' : RingOK(log'[e])
  BY <1>2, <1>4, NewRing
<1>6. \A e \in DOMAIN log' \ DOMAIN log : log'[e].ever = <<>>
  BY <1>2, <1>4, NewRing
<1> QED BY <1>2, <1>3, <1>5, <1>6 DEF LogMoves

\* A step that replaces one log by one with a longer history.
LEMMA LogChanged ==
    ASSUME ShapeInv, NEW h \in DOMAIN log, NEW new, RingOK(new), NEW changes,
           new.ever = log[h].ever \o changes, log' = [log EXCEPT ![h] = new]
    PROVE  LogMoves(h, changes)
<1>1. log \in Seq(Log) /\ Len(log) <= MaxEpochs /\ Len(log) \in Nat /\ new \in Log
  BY DEF ShapeInv, TypeOK, RingOK
<1>2. log' \in Seq(Log) /\ Len(log') = Len(log) /\ DOMAIN log' = DOMAIN log
  BY <1>1
<1>3. \A e \in DOMAIN log : log'[e] = IF e = h THEN new ELSE log[e]
  BY <1>1
<1>4. \A e \in DOMAIN log : RingOK(log[e])
  BY DEF ShapeInv, RingsOK
<1>5. \A e \in DOMAIN log' : RingOK(log'[e])
  BY <1>2, <1>3, <1>4
<1>6. \A e \in DOMAIN log :
          log'[e].ever = IF e = h THEN log[e].ever \o changes ELSE log[e].ever
  BY <1>3
<1>7. Len(log) <= Len(log') /\ Len(log') <= MaxEpochs
  BY <1>1, <1>2
<1> QED BY <1>2, <1>5, <1>6, <1>7 DEF LogMoves

\* Publishing drained changes numbers them after those there are.
LEMMA LogPublished ==
    ASSUME ShapeInv, NEW h \in Handles, h # 0 => h \in DOMAIN log,
           NEW changes \in Seq(Change), Publish(h, changes)
    PROVE  LogMoves(h, changes) /\ Len(log') = Len(log)
<1>0. log \in Seq(Log)
  BY DEF ShapeInv, TypeOK
<1>1. CASE h = 0
  <2>1. LogMoves(0, <<>>) /\ log' = log
    BY <1>1, LogStill DEF Publish
  <2>2. \A e \in DOMAIN log : e # 0
    BY <1>0
  <2> QED BY <1>1, <2>1, <2>2 DEF LogMoves
<1>2. CASE h # 0
  <2>1. log[h] \in Log /\ Numbered(log[h])
    BY <1>2 DEF ShapeInv, RingsOK, RingOK
  <2>2. RingOK(Appended(log[h], changes)) /\ Appended(log[h], changes).ever = log[h].ever \o changes
    BY <2>1, AppendedRing
  <2>3. log' = [log EXCEPT ![h] = Appended(log[h], changes)]
    BY <1>2 DEF Publish
  <2>4. Len(log') = Len(log)
    BY <1>0, <2>3
  <2> QED BY <1>2, <2>2, <2>3, <2>4, LogChanged
<1> QED BY <1>1, <1>2

\* Committing a resize evicts, and loses no history.
LEMMA LogMerged ==
    ASSUME ShapeInv, NEW h \in DOMAIN log, NEW copy \in Shape, copy.capacity \in Capacities,
           log' = [log EXCEPT ![h] = Merged(@, copy)]
    PROVE  LogMoves(0, <<>>) /\ Len(log') = Len(log)
<1>1. log[h] \in Log /\ Numbered(log[h]) /\ log \in Seq(Log)
  BY DEF ShapeInv, TypeOK, RingsOK, RingOK
<1>2. RingOK(Merged(log[h], copy)) /\ Merged(log[h], copy).ever = log[h].ever
  BY <1>1, MergedRing, ShapeEarliest
<1>3. log[h].ever \in Seq(Change)
  BY <1>1 DEF Log
<1>4. log[h].ever \o <<>> = log[h].ever
  BY <1>3
<1>5. LogMoves(h, <<>>)
  BY <1>2, <1>4, LogChanged
<1>6. \A e \in DOMAIN log : e # 0
  BY <1>1
<1>7. Len(log') = Len(log)
  BY <1>1
<1> QED BY <1>4, <1>5, <1>6, <1>7 DEF LogMoves

\* A resize that commits leaves the history of the epoch alone.
LEMMA ConfiguredEffect ==
    ASSUME NEW t \in Txs, ShapeInv, Configured(t)
    PROVE  LET o == txs[t] r == txs'[t] IN
           /\ OnlyTx(t) /\ UNCHANGED <<durable, main, gate, consumers>>
           /\ LogMoves(0, <<>>) /\ Len(log') = Len(log)
           /\ o.state = "configuring" /\ r.state = "open" /\ Stays(r, o)
           /\ r.cap = o.cap /\ r.saved = Bare(durable) /\ r.copy = NoCopy
<1> DEFINE new == [txs[t] EXCEPT !.state = "open", !.copy = NoCopy, !.saved = Bare(durable)]
<1>1. NoCopy \in Shape /\ Bare(durable) \in Capture
  BY TxFields, BareTyped DEF NoCopy, Shape
<1>2. new \in Transaction
  BY <1>1, TxFields DEF Transaction
<1>3. OnlyTx(t) /\ txs'[t] = new
  BY <1>2, PutTx DEF Configured, ShapeInv
<1>4. /\ new.state = "open" /\ Stays(new, txs[t]) /\ new.cap = txs[t].cap
      /\ new.saved = Bare(durable) /\ new.copy = NoCopy
  BY TxFields DEF Transaction, Stays
<1> HIDE DEF new
<1>5. LogMoves(0, <<>>) /\ Len(log') = Len(log)
  <2>1. CASE txs[t].copy = NoCopy
    BY <2>1, LogStill DEF Configured
  <2>2. CASE txs[t].copy # NoCopy
    <3>1. txs[t].cap.handle # 0 /\ txs[t].copy.capacity \in Capacities
      BY <2>2 DEF ShapeInv, KnownOK
    <3>2. log' = [log EXCEPT ![txs[t].cap.handle] = Merged(@, txs[t].copy)]
      BY <2>2 DEF Configured
    <3>3. txs[t].cap.handle \in DOMAIN log /\ txs[t].copy \in Shape
      BY <3>1, TxFields
    <3> QED BY <3>1, <3>2, <3>3, LogMerged
  <2> QED BY <2>1, <2>2
<1> QED BY <1>3, <1>4, <1>5 DEF Configured

\* A resize or a disable that fails gives the capture state back.
LEMMA ConfigureFailsEffect ==
    ASSUME NEW t \in Txs, ShapeInv, ConfigureFails(t)
    PROVE  LET o == txs[t] r == txs'[t] IN
           /\ OnlyTx(t) /\ UNCHANGED <<durable, log, main, gate, consumers>>
           /\ o.state = "configuring" /\ r.state = "open" /\ Stays(r, o)
           /\ r.cap = o.saved /\ r.saved = Bare(durable) /\ r.copy = NoCopy
<1> DEFINE new == [txs[t] EXCEPT !.state = "open", !.copy = NoCopy, !.cap = txs[t].saved,
                            !.saved = Bare(durable)]
<1>1. NoCopy \in Shape /\ Bare(durable) \in Capture
  BY TxFields, BareTyped DEF NoCopy, Shape
<1>2. new \in Transaction
  BY <1>1, TxFields DEF Transaction
<1>3. OnlyTx(t) /\ txs'[t] = new
  BY <1>2, PutTx DEF ConfigureFails, ShapeInv
<1>4. /\ new.state = "open" /\ Stays(new, txs[t]) /\ new.cap = txs[t].saved
      /\ new.saved = Bare(durable) /\ new.copy = NoCopy
  BY TxFields DEF Transaction, Stays
<1> HIDE DEF new
<1> QED BY <1>3, <1>4 DEF ConfigureFails

\* A dropped transaction has nothing left.
LEMMA DropEffect ==
    ASSUME NEW t \in Txs, ShapeInv, Drop(t)
    PROVE  OnlyTx(t) /\ Gone(txs'[t], txs[t])
<1> DEFINE new == [txs[t] EXCEPT !.state = "dropped", !.base = 0, !.from = 0, !.writes = <<>>,
                         !.statements = 0, !.cap = Bare(durable)]
<1>1. Bare(durable) \in Capture /\ 0 \in Handles /\ <<>> \in Seq(Change)
      /\ 0 \in 0..MaxStatements
  BY TxFields, BareTyped, ChangeLogAssumption DEF Handles
<1>2. new \in Transaction
  BY <1>1, TxFields DEF Transaction
<1>3. OnlyTx(t) /\ txs'[t] = new
  BY <1>2, PutTx DEF Drop, ShapeInv
<1>4. Gone(new, txs[t])
  BY TxFields DEF Transaction, Gone, Aside
<1> HIDE DEF new
<1> QED BY <1>3, <1>4

\* Rollback, a refused commit, and one whose log failed.
Leaves(t) ==
    /\ OnlyTx(t) /\ Gone(txs'[t], txs[t]) /\ UNCHANGED <<durable, log, main, consumers>>
    /\ \/ txs[t].state = "open" /\ UNCHANGED gate
       \/ txs[t].state = "committing" /\ gate' = None
\* A step on the way to the barrier: only the state moves.
Advances(t) ==
    LET o == txs[t] r == txs'[t]
    IN /\ OnlyTx(t) /\ UNCHANGED <<durable, log, main, consumers>>
       /\ Stays(r, o) /\ Aside(r, o) /\ r.cap = o.cap
       /\ \/ /\ o.state = "open" /\ r.state = "committing" /\ gate = None /\ gate' = t
             /\ o.base = main.version
          \/ o.state = "committing" /\ r.state = "logged" /\ durable /\ UNCHANGED gate

\* A step of a commit that only moves it on.
LEMMA AdvanceState ==
    ASSUME NEW t \in Txs, ShapeInv, NEW st \in {"committing", "logged"},
           Tx(t, [txs[t] EXCEPT !.state = st])
    PROVE  /\ OnlyTx(t) /\ Stays(txs'[t], txs[t]) /\ Aside(txs'[t], txs[t])
           /\ txs'[t].cap = txs[t].cap /\ txs'[t].state = st
<1> DEFINE new == [txs[t] EXCEPT !.state = st]
<1>1. new \in Transaction
  BY TxFields DEF Transaction
<1>2. OnlyTx(t) /\ txs'[t] = new
  BY <1>1, PutTx DEF ShapeInv
<1>3. Stays(new, txs[t]) /\ Aside(new, txs[t]) /\ new.cap = txs[t].cap /\ new.state = st
  BY TxFields DEF Transaction, Stays, Aside
<1> HIDE DEF new
<1> QED BY <1>2, <1>3

\* A rollback or a failed barrier drops the transaction.
LEMMA LeaveEffect ==
    ASSUME NEW t \in Txs, ShapeInv, Rollback(t) \/ FlushFails(t)
    PROVE  Leaves(t)
BY DropEffect DEF Rollback, FlushFails, Leaves

\* The version check admits a commit or drops it.
LEMMA AdmitEffect ==
    ASSUME NEW t \in Txs, ShapeInv, Admit(t)
    PROVE  Leaves(t) \/ Advances(t)
<1>1. CASE txs[t].base = main.version
  <2>1. gate' = t /\ Tx(t, [txs[t] EXCEPT !.state = "committing"])
    BY <1>1 DEF Admit
  <2> QED BY <1>1, <2>1, AdvanceState DEF Admit, Advances
<1>2. CASE txs[t].base # main.version
  BY <1>2, DropEffect DEF Admit, Leaves
<1> QED BY <1>1, <1>2

\* The barrier moves the commit on.
LEMMA FlushEffect == ASSUME NEW t \in Txs, ShapeInv, Flush(t) PROVE Advances(t)
BY AdvanceState DEF Flush, Advances

\* Without a log the events are published when they are staged.
LEMMA DrainEffect ==
    ASSUME NEW t \in Txs, ShapeInv, Drain(t)
    PROVE  LET o == txs[t] r == txs'[t] IN
           /\ OnlyTx(t) /\ UNCHANGED <<durable, main, gate, consumers>>
           /\ LogMoves(o.cap.handle, o.cap.ops) /\ Len(log') = Len(log)
           /\ o.state = "committing" /\ r.state = "drained" /\ ~durable
           /\ Stays(r, o) /\ Aside(r, o) /\ Alike(r.cap, o.cap) /\ r.cap.ops = <<>>
<1> DEFINE cap == [txs[t].cap EXCEPT !.ops = <<>>]
           new == [txs[t] EXCEPT !.state = "drained", !.cap = cap]
<1>1. cap \in Capture /\ Alike(cap, txs[t].cap) /\ cap.ops = <<>>
  BY TxFields, Emptied
<1>2. [txs[t] EXCEPT !.state = "drained", !.cap.ops = <<>>] = new
  BY TxFields DEF Transaction
<1> HIDE DEF cap
<1>3. new \in Transaction
  BY <1>1, TxFields DEF Transaction
<1>4. Stays(new, txs[t]) /\ Aside(new, txs[t]) /\ new.cap = cap /\ new.state = "drained"
  BY TxFields DEF Transaction, Stays, Aside
<1> HIDE DEF new
<1>5. OnlyTx(t) /\ txs'[t] = new
  BY <1>2, <1>3, PutTx DEF Drain, ShapeInv
<1>6. LogMoves(txs[t].cap.handle, txs[t].cap.ops) /\ Len(log') = Len(log)
  BY TxFields, LogPublished DEF Drain
<1> QED BY <1>1, <1>4, <1>5, <1>6 DEF Drain

\* The swap publishes what is left to publish, and the graph.
LEMMA SwapEffect ==
    ASSUME NEW t \in Txs, ShapeInv, Swap(t)
    PROVE  LET o == txs[t] r == txs'[t] IN
           /\ OnlyTx(t) /\ UNCHANGED <<durable, consumers>> /\ gate' = None
           /\ LogMoves(o.cap.handle, o.cap.ops) /\ Len(log') = Len(log)
           /\ o.state \in {"drained", "logged"} /\ r.state = "committed"
           /\ r.from = o.from /\ r.writes = o.writes /\ Aside(r, o)
           /\ Alike(r.cap, o.cap) /\ r.cap.ops = <<>>
           /\ main' \in [version : Nat, cap : Capture, history : Seq(Change)]
           /\ main'.version = main.version + 1 /\ Alike(main'.cap, o.cap)
           /\ main'.cap.ops = <<>>
           /\ main'.history = main.history \o o.writes
<1> DEFINE cap == [txs[t].cap EXCEPT !.ops = <<>>]
           new == [txs[t] EXCEPT !.state = "committed", !.base = 0, !.statements = 0,
                                 !.cap = cap]
<1>1. cap \in Capture /\ Alike(cap, txs[t].cap) /\ cap.ops = <<>>
  BY TxFields, Emptied
<1>2. [txs[t] EXCEPT !.state = "committed", !.base = 0, !.statements = 0,
                            !.cap.ops = <<>>] = new
  BY TxFields DEF Transaction
<1>3. main' = [version |-> main.version + 1, cap |-> cap,
               history |-> main.history \o txs[t].writes]
  BY DEF Swap
<1> HIDE DEF cap
<1>4. new \in Transaction
  <2>1. 0 \in 0..MaxStatements
    BY TxFields
  <2> QED BY <1>1, <2>1, TxFields DEF Transaction
<1>5. /\ new.from = txs[t].from /\ new.writes = txs[t].writes /\ Aside(new, txs[t])
      /\ new.cap = cap /\ new.state = "committed"
  BY TxFields DEF Transaction, Aside
<1> HIDE DEF new
<1>6. OnlyTx(t) /\ txs'[t] = new
  BY <1>2, <1>4, PutTx DEF Swap, ShapeInv
<1>7. LogMoves(txs[t].cap.handle, txs[t].cap.ops) /\ Len(log') = Len(log)
  BY TxFields, LogPublished DEF Swap
<1>8. main.version + 1 \in Nat /\ main.history \o txs[t].writes \in Seq(Change)
  BY TxFields
<1>9. main' \in [version : Nat, cap : Capture, history : Seq(Change)]
      /\ main'.version = main.version + 1 /\ main'.cap = cap
      /\ main'.history = main.history \o txs[t].writes
  BY <1>1, <1>3, <1>8
<1> QED BY <1>1, <1>5, <1>6, <1>7, <1>9 DEF Swap

Graph == [version : Nat, cap : Capture, history : Seq(Change)]
\* A transaction's handles, in a state with n logs.
TxKnown(r, n) ==
    /\ Names(r.cap) \cup Names(r.saved) \cup {r.from} \subseteq 0..n
    /\ r.copy # NoCopy => /\ r.state = "configuring" /\ r.cap.handle # 0
                          /\ r.copy.capacity \in Capacities

\* The epochs a transaction names exist.
LEMMA TxIsKnown == ASSUME ShapeInv, NEW t \in Txs PROVE TxKnown(txs[t], Len(log))
BY DEF ShapeInv, KnownOK, TxKnown, Known

\* What a step of a transaction has to show to keep the shape.
LEMMA ShapeStep ==
    ASSUME ShapeInv, NEW t \in Txs, OnlyTx(t), NEW h, NEW changes, LogMoves(h, changes),
           UNCHANGED <<durable, consumers>>, gate' \in Txs \cup {None},
           main' \in Graph, Names(main'.cap) \subseteq 0..Len(log'),
           TxKnown(txs'[t], Len(log'))
    PROVE  ShapeInv'
<1>1. log \in Seq(Log) /\ log' \in Seq(Log) /\ Len(log) <= Len(log') /\ Len(log') <= MaxEpochs
      /\ Len(log) \in Nat /\ Len(log') \in Nat
  BY DEF ShapeInv, TypeOK, LogMoves
<1>2. 0..Len(log) \subseteq 0..Len(log')
  BY <1>1
<1>3. RingsOK'
  BY DEF LogMoves, RingsOK
<1>4. \A e \in DOMAIN log' : Len(log'[e].events) <= log'[e].capacity
  BY DEF LogMoves, RingOK
<1>5. TypeOK'
  BY <1>1, <1>4 DEF ShapeInv, TypeOK, OnlyTx, Graph
<1>6. \A u \in Txs : TxKnown(txs'[u], Len(log'))
  <2> SUFFICES ASSUME NEW u \in Txs \ {t} PROVE TxKnown(txs'[u], Len(log'))
    OBVIOUS
  <2>1. txs'[u] = txs[u] /\ TxKnown(txs[u], Len(log))
    BY TxIsKnown DEF OnlyTx
  <2> QED BY <2>1, <1>2 DEF TxKnown
<1>7. KnownOK'
  <2>1. \A c \in Consumers :
          /\ {consumers'[c].handle, consumers'[c].cursor.epoch} \subseteq 0..Len(log')
          /\ consumers'[c].state = "checked" => consumers'[c].handle # 0
    BY <1>2 DEF ShapeInv, KnownOK, Known
  <2> QED BY <1>6, <2>1 DEF KnownOK, Known, TxKnown, Names
<1> QED BY <1>3, <1>5, <1>7 DEF ShapeInv

\* Every step of a transaction keeps the shape.
LEMMA ShapeTx ==
    ASSUME ShapeInv, NEW t \in Txs, Runs(t)
    PROVE  ShapeInv'
<1>1. main \in Graph /\ Names(main.cap) \subseteq 0..Len(log) /\ gate \in Txs \cup {None}
      /\ Len(log) \in Nat
  BY DEF ShapeInv, TypeOK, Graph, KnownOK, Known
<1>2. TxKnown(txs[t], Len(log))
  BY TxIsKnown
<1>3. Bare(durable).handle = 0 /\ Bare(durable).handoff.epoch = 0
  BY DEF Bare, NoHandoff
<1>4. CASE Begin(t)
  <2>1. TxKnown(txs'[t], Len(log))
    BY <1>1, <1>2, <1>4, BeginEffect, SMTT(30) DEF TxKnown, Alike, Aside, Names
  <2> QED BY <1>1, <1>4, <2>1, BeginEffect, LogStill, ShapeStep
<1>5. CASE Write(t)
  <2>1. TxKnown(txs'[t], Len(log))
    BY <1>2, <1>5, WriteEffect DEF TxKnown, Alike, Aside, Names
  <2> QED BY <1>1, <1>5, <2>1, WriteEffect, LogStill, ShapeStep
<1>6. CASE WriteFails(t)
  <2>1. TxKnown(txs'[t], Len(log))
    BY <1>2, <1>6, WriteFailsEffect DEF TxKnown, Aside, Stays, Names
  <2> QED BY <1>1, <1>6, <2>1, WriteFailsEffect, LogStill, ShapeStep
<1>7. CASE StartEnable(t)
  <2>1. TxKnown(txs'[t], Len(log))
    BY <1>2, <1>7, StartEnableEffect DEF TxKnown, Stays, Names
  <2> QED BY <1>1, <1>7, <2>1, StartEnableEffect, LogStill, ShapeStep
<1>8. CASE StartDisable(t)
  <2>1. TxKnown(txs'[t], Len(log))
    <3>1. /\ txs'[t].cap.handle = 0 /\ txs'[t].saved = txs[t].cap /\ txs'[t].copy = NoCopy
          /\ Stays(txs'[t], txs[t])
          /\ txs'[t].cap.handoff = [epoch |-> txs[t].cap.handle,
                                    last |-> Current(log[txs[t].cap.handle])]
      BY <1>8, StartDisableEffect
    <3>2. txs'[t].cap.handoff.epoch = txs[t].cap.handle
      BY <3>1
    <3> QED BY <1>1, <1>2, <3>1, <3>2 DEF TxKnown, Stays, Names
  <2> QED BY <1>1, <1>8, <2>1, StartDisableEffect, LogStill, ShapeStep
<1>9. CASE StartNew(t)
  <2>1. LogMoves(0, <<>>) /\ Len(log') = Len(log) + 1
    BY <1>9, StartNewEffect, LogMinted
  <2>2. 0..Len(log) \subseteq 0..Len(log') /\ Len(log') \in 0..Len(log')
    BY <1>1, <2>1
  <2>3. Names(txs'[t].cap) \subseteq {Len(log'), txs[t].cap.handle, txs[t].cap.handoff.epoch}
    <3>1. /\ txs'[t].cap.handle = Len(log) + 1
          /\ txs'[t].cap.handoff =
                IF txs[t].cap.handle = 0 THEN txs[t].cap.handoff
                ELSE [epoch |-> txs[t].cap.handle, last |-> Current(log[txs[t].cap.handle])]
      BY <1>9, StartNewEffect
    <3>2. txs'[t].cap.handoff.epoch \in {txs[t].cap.handle, txs[t].cap.handoff.epoch}
      BY <3>1
    <3> QED BY <2>1, <3>1, <3>2 DEF Names
  <2>4. TxKnown(txs'[t], Len(log'))
    BY <1>2, <1>9, <2>2, <2>3, StartNewEffect DEF TxKnown, Stays, Names
  <2>5. Names(main'.cap) \subseteq 0..Len(log')
    BY <1>1, <1>9, <2>2, StartNewEffect
  <2> QED BY <1>1, <1>9, <2>1, <2>4, <2>5, StartNewEffect, ShapeStep
<1>10. CASE Configured(t)
  <2>1. TxKnown(txs'[t], Len(log))
    BY <1>1, <1>2, <1>3, <1>10, ConfiguredEffect DEF TxKnown, Stays, Names
  <2> QED BY <1>1, <1>10, <2>1, ConfiguredEffect, ShapeStep
<1>11. CASE ConfigureFails(t)
  <2>1. TxKnown(txs'[t], Len(log))
    BY <1>1, <1>2, <1>3, <1>11, ConfigureFailsEffect DEF TxKnown, Stays, Names
  <2> QED BY <1>1, <1>11, <2>1, ConfigureFailsEffect, LogStill, ShapeStep
<1>12. CASE Leaves(t)
  <2>1. TxKnown(txs'[t], Len(log))
    BY <1>1, <1>2, <1>3, <1>12 DEF Leaves, Gone, TxKnown, Aside, Names
  <2>2. gate' \in Txs \cup {None}
    BY <1>1, <1>12 DEF Leaves
  <2> QED BY <1>1, <1>12, <2>1, <2>2, LogStill, ShapeStep DEF Leaves
<1>13. CASE Advances(t)
  <2>1. TxKnown(txs'[t], Len(log))
    BY <1>2, <1>13 DEF Advances, TxKnown, Aside, Stays
  <2>2. gate' \in Txs \cup {None}
    BY <1>1, <1>13 DEF Advances
  <2> QED BY <1>1, <1>13, <2>1, <2>2, LogStill, ShapeStep DEF Advances
<1>14. CASE Drain(t)
  <2>1. TxKnown(txs'[t], Len(log))
    BY <1>2, <1>14, DrainEffect DEF TxKnown, Alike, Aside, Stays, Names
  <2> QED BY <1>1, <1>14, <2>1, DrainEffect, ShapeStep
<1>15. CASE Swap(t)
  <2>1. TxKnown(txs'[t], Len(log)) /\ Names(main'.cap) \subseteq 0..Len(log)
    BY <1>2, <1>15, SwapEffect DEF TxKnown, Alike, Aside, Names
  <2> QED BY <1>1, <1>15, <2>1, SwapEffect, ShapeStep DEF Graph
<1>16. Rollback(t) \/ FlushFails(t) => Leaves(t)
  BY LeaveEffect
<1>17. Admit(t) => Leaves(t) \/ Advances(t)
  BY AdmitEffect
<1>18. Flush(t) => Advances(t)
  BY FlushEffect
<1> QED BY <1>4, <1>5, <1>6, <1>7, <1>8, <1>9, <1>10, <1>11, <1>12, <1>13, <1>14, <1>15,
           <1>16, <1>17, <1>18 DEF Runs

\* The steps of a consumer.
OnlyReader(c) ==
    /\ consumers' \in [Consumers -> Reader] /\ \A d \in Consumers \ {c} : consumers'[d] = consumers[d]
    /\ UNCHANGED <<durable, log, main, gate, txs>>

\* A step that writes one consumer leaves the others alone.
LEMMA PutReader ==
    ASSUME NEW c \in Consumers, TypeOK, NEW k \in Reader, Consumer(c, k)
    PROVE  OnlyReader(c) /\ consumers'[c] = k
BY DEF TypeOK, Consumer, OnlyReader

\* The records a consumer is made of.
LEMMA ReaderFields ==
    ASSUME NEW c \in Consumers, ShapeInv
    PROVE  /\ consumers[c] \in Reader /\ consumers[c].cursor \in [epoch : Handles, seq : Nat]
           /\ consumers[c].got \in Seq(Delivery) /\ consumers[c].start \in Nat
           /\ consumers[c].floor \in Nat /\ consumers[c].handle \in Handles
           /\ main.cap.handle \in Handles
           /\ consumers[c].handle # 0 =>
                 /\ consumers[c].handle \in DOMAIN log
                 /\ log[consumers[c].handle] \in Log /\ Numbered(log[consumers[c].handle])
<1>1. consumers[c] \in Reader /\ main.cap \in Capture /\ log \in Seq(Log)
  BY DEF ShapeInv, TypeOK
<1>2. consumers[c].handle \in 0..Len(log)
  BY DEF ShapeInv, KnownOK, Known
<1>3. consumers[c].handle # 0 => consumers[c].handle \in DOMAIN log
  BY <1>1, <1>2
<1>4. \A e \in DOMAIN log : log[e] \in Log /\ Numbered(log[e])
  BY DEF ShapeInv, RingsOK, RingOK
<1>5. /\ consumers[c].cursor \in [epoch : Handles, seq : Nat]
      /\ consumers[c].got \in Seq(Delivery) /\ consumers[c].start \in Nat
      /\ consumers[c].floor \in Nat /\ consumers[c].handle \in Handles
  BY <1>1 DEF Reader
<1>6. main.cap.handle \in Handles
  BY <1>1 DEF Capture
<1> QED BY <1>1, <1>3, <1>4, <1>5, <1>6

\* A query looks the handle up and does nothing else.
LEMMA LookEffect ==
    ASSUME NEW c \in Consumers, ShapeInv, Look(c)
    PROVE  LET o == consumers[c] k == consumers'[c] IN
           /\ OnlyReader(c) /\ o.state = "idle" /\ k.state = "idle"
           /\ k.handle = main.cap.handle /\ k.cursor = o.cursor /\ k.start = o.start
           /\ k.got = o.got
<1> DEFINE new == [consumers[c] EXCEPT !.handle = main.cap.handle]
<1>1. new \in Reader
  BY ReaderFields DEF Reader
<1>2. OnlyReader(c) /\ consumers'[c] = new
  BY <1>1, PutReader DEF Look, ShapeInv
<1>3. /\ new.state = consumers[c].state /\ new.handle = main.cap.handle
      /\ new.cursor = consumers[c].cursor /\ new.start = consumers[c].start
      /\ new.got = consumers[c].got
  BY ReaderFields DEF Reader
<1> HIDE DEF new
<1> QED BY <1>2, <1>3 DEF Look

\* A fresh cursor names the epoch and where reading starts.
LEMMA TakeCursorEffect ==
    ASSUME NEW c \in Consumers, ShapeInv, TakeCursor(c)
    PROVE  LET o == consumers[c] k == consumers'[c] IN
           /\ OnlyReader(c) /\ o.state = "idle" /\ k.state = "idle"
           /\ k.handle = o.handle /\ k.cursor.epoch = o.handle
           /\ k.cursor.seq = k.start /\ k.got = <<>>
<1> DEFINE e == consumers[c].handle
<1>1. PICK seq \in {Current(log[e]), Earliest(log[e]) - 1} :
             Consumer(c, [consumers[c] EXCEPT !.cursor = [epoch |-> e, seq |-> seq],
                                              !.start = seq, !.got = <<>>])
  BY DEF TakeCursor
<1>2. log[e] \in Log /\ Numbered(log[e]) /\ e \in Handles
  BY ReaderFields DEF TakeCursor
<1>3. Current(log[e]) \in Nat /\ Earliest(log[e]) \in Nat \ {0}
  BY <1>2, EarliestOf
<1>4. Earliest(log[e]) - 1 \in Nat
  <2>1. \A n \in Nat \ {0} : n - 1 \in Nat
    OBVIOUS
  <2> QED BY <1>3, <2>1
<1>5. seq \in Nat
  BY <1>1, <1>3, <1>4
<1> HIDE DEF e
<1> DEFINE new == [consumers[c] EXCEPT !.cursor = [epoch |-> e, seq |-> seq],
                                              !.start = seq, !.got = <<>>]
<1>6. new \in Reader
  <2>1. [epoch |-> e, seq |-> seq] \in [epoch : Handles, seq : Nat] /\ <<>> \in Seq(Delivery)
    BY <1>2, <1>5 DEF e
  <2> QED BY <1>5, <2>1, ReaderFields DEF Reader
<1>7. OnlyReader(c) /\ consumers'[c] = new
  BY <1>1, <1>6, PutReader DEF ShapeInv
<1>8. /\ new.state = consumers[c].state /\ new.handle = consumers[c].handle
      /\ new.cursor.epoch = e /\ new.cursor.seq = seq /\ new.start = seq /\ new.got = <<>>
  BY ReaderFields DEF Reader
<1> HIDE DEF new
<1> QED BY <1>7, <1>8 DEF TakeCursor, e

\* A cursor that passes the check is one of this epoch, and not too old.
LEMMA CheckEffect ==
    ASSUME NEW c \in Consumers, ShapeInv, Check(c)
    PROVE  LET o == consumers[c] k == consumers'[c] IN
           /\ OnlyReader(c) /\ o.state = "idle" /\ k.state = "checked"
           /\ k.handle = o.handle /\ o.handle # 0 /\ k.cursor = o.cursor
           /\ k.cursor.epoch = k.handle /\ k.floor <= k.cursor.seq + 1
           /\ k.start = o.start /\ k.got = o.got
<1> DEFINE l == log[consumers[c].handle]
           new == [consumers[c] EXCEPT !.state = "checked", !.floor = Earliest(l)]
<1>1. l \in Log /\ Numbered(l) /\ consumers[c].handle # 0
  BY ReaderFields DEF Check
<1>2. Earliest(l) \in Nat
  BY <1>1, EarliestOf
<1>3. new \in Reader
  BY <1>2, ReaderFields DEF Reader
<1>4. Consumer(c, new) /\ Accepts(l, consumers[c].handle, consumers[c].cursor)
      /\ consumers[c].state = "idle"
  BY DEF Check
<1>5. OnlyReader(c) /\ consumers'[c] = new
  BY <1>3, <1>4, PutReader DEF ShapeInv
<1>6. /\ new.state = "checked" /\ new.handle = consumers[c].handle
      /\ new.cursor = consumers[c].cursor /\ new.start = consumers[c].start
      /\ new.got = consumers[c].got /\ new.floor = Earliest(l)
  BY ReaderFields DEF Reader
<1> HIDE DEF new
<1>7. /\ consumers[c].cursor.epoch = consumers[c].handle
      /\ consumers[c].cursor.seq + 1 >= Earliest(l)
  BY <1>4 DEF Accepts
<1>8. consumers[c].cursor.seq \in Nat
  BY ReaderFields
<1>9. Earliest(l) <= consumers[c].cursor.seq + 1
  BY <1>2, <1>7, <1>8
<1> QED BY <1>1, <1>4, <1>5, <1>6, <1>7, <1>9

\* What a read hands over: consecutive events past the cursor.
Rows(rows, l, from) ==
    /\ rows \in Seq(Event)
    /\ \A i \in 1..Len(rows) :
          /\ rows[i].seq \in 1..Len(l.ever) /\ rows[i].change = l.ever[rows[i].seq]
          /\ rows[i].seq > from
          /\ i > 1 => rows[i].seq = rows[i - 1].seq + 1

\* A read appends the rows after the cursor to what was delivered.
LEMMA ReadEffect ==
    ASSUME NEW c \in Consumers, ShapeInv, Read(c)
    PROVE  LET o == consumers[c] k == consumers'[c] IN
           /\ OnlyReader(c) /\ o.state = "checked" /\ k.state = "idle"
           /\ k.handle = o.handle /\ k.cursor.epoch = o.cursor.epoch /\ k.start = o.start
           /\ \E rows :
                 /\ Rows(rows, log[o.handle], o.cursor.seq)
                 /\ k.got = o.got \o [i \in DOMAIN rows |->
                          [seq |-> rows[i].seq, change |-> rows[i].change, floor |-> o.floor]]
                 /\ k.cursor.seq = IF rows = <<>> THEN o.cursor.seq ELSE Last(rows).seq
<1> DEFINE k0 == consumers[c]
           l == log[k0.handle]
           all == Since(l.events, k0.cursor.seq)
           len == Len(l.events)
           base == Len(l.ever) - len
<1>1. /\ l \in Log /\ Numbered(l) /\ k0.cursor.seq \in Nat /\ l.events \in Seq(Event)
      /\ l.ever \in Seq(Change) /\ len \in Nat /\ Len(l.ever) \in Nat /\ base \in Nat
      /\ k0.got \in Seq(Delivery) /\ k0.floor \in Nat
      /\ k0.cursor \in [epoch : Handles, seq : Nat]
  <2>0. k0.handle # 0
    BY DEF Read, ShapeInv, KnownOK
  <2>1. l \in Log /\ Numbered(l)
    BY <2>0, ReaderFields
  <2>2. k0.cursor.seq \in Nat
    BY ReaderFields
  <2>3. l.events \in Seq(Event) /\ l.ever \in Seq(Change)
    BY <2>1 DEF Log
  <2>4. len \in Nat /\ Len(l.ever) \in Nat /\ len <= Len(l.ever)
    BY <2>1, <2>3 DEF Numbered
  <2>5. base \in Nat
    <3>1. \A a, b \in Nat : b <= a => a - b \in Nat
      OBVIOUS
    <3> QED BY <2>4, <3>1
  <2> QED BY <2>1, <2>2, <2>3, <2>4, <2>5, ReaderFields
<1>2. \A i \in 1..len : l.events[i] \in Event /\ l.events[i].seq = base + i
                       /\ l.events[i].change = l.ever[l.events[i].seq]
  <2>1. DOMAIN l.events = 1..len /\ \A i \in 1..len : l.events[i] \in Event
    BY <1>1
  <2>2. \A i \in DOMAIN l.events :
          /\ l.events[i].seq = base + i /\ l.events[i].change = l.ever[l.events[i].seq]
    BY <1>1 DEF Numbered
  <2> QED BY <2>1, <2>2
<1>3. PICK k \in 1..(len + 1) :
              /\ all = SubSeq(l.events, k, len)
              /\ k <= len => base + k > k0.cursor.seq
  BY <1>1, SinceSuffix
<1>5. PICK n \in {1, Len(all)} :
        Consumer(c, [consumers[c] EXCEPT
                              !.state = "idle", !.floor = 0,
                              !.got = @ \o [i \in DOMAIN SubSeq(all, 1, IF n <= Len(all) THEN n ELSE 0) |->
                                  [seq |-> SubSeq(all, 1, IF n <= Len(all) THEN n ELSE 0)[i].seq,
                                   change |-> SubSeq(all, 1, IF n <= Len(all) THEN n ELSE 0)[i].change,
                                   floor |-> consumers[c].floor]],
                              !.cursor.seq = IF SubSeq(all, 1, IF n <= Len(all) THEN n ELSE 0) = <<>> THEN @
                                             ELSE Last(SubSeq(all, 1, IF n <= Len(all) THEN n ELSE 0)).seq])
  BY DEF Read
<1> DEFINE top == IF n <= Len(all) THEN n ELSE 0
           rows == SubSeq(all, 1, top)
           more == [i \in DOMAIN rows |->
                       [seq |-> rows[i].seq, change |-> rows[i].change, floor |-> k0.floor]]
           cursor == [k0.cursor EXCEPT !.seq = IF rows = <<>> THEN @ ELSE Last(rows).seq]
           new == [k0 EXCEPT !.state = "idle", !.floor = 0, !.got = @ \o more, !.cursor = cursor]
<1>6. Consumer(c, new)
  <2>1. [consumers[c] EXCEPT !.state = "idle", !.floor = 0, !.got = @ \o more,
               !.cursor.seq = IF rows = <<>> THEN @ ELSE Last(rows).seq] = new
    BY ReaderFields DEF Reader
  <2> QED BY <1>5, <2>1
<1> HIDE DEF more, cursor, new
<1>7. /\ rows \in Seq(Event) /\ Len(rows) = top /\ DOMAIN rows = 1..top
      /\ \A i \in 1..top : rows[i] = l.events[k + i - 1] /\ k + i - 1 \in 1..len
      /\ rows = <<>> <=> top = 0
  <2>1. all \in Seq(Event) /\ Len(all) = len - k + 1
        /\ \A i \in 1..Len(all) : all[i] = l.events[k + i - 1]
    <3>1. \A s \in Seq(Event) : \A j \in 1..(Len(s) + 1) :
             /\ SubSeq(s, j, Len(s)) \in Seq(Event) /\ Len(SubSeq(s, j, Len(s))) = Len(s) - j + 1
             /\ \A i \in 1..(Len(s) - j + 1) : SubSeq(s, j, Len(s))[i] = s[j + i - 1]
      OBVIOUS
    <3> HIDE DEF all
    <3> QED BY <1>1, <1>3, <3>1
  <2> HIDE DEF all, len
  <2>2. top \in 0..Len(all)
    BY <2>1
  <2>3. \A i \in 1..top : k + i - 1 \in 1..len
    BY <1>1, <2>1, <2>2
  <2>4. /\ rows \in Seq(Event) /\ Len(rows) = top /\ DOMAIN rows = 1..top
        /\ \A i \in 1..top : rows[i] = all[i]
    BY <2>1, <2>2
  <2>5. \A i \in 1..top : i \in 1..Len(all)
    BY <2>1, <2>2
  <2>6. \A i \in 1..top : rows[i] = l.events[k + i - 1]
    BY <2>1, <2>4, <2>5
  <2> HIDE DEF rows, top
  <2>7. rows = <<>> <=> top = 0
    BY <2>4, <2>2
  <2> QED BY <2>3, <2>4, <2>6, <2>7
<1> HIDE DEF rows, top, all, base
<1>8. ASSUME NEW i \in 1..Len(rows)
      PROVE  /\ rows[i].seq = base + (k + i - 1) /\ rows[i].change = l.ever[rows[i].seq]
             /\ rows[i].seq \in 1..Len(l.ever) /\ rows[i].seq > k0.cursor.seq
  <2>1. rows[i] = l.events[k + i - 1] /\ k + i - 1 \in 1..len
    BY <1>7
  <2>2. rows[i].seq = base + (k + i - 1) /\ rows[i].change = l.ever[rows[i].seq]
    BY <1>2, <2>1
  <2>3. Len(l.ever) = base + len /\ len \in Nat /\ base \in Nat /\ k \in Nat /\ i \in Nat
    BY <1>1 DEF base
  <2> HIDE DEF len
  <2>4. base + (k + i - 1) \in 1..(base + len)
    BY <2>1, <2>3
  <2>5. k0.cursor.seq \in Nat /\ k >= 1 /\ k <= len /\ i >= 1
    BY <1>1, <2>1, <2>3
  <2>6. base + (k + i - 1) > k0.cursor.seq
    BY <1>3, <2>3, <2>5
  <2> QED BY <2>2, <2>3, <2>4, <2>6
<1> HIDE DEF len
<1>9. Rows(rows, l, k0.cursor.seq)
  <2>1. ASSUME NEW i \in 1..Len(rows), i > 1 PROVE rows[i].seq = rows[i - 1].seq + 1
    <3>1. i - 1 \in 1..Len(rows)
      BY <2>1, <1>7
    <3>2. rows[i].seq = base + (k + i - 1) /\ rows[i - 1].seq = base + (k + (i - 1) - 1)
      BY <1>8, <3>1
    <3>3. base \in Int /\ k \in Int /\ i \in Int
      BY <1>1, <1>7
    <3> QED BY <3>2, <3>3
  <2> QED BY <1>7, <1>8, <2>1 DEF Rows
<1>11. rows # <<>> => Last(rows).seq \in Nat
  BY <1>7, <1>8 DEF Last
<1>12. cursor \in [epoch : Handles, seq : Nat] /\ cursor.epoch = k0.cursor.epoch
       /\ cursor.seq = IF rows = <<>> THEN k0.cursor.seq ELSE Last(rows).seq
  BY <1>1, <1>11 DEF cursor
<1>13. more \in Seq(Delivery)
  <2>1. \A i \in 1..Len(rows) : rows[i] \in Event
    BY <1>7
  <2>2. \A i \in 1..Len(rows) :
          [seq |-> rows[i].seq, change |-> rows[i].change, floor |-> k0.floor] \in Delivery
    BY <1>1, <2>1 DEF Event, Delivery
  <2>3. DOMAIN rows = 1..Len(rows) /\ Len(rows) \in Nat
    BY <1>7
  <2> QED BY <2>2, <2>3 DEF more
<1>14. k0.got \o more \in Seq(Delivery)
  BY <1>1, <1>13
<1>15. new \in Reader
  BY <1>12, <1>14, ReaderFields DEF new, Reader
<1>16. OnlyReader(c) /\ consumers'[c] = new
  BY <1>6, <1>15, PutReader DEF ShapeInv
<1>17. /\ new.state = "idle" /\ new.handle = k0.handle /\ new.cursor = cursor
       /\ new.start = k0.start /\ new.got = k0.got \o more
  BY ReaderFields DEF new, Reader
<1> QED BY <1>9, <1>12, <1>16, <1>17 DEF Read, more

\* What a step of a consumer has to show to keep the shape.
LEMMA ShapeReader ==
    ASSUME ShapeInv, NEW c \in Consumers, OnlyReader(c),
           consumers'[c].handle \in Known, consumers'[c].cursor.epoch \in Known,
           consumers'[c].state = "checked" => consumers'[c].handle # 0
    PROVE  ShapeInv'
<1>1. TypeOK'
  BY DEF ShapeInv, TypeOK, OnlyReader
<1>2. RingsOK'
  BY DEF ShapeInv, RingsOK, OnlyReader
<1>3. \A d \in Consumers :
          /\ {consumers'[d].handle, consumers'[d].cursor.epoch} \subseteq Known
          /\ consumers'[d].state = "checked" => consumers'[d].handle # 0
  BY DEF ShapeInv, KnownOK, OnlyReader
<1>4. KnownOK'
  BY <1>3 DEF ShapeInv, KnownOK, OnlyReader, Known
<1> QED BY <1>1, <1>2, <1>4 DEF ShapeInv

\* Every step of a consumer keeps the shape.
LEMMA ShapePolls ==
    ASSUME ShapeInv, NEW c \in Consumers, Polls(c)
    PROVE  ShapeInv' /\ OnlyReader(c)
<1>1. consumers[c].handle \in Known /\ consumers[c].cursor.epoch \in Known
      /\ main.cap.handle \in Known /\ (consumers[c].state = "checked" => consumers[c].handle # 0)
  BY DEF ShapeInv, KnownOK, Names
<1>2. CASE Look(c)
  BY <1>1, <1>2, LookEffect, ShapeReader
<1>3. CASE TakeCursor(c)
  BY <1>1, <1>3, TakeCursorEffect, ShapeReader
<1>4. CASE Check(c)
  BY <1>1, <1>4, CheckEffect, ShapeReader
<1>5. CASE Read(c)
  BY <1>1, <1>5, ReadEffect, ShapeReader
<1> QED BY <1>2, <1>3, <1>4, <1>5 DEF Polls

\* The shape holds at the start.
LEMMA ShapeInit == Init => ShapeInv
<1> SUFFICES ASSUME Init PROVE ShapeInv
  OBVIOUS
<1>1. durable \in BOOLEAN /\ durable \in Durability /\ log = <<>> /\ 0 \in Handles
      /\ gate = None
  BY ChangeLogAssumption DEF Init, Handles
<1>2. Bare(durable) \in Capture /\ Bare(durable).handle = 0 /\ Bare(durable).handoff.epoch = 0
  BY <1>1, BareTyped DEF Bare, NoHandoff
<1>3. NoCopy \in Shape /\ <<>> \in Seq(Change) /\ <<>> \in Seq(Delivery) /\ 0 \in 0..MaxStatements
  BY ChangeLogAssumption DEF NoCopy, Shape
<1>4. main \in Graph /\ main.cap = Bare(durable)
  BY <1>2, <1>3 DEF Init, Graph
<1>5. [state |-> "idle", base |-> 0, from |-> 0, cap |-> Bare(durable),
        saved |-> Bare(durable), copy |-> NoCopy, writes |-> <<>>, statements |-> 0] \in Transaction
  BY <1>1, <1>2, <1>3 DEF Transaction
<1>6. [state |-> "idle", handle |-> 0, cursor |-> [epoch |-> 0, seq |-> 0],
       floor |-> 0, start |-> 0, got |-> <<>>] \in Reader
  BY <1>1, <1>3 DEF Reader
<1>7. txs \in [Txs -> Transaction] /\ consumers \in [Consumers -> Reader]
  BY <1>5, <1>6 DEF Init
<1>8. log \in Seq(Log) /\ DOMAIN log = {} /\ Len(log) = 0
  BY <1>1
<1>9. TypeOK
  BY <1>1, <1>4, <1>7, <1>8, ChangeLogAssumption DEF TypeOK, Graph
<1>10. KnownOK
  <2>1. \A t \in Txs : /\ txs[t].cap = Bare(durable) /\ txs[t].saved = Bare(durable)
                      /\ txs[t].from = 0 /\ txs[t].copy = NoCopy
    BY DEF Init
  <2>2. \A c \in Consumers : /\ consumers[c].handle = 0 /\ consumers[c].cursor.epoch = 0
                            /\ consumers[c].state = "idle"
    BY DEF Init
  <2> QED BY <1>2, <1>4, <1>8, <2>1, <2>2 DEF KnownOK, Known, Names
<1>11. RingsOK
  BY <1>8 DEF RingsOK
<1> QED BY <1>9, <1>10, <1>11 DEF ShapeInv

\* Every step keeps the shape.
LEMMA ShapeStable == ShapeInv /\ [Next]_vars => ShapeInv'
<1> SUFFICES ASSUME ShapeInv, [Next]_vars PROVE ShapeInv'
  OBVIOUS
<1>1. CASE UNCHANGED vars
  BY <1>1 DEF vars, ShapeInv, TypeOK, KnownOK, Known, RingsOK
<1>2. ASSUME NEW t \in Txs, Runs(t) PROVE ShapeInv'
  BY <1>2, ShapeTx
<1>3. ASSUME NEW c \in Consumers, Polls(c) PROVE ShapeInv'
  BY <1>3, ShapePolls
<1> QED BY <1>1, <1>2, <1>3 DEF Next

\* The types of the model, for every value of the constants; the ring stays
\* within its capacity (CdcLog::append, reconfigure).
THEOREM ChangeLogTypes == Spec => []TypeOK
<1>1. Spec => []ShapeInv
  BY ShapeInit, ShapeStable, PTL DEF Spec
<1>2. ShapeInv => TypeOK
  BY DEF ShapeInv
<1> QED BY <1>1, <1>2, PTL

\* A position names one change for good: what the ring retains is the newest
\* of all it was given, under the numbers they were given (CdcLog::append, and
\* commit_reconfiguration onto a log that others published to meanwhile).
THEOREM PositionsStand == Spec => []SeqNamesOneChange
<1>1. Spec => []ShapeInv
  BY ShapeInit, ShapeStable, PTL DEF Spec
<1>2. ShapeInv => SeqNamesOneChange
  <2> SUFFICES ASSUME ShapeInv, NEW e \in DOMAIN log
               PROVE  /\ log[e].next = Len(log[e].ever) + 1
                      /\ \A i \in DOMAIN log[e].events :
                            /\ log[e].events[i].seq = log[e].next - 1 - Len(log[e].events) + i
                            /\ log[e].events[i].change = log[e].ever[log[e].events[i].seq]
    BY DEF SeqNamesOneChange
  <2>1. log[e] \in Log /\ Numbered(log[e])
    BY DEF ShapeInv, RingsOK, RingOK
  <2>2. log[e].next - 1 = Len(log[e].ever)
    BY <2>1, EarliestOf DEF Current
  <2> QED BY <2>1, <2>2 DEF Numbered
<1> QED BY <1>1, <1>2, PTL

-----------------------------------------------------------------------------
(***************************************************************************)
(* Consumers.                                                              *)
(***************************************************************************)
\* Row i of what consumer k was given, by the log it follows.
Given(k, i, ever) ==
    LET got == k.got[i]
        before == IF i = 1 THEN k.start ELSE k.got[i - 1].seq
    IN /\ got.seq > before
       /\ got.seq \in 1..Len(ever) /\ got.change = ever[got.seq]
       /\ got.seq > before + 1 => got.floor <= before + 1
At(k) == IF k.got = <<>> THEN k.start ELSE k.got[Len(k.got)].seq
\* The cursor is where the rows end; a checked one is of the log it will read.
FollowsLog(k, logs) ==
    /\ k.cursor.seq = At(k)
    /\ k.got # <<>> => k.cursor.epoch \in DOMAIN logs
    /\ k.state = "checked" => k.cursor.epoch = k.handle /\ k.floor <= k.cursor.seq + 1
    /\ \A i \in DOMAIN k.got : Given(k, i, logs[k.cursor.epoch].ever)
FollowInv == \A c \in Consumers : FollowsLog(consumers[c], log)

\* A log that grew has what it had, where it had it.
LEMMA LogGrows ==
    ASSUME ShapeInv, NEW h, NEW changes \in Seq(Change), LogMoves(h, changes)
    PROVE  \A e \in DOMAIN log :
              /\ e \in DOMAIN log' /\ Len(log[e].ever) <= Len(log'[e].ever)
              /\ \A i \in 1..Len(log[e].ever) : i \in 1..Len(log'[e].ever)
                                              /\ log'[e].ever[i] = log[e].ever[i]
<1>1. log \in Seq(Log) /\ log' \in Seq(Log) /\ Len(log) <= Len(log')
  BY DEF ShapeInv, TypeOK, LogMoves
<1>2. DOMAIN log = 1..Len(log) /\ DOMAIN log' = 1..Len(log') /\ Len(log) \in Nat /\ Len(log') \in Nat
  BY <1>1
<1>3. \A e \in DOMAIN log : e \in DOMAIN log' /\ log[e].ever \in Seq(Change)
  <2>1. \A e \in DOMAIN log : e \in DOMAIN log' /\ log[e] \in Log
    BY <1>1, <1>2
  <2> QED BY <2>1 DEF Log
<1>4. \A s \in Seq(Change) :
         /\ Len(s) <= Len(s \o changes) /\ Len(s) <= Len(s)
         /\ \A i \in 1..Len(s) : i \in 1..Len(s \o changes) /\ (s \o changes)[i] = s[i]
  OBVIOUS
<1>5. \A e \in DOMAIN log : log'[e].ever = log[e].ever \o changes \/ log'[e].ever = log[e].ever
  BY DEF LogMoves
<1> QED BY <1>3, <1>4, <1>5

\* What a consumer was delivered stands while histories grow.
LEMMA FollowGrows ==
    ASSUME ShapeInv, FollowInv, NEW h, NEW changes \in Seq(Change), LogMoves(h, changes),
           UNCHANGED consumers
    PROVE  FollowInv'
<1> SUFFICES ASSUME NEW c \in Consumers PROVE FollowsLog(consumers[c], log')
  BY DEF FollowInv
<1> DEFINE k == consumers[c]
<1>1. FollowsLog(k, log)
  BY DEF FollowInv
<1> HIDE DEF k
<1>2. \A e \in DOMAIN log :
              /\ e \in DOMAIN log' /\ Len(log[e].ever) <= Len(log'[e].ever)
              /\ \A i \in 1..Len(log[e].ever) : i \in 1..Len(log'[e].ever)
                                              /\ log'[e].ever[i] = log[e].ever[i]
  BY LogGrows
<1>3. ASSUME NEW i \in DOMAIN k.got PROVE Given(k, i, log'[k.cursor.epoch].ever)
  <2>1. k.got # <<>>
    BY <1>3
  <2>2. k.cursor.epoch \in DOMAIN log /\ Given(k, i, log[k.cursor.epoch].ever)
    BY <1>1, <1>3, <2>1 DEF FollowsLog
  <2>3. k.got[i].seq \in 1..Len(log[k.cursor.epoch].ever)
    BY <2>2 DEF Given
  <2> QED BY <1>2, <2>2, <2>3 DEF Given
<1>4. FollowsLog(k, log')
  BY <1>1, <1>2, <1>3 DEF FollowsLog
<1> QED BY <1>4 DEF k

\* Every step of a transaction is a step of the logs.
LEMMA TxMovesLog ==
    ASSUME ShapeInv, NEW t \in Txs, Runs(t)
    PROVE  /\ UNCHANGED consumers
           /\ \E h, changes : changes \in Seq(Change) /\ LogMoves(h, changes)
<1>1. <<>> \in Seq(Change) /\ txs[t].cap.ops \in Seq(Change)
  BY TxFields
<1>2. CASE log' = log /\ UNCHANGED consumers
  BY <1>1, <1>2, LogStill
<1>3. CASE StartNew(t)
  <2>1. LogMoves(0, <<>>) /\ UNCHANGED consumers
    BY <1>3, StartNewEffect, LogMinted
  <2> QED BY <1>1, <2>1
<1>4. CASE Configured(t)
  <2>1. LogMoves(0, <<>>) /\ UNCHANGED consumers
    BY <1>4, ConfiguredEffect
  <2> QED BY <1>1, <2>1
<1>5. CASE Drain(t)
  <2>1. LogMoves(txs[t].cap.handle, txs[t].cap.ops) /\ UNCHANGED consumers
    BY <1>5, DrainEffect
  <2> QED BY <1>1, <2>1
<1>6. CASE Swap(t)
  <2>1. LogMoves(txs[t].cap.handle, txs[t].cap.ops) /\ UNCHANGED consumers
    BY <1>6, SwapEffect
  <2> QED BY <1>1, <2>1
<1>7. Begin(t) \/ Write(t) \/ WriteFails(t) \/ StartEnable(t) \/ StartDisable(t)
      \/ ConfigureFails(t) \/ Rollback(t) \/ Admit(t) \/ Flush(t) \/ FlushFails(t)
      => log' = log /\ UNCHANGED consumers
  BY DEF Begin, Write, WriteFails, StartEnable, StartDisable, ConfigureFails, Rollback, Admit,
         Flush, FlushFails
<1> QED BY <1>2, <1>3, <1>4, <1>5, <1>6, <1>7 DEF Runs

\* Rows handed over continue the ones before them.
LEMMA FollowRead ==
    ASSUME ShapeInv, FollowInv, NEW c \in Consumers, Read(c)
    PROVE  FollowsLog(consumers'[c], log)
<1> DEFINE o == consumers[c]  k == consumers'[c]
<1>1. PICK rows :
        /\ Rows(rows, log[o.handle], o.cursor.seq)
        /\ k.got = o.got \o [i \in DOMAIN rows |->
                          [seq |-> rows[i].seq, change |-> rows[i].change, floor |-> o.floor]]
        /\ k.cursor.seq = IF rows = <<>> THEN o.cursor.seq ELSE Last(rows).seq
  BY ReadEffect
<1>2. /\ k.state = "idle" /\ k.handle = o.handle /\ k.cursor.epoch = o.cursor.epoch
      /\ k.start = o.start /\ o.state = "checked"
  BY ReadEffect
<1>3. /\ FollowsLog(o, log) /\ o.cursor.epoch = o.handle /\ o.floor <= o.cursor.seq + 1
      /\ o.cursor.seq = At(o) /\ \A i \in DOMAIN o.got : Given(o, i, log[o.handle].ever)
      /\ o.handle \in DOMAIN log
  <2>1. FollowsLog(o, log)
    BY DEF FollowInv
  <2>2. o.handle \in DOMAIN log
    BY <1>2, ReaderFields DEF ShapeInv, KnownOK
  <2> QED BY <1>2, <2>1, <2>2 DEF FollowsLog
<1>4. o.got \in Seq(Delivery) /\ rows \in Seq(Event) /\ o.start \in Nat /\ o.cursor.seq \in Nat
  BY <1>1, ReaderFields DEF Rows
<1> DEFINE ever == log[o.handle].ever
           n == Len(o.got)
           m == Len(rows)
<1>5. n \in Nat /\ m \in Nat /\ DOMAIN o.got = 1..n /\ DOMAIN rows = 1..m
  BY <1>4
<1> DEFINE more == [i \in DOMAIN rows |->
                          [seq |-> rows[i].seq, change |-> rows[i].change, floor |-> o.floor]]
<1>6. Len(more) = m /\ more \in Seq(Delivery)
  <2>1. \A i \in 1..m : rows[i] \in Event
    BY <1>4
  <2>2. o.floor \in Nat
    BY ReaderFields
  <2>3. \A i \in 1..m :
          [seq |-> rows[i].seq, change |-> rows[i].change, floor |-> o.floor] \in Delivery
    BY <2>1, <2>2 DEF Event, Delivery
  <2> QED BY <2>3, <1>5
<1>7. \A i \in 1..m : more[i].seq = rows[i].seq /\ more[i].change = rows[i].change
                     /\ more[i].floor = o.floor
  BY <1>5
<1>8. /\ Len(k.got) = n + m /\ DOMAIN k.got = 1..(n + m)
      /\ \A i \in 1..n : k.got[i] = o.got[i]
      /\ \A i \in 1..m : k.got[n + i] = more[i]
      /\ n + m = 0 <=> k.got = <<>>
  <2>1. \A x, y \in Seq(Delivery) :
          /\ Len(x \o y) = Len(x) + Len(y) /\ DOMAIN (x \o y) = 1..(Len(x) + Len(y))
          /\ \A i \in 1..Len(x) : (x \o y)[i] = x[i]
          /\ \A i \in 1..Len(y) : (x \o y)[Len(x) + i] = y[i]
          /\ Len(x) + Len(y) = 0 <=> x \o y = <<>>
    OBVIOUS
  <2>2. k.got = o.got \o more
    BY <1>1
  <2> DEFINE x == o.got  y == more
  <2> HIDE DEF more
  <2>3. x \in Seq(Delivery) /\ y \in Seq(Delivery) /\ Len(x) = n /\ Len(y) = m
    BY <1>4, <1>6
  <2> HIDE DEF x, y, n, m, k
  <2>4. /\ Len(x \o y) = Len(x) + Len(y) /\ DOMAIN (x \o y) = 1..(Len(x) + Len(y))
        /\ \A i \in 1..Len(x) : (x \o y)[i] = x[i]
        /\ \A i \in 1..Len(y) : (x \o y)[Len(x) + i] = y[i]
        /\ Len(x) + Len(y) = 0 <=> x \o y = <<>>
    BY <2>1, <2>3
  <2>5. k.got = x \o y
    BY <2>2 DEF x, y
  <2> QED BY <2>3, <2>4, <2>5 DEF x, y
<1>9. /\ (n = 0 => At(o) = o.start) /\ (n # 0 => At(o) = o.got[n].seq)
  BY <1>4, <1>5 DEF At
<1>10. \A i \in 1..m :
          /\ rows[i].seq \in 1..Len(ever) /\ rows[i].change = ever[rows[i].seq]
          /\ rows[i].seq > o.cursor.seq
          /\ i > 1 => rows[i].seq = rows[i - 1].seq + 1
  BY <1>1 DEF Rows
<1> HIDE DEF o, k, more, ever, n, m
<1>11. ASSUME NEW j \in DOMAIN k.got PROVE Given(k, j, ever)
  <2>1. CASE j \in 1..n
    <3>1. Given(o, j, ever) /\ k.got[j] = o.got[j]
      BY <1>3, <1>5, <1>8, <2>1 DEF ever
    <3>2. j # 1 => j - 1 \in 1..n
      BY <1>5, <2>1
    <3>3. j # 1 => k.got[j - 1] = o.got[j - 1]
      BY <1>8, <3>2
    <3> QED BY <1>2, <3>1, <3>3 DEF Given
  <2>2. CASE j \notin 1..n
    <3>0. j - n \in 1..m /\ j = n + (j - n)
      BY <1>5, <1>8, <1>11, <2>2
    <3>1. PICK i \in 1..m : j = n + i
      BY <3>0
    <3>2. k.got[j].seq = rows[i].seq /\ k.got[j].change = rows[i].change /\ k.got[j].floor = o.floor
      BY <1>7, <1>8, <3>1
    <3>3. CASE i = 1
      <4>1. (IF j = 1 THEN k.start ELSE k.got[j - 1].seq) = o.cursor.seq
        <5>1. CASE n = 0
          BY <5>1, <3>1, <3>3, <1>2, <1>3, <1>9
        <5>2. CASE n # 0
          <6>1. j - 1 = n /\ j # 1 /\ n \in 1..n
            BY <1>5, <5>2, <3>1, <3>3
          <6> QED BY <6>1, <5>2, <1>3, <1>8, <1>9
        <5> QED BY <5>1, <5>2
      <4> QED BY <1>3, <1>10, <3>1, <3>2, <4>1 DEF Given
    <3>4. CASE i # 1
      <4>1. i > 1 /\ i - 1 \in 1..m /\ j - 1 = n + (i - 1) /\ j # 1
        BY <1>5, <3>1, <3>4
      <4>2. k.got[j - 1].seq = rows[i - 1].seq
        BY <1>7, <1>8, <4>1
      <4>3. rows[i].seq = rows[i - 1].seq + 1 /\ rows[i].seq \in 1..Len(ever)
            /\ rows[i - 1].seq \in 1..Len(ever) /\ rows[i].change = ever[rows[i].seq]
        BY <1>10, <3>1, <4>1
      <4>4. rows[i].seq > rows[i - 1].seq /\ ~(rows[i].seq > rows[i - 1].seq + 1)
        BY <4>3
      <4> QED BY <3>2, <4>1, <4>2, <4>3, <4>4 DEF Given
    <3> QED BY <3>3, <3>4
  <2> QED BY <2>1, <2>2
<1>12. k.cursor.seq = At(k)
  <2>1. CASE m = 0
    <3>1. rows = <<>> /\ k.cursor.seq = o.cursor.seq
      BY <1>1, <1>4, <2>1 DEF m, k, o
    <3>2. CASE n = 0
      BY <3>1, <3>2, <2>1, <1>2, <1>3, <1>8, <1>9 DEF At
    <3>3. CASE n # 0
      <4>1. k.got # <<>> /\ Len(k.got) = n /\ k.got[n] = o.got[n]
        BY <3>3, <2>1, <1>5, <1>8
      <4> QED BY <3>1, <3>3, <4>1, <1>3, <1>9 DEF At
    <3> QED BY <3>2, <3>3
  <2>2. CASE m # 0
    <3>1. rows # <<>> /\ Last(rows) = rows[m]
      BY <1>4, <2>2 DEF m, Last
    <3>2. k.cursor.seq = rows[m].seq
      BY <1>1, <3>1 DEF k, o
    <3>3. m \in 1..m /\ n + m # 0
      BY <1>5, <2>2
    <3>4. k.got # <<>> /\ k.got[Len(k.got)].seq = rows[m].seq
      BY <1>7, <1>8, <3>3
    <3> QED BY <3>2, <3>4 DEF At
  <2> QED BY <2>1, <2>2
<1>13. FollowsLog(k, log)
  BY <1>2, <1>3, <1>11, <1>12 DEF FollowsLog, ever
<1> QED BY <1>13 DEF k

\* A step of a consumer keeps what it was delivered in step with its epoch.
LEMMA FollowPolls ==
    ASSUME ShapeInv, FollowInv, NEW c \in Consumers, Polls(c)
    PROVE  FollowInv'
<1>1. OnlyReader(c)
  BY ShapePolls
<1>2. FollowsLog(consumers[c], log)
  BY DEF FollowInv
<1>3. FollowsLog(consumers'[c], log) => FollowInv'
  BY <1>1 DEF FollowInv, OnlyReader
<1>4. CASE Look(c)
  <2>1. FollowsLog(consumers'[c], log)
    BY <1>2, <1>4, LookEffect DEF FollowsLog, Given, At
  <2> QED BY <1>3, <2>1
<1>5. CASE TakeCursor(c)
  <2>1. FollowsLog(consumers'[c], log)
    BY <1>5, TakeCursorEffect DEF FollowsLog, Given, At
  <2> QED BY <1>3, <2>1
<1>6. CASE Check(c)
  <2>1. FollowsLog(consumers'[c], log)
    BY <1>2, <1>6, CheckEffect, ZenonT(30) DEF FollowsLog, Given, At
  <2> QED BY <1>3, <2>1
<1>7. CASE Read(c)
  BY <1>3, <1>7, FollowRead
<1> QED BY <1>4, <1>5, <1>6, <1>7 DEF Polls

\* Nothing is delivered at the start.
LEMMA FollowInit == Init => FollowInv
<1> SUFFICES ASSUME Init, NEW c \in Consumers PROVE FollowsLog(consumers[c], log)
  BY DEF FollowInv
<1>1. /\ consumers[c].state = "idle" /\ consumers[c].cursor.seq = 0 /\ consumers[c].start = 0
      /\ consumers[c].got = <<>>
  BY DEF Init
<1> QED BY <1>1 DEF FollowsLog, At

\* Every step keeps the deliveries in step with the history.
LEMMA FollowStable == ShapeInv /\ FollowInv /\ [Next]_vars => FollowInv'
<1> SUFFICES ASSUME ShapeInv, FollowInv, [Next]_vars PROVE FollowInv'
  OBVIOUS
<1>1. CASE UNCHANGED vars
  BY <1>1 DEF vars, FollowInv
<1>2. ASSUME NEW t \in Txs, Runs(t) PROVE FollowInv'
  BY <1>2, TxMovesLog, FollowGrows
<1>3. ASSUME NEW c \in Consumers, Polls(c) PROVE FollowInv'
  BY <1>3, FollowPolls
<1> QED BY <1>1, <1>2, <1>3 DEF Next

\* A consumer that follows its cursor is given what was published, each change
\* once and in order, and a query skips only what was still retained when it
\* accepted the cursor (decode_cursor under one lock, read under another).
THEOREM CursorsFollow == Spec => []SkippedWhileReading
<1>1. Spec => [](ShapeInv /\ FollowInv)
  BY ShapeInit, ShapeStable, FollowInit, FollowStable, PTL DEF Spec
<1>2. FollowInv => SkippedWhileReading
  BY DEF FollowInv, FollowsLog, Given, SkippedWhileReading
<1> QED BY <1>1, <1>2, PTL

-----------------------------------------------------------------------------
(***************************************************************************)
(* What the stream is given is what commits.                               *)
(***************************************************************************)
AtGate == {"committing", "drained", "logged"}
GateOK(t) == txs[t].state \in AtGate <=> gate = t

\* A graph that holds a log has the wrapper that records.
Recorded(cap) == cap.handle # 0 => cap.recording = TRUE
\* The buffer holds writes of the transaction, and all of them when it still
\* has the log it began with.
Buffers(cap, r) ==
    /\ Recorded(cap)
    /\ ToSet(cap.ops) \subseteq ToSet(r.writes)
    /\ r.from # 0 /\ cap.handle = r.from => ToSet(r.writes) \subseteq ToSet(cap.ops)
WritesOK(r, t, logs) ==
    /\ \A change \in ToSet(r.writes) : change[1] = t
    /\ r.state \in {"idle", "dropped"} => r.writes = <<>>
    /\ r.state \in {"open", "configuring", "committing", "logged"} => Buffers(r.cap, r)
    /\ r.state = "configuring" => Buffers(r.saved, r)
    /\ r.state = "drained" => r.cap.ops = <<>> /\ Recorded(r.cap)
    /\ r.state \in {"drained", "committed"} /\ r.from # 0 /\ r.cap.handle = r.from =>
          ToSet(r.writes) \subseteq ToSet(logs[r.from].ever)
WriteInv ==
    /\ Recorded(main.cap)
    /\ \A t \in Txs : GateOK(t) /\ WritesOK(txs[t], t, log)

\* A change is in the graph, or its commit is about to put it there.
Told(change) ==
    \/ change \in ToSet(main.history)
    \/ txs[change[1]].state = "drained" /\ change \in ToSet(txs[change[1]].writes)
ToldInv == \A e \in DOMAIN log : \A change \in ToSet(log[e].ever) : Told(change)

\* The elements of a concatenation.
LEMMA SetOfSeq ==
    ASSUME NEW S, NEW s \in Seq(S)
    PROVE  /\ \A r \in Seq(S) : ToSet(s \o r) = ToSet(s) \cup ToSet(r)
           /\ \A x \in S : ToSet(Append(s, x)) = ToSet(s) \cup {x}
           /\ ToSet(s) \subseteq S
           /\ ToSet(<<>>) = {}
<1>1. ASSUME NEW r \in Seq(S) PROVE ToSet(s \o r) = ToSet(s) \cup ToSet(r)
  <2>1. /\ Len(s) \in Nat /\ Len(r) \in Nat /\ DOMAIN (s \o r) = 1..(Len(s) + Len(r))
        /\ \A i \in 1..Len(s) : (s \o r)[i] = s[i] /\ i \in 1..(Len(s) + Len(r))
        /\ \A i \in 1..Len(r) : (s \o r)[Len(s) + i] = r[i] /\ Len(s) + i \in 1..(Len(s) + Len(r))
        /\ \A i \in 1..(Len(s) + Len(r)) : i \in 1..Len(s) \/ i - Len(s) \in 1..Len(r)
        /\ \A i \in 1..(Len(s) + Len(r)) : Len(s) + (i - Len(s)) = i
    OBVIOUS
  <2>2. ASSUME NEW i \in 1..(Len(s) + Len(r)) PROVE (s \o r)[i] \in ToSet(s) \cup ToSet(r)
    BY <2>1, <2>2 DEF ToSet
  <2>3. \A i \in 1..Len(s) : s[i] \in ToSet(s \o r)
    BY <2>1 DEF ToSet
  <2>4. \A i \in 1..Len(r) : r[i] \in ToSet(s \o r)
    BY <2>1 DEF ToSet
  <2>5. ToSet(s \o r) \subseteq ToSet(s) \cup ToSet(r)
    <3>1. ToSet(s \o r) = {(s \o r)[i] : i \in 1..(Len(s) + Len(r))}
      BY <2>1 DEF ToSet
    <3> QED BY <2>2, <3>1
  <2>6. ToSet(s) = {s[i] : i \in 1..Len(s)} /\ ToSet(r) = {r[i] : i \in 1..Len(r)}
    <3>1. DOMAIN s = 1..Len(s) /\ DOMAIN r = 1..Len(r)
      OBVIOUS
    <3> QED BY <3>1 DEF ToSet
  <2> QED BY <2>3, <2>4, <2>5, <2>6
<1>2. ASSUME NEW x \in S PROVE ToSet(Append(s, x)) = ToSet(s) \cup {x}
  <2>1. /\ Len(s) \in Nat /\ DOMAIN Append(s, x) = 1..(Len(s) + 1)
        /\ \A i \in 1..Len(s) : Append(s, x)[i] = s[i] /\ i \in 1..(Len(s) + 1)
        /\ Append(s, x)[Len(s) + 1] = x /\ Len(s) + 1 \in 1..(Len(s) + 1)
        /\ \A i \in 1..(Len(s) + 1) : i \in 1..Len(s) \/ i = Len(s) + 1
    OBVIOUS
  <2> QED BY <2>1 DEF ToSet
<1>3. ToSet(s) \subseteq S /\ ToSet(<<>>) = {}
  BY DEF ToSet
<1> QED BY <1>1, <1>2, <1>3

\* No change leaves the history of its epoch.
LEMMA EverGrows ==
    ASSUME ShapeInv, NEW h, NEW changes \in Seq(Change), LogMoves(h, changes)
    PROVE  \A e \in DOMAIN log : ToSet(log[e].ever) \subseteq ToSet(log'[e].ever)
<1> SUFFICES ASSUME NEW e \in DOMAIN log PROVE ToSet(log[e].ever) \subseteq ToSet(log'[e].ever)
  OBVIOUS
<1>1. log[e].ever \in Seq(Change)
  BY DEF ShapeInv, RingsOK, RingOK, Log
<1>2. log'[e].ever = log[e].ever \o changes \/ log'[e].ever = log[e].ever
  BY DEF LogMoves
<1>3. ToSet(log[e].ever \o changes) = ToSet(log[e].ever) \cup ToSet(changes)
  BY <1>1, SetOfSeq
<1> QED BY <1>2, <1>3

\* A step of t leaves what the invariant says of the others.
LEMMA OthersWrites ==
    ASSUME ShapeInv, WriteInv, NEW t \in Txs, OnlyTx(t), NEW h, NEW changes \in Seq(Change),
           LogMoves(h, changes), Recorded(main'.cap), WritesOK(txs'[t], t, log'),
           \/ UNCHANGED gate /\ (txs[t].state \in AtGate <=> txs'[t].state \in AtGate)
           \/ gate = None /\ gate' = t /\ txs'[t].state \in AtGate
           \/ gate = t /\ gate' = None /\ txs'[t].state \notin AtGate
    PROVE  WriteInv'
<1>1. ASSUME NEW u \in Txs \ {t} PROVE WritesOK(txs'[u], u, log')
  <2>1. txs'[u] = txs[u] /\ WritesOK(txs[u], u, log)
    BY DEF OnlyTx, WriteInv
  <2>2. txs[u].from # 0 => txs[u].from \in DOMAIN log
    <3>1. txs[u].from \in 0..Len(log) /\ log \in Seq(Log)
      BY DEF ShapeInv, TypeOK, KnownOK, Known
    <3> QED BY <3>1
  <2>3. txs[u].from # 0 =>
           ToSet(log[txs[u].from].ever) \subseteq ToSet(log'[txs[u].from].ever)
    BY <2>2, EverGrows
  <2> QED BY <2>1, <2>3 DEF WritesOK
<1>2. \A u \in Txs : (txs[u].state \in AtGate) <=> (gate = u)
  BY DEF WriteInv, GateOK
<1>3. \A u \in Txs \ {t} : txs'[u] = txs[u]
  BY DEF OnlyTx
<1>4. None \notin Txs
  BY ChangeLogAssumption
<1>5. \A u \in Txs : (txs'[u].state \in AtGate) <=> (gate' = u)
  <2>1. CASE UNCHANGED gate /\ (txs[t].state \in AtGate <=> txs'[t].state \in AtGate)
    BY <1>2, <1>3, <2>1
  <2>2. CASE gate = None /\ gate' = t /\ txs'[t].state \in AtGate
    BY <1>2, <1>3, <1>4, <2>2
  <2>3. CASE gate = t /\ gate' = None /\ txs'[t].state \notin AtGate
    BY <1>2, <1>3, <1>4, <2>3
  <2> QED BY <2>1, <2>2, <2>3
<1> QED BY <1>1, <1>5 DEF WriteInv, GateOK

\* Every step of a transaction keeps WriteInv.
LEMMA WriteTx ==
    ASSUME ShapeInv, WriteInv, NEW t \in Txs, Runs(t)
    PROVE  WriteInv'
<1> DEFINE o == txs[t]  r == txs'[t]
<1>1. /\ WritesOK(o, t, log) /\ (o.state \in AtGate <=> gate = t) /\ Recorded(main.cap)
  BY DEF WriteInv, GateOK
<1>2. /\ o.writes \in Seq(Change) /\ o.cap.ops \in Seq(Change) /\ <<>> \in Seq(Change)
      /\ o.from \in 0..Len(log) /\ Len(log) \in Nat
  BY TxFields, TxIsKnown DEF TxKnown, ShapeInv, TypeOK
<1>3. ToSet(<<>>) = {}
  BY DEF ToSet
<1> HIDE DEF o, r
<1>4. CASE Begin(t)
  <2>1. /\ OnlyTx(t) /\ UNCHANGED <<log, main, gate>> /\ o.state = "idle" /\ r.state = "open"
        /\ r.from = main.cap.handle /\ Alike(r.cap, main.cap) /\ r.cap.ops = <<>>
        /\ r.writes = o.writes
    BY <1>4, BeginEffect DEF o, r
  <2>2. r.writes = <<>>
    BY <1>1, <2>1 DEF WritesOK
  <2>3. WritesOK(r, t, log)
    BY <1>1, <1>3, <2>1, <2>2 DEF WritesOK, Buffers, Recorded, Alike
  <2> QED BY <1>1, <1>2, <2>1, <2>3, LogStill, OthersWrites DEF o, r, AtGate
<1>5. CASE Write(t)
  <2>1. /\ OnlyTx(t) /\ UNCHANGED <<log, main, gate>> /\ o.state = "open" /\ r.state = "open"
        /\ r.from = o.from /\ Alike(r.cap, o.cap)
    BY <1>5, WriteEffect DEF o, r
  <2>2. PICK change \in Change :
          /\ change[1] = t /\ r.writes = Append(o.writes, change)
          /\ r.cap.ops = IF o.cap.recording THEN Append(o.cap.ops, change) ELSE o.cap.ops
    BY <1>5, WriteEffect DEF o, r
  <2>3. /\ ToSet(r.writes) = ToSet(o.writes) \cup {change}
        /\ ToSet(Append(o.cap.ops, change)) = ToSet(o.cap.ops) \cup {change}
    BY <1>2, <2>2, SetOfSeq
  <2>4. Buffers(o.cap, o) /\ \A old \in ToSet(o.writes) : old[1] = t
    BY <1>1, <2>1 DEF WritesOK
  <2>5. Buffers(r.cap, r)
    <3>1. CASE o.cap.recording = TRUE
      <4>1. ToSet(r.cap.ops) = ToSet(o.cap.ops) \cup {change}
        BY <2>2, <2>3, <3>1
      <4> QED BY <2>1, <2>3, <2>4, <4>1 DEF Buffers, Recorded, Alike
    <3>2. CASE o.cap.recording # TRUE
      <4>1. o.cap.handle = 0 /\ r.cap.handle = 0
        BY <2>1, <2>4, <3>2 DEF Buffers, Recorded, Alike
      <4>2. ToSet(r.cap.ops) \subseteq ToSet(o.cap.ops) \cup {change}
        BY <2>2, <2>3
      <4> QED BY <2>3, <2>4, <4>1, <4>2 DEF Buffers, Recorded
    <3> QED BY <3>1, <3>2
  <2>6. WritesOK(r, t, log)
    BY <2>1, <2>2, <2>3, <2>4, <2>5 DEF WritesOK
  <2> QED BY <1>1, <1>2, <2>1, <2>6, LogStill, OthersWrites DEF o, r, AtGate
<1>6. CASE WriteFails(t)
  <2>1. /\ OnlyTx(t) /\ UNCHANGED <<log, main, gate>> /\ o.state = "open" /\ r.state = "open"
        /\ Stays(r, o) /\ r.cap = o.cap
    BY <1>6, WriteFailsEffect DEF o, r
  <2>2. WritesOK(r, t, log)
    BY <1>1, <2>1 DEF WritesOK, Buffers, Stays
  <2> QED BY <1>1, <1>2, <2>1, <2>2, LogStill, OthersWrites DEF o, r, AtGate
<1>7. CASE StartEnable(t)
  <2>1. /\ OnlyTx(t) /\ UNCHANGED <<log, main, gate>> /\ o.state = "open"
        /\ r.state = "configuring" /\ Stays(r, o) /\ r.cap = o.cap /\ r.saved = o.cap
    BY <1>7, StartEnableEffect DEF o, r
  <2>2. WritesOK(r, t, log)
    BY <1>1, <2>1 DEF WritesOK, Buffers, Stays
  <2> QED BY <1>1, <1>2, <2>1, <2>2, LogStill, OthersWrites DEF o, r, AtGate
<1>8. CASE StartDisable(t)
  <2>1. /\ OnlyTx(t) /\ UNCHANGED <<log, main, gate>> /\ o.state = "open"
        /\ r.state = "configuring" /\ Stays(r, o) /\ r.saved = o.cap
        /\ r.cap.handle = 0 /\ r.cap.ops \in {o.cap.ops, <<>>}
    BY <1>8, StartDisableEffect DEF o, r
  <2>2. WritesOK(r, t, log)
    BY <1>1, <1>3, <2>1 DEF WritesOK, Buffers, Stays, Recorded
  <2> QED BY <1>1, <1>2, <2>1, <2>2, LogStill, OthersWrites DEF o, r, AtGate
<1>9. CASE StartNew(t)
  <2>1. /\ OnlyTx(t) /\ UNCHANGED <<main, gate>> /\ o.state = "open"
        /\ r.state = "configuring" /\ Stays(r, o) /\ r.saved = o.cap
        /\ r.cap.handle = Len(log) + 1 /\ r.cap.ops \in {o.cap.ops, <<>>}
        /\ r.cap.recording = TRUE
    BY <1>9, StartNewEffect DEF o, r
  <2>2. LogMoves(0, <<>>)
    BY <1>9, StartNewEffect, LogMinted
  <2>3. r.cap.handle # r.from
    BY <1>2, <2>1 DEF Stays
  <2>4. WritesOK(r, t, log')
    BY <1>1, <1>3, <2>1, <2>3 DEF WritesOK, Buffers, Stays, Recorded
  <2> QED BY <1>1, <1>2, <2>1, <2>2, <2>4, OthersWrites DEF o, r, AtGate
<1>10. CASE Configured(t)
  <2>1. /\ OnlyTx(t) /\ UNCHANGED <<main, gate>> /\ o.state = "configuring" /\ r.state = "open"
        /\ Stays(r, o) /\ r.cap = o.cap /\ LogMoves(0, <<>>)
    BY <1>10, ConfiguredEffect DEF o, r
  <2>2. WritesOK(r, t, log')
    BY <1>1, <2>1 DEF WritesOK, Buffers, Stays
  <2> QED BY <1>1, <1>2, <2>1, <2>2, OthersWrites DEF o, r, AtGate
<1>11. CASE ConfigureFails(t)
  <2>1. /\ OnlyTx(t) /\ UNCHANGED <<log, main, gate>> /\ o.state = "configuring"
        /\ r.state = "open" /\ Stays(r, o) /\ r.cap = o.saved
    BY <1>11, ConfigureFailsEffect DEF o, r
  <2>2. WritesOK(r, t, log)
    BY <1>1, <2>1 DEF WritesOK, Buffers, Stays
  <2> QED BY <1>1, <1>2, <2>1, <2>2, LogStill, OthersWrites DEF o, r, AtGate
<1>12. CASE Leaves(t)
  <2>1. /\ OnlyTx(t) /\ UNCHANGED <<log, main>> /\ r.state = "dropped" /\ r.writes = <<>>
        /\ \/ o.state = "open" /\ UNCHANGED gate
           \/ o.state = "committing" /\ gate' = None
    BY <1>12 DEF Leaves, Gone, o, r
  <2>2. WritesOK(r, t, log)
    BY <1>3, <2>1 DEF WritesOK
  <2> QED BY <1>1, <1>2, <2>1, <2>2, LogStill, OthersWrites DEF o, r, AtGate
<1>13. CASE Advances(t)
  <2>1. /\ OnlyTx(t) /\ UNCHANGED <<log, main>> /\ Stays(r, o) /\ r.cap = o.cap
        /\ \/ o.state = "open" /\ r.state = "committing" /\ gate = None /\ gate' = t
           \/ o.state = "committing" /\ r.state = "logged" /\ UNCHANGED gate
    BY <1>13 DEF Advances, o, r
  <2>2. WritesOK(r, t, log)
    BY <1>1, <2>1 DEF WritesOK, Buffers, Stays
  <2> QED BY <1>1, <1>2, <2>1, <2>2, LogStill, OthersWrites DEF o, r, AtGate
<1>14. CASE Drain(t)
  <2>1. /\ OnlyTx(t) /\ UNCHANGED <<main, gate>> /\ o.state = "committing" /\ r.state = "drained"
        /\ Stays(r, o) /\ Alike(r.cap, o.cap) /\ r.cap.ops = <<>>
        /\ LogMoves(o.cap.handle, o.cap.ops)
    BY <1>14, DrainEffect DEF o, r
  <2>2. Buffers(o.cap, o)
    BY <1>1, <2>1 DEF WritesOK
  <2>3. r.from # 0 /\ r.cap.handle = r.from => ToSet(o.writes) \subseteq ToSet(log'[r.from].ever)
    <3> SUFFICES ASSUME r.from # 0, r.cap.handle = r.from
                 PROVE  ToSet(o.writes) \subseteq ToSet(log'[r.from].ever)
      OBVIOUS
    <3>1. o.cap.handle = r.from /\ o.from = r.from
      BY <2>1 DEF Alike, Stays
    <3>2. r.from \in DOMAIN log /\ log[r.from].ever \in Seq(Change)
      <4>1. r.from \in DOMAIN log
        BY <3>1, TxFields DEF o
      <4> QED BY <4>1, TxFields DEF Log
    <3>3. log'[r.from].ever = log[r.from].ever \o o.cap.ops
      BY <2>1, <3>1, <3>2 DEF LogMoves
    <3> QED BY <1>2, <2>2, <3>1, <3>2, <3>3, SetOfSeq DEF Buffers
  <2>4. WritesOK(r, t, log')
    BY <1>1, <2>1, <2>2, <2>3 DEF WritesOK, Stays, Buffers, Recorded, Alike
  <2> QED BY <1>1, <1>2, <2>1, <2>4, OthersWrites DEF o, r, AtGate
<1>15. CASE Swap(t)
  <2>1. /\ OnlyTx(t) /\ gate' = None /\ o.state \in {"drained", "logged"} /\ r.state = "committed"
        /\ r.from = o.from /\ r.writes = o.writes /\ Alike(r.cap, o.cap)
        /\ Alike(main'.cap, o.cap) /\ LogMoves(o.cap.handle, o.cap.ops)
    BY <1>15, SwapEffect DEF o, r
  <2>2. Recorded(o.cap) /\ Recorded(main'.cap)
    BY <1>1, <2>1 DEF WritesOK, Buffers, Recorded, Alike
  <2>3. r.from # 0 /\ r.cap.handle = r.from => ToSet(o.writes) \subseteq ToSet(log'[r.from].ever)
    <3> SUFFICES ASSUME r.from # 0, r.cap.handle = r.from
                 PROVE  ToSet(o.writes) \subseteq ToSet(log'[r.from].ever)
      OBVIOUS
    <3>1. o.cap.handle = r.from /\ o.from = r.from
      BY <2>1 DEF Alike
    <3>2. r.from \in DOMAIN log /\ log[r.from].ever \in Seq(Change)
      <4>1. r.from \in DOMAIN log
        BY <3>1, TxFields DEF o
      <4> QED BY <4>1, TxFields DEF Log
    <3>3. log'[r.from].ever = log[r.from].ever \o o.cap.ops
      BY <2>1, <3>1, <3>2 DEF LogMoves
    <3>4. ToSet(log'[r.from].ever) = ToSet(log[r.from].ever) \cup ToSet(o.cap.ops)
      BY <1>2, <3>2, <3>3, SetOfSeq
    <3>5. CASE o.state = "drained"
      BY <1>1, <3>1, <3>4, <3>5 DEF WritesOK
    <3>6. CASE o.state = "logged"
      BY <1>1, <3>1, <3>4, <3>6 DEF WritesOK, Buffers
    <3> QED BY <2>1, <3>5, <3>6
  <2>4. WritesOK(r, t, log')
    BY <1>1, <2>1, <2>3 DEF WritesOK
  <2>5. gate = t
    BY <1>1, <2>1 DEF AtGate
  <2> QED BY <1>1, <1>2, <2>1, <2>2, <2>4, <2>5, OthersWrites DEF o, r, AtGate
<1>16. Rollback(t) \/ FlushFails(t) => Leaves(t)
  BY LeaveEffect
<1>17. Admit(t) => Leaves(t) \/ Advances(t)
  BY AdmitEffect
<1>18. Flush(t) => Advances(t)
  BY FlushEffect
<1> QED BY <1>4, <1>5, <1>6, <1>7, <1>8, <1>9, <1>10, <1>11, <1>12, <1>13, <1>14, <1>15,
           <1>16, <1>17, <1>18 DEF Runs

\* Nothing is written at the start.
LEMMA WriteInit == Init => WriteInv
<1> SUFFICES ASSUME Init PROVE WriteInv
  OBVIOUS
<1>1. Bare(durable).handle = 0 /\ main.cap = Bare(durable) /\ gate = None /\ None \notin Txs
  BY ChangeLogAssumption DEF Init, Bare
<1>2. \A t \in Txs : txs[t].state = "idle" /\ txs[t].writes = <<>>
  BY DEF Init
<1>3. ToSet(<<>>) = {}
  BY DEF ToSet
<1>4. Recorded(main.cap)
  BY <1>1 DEF Recorded
<1>5. \A t \in Txs : WritesOK(txs[t], t, log)
  BY <1>2, <1>3 DEF WritesOK
<1>6. \A t \in Txs : GateOK(t)
  BY <1>1, <1>2 DEF GateOK, AtGate
<1> QED BY <1>4, <1>5, <1>6 DEF WriteInv

\* Every step keeps WriteInv.
LEMMA WriteStable == ShapeInv /\ WriteInv /\ [Next]_vars => WriteInv'
<1> SUFFICES ASSUME ShapeInv, WriteInv, [Next]_vars PROVE WriteInv'
  OBVIOUS
<1>1. CASE UNCHANGED vars
  BY <1>1 DEF vars, WriteInv, GateOK
<1>2. ASSUME NEW t \in Txs, Runs(t) PROVE WriteInv'
  BY <1>2, WriteTx
<1>3. ASSUME NEW c \in Consumers, Polls(c) PROVE WriteInv'
  BY <1>3, ShapePolls DEF OnlyReader, WriteInv, GateOK
<1> QED BY <1>1, <1>2, <1>3 DEF Next

\* A log is given only what is told, and what was told stays so.
LEMMA ToldStep ==
    ASSUME ShapeInv, ToldInv, NEW h, NEW changes \in Seq(Change), LogMoves(h, changes),
           \A change \in ToSet(changes) : Told(change)',
           \A change \in Change : Told(change) => Told(change)'
    PROVE  ToldInv'
<1> SUFFICES ASSUME NEW e \in DOMAIN log', NEW change \in ToSet(log'[e].ever)
             PROVE  Told(change)'
  BY DEF ToldInv
<1>1. CASE e \in DOMAIN log
  <2>1. log[e].ever \in Seq(Change)
    BY <1>1 DEF ShapeInv, RingsOK, RingOK, Log
  <2>2. ToSet(log[e].ever \o changes) = ToSet(log[e].ever) \cup ToSet(changes)
        /\ ToSet(log[e].ever) \subseteq Change
    BY <2>1, SetOfSeq
  <2>3. log'[e].ever = log[e].ever \o changes \/ log'[e].ever = log[e].ever
    BY <1>1 DEF LogMoves
  <2>4. change \in ToSet(log[e].ever) \/ change \in ToSet(changes)
    BY <2>2, <2>3
  <2>5. change \in ToSet(log[e].ever) => Told(change) /\ change \in Change
    BY <1>1, <2>2 DEF ToldInv
  <2> QED BY <2>4, <2>5
<1>2. CASE e \notin DOMAIN log
  <2>1. log'[e].ever = <<>>
    BY <1>2 DEF LogMoves
  <2> QED BY <2>1 DEF ToSet
<1> QED BY <1>1, <1>2

\* What was told stays told, unless its transaction was drained and is no longer.
LEMMA ToldStays ==
    ASSUME ShapeInv, NEW t \in Txs, OnlyTx(t), UNCHANGED main, txs[t].state # "drained",
           NEW change \in Change, Told(change)
    PROVE  Told(change)'
<1>1. change[1] \in Txs
  BY DEF Change
<1>2. CASE change \in ToSet(main.history)
  BY <1>2 DEF Told
<1>3. CASE change \notin ToSet(main.history)
  <2>1. change[1] # t /\ txs'[change[1]] = txs[change[1]]
    BY <1>1, <1>3 DEF Told, OnlyTx
  <2> QED BY <1>3, <2>1 DEF Told
<1> QED BY <1>2, <1>3

\* Every step of a transaction keeps ToldInv.
LEMMA ToldTx ==
    ASSUME ShapeInv, WriteInv, ToldInv, NEW t \in Txs, Runs(t)
    PROVE  ToldInv'
<1>0. WritesOK(txs[t], t, log) /\ <<>> \in Seq(Change) /\ ToSet(<<>>) = {}
  BY DEF WriteInv, ToSet
<1>1. CASE Drain(t)
  <2>1. /\ OnlyTx(t) /\ UNCHANGED main /\ txs[t].state = "committing"
        /\ txs'[t].state = "drained" /\ txs'[t].writes = txs[t].writes
        /\ LogMoves(txs[t].cap.handle, txs[t].cap.ops)
    BY <1>1, DrainEffect DEF Stays
  <2>2. \A change \in ToSet(txs[t].cap.ops) : change \in ToSet(txs[t].writes) /\ change[1] = t
    BY <1>0, <2>1 DEF WritesOK, Buffers
  <2>3. \A change \in ToSet(txs[t].cap.ops) : Told(change)'
    BY <2>1, <2>2 DEF Told
  <2>4. \A change \in Change : Told(change) => Told(change)'
    BY <2>1, ToldStays
  <2>5. txs[t].cap.ops \in Seq(Change)
    BY TxFields
  <2> QED BY <2>1, <2>3, <2>4, <2>5, ToldStep
<1>2. CASE Swap(t)
  <2>1. /\ OnlyTx(t) /\ txs[t].state \in {"drained", "logged"}
        /\ main'.history = main.history \o txs[t].writes
        /\ LogMoves(txs[t].cap.handle, txs[t].cap.ops)
    BY <1>2, SwapEffect
  <2>2. /\ txs[t].cap.ops \in Seq(Change) /\ main.history \in Seq(Change)
        /\ txs[t].writes \in Seq(Change)
    BY TxFields
  <2>3. ToSet(main'.history) = ToSet(main.history) \cup ToSet(txs[t].writes)
    BY <2>1, <2>2, SetOfSeq
  <2>4. ToSet(txs[t].cap.ops) \subseteq ToSet(txs[t].writes)
    BY <1>0, <2>1 DEF WritesOK, Buffers
  <2>5. \A change \in ToSet(txs[t].cap.ops) : Told(change)'
    BY <2>3, <2>4 DEF Told
  <2>6. ASSUME NEW change \in Change, Told(change) PROVE Told(change)'
    <3>1. change[1] \in Txs
      BY DEF Change
    <3>2. CASE change \in ToSet(main.history)
      BY <3>2, <2>3 DEF Told
    <3>3. CASE change \notin ToSet(main.history) /\ change[1] = t
      BY <2>3, <2>6, <3>3 DEF Told
    <3>4. CASE change \notin ToSet(main.history) /\ change[1] # t
      <4>1. txs'[change[1]] = txs[change[1]]
        BY <2>1, <3>1, <3>4 DEF OnlyTx
      <4> QED BY <2>6, <3>4, <4>1 DEF Told
    <3> QED BY <3>2, <3>3, <3>4
  <2> QED BY <2>1, <2>2, <2>5, <2>6, ToldStep
<1> DEFINE Quiet == OnlyTx(t) /\ UNCHANGED main /\ LogMoves(0, <<>>) /\ txs[t].state # "drained"
<1>3. ASSUME Quiet PROVE ToldInv'
  <2>1. \A change \in Change : Told(change) => Told(change)'
    BY <1>3, ToldStays
  <2> QED BY <1>0, <1>3, <2>1, ToldStep
<1>4. Begin(t) => Quiet
  BY BeginEffect, LogStill
<1>5. Write(t) => Quiet
  BY WriteEffect, LogStill
<1>6. WriteFails(t) => Quiet
  BY WriteFailsEffect, LogStill
<1>7. StartEnable(t) => Quiet
  BY StartEnableEffect, LogStill
<1>8. StartDisable(t) => Quiet
  BY StartDisableEffect, LogStill
<1>9. StartNew(t) => Quiet
  BY StartNewEffect, LogMinted
<1>10. Configured(t) => Quiet
  BY ConfiguredEffect
<1>11. ConfigureFails(t) => Quiet
  BY ConfigureFailsEffect, LogStill
<1>12. Leaves(t) => Quiet
  BY LogStill DEF Leaves
<1>13. Advances(t) => Quiet
  BY LogStill DEF Advances
<1>14. Rollback(t) \/ FlushFails(t) => Leaves(t)
  BY LeaveEffect
<1>15. Admit(t) => Leaves(t) \/ Advances(t)
  BY AdmitEffect
<1>16. Flush(t) => Advances(t)
  BY FlushEffect
<1> HIDE DEF Quiet
<1> QED BY <1>1, <1>2, <1>3, <1>4, <1>5, <1>6, <1>7, <1>8, <1>9, <1>10, <1>11, <1>12, <1>13,
           <1>14, <1>15, <1>16 DEF Runs

\* Every step keeps ToldInv.
LEMMA ToldStable == ShapeInv /\ WriteInv /\ ToldInv /\ [Next]_vars => ToldInv'
<1> SUFFICES ASSUME ShapeInv, WriteInv, ToldInv, [Next]_vars PROVE ToldInv'
  OBVIOUS
<1>1. CASE UNCHANGED vars
  BY <1>1 DEF vars, ToldInv, Told
<1>2. ASSUME NEW t \in Txs, Runs(t) PROVE ToldInv'
  BY <1>2, ToldTx
<1>3. ASSUME NEW c \in Consumers, Polls(c) PROVE ToldInv'
  BY <1>3, ShapePolls DEF OnlyReader, ToldInv, Told
<1> QED BY <1>1, <1>2, <1>3 DEF Next

\* The invariants behind the two theorems about the stream.
LEMMA StreamInvariant == Spec => [](ShapeInv /\ WriteInv /\ ToldInv)
<1>1. Init => ToldInv
  BY DEF Init, ToldInv
<1> QED BY <1>1, ShapeInit, ShapeStable, WriteInit, WriteStable, ToldStable, PTL DEF Spec

\* Nothing appears in the stream that was not committed: not a change of a failed
\* statement, of a rolled-back or refused transaction, or of a commit whose log
\* failed (publish_drained, truncate_ops, CdcCheckpoint::restore).
THEOREM StreamTellsNoLies == Spec => []NoPhantom
<1>1. ShapeInv /\ ToldInv => NoPhantom
  <2> SUFFICES ASSUME ShapeInv, ToldInv, NEW e \in DOMAIN log, NEW i \in DOMAIN log[e].ever
               PROVE  Told(log[e].ever[i])
    BY DEF NoPhantom, Told
  <2>1. log[e].ever[i] \in ToSet(log[e].ever)
    BY DEF ToSet
  <2> QED BY <2>1 DEF ToldInv
<1> QED BY <1>1, StreamInvariant, PTL

\* Nothing is missing either: a transaction that began with a log and ended with
\* it has every write in it.
THEOREM StreamTellsAll == Spec => []NothingMissing
<1>1. WriteInv => NothingMissing
  BY DEF WriteInv, WritesOK, NothingMissing
<1> QED BY <1>1, StreamInvariant, PTL

-----------------------------------------------------------------------------
(***************************************************************************)
(* The position handed over when an epoch ends.                            *)
(***************************************************************************)
Alive == {"open", "configuring", "committing", "drained", "logged"}

\* The recorded position of an epoch that is no longer cap's is that epoch's last.
Ended(cap, logs) ==
    cap.handoff.epoch # 0 /\ cap.handle # cap.handoff.epoch =>
        cap.handoff.last = Len(logs[cap.handoff.epoch].ever)
\* A log the transaction did not begin with is not the one the graph m handed over.
Mine(cap, r, m) ==
    cap.handle # 0 /\ cap.handle # r.from => cap.handle # m.cap.handoff.epoch
BaseOK(r, m) ==
    r.state \in Alive =>
        /\ r.base <= m.version
        /\ r.base = m.version =>
              /\ r.from = m.cap.handle
              /\ Mine(r.cap, r, m) /\ (r.state = "configuring" => Mine(r.saved, r, m))
        /\ r.state \in AtGate => r.base = m.version
EndsOK(r, logs) ==
    Ended(r.cap, logs) /\ (r.state = "configuring" => Ended(r.saved, logs))
\* Once another one has drained, a transaction's base is as good as gone.
Overtaken(t) == \E u \in Txs \ {t} : txs[u].state = "drained"
HandInv ==
    /\ Ended(main.cap, log)
    /\ \A t \in Txs :
          /\ BaseOK(txs[t], main)
          /\ txs[t].state \in Alive /\ txs[t].base = main.version /\ ~Overtaken(t) =>
                EndsOK(txs[t], log)

\* A log that was given nothing ends where it ended.
LEMMA EndedStays ==
    ASSUME ShapeInv, NEW h, NEW changes, LogMoves(h, changes), NEW cap,
           cap.handoff.epoch \in Known, Ended(cap, log),
           h # cap.handoff.epoch \/ h = cap.handle \/ h = 0
    PROVE  Ended(cap, log')
<1> SUFFICES ASSUME cap.handoff.epoch # 0, cap.handle # cap.handoff.epoch
             PROVE  cap.handoff.last = Len(log'[cap.handoff.epoch].ever)
  BY DEF Ended
<1>1. cap.handoff.epoch \in DOMAIN log
  BY DEF ShapeInv, TypeOK, Known
<1>2. h # cap.handoff.epoch
  OBVIOUS
<1> QED BY <1>1, <1>2 DEF LogMoves, Ended

\* The epochs and versions HandInv speaks of.
LEMMA HandFacts ==
    ASSUME ShapeInv, NEW t \in Txs
    PROVE  /\ txs[t].cap.handoff.epoch \in Known /\ txs[t].saved.handoff.epoch \in Known
           /\ main.cap.handoff.epoch \in Known /\ txs[t].base \in Nat /\ main.version \in Nat
BY DEF ShapeInv, TypeOK, KnownOK, Names, Transaction

\* A step of t that drains nothing and publishes nothing.
LEMMA QuietHand ==
    ASSUME ShapeInv, HandInv, NEW t \in Txs, OnlyTx(t), UNCHANGED main, LogMoves(0, <<>>),
           txs[t].state # "drained", txs'[t].state # "drained",
           BaseOK(txs'[t], main),
           txs'[t].state \in Alive /\ txs'[t].base = main.version /\ ~Overtaken(t) =>
              EndsOK(txs'[t], log')
    PROVE  HandInv'
<1>1. Ended(main.cap, log')
  BY HandFacts, EndedStays DEF HandInv
<1>2. \A u \in Txs : Overtaken(u)' <=> Overtaken(u)
  BY DEF Overtaken, OnlyTx
<1>3. ASSUME NEW u \in Txs \ {t}
      PROVE  /\ BaseOK(txs'[u], main)
             /\ txs'[u].state \in Alive /\ txs'[u].base = main.version /\ ~Overtaken(u) =>
                   EndsOK(txs'[u], log')
  <2>1. txs'[u] = txs[u] /\ BaseOK(txs[u], main)
    BY DEF OnlyTx, HandInv
  <2>2. EndsOK(txs[u], log) => EndsOK(txs[u], log')
    BY HandFacts, EndedStays DEF EndsOK
  <2>3. txs[u].state \in Alive /\ txs[u].base = main.version /\ ~Overtaken(u) => EndsOK(txs[u], log)
    BY DEF HandInv
  <2> QED BY <2>1, <2>2, <2>3
<1> QED BY <1>1, <1>2, <1>3 DEF HandInv

\* Every step of a transaction keeps HandInv.
LEMMA HandTx ==
    ASSUME ShapeInv, WriteInv, HandInv, NEW t \in Txs, Runs(t)
    PROVE  HandInv'
<1> DEFINE o == txs[t]  r == txs'[t]
           Stands(q) == q.state \in Alive /\ q.base = main.version /\ ~Overtaken(t)
<1>1. /\ BaseOK(o, main) /\ (Stands(o) => EndsOK(o, log)) /\ Ended(main.cap, log)
      /\ main.version \in Nat /\ o.base \in Nat
      /\ main.cap.handoff.epoch \in Known /\ o.cap.handoff.epoch \in Known
      /\ o.saved.handoff.epoch \in Known
  BY HandFacts DEF HandInv
<1>2. o.state \in AtGate <=> gate = t
  BY DEF WriteInv, GateOK
<1> HIDE DEF o, r, Stands
<1>3. ASSUME OnlyTx(t), UNCHANGED main, LogMoves(0, <<>>), o.state # "drained",
             r.state # "drained", BaseOK(r, main), Stands(r) => EndsOK(r, log')
      PROVE  HandInv'
  BY <1>3, QuietHand DEF o, r, Stands
<1>4. CASE Begin(t)
  <2>1. /\ OnlyTx(t) /\ UNCHANGED main /\ LogMoves(0, <<>>) /\ log' = log /\ o.state = "idle"
        /\ r.state = "open" /\ r.base = main.version /\ r.from = main.cap.handle
        /\ Alike(r.cap, main.cap)
    BY <1>4, BeginEffect, LogStill DEF o, r
  <2>2. BaseOK(r, main)
    BY <1>1, <2>1 DEF BaseOK, Mine, Alike, AtGate
  <2>3. EndsOK(r, log')
    BY <1>1, <2>1 DEF EndsOK, Ended, Alike
  <2> QED BY <1>3, <2>1, <2>2, <2>3
<1>5. CASE Write(t)
  <2>1. /\ OnlyTx(t) /\ UNCHANGED main /\ LogMoves(0, <<>>) /\ log' = log /\ o.state = "open"
        /\ r.state = "open" /\ r.base = o.base /\ r.from = o.from /\ Alike(r.cap, o.cap)
    BY <1>5, WriteEffect, LogStill DEF o, r
  <2>2. BaseOK(r, main)
    BY <1>1, <2>1 DEF BaseOK, Mine, Alike, AtGate, Alive
  <2>3. Stands(r) => EndsOK(r, log')
    BY <1>1, <2>1 DEF EndsOK, Ended, Alike, Stands
  <2> QED BY <1>3, <2>1, <2>2, <2>3
<1>6. CASE WriteFails(t)
  <2>1. /\ OnlyTx(t) /\ UNCHANGED main /\ LogMoves(0, <<>>) /\ log' = log /\ o.state = "open"
        /\ r.state = "open" /\ Stays(r, o) /\ r.cap = o.cap
    BY <1>6, WriteFailsEffect, LogStill DEF o, r
  <2>2. BaseOK(r, main)
    BY <1>1, <2>1 DEF BaseOK, Mine, Stays, AtGate, Alive
  <2>3. Stands(r) => EndsOK(r, log')
    BY <1>1, <2>1 DEF EndsOK, Stays, Stands
  <2> QED BY <1>3, <2>1, <2>2, <2>3
<1>7. CASE StartEnable(t)
  <2>1. /\ OnlyTx(t) /\ UNCHANGED main /\ LogMoves(0, <<>>) /\ log' = log /\ o.state = "open"
        /\ r.state = "configuring" /\ Stays(r, o) /\ r.cap = o.cap /\ r.saved = o.cap
    BY <1>7, StartEnableEffect, LogStill DEF o, r
  <2>2. BaseOK(r, main)
    BY <1>1, <2>1 DEF BaseOK, Mine, Stays, AtGate, Alive
  <2>3. Stands(r) => EndsOK(r, log')
    BY <1>1, <2>1 DEF EndsOK, Stays, Stands, Alive
  <2> QED BY <1>3, <2>1, <2>2, <2>3
<1>8. CASE StartDisable(t)
  <2>1. /\ OnlyTx(t) /\ UNCHANGED main /\ LogMoves(0, <<>>) /\ log' = log /\ o.state = "open"
        /\ r.state = "configuring" /\ Stays(r, o) /\ r.saved = o.cap /\ r.cap.handle = 0
        /\ o.cap.handle # 0
        /\ r.cap.handoff = [epoch |-> o.cap.handle, last |-> Current(log[o.cap.handle])]
    BY <1>8, StartDisableEffect, LogStill DEF o, r
  <2>2. BaseOK(r, main)
    BY <1>1, <2>1 DEF BaseOK, Mine, Stays, AtGate, Alive
  <2>3. Current(log[o.cap.handle]) = Len(log[o.cap.handle].ever)
    BY <2>1, TxFields, EarliestOf DEF o
  <2>4. Ended(r.cap, log')
    BY <2>1, <2>3 DEF Ended
  <2>5. Stands(r) => EndsOK(r, log')
    BY <1>1, <2>1, <2>4 DEF EndsOK, Stays, Stands, Alive
  <2> QED BY <1>3, <2>1, <2>2, <2>5
<1>9. CASE StartNew(t)
  <2>1. /\ OnlyTx(t) /\ UNCHANGED main /\ o.state = "open"
        /\ r.state = "configuring" /\ Stays(r, o) /\ r.saved = o.cap
        /\ r.cap.handle = Len(log) + 1
        /\ r.cap.handoff = IF o.cap.handle = 0 THEN o.cap.handoff
                ELSE [epoch |-> o.cap.handle, last |-> Current(log[o.cap.handle])]
    BY <1>9, StartNewEffect DEF o, r
  <2>2. LogMoves(0, <<>>)
    BY <1>9, StartNewEffect, LogMinted
  <2>3. main.cap.handoff.epoch # Len(log) + 1
    BY <1>1 DEF Known, ShapeInv, TypeOK
  <2>4. BaseOK(r, main)
    BY <1>1, <2>1, <2>3 DEF BaseOK, Mine, Stays, AtGate, Alive
  <2>5. Stands(o) => Ended(r.cap, log')
    <3>1. CASE o.cap.handle = 0
      <4>1. Stands(o) => Ended(o.cap, log')
        BY <1>1, <2>2, EndedStays DEF EndsOK
      <4> QED BY <2>1, <3>1, <4>1 DEF Ended
    <3>2. CASE o.cap.handle # 0
      <4>1. o.cap.handle \in DOMAIN log
        BY <3>2, TxFields DEF o
      <4>2. Current(log[o.cap.handle]) = Len(log[o.cap.handle].ever)
        BY <4>1, TxFields, EarliestOf
      <4>3. log'[o.cap.handle].ever = log[o.cap.handle].ever
        BY <2>2, <3>2, <4>1 DEF LogMoves
      <4> QED BY <2>1, <3>2, <4>2, <4>3 DEF Ended
    <3> QED BY <3>1, <3>2
  <2>6. Stands(o) => Ended(r.saved, log')
    BY <1>1, <2>1, <2>2, EndedStays DEF EndsOK
  <2>7. Stands(r) => EndsOK(r, log')
    BY <2>1, <2>5, <2>6 DEF EndsOK, Stays, Stands, Alive
  <2> QED BY <1>3, <2>1, <2>2, <2>4, <2>7
<1>10. CASE Configured(t)
  <2>1. /\ OnlyTx(t) /\ UNCHANGED main /\ LogMoves(0, <<>>) /\ o.state = "configuring"
        /\ r.state = "open" /\ Stays(r, o) /\ r.cap = o.cap
    BY <1>10, ConfiguredEffect DEF o, r
  <2>2. BaseOK(r, main)
    BY <1>1, <2>1 DEF BaseOK, Mine, Stays, AtGate, Alive
  <2>3. Ended(o.cap, log) => Ended(o.cap, log')
    BY <1>1, <2>1, EndedStays
  <2>4. Stands(r) => EndsOK(r, log')
    BY <1>1, <2>1, <2>3 DEF EndsOK, Stays, Stands, Alive
  <2> QED BY <1>3, <2>1, <2>2, <2>4
<1>11. CASE ConfigureFails(t)
  <2>1. /\ OnlyTx(t) /\ UNCHANGED main /\ LogMoves(0, <<>>) /\ log' = log
        /\ o.state = "configuring" /\ r.state = "open" /\ Stays(r, o) /\ r.cap = o.saved
    BY <1>11, ConfigureFailsEffect, LogStill DEF o, r
  <2>2. BaseOK(r, main)
    BY <1>1, <2>1 DEF BaseOK, Mine, Stays, AtGate, Alive
  <2>3. Stands(r) => EndsOK(r, log')
    BY <1>1, <2>1 DEF EndsOK, Stays, Stands, Alive
  <2> QED BY <1>3, <2>1, <2>2, <2>3
<1>12. CASE Leaves(t)
  <2>1. /\ OnlyTx(t) /\ UNCHANGED main /\ LogMoves(0, <<>>) /\ o.state # "drained"
        /\ r.state = "dropped"
    BY <1>12, LogStill DEF Leaves, Gone, o, r
  <2>2. BaseOK(r, main) /\ ~Stands(r)
    BY <2>1 DEF BaseOK, Stands, Alive
  <2> QED BY <1>3, <2>1, <2>2
<1>13. CASE Advances(t)
  <2>1. /\ OnlyTx(t) /\ UNCHANGED main /\ LogMoves(0, <<>>) /\ log' = log
        /\ Stays(r, o) /\ r.cap = o.cap
        /\ \/ o.state = "open" /\ r.state = "committing" /\ o.base = main.version
           \/ o.state = "committing" /\ r.state = "logged"
    BY <1>13, LogStill DEF Advances, o, r
  <2>2. BaseOK(r, main)
    BY <1>1, <2>1 DEF BaseOK, Mine, Stays, AtGate, Alive
  <2>3. Stands(r) => EndsOK(r, log')
    BY <1>1, <2>1 DEF EndsOK, Stays, Stands, Alive
  <2> QED BY <1>3, <2>1, <2>2, <2>3
<1>14. CASE Drain(t)
  <2>1. /\ OnlyTx(t) /\ UNCHANGED main /\ o.state = "committing" /\ r.state = "drained"
        /\ Stays(r, o) /\ Alike(r.cap, o.cap) /\ LogMoves(o.cap.handle, o.cap.ops)
    BY <1>14, DrainEffect DEF o, r
  <2>2. /\ o.base = main.version /\ o.from = main.cap.handle /\ Mine(o.cap, o, main)
    BY <1>1, <2>1 DEF BaseOK, Alive, AtGate
  <2>3. Ended(main.cap, log')
    BY <1>1, <2>1, <2>2, EndedStays DEF Mine
  <2>4. BaseOK(r, main)
    BY <1>1, <2>1 DEF BaseOK, Mine, Stays, Alike, AtGate, Alive
  <2>5. Stands(o) => Ended(o.cap, log')
    BY <1>1, <2>1, EndedStays DEF EndsOK
  <2>6. Stands(o) => EndsOK(r, log')
    BY <2>1, <2>5 DEF EndsOK, Ended, Alike
  <2>7. Overtaken(t)' <=> Overtaken(t)
    BY <2>1 DEF Overtaken, OnlyTx
  <2>8. r.state \in Alive /\ r.base = main.version /\ ~Overtaken(t)' => EndsOK(r, log')
    BY <2>1, <2>6, <2>7 DEF Stands, Stays, Alive
  <2>9. ASSUME NEW u \in Txs \ {t} PROVE BaseOK(txs'[u], main) /\ Overtaken(u)'
    BY <2>1 DEF OnlyTx, HandInv, Overtaken, r
  <2> QED BY <2>1, <2>3, <2>4, <2>8, <2>9 DEF HandInv, r
<1>15. CASE Swap(t)
  <2>1. /\ OnlyTx(t) /\ o.state \in {"drained", "logged"} /\ r.state = "committed"
        /\ Alike(main'.cap, o.cap) /\ main'.version = main.version + 1
        /\ LogMoves(o.cap.handle, o.cap.ops)
    BY <1>15, SwapEffect DEF o, r
  <2>2. gate = t
    BY <1>2, <2>1 DEF AtGate
  <2>3. \A u \in Txs \ {t} : txs[u].state \notin AtGate
    BY <2>2 DEF WriteInv, GateOK
  <2>4. Stands(o)
    BY <1>1, <2>1, <2>3 DEF BaseOK, Alive, AtGate, Overtaken, Stands
  <2>5. Ended(o.cap, log')
    BY <1>1, <2>1, <2>4, EndedStays DEF EndsOK
  <2>6. Ended(main'.cap, log')
    BY <2>1, <2>5 DEF Ended, Alike
  <2>7. ASSUME NEW u \in Txs \ {t}
        PROVE  BaseOK(txs'[u], main') /\ (txs'[u].state \in Alive => txs'[u].base # main'.version)
    <3>1. txs'[u] = txs[u] /\ BaseOK(txs[u], main) /\ txs[u].state \notin AtGate
      BY <2>1, <2>3 DEF OnlyTx, HandInv
    <3>2. txs[u].base \in Nat /\ main.version \in Nat
      BY HandFacts
    <3>3. txs[u].state \in Alive => txs[u].base <= main.version + 1 /\ txs[u].base # main.version + 1
      BY <3>1, <3>2 DEF BaseOK
    <3> QED BY <2>1, <3>1, <3>3 DEF BaseOK
  <2>8. BaseOK(r, main') /\ r.state \notin Alive
    BY <2>1 DEF BaseOK, Alive
  <2> QED BY <2>6, <2>7, <2>8 DEF HandInv, r
<1>16. Rollback(t) \/ FlushFails(t) => Leaves(t)
  BY LeaveEffect
<1>17. Admit(t) => Leaves(t) \/ Advances(t)
  BY AdmitEffect
<1>18. Flush(t) => Advances(t)
  BY FlushEffect
<1> QED BY <1>4, <1>5, <1>6, <1>7, <1>8, <1>9, <1>10, <1>11, <1>12, <1>13, <1>14, <1>15,
           <1>16, <1>17, <1>18 DEF Runs

\* No epoch has ended at the start.
LEMMA HandInit == Init => HandInv
<1> SUFFICES ASSUME Init PROVE HandInv
  OBVIOUS
<1>1. Ended(main.cap, log)
  BY DEF Init, Bare, NoHandoff, Ended
<1>2. \A t \in Txs : txs[t].state \notin Alive
  BY DEF Init, Alive
<1> QED BY <1>1, <1>2 DEF HandInv, BaseOK

\* Every step keeps HandInv.
LEMMA HandStable == ShapeInv /\ WriteInv /\ HandInv /\ [Next]_vars => HandInv'
<1> SUFFICES ASSUME ShapeInv, WriteInv, HandInv, [Next]_vars PROVE HandInv'
  OBVIOUS
<1>1. CASE UNCHANGED vars
  BY <1>1 DEF vars, HandInv, Overtaken
<1>2. ASSUME NEW t \in Txs, Runs(t) PROVE HandInv'
  BY <1>2, HandTx
<1>3. ASSUME NEW c \in Consumers, Polls(c) PROVE HandInv'
  BY <1>3, ShapePolls DEF OnlyReader, HandInv, Overtaken
<1> QED BY <1>1, <1>2, <1>3 DEF Next

\* The position a published graph records for an epoch that ended is the last one
\* that epoch published (disable, and the version check of publish_gated, which
\* refuses a disable that others published after).
THEOREM HandoffStands == Spec => []HandoffIsTheEnd
<1>1. Spec => [](ShapeInv /\ WriteInv /\ HandInv)
  BY ShapeInit, ShapeStable, WriteInit, WriteStable, HandInit, HandStable, PTL DEF Spec
<1>2. ShapeInv /\ HandInv => HandoffIsTheEnd
  <2> SUFFICES ASSUME ShapeInv, HandInv, main.cap.handoff.epoch # 0,
                      main.cap.handle # main.cap.handoff.epoch
               PROVE  main.cap.handoff.last = Current(log[main.cap.handoff.epoch])
    BY DEF HandoffIsTheEnd
  <2>1. main.cap.handoff.epoch \in DOMAIN log
    BY DEF ShapeInv, TypeOK, KnownOK, Known, Names
  <2>2. log[main.cap.handoff.epoch] \in Log /\ Numbered(log[main.cap.handoff.epoch])
    BY <2>1 DEF ShapeInv, RingsOK, RingOK
  <2> QED BY <2>2, EarliestOf DEF HandInv, Ended
<1> QED BY <1>1, <1>2, PTL
=============================================================================
