--------------------------- MODULE WalFileProofs ---------------------------
(***************************************************************************)
(* Theorems about WalFile, for a log of any length, any number of stops,   *)
(* power losses and damaged cells: what was promised is served, what a     *)
(* scan replays is what the owner wrote, nothing intact is lost, the       *)
(* header names its frames, and an append goes where the scan reaches.     *)
(***************************************************************************)
EXTENDS WalFile, KeptProofs, SequenceTheorems

-----------------------------------------------------------------------------
(* Lemmas about files, as sequences of cells.                              *)

\* The largest of a bounded set of numbers is in it.
LEMMA Greatest ==
    ASSUME NEW T \in SUBSET Nat, T # {}, NEW b \in Nat, \A x \in T : x <= b
    PROVE  Max(T) \in T /\ \A x \in T : x <= Max(T)
  <1> DEFINE U == {y \in Nat : b - y \in T}
  <1>1. U # {}
    <2>1. PICK x \in T : TRUE
      OBVIOUS
    <2>2. b - x \in Nat /\ b - (b - x) = x
      BY <2>1
    <2> QED
      BY <2>1, <2>2
  <1>2. PICK m \in U : \A y \in U : m <= y
    BY <1>1, LeastElement
  <1>3. b - m \in T /\ \A x \in T : x <= b - m
    <2>1. ASSUME NEW x \in T
          PROVE  x <= b - m
      <3>1. b - x \in Nat /\ b - (b - x) = x
        BY <2>1
      <3>2. m <= b - x
        BY <1>2, <3>1
      <3> QED
        BY <1>2, <3>1, <3>2
    <2> QED
      BY <1>2, <2>1
  <1>4. \E x \in T : \A y \in T : x >= y
    <2>1. \A y \in T : b - m >= y
      BY <1>2, <1>3
    <2> QED
      BY <1>3, <2>1
  <1>5. Max(T) \in T /\ \A y \in T : Max(T) >= y
    BY <1>4 DEF Max
  <1>6. ASSUME NEW x \in T
        PROVE  x <= Max(T)
    <2>1. x \in Nat /\ Max(T) \in Nat /\ Max(T) >= x
      BY <1>5
    <2> QED
      BY <2>1
  <1> QED
    BY <1>5, <1>6

\* So is the smallest.
LEMMA Smallest ==
    ASSUME NEW T \in SUBSET Nat, T # {}
    PROVE  Min(T) \in T /\ \A x \in T : Min(T) <= x
  <1>1. \E x \in T : \A y \in T : x <= y
    BY LeastElement
  <1> QED
    BY <1>1 DEF Min

\* A function over 1..n is a sequence of length n.
LEMMA FunctionIsSeq ==
    ASSUME NEW S, NEW n \in Nat, NEW g \in [1 .. n -> S]
    PROVE  g \in Seq(S) /\ Len(g) = n
  <1>1. g \in UNION {[1 .. m -> S] : m \in Nat}
    OBVIOUS
  <1>2. g \in Seq(S)
    BY <1>1, SeqDef, Zenon
  <1>3. DOMAIN g = 1 .. n /\ Len(g) \in Nat /\ DOMAIN g = 1 .. Len(g)
    BY <1>2, LenProperties
  <1> QED
    BY <1>2, <1>3

\* The three cells of a frame.
LEMMA FrameCells ==
    ASSUME NEW n
    PROVE  /\ FrameOf(n) \in Seq({Cell("length", n), Cell("crc", n), Cell("payload", n)})
           /\ Len(FrameOf(n)) = 3
           /\ FrameOf(n)[1] = Cell("length", n)
           /\ FrameOf(n)[2] = Cell("crc", n)
           /\ FrameOf(n)[3] = Cell("payload", n)
           /\ Cell("length", n).is = "length" /\ Cell("length", n).of = n
           /\ Cell("crc", n).is = "crc" /\ Cell("crc", n).of = n
           /\ Cell("payload", n).is = "payload" /\ Cell("payload", n).of = n
  BY DEF FrameOf, Cell

\* A prefix is no longer, and has the same elements.
LEMMA PrefixElements ==
    ASSUME NEW S, NEW s \in Seq(S), NEW t \in Seq(S)
    PROVE  /\ IsPrefix(s, t) <=> /\ Len(s) <= Len(t)
                                 /\ \A i \in 1 .. Len(s) : s[i] = t[i]
           /\ IsPrefix(s, s)
  <1>1. Len(s) \in Nat /\ Len(t) \in Nat
    BY LenProperties
  <1>2. ASSUME Len(s) <= Len(t)
        PROVE  SubSeq(s, 1, Len(s)) = SubSeq(t, 1, Len(s)) <=> \A i \in 1 .. Len(s) : s[i] = t[i]
    <2> DEFINE a == SubSeq(s, 1, Len(s))
               c == SubSeq(t, 1, Len(s))
    <2>1. (\A i \in 1 .. Len(s) : s[i] \in S) /\ (\A i \in 1 .. Len(s) : t[i] \in S)
      <3>1. \A i \in 1 .. Len(s) : i \in 1 .. Len(t)
        BY <1>1, <1>2
      <3> QED
        BY <3>1, ElementOfSeq
    <2>2. /\ a \in Seq(S) /\ Len(a) = Len(s)
          /\ \A i \in 1 .. Len(s) : a[i] = s[i]
      <3>1. /\ a \in Seq(S) /\ Len(a) = (IF 1 <= Len(s) THEN Len(s) - 1 + 1 ELSE 0)
            /\ \A i \in 1 .. Len(s) - 1 + 1 : a[i] = s[1 + i - 1]
        BY <1>1, <2>1, SubSeqProperties
      <3> HIDE DEF a
      <3> QED
        BY <1>1, <3>1
    <2>3. /\ c \in Seq(S) /\ Len(c) = Len(s)
          /\ \A i \in 1 .. Len(s) : c[i] = t[i]
      <3>1. /\ c \in Seq(S) /\ Len(c) = (IF 1 <= Len(s) THEN Len(s) - 1 + 1 ELSE 0)
            /\ \A i \in 1 .. Len(s) - 1 + 1 : c[i] = t[1 + i - 1]
        BY <1>1, <2>1, SubSeqProperties
      <3> HIDE DEF c
      <3> QED
        BY <1>1, <3>1
    <2>4. a = c <=> \A i \in 1 .. Len(s) : a[i] = c[i]
      <3> HIDE DEF a, c
      <3> QED
        BY <2>2, <2>3, SeqEqual
    <2> HIDE DEF a, c
    <2>5. a = c <=> \A i \in 1 .. Len(s) : s[i] = t[i]
      BY <2>2, <2>3, <2>4
    <2> QED
      BY <2>5 DEF a, c
  <1> QED
    BY <1>1, <1>2 DEF IsPrefix

\* Frame n stands at cell i of file f.
Stands(f, i, n) == i + 2 <= Len(f) /\ SubSeq(f, i, i + 2) = FrameOf(n)

\* ... that is, its three cells do.
LEMMA StandsCells ==
    ASSUME NEW f \in Seq(Cells), NEW i \in Nat \ {0}, NEW n
    PROVE  Stands(f, i, n) <=> /\ i + 2 <= Len(f)
                               /\ f[i] = Cell("length", n)
                               /\ f[i + 1] = Cell("crc", n)
                               /\ f[i + 2] = Cell("payload", n)
  <1> SUFFICES ASSUME i + 2 <= Len(f)
               PROVE  SubSeq(f, i, i + 2) = FrameOf(n) <=>
                        /\ f[i] = Cell("length", n)
                        /\ f[i + 1] = Cell("crc", n)
                        /\ f[i + 2] = Cell("payload", n)
    BY DEF Stands
  <1>1. Len(f) \in Nat /\ \A j \in i .. i + 2 : f[j] \in Cells
    BY LenProperties, ElementOfSeq
  <1>2. /\ SubSeq(f, i, i + 2) \in Seq(Cells)
        /\ Len(SubSeq(f, i, i + 2)) = 3
        /\ \A j \in 1 .. 3 : SubSeq(f, i, i + 2)[j] = f[i + j - 1]
    <2>1. i \in Int /\ i + 2 \in Int /\ i <= i + 2 /\ (i + 2) - i + 1 = 3
      OBVIOUS
    <2> QED
      BY <1>1, <2>1, SubSeqProperties
  <1>3. /\ SubSeq(f, i, i + 2)[1] = f[i]
        /\ SubSeq(f, i, i + 2)[2] = f[i + 1]
        /\ SubSeq(f, i, i + 2)[3] = f[i + 2]
    <2>1. i + 1 - 1 = i /\ i + 2 - 1 = i + 1 /\ i + 3 - 1 = i + 2
      OBVIOUS
    <2> QED
      BY <1>2, <2>1
  <1>4. /\ FrameOf(n) \in Seq({Cell("length", n), Cell("crc", n), Cell("payload", n)})
        /\ Len(FrameOf(n)) = 3
        /\ FrameOf(n)[1] = Cell("length", n)
        /\ FrameOf(n)[2] = Cell("crc", n)
        /\ FrameOf(n)[3] = Cell("payload", n)
    BY FrameCells
  <1>5. ASSUME f[i] = Cell("length", n), f[i + 1] = Cell("crc", n),
               f[i + 2] = Cell("payload", n)
        PROVE  SubSeq(f, i, i + 2) = FrameOf(n)
    <2> DEFINE T == {Cell("length", n), Cell("crc", n), Cell("payload", n)}
    <2>1. FrameOf(n) \in Seq(T)
      BY <1>4
    <2>2. T \subseteq Cells
      BY <1>1, <1>5
    <2> HIDE DEF T
    <2>3. FrameOf(n) \in Seq(Cells)
      BY <2>1, <2>2, SeqMonotonic
    <2>4. \A j \in 1 .. 3 : SubSeq(f, i, i + 2)[j] = FrameOf(n)[j]
      <3>1. \A j \in 1 .. 3 : j = 1 \/ j = 2 \/ j = 3
        OBVIOUS
      <3>2. /\ SubSeq(f, i, i + 2)[1] = FrameOf(n)[1]
            /\ SubSeq(f, i, i + 2)[2] = FrameOf(n)[2]
            /\ SubSeq(f, i, i + 2)[3] = FrameOf(n)[3]
        BY <1>3, <1>4, <1>5, Zenon
      <3> QED
        BY <3>1, <3>2, Zenon
    <2> QED
      BY <1>2, <1>4, <2>3, <2>4, SeqEqual
  <1>6. SubSeq(f, i, i + 2) = FrameOf(n) => /\ f[i] = Cell("length", n)
                                           /\ f[i + 1] = Cell("crc", n)
                                           /\ f[i + 2] = Cell("payload", n)
    BY <1>3, <1>4, Zenon
  <1> QED
    BY <1>5, <1>6

\* Frame n fills slot k of file f.
Slot(f, k, n) == /\ f[3 * k - 1] = Cell("length", n)
                 /\ f[3 * k] = Cell("crc", n)
                 /\ f[3 * k + 1] = Cell("payload", n)

\* A complete frame in slot k.
LEMMA FrameAtSlot ==
    ASSUME NEW f \in Seq(Cells), NEW k \in Nat \ {0}
    PROVE  /\ FrameAt(f, k) <=> /\ 3 * k + 1 <= Len(f)
                                /\ Slot(f, k, f[3 * k + 1].of)
           /\ \A n : 3 * k + 1 <= Len(f) /\ Slot(f, k, n)
                       => FrameAt(f, k) /\ f[3 * k + 1].of = n
  <1>1. 3 * k - 1 \in Nat \ {0} /\ 3 * k - 1 + 2 = 3 * k + 1 /\ 3 * k - 1 + 1 = 3 * k
    OBVIOUS
  <1>2. FrameAt(f, k) <=> /\ 3 * k + 1 <= Len(f)
                          /\ Stands(f, 3 * k - 1, f[3 * k + 1].of)
    BY <1>1 DEF FrameAt, Stands
  <1>3. Stands(f, 3 * k - 1, f[3 * k + 1].of)
          <=> 3 * k + 1 <= Len(f) /\ Slot(f, k, f[3 * k + 1].of)
    BY <1>1, StandsCells DEF Slot
  <1>4. ASSUME NEW n, 3 * k + 1 <= Len(f), Slot(f, k, n)
        PROVE  FrameAt(f, k) /\ f[3 * k + 1].of = n
    <2>1. f[3 * k + 1].of = n
      BY <1>4, FrameCells, Zenon DEF Slot
    <2> QED
      BY <1>2, <1>3, <1>4, <2>1
  <1> QED
    BY <1>2, <1>3, <1>4

\* What the scan finds: complete frames up to the reach, and none behind them.
LEMMA Scanned ==
    ASSUME NEW f \in Seq(Cells)
    PROVE  /\ Reach(f) \in Nat
           /\ \A j \in 1 .. Reach(f) : FrameAt(f, j)
           /\ \A k \in Nat : (\A j \in 1 .. k : FrameAt(f, j)) => k <= Reach(f)
           /\ HasHeader(f) => 3 * Reach(f) + 1 <= Len(f)
  <1> DEFINE T == {k \in 0 .. Len(f) : \A j \in 1 .. k : FrameAt(f, j)}
  <1>1. Len(f) \in Nat
    BY LenProperties
  <1>2. 0 \in T /\ T \in SUBSET Nat /\ \A x \in T : x <= Len(f)
    BY <1>1
  <1>3. Reach(f) = Max(T)
    BY DEF Reach
  <1> HIDE DEF T
  <1>4. Reach(f) \in T /\ \A x \in T : x <= Reach(f)
    BY <1>1, <1>2, <1>3, Greatest
  <1> USE DEF T
  <1>5. Reach(f) \in Nat /\ \A j \in 1 .. Reach(f) : FrameAt(f, j)
    BY <1>1, <1>4
  <1>6. ASSUME NEW k \in Nat, \A j \in 1 .. k : FrameAt(f, j)
        PROVE  k <= Reach(f)
    <2>1. CASE k = 0
      BY <1>5, <2>1
    <2>2. CASE k # 0
      <3>1. 3 * k + 1 <= Len(f)
        BY <1>6, <2>2 DEF FrameAt
      <3>2. k \in T
        BY <1>1, <1>6, <3>1
      <3> QED
        BY <1>4, <3>2
    <2> QED
      BY <2>1, <2>2
  <1>7. HasHeader(f) => 3 * Reach(f) + 1 <= Len(f)
    <2>1. CASE Reach(f) = 0
      BY <1>1, <2>1 DEF HasHeader
    <2>2. CASE Reach(f) # 0
      BY <1>5, <2>2 DEF FrameAt
    <2> QED
      BY <2>1, <2>2
  <1> QED
    BY <1>5, <1>6, <1>7

\* A file that has the frames of p, and maybe more, from its header on.
Carries(f, p) == /\ HasHeader(f)
                 /\ 3 * Len(p) + 1 <= Len(f)
                 /\ \A k \in 1 .. Len(p) : Slot(f, k, p[k])

\* A file that has nothing else.
Image(f, p) == Carries(f, p) /\ Len(f) = 3 * Len(p) + 1

\* A scan reads what the file carries.
LEMMA CarriedIsRead ==
    ASSUME NEW f \in Seq(Cells), NEW S, NEW p \in Seq(S), Carries(f, p)
    PROVE  /\ Len(p) <= Reach(f)
           /\ Frames(f) = [k \in 1 .. Reach(f) |-> f[3 * k + 1].of]
           /\ \A k \in 1 .. Len(p) : Frames(f)[k] = p[k] /\ f[3 * k + 1].of = p[k]
  <1>1. Len(p) \in Nat /\ Len(f) \in Nat
    BY LenProperties
  <1>2. \A k \in 1 .. Len(p) : FrameAt(f, k) /\ f[3 * k + 1].of = p[k]
    <2>1. ASSUME NEW k \in 1 .. Len(p)
          PROVE  FrameAt(f, k) /\ f[3 * k + 1].of = p[k]
      <3>1. k \in Nat \ {0} /\ 3 * k + 1 <= Len(f)
        BY <1>1 DEF Carries
      <3>2. Slot(f, k, p[k])
        BY DEF Carries
      <3> QED
        BY <3>1, <3>2, FrameAtSlot
    <2> QED
      BY <2>1
  <1>3. Len(p) <= Reach(f) /\ Reach(f) \in Nat
    BY <1>1, <1>2, Scanned
  <1>4. Frames(f) = [k \in 1 .. Reach(f) |-> f[3 * k + 1].of]
    BY DEF Frames, Carries
  <1>5. \A k \in 1 .. Len(p) : k \in 1 .. Reach(f)
    BY <1>1, <1>3
  <1> QED
    BY <1>2, <1>3, <1>4, <1>5

\* A file with a header carries what a scan of it reads.
LEMMA ReadIsCarried ==
    ASSUME NEW f \in Seq(Cells), HasHeader(f)
    PROVE  /\ Frames(f) \in Seq(0 .. MaxFrames) /\ Len(Frames(f)) = Reach(f)
           /\ \A k \in 1 .. Reach(f) : Frames(f)[k] = f[3 * k + 1].of
           /\ Carries(f, Frames(f))
  <1>1. Reach(f) \in Nat /\ Len(f) \in Nat /\ 3 * Reach(f) + 1 <= Len(f)
    BY LenProperties, Scanned
  <1>2. Frames(f) = [k \in 1 .. Reach(f) |-> f[3 * k + 1].of]
    BY DEF Frames
  <1>3. \A k \in 1 .. Reach(f) : f[3 * k + 1].of \in 0 .. MaxFrames
    <2>1. ASSUME NEW k \in 1 .. Reach(f)
          PROVE  f[3 * k + 1].of \in 0 .. MaxFrames
      <3>1. 3 * k + 1 \in 1 .. Len(f)
        BY <1>1
      <3>2. f[3 * k + 1] \in Cells
        BY <3>1, ElementOfSeq
      <3> QED
        BY <3>2 DEF Cells
    <2> QED
      BY <2>1
  <1>4. Frames(f) \in Seq(0 .. MaxFrames) /\ Len(Frames(f)) = Reach(f)
    <2>1. Frames(f) \in [1 .. Reach(f) -> 0 .. MaxFrames]
      BY <1>2, <1>3
    <2> QED
      BY <1>1, <2>1, FunctionIsSeq
  <1>5. \A k \in 1 .. Reach(f) : Slot(f, k, f[3 * k + 1].of)
    <2>1. ASSUME NEW k \in 1 .. Reach(f)
          PROVE  Slot(f, k, f[3 * k + 1].of)
      <3>1. k \in Nat \ {0} /\ FrameAt(f, k)
        BY <1>1, Scanned
      <3> QED
        BY <3>1, FrameAtSlot
    <2> QED
      BY <2>1
  <1>6. \A k \in 1 .. Reach(f) : Frames(f)[k] = f[3 * k + 1].of
    BY <1>2
  <1>7. Carries(f, Frames(f))
    BY <1>1, <1>4, <1>5, <1>6 DEF Carries
  <1> QED
    BY <1>4, <1>6, <1>7

\* An image of p reads as p.
LEMMA ImageIsRead ==
    ASSUME NEW f \in Seq(Cells), NEW S, NEW p \in Seq(S), Image(f, p)
    PROVE  Frames(f) = p /\ Reach(f) = Len(p)
  <1>1. Len(p) \in Nat /\ Len(f) = 3 * Len(p) + 1 /\ HasHeader(f) /\ Carries(f, p)
    BY LenProperties DEF Image, Carries
  <1>2. Reach(f) \in Nat /\ 3 * Reach(f) + 1 <= Len(f)
    BY <1>1, Scanned
  <1>3. /\ Len(p) <= Reach(f) /\ Frames(f) = [k \in 1 .. Reach(f) |-> f[3 * k + 1].of]
        /\ \A k \in 1 .. Len(p) : Frames(f)[k] = p[k]
    BY <1>1, CarriedIsRead
  <1>4. Reach(f) = Len(p)
    BY <1>1, <1>2, <1>3
  <1>5. Len(Frames(f)) = Len(p) /\ Frames(f) \in Seq(0 .. MaxFrames)
    BY <1>1, <1>4, ReadIsCarried
  <1>6. Frames(f) \in Seq(S \cup (0 .. MaxFrames)) /\ p \in Seq(S \cup (0 .. MaxFrames))
    BY <1>5, SeqMonotonic
  <1>7. Frames(f) = p
    BY <1>3, <1>5, <1>6, SeqEqual
  <1> QED
    BY <1>4, <1>7

\* Every cell behind the header, up to the end of slot r, is in a slot.
LEMMA InSlot ==
    ASSUME NEW r \in Nat, NEW i \in 2 .. 3 * r + 1
    PROVE  \E k \in 1 .. r : i = 3 * k - 1 \/ i = 3 * k \/ i = 3 * k + 1
  <1>1. (i + 1) \div 3 \in 1 .. r
    OBVIOUS
  <1>2. LET k == (i + 1) \div 3
        IN  i = 3 * k - 1 \/ i = 3 * k \/ i = 3 * k + 1
    OBVIOUS
  <1> QED
    BY <1>1, <1>2

\* A length cell among the slots a file carries is the first cell of one.
LEMMA LengthInSlot ==
    ASSUME NEW f \in Seq(Cells), NEW S, NEW p \in Seq(S), Carries(f, p),
           NEW n, NEW i \in 1 .. 3 * Len(p) + 1, f[i] = Cell("length", n)
    PROVE  \E k \in 1 .. Len(p) : i = 3 * k - 1 /\ p[k] = n
  <1>1. Len(p) \in Nat
    BY LenProperties
  <1>2. i # 1
    <2>1. f[1] \in {V3, V4}
      BY DEF Carries, HasHeader
    <2>2. V3.is = "v3" /\ V4.is = "v4" /\ Cell("length", n).is = "length"
      BY DEF V3, V4, Cell
    <2> QED
      BY <2>1, <2>2
  <1>3. PICK k \in 1 .. Len(p) : i = 3 * k - 1 \/ i = 3 * k \/ i = 3 * k + 1
    <2>1. i \in 2 .. 3 * Len(p) + 1
      BY <1>1, <1>2
    <2> QED
      BY <1>1, <2>1, InSlot
  <1>4. Slot(f, k, p[k])
    BY DEF Carries
  <1>5. Cell("length", n).is = "length" /\ Cell("length", n).of = n
    BY FrameCells
  <1>6. /\ Cell("length", p[k]).of = p[k]
        /\ Cell("crc", p[k]).is = "crc" /\ Cell("payload", p[k]).is = "payload"
    BY FrameCells
  <1>7. i = 3 * k - 1
    BY <1>3, <1>4, <1>5, <1>6 DEF Slot
  <1>8. p[k] = n
    BY <1>4, <1>5, <1>6, <1>7 DEF Slot
  <1> QED
    BY <1>7, <1>8

\* What a file carries is its cells.
LEMMA SameSlots ==
    ASSUME NEW f, NEW g, NEW S, NEW p \in Seq(S), Carries(f, p),
           HasHeader(g), 3 * Len(p) + 1 <= Len(g),
           \A i \in 2 .. 3 * Len(p) + 1 : g[i] = f[i]
    PROVE  Carries(g, p)
  <1>1. Len(p) \in Nat
    BY LenProperties
  <1>2. ASSUME NEW k \in 1 .. Len(p)
        PROVE  Slot(g, k, p[k])
    <2>1. /\ 3 * k - 1 \in 2 .. 3 * Len(p) + 1 /\ 3 * k \in 2 .. 3 * Len(p) + 1
          /\ 3 * k + 1 \in 2 .. 3 * Len(p) + 1
      BY <1>1
    <2>2. Slot(f, k, p[k])
      BY DEF Carries
    <2> QED
      BY <2>1, <2>2 DEF Slot
  <1> QED
    BY <1>2 DEF Carries

\* So does a frame that stands in it.
LEMMA SameStands ==
    ASSUME NEW f \in Seq(Cells), NEW g \in Seq(Cells), NEW n, NEW i \in Nat \ {0},
           Stands(f, i, n), i + 2 <= Len(g),
           \A j \in i .. i + 2 : g[j] = f[j]
    PROVE  Stands(g, i, n)
  <1>1. /\ f[i] = Cell("length", n)
        /\ f[i + 1] = Cell("crc", n)
        /\ f[i + 2] = Cell("payload", n)
    BY StandsCells
  <1>2. g[i] = f[i] /\ g[i + 1] = f[i + 1] /\ g[i + 2] = f[i + 2]
    OBVIOUS
  <1> QED
    BY <1>1, <1>2, StandsCells

-----------------------------------------------------------------------------
(* Lemmas about what is done to a file.                                    *)

\* The cells that have a name.
LEMMA NamedCells ==
    /\ Zero \in Cells /\ V3 \in Cells /\ V4 \in Cells /\ Stub \in Cells
    /\ \A n \in 0 .. MaxFrames :
          Cell("length", n) \in Cells /\ Cell("crc", n) \in Cells /\ Cell("payload", n) \in Cells
    /\ Zero.is = "zero" /\ V3.is = "v3" /\ V4.is = "v4" /\ Stub.is = "stub"
    /\ Zero.of = 0 /\ V3.of = 0 /\ V4.of = 0 /\ Stub.of = 0
  BY WalFileAssumption DEF Zero, V3, V4, Stub, Cell, Cells

\* set_len keeps the cells up to the new length.
LEMMA SetLenCells ==
    ASSUME NEW f \in Seq(Cells), NEW n \in Nat
    PROVE  /\ SetLen(f, n) \in Seq(Cells) /\ Len(SetLen(f, n)) = n
           /\ \A i \in 1 .. n : SetLen(f, n)[i] = IF i <= Len(f) THEN f[i] ELSE Zero
  <1>1. \A i \in 1 .. n : (IF i <= Len(f) THEN f[i] ELSE Zero) \in Cells
    <2>1. ASSUME NEW i \in 1 .. n, i <= Len(f)
          PROVE  f[i] \in Cells
      <3>1. Len(f) \in Nat
        BY LenProperties
      <3>2. i \in 1 .. Len(f)
        BY <2>1, <3>1
      <3> QED
        BY <3>2, ElementOfSeq
    <2> QED
      BY <2>1, NamedCells
  <1>2. SetLen(f, n) \in [1 .. n -> Cells]
    BY <1>1 DEF SetLen
  <1>3. \A i \in 1 .. n : SetLen(f, n)[i] = IF i <= Len(f) THEN f[i] ELSE Zero
    BY DEF SetLen
  <1> QED
    BY <1>2, <1>3, FunctionIsSeq

\* A frame of a bounded number is a piece of a file.
LEMMA FrameIsFile ==
    ASSUME NEW n \in 1 .. MaxFrames
    PROVE  /\ FrameOf(n) \in Seq(Cells) /\ Len(FrameOf(n)) = 3
           /\ \A i \in 1 .. 3 : FrameOf(n)[i] \in Cells /\ FrameOf(n)[i].of = n
  <1> DEFINE T == {Cell("length", n), Cell("crc", n), Cell("payload", n)}
  <1>1. FrameOf(n) \in Seq(T) /\ Len(FrameOf(n)) = 3
    BY FrameCells
  <1>2. T \subseteq Cells
    <2>1. n \in 0 .. MaxFrames
      OBVIOUS
    <2> QED
      BY <2>1, NamedCells
  <1>3. \A x \in T : x.of = n
    BY DEF Cell
  <1> HIDE DEF T
  <1>4. FrameOf(n) \in Seq(Cells)
    BY <1>1, <1>2, SeqMonotonic
  <1>5. \A i \in 1 .. 3 : FrameOf(n)[i] \in T
    <2>1. ASSUME NEW i \in 1 .. 3
          PROVE  FrameOf(n)[i] \in T
      <3>1. i \in 1 .. Len(FrameOf(n))
        BY <1>1
      <3> QED
        BY <1>1, <3>1, ElementOfSeq
    <2> QED
      BY <2>1
  <1> QED
    BY <1>1, <1>2, <1>3, <1>4, <1>5, Zenon

\* A frame, or the beginning of one, behind a file.
LEMMA AppendedCells ==
    ASSUME NEW f \in Seq(Cells), NEW n \in 1 .. MaxFrames, NEW k \in 0 .. 3
    PROVE  LET g == f \o SubSeq(FrameOf(n), 1, k)
           IN  /\ g \in Seq(Cells) /\ Len(g) = Len(f) + k
               /\ \A i \in 1 .. Len(f) : g[i] = f[i]
               /\ \A i \in 1 .. k : g[Len(f) + i] = FrameOf(n)[i]
               /\ \A i \in 1 .. k : g[Len(f) + i].of = n
  <1> DEFINE g == f \o SubSeq(FrameOf(n), 1, k)
             r == FrameOf(n)
             t == SubSeq(r, 1, k)
  <1>1. Len(f) \in Nat
    BY LenProperties
  <1>2. \A i \in 1 .. 3 : r[i] \in Cells /\ r[i].of = n
    BY FrameIsFile
  <1>3. \A i \in 1 .. k : i \in 1 .. 3
    OBVIOUS
  <1> HIDE DEF r
  <1>4. \A i \in 1 .. k : r[i] \in Cells /\ r[i].of = n
    BY <1>2, <1>3
  <1>5. /\ t \in Seq(Cells) /\ Len(t) = k /\ \A i \in 1 .. k : t[i] = r[i]
    <2>1. 1 \in Int /\ k \in Int /\ k - 1 + 1 = k
      OBVIOUS
    <2>2. /\ t \in Seq(Cells) /\ Len(t) = (IF 1 <= k THEN k - 1 + 1 ELSE 0)
          /\ \A i \in 1 .. k - 1 + 1 : t[i] = r[1 + i - 1]
      BY <1>4, <2>1, SubSeqProperties
    <2>3. \A i \in 1 .. k : 1 + i - 1 = i
      OBVIOUS
    <2> QED
      BY <2>1, <2>2, <2>3
  <1> HIDE DEF t
  <1>6. g = f \o t
    BY DEF t, r
  <1> HIDE DEF g
  <1>7. /\ g \in Seq(Cells) /\ Len(g) = Len(f) + k
        /\ \A i \in 1 .. Len(f) + k : g[i] = IF i <= Len(f) THEN f[i] ELSE t[i - Len(f)]
    BY <1>5, <1>6, ConcatProperties
  <1>8. \A i \in 1 .. Len(f) : g[i] = f[i]
    BY <1>1, <1>7
  <1>9. ASSUME NEW i \in 1 .. k
        PROVE  g[Len(f) + i] = r[i]
    <2>1. Len(f) + i \in 1 .. Len(f) + k /\ ~(Len(f) + i <= Len(f)) /\ Len(f) + i - Len(f) = i
      BY <1>1
    <2> QED
      BY <1>5, <1>7, <2>1
  <1> QED
    BY <1>4, <1>7, <1>8, <1>9 DEF r, g

\* A whole frame is its first three cells.
LEMMA WholeFrame ==
    ASSUME NEW n \in 1 .. MaxFrames
    PROVE  FrameOf(n) = SubSeq(FrameOf(n), 1, 3)
  <1> DEFINE r == FrameOf(n)
  <1>1. r \in Seq(Cells) /\ Len(r) = 3
    BY FrameIsFile
  <1> HIDE DEF r
  <1>2. r = SubSeq(r, 1, 3)
    <2>1. \A i \in 1 .. 3 : r[i] \in Cells
      BY <1>1, ElementOfSeq
    <2>2. /\ SubSeq(r, 1, 3) \in Seq(Cells) /\ Len(SubSeq(r, 1, 3)) = 3
          /\ \A i \in 1 .. 3 : SubSeq(r, 1, 3)[i] = r[1 + i - 1]
      BY <2>1, SubSeqProperties
    <2>3. \A i \in 1 .. 3 : 1 + i - 1 = i
      OBVIOUS
    <2> QED
      BY <1>1, <2>2, <2>3, SeqEqual
  <1> QED
    BY <1>2 DEF r

\* A cell at or past the end of a file is a cell too.
LEMMA AtCells ==
    ASSUME NEW f \in Seq(Cells), NEW i \in Nat \ {0}
    PROVE  At(f, i) \in Cells
  <1>1. CASE i <= Len(f)
    <2>1. i \in 1 .. Len(f)
      BY <1>1, LenProperties
    <2> QED
      BY <1>1, <2>1, ElementOfSeq DEF At
  <1>2. CASE ~(i <= Len(f))
    BY <1>2, NamedCells DEF At
  <1> QED
    BY <1>1, <1>2

\* The equation of MixUpTo, on the first n cells.
Grown(T, n) == {Append(s, c) : s \in T, c \in {At(f, n) : f \in versions}}
MixStep(mix, n) == IF n = 0 THEN {<<>>} ELSE Grown(mix[n - 1], n)
IsMix(n, mix) == mix = [i \in 0 .. n |-> MixStep(mix, i)]

\* Some function meets the equation.
LEMMA MixExists ==
    ASSUME NEW n \in Nat
    PROVE  \E mix : IsMix(n, mix)
  <1> DEFINE T == {m \in Nat : ~ \E mix : IsMix(m, mix)}
  <1> SUFFICES ASSUME T # {} PROVE FALSE
    OBVIOUS
  <1>0. T \in SUBSET Nat
    OBVIOUS
  <1>1. PICK x \in T : \A y \in T : x <= y
    BY <1>0, LeastElement
  <1>2. CASE x = 0
    <2>1. IsMix(0, [i \in 0 .. 0 |-> {<<>>}])
      BY DEF IsMix, MixStep
    <2> QED
      BY <1>2, <2>1
  <1>3. CASE x # 0
    <2>1. x - 1 \in Nat /\ x - 1 \notin T
      BY <1>1, <1>3
    <2>2. PICK g : IsMix(x - 1, g)
      BY <2>1
    <2> DEFINE h == [i \in 0 .. x |-> IF i = x THEN MixStep(g, x) ELSE g[i]]
    <2>3. \A i \in 0 .. x : h[i] = MixStep(h, i)
      <3> SUFFICES ASSUME NEW i \in 0 .. x PROVE h[i] = MixStep(h, i)
        OBVIOUS
      <3>1. CASE i = x
        <4>1. h[x - 1] = g[x - 1] /\ h[x] = MixStep(g, x)
          BY <1>3, <2>1
        <4> QED
          BY <1>3, <3>1, <4>1 DEF MixStep
      <3>2. CASE i # x
        <4>1. i \in 0 .. x - 1 /\ h[i] = g[i]
          BY <3>2
        <4>2. g[i] = MixStep(g, i)
          BY <2>2, <4>1 DEF IsMix
        <4>3. i # 0 => h[i - 1] = g[i - 1]
          BY <3>2
        <4> QED
          BY <4>1, <4>2, <4>3 DEF MixStep
      <3> QED
        BY <3>1, <3>2
    <2>4. IsMix(x, h)
      <3> DEFINE l == [i \in 0 .. x |-> MixStep(h, i)]
      <3>1. \A i \in 0 .. x : h[i] = l[i]
        BY <2>3
      <3> QED
        BY <3>1 DEF IsMix
    <2> HIDE DEF h
    <2> QED
      BY <2>4
  <1> QED
    BY <1>2, <1>3

\* Each cell of f is some file's of V at that place.
CellsFrom(f, V) == \A i \in 1 .. Len(f) : \E v \in V : f[i] = At(v, i)

\* The mixes of length n have n cells, each of some content since the sync.
LEMMA MixUpToCells ==
    ASSUME Max(Lengths) \in Nat, versions \in SUBSET Seq(Cells),
           NEW n \in 0 .. Max(Lengths), NEW s \in MixUpTo[n]
    PROVE  s \in Seq(Cells) /\ Len(s) = n /\ CellsFrom(s, versions)
  <1> DEFINE mix == MixUpTo
             M == Max(Lengths)
             P(t, i) == t \in Seq(Cells) /\ Len(t) = i /\ CellsFrom(t, versions)
             T == {i \in 0 .. M : \E t \in mix[i] : ~ P(t, i)}
  <1>1. mix = CHOOSE g : IsMix(M, g)
    BY DEF MixUpTo, IsMix, MixStep, Grown
  <1>2. IsMix(M, mix)
    BY <1>1, MixExists
  <1>3. \A i \in 0 .. M : mix[i] = MixStep(mix, i)
    BY <1>2 DEF IsMix
  <1> HIDE DEF mix
  <1>4. ASSUME T # {} PROVE FALSE
    <2>1. PICK x \in T : \A y \in T : x <= y
      <3>1. T \in SUBSET Nat
        OBVIOUS
      <3> QED
        BY <1>4, <3>1, LeastElement
    <2>2. PICK t \in mix[x] : ~ P(t, x)
      OBVIOUS
    <2>3. CASE x = 0
      <3>1. t = <<>>
        <4>1. 0 \in 0 .. M /\ mix[0] = MixStep(mix, 0)
          BY <1>3, <2>3
        <4>2. MixStep(mix, 0) = {<<>>}
          BY DEF MixStep
        <4> QED
          BY <2>2, <2>3, <4>1, <4>2
      <3>2. P(t, 0)
        BY <3>1 DEF CellsFrom
      <3> QED
        BY <2>2, <2>3, <3>2
    <2>4. CASE x # 0
      <3>1. x - 1 \in 0 .. M /\ x - 1 \notin T /\ x \in Nat \ {0}
        BY <2>1, <2>4
      <3>2. PICK u \in mix[x - 1], v \in versions : t = Append(u, At(v, x))
        <4>1. t \in Grown(mix[x - 1], x)
          <5>1. mix[x] = MixStep(mix, x)
            BY <1>3, <3>1
          <5> QED
            BY <2>2, <2>4, <5>1 DEF MixStep
        <4> QED
          BY <4>1 DEF Grown
      <3>3. P(u, x - 1)
        BY <3>1, <3>2
      <3>4. At(v, x) \in Cells
        BY <3>1, AtCells
      <3>5. t \in Seq(Cells) /\ Len(t) = x
        BY <3>1, <3>2, <3>3, <3>4
      <3>6. ASSUME NEW i \in 1 .. x
            PROVE  \E w \in versions : t[i] = At(w, i)
        <4>1. CASE i = x
          <5>1. t[x] = At(v, x)
            BY <3>1, <3>2, <3>3, <3>4
          <5> QED
            BY <4>1, <5>1
        <4>2. CASE i # x
          <5>1. i \in 1 .. Len(u) /\ t[i] = u[i]
            BY <3>1, <3>2, <3>3, <3>4, <4>2
          <5> QED
            BY <3>3, <5>1 DEF CellsFrom
        <4> QED
          BY <4>1, <4>2
      <3> QED
        BY <2>2, <3>5, <3>6 DEF CellsFrom
    <2> QED
      BY <2>3, <2>4
  <1> QED
    BY <1>4 DEF mix

\* What a power loss can leave: the stub of a header, or a file no shorter than
\* one content and no longer than another, each cell from one of them.
LEMMA MixesCells ==
    ASSUME versions \in SUBSET Seq(Cells), versions # {},
           NEW b \in Nat, \A v \in versions : Len(v) <= b,
           NEW f \in Mixes
    PROVE  \/ f = <<Stub>> /\ <<>> \in versions
           \/ /\ f \in Seq(Cells) /\ CellsFrom(f, versions)
              /\ \E v \in versions : Len(v) <= Len(f)
              /\ \E v \in versions : Len(f) <= Len(v)
  <1>1. Lengths \in SUBSET Nat /\ Lengths # {} /\ \A x \in Lengths : x <= b
    <2>1. \A v \in versions : Len(v) \in Nat
      BY LenProperties
    <2> QED
      BY <2>1 DEF Lengths
  <1>2. Max(Lengths) \in Lengths /\ Min(Lengths) \in Lengths
    BY <1>1, Greatest, Smallest
  <1>3. Max(Lengths) \in Nat /\ Min(Lengths) \in Nat
    BY <1>1, <1>2
  <1>4. SUFFICES ASSUME NEW n \in Min(Lengths) .. Max(Lengths), f \in MixUpTo[n]
                 PROVE  /\ f \in Seq(Cells) /\ CellsFrom(f, versions)
                        /\ \E v \in versions : Len(v) <= Len(f)
                        /\ \E v \in versions : Len(f) <= Len(v)
    <2>1. \/ \E n \in Min(Lengths) .. Max(Lengths) : f \in MixUpTo[n]
          \/ f = <<Stub>> /\ <<>> \in versions
      BY DEF Mixes
    <2> QED
      BY <1>4, <2>1, Zenon
  <1>5. f \in Seq(Cells) /\ Len(f) = n /\ CellsFrom(f, versions)
    <2>1. n \in 0 .. Max(Lengths)
      BY <1>3
    <2> QED
      BY <1>3, <1>4, <2>1, MixUpToCells
  <1>6. PICK v \in versions, w \in versions : Len(v) = Max(Lengths) /\ Len(w) = Min(Lengths)
    BY <1>2 DEF Lengths
  <1>7. Len(w) <= Len(f) /\ Len(f) <= Len(v)
    BY <1>3, <1>5, <1>6
  <1> QED
    BY <1>5, <1>7

\* The frames that every content carries are carried by every mix of them.
LEMMA MixCarries ==
    ASSUME versions \in SUBSET Seq(Cells), versions # {},
           NEW b \in Nat, \A v \in versions : Len(v) <= b,
           NEW S, NEW p \in Seq(S), \A v \in versions : Carries(v, p),
           NEW f \in Mixes
    PROVE  f \in Seq(Cells) /\ Carries(f, p)
  <1>1. Len(p) \in Nat
    BY LenProperties
  <1>2. <<>> \notin versions
    BY DEF Carries, HasHeader
  <1>3. /\ f \in Seq(Cells) /\ CellsFrom(f, versions)
        /\ \E v \in versions : Len(v) <= Len(f)
    BY <1>2, MixesCells
  <1>4. Len(f) \in Nat /\ 3 * Len(p) + 1 <= Len(f)
    <2>1. PICK v \in versions : Len(v) <= Len(f)
      BY <1>3
    <2>2. Len(v) \in Nat /\ Len(f) \in Nat /\ 3 * Len(p) + 1 <= Len(v)
      BY <1>3, LenProperties DEF Carries
    <2> QED
      BY <1>1, <2>1, <2>2
  <1>5. HasHeader(f)
    <2>1. 1 \in 1 .. Len(f)
      BY <1>1, <1>4
    <2>2. PICK v \in versions : f[1] = At(v, 1)
      BY <1>3, <2>1 DEF CellsFrom
    <2>3. HasHeader(v) /\ Len(v) \in Nat
      BY <1>1, LenProperties DEF Carries
    <2> QED
      BY <1>1, <1>4, <2>2, <2>3 DEF HasHeader, At
  <1>6. ASSUME NEW k \in 1 .. Len(p)
        PROVE  Slot(f, k, p[k])
    <2>1. /\ 3 * k - 1 \in 1 .. Len(f) /\ 3 * k \in 1 .. Len(f)
          /\ 3 * k + 1 \in 1 .. Len(f)
      BY <1>1, <1>4
    <2>2. \A v \in versions : /\ 3 * k - 1 <= Len(v) /\ 3 * k <= Len(v)
                               /\ 3 * k + 1 <= Len(v) /\ Slot(v, k, p[k])
      <3>1. ASSUME NEW v \in versions
            PROVE  /\ 3 * k - 1 <= Len(v) /\ 3 * k <= Len(v)
                   /\ 3 * k + 1 <= Len(v) /\ Slot(v, k, p[k])
        <4>1. Len(v) \in Nat /\ 3 * Len(p) + 1 <= Len(v) /\ Slot(v, k, p[k])
          BY LenProperties DEF Carries
        <4> QED
          BY <1>1, <4>1
      <3> QED
        BY <3>1
    <2>3. f[3 * k - 1] = Cell("length", p[k])
      <3>1. PICK v \in versions : f[3 * k - 1] = At(v, 3 * k - 1)
        BY <1>3, <2>1 DEF CellsFrom
      <3> QED
        BY <2>2, <3>1 DEF Slot, At
    <2>4. f[3 * k] = Cell("crc", p[k])
      <3>1. PICK v \in versions : f[3 * k] = At(v, 3 * k)
        BY <1>3, <2>1 DEF CellsFrom
      <3> QED
        BY <2>2, <3>1 DEF Slot, At
    <2>5. f[3 * k + 1] = Cell("payload", p[k])
      <3>1. PICK v \in versions : f[3 * k + 1] = At(v, 3 * k + 1)
        BY <1>3, <2>1 DEF CellsFrom
      <3> QED
        BY <2>2, <3>1 DEF Slot, At
    <2> QED
      BY <2>3, <2>4, <2>5 DEF Slot
  <1> QED
    BY <1>3, <1>4, <1>5, <1>6 DEF Carries

\* So is a frame that stands in every content.
LEMMA MixStands ==
    ASSUME versions \in SUBSET Seq(Cells), versions # {},
           NEW b \in Nat, \A v \in versions : Len(v) <= b,
           NEW n, NEW i \in Nat \ {0}, \A v \in versions : Stands(v, i, n),
           NEW f \in Mixes
    PROVE  f \in Seq(Cells) /\ Stands(f, i, n)
  <1>1. <<>> \notin versions
    BY DEF Stands
  <1>2. /\ f \in Seq(Cells) /\ CellsFrom(f, versions)
        /\ \E v \in versions : Len(v) <= Len(f)
    BY <1>1, MixesCells
  <1>3. Len(f) \in Nat /\ i + 2 <= Len(f)
    <2>1. PICK v \in versions : Len(v) <= Len(f)
      BY <1>2
    <2>2. Len(v) \in Nat /\ Len(f) \in Nat /\ i + 2 <= Len(v)
      BY <1>2, LenProperties DEF Stands
    <2> QED
      BY <2>1, <2>2
  <1>4. i \in 1 .. Len(f) /\ i + 1 \in 1 .. Len(f) /\ i + 2 \in 1 .. Len(f)
    BY <1>3
  <1>5. \A v \in versions : /\ i <= Len(v) /\ i + 1 <= Len(v) /\ i + 2 <= Len(v)
                             /\ v[i] = Cell("length", n)
                             /\ v[i + 1] = Cell("crc", n)
                             /\ v[i + 2] = Cell("payload", n)
    <2>1. ASSUME NEW v \in versions
          PROVE  /\ i <= Len(v) /\ i + 1 <= Len(v) /\ i + 2 <= Len(v)
                 /\ v[i] = Cell("length", n)
                 /\ v[i + 1] = Cell("crc", n)
                 /\ v[i + 2] = Cell("payload", n)
      <3>1. v \in Seq(Cells) /\ Len(v) \in Nat /\ Stands(v, i, n)
        BY LenProperties
      <3>2. /\ i + 2 <= Len(v) /\ v[i] = Cell("length", n)
            /\ v[i + 1] = Cell("crc", n) /\ v[i + 2] = Cell("payload", n)
        BY <3>1, StandsCells
      <3> QED
        BY <3>1, <3>2
    <2> QED
      BY <2>1
  <1>6. f[i] = Cell("length", n)
    <2>1. PICK v \in versions : f[i] = At(v, i)
      BY <1>2, <1>4 DEF CellsFrom
    <2> QED
      BY <1>5, <2>1 DEF At
  <1>7. f[i + 1] = Cell("crc", n)
    <2>1. PICK v \in versions : f[i + 1] = At(v, i + 1)
      BY <1>2, <1>4 DEF CellsFrom
    <2> QED
      BY <1>5, <2>1 DEF At
  <1>8. f[i + 2] = Cell("payload", n)
    <2>1. PICK v \in versions : f[i + 2] = At(v, i + 2)
      BY <1>2, <1>4 DEF CellsFrom
    <2> QED
      BY <1>5, <2>1 DEF At
  <1> QED
    BY <1>2, <1>3, <1>6, <1>7, <1>8, StandsCells

-----------------------------------------------------------------------------
(* The inductive invariant.                                                *)

\* Whatever a read or a power loss can still return.
All == versions \cup before

\* Its files are of bounded length, made of cells of the frames so far.
Filed ==
    /\ \A f \in All : \A i \in 1 .. Len(f) :
          /\ f[i].of < next
          /\ f[i].is \in {"length", "crc", "payload"} => f[i].of >= 1
    /\ \E b \in Nat : \A f \in versions : Len(f) <= b

\* A frame that is written and not yet answered for is nobody's.
Numbered ==
    /\ \A k \in 1 .. Len(log) : log[k] < next
    /\ next >= 2 /\ folded < next
    /\ pc \in {"barrier", "undo", "undosync"} => next - 1 \notin acked

\* Where the owner is, and what the file is then.
Pointed ==
    /\ pc \notin {"saving", "cut", "cutsync", "upgrade", "upgradesync"} => point = NoPoint
    /\ pc \in {"saving", "cut"} => HasHeader(file) /\ point = Scan(file)
Opened ==
    /\ pc \in {"cutsync", "upgrade", "upgradesync"} => Image(file, Frames(file))
    /\ pc = "upgradesync" => file[1] = V4
    /\ pc \in {"create", "header"} => file = <<>>
    /\ pc \in {"createsync", "headersync"} => file = <<V4>>
Appending ==
    /\ pc = "barrier" \/ (pc = "ready" /\ ~poisoned)
          => end = Len(file) /\ Image(file, log) /\ file[1] = V4
    /\ pc = "barrier" => sync = "Barrier" /\ log # <<>> /\ Last(log) = next - 1
Undoing ==
    /\ pc = "undo" => /\ end = 3 * Len(Undone) + 1 /\ end <= Len(file)
                      /\ file[1] = V4 /\ Carries(file, Undone)
                      /\ \A j \in end + 1 .. Len(file) : file[j].of = next - 1
                      /\ sync = "PageCache" => Undone = log
    /\ pc = "undosync" => end = Len(file) /\ Image(file, Undone) /\ file[1] = V4
Phase == Pointed /\ Opened /\ Appending /\ Undoing

Resetting == {"restart", "create", "createsync", "empty", "header", "headersync"}
Owed(n) == n \in promised /\ n > folded

\* Everything the disk may return carries a promised frame, behind the same ones.
Served(n) == \E p \in Seq(1 .. MaxFrames) :
    p # <<>> /\ Last(p) = n /\ \A f \in All : Carries(f, p)
ServedOK == \A n \in promised \ struck : Owed(n) => pc \notin Resetting /\ Served(n)

\* ... or has it at one place, which an open that is to cut the file spares.
Held(n) == \E i \in Nat \ {0} :
    /\ pc = "cut" => i + 2 <= point.valid
    /\ \A f \in All : Stands(f, i, n)
HeldOK == \A n \in promised \ damaged :
    Owed(n) => n \in asides \/ (pc \notin Resetting /\ Held(n))

\* No older header is over a promise of this build.
HeaderOK == (\E f \in All : Len(f) > 0 /\ f[1] = V3) => promised \subseteq {1}

\* Payloads are where the log has them, if nobody left a cut unsynced.
Placed ==
    \A f \in All : \A i \in 1 .. Len(f) : f[i].is = "payload" =>
        \E k \in 1 .. Len(log) : i = 3 * k + 1 /\ f[i].of = log[k]
Prefixed ==
    pc \in {"closed", "saving", "cut", "upgrade"} =>
        before = {} /\ \A v \in versions : IsPrefix(v, file)
PayloadOK == ~halted => Placed /\ Prefixed

IInv == TypeOK /\ Filed /\ Numbered /\ Phase /\ ServedOK /\ HeldOK /\ HeaderOK /\ PayloadOK

-----------------------------------------------------------------------------
(* What a step leaves on the disk.                                         *)

Cutting(f) == pc = "cut" /\ point.valid < Len(file) /\ f = SetLen(file, point.valid)
Upgrading(f) == pc = "upgrade" /\ f = [file EXCEPT ![1] = V4]
Growing(f) ==
    /\ pc = "ready" /\ ~poisoned /\ next <= MaxFrames /\ next' = next + 1
    /\ \E k \in 0 .. 3 : /\ f = file \o SubSeq(FrameOf(next), 1, k)
                         /\ k = 3 => log' = Append(log, next)
Shrinking(f) == pc = "undo" /\ f = SetLen(file, end)
Heading(f) ==
    \/ pc \in {"restart", "empty"} /\ f = <<>>
    \/ pc \in {"create", "header"} /\ f = <<V4>>
Damaging(f) ==
    /\ pc = "closed" /\ versions = {file} /\ before = {}
    /\ \E i \in 2 .. Len(file), kind \in {"zero", "junk", "short", "huge"} :
          /\ f = [file EXCEPT ![i] = Cell(kind, 0)]
          /\ file[i].of \in damaged'
          /\ \A j \in i .. Len(file) : file[j].of # 0 => file[j].of \in struck'
NewFile(f) ==
    f \in All \/ f \in Mixes \/ Heading(f) \/ Cutting(f) \/ Upgrading(f)
    \/ Growing(f) \/ Shrinking(f) \/ Damaging(f)

\* The three ways a step that writes no content leaves the disk.
LEMMA SyncedAll ==
    ASSUME TypeOK, Synced
    PROVE  All' \subseteq All
  BY DEF TypeOK, Synced, All

LEMMA WroteAll ==
    ASSUME NEW g, Wrote(g)
    PROVE  All' = All \cup {g}
  BY DEF Wrote, All

LEMMA EmptiedAll ==
    ASSUME Emptied
    PROVE  All' \subseteq All \cup Mixes \cup {<<>>}
  BY DEF Emptied, All

\* Every content after a step is one of before, a mix, or what the step wrote.
LEMMA NewFiles ==
    ASSUME TypeOK, [Next]_vars
    PROVE  \A f \in All' : NewFile(f)
  <1>1. CASE UNCHANGED vars
    BY <1>1 DEF vars, disk, All, NewFile
  <1>2. CASE Open
    BY <1>2 DEF Open, disk, All, NewFile
  <1>3. CASE SaveAside
    BY <1>3 DEF SaveAside, disk, All, NewFile
  <1>4. CASE Cut
    <2>1. CASE point.valid < Len(file)
      <3>1. pc = "cut" /\ Wrote(SetLen(file, point.valid))
        BY <1>4, <2>1 DEF Cut
      <3>2. All' = All \cup {SetLen(file, point.valid)}
        BY <3>1, WroteAll
      <3> QED
        BY <2>1, <3>1, <3>2 DEF NewFile, Cutting
    <2>2. CASE ~(point.valid < Len(file))
      BY <1>4, <2>2 DEF Cut, disk, All, NewFile
    <2> QED
      BY <2>1, <2>2
  <1>5. CASE CutSync
    <2>1. All' \subseteq All
      BY <1>5, SyncedAll DEF CutSync
    <2> QED
      BY <2>1 DEF NewFile
  <1>6. CASE Upgrade
    <2>1. CASE file[1] = V4
      BY <1>6, <2>1 DEF Upgrade, All, NewFile
    <2>2. CASE file[1] # V4
      <3>1. pc = "upgrade" /\ Wrote([file EXCEPT ![1] = V4])
        BY <1>6, <2>2 DEF Upgrade
      <3>2. All' = All \cup {[file EXCEPT ![1] = V4]}
        BY <3>1, WroteAll
      <3> QED
        BY <3>1, <3>2 DEF NewFile, Upgrading
    <2> QED
      BY <2>1, <2>2
  <1>7. CASE UpgradeSync
    <2>1. All' \subseteq All
      BY <1>7, SyncedAll DEF UpgradeSync
    <2> QED
      BY <2>1 DEF NewFile
  <1>8. CASE OpenFails
    BY <1>8 DEF OpenFails, Left, All, NewFile
  <1>9. CASE Restart("restart", "create")
    <2>1. pc = "restart" /\ All' \subseteq All \cup Mixes \cup {<<>>}
      BY <1>9, EmptiedAll DEF Restart
    <2> QED
      BY <2>1 DEF NewFile, Heading
  <1>10. CASE WriteHeader("create", "createsync")
    <2>1. pc = "create" /\ All' = All \cup {<<V4>>}
      BY <1>10, WroteAll DEF WriteHeader
    <2> QED
      BY <2>1 DEF NewFile, Heading
  <1>11. CASE SyncHeader("createsync")
    <2>1. All' \subseteq All
      BY <1>11, SyncedAll DEF SyncHeader
    <2> QED
      BY <2>1 DEF NewFile
  <1>12. CASE Write
    <2>1. /\ pc = "ready" /\ ~poisoned /\ next <= MaxFrames /\ next' = next + 1
          /\ Wrote(file \o FrameOf(next)) /\ log' = Append(log, next)
      BY <1>12 DEF Write
    <2>2. next \in 1 .. MaxFrames
      BY <2>1, WalFileAssumption DEF TypeOK
    <2>3. All' = All \cup {file \o SubSeq(FrameOf(next), 1, 3)}
      BY <2>1, <2>2, WroteAll, WholeFrame
    <2>4. 3 \in 0 .. 3
      OBVIOUS
    <2>5. Growing(file \o SubSeq(FrameOf(next), 1, 3))
      BY <2>1, <2>4 DEF Growing
    <2> QED
      BY <2>3, <2>5 DEF NewFile
  <1>13. CASE WriteFails
    <2>1. PICK k \in 0 .. 2 : Wrote(file \o SubSeq(FrameOf(next), 1, k))
      BY <1>13 DEF WriteFails
    <2>2. All' = All \cup {file \o SubSeq(FrameOf(next), 1, k)}
      BY <2>1, WroteAll
    <2>3. k \in 0 .. 3 /\ k # 3
      OBVIOUS
    <2>4. Growing(file \o SubSeq(FrameOf(next), 1, k))
      BY <1>13, <2>3 DEF Growing, WriteFails
    <2> QED
      BY <2>2, <2>4 DEF NewFile
  <1>14. CASE Barrier
    <2>1. All' \subseteq All
      BY <1>14, SyncedAll DEF Barrier
    <2> QED
      BY <2>1 DEF NewFile
  <1>15. CASE BarrierFails
    BY <1>15 DEF BarrierFails, disk, All, NewFile
  <1>16. CASE Undo
    <2>1. pc = "undo" /\ All' = All \cup {SetLen(file, end)}
      BY <1>16, WroteAll DEF Undo
    <2> QED
      BY <2>1 DEF NewFile, Shrinking
  <1>17. CASE UndoSync
    <2>1. All' \subseteq All
      BY <1>17, SyncedAll DEF UndoSync
    <2> QED
      BY <2>1 DEF NewFile
  <1>18. CASE UndoFails
    BY <1>18 DEF UndoFails, disk, All, NewFile
  <1>19. CASE Sync
    <2>1. All' \subseteq All
      BY <1>19, SyncedAll DEF Sync
    <2> QED
      BY <2>1 DEF NewFile
  <1>20. CASE Fold
    <2>1. All' \subseteq All
      BY <1>20, SyncedAll DEF Fold
    <2> QED
      BY <2>1 DEF NewFile
  <1>21. CASE Restart("empty", "header")
    <2>1. pc = "empty" /\ All' \subseteq All \cup Mixes \cup {<<>>}
      BY <1>21, EmptiedAll DEF Restart
    <2> QED
      BY <2>1 DEF NewFile, Heading
  <1>22. CASE WriteHeader("header", "headersync")
    <2>1. pc = "header" /\ All' = All \cup {<<V4>>}
      BY <1>22, WroteAll DEF WriteHeader
    <2> QED
      BY <2>1 DEF NewFile, Heading
  <1>23. CASE SyncHeader("headersync")
    <2>1. All' \subseteq All
      BY <1>23, SyncedAll DEF SyncHeader
    <2> QED
      BY <2>1 DEF NewFile
  <1>24. CASE Close
    BY <1>24 DEF Close, Left, All, NewFile
  <1>25. CASE ProcessDies
    BY <1>25 DEF ProcessDies, Left, All, NewFile
  <1>26. CASE PowerLoss
    <2>1. PICK f \in Mixes \cup before : versions' = {f} /\ before' = {}
      BY <1>26 DEF PowerLoss
    <2>2. All' = {f}
      BY <2>1 DEF All
    <2> QED
      BY <2>1, <2>2 DEF NewFile, All
  <1>27. CASE Damage
    <2>1. PICK i \in 2 .. Len(file) :
            /\ file[i].is \in {"length", "crc", "payload"}
            /\ \E kind \in {"zero", "junk"} \cup
                           (IF file[i].is = "length" THEN {"short", "huge"} ELSE {}) :
                  /\ file' = [file EXCEPT ![i] = Cell(kind, 0)]
                  /\ damaged' = damaged \cup {file[i].of}
                  /\ struck' = struck \cup ({file[j].of : j \in i .. Len(file)} \ {0})
      BY <1>27 DEF Damage
    <2>2. PICK kind \in {"zero", "junk", "short", "huge"} :
            /\ file' = [file EXCEPT ![i] = Cell(kind, 0)]
            /\ damaged' = damaged \cup {file[i].of}
            /\ struck' = struck \cup ({file[j].of : j \in i .. Len(file)} \ {0})
      BY <2>1
    <2>3. pc = "closed" /\ versions = {file} /\ before = {} /\ versions' = {file'}
          /\ before' = before
      BY <1>27 DEF Damage
    <2>4. All' = {file'}
      BY <2>3 DEF All
    <2>5. Damaging(file')
      <3>1. \A j \in i .. Len(file) : file[j].of # 0 => file[j].of \in struck'
        BY <2>2
      <3> QED
        BY <2>2, <2>3, <3>1 DEF Damaging
    <2> QED
      BY <2>4, <2>5 DEF NewFile
  <1> QED
    BY <1>1, <1>2, <1>3, <1>4, <1>5, <1>6, <1>7, <1>8, <1>9, <1>10, <1>11, <1>12,
       <1>13, <1>14, <1>15, <1>16, <1>17, <1>18, <1>19, <1>20, <1>21, <1>22, <1>23,
       <1>24, <1>25, <1>26, <1>27 DEF Next, Opens, Appends, Resets

\* The cells of a file are older ones, blanks, or those of the next frame.
OldCell(f, i) == \E v \in All : i \in 1 .. Len(v) /\ f[i] = v[i]
BlankCell(c) == c.of = 0 /\ c.is \notin {"length", "crc", "payload", "v3"}
FreshCell(f, i) ==
    /\ pc = "ready" /\ ~poisoned /\ next \in 1 .. MaxFrames /\ next' = next + 1
    /\ \E k \in 1 .. 3 :
          i = Len(file) + k /\ f[i] = FrameOf(next)[k] /\ (k = 3 => log' = Append(log, next))

\* A file with a header is one of a first cell.
LEMMA ImageHead ==
    ASSUME NEW f \in Seq(Cells), HasHeader(f)
    PROVE  Len(f) \in Nat \ {0} /\ 1 \in 1 .. Len(f) /\ f[1] \in {V3, V4}
  <1>1. Len(f) \in Nat
    BY LenProperties
  <1> QED
    BY <1>1 DEF HasHeader

LEMMA NewFileCells ==
    ASSUME IInv, NEW f, NewFile(f)
    PROVE  /\ f \in Seq(Cells)
           /\ \A i \in 1 .. Len(f) : OldCell(f, i) \/ BlankCell(f[i]) \/ FreshCell(f, i)
  <1>0. /\ versions \in SUBSET Seq(Cells) /\ before \in SUBSET Seq(Cells)
        /\ file \in versions /\ file \in Seq(Cells) /\ Len(file) \in Nat
    BY LenProperties DEF IInv, TypeOK
  <1>b. BlankCell(Zero) /\ BlankCell(V4) /\ BlankCell(Stub)
    BY NamedCells DEF BlankCell
  <1>1. CASE f \in All
    BY <1>0, <1>1 DEF All, OldCell
  <1>2. CASE f \in Mixes
    <2>1. PICK b \in Nat : \A v \in versions : Len(v) <= b
      BY DEF IInv, Filed
    <2>2. \/ f = <<Stub>> /\ <<>> \in versions
          \/ f \in Seq(Cells) /\ CellsFrom(f, versions)
      BY <1>0, <1>2, <2>1, MixesCells
    <2>3. CASE f = <<Stub>>
      <3>1. f \in Seq(Cells) /\ Len(f) = 1 /\ f[1] = Stub
        BY <2>3, NamedCells
      <3> QED
        BY <1>b, <3>1
    <2>4. CASE f \in Seq(Cells) /\ CellsFrom(f, versions)
      <3>1. ASSUME NEW i \in 1 .. Len(f)
            PROVE  OldCell(f, i) \/ BlankCell(f[i])
        <4>1. PICK v \in versions : f[i] = At(v, i)
          BY <2>4 DEF CellsFrom
        <4>2. CASE i <= Len(v)
          <5>1. i \in 1 .. Len(v)
            BY <1>0, <4>2, LenProperties
          <5> QED
            BY <4>1, <4>2, <5>1 DEF OldCell, All, At
        <4>3. CASE ~(i <= Len(v))
          BY <1>b, <4>1, <4>3 DEF At
        <4> QED
          BY <4>2, <4>3
      <3> QED
        BY <2>4, <3>1
    <2> QED
      BY <2>2, <2>3, <2>4
  <1>3. CASE Heading(f)
    <2>1. CASE f = <<>>
      BY <2>1
    <2>2. CASE f = <<V4>>
      <3>1. f \in Seq(Cells) /\ Len(f) = 1 /\ f[1] = V4
        BY <2>2, NamedCells
      <3> QED
        BY <1>b, <3>1
    <2> QED
      BY <1>3, <2>1, <2>2 DEF Heading
  <1>4. ASSUME NEW n \in Nat, n <= Len(file), f = SetLen(file, n)
        PROVE  f \in Seq(Cells) /\ \A i \in 1 .. Len(f) : OldCell(f, i)
    <2>1. /\ f \in Seq(Cells) /\ Len(f) = n
          /\ \A i \in 1 .. n : f[i] = IF i <= Len(file) THEN file[i] ELSE Zero
      BY <1>0, <1>4, SetLenCells
    <2>2. \A i \in 1 .. n : i \in 1 .. Len(file)
      BY <1>0, <1>4
    <2>3. file \in All
      BY <1>0 DEF All
    <2> QED
      BY <1>0, <2>1, <2>2, <2>3 DEF OldCell
  <1>5. CASE Cutting(f)
    <2>1. point.valid \in Nat /\ point.valid <= Len(file) /\ f = SetLen(file, point.valid)
      BY <1>5 DEF IInv, TypeOK, ResumePoint, Cutting
    <2> QED
      BY <1>4, <2>1
  <1>6. CASE Shrinking(f)
    <2>1. end \in Nat /\ end <= Len(file) /\ f = SetLen(file, end)
      BY <1>6 DEF IInv, TypeOK, Phase, Undoing, Shrinking
    <2> QED
      BY <1>4, <2>1
  <1>7. CASE Upgrading(f)
    <2>1. 1 \in 1 .. Len(file)
      BY <1>0, <1>7, ImageHead DEF IInv, Phase, Opened, Image, Carries, Upgrading
    <2>2. /\ f \in Seq(Cells) /\ Len(f) = Len(file)
          /\ \A i \in 1 .. Len(file) : f[i] = IF i = 1 THEN V4 ELSE file[i]
      BY <1>0, <1>7, <2>1, NamedCells, ExceptSeq DEF Upgrading
    <2> QED
      BY <1>0, <1>b, <2>2 DEF OldCell, All
  <1>8. CASE Growing(f)
    <2>1. PICK k \in 0 .. 3 : /\ f = file \o SubSeq(FrameOf(next), 1, k)
                              /\ k = 3 => log' = Append(log, next)
      BY <1>8 DEF Growing
    <2>2. next \in 1 .. MaxFrames
      BY <1>8, WalFileAssumption DEF Growing, IInv, TypeOK
    <2>3. /\ f \in Seq(Cells) /\ Len(f) = Len(file) + k
          /\ \A i \in 1 .. Len(file) : f[i] = file[i]
          /\ \A i \in 1 .. k : f[Len(file) + i] = FrameOf(next)[i]
      BY <1>0, <2>1, <2>2, AppendedCells
    <2>4. ASSUME NEW i \in 1 .. Len(f)
          PROVE  OldCell(f, i) \/ FreshCell(f, i)
      <3>1. CASE i <= Len(file)
        <4>1. i \in 1 .. Len(file) /\ file \in All
          BY <1>0, <3>1 DEF All
        <4> QED
          BY <2>3, <4>1 DEF OldCell
      <3>2. CASE ~(i <= Len(file))
        <4>1. i - Len(file) \in 1 .. k /\ i - Len(file) \in 1 .. 3
              /\ i = Len(file) + (i - Len(file)) /\ (i - Len(file) = 3 => k = 3)
          BY <1>0, <2>3, <3>2
        <4>2. f[i] = FrameOf(next)[i - Len(file)]
          BY <2>3, <4>1
        <4> QED
          BY <1>8, <2>1, <2>2, <4>1, <4>2 DEF FreshCell, Growing
      <3> QED
        BY <3>1, <3>2
    <2> QED
      BY <2>3, <2>4
  <1>9. CASE Damaging(f)
    <2>1. PICK i \in 2 .. Len(file), kind \in {"zero", "junk", "short", "huge"} :
            f = [file EXCEPT ![i] = Cell(kind, 0)]
      BY <1>9 DEF Damaging
    <2>2. Cell(kind, 0) \in Cells /\ BlankCell(Cell(kind, 0))
      BY WalFileAssumption DEF Cell, Cells, BlankCell
    <2>3. /\ f \in Seq(Cells) /\ Len(f) = Len(file)
          /\ \A j \in 1 .. Len(file) : f[j] = IF j = i THEN Cell(kind, 0) ELSE file[j]
      <3>1. i \in 1 .. Len(file)
        BY <1>0
      <3> QED
        BY <1>0, <2>1, <2>2, <3>1, ExceptSeq
    <2> QED
      BY <1>0, <2>2, <2>3 DEF OldCell, All
  <1> QED
    BY <1>1, <1>2, <1>3, <1>5, <1>6, <1>7, <1>8, <1>9 DEF NewFile

-----------------------------------------------------------------------------
(* The initial states.                                                     *)

\* The log an older build left.
LEMMA OlderLog ==
    LET g == <<V3>> \o FrameOf(1)
    IN  /\ g \in Seq(Cells) /\ Len(g) = 4 /\ g[1] = V3
        /\ g[2] = Cell("length", 1) /\ g[3] = Cell("crc", 1) /\ g[4] = Cell("payload", 1)
        /\ Image(g, <<1>>) /\ Frames(g) = <<1>>
  <1> DEFINE h == <<V3>>
             g == h \o FrameOf(1)
  <1>1. h \in Seq(Cells) /\ Len(h) = 1 /\ h[1] = V3
    BY NamedCells
  <1>2. 1 \in 1 .. MaxFrames
    BY WalFileAssumption
  <1> HIDE DEF h
  <1>3. g = h \o SubSeq(FrameOf(1), 1, 3)
    BY <1>2, WholeFrame
  <1> HIDE DEF g
  <1>4. /\ g \in Seq(Cells) /\ Len(g) = Len(h) + 3
        /\ \A i \in 1 .. Len(h) : g[i] = h[i]
        /\ \A i \in 1 .. 3 : g[Len(h) + i] = FrameOf(1)[i]
    <2>1. 3 \in 0 .. 3
      OBVIOUS
    <2> QED
      <3>1. PICK n \in 1 .. MaxFrames, k \in 0 .. 3 : n = 1 /\ k = 3
        BY <1>2, <2>1
      <3>2. g = h \o SubSeq(FrameOf(n), 1, k)
        BY <1>3, <3>1
      <3>3. /\ g \in Seq(Cells) /\ Len(g) = Len(h) + k
            /\ \A i \in 1 .. Len(h) : g[i] = h[i]
            /\ \A i \in 1 .. k : g[Len(h) + i] = FrameOf(n)[i]
        <4>1. h \in Seq(Cells)
          BY <1>1
        <4>2. LET u == h \o SubSeq(FrameOf(n), 1, k)
              IN  /\ u \in Seq(Cells) /\ Len(u) = Len(h) + k
                  /\ \A i \in 1 .. Len(h) : u[i] = h[i]
                  /\ \A i \in 1 .. k : u[Len(h) + i] = FrameOf(n)[i]
          BY <4>1, AppendedCells
        <4> QED
          BY <3>2, <4>2, Zenon
      <3> QED
        BY <3>1, <3>3
  <1>5. Len(g) = 4 /\ g[1] = V3
    BY <1>1, <1>4
  <1>6. g[2] = FrameOf(1)[1] /\ g[3] = FrameOf(1)[2] /\ g[4] = FrameOf(1)[3]
    <2>1. /\ g[1 + 1] = FrameOf(1)[1] /\ g[1 + 2] = FrameOf(1)[2]
          /\ g[1 + 3] = FrameOf(1)[3]
      BY <1>1, <1>4
    <2>2. 1 + 1 = 2 /\ 1 + 2 = 3 /\ 1 + 3 = 4
      OBVIOUS
    <2> QED
      BY <2>1, <2>2, Zenon
  <1>7. g[2] = Cell("length", 1) /\ g[3] = Cell("crc", 1) /\ g[4] = Cell("payload", 1)
    BY <1>6, FrameCells
  <1> DEFINE p == <<1>>
  <1>8. p \in Seq({1}) /\ Len(p) = 1 /\ p[1] = 1
    OBVIOUS
  <1> HIDE DEF p
  <1>9. Image(g, p)
    <2>1. \A k \in 1 .. Len(p) : k = 1
      BY <1>8
    <2>2. 3 * 1 - 1 = 2 /\ 3 * 1 = 3 /\ 3 * 1 + 1 = 4
      OBVIOUS
    <2>3. Slot(g, 1, 1)
      BY <1>7, <2>2 DEF Slot
    <2> QED
      BY <1>5, <1>8, <2>1, <2>3 DEF Image, Carries, HasHeader
  <1>10. Frames(g) = p
    BY <1>4, <1>8, <1>9, ImageIsRead
  <1> QED
    BY <1>4, <1>5, <1>7, <1>9, <1>10 DEF p, g, h

LEMMA InitInv == Init => IInv
  <1> SUFFICES ASSUME Init PROVE IInv
    OBVIOUS
  <1>1. PICK f \in {<<>>, <<V3>> \o FrameOf(1)} :
          /\ file = f /\ versions = {f} /\ before = {} /\ log = Frames(f)
          /\ acked = ToSet(log) /\ promised = acked
    BY DEF Init
  <1>2. /\ sync \in Modes /\ halted = FALSE /\ pc = "closed" /\ point = NoPoint
        /\ end = 0 /\ poisoned = FALSE /\ asides = {} /\ next = 2 /\ folded = 0
        /\ damaged = {} /\ struck = {} /\ losses = 0 /\ folds = 0
    BY DEF Init
  <1>3. All = {file}
    BY <1>1 DEF All
  <1>4. /\ file \in Seq(Cells) /\ Len(file) \in Nat
        /\ \A i \in 1 .. Len(file) :
              /\ file[i].of < next
              /\ file[i].is \in {"length", "crc", "payload"} => file[i].of >= 1
              /\ file[i].is = "payload" => i = 4 /\ Len(log) = 1 /\ log[1] = 1 /\ file[i].of = 1
        /\ log = <<>> \/ (log = <<1>> /\ Image(file, <<1>>))
    <2>1. CASE f = <<>>
      <3>1. Frames(f) = <<>>
        BY <2>1 DEF Frames, HasHeader
      <3> QED
        BY <1>1, <2>1, <3>1
    <2>2. CASE f = <<V3>> \o FrameOf(1)
      <3>1. /\ file \in Seq(Cells) /\ Len(file) = 4 /\ file[1] = V3
            /\ file[2] = Cell("length", 1) /\ file[3] = Cell("crc", 1) /\ file[4] = Cell("payload", 1)
            /\ Image(file, <<1>>) /\ Frames(file) = <<1>>
        BY <1>1, <2>2, OlderLog, Zenon
      <3>2. /\ file[1].is = "v3" /\ file[1].of = 0
            /\ file[2].is = "length" /\ file[2].of = 1
            /\ file[3].is = "crc" /\ file[3].of = 1
            /\ file[4].is = "payload" /\ file[4].of = 1
        BY <3>1 DEF Cell, V3
      <3>3. \A i \in 1 .. Len(file) : i = 1 \/ i = 2 \/ i = 3 \/ i = 4
        BY <3>1
      <3>4. log = <<1>> /\ Len(log) = 1 /\ log[1] = 1
        BY <1>1, <3>1
      <3> QED
        BY <1>2, <3>1, <3>2, <3>3, <3>4
    <2> QED
      BY <1>1, <2>1, <2>2
  <1>5. log = <<>> \/ log = <<1>>
    BY <1>4
  <1>6. log \in Seq(1 .. MaxFrames) /\ acked \subseteq {1} /\ \A k \in 1 .. Len(log) : log[k] = 1
    <2>1. 1 \in 1 .. MaxFrames
      BY WalFileAssumption
    <2>2. acked = {log[i] : i \in DOMAIN log}
      BY <1>1 DEF ToSet
    <2>3. CASE log = <<>>
      BY <2>2, <2>3
    <2>4. CASE log = <<1>>
      <3>1. log \in Seq(1 .. MaxFrames) /\ DOMAIN log = {1} /\ Len(log) = 1 /\ log[1] = 1
        BY <2>1, <2>4
      <3> QED
        BY <2>2, <3>1
    <2> QED
      BY <1>5, <2>3, <2>4
  <1>7. TypeOK
    <2>1. acked \subseteq 1 .. next - 1 /\ next \in 1 .. MaxFrames + 1
      BY <1>2, <1>6, WalFileAssumption
    <2>2. point \in ResumePoint /\ point.valid <= Len(file)
      BY <1>2, <1>4 DEF NoPoint, ResumePoint
    <2>3. /\ file \in versions /\ versions \in SUBSET Seq(Cells) /\ before \in SUBSET Seq(Cells)
          /\ promised \subseteq acked
      BY <1>1, <1>4
    <2>4. /\ folded \in 0 .. MaxFrames /\ losses \in 0 .. MaxLosses /\ folds \in 0 .. MaxFolds
          /\ end \in Nat
      BY <1>2, WalFileAssumption
    <2> QED
      BY <1>2, <1>4, <1>6, <2>1, <2>2, <2>3, <2>4 DEF TypeOK
  <1>8. Filed /\ Numbered
    <2>1. \E b \in Nat : \A v \in versions : Len(v) <= b
      BY <1>1, <1>4
    <2> QED
      BY <1>2, <1>3, <1>4, <1>6, <2>1 DEF Filed, Numbered
  <1>9. Phase
    BY <1>2 DEF Phase, Pointed, Opened, Appending, Undoing
  <1>10. ASSUME NEW n \in promised
         PROVE  n = 1 /\ Image(file, <<1>>)
    BY <1>1, <1>4, <1>6 DEF ToSet
  <1>11. ServedOK
    <2>1. ASSUME NEW n \in promised
          PROVE  Served(n)
      <3> DEFINE p == <<1>>
      <3>1. p \in Seq(1 .. MaxFrames) /\ p # <<>> /\ Last(p) = 1
        BY WalFileAssumption DEF Last
      <3>2. Carries(file, p) /\ n = 1
        BY <1>10, <2>1 DEF Image
      <3> QED
        BY <1>3, <3>1, <3>2 DEF Served
    <2> QED
      BY <1>2, <2>1 DEF ServedOK, Resetting
  <1>12. HeldOK
    <2>1. ASSUME NEW n \in promised
          PROVE  Held(n)
      <3>1. n = 1 /\ Image(file, <<1>>)
        BY <1>10
      <3>2. /\ Len(file) = 4 /\ file[2] = Cell("length", 1) /\ file[3] = Cell("crc", 1)
            /\ file[4] = Cell("payload", 1)
        <4>1. file # <<>>
          BY <3>1 DEF Image, Carries, HasHeader
        <4> QED
          BY <1>1, <4>1, OlderLog, Zenon
      <3>3. 2 + 2 <= Len(file) /\ 2 + 1 = 3 /\ 2 + 2 = 4 /\ 2 \in Nat \ {0}
        BY <3>2
      <3>4. Stands(file, 2, 1)
        BY <1>4, <3>2, <3>3, StandsCells
      <3> QED
        BY <1>2, <1>3, <3>1, <3>3, <3>4 DEF Held
    <2> QED
      BY <1>2, <2>1 DEF HeldOK, Resetting
  <1>13. HeaderOK
    BY <1>10 DEF HeaderOK
  <1>14. PayloadOK
    <2>1. Placed
      <3>1. ASSUME NEW i \in 1 .. Len(file), file[i].is = "payload"
            PROVE  \E k \in 1 .. Len(log) : i = 3 * k + 1 /\ file[i].of = log[k]
        <4>1. i = 4 /\ Len(log) = 1 /\ log[1] = 1 /\ file[i].of = 1
          BY <1>4, <3>1
        <4>2. 1 \in 1 .. Len(log) /\ i = 3 * 1 + 1
          BY <4>1
        <4> QED
          BY <4>1, <4>2
      <3> QED
        BY <1>3, <3>1 DEF Placed
    <2>2. Prefixed
      BY <1>1, <1>4, PrefixElements DEF Prefixed
    <2> QED
      BY <2>1, <2>2 DEF PayloadOK
  <1> QED
    BY <1>7, <1>8, <1>9, <1>11, <1>12, <1>13, <1>14 DEF IInv

-----------------------------------------------------------------------------
(* What every step preserves of the files and the numbers.                 *)

\* A step adds one content at most, the one a read then returns.
LEMMA StepVersions ==
    ASSUME TypeOK, [Next]_vars
    PROVE  versions' \subseteq versions \cup {file'} /\ file' \in versions'
  <1>0. file \in versions
    BY DEF TypeOK
  <1>1. CASE UNCHANGED vars
    BY <1>0, <1>1 DEF vars, disk, handle, answers, hurt
  <1>2. CASE Open
    BY <1>0, <1>2 DEF Open, disk
  <1>3. CASE SaveAside
    BY <1>0, <1>3 DEF SaveAside, disk
  <1>4. CASE Cut
    BY <1>0, <1>4 DEF Cut, disk, Wrote
  <1>5. CASE CutSync
    BY <1>0, <1>5 DEF CutSync, Synced
  <1>6. CASE Upgrade
    BY <1>0, <1>6 DEF Upgrade, Wrote
  <1>7. CASE UpgradeSync
    BY <1>0, <1>7 DEF UpgradeSync, Synced
  <1>8. CASE OpenFails
    BY <1>0, <1>8 DEF OpenFails, Left
  <1>9. CASE Restart("restart", "create")
    BY <1>0, <1>9 DEF Restart, Emptied
  <1>10. CASE WriteHeader("create", "createsync")
    BY <1>0, <1>10 DEF WriteHeader, Wrote
  <1>11. CASE SyncHeader("createsync")
    BY <1>0, <1>11 DEF SyncHeader, Synced
  <1>12. CASE Write
    BY <1>0, <1>12 DEF Write, Wrote
  <1>13. CASE WriteFails
    BY <1>0, <1>13 DEF WriteFails, Wrote
  <1>14. CASE Barrier
    BY <1>0, <1>14 DEF Barrier, Synced
  <1>15. CASE BarrierFails
    BY <1>0, <1>15 DEF BarrierFails, disk
  <1>16. CASE Undo
    BY <1>0, <1>16 DEF Undo, Wrote
  <1>17. CASE UndoSync
    BY <1>0, <1>17 DEF UndoSync, Synced
  <1>18. CASE UndoFails
    BY <1>0, <1>18 DEF UndoFails, disk
  <1>19. CASE Sync
    BY <1>0, <1>19 DEF Sync, Synced
  <1>20. CASE Fold
    BY <1>0, <1>20 DEF Fold, Synced
  <1>21. CASE Restart("empty", "header")
    BY <1>0, <1>21 DEF Restart, Emptied
  <1>22. CASE WriteHeader("header", "headersync")
    BY <1>0, <1>22 DEF WriteHeader, Wrote
  <1>23. CASE SyncHeader("headersync")
    BY <1>0, <1>23 DEF SyncHeader, Synced
  <1>24. CASE Close
    BY <1>0, <1>24 DEF Close, Left
  <1>25. CASE ProcessDies
    BY <1>0, <1>25 DEF ProcessDies, Left
  <1>26. CASE PowerLoss
    BY <1>0, <1>26 DEF PowerLoss
  <1>27. CASE Damage
    BY <1>0, <1>27 DEF Damage
  <1> QED
    BY <1>1, <1>2, <1>3, <1>4, <1>5, <1>6, <1>7, <1>8, <1>9, <1>10, <1>11,
       <1>12, <1>13, <1>14, <1>15, <1>16, <1>17, <1>18, <1>19, <1>20, <1>21, <1>22,
       <1>23, <1>24, <1>25, <1>26, <1>27 DEF Next, Opens, Appends, Resets

\* A fold takes in the whole log.
LEMMA FoldedIsMax ==
    ASSUME TypeOK
    PROVE  LET t == Max(ToSet(log) \cup {folded})
           IN  /\ t \in ToSet(log) \cup {folded} /\ t \in 0 .. MaxFrames /\ folded <= t
               /\ \A k \in 1 .. Len(log) : log[k] <= t
  <1> DEFINE T == ToSet(log) \cup {folded}
  <1>1. log \in Seq(1 .. MaxFrames) /\ folded \in 0 .. MaxFrames /\ MaxFrames \in Nat
    BY WalFileAssumption DEF TypeOK
  <1>2. DOMAIN log = 1 .. Len(log) /\ \A k \in 1 .. Len(log) : log[k] \in 1 .. MaxFrames
    <2>1. DOMAIN log = 1 .. Len(log)
      BY <1>1, LenProperties
    <2>2. \A k \in 1 .. Len(log) : log[k] \in 1 .. MaxFrames
      BY <1>1, ElementOfSeq, Zenon
    <2> QED
      BY <2>1, <2>2
  <1>3. T \subseteq 0 .. MaxFrames /\ folded \in T /\ \A k \in 1 .. Len(log) : log[k] \in T
    <2>1. ToSet(log) = {log[k] : k \in 1 .. Len(log)}
      BY <1>2, Zenon DEF ToSet
    <2>2. 1 .. MaxFrames \subseteq 0 .. MaxFrames
      OBVIOUS
    <2>3. ToSet(log) \subseteq 0 .. MaxFrames /\ \A k \in 1 .. Len(log) : log[k] \in ToSet(log)
      BY <1>2, <2>1, <2>2, Zenon
    <2> QED
      BY <1>1, <2>3, Zenon
  <1> HIDE DEF T
  <1>4. T \in SUBSET Nat /\ T # {} /\ \A x \in T : x <= MaxFrames
    BY <1>1, <1>3
  <1>5. Max(T) \in T /\ \A x \in T : x <= Max(T)
    BY <1>1, <1>4, Greatest
  <1> QED
    BY <1>3, <1>5 DEF T

\* A step numbers one frame at most, and takes no promise back.
LEMMA StepNumbers ==
    ASSUME TypeOK, [Next]_vars
    PROVE  /\ next' \in 1 .. MaxFrames + 1 /\ next <= next' /\ next' <= next + 1
           /\ acked \subseteq acked' /\ promised \subseteq promised'
           /\ folded <= folded' /\ folded' \in 0 .. MaxFrames
  <1>0. /\ next \in 1 .. MaxFrames + 1 /\ folded \in 0 .. MaxFrames
        /\ MaxFrames \in Nat /\ next \in Nat /\ folded \in Nat
    BY WalFileAssumption DEF TypeOK
  <1>1. CASE UNCHANGED vars
    BY <1>0, <1>1 DEF vars, answers
  <1>2. CASE Open
    BY <1>0, <1>2 DEF Open, answers
  <1>3. CASE SaveAside
    BY <1>0, <1>3 DEF SaveAside, answers
  <1>4. CASE Cut
    BY <1>0, <1>4 DEF Cut, answers
  <1>5. CASE CutSync
    BY <1>0, <1>5 DEF CutSync, answers
  <1>6. CASE Upgrade
    BY <1>0, <1>6 DEF Upgrade, answers
  <1>7. CASE UpgradeSync
    BY <1>0, <1>7 DEF UpgradeSync, answers
  <1>8. CASE OpenFails
    BY <1>0, <1>8 DEF OpenFails, answers
  <1>9. CASE Restart("restart", "create")
    BY <1>0, <1>9 DEF Restart, answers
  <1>10. CASE WriteHeader("create", "createsync")
    BY <1>0, <1>10 DEF WriteHeader, answers
  <1>11. CASE SyncHeader("createsync")
    BY <1>0, <1>11 DEF SyncHeader, answers
  <1>12. CASE Write
    BY <1>0, <1>12 DEF Write, Acknowledge
  <1>13. CASE WriteFails
    BY <1>0, <1>13 DEF WriteFails, answers
  <1>14. CASE Barrier
    BY <1>0, <1>14 DEF Barrier, Acknowledge
  <1>15. CASE BarrierFails
    BY <1>0, <1>15 DEF BarrierFails, answers
  <1>16. CASE Undo
    BY <1>0, <1>16 DEF Undo, answers
  <1>17. CASE UndoSync
    BY <1>0, <1>17 DEF UndoSync, answers
  <1>18. CASE UndoFails
    BY <1>0, <1>18 DEF UndoFails, answers
  <1>19. CASE Sync
    BY <1>0, <1>19 DEF Sync, answers
  <1>20. CASE Fold
    BY <1>0, <1>20, FoldedIsMax DEF Fold, answers
  <1>21. CASE Restart("empty", "header")
    BY <1>0, <1>21 DEF Restart, answers
  <1>22. CASE WriteHeader("header", "headersync")
    BY <1>0, <1>22 DEF WriteHeader, answers
  <1>23. CASE SyncHeader("headersync")
    BY <1>0, <1>23 DEF SyncHeader, answers
  <1>24. CASE Close
    BY <1>0, <1>24 DEF Close, answers
  <1>25. CASE ProcessDies
    BY <1>0, <1>25 DEF ProcessDies, answers
  <1>26. CASE PowerLoss
    BY <1>0, <1>26 DEF PowerLoss, answers
  <1>27. CASE Damage
    BY <1>0, <1>27 DEF Damage, answers
  <1> QED
    BY <1>1, <1>2, <1>3, <1>4, <1>5, <1>6, <1>7, <1>8, <1>9, <1>10, <1>11,
       <1>12, <1>13, <1>14, <1>15, <1>16, <1>17, <1>18, <1>19, <1>20, <1>21, <1>22,
       <1>23, <1>24, <1>25, <1>26, <1>27 DEF Next, Opens, Appends, Resets

\* The files stay bounded, and made of the frames so far.
LEMMA FiledNext ==
    ASSUME IInv, [Next]_vars
    PROVE  Filed' /\ \A f \in All' : f \in Seq(Cells)
  <1>1. /\ next \in Nat /\ next' \in Nat /\ next <= next'
    BY StepNumbers DEF IInv, TypeOK
  <1>2. \A f \in All' : NewFile(f)
    BY NewFiles DEF IInv
  <1>3. ASSUME NEW f \in All', NEW i \in 1 .. Len(f)
        PROVE  /\ f[i].of < next'
               /\ f[i].is \in {"length", "crc", "payload"} => f[i].of >= 1
    <2>1. OldCell(f, i) \/ BlankCell(f[i]) \/ FreshCell(f, i)
      BY <1>2, NewFileCells
    <2>2. CASE OldCell(f, i)
      <3>1. PICK v \in All : i \in 1 .. Len(v) /\ f[i] = v[i]
        BY <2>2 DEF OldCell
      <3>2. v[i].of < next /\ v[i].of \in Nat
        <4>1. v \in Seq(Cells)
          BY DEF IInv, TypeOK, All
        <4>2. v[i] \in Cells
          BY <3>1, <4>1, ElementOfSeq
        <4> QED
          BY <3>1, <4>2 DEF IInv, Filed, Cells
      <3>3. v[i].is \in {"length", "crc", "payload"} => v[i].of >= 1
        BY <3>1 DEF IInv, Filed
      <3> QED
        BY <1>1, <3>1, <3>2, <3>3
    <2>3. CASE BlankCell(f[i])
      <3>1. 0 < next'
        BY StepNumbers DEF IInv
      <3> QED
        BY <2>3, <3>1 DEF BlankCell
    <2>4. CASE FreshCell(f, i)
      <3>1. next \in 1 .. MaxFrames /\ next' = next + 1
            /\ \E k \in 1 .. 3 : f[i] = FrameOf(next)[k]
        BY <2>4 DEF FreshCell
      <3>2. f[i].of = next
        BY <3>1, FrameIsFile
      <3> QED
        BY <1>1, <3>1, <3>2
    <2> QED
      BY <2>1, <2>2, <2>3, <2>4
  <1>4. \A f \in All' : f \in Seq(Cells)
    BY <1>2, NewFileCells
  <1>5. \E b \in Nat : \A f \in versions' : Len(f) <= b
    <2>1. PICK b \in Nat : \A f \in versions : Len(f) <= b
      BY DEF IInv, Filed
    <2>2. versions' \subseteq versions \cup {file'} /\ file' \in versions'
      BY StepVersions DEF IInv
    <2>3. Len(file') \in Nat /\ \A f \in versions : Len(f) \in Nat
      <3>1. file' \in Seq(Cells)
        BY <1>4, <2>2 DEF All
      <3> QED
        BY <3>1, LenProperties DEF IInv, TypeOK
    <2>4. \A f \in versions' : Len(f) <= b + Len(file')
      BY <2>1, <2>2, <2>3
    <2> QED
      BY <2>1, <2>3, <2>4
  <1> QED
    BY <1>3, <1>4, <1>5 DEF Filed

\* Promises are made by a barrier, or by a sync on demand.
LEMMA StepPromises ==
    ASSUME [Next]_vars
    PROVE  promised' = promised \/ Barrier \/ Sync
  <1>1. CASE UNCHANGED vars
    BY <1>1 DEF vars, answers
  <1>2. CASE Open
    BY <1>2 DEF Open, answers
  <1>3. CASE SaveAside
    BY <1>3 DEF SaveAside, answers
  <1>4. CASE Cut
    BY <1>4 DEF Cut, answers
  <1>5. CASE CutSync
    BY <1>5 DEF CutSync, answers
  <1>6. CASE Upgrade
    BY <1>6 DEF Upgrade, answers
  <1>7. CASE UpgradeSync
    BY <1>7 DEF UpgradeSync, answers
  <1>8. CASE OpenFails
    BY <1>8 DEF OpenFails, answers
  <1>9. CASE Restart("restart", "create")
    BY <1>9 DEF Restart, answers
  <1>10. CASE WriteHeader("create", "createsync")
    BY <1>10 DEF WriteHeader, answers
  <1>11. CASE SyncHeader("createsync")
    BY <1>11 DEF SyncHeader, answers
  <1>12. CASE Write
    BY <1>12 DEF Write, answers
  <1>13. CASE WriteFails
    BY <1>13 DEF WriteFails, answers
  <1>14. CASE Barrier
    BY <1>14
  <1>15. CASE BarrierFails
    BY <1>15 DEF BarrierFails, answers
  <1>16. CASE Undo
    BY <1>16 DEF Undo, answers
  <1>17. CASE UndoSync
    BY <1>17 DEF UndoSync, answers
  <1>18. CASE UndoFails
    BY <1>18 DEF UndoFails, answers
  <1>19. CASE Sync
    BY <1>19
  <1>20. CASE Fold
    BY <1>20 DEF Fold, answers
  <1>21. CASE Restart("empty", "header")
    BY <1>21 DEF Restart, answers
  <1>22. CASE WriteHeader("header", "headersync")
    BY <1>22 DEF WriteHeader, answers
  <1>23. CASE SyncHeader("headersync")
    BY <1>23 DEF SyncHeader, answers
  <1>24. CASE Close
    BY <1>24 DEF Close, answers
  <1>25. CASE ProcessDies
    BY <1>25 DEF ProcessDies, answers
  <1>26. CASE PowerLoss
    BY <1>26 DEF PowerLoss, answers
  <1>27. CASE Damage
    BY <1>27 DEF Damage, answers
  <1> QED
    BY <1>1, <1>2, <1>3, <1>4, <1>5, <1>6, <1>7, <1>8, <1>9, <1>10, <1>11,
       <1>12, <1>13, <1>14, <1>15, <1>16, <1>17, <1>18, <1>19, <1>20, <1>21, <1>22,
       <1>23, <1>24, <1>25, <1>26, <1>27 DEF Next, Opens, Appends, Resets

\* ... of a file that is the log and is synced.
LEMMA PromisedImage ==
    ASSUME IInv, Barrier \/ Sync
    PROVE  /\ All' = {file} /\ file' = file /\ log' = log /\ Image(file, log) /\ file[1] = V4
           /\ next' = next /\ damaged' = damaged /\ struck' = struck /\ folded' = folded
           /\ asides' = asides /\ pc' = "ready" /\ acked \subseteq acked'
           /\ \A n \in promised' : n \in promised \/ \E k \in 1 .. Len(log) : log[k] = n
  <1>0. log \in Seq(1 .. MaxFrames)
    BY DEF IInv, TypeOK
  <1>1. CASE Barrier
    <2>1. /\ Image(file, log) /\ file[1] = V4 /\ log # <<>> /\ Last(log) = next - 1
      BY <1>1 DEF IInv, Phase, Appending, Barrier
    <2>2. Len(log) \in 1 .. Len(log) /\ log[Len(log)] = next - 1
      BY <1>0, <2>1 DEF Last
    <2>3. All' = {file} /\ file' = file
      BY <1>1 DEF Barrier, Synced, All
    <2> QED
      BY <1>1, <2>1, <2>2, <2>3 DEF Barrier, Acknowledge, handle, hurt
  <1>2. CASE Sync
    <2>1. Image(file, log) /\ file[1] = V4
      BY <1>2 DEF IInv, Phase, Appending, Sync
    <2>2. All' = {file} /\ file' = file
      BY <1>2 DEF Sync, Synced, All
    <2>3. \A n \in ToSet(log) : \E k \in 1 .. Len(log) : log[k] = n
      BY <1>0, LenProperties DEF ToSet
    <2> QED
      BY <1>2, <2>1, <2>2, <2>3 DEF Sync, handle, hurt
  <1> QED
    BY <1>1, <1>2

\* No older header comes over a frame: only an owner behind one of this build promises.
LEMMA HeaderNext ==
    ASSUME IInv, [Next]_vars
    PROVE  HeaderOK'
  <1> SUFFICES ASSUME NEW f \in All', Len(f) > 0, f[1] = V3
               PROVE  promised' \subseteq {1}
    BY DEF HeaderOK
  <1>1. V3 # V4 /\ V3.is = "v3"
    BY DEF V3, V4, Cell
  <1>2. ~(Barrier \/ Sync)
    BY <1>1, PromisedImage
  <1>3. promised' = promised
    BY <1>2, StepPromises
  <1>4. f \in Seq(Cells) /\ 1 \in 1 .. Len(f)
    BY FiledNext, LenProperties
  <1>5. OldCell(f, 1) \/ BlankCell(f[1]) \/ FreshCell(f, 1)
    <2>1. NewFile(f)
      BY NewFiles DEF IInv
    <2> QED
      BY <1>4, <2>1, NewFileCells
  <1>6. ~BlankCell(f[1])
    BY <1>1 DEF BlankCell
  <1>7. ~FreshCell(f, 1)
    <2> SUFFICES ASSUME FreshCell(f, 1) PROVE FALSE
      OBVIOUS
    <2>1. PICK k \in 1 .. 3 : 1 = Len(file) + k
      BY DEF FreshCell
    <2>2. Len(file) \in Nat \ {0}
      <3>1. HasHeader(file) /\ file \in Seq(Cells)
        BY DEF IInv, TypeOK, Phase, Appending, Image, Carries, FreshCell
      <3> QED
        BY <3>1, ImageHead
    <2> QED
      BY <2>1, <2>2
  <1>8. PICK v \in All : 1 \in 1 .. Len(v) /\ v[1] = V3
    BY <1>5, <1>6, <1>7 DEF OldCell
  <1>9. Len(v) > 0
    <2>1. Len(v) \in Nat
      BY LenProperties DEF IInv, TypeOK, All
    <2> QED
      BY <1>8, <2>1
  <1> QED
    BY <1>3, <1>8, <1>9 DEF IInv, HeaderOK

\* A file cut behind the slots of p carries p still.
LEMMA CutCarries ==
    ASSUME NEW f \in Seq(Cells), NEW n \in Nat, n <= Len(f),
           NEW S, NEW p \in Seq(S), Carries(f, p), 3 * Len(p) + 1 <= n
    PROVE  Carries(SetLen(f, n), p)
  <1>1. Len(p) \in Nat /\ Len(f) \in Nat
    BY LenProperties
  <1>2. /\ SetLen(f, n) \in Seq(Cells) /\ Len(SetLen(f, n)) = n
        /\ \A i \in 1 .. n : SetLen(f, n)[i] = f[i]
    <2>1. \A i \in 1 .. n : i <= Len(f)
      BY <1>1
    <2> QED
      BY <2>1, SetLenCells
  <1>3. HasHeader(SetLen(f, n))
    <2>1. 1 \in 1 .. n /\ n > 0
      BY <1>1
    <2>2. HasHeader(f)
      BY DEF Carries
    <2> QED
      BY <1>2, <2>1, <2>2 DEF HasHeader
  <1>4. \A i \in 2 .. 3 * Len(p) + 1 : SetLen(f, n)[i] = f[i]
    BY <1>1, <1>2
  <1> QED
    BY <1>2, <1>3, <1>4, SameSlots

\* What every content carries, every content of the next state does.
LEMMA CarriedOn ==
    ASSUME IInv, [Next]_vars, pc \notin Resetting,
           NEW p \in Seq(1 .. MaxFrames), p # <<>>, \A f \in All : Carries(f, p),
           Last(p) \in acked, Last(p) \notin struck'
    PROVE  \A f \in All' : Carries(f, p)
  <1> SUFFICES ASSUME NEW f \in All' PROVE Carries(f, p)
    OBVIOUS
  <1>0. /\ versions \in SUBSET Seq(Cells) /\ versions # {} /\ file \in All
        /\ file \in Seq(Cells) /\ Len(file) \in Nat
    BY LenProperties DEF IInv, TypeOK, All
  <1>1. NewFile(f) /\ f \in Seq(Cells)
    BY FiledNext, NewFiles DEF IInv
  <1>2. Carries(file, p) /\ HasHeader(file) /\ 3 * Len(p) + 1 <= Len(file)
    BY <1>0 DEF Carries
  <1>3. Len(p) \in Nat \ {0} /\ Len(p) \in 1 .. Len(p) /\ Last(p) = p[Len(p)]
        /\ p[Len(p)] \in 1 .. MaxFrames
    <2>1. Len(p) \in Nat \ {0}
      BY EmptySeq
    <2>2. Len(p) \in 1 .. Len(p)
      BY <2>1
    <2> QED
      BY <2>1, <2>2, ElementOfSeq DEF Last
  <1>4. file[3 * Len(p) + 1].of = Last(p)
    BY <1>0, <1>2, <1>3, CarriedIsRead
  <1>5. CASE f \in All
    BY <1>5
  <1>6. CASE f \in Mixes
    <2>1. PICK b \in Nat : \A v \in versions : Len(v) <= b
      BY DEF IInv, Filed
    <2>2. \A v \in versions : Carries(v, p)
      BY DEF All
    <2> QED
      BY <1>0, <1>6, <2>1, <2>2, MixCarries
  <1>7. CASE Heading(f)
    BY <1>7 DEF Heading, Resetting
  <1>8. CASE Cutting(f)
    <2>1. point.valid = 3 * Reach(file) + 1 /\ point.valid \in Nat /\ point.valid <= Len(file)
      BY <1>8 DEF Cutting, IInv, TypeOK, ResumePoint, Phase, Pointed, Scan, ValidLen
    <2>2. Len(p) <= Reach(file) /\ Reach(file) \in Nat
      BY <1>0, <1>2, CarriedIsRead, Scanned
    <2>3. 3 * Len(p) + 1 <= point.valid
      BY <1>3, <2>1, <2>2
    <2> QED
      BY <1>0, <1>2, <1>8, <2>1, <2>3, CutCarries DEF Cutting
  <1>9. CASE Shrinking(f)
    <2>1. /\ end = 3 * Len(Undone) + 1 /\ end <= Len(file) /\ end \in Nat
          /\ \A j \in end + 1 .. Len(file) : file[j].of = next - 1
          /\ next - 1 \notin acked
      BY <1>9 DEF Shrinking, IInv, TypeOK, Phase, Undoing, Numbered
    <2>2. ~(3 * Len(p) + 1 \in end + 1 .. Len(file))
      BY <1>4, <2>1
    <2>3. 3 * Len(p) + 1 <= end
      BY <1>0, <1>2, <1>3, <2>1, <2>2
    <2> QED
      BY <1>0, <1>2, <1>9, <2>1, <2>3, CutCarries DEF Shrinking
  <1>10. CASE Upgrading(f)
    <2>1. /\ Len(f) = Len(file)
          /\ \A i \in 1 .. Len(file) : f[i] = IF i = 1 THEN V4 ELSE file[i]
      <3>1. 1 \in 1 .. Len(file)
        BY <1>0, <1>2, ImageHead
      <3> QED
        BY <1>0, <1>10, <3>1, NamedCells, ExceptSeq DEF Upgrading
    <2>2. HasHeader(f)
      BY <1>0, <1>2, <2>1, ImageHead DEF HasHeader
    <2>3. \A i \in 2 .. 3 * Len(p) + 1 : f[i] = file[i]
      BY <1>0, <1>2, <1>3, <2>1
    <2> QED
      BY <1>2, <2>1, <2>2, <2>3, SameSlots
  <1>11. CASE Growing(f)
    <2>1. PICK k \in 0 .. 3 : f = file \o SubSeq(FrameOf(next), 1, k)
      BY <1>11 DEF Growing
    <2>2. next \in 1 .. MaxFrames
      BY <1>11, WalFileAssumption DEF Growing, IInv, TypeOK
    <2>3. Len(f) = Len(file) + k /\ \A i \in 1 .. Len(file) : f[i] = file[i]
      <3>1. file \in Seq(Cells)
        BY <1>0
      <3>2. Len(file \o SubSeq(FrameOf(next), 1, k)) = Len(file) + k
        BY <2>2, <3>1, AppendedCells
      <3>3. \A i \in 1 .. Len(file) : (file \o SubSeq(FrameOf(next), 1, k))[i] = file[i]
        BY <2>2, <3>1, AppendedCells
      <3> QED
        BY <2>1, <3>2, <3>3, Zenon
    <2>4. HasHeader(f)
      BY <1>0, <1>2, <2>3, ImageHead DEF HasHeader
    <2>5. 3 * Len(p) + 1 <= Len(f) /\ \A i \in 2 .. 3 * Len(p) + 1 : f[i] = file[i]
      BY <1>0, <1>2, <1>3, <2>3, SMTT(40)
    <2> QED
      BY <1>2, <2>4, <2>5, SameSlots
  <1>12. CASE Damaging(f)
    <2>1. PICK i \in 2 .. Len(file), kind \in {"zero", "junk", "short", "huge"} :
            /\ f = [file EXCEPT ![i] = Cell(kind, 0)]
            /\ \A j \in i .. Len(file) : file[j].of # 0 => file[j].of \in struck'
      BY <1>12 DEF Damaging
    <2>2. Cell(kind, 0) \in Cells
      BY WalFileAssumption DEF Cell, Cells
    <2>3. /\ Len(f) = Len(file)
          /\ \A j \in 1 .. Len(file) : f[j] = IF j = i THEN Cell(kind, 0) ELSE file[j]
      <3>1. i \in 1 .. Len(file)
        BY <1>0
      <3> QED
        BY <1>0, <2>1, <2>2, <3>1, ExceptSeq
    <2>4. ~(3 * Len(p) + 1 \in i .. Len(file))
      BY <1>3, <1>4, <2>1
    <2>5. 3 * Len(p) + 1 < i
      BY <1>0, <1>2, <1>3, <2>4
    <2>6. HasHeader(f)
      <3>1. 1 \in 1 .. Len(file) /\ 1 # i
        BY <1>0, <1>2, ImageHead
      <3> QED
        BY <1>2, <2>3, <3>1 DEF HasHeader
    <2>7. \A j \in 2 .. 3 * Len(p) + 1 : f[j] = file[j]
      BY <1>0, <1>2, <1>3, <2>3, <2>5
    <2> QED
      BY <1>2, <2>3, <2>6, <2>7, SameSlots
  <1> QED
    BY <1>1, <1>5, <1>6, <1>7, <1>8, <1>9, <1>10, <1>11, <1>12 DEF NewFile

\* A length cell within what the scan reached begins a frame that ends there too.
LEMMA WithinReach ==
    ASSUME NEW f \in Seq(Cells), HasHeader(f), NEW i \in Nat \ {0}, NEW n, Stands(f, i, n),
           ~(i + 2 <= ValidLen(f))
    PROVE  i > ValidLen(f)
  <1>1. /\ Frames(f) \in Seq(0 .. MaxFrames) /\ Len(Frames(f)) = Reach(f)
        /\ Carries(f, Frames(f)) /\ Reach(f) \in Nat
    BY ReadIsCarried, Scanned
  <1>2. f[i] = Cell("length", n)
    BY StandsCells
  <1>3. ASSUME i <= ValidLen(f)
        PROVE  FALSE
    <2>1. i \in 1 .. 3 * Len(Frames(f)) + 1
      BY <1>1, <1>3 DEF ValidLen
    <2>2. PICK k \in 1 .. Len(Frames(f)) : i = 3 * k - 1
      BY <1>1, <1>2, <2>1, LengthInSlot
    <2> QED
      BY <1>1, <2>2 DEF ValidLen
  <1>4. ValidLen(f) \in Nat
    BY <1>1 DEF ValidLen
  <1> QED
    BY <1>3, <1>4

\* Where a frame stands in every content, it does in every content of the next state.
LEMMA StandsOn ==
    ASSUME IInv, [Next]_vars, pc \notin Resetting,
           NEW n \in acked, n \notin damaged', NEW i \in Nat \ {0},
           pc = "cut" => i + 2 <= point.valid, \A f \in All : Stands(f, i, n)
    PROVE  \A f \in All' : Stands(f, i, n)
  <1> SUFFICES ASSUME NEW f \in All' PROVE Stands(f, i, n)
    OBVIOUS
  <1>0. /\ versions \in SUBSET Seq(Cells) /\ versions # {} /\ file \in All
        /\ file \in Seq(Cells) /\ Len(file) \in Nat
    BY LenProperties DEF IInv, TypeOK, All
  <1>1. NewFile(f) /\ f \in Seq(Cells)
    BY FiledNext, NewFiles DEF IInv
  <1>2. Stands(file, i, n) /\ i + 2 <= Len(file)
    BY <1>0 DEF Stands
  <1>3. /\ file[i] = Cell("length", n) /\ file[i + 1] = Cell("crc", n)
        /\ file[i + 2] = Cell("payload", n)
    BY <1>0, <1>2, StandsCells
  <1>4. \A j \in i .. i + 2 : file[j].of = n /\ j \in 1 .. Len(file)
    <2>1. ASSUME NEW j \in i .. i + 2
          PROVE  file[j].of = n
      <3>1. j = i \/ j = i + 1 \/ j = i + 2
        OBVIOUS
      <3> QED
        BY <1>3, <3>1 DEF Cell
    <2> QED
      BY <1>0, <1>2, <2>1
  <1>5. CASE f \in All
    BY <1>5
  <1>6. CASE f \in Mixes
    <2>1. PICK b \in Nat : \A v \in versions : Len(v) <= b
      BY DEF IInv, Filed
    <2>2. \A v \in versions : Stands(v, i, n)
      BY DEF All
    <2> QED
      BY <1>0, <1>6, <2>1, <2>2, MixStands
  <1>7. CASE Heading(f)
    BY <1>7 DEF Heading, Resetting
  <1>8. ASSUME NEW m \in Nat, f = SetLen(file, m), i + 2 <= m
        PROVE  Stands(f, i, n)
    <2>1. Len(f) = m /\ \A j \in 1 .. m : f[j] = IF j <= Len(file) THEN file[j] ELSE Zero
      BY <1>0, <1>8, SetLenCells
    <2>2. \A j \in i .. i + 2 : f[j] = file[j]
      BY <1>0, <1>4, <1>8, <2>1
    <2> QED
      BY <1>0, <1>1, <1>2, <1>8, <2>1, <2>2, SameStands
  <1>9. CASE Cutting(f)
    <2>1. point.valid \in Nat /\ f = SetLen(file, point.valid) /\ i + 2 <= point.valid
      BY <1>9 DEF Cutting, IInv, TypeOK, ResumePoint
    <2> QED
      BY <1>8, <2>1
  <1>10. CASE Shrinking(f)
    <2>1. /\ end \in Nat /\ f = SetLen(file, end)
          /\ \A j \in end + 1 .. Len(file) : file[j].of = next - 1
          /\ next - 1 \notin acked
      BY <1>10 DEF Shrinking, IInv, TypeOK, Phase, Undoing, Numbered
    <2>2. ~(i + 2 \in end + 1 .. Len(file))
      BY <1>4, <2>1
    <2>3. i + 2 <= end
      BY <1>0, <1>2, <2>1, <2>2
    <2> QED
      BY <1>8, <2>1, <2>3
  <1>11. CASE Upgrading(f)
    <2>1. HasHeader(file)
      BY <1>11 DEF Upgrading, IInv, Phase, Opened, Image, Carries
    <2>2. 1 \in 1 .. Len(file) /\ file[1] \in {V3, V4}
      BY <1>0, <2>1, ImageHead
    <2>3. /\ Len(f) = Len(file)
          /\ \A j \in 1 .. Len(file) : f[j] = IF j = 1 THEN V4 ELSE file[j]
      BY <1>0, <1>11, <2>2, NamedCells, ExceptSeq DEF Upgrading
    <2>4. i # 1
      <3>1. file[i].is = "length" /\ V3.is = "v3" /\ V4.is = "v4"
        BY <1>3 DEF Cell, V3, V4
      <3> QED
        BY <2>2, <3>1
    <2>5. \A j \in i .. i + 2 : f[j] = file[j]
      BY <1>4, <2>3, <2>4
    <2> QED
      BY <1>0, <1>1, <1>2, <2>3, <2>5, SameStands
  <1>12. CASE Growing(f)
    <2>1. PICK k \in 0 .. 3 : f = file \o SubSeq(FrameOf(next), 1, k)
      BY <1>12 DEF Growing
    <2>2. next \in 1 .. MaxFrames
      BY <1>12, WalFileAssumption DEF Growing, IInv, TypeOK
    <2>3. Len(f) = Len(file) + k /\ \A j \in 1 .. Len(file) : f[j] = file[j]
      BY <1>0, <2>1, <2>2, AppendedCells
    <2>4. i + 2 <= Len(f) /\ \A j \in i .. i + 2 : f[j] = file[j]
      BY <1>0, <1>2, <1>4, <2>3
    <2> QED
      BY <1>0, <1>1, <1>2, <2>4, SameStands
  <1>13. CASE Damaging(f)
    <2>1. PICK c \in 2 .. Len(file), kind \in {"zero", "junk", "short", "huge"} :
            /\ f = [file EXCEPT ![c] = Cell(kind, 0)]
            /\ file[c].of \in damaged'
      BY <1>13 DEF Damaging
    <2>2. Cell(kind, 0) \in Cells
      BY WalFileAssumption DEF Cell, Cells
    <2>3. /\ Len(f) = Len(file)
          /\ \A j \in 1 .. Len(file) : f[j] = IF j = c THEN Cell(kind, 0) ELSE file[j]
      <3>1. c \in 1 .. Len(file)
        BY <1>0
      <3> QED
        BY <1>0, <2>1, <2>2, <3>1, ExceptSeq
    <2>4. c \notin i .. i + 2
      BY <1>4, <2>1
    <2>5. \A j \in i .. i + 2 : f[j] = file[j]
      BY <1>4, <2>3, <2>4
    <2> QED
      BY <1>0, <1>1, <1>2, <2>3, <2>5, SameStands
  <1> QED
    BY <1>1, <1>5, <1>6, <1>7, <1>9, <1>10, <1>11, <1>12, <1>13 DEF NewFile

-----------------------------------------------------------------------------
(* Images, and what the owner does to them.                                *)

\* A file grown by cells of the next frame carries what it did.
LEMMA GrownCarries ==
    ASSUME NEW f \in Seq(Cells), NEW S, NEW p \in Seq(S), Carries(f, p),
           NEW n \in 1 .. MaxFrames, NEW k \in 0 .. 3
    PROVE  LET g == f \o SubSeq(FrameOf(n), 1, k)
           IN  /\ g \in Seq(Cells) /\ Carries(g, p) /\ Len(g) = Len(f) + k
               /\ Len(f) \in Nat \ {0} /\ g[1] = f[1]
               /\ \A i \in 1 .. k : g[Len(f) + i] = FrameOf(n)[i] /\ g[Len(f) + i].of = n
  <1> DEFINE g == f \o SubSeq(FrameOf(n), 1, k)
  <1>0. g = f \o SubSeq(FrameOf(n), 1, k)
    OBVIOUS
  <1> HIDE DEF g
  <1>1. /\ g \in Seq(Cells) /\ Len(g) = Len(f) + k
        /\ \A i \in 1 .. Len(f) : g[i] = f[i]
        /\ \A i \in 1 .. k : g[Len(f) + i] = FrameOf(n)[i] /\ g[Len(f) + i].of = n
    <2>1. f \o SubSeq(FrameOf(n), 1, k) \in Seq(Cells)
      BY AppendedCells
    <2>2. Len(f \o SubSeq(FrameOf(n), 1, k)) = Len(f) + k
      BY AppendedCells
    <2>3. \A i \in 1 .. Len(f) : (f \o SubSeq(FrameOf(n), 1, k))[i] = f[i]
      BY AppendedCells
    <2>4. \A i \in 1 .. k : (f \o SubSeq(FrameOf(n), 1, k))[Len(f) + i] = FrameOf(n)[i]
      BY AppendedCells
    <2>5. \A i \in 1 .. k : (f \o SubSeq(FrameOf(n), 1, k))[Len(f) + i].of = n
      BY AppendedCells
    <2> QED
      BY <1>0, <2>1, <2>2, <2>3, <2>4, <2>5, Zenon
  <1>2. Len(p) \in Nat /\ 3 * Len(p) + 1 <= Len(f) /\ HasHeader(f)
    BY LenProperties DEF Carries
  <1>3. Len(f) \in Nat \ {0} /\ 1 \in 1 .. Len(f) /\ f[1] \in {V3, V4}
    BY <1>2, ImageHead
  <1>4. HasHeader(g) /\ g[1] = f[1]
    BY <1>1, <1>3 DEF HasHeader
  <1>5. 3 * Len(p) + 1 <= Len(g) /\ \A i \in 2 .. 3 * Len(p) + 1 : g[i] = f[i]
    <2>1. k \in Nat
      OBVIOUS
    <2>2. 3 * Len(p) + 1 <= Len(f) + k
      BY <1>2, <1>3, <2>1
    <2>3. \A i \in 2 .. 3 * Len(p) + 1 : i \in 1 .. Len(f)
      BY <1>2, <1>3
    <2> QED
      BY <1>1, <2>2, <2>3
  <1>6. Carries(g, p)
    BY <1>4, <1>5, SameSlots
  <1> QED
    BY <1>1, <1>3, <1>4, <1>6 DEF g

\* Appending a frame to the image of a log makes the image of the longer log.
LEMMA GrownImage ==
    ASSUME NEW f \in Seq(Cells), NEW S, NEW p \in Seq(S), Image(f, p),
           NEW n \in 1 .. MaxFrames, n \in S
    PROVE  LET g == f \o FrameOf(n)
           IN  g \in Seq(Cells) /\ Image(g, Append(p, n)) /\ g[1] = f[1] /\ Len(g) = Len(f) + 3
  <1> DEFINE g == f \o FrameOf(n)
             q == Append(p, n)
  <1>1. Len(p) \in Nat /\ Len(f) = 3 * Len(p) + 1 /\ Carries(f, p)
    BY LenProperties DEF Image
  <1>2. /\ q \in Seq(S) /\ Len(q) = Len(p) + 1
        /\ q[Len(p) + 1] = n /\ \A k \in 1 .. Len(p) : q[k] = p[k]
    OBVIOUS
  <1>3. \E k \in 0 .. 3 : k = 3 /\ g = f \o SubSeq(FrameOf(n), 1, k)
    <2>1. FrameOf(n) = SubSeq(FrameOf(n), 1, 3)
      BY WholeFrame
    <2>2. g = f \o SubSeq(FrameOf(n), 1, 3)
      BY <2>1, Zenon
    <2> HIDE DEF g
    <2>3. 3 \in 0 .. 3
      OBVIOUS
    <2> QED
      BY <2>2, <2>3, Zenon
  <1> HIDE DEF g, q
  <1>4. PICK k \in 0 .. 3 : k = 3 /\ g = f \o SubSeq(FrameOf(n), 1, k)
    BY <1>3
  <1>5. g \in Seq(Cells) /\ Len(g) = Len(f) + k /\ Carries(g, p) /\ g[1] = f[1]
    BY <1>1, <1>4, GrownCarries
  <1>6. \A i \in 1 .. k : g[Len(f) + i] = FrameOf(n)[i]
    <2>1. \A i \in 1 .. k : (f \o SubSeq(FrameOf(n), 1, k))[Len(f) + i] = FrameOf(n)[i]
      BY AppendedCells
    <2> QED
      BY <1>4, <2>1
  <1>7. /\ g[3 * (Len(p) + 1) - 1] = FrameOf(n)[1]
        /\ g[3 * (Len(p) + 1)] = FrameOf(n)[2]
        /\ g[3 * (Len(p) + 1) + 1] = FrameOf(n)[3]
    <2>1. /\ 3 * (Len(p) + 1) - 1 = Len(f) + 1 /\ 3 * (Len(p) + 1) = Len(f) + 2
          /\ 3 * (Len(p) + 1) + 1 = Len(f) + 3
      BY <1>1
    <2>2. 1 \in 1 .. k /\ 2 \in 1 .. k /\ 3 \in 1 .. k
      BY <1>4
    <2> QED
      BY <1>6, <2>1, <2>2
  <1>8. /\ FrameOf(n)[1] = Cell("length", n) /\ FrameOf(n)[2] = Cell("crc", n)
        /\ FrameOf(n)[3] = Cell("payload", n)
    BY FrameCells
  <1>9. Slot(g, Len(p) + 1, n)
    BY <1>7, <1>8 DEF Slot
  <1>10. \A j \in 1 .. Len(q) : Slot(g, j, q[j])
    <2>1. ASSUME NEW j \in 1 .. Len(q)
          PROVE  Slot(g, j, q[j])
      <3>1. CASE j = Len(p) + 1
        BY <1>2, <1>9, <3>1
      <3>2. CASE j # Len(p) + 1
        <4>1. j \in 1 .. Len(p)
          BY <1>1, <1>2, <3>2
        <4> QED
          BY <1>2, <1>5, <4>1 DEF Carries
      <3> QED
        BY <3>1, <3>2
    <2> QED
      BY <2>1
  <1>11. Len(g) = 3 * Len(q) + 1
    BY <1>1, <1>2, <1>4, <1>5
  <1>12. Image(g, q)
    <2>1. HasHeader(g)
      BY <1>5 DEF Carries
    <2>2. 3 * Len(q) + 1 <= Len(g)
      BY <1>1, <1>2, <1>11
    <2> QED
      BY <1>10, <1>11, <2>1, <2>2 DEF Image, Carries
  <1> QED
    BY <1>4, <1>5, <1>12 DEF g, q

\* A file that carries a log carries the log without its last frame.
LEMMA CarriesLess ==
    ASSUME NEW f, NEW S, NEW p \in Seq(S), NEW T, NEW q \in Seq(T), Carries(f, p),
           Len(q) <= Len(p), \A k \in 1 .. Len(q) : q[k] = p[k]
    PROVE  Carries(f, q)
  <1>1. Len(p) \in Nat /\ Len(q) \in Nat
    BY LenProperties
  <1>2. \A k \in 1 .. Len(q) : k \in 1 .. Len(p)
    BY <1>1
  <1>3. HasHeader(f) /\ 3 * Len(q) + 1 <= Len(f)
    <2>1. ASSUME HasHeader(f), NEW l, l = Len(f), 3 * Len(p) + 1 <= l
          PROVE  3 * Len(q) + 1 <= l
      BY <1>1, <2>1
    <2> QED
      BY <2>1 DEF Carries
  <1> QED
    BY <1>2, <1>3 DEF Carries

\* The new header is the image of the empty log.
LEMMA HeaderImage ==
    /\ <<V4>> \in Seq(Cells) /\ Len(<<V4>>) = 1 /\ <<V4>>[1] = V4
    /\ Image(<<V4>>, <<>>) /\ Frames(<<V4>>) = <<>>
  <1> DEFINE h == <<V4>>
             e == <<>>
  <1>1. h \in Seq(Cells) /\ Len(h) = 1 /\ h[1] = V4
    BY NamedCells
  <1>2. e \in Seq({}) /\ Len(e) = 0
    OBVIOUS
  <1> HIDE DEF h, e
  <1>3. Image(h, e)
    BY <1>1, <1>2 DEF Image, Carries, HasHeader
  <1>4. Frames(h) = e
    BY <1>1, <1>2, <1>3, ImageIsRead
  <1> QED
    BY <1>1, <1>3, <1>4 DEF h, e

\* The log without the frame that is being taken back.
LEMMA UndoneIs ==
    ASSUME NEW S, log \in Seq(S)
    PROVE  /\ Undone \in Seq(S) /\ Len(Undone) <= Len(log)
           /\ \A k \in 1 .. Len(Undone) : Undone[k] = log[k]
           /\ log # <<>> /\ Last(log) = next - 1 => Len(Undone) = Len(log) - 1
           /\ Last(log) # next - 1 => Undone = log
  <1>1. Len(log) \in Nat
    BY LenProperties
  <1>2. CASE log # <<>> /\ Last(log) = next - 1
    <2>1. Len(log) \in Nat \ {0} /\ Undone = SubSeq(log, 1, Len(log) - 1)
      BY <1>2, EmptySeq DEF Undone, Front
    <2>2. /\ Undone \in Seq(S) /\ Len(Undone) = Len(log) - 1
          /\ \A k \in 1 .. Len(log) - 1 : Undone[k] = log[k]
      <3>1. \A k \in 1 .. Len(log) - 1 : log[k] \in S
        <4>1. \A k \in 1 .. Len(log) - 1 : k \in 1 .. Len(log)
          BY <1>1
        <4> QED
          BY <4>1, ElementOfSeq
      <3>2. /\ Undone \in Seq(S)
            /\ Len(Undone) = (IF 1 <= Len(log) - 1 THEN Len(log) - 1 - 1 + 1 ELSE 0)
            /\ \A k \in 1 .. Len(log) - 1 - 1 + 1 : Undone[k] = log[1 + k - 1]
        <4>1. 1 \in Int /\ Len(log) - 1 \in Int
          BY <1>1
        <4> QED
          BY <2>1, <3>1, <4>1, SubSeqProperties
      <3>3. /\ (IF 1 <= Len(log) - 1 THEN Len(log) - 1 - 1 + 1 ELSE 0) = Len(log) - 1
            /\ Len(log) - 1 - 1 + 1 = Len(log) - 1
        <4>1. \A l \in Nat \ {0} : /\ (IF 1 <= l - 1 THEN l - 1 - 1 + 1 ELSE 0) = l - 1
                                   /\ l - 1 - 1 + 1 = l - 1
          OBVIOUS
        <4> QED
          BY <2>1, <4>1
      <3>4. ASSUME NEW k \in 1 .. Len(log) - 1
            PROVE  Undone[k] = log[k]
        <4>1. 1 + k - 1 = k
          BY <2>1
        <4> QED
          BY <3>2, <3>3, <4>1
      <3> QED
        BY <3>2, <3>3, <3>4
    <2> QED
      BY <1>1, <1>2, <2>2
  <1>3. CASE ~(log # <<>> /\ Last(log) = next - 1)
    <2>1. Undone = log
      BY <1>3 DEF Undone
    <2> QED
      BY <1>1, <1>3, <2>1
  <1> QED
    BY <1>2, <1>3

\* What a scan reads are numbers of frames.
LEMMA ReadNumbers ==
    ASSUME NEW f \in Seq(Cells), NEW m \in Nat,
           \A i \in 1 .. Len(f) :
              f[i].of < m /\ (f[i].is \in {"length", "crc", "payload"} => f[i].of >= 1)
    PROVE  /\ Frames(f) \in Seq(1 .. MaxFrames)
           /\ \A k \in 1 .. Len(Frames(f)) : Frames(f)[k] < m
  <1>1. CASE HasHeader(f)
    <2>1. /\ Frames(f) \in Seq(0 .. MaxFrames) /\ Len(Frames(f)) = Reach(f)
          /\ \A k \in 1 .. Reach(f) : Frames(f)[k] = f[3 * k + 1].of
          /\ Carries(f, Frames(f)) /\ Reach(f) \in Nat /\ Len(f) \in Nat
          /\ 3 * Reach(f) + 1 <= Len(f)
      BY <1>1, ReadIsCarried, Scanned, LenProperties
    <2>2. ASSUME NEW k \in 1 .. Reach(f)
          PROVE  Frames(f)[k] \in 1 .. MaxFrames /\ Frames(f)[k] < m
      <3>1. 3 * k + 1 \in 1 .. Len(f)
        BY <2>1
      <3>2. Slot(f, k, Frames(f)[k])
        BY <2>1 DEF Carries
      <3>3. f[3 * k + 1].is = "payload"
        BY <3>2 DEF Slot, Cell
      <3>4. f[3 * k + 1].of < m /\ f[3 * k + 1].of >= 1
        BY <3>1, <3>3
      <3>5. Frames(f)[k] \in 0 .. MaxFrames
        BY <2>1, ElementOfSeq
      <3> QED
        BY <2>1, <3>4, <3>5
    <2>3. Frames(f) \in [1 .. Reach(f) -> 1 .. MaxFrames]
      <3>1. Frames(f) = [k \in 1 .. Reach(f) |-> f[3 * k + 1].of]
        BY <1>1 DEF Frames
      <3> QED
        BY <2>1, <2>2, <3>1
    <2>4. Frames(f) \in Seq(1 .. MaxFrames)
      BY <2>1, <2>3, FunctionIsSeq
    <2> QED
      BY <2>1, <2>2, <2>4
  <1>2. CASE ~HasHeader(f)
    BY <1>2 DEF Frames
  <1> QED
    BY <1>1, <1>2

\* A log cut where its scan stopped is the image of what the scan read.
LEMMA CutImage ==
    ASSUME IInv, pc = "cut"
    PROVE  LET g == IF point.valid < Len(file) THEN SetLen(file, point.valid) ELSE file
           IN  Image(g, Frames(g))
  <1>1. /\ file \in Seq(Cells) /\ Len(file) \in Nat /\ HasHeader(file)
        /\ point.valid = 3 * Reach(file) + 1 /\ point.valid \in Nat /\ point.valid <= Len(file)
    BY LenProperties DEF IInv, TypeOK, ResumePoint, Phase, Pointed, Scan, ValidLen
  <1>2. /\ Frames(file) \in Seq(0 .. MaxFrames) /\ Len(Frames(file)) = Reach(file)
        /\ Carries(file, Frames(file)) /\ Reach(file) \in Nat
    BY <1>1, ReadIsCarried, Scanned
  <1>3. CASE point.valid < Len(file)
    <2> DEFINE g == SetLen(file, point.valid)
    <2>1. g \in Seq(Cells) /\ Len(g) = point.valid
      BY <1>1, SetLenCells
    <2>2. Carries(g, Frames(file))
      BY <1>1, <1>2, CutCarries
    <2> HIDE DEF g
    <2>3. Image(g, Frames(file))
      BY <1>1, <1>2, <2>1, <2>2 DEF Image
    <2>4. Frames(g) = Frames(file)
      BY <1>2, <2>1, <2>3, ImageIsRead
    <2> QED
      BY <1>3, <2>3, <2>4 DEF g
  <1>4. CASE ~(point.valid < Len(file))
    <2>1. Len(file) = 3 * Len(Frames(file)) + 1
      BY <1>1, <1>2, <1>4
    <2> QED
      BY <1>2, <1>4, <2>1 DEF Image
  <1> QED
    BY <1>3, <1>4

\* A new version in the header changes no frame.
LEMMA UpgradedImage ==
    ASSUME IInv, pc = "upgrade"
    PROVE  LET g == [file EXCEPT ![1] = V4]
           IN  Image(g, Frames(g)) /\ g[1] = V4 /\ g \in Seq(Cells) /\ Len(g) = Len(file)
  <1> DEFINE g == [file EXCEPT ![1] = V4]
  <1>1. file \in Seq(Cells) /\ Image(file, Frames(file)) /\ HasHeader(file)
    BY DEF IInv, TypeOK, Phase, Opened, Image, Carries
  <1>2. /\ Frames(file) \in Seq(0 .. MaxFrames) /\ Len(Frames(file)) \in Nat
        /\ Carries(file, Frames(file)) /\ Len(file) = 3 * Len(Frames(file)) + 1
    BY <1>1, ReadIsCarried, LenProperties DEF Image
  <1>3. 1 \in 1 .. Len(file)
    BY <1>1, ImageHead
  <1>4. /\ g \in Seq(Cells) /\ Len(g) = Len(file)
        /\ \A j \in 1 .. Len(file) : g[j] = IF j = 1 THEN V4 ELSE file[j]
    BY <1>1, <1>3, NamedCells, ExceptSeq
  <1> HIDE DEF g
  <1>5. g[1] = V4 /\ HasHeader(g)
    BY <1>2, <1>3, <1>4 DEF HasHeader
  <1>6. 3 * Len(Frames(file)) + 1 <= Len(g)
        /\ \A j \in 2 .. 3 * Len(Frames(file)) + 1 : g[j] = file[j]
    BY <1>2, <1>4
  <1>7. Carries(g, Frames(file))
    BY <1>2, <1>5, <1>6, SameSlots
  <1>8. Image(g, Frames(file))
    BY <1>2, <1>4, <1>7 DEF Image
  <1>9. Frames(g) = Frames(file)
    BY <1>2, <1>4, <1>8, ImageIsRead
  <1> QED
    BY <1>4, <1>5, <1>8, <1>9 DEF g

\* A log cut back to its end is the image of the log without the frame.
LEMMA UndoImage ==
    ASSUME IInv, pc = "undo"
    PROVE  LET g == SetLen(file, end)
           IN  g \in Seq(Cells) /\ Len(g) = end /\ Image(g, Undone) /\ g[1] = V4
  <1> DEFINE g == SetLen(file, end)
  <1>1. /\ file \in Seq(Cells) /\ Len(file) \in Nat /\ end \in Nat
        /\ log \in Seq(1 .. MaxFrames)
        /\ end = 3 * Len(Undone) + 1 /\ end <= Len(file) /\ Carries(file, Undone)
        /\ file[1] = V4
    BY LenProperties DEF IInv, TypeOK, Phase, Undoing
  <1>2. Undone \in Seq(1 .. MaxFrames) /\ Len(Undone) \in Nat
    BY <1>1, UndoneIs, LenProperties
  <1>3. /\ g \in Seq(Cells) /\ Len(g) = end
        /\ \A i \in 1 .. end : g[i] = IF i <= Len(file) THEN file[i] ELSE Zero
    BY <1>1, SetLenCells
  <1>4. Carries(g, Undone)
    <2>1. 3 * Len(Undone) + 1 <= end
      BY <1>1, <1>2
    <2> QED
      BY <1>1, <1>2, <2>1, CutCarries
  <1> HIDE DEF g
  <1>5. g[1] = V4
    <2>1. 1 \in 1 .. end /\ 1 <= Len(file)
      BY <1>1, <1>2
    <2> QED
      BY <1>1, <1>3, <2>1
  <1>6. Image(g, Undone)
    BY <1>1, <1>3, <1>4 DEF Image
  <1> QED
    BY <1>3, <1>5, <1>6 DEF g

\* Where the owner is: the scan's answer is of the file it stands by.
LEMMA PointedNext ==
    ASSUME IInv, [Next]_vars
    PROVE  Pointed'
  <1>0. Pointed /\ Opened /\ Appending /\ Undoing
    BY DEF IInv, Phase
  <1>1. CASE UNCHANGED vars
    BY <1>0, <1>1 DEF vars, disk, Pointed
  <1>2. CASE Open
    BY <1>0, <1>2 DEF Pointed, Open, disk
  <1>3. CASE SaveAside
    BY <1>0, <1>3 DEF Pointed, SaveAside, disk
  <1>4. CASE Cut
    BY <1>0, <1>4 DEF Pointed, Cut
  <1>5. CASE CutSync
    BY <1>0, <1>5 DEF Pointed, CutSync
  <1>6. CASE Upgrade
    BY <1>0, <1>6 DEF Pointed, Upgrade, Ready
  <1>7. CASE UpgradeSync
    BY <1>0, <1>7 DEF Pointed, UpgradeSync, Ready
  <1>8. CASE OpenFails
    BY <1>0, <1>8 DEF Pointed, OpenFails
  <1>9. CASE Restart("restart", "create")
    BY <1>0, <1>9 DEF Pointed, Restart
  <1>10. CASE WriteHeader("create", "createsync")
    BY <1>0, <1>10 DEF Pointed, WriteHeader
  <1>11. CASE SyncHeader("createsync")
    BY <1>0, <1>11 DEF Pointed, SyncHeader, Ready
  <1>12. CASE Write
    BY <1>0, <1>12 DEF Pointed, Write
  <1>13. CASE WriteFails
    BY <1>0, <1>13 DEF Pointed, WriteFails
  <1>14. CASE Barrier
    BY <1>0, <1>14 DEF Pointed, Barrier
  <1>15. CASE BarrierFails
    BY <1>0, <1>15 DEF Pointed, BarrierFails
  <1>16. CASE Undo
    BY <1>0, <1>16 DEF Pointed, Undo
  <1>17. CASE UndoSync
    BY <1>0, <1>17 DEF Pointed, UndoSync
  <1>18. CASE UndoFails
    BY <1>0, <1>18 DEF Pointed, UndoFails
  <1>19. CASE Sync
    BY <1>0, <1>19 DEF Pointed, Sync
  <1>20. CASE Fold
    BY <1>0, <1>20 DEF Pointed, Fold
  <1>21. CASE Restart("empty", "header")
    BY <1>0, <1>21 DEF Pointed, Restart
  <1>22. CASE WriteHeader("header", "headersync")
    BY <1>0, <1>22 DEF Pointed, WriteHeader
  <1>23. CASE SyncHeader("headersync")
    BY <1>0, <1>23 DEF Pointed, SyncHeader, Ready
  <1>24. CASE Close
    BY <1>0, <1>24 DEF Pointed, Close, Stop
  <1>25. CASE ProcessDies
    BY <1>0, <1>25 DEF Pointed, ProcessDies, Stop
  <1>26. CASE PowerLoss
    BY <1>0, <1>26 DEF Pointed, PowerLoss, Stop
  <1>27. CASE Damage
    BY <1>0, <1>27 DEF Pointed, Damage
  <1> QED
    BY <1>1, <1>2, <1>3, <1>4, <1>5, <1>6, <1>7, <1>8, <1>9, <1>10, <1>11,
       <1>12, <1>13, <1>14, <1>15, <1>16, <1>17, <1>18, <1>19, <1>20, <1>21, <1>22,
       <1>23, <1>24, <1>25, <1>26, <1>27 DEF Next, Opens, Appends, Resets

\* ... what an open has made of the file.
LEMMA OpenedNext ==
    ASSUME IInv, [Next]_vars
    PROVE  Opened'
  <1>0. Pointed /\ Opened /\ Appending /\ Undoing
    BY DEF IInv, Phase
  <1>1. CASE UNCHANGED vars
    BY <1>0, <1>1 DEF vars, disk, Opened
  <1>2. CASE Open
    BY <1>0, <1>2 DEF Opened, Open, disk
  <1>3. CASE SaveAside
    BY <1>0, <1>3 DEF Opened, SaveAside, disk
  <1>4. CASE Cut
    <2>1. CASE point.valid < Len(file)
      <3>1. file' = SetLen(file, point.valid) /\ pc' = "cutsync" /\ pc = "cut"
        BY <1>4, <2>1 DEF Cut, Wrote
      <3>2. Image(file', Frames(file'))
        BY <2>1, <3>1, CutImage
      <3> QED
        BY <3>1, <3>2 DEF Opened
    <2>2. CASE ~(point.valid < Len(file))
      <3>1. file' = file /\ pc' = "upgrade" /\ pc = "cut"
        BY <1>4, <2>2 DEF Cut, disk
      <3>2. Image(file', Frames(file'))
        BY <2>2, <3>1, CutImage
      <3> QED
        BY <3>1, <3>2 DEF Opened
    <2> QED
      BY <2>1, <2>2
  <1>5. CASE CutSync
    BY <1>0, <1>5 DEF Opened, CutSync, Synced
  <1>6. CASE Upgrade
    <2>1. CASE file[1] = V4
      BY <1>6, <2>1 DEF Upgrade, Ready, Opened
    <2>2. CASE file[1] # V4
      <3>1. pc = "upgrade" /\ pc' = "upgradesync" /\ file' = [file EXCEPT ![1] = V4]
        BY <1>6, <2>2 DEF Upgrade, Wrote
      <3>2. Image(file', Frames(file')) /\ file'[1] = V4
        BY <3>1, UpgradedImage
      <3> QED
        BY <3>1, <3>2 DEF Opened
    <2> QED
      BY <2>1, <2>2
  <1>7. CASE UpgradeSync
    BY <1>0, <1>7 DEF Opened, UpgradeSync, Ready
  <1>8. CASE OpenFails
    BY <1>0, <1>8 DEF Opened, OpenFails
  <1>9. CASE Restart("restart", "create")
    BY <1>0, <1>9 DEF Opened, Restart, Emptied
  <1>10. CASE WriteHeader("create", "createsync")
    BY <1>0, <1>10 DEF Opened, WriteHeader, Wrote
  <1>11. CASE SyncHeader("createsync")
    BY <1>0, <1>11 DEF Opened, SyncHeader, Ready
  <1>12. CASE Write
    BY <1>0, <1>12 DEF Opened, Write
  <1>13. CASE WriteFails
    BY <1>0, <1>13 DEF Opened, WriteFails
  <1>14. CASE Barrier
    BY <1>0, <1>14 DEF Opened, Barrier
  <1>15. CASE BarrierFails
    BY <1>0, <1>15 DEF Opened, BarrierFails
  <1>16. CASE Undo
    BY <1>0, <1>16 DEF Opened, Undo
  <1>17. CASE UndoSync
    BY <1>0, <1>17 DEF Opened, UndoSync
  <1>18. CASE UndoFails
    BY <1>0, <1>18 DEF Opened, UndoFails
  <1>19. CASE Sync
    BY <1>0, <1>19 DEF Opened, Sync
  <1>20. CASE Fold
    BY <1>0, <1>20 DEF Opened, Fold
  <1>21. CASE Restart("empty", "header")
    BY <1>0, <1>21 DEF Opened, Restart, Emptied
  <1>22. CASE WriteHeader("header", "headersync")
    BY <1>0, <1>22 DEF Opened, WriteHeader, Wrote
  <1>23. CASE SyncHeader("headersync")
    BY <1>0, <1>23 DEF Opened, SyncHeader, Ready
  <1>24. CASE Close
    BY <1>0, <1>24 DEF Opened, Close, Stop
  <1>25. CASE ProcessDies
    BY <1>0, <1>25 DEF Opened, ProcessDies, Stop
  <1>26. CASE PowerLoss
    BY <1>0, <1>26 DEF Opened, PowerLoss, Stop
  <1>27. CASE Damage
    BY <1>0, <1>27 DEF Opened, Damage
  <1> QED
    BY <1>1, <1>2, <1>3, <1>4, <1>5, <1>6, <1>7, <1>8, <1>9, <1>10, <1>11,
       <1>12, <1>13, <1>14, <1>15, <1>16, <1>17, <1>18, <1>19, <1>20, <1>21, <1>22,
       <1>23, <1>24, <1>25, <1>26, <1>27 DEF Next, Opens, Appends, Resets

\* ... the log whose image a handle that accepts appends ends.
LEMMA AppendingNext ==
    ASSUME IInv, [Next]_vars
    PROVE  Appending'
  <1>0. Pointed /\ Opened /\ Appending /\ Undoing
    BY DEF IInv, Phase
  <1>t. file \in Seq(Cells) /\ log \in Seq(1 .. MaxFrames) /\ sync \in {"Barrier", "PageCache"}
    BY WalFileAssumption DEF IInv, TypeOK
  <1>1. CASE UNCHANGED vars
    BY <1>0, <1>1 DEF vars, disk, handle, Appending
  <1>2. CASE Open
    BY <1>0, <1>2 DEF Appending, Open
  <1>3. CASE SaveAside
    BY <1>0, <1>3 DEF Appending, SaveAside
  <1>4. CASE Cut
    BY <1>0, <1>4 DEF Appending, Cut
  <1>5. CASE CutSync
    BY <1>0, <1>5 DEF Appending, CutSync
  <1>6. CASE Upgrade
    <2>1. CASE file[1] = V4
      <3>1. /\ file' = file /\ end' = Len(file') /\ log' = Frames(file') /\ pc' = "ready"
            /\ Image(file, Frames(file))
        BY <1>6, <2>1 DEF Upgrade, Ready, IInv, Phase, Opened
      <3> QED
        BY <2>1, <3>1 DEF Appending
    <2>2. CASE file[1] # V4
      BY <1>6, <2>2 DEF Upgrade, Appending
    <2> QED
      BY <2>1, <2>2
  <1>7. CASE UpgradeSync
    <2>1. /\ file' = file /\ end' = Len(file') /\ log' = Frames(file') /\ pc' = "ready"
          /\ Image(file, Frames(file)) /\ file[1] = V4
      BY <1>7 DEF UpgradeSync, Synced, Ready, IInv, Phase, Opened
    <2> QED
      BY <2>1 DEF Appending
  <1>8. CASE OpenFails
    BY <1>0, <1>8 DEF Appending, OpenFails
  <1>9. CASE Restart("restart", "create")
    BY <1>0, <1>9 DEF Appending, Restart
  <1>10. CASE WriteHeader("create", "createsync")
    BY <1>0, <1>10 DEF Appending, WriteHeader
  <1>11. CASE SyncHeader("createsync")
    <2>1. file' = <<V4>> /\ end' = Len(file') /\ log' = Frames(file') /\ pc' = "ready"
      BY <1>11 DEF SyncHeader, Synced, Ready, IInv, Phase, Opened
    <2>2. Image(file', log') /\ file'[1] = V4
      BY <2>1, HeaderImage, Zenon
    <2> QED
      BY <2>1, <2>2 DEF Appending
  <1>12. CASE Write
    <2>1. /\ file' = file \o FrameOf(next) /\ end' = end + 3 /\ log' = Append(log, next)
          /\ next' = next + 1 /\ next \in 1 .. MaxFrames
          /\ pc' = "barrier" => sync = "Barrier"
          /\ sync' = sync /\ pc' \in {"barrier", "ready"}
      BY <1>12, WalFileAssumption DEF Write, Wrote, IInv, TypeOK
    <2>2. end = Len(file) /\ Image(file, log) /\ file[1] = V4
      BY <1>12 DEF Write, IInv, Phase, Appending
    <2>3. Image(file', log') /\ file'[1] = V4 /\ Len(file') = Len(file) + 3
      BY <1>t, <2>1, <2>2, GrownImage
    <2>4. log' # <<>> /\ Last(log') = next' - 1
      <3>1. /\ log' # <<>> /\ Len(log') = Len(log) + 1 /\ log'[Len(log) + 1] = next
        BY <1>t, <2>1, AppendProperties
      <3>2. Last(log') = next
        BY <3>1, Zenon DEF Last
      <3>3. next' - 1 = next
        BY <2>1
      <3> QED
        BY <3>1, <3>2, <3>3
    <2> QED
      BY <2>1, <2>2, <2>3, <2>4 DEF Appending
  <1>13. CASE WriteFails
    BY <1>0, <1>13 DEF Appending, WriteFails
  <1>14. CASE Barrier
    BY <1>0, <1>14 DEF Appending, Barrier, Synced, handle
  <1>15. CASE BarrierFails
    BY <1>0, <1>15 DEF Appending, BarrierFails
  <1>16. CASE Undo
    <2>1. CASE sync = "Barrier"
      BY <1>16, <2>1 DEF Undo, Appending
    <2>2. CASE sync # "Barrier"
      <3>1. file' = SetLen(file, end) /\ end' = end /\ log' = log /\ pc' = "ready" /\ pc = "undo"
        BY <1>16, <2>2 DEF Undo, Wrote, handle
      <3>2. end' = Len(file') /\ Image(file', Undone) /\ file'[1] = V4
        BY <3>1, UndoImage
      <3>3. Undone = log
        BY <1>t, <2>2, <3>1 DEF IInv, Phase, Undoing
      <3> QED
        BY <3>1, <3>2, <3>3 DEF Appending
    <2> QED
      BY <2>1, <2>2
  <1>17. CASE UndoSync
    <2>1. /\ file' = file /\ end' = end /\ log' = Undone /\ pc' = "ready"
          /\ end = Len(file) /\ Image(file, Undone) /\ file[1] = V4
      BY <1>17 DEF UndoSync, Synced, handle, IInv, Phase, Undoing
    <2> QED
      BY <2>1 DEF Appending
  <1>18. CASE UndoFails
    BY <1>0, <1>18 DEF Appending, UndoFails
  <1>19. CASE Sync
    BY <1>0, <1>19 DEF Appending, Sync, Synced, handle
  <1>20. CASE Fold
    BY <1>0, <1>20 DEF Appending, Fold
  <1>21. CASE Restart("empty", "header")
    BY <1>0, <1>21 DEF Appending, Restart
  <1>22. CASE WriteHeader("header", "headersync")
    BY <1>0, <1>22 DEF Appending, WriteHeader
  <1>23. CASE SyncHeader("headersync")
    <2>1. file' = <<V4>> /\ end' = Len(file') /\ log' = Frames(file') /\ pc' = "ready"
      BY <1>23 DEF SyncHeader, Synced, Ready, IInv, Phase, Opened
    <2>2. Image(file', log') /\ file'[1] = V4
      BY <2>1, HeaderImage, Zenon
    <2> QED
      BY <2>1, <2>2 DEF Appending
  <1>24. CASE Close
    BY <1>0, <1>24 DEF Appending, Close, Stop
  <1>25. CASE ProcessDies
    BY <1>0, <1>25 DEF Appending, ProcessDies, Stop
  <1>26. CASE PowerLoss
    BY <1>0, <1>26 DEF Appending, PowerLoss, Stop
  <1>27. CASE Damage
    BY <1>0, <1>27 DEF Appending, Damage
  <1> QED
    BY <1>1, <1>2, <1>3, <1>4, <1>5, <1>6, <1>7, <1>8, <1>9, <1>10, <1>11,
       <1>12, <1>13, <1>14, <1>15, <1>16, <1>17, <1>18, <1>19, <1>20, <1>21, <1>22,
       <1>23, <1>24, <1>25, <1>26, <1>27 DEF Next, Opens, Appends, Resets

\* ... and what a cut-back has to cut.
LEMMA UndoingNext ==
    ASSUME IInv, [Next]_vars
    PROVE  Undoing'
  <1>0. Pointed /\ Opened /\ Appending /\ Undoing
    BY DEF IInv, Phase
  <1>t. file \in Seq(Cells) /\ log \in Seq(1 .. MaxFrames) /\ sync \in {"Barrier", "PageCache"}
    BY WalFileAssumption DEF IInv, TypeOK
  <1>1. CASE UNCHANGED vars
    BY <1>0, <1>1 DEF vars, disk, handle, Undoing, Undone
  <1>2. CASE Open
    BY <1>0, <1>2 DEF Undoing, Open
  <1>3. CASE SaveAside
    BY <1>0, <1>3 DEF Undoing, SaveAside
  <1>4. CASE Cut
    BY <1>0, <1>4 DEF Undoing, Cut
  <1>5. CASE CutSync
    BY <1>0, <1>5 DEF Undoing, CutSync
  <1>6. CASE Upgrade
    BY <1>0, <1>6 DEF Undoing, Upgrade, Ready
  <1>7. CASE UpgradeSync
    BY <1>0, <1>7 DEF Undoing, UpgradeSync, Ready
  <1>8. CASE OpenFails
    BY <1>0, <1>8 DEF Undoing, OpenFails
  <1>9. CASE Restart("restart", "create")
    BY <1>0, <1>9 DEF Undoing, Restart
  <1>10. CASE WriteHeader("create", "createsync")
    BY <1>0, <1>10 DEF Undoing, WriteHeader
  <1>11. CASE SyncHeader("createsync")
    BY <1>0, <1>11 DEF Undoing, SyncHeader, Ready
  <1>12. CASE Write
    BY <1>0, <1>12 DEF Undoing, Write
  <1>13. CASE WriteFails
    <2>1. PICK k \in 0 .. 2 : file' = file \o SubSeq(FrameOf(next), 1, k)
      BY <1>13 DEF WriteFails, Wrote
    <2>2. /\ end' = end /\ log' = log /\ next' = next + 1 /\ next \in 1 .. MaxFrames
          /\ pc' = "undo" /\ next \in Nat
      BY <1>13, WalFileAssumption DEF WriteFails, handle, IInv, TypeOK
    <2>3. end = Len(file) /\ Image(file, log) /\ file[1] = V4
      BY <1>13 DEF WriteFails, IInv, Phase, Appending
    <2>4. Undone' = log
      <3>1. Last(log) # next \/ log = <<>>
        <4>1. CASE log # <<>>
          <5>1. Len(log) \in 1 .. Len(log)
            BY <1>t, <4>1, EmptySeq
          <5>2. log[Len(log)] < next /\ log[Len(log)] \in 1 .. MaxFrames
            BY <1>t, <5>1, ElementOfSeq DEF IInv, Numbered
          <5> QED
            BY <2>2, <5>2 DEF Last
        <4> QED
          BY <4>1
      <3>2. next' - 1 = next
        BY <2>2
      <3> QED
        BY <2>2, <3>1, <3>2 DEF Undone
    <2>5. k \in 0 .. 3 /\ Carries(file, log) /\ Len(file) = 3 * Len(log) + 1
      BY <2>3 DEF Image
    <2>6. /\ Carries(file', log) /\ Len(file') = Len(file) + k /\ file'[1] = V4
          /\ Len(file) \in Nat \ {0}
          /\ \A j \in 1 .. k : file'[Len(file) + j].of = next
      <3>1. /\ Carries(file', log) /\ Len(file') = Len(file) + k /\ file'[1] = file[1]
            /\ Len(file) \in Nat \ {0}
        <4>1. LET u == file \o SubSeq(FrameOf(next), 1, k)
              IN  /\ Carries(u, log) /\ Len(u) = Len(file) + k /\ u[1] = file[1]
                  /\ Len(file) \in Nat \ {0}
          <5>1. ASSUME NEW f \in Seq(Cells), NEW p \in Seq(1 .. MaxFrames), Carries(f, p),
                       NEW n \in 1 .. MaxFrames, NEW m \in 0 .. 3
                PROVE  LET u == f \o SubSeq(FrameOf(n), 1, m)
                       IN  /\ Carries(u, p) /\ Len(u) = Len(f) + m /\ u[1] = f[1]
                           /\ Len(f) \in Nat \ {0}
            BY <5>1, GrownCarries
          <5> QED
            BY <1>t, <2>2, <2>5, <5>1
        <4> QED
          BY <2>1, <4>1
      <3>2. \A j \in 1 .. k : (file \o SubSeq(FrameOf(next), 1, k))[Len(file) + j].of = next
        BY <1>t, <2>2, <2>5, AppendedCells
      <3> QED
        BY <2>1, <2>3, <3>1, <3>2
    <2>7. \A j \in end' + 1 .. Len(file') : file'[j].of = next' - 1
      <3>1. ASSUME NEW j \in end' + 1 .. Len(file')
            PROVE  file'[j].of = next' - 1
        <4>1. j - Len(file) \in 1 .. k /\ Len(file) + (j - Len(file)) = j
          BY <2>2, <2>3, <2>6
        <4>2. file'[Len(file) + (j - Len(file))].of = next
          BY <2>6, <4>1
        <4> QED
          BY <2>2, <4>1, <4>2
      <3> QED
        BY <3>1
    <2>8. end' = 3 * Len(log) + 1 /\ end' <= Len(file')
      BY <2>2, <2>3, <2>5, <2>6
    <2> QED
      BY <2>2, <2>4, <2>6, <2>7, <2>8 DEF Undoing
  <1>14. CASE Barrier
    BY <1>0, <1>14 DEF Undoing, Barrier
  <1>15. CASE BarrierFails
    <2>1. /\ file' = file /\ end' = end - 3 /\ log' = log /\ next' = next /\ pc' = "undo"
          /\ sync' = sync /\ pc = "barrier"
      BY <1>15 DEF BarrierFails, disk
    <2>2. /\ end = Len(file) /\ Image(file, log) /\ file[1] = V4 /\ sync = "Barrier"
          /\ log # <<>> /\ Last(log) = next - 1
      BY <2>1 DEF IInv, Phase, Appending
    <2>3. Undone' = Undone
      BY <2>1 DEF Undone
    <2>4. /\ Undone \in Seq(1 .. MaxFrames) /\ Len(Undone) = Len(log) - 1
          /\ Len(Undone) <= Len(log) /\ \A k \in 1 .. Len(Undone) : Undone[k] = log[k]
          /\ Len(log) \in Nat \ {0}
      BY <1>t, <2>2, UndoneIs, EmptySeq
    <2>5. Carries(file, log) /\ Len(file) = 3 * Len(log) + 1
      BY <2>2 DEF Image
    <2>6. Carries(file, Undone)
      BY <1>t, <2>4, <2>5, CarriesLess
    <2>7. Slot(file, Len(log), next - 1)
      <3>1. Len(log) \in 1 .. Len(log)
        BY <2>4
      <3> QED
        BY <2>2, <2>5, <3>1 DEF Carries, Last
    <2>8. \A j \in end' + 1 .. Len(file') : file'[j].of = next' - 1
      <3>1. ASSUME NEW j \in end' + 1 .. Len(file')
            PROVE  file'[j].of = next' - 1
        <4>1. j = 3 * Len(log) - 1 \/ j = 3 * Len(log) \/ j = 3 * Len(log) + 1
          <5>1. \A l \in Nat : 3 * l + 1 - 3 + 1 = 3 * l - 1
            OBVIOUS
          <5>2. end' + 1 = 3 * Len(log) + 1 - 3 + 1 /\ Len(file') = 3 * Len(log) + 1
            BY <2>1, <2>2, <2>5
          <5>3. j \in 3 * Len(log) - 1 .. 3 * Len(log) + 1
            BY <2>4, <5>1, <5>2
          <5>4. \A l \in Nat : \A x \in 3 * l - 1 .. 3 * l + 1 :
                  x = 3 * l - 1 \/ x = 3 * l \/ x = 3 * l + 1
            OBVIOUS
          <5> QED
            BY <2>4, <5>3, <5>4
        <4> QED
          BY <2>1, <2>7, <4>1 DEF Slot, Cell
      <3> QED
        BY <3>1
    <2>9. end' = 3 * Len(Undone) + 1 /\ end' <= Len(file')
      BY <2>1, <2>2, <2>4, <2>5
    <2> QED
      BY <2>1, <2>2, <2>3, <2>6, <2>8, <2>9 DEF Undoing
  <1>16. CASE Undo
    <2>1. /\ file' = SetLen(file, end) /\ end' = end /\ log' = log /\ next' = next
          /\ pc' # "undo" /\ pc = "undo"
      BY <1>16 DEF Undo, Wrote, handle
    <2>2. end' = Len(file') /\ Image(file', Undone) /\ file'[1] = V4
      BY <2>1, UndoImage
    <2>3. Undone' = Undone
      BY <2>1 DEF Undone
    <2> QED
      BY <2>1, <2>2, <2>3 DEF Undoing
  <1>17. CASE UndoSync
    BY <1>0, <1>17 DEF Undoing, UndoSync
  <1>18. CASE UndoFails
    BY <1>0, <1>18 DEF Undoing, UndoFails
  <1>19. CASE Sync
    BY <1>0, <1>19 DEF Undoing, Sync
  <1>20. CASE Fold
    BY <1>0, <1>20 DEF Undoing, Fold
  <1>21. CASE Restart("empty", "header")
    BY <1>0, <1>21 DEF Undoing, Restart
  <1>22. CASE WriteHeader("header", "headersync")
    BY <1>0, <1>22 DEF Undoing, WriteHeader
  <1>23. CASE SyncHeader("headersync")
    BY <1>0, <1>23 DEF Undoing, SyncHeader, Ready
  <1>24. CASE Close
    BY <1>0, <1>24 DEF Undoing, Close, Stop
  <1>25. CASE ProcessDies
    BY <1>0, <1>25 DEF Undoing, ProcessDies, Stop
  <1>26. CASE PowerLoss
    BY <1>0, <1>26 DEF Undoing, PowerLoss, Stop
  <1>27. CASE Damage
    BY <1>0, <1>27 DEF Undoing, Damage
  <1> QED
    BY <1>1, <1>2, <1>3, <1>4, <1>5, <1>6, <1>7, <1>8, <1>9, <1>10, <1>11,
       <1>12, <1>13, <1>14, <1>15, <1>16, <1>17, <1>18, <1>19, <1>20, <1>21, <1>22,
       <1>23, <1>24, <1>25, <1>26, <1>27 DEF Next, Opens, Appends, Resets

-----------------------------------------------------------------------------
(* The numbers, and the types.                                             *)

\* A log holds frames that were written.
LEMMA LogNext ==
    ASSUME IInv, [Next]_vars
    PROVE  log' \in Seq(1 .. MaxFrames) /\ \A k \in 1 .. Len(log') : log'[k] < next'
  <1>0. /\ log \in Seq(1 .. MaxFrames) /\ Len(log) \in Nat /\ next \in 1 .. MaxFrames + 1
        /\ MaxFrames \in Nat /\ next' \in Nat /\ next \in Nat /\ next <= next'
        /\ \A k \in 1 .. Len(log) : log[k] < next /\ log[k] \in 1 .. MaxFrames /\ log[k] \in Nat
    <2>1. log \in Seq(1 .. MaxFrames)
      BY DEF IInv, TypeOK
    <2>2. \A k \in 1 .. Len(log) : log[k] \in 1 .. MaxFrames
      BY <2>1, ElementOfSeq
    <2> QED
      <3>1. TypeOK /\ \A k \in 1 .. Len(log) : log[k] < next
        BY DEF IInv, Numbered
      <3>2. next \in 1 .. MaxFrames + 1 /\ MaxFrames \in Nat
        BY WalFileAssumption DEF IInv, TypeOK
      <3>3. next' \in 1 .. MaxFrames + 1 /\ next <= next'
        BY <3>1, StepNumbers
      <3>4. Len(log) \in Nat
        BY <2>1, LenProperties
      <3> QED
        BY <2>1, <2>2, <3>1, <3>2, <3>3, <3>4
  <1>r. /\ Frames(file') \in Seq(1 .. MaxFrames)
        /\ \A k \in 1 .. Len(Frames(file')) : Frames(file')[k] < next'
    <2>1. file' \in All'
      BY StepVersions DEF IInv, All
    <2>2. file' \in Seq(Cells)
      BY <2>1, FiledNext
    <2>3. \A i \in 1 .. Len(file') :
             /\ file'[i].of < next'
             /\ file'[i].is \in {"length", "crc", "payload"} => file'[i].of >= 1
      BY <2>1, FiledNext DEF Filed
    <2> QED
      BY <1>0, <2>2, <2>3, ReadNumbers
  <1>1. CASE UNCHANGED vars
    BY <1>0, <1>1 DEF vars
  <1>2. CASE Open
    BY <1>0, <1>2 DEF Open
  <1>3. CASE SaveAside
    BY <1>0, <1>3 DEF SaveAside
  <1>4. CASE Cut
    BY <1>0, <1>4 DEF Cut
  <1>5. CASE CutSync
    BY <1>0, <1>5 DEF CutSync
  <1>6. CASE Upgrade
    <2>1. log' = log \/ log' = Frames(file')
      BY <1>6 DEF Upgrade, Ready
    <2> QED
      BY <1>0, <1>r, <2>1
  <1>7. CASE UpgradeSync
    BY <1>r, <1>7 DEF UpgradeSync, Ready
  <1>8. CASE OpenFails
    BY <1>0, <1>8 DEF OpenFails
  <1>9. CASE Restart("restart", "create")
    BY <1>0, <1>9 DEF Restart
  <1>10. CASE WriteHeader("create", "createsync")
    BY <1>0, <1>10 DEF WriteHeader
  <1>11. CASE SyncHeader("createsync")
    BY <1>r, <1>11 DEF SyncHeader, Ready
  <1>12. CASE Write
    <2>1. log' = Append(log, next) /\ next' = next + 1 /\ next \in 1 .. MaxFrames
      BY <1>12, WalFileAssumption DEF Write, IInv, TypeOK
    <2>2. /\ log' \in Seq(1 .. MaxFrames) /\ Len(log') = Len(log) + 1
          /\ log'[Len(log) + 1] = next /\ \A k \in 1 .. Len(log) : log'[k] = log[k]
      BY <1>0, <2>1
    <2>3. \A k \in 1 .. Len(log') : log'[k] < next'
      <3>1. ASSUME NEW k \in 1 .. Len(log')
            PROVE  log'[k] < next'
        <4>1. CASE k = Len(log) + 1
          BY <1>0, <2>1, <2>2, <4>1
        <4>2. CASE k # Len(log) + 1
          <5>1. k \in 1 .. Len(log)
            BY <1>0, <2>2, <4>2
          <5> QED
            BY <1>0, <2>1, <2>2, <5>1
        <4> QED
          BY <4>1, <4>2
      <3> QED
        BY <3>1
    <2> QED
      BY <2>2, <2>3
  <1>13. CASE WriteFails
    BY <1>0, <1>13 DEF WriteFails
  <1>14. CASE Barrier
    BY <1>0, <1>14 DEF Barrier
  <1>15. CASE BarrierFails
    BY <1>0, <1>15 DEF BarrierFails
  <1>16. CASE Undo
    BY <1>0, <1>16 DEF Undo
  <1>17. CASE UndoSync
    <2>1. log' = Undone
      BY <1>17 DEF UndoSync
    <2>2. /\ Undone \in Seq(1 .. MaxFrames) /\ Len(Undone) <= Len(log) /\ Len(Undone) \in Nat
          /\ \A k \in 1 .. Len(Undone) : Undone[k] = log[k]
      <3>1. /\ Undone \in Seq(1 .. MaxFrames) /\ Len(Undone) <= Len(log)
            /\ \A k \in 1 .. Len(Undone) : Undone[k] = log[k]
        BY <1>0, UndoneIs
      <3> QED
        BY <3>1, LenProperties
    <2>3. \A k \in 1 .. Len(Undone) : k \in 1 .. Len(log)
      BY <1>0, <2>2
    <2> QED
      BY <1>0, <2>1, <2>2, <2>3, SMTT(40)
  <1>18. CASE UndoFails
    BY <1>0, <1>18 DEF UndoFails
  <1>19. CASE Sync
    BY <1>0, <1>19 DEF Sync
  <1>20. CASE Fold
    BY <1>0, <1>20 DEF Fold
  <1>21. CASE Restart("empty", "header")
    BY <1>0, <1>21 DEF Restart
  <1>22. CASE WriteHeader("header", "headersync")
    BY <1>0, <1>22 DEF WriteHeader
  <1>23. CASE SyncHeader("headersync")
    BY <1>r, <1>23 DEF SyncHeader, Ready
  <1>24. CASE Close
    BY <1>0, <1>24 DEF Close
  <1>25. CASE ProcessDies
    BY <1>0, <1>25 DEF ProcessDies
  <1>26. CASE PowerLoss
    BY <1>0, <1>26 DEF PowerLoss
  <1>27. CASE Damage
    BY <1>0, <1>27 DEF Damage
  <1> QED
    BY <1>1, <1>2, <1>3, <1>4, <1>5, <1>6, <1>7, <1>8, <1>9, <1>10, <1>11,
       <1>12, <1>13, <1>14, <1>15, <1>16, <1>17, <1>18, <1>19, <1>20, <1>21, <1>22,
       <1>23, <1>24, <1>25, <1>26, <1>27 DEF Next, Opens, Appends, Resets

\* Only a fold moves the checkpoint.
LEMMA StepFolded ==
    ASSUME [Next]_vars, ~Fold
    PROVE  folded' = folded
  BY DEF Next, Opens, Appends, Resets, vars, Open, SaveAside, Cut, CutSync, Upgrade, UpgradeSync,
         OpenFails, Restart, WriteHeader, SyncHeader, Write, WriteFails, Barrier, BarrierFails,
         Undo, UndoSync, UndoFails, Sync, Close, ProcessDies, PowerLoss, Damage

\* The frame being answered for is not acknowledged yet; a fold covers frames written.
LEMMA NumberedNext ==
    ASSUME IInv, [Next]_vars
    PROVE  Numbered'
  <1>0. /\ next \in Nat /\ acked \subseteq 1 .. next - 1
        /\ pc \in {"barrier", "undo", "undosync"} => next - 1 \notin acked
    BY WalFileAssumption DEF IInv, TypeOK, Numbered
  <1>a. pc' \in {"barrier", "undo", "undosync"} => next' - 1 \notin acked'
    <2> SUFFICES ASSUME pc' \in {"barrier", "undo", "undosync"}
                 PROVE  next' - 1 \notin acked'
      OBVIOUS
    <2>1. CASE UNCHANGED vars
      BY <1>0, <2>1 DEF vars, answers
    <2>2. CASE Open
      BY <1>0, <2>2 DEF Open
    <2>3. CASE SaveAside
      BY <1>0, <2>3 DEF SaveAside
    <2>4. CASE Cut
      BY <1>0, <2>4 DEF Cut
    <2>5. CASE CutSync
      BY <1>0, <2>5 DEF CutSync
    <2>6. CASE Upgrade
      BY <1>0, <2>6 DEF Upgrade, Ready
    <2>7. CASE UpgradeSync
      BY <1>0, <2>7 DEF UpgradeSync, Ready
    <2>8. CASE OpenFails
      BY <1>0, <2>8 DEF OpenFails
    <2>9. CASE Restart("restart", "create")
      BY <1>0, <2>9 DEF Restart
    <2>10. CASE WriteHeader("create", "createsync")
      BY <1>0, <2>10 DEF WriteHeader
    <2>11. CASE SyncHeader("createsync")
      BY <1>0, <2>11 DEF SyncHeader, Ready
    <2>12. CASE Write
      BY <1>0, <2>12 DEF Write, Acknowledge
    <2>13. CASE WriteFails
      BY <1>0, <2>13 DEF WriteFails, answers
    <2>14. CASE Barrier
      BY <2>14 DEF Barrier
    <2>15. CASE BarrierFails
      BY <1>0, <2>15 DEF BarrierFails, answers
    <2>16. CASE Undo
      BY <1>0, <2>16 DEF Undo, answers
    <2>17. CASE UndoSync
      BY <1>0, <2>17 DEF UndoSync
    <2>18. CASE UndoFails
      BY <1>0, <2>18 DEF UndoFails
    <2>19. CASE Sync
      BY <2>19 DEF Sync
    <2>20. CASE Fold
      BY <1>0, <2>20 DEF Fold
    <2>21. CASE Restart("empty", "header")
      BY <1>0, <2>21 DEF Restart
    <2>22. CASE WriteHeader("header", "headersync")
      BY <1>0, <2>22 DEF WriteHeader
    <2>23. CASE SyncHeader("headersync")
      BY <1>0, <2>23 DEF SyncHeader, Ready
    <2>24. CASE Close
      BY <1>0, <2>24 DEF Close, Stop
    <2>25. CASE ProcessDies
      BY <1>0, <2>25 DEF ProcessDies, Stop
    <2>26. CASE PowerLoss
      BY <1>0, <2>26 DEF PowerLoss, Stop
    <2>27. CASE Damage
      BY <1>0, <2>27 DEF Damage
    <2> QED
      BY <2>1, <2>2, <2>3, <2>4, <2>5, <2>6, <2>7, <2>8, <2>9, <2>10, <2>11,
           <2>12, <2>13, <2>14, <2>15, <2>16, <2>17, <2>18, <2>19, <2>20, <2>21, <2>22,
           <2>23, <2>24, <2>25, <2>26, <2>27 DEF Next, Opens, Appends, Resets
  <1>b. next' >= 2
    BY <1>0, StepNumbers DEF IInv, Numbered
  <1>c. folded' < next'
    <2>1. folded' = folded \/ \E k \in 1 .. Len(log) : folded' = log[k]
      <3>1. CASE Fold
        <4>1. folded' = Max(ToSet(log) \cup {folded})
          BY <3>1 DEF Fold
        <4>2. folded' \in ToSet(log) \cup {folded}
          BY <4>1, FoldedIsMax DEF IInv
        <4>3. log \in Seq(1 .. MaxFrames)
          BY DEF IInv, TypeOK
        <4> QED
          BY <4>2, <4>3, LenProperties DEF ToSet
      <3>2. CASE ~Fold
        BY <3>2, StepFolded
      <3> QED
        BY <3>1, <3>2
    <2>2. next <= next' /\ next' \in Nat
      <3>1. TypeOK
        BY DEF IInv
      <3>2. next <= next' /\ next' \in 1 .. MaxFrames + 1
        BY <3>1, StepNumbers, Zenon
      <3> QED
        BY <3>2
    <2>3. next \in Nat /\ folded \in Nat /\ log \in Seq(1 .. MaxFrames)
      BY DEF IInv, TypeOK
    <2>4. folded < next /\ \A k \in 1 .. Len(log) : log[k] < next
      BY DEF IInv, Numbered
    <2>5. \A k \in 1 .. Len(log) : log[k] \in Nat
      <3>1. \A k \in 1 .. Len(log) : log[k] \in 1 .. MaxFrames
        BY <2>3, ElementOfSeq, Zenon
      <3> QED
        BY <3>1
    <2> QED
      BY <2>1, <2>2, <2>3, <2>4, <2>5
  <1> QED
    BY <1>a, <1>b, <1>c, LogNext DEF Numbered

\* Each variable of the owner's keeps its type.
LEMMA ControlNext ==
    ASSUME IInv, [Next]_vars
    PROVE  /\ sync' \in Modes /\ halted' \in BOOLEAN /\ poisoned' \in BOOLEAN
           /\ pc' \in {"closed", "saving", "cut", "cutsync", "upgrade", "upgradesync",
                       "restart", "create", "createsync", "ready", "barrier", "undo",
                       "undosync", "empty", "header", "headersync"}
           /\ losses' \in 0 .. MaxLosses /\ folds' \in 0 .. MaxFolds
  <1>0. /\ sync \in Modes /\ halted \in BOOLEAN /\ poisoned \in BOOLEAN
        /\ pc \in {"closed", "saving", "cut", "cutsync", "upgrade", "upgradesync",
                   "restart", "create", "createsync", "ready", "barrier", "undo",
                   "undosync", "empty", "header", "headersync"}
        /\ losses \in 0 .. MaxLosses /\ folds \in 0 .. MaxFolds
    BY DEF IInv, TypeOK
  <1>c. /\ losses < MaxLosses => losses + 1 \in 0 .. MaxLosses
        /\ folds < MaxFolds => folds + 1 \in 0 .. MaxFolds
    BY <1>0, WalFileAssumption
  <1>1. CASE UNCHANGED vars
    BY <1>0, <1>1 DEF vars, disk, handle
  <1>2. CASE Open
    BY <1>0, <1>2, WalFileAssumption DEF Open, disk, handle
  <1>3. CASE SaveAside
    BY <1>0, <1>3, WalFileAssumption DEF SaveAside, disk, handle
  <1>4. CASE Cut
    BY <1>0, <1>4, WalFileAssumption DEF Cut, disk, Wrote, handle
  <1>5. CASE CutSync
    BY <1>0, <1>5, WalFileAssumption DEF CutSync, handle
  <1>6. CASE Upgrade
    <2>1. /\ sync' = sync /\ losses' = losses /\ folds' = folds
          /\ (pc' = "upgradesync" \/ pc' = "ready") /\ halted' \in BOOLEAN
          /\ poisoned' \in BOOLEAN
      BY <1>0, <1>6 DEF Upgrade, Ready, Wrote, handle
    <2> QED
      BY <1>0, <2>1
  <1>7. CASE UpgradeSync
    BY <1>0, <1>7, WalFileAssumption DEF UpgradeSync, Ready, handle
  <1>8. CASE OpenFails
    BY <1>0, <1>8, WalFileAssumption DEF OpenFails, Left, handle
  <1>9. CASE Restart("restart", "create")
    BY <1>0, <1>9, WalFileAssumption DEF Restart, Emptied, handle
  <1>10. CASE WriteHeader("create", "createsync")
    BY <1>0, <1>10, WalFileAssumption DEF WriteHeader, Wrote, handle
  <1>11. CASE SyncHeader("createsync")
    BY <1>0, <1>11, WalFileAssumption DEF SyncHeader, Ready, handle
  <1>12. CASE Write
    BY <1>0, <1>12, WalFileAssumption DEF Write, Wrote
  <1>13. CASE WriteFails
    BY <1>0, <1>13, WalFileAssumption DEF WriteFails, Wrote, handle
  <1>14. CASE Barrier
    BY <1>0, <1>14, WalFileAssumption DEF Barrier, handle
  <1>15. CASE BarrierFails
    BY <1>0, <1>15, WalFileAssumption DEF BarrierFails, disk
  <1>16. CASE Undo
    BY <1>0, <1>16, WalFileAssumption DEF Undo, Wrote, handle
  <1>17. CASE UndoSync
    BY <1>0, <1>17, WalFileAssumption DEF UndoSync, handle
  <1>18. CASE UndoFails
    BY <1>0, <1>18, WalFileAssumption DEF UndoFails, disk
  <1>19. CASE Sync
    BY <1>0, <1>19, WalFileAssumption DEF Sync, handle
  <1>20. CASE Fold
    BY <1>0, <1>c, <1>20 DEF Fold, handle
  <1>21. CASE Restart("empty", "header")
    BY <1>0, <1>21, WalFileAssumption DEF Restart, Emptied, handle
  <1>22. CASE WriteHeader("header", "headersync")
    BY <1>0, <1>22, WalFileAssumption DEF WriteHeader, Wrote, handle
  <1>23. CASE SyncHeader("headersync")
    BY <1>0, <1>23, WalFileAssumption DEF SyncHeader, Ready, handle
  <1>24. CASE Close
    BY <1>0, <1>24, WalFileAssumption DEF Close, Left, Stop, Lost
  <1>25. CASE ProcessDies
    BY <1>0, <1>c, <1>25 DEF ProcessDies, Left, Stop, Lost
  <1>26. CASE PowerLoss
    BY <1>0, <1>c, <1>26 DEF PowerLoss, Stop, Lost
  <1>27. CASE Damage
    BY <1>0, <1>27, WalFileAssumption DEF Damage, Lost, handle
  <1> QED
    BY <1>1, <1>2, <1>3, <1>4, <1>5, <1>6, <1>7, <1>8, <1>9, <1>10, <1>11,
       <1>12, <1>13, <1>14, <1>15, <1>16, <1>17, <1>18, <1>19, <1>20, <1>21, <1>22,
       <1>23, <1>24, <1>25, <1>26, <1>27 DEF Next, Opens, Appends, Resets

\* So do the siblings, the answers and the damage.
LEMMA AnswersNext ==
    ASSUME IInv, [Next]_vars
    PROVE  /\ asides' \subseteq 1 .. MaxFrames
           /\ promised' \subseteq acked' /\ acked' \subseteq 1 .. next' - 1
           /\ damaged' \subseteq struck' /\ struck' \subseteq 1 .. MaxFrames
  <1>0. /\ asides \subseteq 1 .. MaxFrames /\ next \in Nat /\ next >= 2
        /\ promised \subseteq acked /\ acked \subseteq 1 .. next - 1
        /\ damaged \subseteq struck /\ struck \subseteq 1 .. MaxFrames
    BY WalFileAssumption DEF IInv, TypeOK, Numbered
  <1>f. file \in Seq(Cells)
    BY DEF IInv, TypeOK
  <1>1. CASE UNCHANGED vars
    BY <1>0, <1>1 DEF vars, answers, hurt
  <1>2. CASE Open
    BY <1>0, <1>2 DEF Open, answers, hurt
  <1>3. CASE SaveAside
    BY <1>0, <1>3 DEF SaveAside, answers, hurt, Whole
  <1>4. CASE Cut
    BY <1>0, <1>4 DEF Cut, answers, hurt
  <1>5. CASE CutSync
    BY <1>0, <1>5 DEF CutSync, answers, hurt
  <1>6. CASE Upgrade
    BY <1>0, <1>6 DEF Upgrade, answers, hurt
  <1>7. CASE UpgradeSync
    BY <1>0, <1>7 DEF UpgradeSync, answers, hurt
  <1>8. CASE OpenFails
    BY <1>0, <1>8 DEF OpenFails, answers, hurt
  <1>9. CASE Restart("restart", "create")
    BY <1>0, <1>9 DEF Restart, answers, hurt
  <1>10. CASE WriteHeader("create", "createsync")
    BY <1>0, <1>10 DEF WriteHeader, answers, hurt
  <1>11. CASE SyncHeader("createsync")
    BY <1>0, <1>11 DEF SyncHeader, answers, hurt
  <1>12. CASE Write
    <2>1. /\ next' = next + 1 /\ (acked' = acked \/ acked' = acked \cup {next})
          /\ UNCHANGED <<asides, promised, damaged, struck>>
      BY <1>12 DEF Write, Acknowledge, hurt
    <2>2. acked' \subseteq 1 .. next' - 1
      <3>1. next' - 1 = next /\ 1 .. next - 1 \subseteq 1 .. next /\ next \in 1 .. next
        BY <1>0, <2>1
      <3> QED
        BY <1>0, <2>1, <3>1
    <2> QED
      BY <1>0, <2>1, <2>2
  <1>13. CASE WriteFails
    BY <1>0, <1>13 DEF WriteFails, answers, hurt
  <1>14. CASE Barrier
    BY <1>0, <1>14 DEF Barrier, Acknowledge, hurt
  <1>15. CASE BarrierFails
    BY <1>0, <1>15 DEF BarrierFails, answers, hurt
  <1>16. CASE Undo
    BY <1>0, <1>16 DEF Undo, answers, hurt
  <1>17. CASE UndoSync
    BY <1>0, <1>17 DEF UndoSync, answers, hurt
  <1>18. CASE UndoFails
    BY <1>0, <1>18 DEF UndoFails, answers, hurt
  <1>19. CASE Sync
    <2>1. promised' = promised \cup {n \in acked : n \in ToSet(log)}
          /\ UNCHANGED <<asides, next, acked, damaged, struck>>
      BY <1>19 DEF Sync, hurt
    <2> QED
      BY <1>0, <2>1
  <1>20. CASE Fold
    BY <1>0, <1>20 DEF Fold, answers, hurt
  <1>21. CASE Restart("empty", "header")
    BY <1>0, <1>21 DEF Restart, answers, hurt
  <1>22. CASE WriteHeader("header", "headersync")
    BY <1>0, <1>22 DEF WriteHeader, answers, hurt
  <1>23. CASE SyncHeader("headersync")
    BY <1>0, <1>23 DEF SyncHeader, answers, hurt
  <1>24. CASE Close
    BY <1>0, <1>24 DEF Close, answers, hurt
  <1>25. CASE ProcessDies
    BY <1>0, <1>25 DEF ProcessDies, answers, hurt
  <1>26. CASE PowerLoss
    BY <1>0, <1>26 DEF PowerLoss, answers, hurt
  <1>27. CASE Damage
    <2>1. PICK i \in 2 .. Len(file) :
             /\ file[i].is \in {"length", "crc", "payload"}
             /\ damaged' = damaged \cup {file[i].of}
             /\ struck' = struck \cup ({file[j].of : j \in i .. Len(file)} \ {0})
             /\ UNCHANGED <<asides, next, acked, promised>>
      BY <1>27 DEF Damage, answers
    <2>2. /\ Len(file) \in Nat /\ i \in Nat \ {0}
          /\ \A j \in i .. Len(file) : file[j].of \in 0 .. MaxFrames
      <3>1. Len(file) \in Nat
        BY <1>f, LenProperties
      <3>2. ASSUME NEW j \in i .. Len(file)
            PROVE  file[j].of \in 0 .. MaxFrames
        <4>1. file[j] \in Cells
          BY <1>f, <3>1, ElementOfSeq
        <4> QED
          BY <4>1 DEF Cells
      <3> QED
        BY <3>1, <3>2
    <2>3. file[i].of \in 1 .. MaxFrames
      <3>1. file \in All /\ i \in 1 .. Len(file) /\ i \in i .. Len(file)
        BY <2>2 DEF IInv, TypeOK, All
      <3>2. file[i].of >= 1
        BY <2>1, <3>1 DEF IInv, Filed
      <3>3. MaxFrames \in Nat /\ file[i].of \in 0 .. MaxFrames
        BY <2>2, <3>1, WalFileAssumption
      <3> QED
        BY <3>2, <3>3
    <2>4. damaged' \subseteq struck'
      <3>1. file[i].of \in struck'
        <4>1. i \in i .. Len(file) /\ file[i].of # 0
          BY <2>2, <2>3
        <4> QED
          BY <2>1, <4>1
      <3> QED
        BY <1>0, <2>1, <3>1
    <2>5. struck' \subseteq 1 .. MaxFrames
      <3>1. ASSUME NEW j \in i .. Len(file), file[j].of # 0
            PROVE  file[j].of \in 1 .. MaxFrames
        <4>1. file[j].of \in 0 .. MaxFrames /\ MaxFrames \in Nat
          BY <2>2, WalFileAssumption
        <4> QED
          BY <3>1, <4>1
      <3> QED
        BY <1>0, <2>1, <3>1
    <2> QED
      BY <1>0, <2>1, <2>4, <2>5
  <1> QED
    BY <1>1, <1>2, <1>3, <1>4, <1>5, <1>6, <1>7, <1>8, <1>9, <1>10, <1>11,
       <1>12, <1>13, <1>14, <1>15, <1>16, <1>17, <1>18, <1>19, <1>20, <1>21, <1>22,
       <1>23, <1>24, <1>25, <1>26, <1>27 DEF Next, Opens, Appends, Resets

\* The end a handle keeps is one of a file.
LEMMA EndNext ==
    ASSUME IInv, [Next]_vars
    PROVE  end' \in Nat
  <1>0. /\ end \in Nat /\ log \in Seq(1 .. MaxFrames) /\ Len(log) \in Nat
    BY LenProperties DEF IInv, TypeOK
  <1>r. Len(file') \in Nat
    <2>1. file' \in All'
      BY StepVersions DEF IInv, All
    <2> QED
      BY <2>1, FiledNext, LenProperties
  <1>1. CASE UNCHANGED vars
    BY <1>0, <1>1 DEF vars, handle
  <1>2. CASE Open
    BY <1>0, <1>2 DEF Open, handle
  <1>3. CASE SaveAside
    BY <1>0, <1>3 DEF SaveAside, handle
  <1>4. CASE Cut
    BY <1>0, <1>4 DEF Cut, handle
  <1>5. CASE CutSync
    BY <1>0, <1>5 DEF CutSync, handle
  <1>6. CASE Upgrade
    BY <1>0, <1>r, <1>6 DEF Upgrade, Ready, handle
  <1>7. CASE UpgradeSync
    BY <1>0, <1>r, <1>7 DEF UpgradeSync, Ready
  <1>8. CASE OpenFails
    BY <1>0, <1>8 DEF OpenFails, handle
  <1>9. CASE Restart("restart", "create")
    BY <1>0, <1>9 DEF Restart, handle
  <1>10. CASE WriteHeader("create", "createsync")
    BY <1>0, <1>10 DEF WriteHeader, handle
  <1>11. CASE SyncHeader("createsync")
    BY <1>0, <1>r, <1>11 DEF SyncHeader, Ready
  <1>12. CASE Write
    BY <1>0, <1>12 DEF Write
  <1>13. CASE WriteFails
    BY <1>0, <1>13 DEF WriteFails, handle
  <1>14. CASE Barrier
    BY <1>0, <1>14 DEF Barrier, handle
  <1>15. CASE BarrierFails
    <2>1. end = Len(file) /\ Image(file, log) /\ log # <<>> /\ end' = end - 3
      BY <1>15 DEF BarrierFails, IInv, Phase, Appending
    <2>2. Len(file) = 3 * Len(log) + 1 /\ Len(log) \in Nat \ {0}
      BY <1>0, <2>1, EmptySeq DEF Image
    <2> QED
      BY <2>1, <2>2
  <1>16. CASE Undo
    BY <1>0, <1>16 DEF Undo, handle
  <1>17. CASE UndoSync
    BY <1>0, <1>17 DEF UndoSync, handle
  <1>18. CASE UndoFails
    BY <1>0, <1>18 DEF UndoFails, handle
  <1>19. CASE Sync
    BY <1>0, <1>19 DEF Sync, handle
  <1>20. CASE Fold
    BY <1>0, <1>20 DEF Fold, handle
  <1>21. CASE Restart("empty", "header")
    BY <1>0, <1>21 DEF Restart, handle
  <1>22. CASE WriteHeader("header", "headersync")
    BY <1>0, <1>22 DEF WriteHeader, handle
  <1>23. CASE SyncHeader("headersync")
    BY <1>0, <1>r, <1>23 DEF SyncHeader, Ready
  <1>24. CASE Close
    BY <1>0, <1>24 DEF Close, Stop
  <1>25. CASE ProcessDies
    BY <1>0, <1>25 DEF ProcessDies, Stop
  <1>26. CASE PowerLoss
    BY <1>0, <1>26 DEF PowerLoss, Stop
  <1>27. CASE Damage
    BY <1>0, <1>27 DEF Damage, handle
  <1> QED
    BY <1>1, <1>2, <1>3, <1>4, <1>5, <1>6, <1>7, <1>8, <1>9, <1>10, <1>11,
       <1>12, <1>13, <1>14, <1>15, <1>16, <1>17, <1>18, <1>19, <1>20, <1>21, <1>22,
       <1>23, <1>24, <1>25, <1>26, <1>27 DEF Next, Opens, Appends, Resets

\* The scan's boundary is within the file.
LEMMA PointNext ==
    ASSUME IInv, [Next]_vars
    PROVE  point' \in ResumePoint /\ point'.valid <= Len(file')
  <1>0. /\ point \in ResumePoint /\ point.valid <= Len(file) /\ file \in Seq(Cells)
        /\ Len(file) \in Nat
    BY LenProperties DEF IInv, TypeOK
  <1>n. NoPoint \in ResumePoint /\ NoPoint.valid <= Len(file')
    <2>1. file' \in All'
      BY StepVersions DEF IInv, All
    <2>2. Len(file') \in Nat
      BY <2>1, FiledNext, LenProperties
    <2> QED
      BY <2>2 DEF NoPoint, ResumePoint
  <1>p. pc \notin {"saving", "cut", "cutsync", "upgrade", "upgradesync"} => point = NoPoint
    BY DEF IInv, Phase, Pointed
  <1>1. CASE UNCHANGED vars
    BY <1>0, <1>1 DEF vars, disk
  <1>2. CASE Open
    <2>1. CASE HasHeader(file) /\ point' = Scan(file) /\ file' = file
      <3>1. ValidLen(file) \in Nat /\ ValidLen(file) <= Len(file) /\ NonTail(file) \in BOOLEAN
        BY <1>0, <2>1, Scanned DEF ValidLen, NonTail
      <3> QED
        BY <2>1, <3>1 DEF Scan, ResumePoint
    <2>2. CASE point' = point /\ file' = file
      BY <1>0, <2>2
    <2> QED
      BY <1>2, <2>1, <2>2 DEF Open, disk
  <1>3. CASE SaveAside
    BY <1>0, <1>3 DEF SaveAside, disk
  <1>4. CASE Cut
    <2>1. CASE point.valid < Len(file)
      <3>1. file' = SetLen(file, point.valid) /\ point' = point
        BY <1>4, <2>1 DEF Cut, Wrote
      <3>2. Len(file') = point.valid
        BY <1>0, <3>1, SetLenCells DEF ResumePoint
      <3> QED
        BY <1>0, <3>1, <3>2 DEF ResumePoint
    <2>2. CASE ~(point.valid < Len(file))
      BY <1>0, <1>4, <2>2 DEF Cut, disk
    <2> QED
      BY <2>1, <2>2
  <1>5. CASE CutSync
    BY <1>0, <1>5 DEF CutSync, Synced
  <1>6. CASE Upgrade
    <2>1. CASE file[1] = V4
      BY <1>n, <1>6, <2>1 DEF Upgrade, Ready
    <2>2. CASE file[1] # V4
      <3>1. pc = "upgrade" /\ file' = [file EXCEPT ![1] = V4] /\ point' = point
        BY <1>6, <2>2 DEF Upgrade, Wrote
      <3>2. Len(file') = Len(file)
        BY <3>1, UpgradedImage
      <3> QED
        BY <1>0, <3>1, <3>2
    <2> QED
      BY <2>1, <2>2
  <1>7. CASE UpgradeSync
    BY <1>n, <1>7 DEF UpgradeSync, Ready
  <1>8. CASE OpenFails
    BY <1>n, <1>8 DEF OpenFails
  <1>9. CASE Restart("restart", "create")
    BY <1>n, <1>p, <1>9 DEF Restart
  <1>10. CASE WriteHeader("create", "createsync")
    BY <1>n, <1>p, <1>10 DEF WriteHeader
  <1>11. CASE SyncHeader("createsync")
    BY <1>n, <1>11 DEF SyncHeader, Ready
  <1>12. CASE Write
    BY <1>n, <1>p, <1>12 DEF Write
  <1>13. CASE WriteFails
    BY <1>n, <1>p, <1>13 DEF WriteFails
  <1>14. CASE Barrier
    BY <1>n, <1>p, <1>14 DEF Barrier
  <1>15. CASE BarrierFails
    BY <1>n, <1>p, <1>15 DEF BarrierFails
  <1>16. CASE Undo
    BY <1>n, <1>p, <1>16 DEF Undo
  <1>17. CASE UndoSync
    BY <1>n, <1>p, <1>17 DEF UndoSync
  <1>18. CASE UndoFails
    BY <1>n, <1>p, <1>18 DEF UndoFails
  <1>19. CASE Sync
    BY <1>n, <1>p, <1>19 DEF Sync
  <1>20. CASE Fold
    BY <1>n, <1>p, <1>20 DEF Fold
  <1>21. CASE Restart("empty", "header")
    BY <1>n, <1>p, <1>21 DEF Restart
  <1>22. CASE WriteHeader("header", "headersync")
    BY <1>n, <1>p, <1>22 DEF WriteHeader
  <1>23. CASE SyncHeader("headersync")
    BY <1>n, <1>23 DEF SyncHeader, Ready
  <1>24. CASE Close
    BY <1>n, <1>24 DEF Close, Stop
  <1>25. CASE ProcessDies
    BY <1>n, <1>25 DEF ProcessDies, Stop
  <1>26. CASE PowerLoss
    BY <1>n, <1>26 DEF PowerLoss, Stop
  <1>27. CASE Damage
    BY <1>n, <1>p, <1>27 DEF Damage
  <1> QED
    BY <1>1, <1>2, <1>3, <1>4, <1>5, <1>6, <1>7, <1>8, <1>9, <1>10, <1>11,
       <1>12, <1>13, <1>14, <1>15, <1>16, <1>17, <1>18, <1>19, <1>20, <1>21, <1>22,
       <1>23, <1>24, <1>25, <1>26, <1>27 DEF Next, Opens, Appends, Resets

\* Every step keeps the types.
LEMMA TypeNext ==
    ASSUME IInv, [Next]_vars
    PROVE  TypeOK'
  <1>1. TypeOK
    BY DEF IInv
  <1>2. file' \in versions' /\ file' \in All'
    BY <1>1, StepVersions DEF All
  <1>3. /\ file' \in Seq(Cells)
        /\ versions' \in SUBSET Seq(Cells) /\ before' \in SUBSET Seq(Cells)
    BY <1>2, FiledNext DEF All
  <1>4. next' \in 1 .. MaxFrames + 1 /\ folded' \in 0 .. MaxFrames
    BY <1>1, StepNumbers
  <1>5. log' \in Seq(1 .. MaxFrames)
    BY LogNext
  <1> QED
    BY <1>2, <1>3, <1>4, <1>5, ControlNext, AnswersNext, EndNext, PointNext, Zenon DEF TypeOK

-----------------------------------------------------------------------------
(* The promises.                                                           *)

\* Damage and siblings only grow.
LEMMA StepHurt ==
    ASSUME [Next]_vars
    PROVE  damaged \subseteq damaged' /\ struck \subseteq struck' /\ asides \subseteq asides'
  BY DEF Next, Opens, Appends, Resets, vars, hurt, Open, SaveAside, Cut, CutSync, Upgrade,
         UpgradeSync, OpenFails, Restart, WriteHeader, SyncHeader, Write, WriteFails, Barrier,
         BarrierFails, Undo, UndoSync, UndoFails, Sync, Fold, Close, ProcessDies, PowerLoss, Damage

\* A file is only emptied behind a checkpoint, or when it holds no frame.
LEMMA StepResets ==
    ASSUME [Next]_vars, pc \notin Resetting, pc' \in Resetting
    PROVE  Fold \/ file = <<>> \/ (Len(file) = 1 /\ ~HasHeader(file))
  BY DEF Resetting, Next, Opens, Appends, Resets, vars, Open, SaveAside, Cut, CutSync, Upgrade,
         Ready, UpgradeSync, OpenFails, Restart, WriteHeader, SyncHeader, Write, WriteFails,
         Barrier, BarrierFails, Undo, UndoSync, UndoFails, Sync, Stop, Close, ProcessDies,
         PowerLoss, Damage

\* A cut comes after the copy.
LEMMA StepCut ==
    ASSUME [Next]_vars, pc' = "cut"
    PROVE  SaveAside \/ (pc = "cut" /\ point' = point)
  BY DEF Next, Opens, Appends, Resets, vars, Open, Cut, CutSync, Upgrade,
         Ready, UpgradeSync, OpenFails, Restart, WriteHeader, SyncHeader, Write, WriteFails,
         Barrier, BarrierFails, Undo, UndoSync, UndoFails, Sync, Fold, Stop, Close, ProcessDies,
         PowerLoss, Damage

\* What a fold checkpoints is what its log holds.
LEMMA FoldedLog ==
    ASSUME IInv, Fold
    PROVE  /\ Image(file, log) /\ log \in Seq(1 .. MaxFrames)
           /\ \A k \in 1 .. Len(log) : log[k] <= folded'
  <1>1. pc = "ready" /\ ~poisoned /\ folded' = Max(ToSet(log) \cup {folded})
    BY DEF Fold
  <1>2. Image(file, log)
    BY <1>1 DEF IInv, Phase, Appending
  <1> QED
    BY <1>1, <1>2, FoldedIsMax DEF IInv, TypeOK

\* What the steps below need of the numbers.
LEMMA Grows ==
    ASSUME IInv, [Next]_vars
    PROVE  /\ damaged \subseteq damaged' /\ struck \subseteq struck' /\ asides \subseteq asides'
           /\ folded \in Nat /\ folded' \in Nat /\ folded <= folded'
           /\ promised \subseteq acked /\ promised' \subseteq 1 .. MaxFrames
  <1>1. TypeOK
    BY DEF IInv
  <1>2. /\ next' \in 1 .. MaxFrames + 1 /\ folded <= folded' /\ folded' \in 0 .. MaxFrames
    BY <1>1, StepNumbers
  <1>3. MaxFrames \in Nat /\ folded \in 0 .. MaxFrames /\ promised \subseteq acked
    BY <1>1, WalFileAssumption DEF TypeOK
  <1>4. promised' \subseteq 1 .. next' - 1
    BY AnswersNext, Zenon
  <1>5. 1 .. next' - 1 \subseteq 1 .. MaxFrames
    <2>1. \A m \in 1 .. MaxFrames + 1 : \A j \in 1 .. m - 1 : j \in 1 .. MaxFrames
      BY <1>3
    <2> QED
      BY <1>2, <2>1
  <1>6. promised' \subseteq 1 .. MaxFrames
    BY <1>4, <1>5
  <1> QED
    BY <1>2, <1>3, <1>6, StepHurt

\* What is owed is carried on.
LEMMA ServedNext ==
    ASSUME IInv, [Next]_vars
    PROVE  ServedOK'
  <1> SUFFICES ASSUME NEW n \in promised' \ struck', n > folded'
               PROVE  pc' \notin Resetting /\ Served(n)'
    BY DEF ServedOK, Owed
  <1>0. /\ struck \subseteq struck' /\ folded \in Nat /\ folded' \in Nat /\ folded <= folded'
        /\ promised \subseteq acked /\ promised' \subseteq 1 .. MaxFrames
    BY Grows
  <1>1. n \in Nat
    BY <1>0
  <1>2. CASE n \in promised
    <2>1. n \notin struck /\ Owed(n)
      BY <1>0, <1>1, <1>2 DEF Owed
    <2>2. pc \notin Resetting /\ Served(n)
      BY <1>2, <2>1 DEF IInv, ServedOK
    <2>3. PICK p \in Seq(1 .. MaxFrames) :
             p # <<>> /\ Last(p) = n /\ \A f \in All : Carries(f, p)
      BY <2>2 DEF Served
    <2>4. Last(p) \in acked /\ Last(p) \notin struck'
      BY <1>0, <1>2, <2>3
    <2>5. \A f \in All' : Carries(f, p)
      BY <2>2, <2>3, <2>4, CarriedOn
    <2>6. Served(n)'
      BY <2>3, <2>5 DEF Served
    <2>7. Carries(file, p) /\ file \in Seq(Cells)
      BY <2>3 DEF IInv, TypeOK, All
    <2>8. pc' \notin Resetting
      <3> SUFFICES ASSUME pc' \in Resetting
                   PROVE  FALSE
        OBVIOUS
      <3>1. HasHeader(file) /\ file # <<>>
        BY <2>7, ImageHead DEF Carries
      <3>2. Fold
        BY <2>2, <3>1, StepResets
      <3>3. /\ Image(file, log) /\ log \in Seq(1 .. MaxFrames)
            /\ \A k \in 1 .. Len(log) : log[k] <= folded'
        BY <3>2, FoldedLog
      <3>4. /\ Len(p) \in Nat \ {0} /\ Last(p) = p[Len(p)] /\ Len(log) \in Nat
        BY <2>3, <3>3, LenProperties, EmptySeq DEF Last
      <3>5. 3 * Len(p) + 1 <= 3 * Len(log) + 1 /\ Carries(file, log)
        BY <2>7, <3>3 DEF Carries, Image
      <3>6. Len(p) \in 1 .. Len(log) /\ Len(p) \in 1 .. Len(p)
        BY <3>4, <3>5
      <3>7. Frames(file)[Len(p)] = p[Len(p)]
        BY <2>7, <3>6, CarriedIsRead
      <3>8. Frames(file) = log
        BY <2>7, <3>3, ImageIsRead
      <3>9. n <= folded'
        BY <2>3, <3>3, <3>4, <3>6, <3>7, <3>8
      <3> QED
        BY <1>0, <1>1, <3>9
    <2> QED
      BY <2>6, <2>8
  <1>3. CASE n \notin promised
    <2>1. Barrier \/ Sync
      BY <1>3, StepPromises
    <2>2. /\ All' = {file} /\ Image(file, log) /\ pc' = "ready"
          /\ \E k \in 1 .. Len(log) : log[k] = n
      BY <1>3, <2>1, PromisedImage
    <2>3. PICK k \in 1 .. Len(log) : log[k] = n
      BY <2>2
    <2>4. log \in Seq(1 .. MaxFrames) /\ Len(log) \in Nat
      BY LenProperties DEF IInv, TypeOK
    <2> DEFINE p == SubSeq(log, 1, k)
    <2>5. /\ p \in Seq(1 .. MaxFrames) /\ Len(p) = k /\ \A j \in 1 .. k : p[j] = log[j]
      <3>1. \A j \in 1 .. k : j \in 1 .. Len(log) /\ log[j] \in 1 .. MaxFrames
        <4>1. \A j \in 1 .. k : j \in 1 .. Len(log)
          BY <2>4
        <4> QED
          BY <2>4, <4>1, ElementOfSeq
      <3>2. /\ p \in Seq(1 .. MaxFrames) /\ Len(p) = IF 1 <= k THEN k - 1 + 1 ELSE 0
            /\ \A j \in 1 .. k - 1 + 1 : p[j] = log[1 + j - 1]
        BY <3>1, SubSeqProperties
      <3>3. \A j \in 1 .. k : 1 + j - 1 = j
        OBVIOUS
      <3> QED
        BY <3>2, <3>3
    <2>6. p # <<>> /\ Last(p) = n
      BY <2>3, <2>4, <2>5, EmptySeq DEF Last
    <2> HIDE DEF p
    <2>7. Carries(file, p)
      <3>1. Carries(file, log) /\ Len(p) <= Len(log)
        BY <2>2, <2>4, <2>5 DEF Image
      <3>2. \A j \in 1 .. Len(p) : p[j] = log[j]
        BY <2>5
      <3> QED
        BY <2>4, <2>5, <3>1, <3>2, CarriesLess
    <2>8. \A f \in All' : Carries(f, p)
      BY <2>2, <2>7
    <2>9. Served(n)'
      BY <2>5, <2>6, <2>8 DEF Served
    <2> QED
      BY <2>2, <2>9 DEF Resetting
  <1> QED
    BY <1>2, <1>3

\* A frame that stands at a place is one of those that a copy of it holds.
LEMMA StandingIsWhole ==
    ASSUME NEW f \in Seq(Cells), NEW i \in Nat \ {0}, NEW n \in 1 .. MaxFrames, Stands(f, i, n)
    PROVE  /\ n \in Whole(f)
           /\ \A v \in Nat : v < i => n \in Whole(From(f, v))
  <1>1. Len(f) \in Nat /\ i + 2 <= Len(f) /\ DOMAIN f = 1 .. Len(f)
    BY LenProperties DEF Stands
  <1>2. n \in Whole(f)
    <2>1. i \in DOMAIN f
      BY <1>1
    <2> QED
      BY <1>1, <2>1 DEF Whole, Stands
  <1>3. ASSUME NEW v \in Nat, v < i
        PROVE  n \in Whole(From(f, v))
    <2> DEFINE g == From(f, v)
    <2>1. /\ g \in Seq(Cells) /\ Len(g) = Len(f) - v
          /\ \A j \in 1 .. Len(f) - v : g[j] = f[v + j]
      <3>1. v + 1 \in 1 .. Len(f) + 1 /\ Len(f) \in v .. Len(f)
        BY <1>1, <1>3
      <3>2. \A j \in v + 1 .. Len(f) : f[j] \in Cells
        <4>1. ASSUME NEW j \in v + 1 .. Len(f)
              PROVE  f[j] \in Cells
          <5>1. j \in 1 .. Len(f)
            BY <1>1
          <5> QED
            BY <5>1, ElementOfSeq
        <4> QED
          BY <4>1
      <3> QED
        <4>1. /\ g \in Seq(Cells)
              /\ Len(g) = IF v + 1 <= Len(f) THEN Len(f) - (v + 1) + 1 ELSE 0
              /\ \A j \in 1 .. Len(f) - (v + 1) + 1 : g[j] = f[(v + 1) + j - 1]
          BY <1>1, <3>2, SubSeqProperties DEF From
        <4>2. Len(f) - (v + 1) + 1 = Len(f) - v /\ v + 1 <= Len(f)
          BY <1>1, <1>3
        <4>3. \A j \in 1 .. Len(f) - v : (v + 1) + j - 1 = v + j
          BY <1>1
        <4> QED
          BY <4>1, <4>2, <4>3
    <2> HIDE DEF g
    <2>2. /\ f[i] = Cell("length", n) /\ f[i + 1] = Cell("crc", n)
          /\ f[i + 2] = Cell("payload", n)
      BY StandsCells
    <2>3. i - v \in Nat \ {0} /\ i - v + 2 <= Len(f) - v
      BY <1>1, <1>3
    <2>4. g[i - v] = f[i] /\ g[i - v + 1] = f[i + 1] /\ g[i - v + 2] = f[i + 2]
      <3>1. /\ i - v \in 1 .. Len(f) - v /\ v + (i - v) = i
            /\ i - v + 1 \in 1 .. Len(f) - v /\ v + (i - v + 1) = i + 1
            /\ i - v + 2 \in 1 .. Len(f) - v /\ v + (i - v + 2) = i + 2
        BY <1>1, <1>3
      <3> QED
        BY <2>1, <3>1
    <2>5. Stands(g, i - v, n)
      BY <2>1, <2>2, <2>3, <2>4, StandsCells
    <2>6. i - v \in DOMAIN g /\ i - v + 2 <= Len(g) /\ SubSeq(g, i - v, i - v + 2) = FrameOf(n)
      BY <1>1, <2>1, <2>3, <2>5, LenProperties DEF Stands
    <2>7. n \in Whole(g)
      BY <2>6 DEF Whole
    <2> QED
      BY <2>7 DEF g
  <1> QED
    BY <1>2, <1>3

\* What is undamaged stands where it stood, or in a sibling.
LEMMA HeldNext ==
    ASSUME IInv, [Next]_vars
    PROVE  HeldOK'
  <1> SUFFICES ASSUME NEW n \in promised' \ damaged', n > folded'
               PROVE  n \in asides' \/ (pc' \notin Resetting /\ Held(n)')
    BY DEF HeldOK, Owed
  <1>0. /\ damaged \subseteq damaged' /\ asides \subseteq asides'
        /\ folded \in Nat /\ folded' \in Nat /\ folded <= folded'
        /\ promised \subseteq acked /\ promised' \subseteq 1 .. MaxFrames
    BY Grows
  <1>1. n \in 1 .. MaxFrames /\ n \in Nat
    BY <1>0
  <1>f. file \in Seq(Cells) /\ Len(file) \in Nat /\ file \in All
    BY LenProperties DEF IInv, TypeOK, All
  <1>2. CASE n \in promised
    <2>1. n \notin damaged /\ Owed(n)
      BY <1>0, <1>1, <1>2 DEF Owed
    <2>2. CASE n \in asides
      BY <1>0, <2>2
    <2>3. CASE n \notin asides
      <3>1. pc \notin Resetting /\ Held(n)
        BY <1>2, <2>1, <2>3 DEF IInv, HeldOK
      <3>2. PICK i \in Nat \ {0} : /\ pc = "cut" => i + 2 <= point.valid
                                   /\ \A f \in All : Stands(f, i, n)
        BY <3>1 DEF Held
      <3>3. \A f \in All' : Stands(f, i, n)
        BY <1>0, <1>2, <3>1, <3>2, StandsOn
      <3>4. Stands(file, i, n) /\ i + 2 <= Len(file)
        BY <1>f, <3>2 DEF Stands
      <3>5. n \in asides' \/ (pc' = "cut" => i + 2 <= point'.valid)
        <4>1. CASE SaveAside
          <5>1. /\ pc = "saving" /\ point' = point
                /\ asides' = asides \cup (IF point.nonTail THEN Whole(file)
                                          ELSE Whole(From(file, point.valid)))
            BY <4>1 DEF SaveAside
          <5>2. HasHeader(file) /\ point.valid = ValidLen(file) /\ point.valid \in Nat
            BY <5>1 DEF IInv, TypeOK, ResumePoint, Phase, Pointed, Scan
          <5>3. CASE i + 2 <= point.valid
            BY <5>1, <5>3
          <5>4. CASE ~(i + 2 <= point.valid)
            <6>1. i > point.valid
              BY <1>f, <3>4, <5>2, <5>4, WithinReach
            <6>2. n \in Whole(file) /\ n \in Whole(From(file, point.valid))
              BY <1>1, <1>f, <3>4, <5>2, <6>1, StandingIsWhole
            <6> QED
              BY <5>1, <6>2
          <5> QED
            BY <5>3, <5>4
        <4>2. CASE ~SaveAside
          BY <3>2, <4>2, StepCut
        <4> QED
          BY <4>1, <4>2
      <3>6. pc' \notin Resetting
        <4> SUFFICES ASSUME pc' \in Resetting
                     PROVE  FALSE
          OBVIOUS
        <4>1. file # <<>> /\ Len(file) # 1
          <5>1. Len(file) >= 3
            BY <1>f, <3>4
          <5>2. Len(<<>>) = 0 /\ ~(0 >= 3) /\ ~(1 >= 3)
            OBVIOUS
          <5> QED
            BY <5>1, <5>2, Zenon
        <4>2. Fold
          BY <3>1, <4>1, StepResets
        <4>3. /\ Image(file, log) /\ log \in Seq(1 .. MaxFrames)
              /\ \A k \in 1 .. Len(log) : log[k] <= folded'
          BY <4>2, FoldedLog
        <4>4. file[i] = Cell("length", n) /\ i \in 1 .. Len(file)
          BY <1>f, <3>4, StandsCells
        <4>5. Carries(file, log) /\ i \in 1 .. 3 * Len(log) + 1
          BY <4>3, <4>4 DEF Image
        <4>6. PICK k \in 1 .. Len(log) : log[k] = n
          BY <1>f, <4>3, <4>4, <4>5, LengthInSlot
        <4>7. n <= folded'
          BY <4>3, <4>6
        <4> QED
          BY <1>0, <1>1, <4>7
      <3>7. (pc' = "cut" => i + 2 <= point'.valid) => Held(n)'
        BY <3>3 DEF Held
      <3> QED
        BY <3>5, <3>6, <3>7
    <2> QED
      BY <2>2, <2>3
  <1>3. CASE n \notin promised
    <2>1. Barrier \/ Sync
      BY <1>3, StepPromises
    <2>2. /\ All' = {file} /\ Image(file, log) /\ pc' = "ready"
          /\ \E k \in 1 .. Len(log) : log[k] = n
      BY <1>3, <2>1, PromisedImage
    <2>3. PICK k \in 1 .. Len(log) : log[k] = n
      BY <2>2
    <2>4. log \in Seq(1 .. MaxFrames) /\ Len(log) \in Nat
      BY LenProperties DEF IInv, TypeOK
    <2>5. Slot(file, k, n) /\ Len(file) = 3 * Len(log) + 1
      BY <2>2, <2>3 DEF Image, Carries
    <2>6. /\ 3 * k - 1 \in Nat \ {0} /\ 3 * k - 1 + 1 = 3 * k /\ 3 * k - 1 + 2 = 3 * k + 1
          /\ 3 * k + 1 <= Len(file)
      BY <2>4, <2>5
    <2>7. Stands(file, 3 * k - 1, n)
      BY <1>f, <2>5, <2>6, StandsCells DEF Slot
    <2>8. \A f \in All' : Stands(f, 3 * k - 1, n)
      BY <2>2, <2>7
    <2>9. Held(n)'
      BY <2>2, <2>6, <2>8 DEF Held
    <2> QED
      BY <2>2, <2>9 DEF Resetting
  <1> QED
    BY <1>2, <1>3

-----------------------------------------------------------------------------
(* The payloads.                                                           *)

\* The file is the log, and what a power loss leaves of it is a beginning of it.
Clean == Image(file, log) /\ \A f \in All : f = file \/ IsPrefix(f, file)

\* The log changes by a frame, or to what the file holds.
LEMMA CleanSteps ==
    ASSUME IInv, [Next]_vars, ~halted'
    PROVE  Clean' \/ (~halted /\ (log' = log \/ log' = Append(log, next)))
  <1>1. CASE UNCHANGED vars
    BY <1>1 DEF vars, disk
  <1>2. CASE Open
    BY <1>2 DEF Open, disk
  <1>3. CASE SaveAside
    BY <1>3 DEF SaveAside, disk
  <1>4. CASE Cut
    BY <1>4 DEF Cut, disk, Wrote
  <1>5. CASE CutSync
    BY <1>5 DEF CutSync
  <1>6. CASE Upgrade
    <2>1. CASE file[1] = V4
      <3>1. /\ UNCHANGED <<file, versions, before>> /\ log' = Frames(file')
            /\ halted' = (halted /\ (versions' # {file'} \/ before' # {}))
        BY <1>6, <2>1 DEF Upgrade, Ready
      <3>2. Image(file', log')
        BY <1>6, <3>1 DEF Upgrade, IInv, Phase, Opened
      <3>3. CASE halted
        <4>1. versions' = {file'} /\ before' = {}
          BY <3>1, <3>3
        <4> QED
          BY <3>2, <4>1 DEF All, Clean
      <3>4. CASE ~halted
        <4>1. before = {} /\ \A v \in versions : IsPrefix(v, file)
          BY <1>6, <3>4 DEF Upgrade, IInv, PayloadOK, Prefixed
        <4> QED
          BY <3>1, <3>2, <4>1 DEF All, Clean
      <3> QED
        BY <3>3, <3>4
    <2>2. CASE file[1] # V4
      BY <1>6, <2>2 DEF Upgrade, Wrote
    <2> QED
      BY <2>1, <2>2
  <1>7. CASE UpgradeSync
    <2>1. Image(file, Frames(file))
      BY <1>7 DEF UpgradeSync, IInv, Phase, Opened
    <2>2. Synced /\ log' = Frames(file')
      BY <1>7 DEF UpgradeSync, Ready
    <2> QED
      BY <2>1, <2>2 DEF Synced, All, Clean
  <1>8. CASE OpenFails
    BY <1>8 DEF OpenFails, Left
  <1>9. CASE Restart("restart", "create")
    BY <1>9 DEF Restart, Emptied
  <1>10. CASE WriteHeader("create", "createsync")
    BY <1>10 DEF WriteHeader, Wrote
  <1>11. CASE SyncHeader("createsync")
    <2>1. file = <<V4>>
      BY <1>11 DEF SyncHeader, IInv, Phase, Opened
    <2>2. Synced /\ log' = Frames(file')
      BY <1>11 DEF SyncHeader, Ready
    <2>3. Image(file, Frames(file))
      BY <2>1, HeaderImage
    <2> QED
      BY <2>2, <2>3 DEF Synced, All, Clean
  <1>12. CASE Write
    BY <1>12 DEF Write, Wrote
  <1>13. CASE WriteFails
    BY <1>13 DEF WriteFails, Wrote
  <1>14. CASE Barrier
    <2>1. All' = {file} /\ file' = file /\ log' = log /\ Image(file, log)
      BY <1>14, PromisedImage
    <2> QED
      BY <2>1 DEF Clean
  <1>15. CASE BarrierFails
    BY <1>15 DEF BarrierFails, disk
  <1>16. CASE Undo
    BY <1>16 DEF Undo, Wrote
  <1>17. CASE UndoSync
    <2>1. Image(file, Undone)
      BY <1>17 DEF UndoSync, IInv, Phase, Undoing
    <2>2. Synced /\ log' = Undone
      BY <1>17 DEF UndoSync
    <2> QED
      BY <2>1, <2>2 DEF Synced, All, Clean
  <1>18. CASE UndoFails
    BY <1>18 DEF UndoFails, disk
  <1>19. CASE Sync
    <2>1. All' = {file} /\ file' = file /\ log' = log /\ Image(file, log)
      BY <1>19, PromisedImage
    <2> QED
      BY <2>1 DEF Clean
  <1>20. CASE Fold
    <2>1. Image(file, log)
      BY <1>20, FoldedLog
    <2>2. Synced /\ log' = log
      BY <1>20 DEF Fold
    <2> QED
      BY <2>1, <2>2 DEF Synced, All, Clean
  <1>21. CASE Restart("empty", "header")
    BY <1>21 DEF Restart, Emptied
  <1>22. CASE WriteHeader("header", "headersync")
    BY <1>22 DEF WriteHeader, Wrote
  <1>23. CASE SyncHeader("headersync")
    <2>1. file = <<V4>>
      BY <1>23 DEF SyncHeader, IInv, Phase, Opened
    <2>2. Synced /\ log' = Frames(file')
      BY <1>23 DEF SyncHeader, Ready
    <2>3. Image(file, Frames(file))
      BY <2>1, HeaderImage
    <2> QED
      BY <2>2, <2>3 DEF Synced, All, Clean
  <1>24. CASE Close
    BY <1>24 DEF Close, Left
  <1>25. CASE ProcessDies
    BY <1>25 DEF ProcessDies, Left
  <1>26. CASE PowerLoss
    BY <1>26 DEF PowerLoss
  <1>27. CASE Damage
    BY <1>27 DEF Damage
  <1> QED
    BY <1>1, <1>2, <1>3, <1>4, <1>5, <1>6, <1>7, <1>8, <1>9, <1>10, <1>11,
       <1>12, <1>13, <1>14, <1>15, <1>16, <1>17, <1>18, <1>19, <1>20, <1>21, <1>22,
       <1>23, <1>24, <1>25, <1>26, <1>27 DEF Next, Opens, Appends, Resets

\* The payloads of a clean file are the log's.
LEMMA CleanPlaced ==
    ASSUME \A f \in All' : f \in Seq(Cells), file' \in All', log' \in Seq(1 .. MaxFrames), Clean'
    PROVE  Placed'
  <1> SUFFICES ASSUME NEW f \in All', NEW i \in 1 .. Len(f), f[i].is = "payload"
               PROVE  \E k \in 1 .. Len(log') : i = 3 * k + 1 /\ f[i].of = log'[k]
    BY DEF Placed
  <1>1. /\ Image(file', log') /\ (f = file' \/ IsPrefix(f, file'))
        /\ f \in Seq(Cells) /\ file' \in Seq(Cells)
    BY DEF Clean
  <1>2. Len(f) <= Len(file') /\ f[i] = file'[i]
    BY <1>1, LenProperties, PrefixElements
  <1>3. /\ Len(file') = 3 * Len(log') + 1 /\ Len(log') \in Nat /\ Len(f) \in Nat
        /\ HasHeader(file') /\ \A k \in 1 .. Len(log') : Slot(file', k, log'[k])
    BY <1>1, LenProperties DEF Image, Carries
  <1>4. i # 1
    <2>1. file'[1] \in {V3, V4} /\ V3.is = "v3" /\ V4.is = "v4"
      BY <1>3, NamedCells DEF HasHeader
    <2> QED
      BY <1>2, <2>1
  <1>5. PICK k \in 1 .. Len(log') : i = 3 * k - 1 \/ i = 3 * k \/ i = 3 * k + 1
    <2>1. i \in 2 .. 3 * Len(log') + 1
      BY <1>2, <1>3, <1>4
    <2> QED
      BY <1>3, <2>1, InSlot
  <1>6. Slot(file', k, log'[k])
    BY <1>3
  <1>7. i = 3 * k + 1
    <2>1. Cell("length", log'[k]).is = "length" /\ Cell("crc", log'[k]).is = "crc"
      BY DEF Cell
    <2> QED
      BY <1>2, <1>5, <1>6, <2>1 DEF Slot
  <1>8. f[i].of = log'[k]
    <2>1. Cell("payload", log'[k]).of = log'[k]
      BY DEF Cell
    <2> QED
      BY <1>2, <1>6, <1>7, <2>1 DEF Slot
  <1> QED
    BY <1>7, <1>8

\* A payload is where it was, or is the next frame's.
LEMMA PlacedOn ==
    ASSUME IInv, [Next]_vars, Placed, log' = log \/ log' = Append(log, next)
    PROVE  Placed'
  <1> SUFFICES ASSUME NEW f \in All', NEW i \in 1 .. Len(f), f[i].is = "payload"
               PROVE  \E k \in 1 .. Len(log') : i = 3 * k + 1 /\ f[i].of = log'[k]
    BY DEF Placed
  <1>0. log \in Seq(1 .. MaxFrames) /\ Len(log) \in Nat
    BY LenProperties DEF IInv, TypeOK
  <1>1. /\ Len(log) <= Len(log') /\ Len(log') \in Nat
        /\ \A k \in 1 .. Len(log) : log'[k] = log[k]
    <2>1. CASE log' = log
      BY <1>0, <2>1
    <2>2. CASE log' = Append(log, next)
      <3>1. next \in Nat /\ log \in Seq(Nat)
        <4>1. next \in Nat /\ 1 .. MaxFrames \subseteq Nat
          BY WalFileAssumption DEF IInv, TypeOK
        <4> QED
          BY <1>0, <4>1, SeqMonotonic
      <3> QED
        BY <1>0, <2>2, <3>1, AppendProperties
    <2> QED
      BY <2>1, <2>2
  <1>2. NewFile(f)
    BY NewFiles DEF IInv
  <1>3. OldCell(f, i) \/ BlankCell(f[i]) \/ FreshCell(f, i)
    BY <1>2, NewFileCells
  <1>4. CASE OldCell(f, i)
    <2>1. PICK v \in All : i \in 1 .. Len(v) /\ f[i] = v[i]
      BY <1>4 DEF OldCell
    <2>2. PICK k \in 1 .. Len(log) : i = 3 * k + 1 /\ v[i].of = log[k]
      BY <2>1 DEF Placed
    <2>3. k \in 1 .. Len(log')
      BY <1>0, <1>1
    <2> QED
      BY <1>1, <2>1, <2>2, <2>3
  <1>5. CASE BlankCell(f[i])
    BY <1>5 DEF BlankCell
  <1>6. CASE FreshCell(f, i)
    <2>1. PICK k \in 1 .. 3 : /\ i = Len(file) + k /\ f[i] = FrameOf(next)[k]
                              /\ k = 3 => log' = Append(log, next)
      BY <1>6 DEF FreshCell
    <2>2. k = 3 /\ f[i].of = next
      <3>1. k = 1 \/ k = 2 \/ k = 3
        OBVIOUS
      <3>2. /\ FrameOf(next)[1].is = "length" /\ FrameOf(next)[2].is = "crc"
            /\ FrameOf(next)[3].is = "payload" /\ FrameOf(next)[3].of = next
        BY DEF FrameOf, Cell
      <3> QED
        BY <2>1, <3>1, <3>2
    <2>3. log' = Append(log, next) /\ next \in 1 .. MaxFrames
      BY <1>6, <2>1, <2>2 DEF FreshCell
    <2>4. log'[Len(log) + 1] = next /\ Len(log') = Len(log) + 1
      BY <1>0, <2>3, AppendProperties
    <2>5. Len(file) = 3 * Len(log) + 1
      BY <1>6 DEF FreshCell, IInv, Phase, Appending, Image
    <2>6. i = 3 * (Len(log) + 1) + 1 /\ Len(log) + 1 \in 1 .. Len(log')
      BY <1>0, <2>1, <2>2, <2>4, <2>5
    <2> QED
      BY <2>2, <2>4, <2>6
  <1> QED
    BY <1>3, <1>4, <1>5, <1>6

\* Where an open may start, a power loss leaves a beginning of the file.
LEMMA PrefixedNext ==
    ASSUME IInv, [Next]_vars, ~halted', pc' \in {"closed", "saving", "cut", "upgrade"}
    PROVE  before' = {} /\ \A v \in versions' : IsPrefix(v, file')
  <1>0. /\ IsPrefix(file', file')
        /\ ~halted /\ pc \in {"closed", "saving", "cut", "upgrade"}
              => before = {} /\ \A v \in versions : IsPrefix(v, file)
    <2>1. file' \in Seq(Cells)
      BY StepVersions, FiledNext DEF IInv, All
    <2> QED
      BY <2>1, PrefixElements DEF IInv, PayloadOK, Prefixed
  <1>1. CASE UNCHANGED vars
    BY <1>0, <1>1 DEF vars, disk
  <1>2. CASE Open
    BY <1>0, <1>2 DEF Open, disk
  <1>3. CASE SaveAside
    BY <1>0, <1>3 DEF SaveAside, disk
  <1>4. CASE Cut
    <2>1. CASE point.valid < Len(file)
      BY <1>4, <2>1 DEF Cut
    <2>2. CASE ~(point.valid < Len(file))
      BY <1>0, <1>4, <2>2 DEF Cut, disk
    <2> QED
      BY <2>1, <2>2
  <1>5. CASE CutSync
    <2>1. before' = {} /\ versions' = {file'}
      BY <1>5 DEF CutSync, Synced
    <2> QED
      BY <1>0, <2>1
  <1>6. CASE Upgrade
    BY <1>6 DEF Upgrade, Ready
  <1>7. CASE UpgradeSync
    BY <1>7 DEF UpgradeSync, Ready
  <1>8. CASE OpenFails
    <2>1. Left
      BY <1>8 DEF OpenFails
    <2> QED
      BY <2>1 DEF Left
  <1>9. CASE Restart("restart", "create")
    BY <1>9 DEF Restart
  <1>10. CASE WriteHeader("create", "createsync")
    BY <1>10 DEF WriteHeader
  <1>11. CASE SyncHeader("createsync")
    BY <1>11 DEF SyncHeader, Ready
  <1>12. CASE Write
    BY <1>12 DEF Write
  <1>13. CASE WriteFails
    BY <1>13 DEF WriteFails
  <1>14. CASE Barrier
    BY <1>14 DEF Barrier
  <1>15. CASE BarrierFails
    BY <1>15 DEF BarrierFails
  <1>16. CASE Undo
    BY <1>16 DEF Undo
  <1>17. CASE UndoSync
    BY <1>17 DEF UndoSync
  <1>18. CASE UndoFails
    BY <1>18 DEF UndoFails
  <1>19. CASE Sync
    BY <1>19 DEF Sync
  <1>20. CASE Fold
    BY <1>20 DEF Fold
  <1>21. CASE Restart("empty", "header")
    BY <1>21 DEF Restart
  <1>22. CASE WriteHeader("header", "headersync")
    BY <1>22 DEF WriteHeader
  <1>23. CASE SyncHeader("headersync")
    BY <1>23 DEF SyncHeader, Ready
  <1>24. CASE Close
    <2>1. Left
      BY <1>24 DEF Close
    <2> QED
      BY <2>1 DEF Left
  <1>25. CASE ProcessDies
    <2>1. Left
      BY <1>25 DEF ProcessDies
    <2> QED
      BY <2>1 DEF Left
  <1>26. CASE PowerLoss
    <2>1. before' = {} /\ versions' = {file'}
      BY <1>26 DEF PowerLoss
    <2> QED
      BY <1>0, <2>1
  <1>27. CASE Damage
    <2>1. before' = {} /\ versions' = {file'}
      BY <1>27 DEF Damage
    <2> QED
      BY <1>0, <2>1
  <1> QED
    BY <1>1, <1>2, <1>3, <1>4, <1>5, <1>6, <1>7, <1>8, <1>9, <1>10, <1>11,
       <1>12, <1>13, <1>14, <1>15, <1>16, <1>17, <1>18, <1>19, <1>20, <1>21, <1>22,
       <1>23, <1>24, <1>25, <1>26, <1>27 DEF Next, Opens, Appends, Resets

\* Payloads stay where the log has them.
LEMMA PayloadNext ==
    ASSUME IInv, [Next]_vars
    PROVE  PayloadOK'
  <1> SUFFICES ASSUME ~halted'
               PROVE  Placed' /\ Prefixed'
    BY DEF PayloadOK
  <1>1. Prefixed'
    BY PrefixedNext DEF Prefixed
  <1>2. (\A f \in All' : f \in Seq(Cells)) /\ file' \in All' /\ log' \in Seq(1 .. MaxFrames)
    <2>1. file' \in All'
      BY StepVersions DEF IInv, All
    <2> QED
      BY <2>1, FiledNext, LogNext
  <1>3. ASSUME Clean'
        PROVE  Placed'
    BY <1>2, <1>3, CleanPlaced
  <1>4. ASSUME ~halted, log' = log \/ log' = Append(log, next)
        PROVE  Placed'
    <2>1. Placed
      BY <1>4 DEF IInv, PayloadOK
    <2> QED
      BY <1>4, <2>1, PlacedOn
  <1> QED
    BY <1>1, <1>3, <1>4, CleanSteps

-----------------------------------------------------------------------------
(* The theorems.                                                           *)

\* Every step keeps the invariant.
LEMMA IInvNext ==
    ASSUME IInv, [Next]_vars
    PROVE  IInv'
  <1>1. Phase'
    BY PointedNext, OpenedNext, AppendingNext, UndoingNext DEF Phase
  <1> QED
    BY <1>1, TypeNext, FiledNext, NumberedNext, ServedNext, HeldNext, HeaderNext, PayloadNext
       DEF IInv

\* The invariant holds at every moment of every run.
LEMMA Invariant == Spec => []IInv
  <1>1. IInv /\ [Next]_vars => IInv'
    BY IInvNext
  <1> QED
    BY InitInv, <1>1, PTL DEF Spec

\* A file whose cells a reader or a power loss can see, where the owner is, and what it
\* counts, are of their types.
THEOREM TypesHold == Spec => []TypeOK
  <1>1. IInv => TypeOK
    BY DEF IInv
  <1> QED
    BY Invariant, <1>1, PTL

\* A synced frame is served: whatever append, cut-back, repair, upgrade, fold, reset,
\* stop, power loss and damage come between, every scan of the file at rest finds each
\* frame whose barrier or sync returned before its commit was acknowledged, unless a
\* checkpoint holds it or damage struck it or a frame before it.
THEOREM PromisesAreServed == Spec => []PromisedIsServed
  <1>1. IInv => PromisedIsServed
    <2> SUFFICES ASSUME IInv, AtRest, NEW n \in promised \ struck, n > folded
                 PROVE  n \in ToSet(Frames(file))
      BY DEF PromisedIsServed
    <2>1. Served(n)
      BY DEF IInv, ServedOK, Owed
    <2>2. PICK p \in Seq(1 .. MaxFrames) :
             p # <<>> /\ Last(p) = n /\ \A f \in All : Carries(f, p)
      BY <2>1 DEF Served
    <2>3. file \in Seq(Cells) /\ Carries(file, p)
      BY <2>2 DEF IInv, TypeOK, All
    <2>4. Len(p) \in Nat \ {0} /\ p[Len(p)] = n
      BY <2>2, EmptySeq DEF Last
    <2>5. /\ Len(p) <= Reach(file) /\ Frames(file) = [k \in 1 .. Reach(file) |-> file[3 * k + 1].of]
          /\ \A k \in 1 .. Len(p) : Frames(file)[k] = p[k]
      BY <2>3, CarriedIsRead
    <2>6. Reach(file) \in Nat /\ HasHeader(file)
      BY <2>3, Scanned DEF Carries
    <2>7. Frames(file)[Len(p)] = n /\ Len(p) \in DOMAIN Frames(file)
      <3>1. Len(p) \in 1 .. Reach(file) /\ Len(p) \in 1 .. Len(p)
        BY <2>4, <2>5, <2>6
      <3> QED
        BY <2>4, <2>5, <3>1
    <2>8. Frames(file) \in Seq(0 .. MaxFrames)
      BY <2>3, <2>6, ReadIsCarried
    <2> QED
      BY <2>7, <2>8, LenProperties DEF ToSet
  <1> QED
    BY Invariant, <1>1, PTL

\* What a scan replays is a beginning of what the owner wrote and did not take back, if no
\* owner went between a cut or a new header and its sync: no frame that was cut back
\* out, none past a gap, none left of an older tail.
THEOREM ScansServePrefixes == Spec => []ServedIsPrefix
  <1>1. IInv => ServedIsPrefix
    <2> SUFFICES ASSUME IInv, ~halted
                 PROVE  IsPrefix(Frames(file), log)
      BY DEF ServedIsPrefix, NoOldTail
    <2>1. /\ file \in Seq(Cells) /\ file \in All /\ log \in Seq(1 .. MaxFrames)
          /\ Len(log) \in Nat /\ Placed
      BY LenProperties DEF IInv, TypeOK, All, PayloadOK
    <2>2. log \in Seq(0 .. MaxFrames)
      <3>1. 1 .. MaxFrames \subseteq 0 .. MaxFrames
        BY WalFileAssumption
      <3> QED
        BY <2>1, <3>1, SeqMonotonic
    <2>3. CASE HasHeader(file)
      <3>1. /\ Frames(file) \in Seq(0 .. MaxFrames) /\ Len(Frames(file)) = Reach(file)
            /\ Reach(file) \in Nat /\ 3 * Reach(file) + 1 <= Len(file) /\ Len(file) \in Nat
            /\ \A k \in 1 .. Reach(file) : /\ Frames(file)[k] = file[3 * k + 1].of
                                           /\ Slot(file, k, Frames(file)[k])
        BY <2>1, <2>3, ReadIsCarried, Scanned, LenProperties DEF Carries
      <3>2. ASSUME NEW k \in 1 .. Reach(file)
            PROVE  k \in 1 .. Len(log) /\ Frames(file)[k] = log[k]
        <4>1. 3 * k + 1 \in 1 .. Len(file)
          BY <3>1
        <4>2. file[3 * k + 1].is = "payload"
          <5>1. Cell("payload", Frames(file)[k]).is = "payload"
            BY DEF Cell
          <5> QED
            BY <3>1, <5>1 DEF Slot
        <4>3. PICK j \in 1 .. Len(log) : 3 * k + 1 = 3 * j + 1 /\ file[3 * k + 1].of = log[j]
          BY <2>1, <4>1, <4>2 DEF Placed
        <4>4. j = k
          BY <2>1, <3>1, <4>3
        <4> QED
          BY <3>1, <4>3, <4>4
      <3>3. Reach(file) <= Len(log)
        <4>1. CASE Reach(file) = 0
          BY <2>1, <4>1
        <4>2. CASE Reach(file) # 0
          <5>1. Reach(file) \in 1 .. Reach(file)
            BY <3>1, <4>2
          <5> QED
            BY <2>1, <3>2, <5>1
        <4> QED
          BY <4>1, <4>2
      <3> QED
        BY <2>2, <3>1, <3>2, <3>3, PrefixElements
    <2>4. CASE ~HasHeader(file)
      <3>1. Frames(file) = <<>>
        BY <2>4 DEF Frames
      <3>2. <<>> \in Seq(0 .. MaxFrames) /\ Len(<<>>) = 0 /\ Len(<<>>) <= Len(log)
        BY <2>1, EmptySeq
      <3>3. \A i \in 1 .. Len(<<>>) : <<>>[i] = log[i]
        BY <3>2
      <3> QED
        BY <2>2, <3>1, <3>2, <3>3, PrefixElements
    <2> QED
      BY <2>3, <2>4
  <1> QED
    BY Invariant, <1>1, PTL

\* No frame that was promised and not damaged is ever in no file: what an open cuts off
\* is first whole in a sibling.
THEOREM NothingIsDiscarded == Spec => []IntactIsKept
  <1>1. IInv => IntactIsKept
    <2> SUFFICES ASSUME IInv, NEW n \in promised \ damaged, n > folded, n \notin asides
                 PROVE  n \in Whole(file)
      BY DEF IntactIsKept
    <2>1. Held(n)
      BY DEF IInv, HeldOK, Owed
    <2>2. PICK i \in Nat \ {0} : \A f \in All : Stands(f, i, n)
      BY <2>1 DEF Held
    <2>3. Stands(file, i, n) /\ file \in Seq(Cells)
      BY <2>2 DEF IInv, TypeOK, All
    <2>4. n \in 1 .. MaxFrames
      <3>1. next \in 1 .. MaxFrames + 1 /\ MaxFrames \in Nat /\ n \in 1 .. next - 1
        BY WalFileAssumption DEF IInv, TypeOK
      <3> QED
        BY <3>1
    <2> QED
      BY <2>3, <2>4, StandingIsWhole
  <1> QED
    BY Invariant, <1>1, PTL

\* A promised frame of this build is never under an older header.
THEOREM HeadersNameFrames == Spec => []HeaderNamesFrames
  <1>1. IInv => HeaderNamesFrames
    BY DEF IInv, TypeOK, HeaderOK, All, HeaderNamesFrames, HasHeader
  <1> QED
    BY Invariant, <1>1, PTL

\* An append goes where the file ends, behind the frames that the owner wrote and nothing
\* else, whatever append failed and was cut back before it.
THEOREM AppendsFollowFrames == Spec => []AppendsAtFrames
  <1>1. IInv => AppendsAtFrames
    <2> SUFFICES ASSUME IInv, pc = "ready", ~poisoned
                 PROVE  /\ end = Len(file) /\ end = 3 * Len(log) + 1
                        /\ file[1] = V4 /\ Frames(file) = log
      BY DEF AppendsAtFrames
    <2>1. end = Len(file) /\ Image(file, log) /\ file[1] = V4
      BY DEF IInv, Phase, Appending
    <2>2. Frames(file) = log
      BY <2>1, ImageIsRead DEF IInv, TypeOK
    <2> QED
      BY <2>1, <2>2 DEF Image
  <1> QED
    BY Invariant, <1>1, PTL
=============================================================================
