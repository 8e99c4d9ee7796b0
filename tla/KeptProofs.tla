----------------------------- MODULE KeptProofs -----------------------------
(***************************************************************************)
(* What Kept returns when the kept positions are the last ones.  A         *)
(* recursive function over 0..N is reached by its least counterexample.    *)
(***************************************************************************)
EXTENDS Kept, WellFoundedInduction, TLAPS

\* Every non-empty set of numbers has a least element.
LEMMA LeastElement ==
    ASSUME NEW T \in SUBSET Nat, T # {}
    PROVE  \E x \in T : \A y \in T : x <= y
<1> DEFINE R == {ss \in Nat \X Nat : ss[1] < ss[2]}
<1>1. IsWellFoundedOn(R, Nat)
  BY NatLessThanWellFounded DEF OpToRel
<1>2. \A x, y \in Nat : y < x => <<y, x>> \in R
  OBVIOUS
<1> HIDE DEF R
<1>3. \E x \in T : \A y \in T : ~(<<y, x>> \in R)
  BY <1>1, WFMin
<1>4. \A x, y \in Nat : y < x \/ x <= y
  OBVIOUS
<1> QED BY <1>2, <1>3, <1>4

KeptStep(s, positions, kept, i) ==
    IF i = 0 THEN <<>>
    ELSE IF i \in positions THEN Append(kept[i - 1], s[i]) ELSE kept[i - 1]
\* The equation of KeptUpTo, on the first n positions.
IsKept(s, positions, n, f) == f = [i \in 0..n |-> KeptStep(s, positions, f, i)]

\* Some function meets the equation.
LEMMA KeptExists ==
    ASSUME NEW s, NEW positions, NEW n \in Nat
    PROVE  \E f : IsKept(s, positions, n, f)
<1> DEFINE T == {m \in Nat : ~ \E f : IsKept(s, positions, m, f)}
<1> SUFFICES ASSUME T # {} PROVE FALSE
  OBVIOUS
<1>0. T \in SUBSET Nat
  OBVIOUS
<1>1. PICK x \in T : \A y \in T : x <= y
  BY <1>0, LeastElement
<1>2. CASE x = 0
  <2>1. IsKept(s, positions, 0, [i \in 0..0 |-> <<>>])
    BY DEF IsKept, KeptStep
  <2> QED BY <2>1, <1>2
<1>3. CASE x # 0
  <2>1. x - 1 \in Nat /\ x - 1 \notin T
    BY <1>1, <1>3
  <2>2. PICK g : IsKept(s, positions, x - 1, g)
    BY <2>1
  <2> DEFINE h == [i \in 0..x |-> IF i = x THEN KeptStep(s, positions, g, x) ELSE g[i]]
  <2>3. \A i \in 0..x : h[i] = KeptStep(s, positions, h, i)
    <3> SUFFICES ASSUME NEW i \in 0..x PROVE h[i] = KeptStep(s, positions, h, i)
      OBVIOUS
    <3>1. CASE i = x
      <4>1. h[x - 1] = g[x - 1] /\ h[x] = KeptStep(s, positions, g, x)
        BY <1>3, <2>1
      <4> QED BY <4>1, <3>1, <1>3 DEF KeptStep
    <3>2. CASE i # x
      <4>1. i \in 0..(x - 1) /\ h[i] = g[i]
        BY <3>2
      <4>2. g[i] = KeptStep(s, positions, g, i)
        BY <4>1, <2>2 DEF IsKept
      <4>3. i # 0 => h[i - 1] = g[i - 1]
        BY <3>2
      <4> QED BY <4>1, <4>2, <4>3 DEF KeptStep
    <3> QED BY <3>1, <3>2
  <2>4. IsKept(s, positions, x, h)
    <3> DEFINE k == [i \in 0..x |-> KeptStep(s, positions, h, i)]
    <3>1. \A i \in 0..x : h[i] = k[i]
      BY <2>3
    <3> QED BY <3>1 DEF IsKept
  <2> HIDE DEF h
  <2> QED BY <2>4
<1> QED BY <1>2, <1>3

\* KeptUpTo meets its equation.
LEMMA KeptEquation ==
    ASSUME NEW s, NEW positions, Len(s) \in Nat
    PROVE  IsKept(s, positions, Len(s), KeptUpTo(s, positions))
<1>1. KeptUpTo(s, positions) = CHOOSE f : IsKept(s, positions, Len(s), f)
  BY DEF KeptUpTo, IsKept, KeptStep
<1> QED BY <1>1, KeptExists

\* The positions from k on: what is left is the sequence from k on.
LEMMA KeptFrom ==
    ASSUME NEW S, NEW s \in Seq(S), NEW k \in 1..(Len(s) + 1), NEW positions,
           \A i \in 1..Len(s) : i \in positions <=> k <= i
    PROVE  Kept(s, positions) = SubSeq(s, k, Len(s))
<1> DEFINE f == KeptUpTo(s, positions)
           T == {i \in 0..Len(s) : f[i] # SubSeq(s, k, i)}
<1>1. IsKept(s, positions, Len(s), f)
  BY KeptEquation
<1>2. \A i \in 0..Len(s) : f[i] = KeptStep(s, positions, f, i)
  BY <1>1 DEF IsKept
<1> HIDE DEF f
<1>3. ASSUME T # {} PROVE FALSE
  <2>0. T \in SUBSET Nat
    OBVIOUS
  <2>1. PICK x \in T : \A y \in T : x <= y
    BY <1>3, <2>0, LeastElement
  <2>2. x # 0
    <3>1. f[0] = <<>>
      BY <1>2 DEF KeptStep
    <3>2. SubSeq(s, k, 0) = <<>>
      OBVIOUS
    <3> QED BY <3>1, <3>2
  <2>3. x - 1 \in 0..Len(s) /\ f[x - 1] = SubSeq(s, k, x - 1)
    BY <2>1, <2>2
  <2>4. CASE x < k
    <3>1. f[x] = f[x - 1]
      BY <1>2, <2>2, <2>4 DEF KeptStep
    <3>2. SubSeq(s, k, x) = <<>> /\ SubSeq(s, k, x - 1) = <<>>
      BY <2>4
    <3> QED BY <3>1, <3>2, <2>3
  <2>5. CASE k <= x
    <3>0. x \in 1..Len(s) /\ x \in positions
      BY <2>2, <2>5
    <3>1. f[x] = Append(f[x - 1], s[x])
      BY <1>2, <2>2, <3>0 DEF KeptStep
    <3>2. SubSeq(s, k, x) = Append(SubSeq(s, k, x - 1), s[x])
      BY <2>2, <2>5
    <3> QED BY <3>1, <3>2, <2>3
  <2> QED BY <2>4, <2>5
<1> QED BY <1>3 DEF Kept, f
=============================================================================
