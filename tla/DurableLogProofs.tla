-------------------------- MODULE DurableLogProofs --------------------------
(***************************************************************************)
(* Theorems about DurableLog, for any scenarios within what the theorem    *)
(* names, any number of commits, checkpoints and crashes.  The invariant   *)
(* is that there is one history h, the commits by LSN, that everything on  *)
(* the disk is a piece of: the checkpoint files that may survive are       *)
(* prefixes of it, the frames of every log that may survive carry its      *)
(* commits at their numbers, and no log leaves a gap after a file it may   *)
(* be replayed onto.                                                       *)
(***************************************************************************)
EXTENDS DurableLog, KeptProofs, SequenceTheorems

-----------------------------------------------------------------------------
(* Prefixes of sequences.                                                  *)

\* What FirstN returns.
LEMMA First ==
    ASSUME NEW S, NEW s \in Seq(S), NEW n \in 0..Len(s)
    PROVE  /\ FirstN(s, n) \in Seq(S) /\ Len(FirstN(s, n)) = n
           /\ DOMAIN FirstN(s, n) = 1..n
           /\ \A i \in 1..n : FirstN(s, n)[i] = s[i]
BY DEF FirstN

\* A prefix is known by its length and its elements.
LEMMA FirstIs ==
    ASSUME NEW S, NEW s \in Seq(S), NEW n \in 0..Len(s), NEW t \in Seq(S), Len(t) = n,
           \A i \in 1..n : t[i] = s[i]
    PROVE  t = FirstN(s, n)
<1>1. /\ FirstN(s, n) \in Seq(S) /\ Len(FirstN(s, n)) = n
      /\ \A i \in 1..n : FirstN(s, n)[i] = s[i]
  BY First
<1> DEFINE u == FirstN(s, n)
<1>2. u \in Seq(S) /\ Len(u) = Len(t) /\ \A i \in 1..Len(t) : u[i] = t[i]
  BY <1>1
<1> HIDE DEF u
<1>3. u = t
  BY <1>2, SeqEqual
<1> QED BY <1>3 DEF u

\* A prefix of a prefix, and the whole as its longest one.
LEMMA FirstOfFirst ==
    ASSUME NEW S, NEW s \in Seq(S), NEW n \in 0..Len(s), NEW m \in 0..n
    PROVE  FirstN(FirstN(s, n), m) = FirstN(s, m) /\ FirstN(s, Len(s)) = s
<1> DEFINE u == FirstN(s, n)  v == FirstN(u, m)
<1>1. m \in 0..Len(s) /\ n \in Nat /\ m \in Nat
  OBVIOUS
<1>2. u \in Seq(S) /\ Len(u) = n /\ \A i \in 1..n : u[i] = s[i]
  BY First
<1> HIDE DEF u
<1>3. v \in Seq(S) /\ Len(v) = m /\ \A i \in 1..m : v[i] = u[i]
  BY <1>2, First
<1> HIDE DEF v
<1>4. \A i \in 1..m : v[i] = s[i]
  BY <1>1, <1>2, <1>3
<1>5. v = FirstN(s, m)
  BY <1>1, <1>3, <1>4, FirstIs
<1>6. s = FirstN(s, Len(s))
  BY FirstIs
<1> QED BY <1>5, <1>6 DEF u, v

\* IsPrefix is the library's word for it.
LEMMA FirstIsPrefix ==
    ASSUME NEW S, NEW s \in Seq(S), NEW n \in 0..Len(s)
    PROVE  IsPrefix(FirstN(s, n), s)
<1>1. Len(FirstN(s, n)) = n /\ n <= Len(s) /\ n \in 0..n
  BY First
<1>2. FirstN(FirstN(s, n), n) = FirstN(s, n)
  BY <1>1, FirstOfFirst
<1> QED BY <1>1, <1>2 DEF IsPrefix, FirstN

\* Elements of a prefix.
LEMMA FirstElems ==
    ASSUME NEW S, NEW s \in Seq(S), NEW n \in 0..Len(s), NEW m \in 0..n
    PROVE  /\ Elems(FirstN(s, m)) \subseteq Elems(FirstN(s, n))
           /\ Elems(FirstN(s, n)) \subseteq Elems(s)
           /\ Elems(FirstN(s, n)) = {s[i] : i \in 1..n}
<1>1. /\ DOMAIN FirstN(s, n) = 1..n /\ DOMAIN FirstN(s, m) = 1..m
      /\ \A i \in 1..n : FirstN(s, n)[i] = s[i]
      /\ \A i \in 1..m : FirstN(s, m)[i] = s[i]
  <2>1. m \in 0..Len(s)
    OBVIOUS
  <2> QED BY <2>1, First
<1>2. 1..m \subseteq 1..n /\ 1..n \subseteq DOMAIN s
  OBVIOUS
<1> QED BY <1>1, <1>2 DEF Elems

\* Appending one element.
LEMMA AppendFirst ==
    ASSUME NEW S, NEW s \in Seq(S), NEW x \in S
    PROVE  /\ Append(s, x) \in Seq(S) /\ Len(Append(s, x)) = Len(s) + 1
           /\ \A i \in 1..Len(s) : Append(s, x)[i] = s[i]
           /\ Append(s, x)[Len(s) + 1] = x
           /\ DOMAIN Append(s, x) = 1..(Len(s) + 1)
           /\ \A n \in 0..Len(s) : FirstN(Append(s, x), n) = FirstN(s, n)
           /\ Elems(Append(s, x)) = Elems(s) \cup {x}
<1> DEFINE t == Append(s, x)
<1>1. /\ t \in Seq(S) /\ Len(t) = Len(s) + 1
      /\ \A i \in 1..Len(s) : t[i] = s[i]
      /\ t[Len(s) + 1] = x /\ DOMAIN t = 1..(Len(s) + 1)
  OBVIOUS
<1> HIDE DEF t
<1>2. ASSUME NEW n \in 0..Len(s) PROVE FirstN(t, n) = FirstN(s, n)
  <2>1. n \in 0..Len(t) /\ Len(s) \in Nat
    BY <1>1
  <2>2. /\ FirstN(t, n) \in Seq(S) /\ Len(FirstN(t, n)) = n
        /\ \A i \in 1..n : FirstN(t, n)[i] = t[i]
    BY <1>1, <2>1, First
  <2>3. \A i \in 1..n : FirstN(t, n)[i] = s[i]
    BY <1>1, <2>1, <2>2
  <2> QED BY <2>2, <2>3, FirstIs
<1>3. Elems(t) = Elems(s) \cup {x}
  <2>1. DOMAIN s = 1..Len(s) /\ Len(s) \in Nat
    OBVIOUS
  <2>2. DOMAIN t = DOMAIN s \cup {Len(s) + 1}
    BY <1>1, <2>1
  <2> QED BY <1>1, <2>1, <2>2 DEF Elems
<1> QED BY <1>1, <1>2, <1>3 DEF t

-----------------------------------------------------------------------------
(* Files, logs and the history they are pieces of.                         *)

\* A log carries the commits of h at their numbers, each number once.
LogFits(log, h) ==
    /\ \A i \in DOMAIN log : log[i].lsn \in 1..Len(h) /\ log[i].commit = h[log[i].lsn]
    /\ \A i, j \in DOMAIN log : i < j => log[i].lsn < log[j].lsn

\* Past what the file holds the log leaves nothing out.
Continues(log, f) ==
    \A i \in DOMAIN log : log[i].lsn > f.lsn =>
        log[i].lsn = f.lsn + 1 \/ (i > 1 /\ log[i - 1].lsn = log[i].lsn - 1)

\* A checkpoint file is h up to its stamp.
FileFits(f, h) == f.lsn \in 0..Len(h) /\ f.graph = FirstN(h, f.lsn)

\* A climbing sequence with no gap from a on counts.
LEMMA Counts ==
    ASSUME NEW n \in Nat, NEW g, \A i \in 1..n : g[i] \in Nat,
           \A i, j \in 1..n : i < j => g[i] < g[j],
           NEW a \in Nat, NEW k \in 1..n, g[k] > a,
           \A i \in 1..n : i < k => g[i] <= a,
           \A i \in 1..n : g[i] > a => g[i] = a + 1 \/ (i > 1 /\ g[i - 1] = g[i] - 1)
    PROVE  \A i \in k..n : g[i] = a + (i - k + 1)
<1> DEFINE T == {i \in k..n : g[i] # a + (i - k + 1)}
<1> SUFFICES ASSUME T # {} PROVE FALSE
  OBVIOUS
<1>1. T \in SUBSET Nat
  OBVIOUS
<1>2. PICK x \in T : \A y \in T : x <= y
  BY <1>1, LeastElement
<1>3. x \in 1..n /\ x >= k /\ x \in Nat /\ k \in Nat /\ g[x] \in Nat /\ g[x] # a + (x - k + 1)
  OBVIOUS
<1>4. g[x] > a
  <2>1. CASE x = k
    BY <2>1
  <2>2. CASE x # k
    <3>1. k < x /\ g[k] \in Nat
      BY <1>3, <2>2
    <3>2. g[k] < g[x]
      BY <1>3, <3>1
    <3> QED BY <1>3, <3>1, <3>2
  <2> QED BY <2>1, <2>2
<1>5. g[x] = a + 1 \/ (x > 1 /\ g[x - 1] = g[x] - 1)
  BY <1>3, <1>4
<1>6. CASE x = k
  <2>1. g[x] # a + 1
    BY <1>3, <1>6
  <2>2. x > 1 /\ g[x - 1] = g[x] - 1
    BY <1>5, <2>1
  <2>3. x - 1 \in 1..n /\ x - 1 < k
    BY <1>3, <1>6, <2>2
  <2>4. g[x - 1] <= a
    BY <2>3
  <2> QED BY <1>3, <1>4, <2>1, <2>2, <2>4
<1>7. CASE x # k
  <2>1. x - 1 \in k..n /\ x - 1 \in 1..n /\ x - 1 < x /\ ~(x <= x - 1)
    BY <1>3, <1>7
  <2>2. x - 1 \notin T
    BY <1>2, <2>1
  <2>3. g[x - 1] = a + ((x - 1) - k + 1)
    BY <2>1, <2>2
  <2>4. g[x - 1] < g[x] /\ g[x - 1] \in Nat
    BY <1>3, <2>1
  <2>5. g[x - 1] > a
    BY <1>3, <1>7, <2>3
  <2>6. g[x] # a + 1
    BY <1>3, <2>4, <2>5
  <2>7. g[x - 1] = g[x] - 1
    BY <1>5, <2>6
  <2> QED BY <1>3, <2>3, <2>7
<1> QED BY <1>6, <1>7

\* The numbers of a log past a file are the file's and up.
LEMMA NumbersFollow ==
    ASSUME NEW h \in Seq(Commits), NEW log \in Seq(Frame), NEW f \in File,
           LogFits(log, h), Continues(log, f),
           NEW k \in DOMAIN log, log[k].lsn > f.lsn,
           \A i \in DOMAIN log : i < k => log[i].lsn <= f.lsn
    PROVE  \A i \in k..Len(log) : log[i].lsn = f.lsn + (i - k + 1)
<1> DEFINE n == Len(log)  g == [i \in 1..n |-> log[i].lsn]  a == f.lsn
<1>1. n \in Nat /\ DOMAIN log = 1..n
  OBVIOUS
<1>2. a \in Nat
  BY DEF File
<1>3. \A i \in 1..n : log[i] \in Frame
  OBVIOUS
<1>4. \A i \in 1..n : g[i] \in Nat
  BY <1>3 DEF Frame
<1>5. \A i, j \in 1..n : i < j => g[i] < g[j]
  BY <1>1 DEF LogFits
<1>6. k \in 1..n /\ g[k] > a /\ \A i \in 1..n : i < k => g[i] <= a
  BY <1>1
<1>7. \A i \in 1..n : g[i] > a => g[i] = a + 1 \/ (i > 1 /\ g[i - 1] = g[i] - 1)
  <2> SUFFICES ASSUME NEW i \in 1..n, g[i] > a PROVE g[i] = a + 1 \/ (i > 1 /\ g[i - 1] = g[i] - 1)
    OBVIOUS
  <2>1. log[i].lsn = a + 1 \/ (i > 1 /\ log[i - 1].lsn = log[i].lsn - 1)
    BY <1>1 DEF Continues
  <2>2. i > 1 => i - 1 \in 1..n
    BY <1>1
  <2> QED BY <2>1, <2>2
<1>8. \A i \in k..n : i \in 1..n
  BY <1>1, <1>6
<1>9. \A i \in 1..n : g[i] = log[i].lsn
  OBVIOUS
<1> HIDE DEF g, n, a
<1>10. \A i \in k..n : g[i] = a + (i - k + 1)
  BY <1>1, <1>2, <1>4, <1>5, <1>6, <1>7, Counts, ZenonT(30)
<1>11. \A i \in k..n : log[i].lsn = a + (i - k + 1)
  BY <1>8, <1>9, <1>10
<1> QED BY <1>11 DEF n, a

\* The last number an open finds.
LEMMA LastIs ==
    ASSUME NEW h \in Seq(Commits), NEW log \in Seq(Frame), NEW f \in File,
           LogFits(log, h), FileFits(f, h)
    PROVE  /\ LastLsn(f, log) \in 0..Len(h)
           /\ f.lsn <= LastLsn(f, log)
           /\ \A i \in DOMAIN log : log[i].lsn <= LastLsn(f, log)
           /\ log = <<>> \/ (\A i \in DOMAIN log : log[i].lsn <= f.lsn) =>
                 LastLsn(f, log) = f.lsn
           /\ \A i \in DOMAIN log : log[i].lsn > f.lsn =>
                 LastLsn(f, log) = log[Len(log)].lsn
<1>0. /\ DOMAIN log = 1..Len(log) /\ Len(log) \in Nat /\ Len(h) \in Nat
      /\ \A i \in DOMAIN log : log[i].lsn \in 1..Len(h)
      /\ f.lsn \in 0..Len(h)
  BY DEF LogFits, FileFits
<1>1. CASE log = <<>>
  BY <1>0, <1>1 DEF LastLsn
<1>2. CASE log # <<>>
  <2>1. Len(log) \in DOMAIN log
    BY <1>0, <1>2
  <2>2. \A i \in DOMAIN log : log[i].lsn <= log[Len(log)].lsn
    BY <1>0, <2>1 DEF LogFits
  <2>3. LastLsn(f, log) = IF log[Len(log)].lsn < f.lsn THEN f.lsn ELSE log[Len(log)].lsn
    BY <1>2 DEF LastLsn, Last
  <2> QED BY <1>0, <2>1, <2>2, <2>3
<1> QED BY <1>1, <1>2

\* What an open recovers is the history up to there.
LEMMA RecoveredIs ==
    ASSUME NEW h \in Seq(Commits), NEW log \in Seq(Frame), NEW f \in File,
           LogFits(log, h), FileFits(f, h), Continues(log, f)
    PROVE  Recovered(f, log) = FirstN(h, LastLsn(f, log))
<1>0. /\ DOMAIN log = 1..Len(log) /\ Len(log) \in Nat /\ Len(h) \in Nat
      /\ \A i \in DOMAIN log : log[i].lsn \in Nat /\ log[i].lsn \in 1..Len(h)
      /\ f.lsn \in 0..Len(h) /\ f.lsn \in Nat
  BY DEF LogFits, FileFits
<1> DEFINE P == {i \in DOMAIN log : log[i].lsn > f.lsn}
<1>1. CASE P = {}
  <2>1. \A i \in 1..Len(log) : i \in P <=> Len(log) + 1 <= i
    BY <1>0, <1>1
  <2>2. Len(log) + 1 \in 1..(Len(log) + 1)
    BY <1>0
  <2>3. Kept(log, P) = SubSeq(log, Len(log) + 1, Len(log))
    BY <2>1, <2>2, KeptFrom
  <2>4. Unreplayed(f, log) = <<>>
    BY <2>3, <1>0 DEF Unreplayed
  <2>5. Recovered(f, log) = f.graph \o <<>>
    BY <2>4 DEF Recovered
  <2>6. FirstN(h, f.lsn) \in Seq(Commits)
    BY <1>0, First
  <2>7. Recovered(f, log) = f.graph
    BY <2>5, <2>6 DEF FileFits
  <2>8. LastLsn(f, log) = f.lsn
    <3>1. \A i \in DOMAIN log : log[i].lsn <= f.lsn
      BY <1>0, <1>1
    <3> QED BY <3>1, LastIs
  <2> QED BY <2>7, <2>8 DEF FileFits
<1>2. CASE P # {}
  <2>1. P \in SUBSET Nat
    BY <1>0
  <2>2. PICK k \in P : \A y \in P : k <= y
    BY <1>2, <2>1, LeastElement
  <2>3. k \in DOMAIN log /\ log[k].lsn > f.lsn /\ k \in Nat /\ k \in 1..Len(log)
    BY <1>0
  <2>4. \A i \in DOMAIN log : i < k => log[i].lsn <= f.lsn
    BY <1>0, <2>2, <2>3
  <2>5. \A i \in k..Len(log) : log[i].lsn = f.lsn + (i - k + 1)
    BY <2>3, <2>4, NumbersFollow
  <2>6. \A i \in 1..Len(log) : i \in P <=> k <= i
    <3>1. \A i \in 1..Len(log) : k <= i => log[i].lsn > f.lsn
      BY <1>0, <2>3, <2>5
    <3> QED BY <1>0, <2>2, <2>3, <3>1
  <2> DEFINE n == Len(log) - k + 1
             tail == SubSeq(log, k, Len(log))
  <2>7. Unreplayed(f, log) = tail
    <3>1. k \in 1..(Len(log) + 1)
      BY <1>0, <2>3
    <3>2. Kept(log, P) = tail
      BY <2>6, <3>1, KeptFrom
    <3> QED BY <3>2 DEF Unreplayed
  <2>8. tail \in Seq(Frame) /\ Len(tail) = n /\ n \in Nat
        /\ \A i \in 1..n : tail[i] = log[i + k - 1]
    BY <1>0, <2>3, SMTT(30)
  <2>9. \A i \in 1..n : i + k - 1 \in DOMAIN log /\ tail[i].commit = h[f.lsn + i]
                        /\ f.lsn + i \in 1..Len(h)
    <3> SUFFICES ASSUME NEW i \in 1..n
                 PROVE  i + k - 1 \in DOMAIN log /\ tail[i].commit = h[f.lsn + i]
                        /\ f.lsn + i \in 1..Len(h)
      OBVIOUS
    <3>1. i + k - 1 \in k..Len(log) /\ i + k - 1 \in DOMAIN log /\ i \in Nat
      BY <1>0, <2>3
    <3>2. log[i + k - 1].lsn = f.lsn + i
      <4>1. log[i + k - 1].lsn = f.lsn + ((i + k - 1) - k + 1)
        BY <2>5, <3>1
      <4>2. (i + k - 1) - k + 1 = i
        BY <2>3, <3>1, SMTT(30)
      <4> QED BY <4>1, <4>2
    <3>3. tail[i] = log[i + k - 1]
      BY <2>8
    <3> QED BY <1>0, <3>1, <3>2, <3>3 DEF LogFits
  <2>10. LastLsn(f, log) = f.lsn + n
    <3>1. Len(log) \in k..Len(log) /\ Len(log) \in DOMAIN log
      BY <1>0, <2>3
    <3>2. LastLsn(f, log) = log[Len(log)].lsn
      BY <2>3, LastIs
    <3> QED BY <2>5, <3>1, <3>2
  <2> DEFINE commits == [i \in DOMAIN tail |-> tail[i].commit]
  <2>11. DOMAIN tail = 1..n
    BY <2>8
  <2>12. \A i \in 1..n : tail[i].commit \in Commits
    <3>1. \A i \in 1..Len(h) : h[i] \in Commits
      OBVIOUS
    <3> QED BY <2>9, <3>1
  <2> HIDE DEF tail, n
  <2>13. commits \in Seq(Commits) /\ Len(commits) = n /\ \A i \in 1..n : commits[i] = tail[i].commit
    BY <2>8, <2>11, <2>12
  <2>14. Recovered(f, log) = FirstN(h, f.lsn) \o commits
    BY <2>7 DEF Recovered, FileFits
  <2> HIDE DEF commits
  <2>15. /\ FirstN(h, f.lsn) \in Seq(Commits) /\ Len(FirstN(h, f.lsn)) = f.lsn
         /\ \A i \in 1..f.lsn : FirstN(h, f.lsn)[i] = h[i]
    BY <1>0, First
  <2> DEFINE front == FirstN(h, f.lsn)  a == f.lsn
  <2>16. /\ front \in Seq(Commits) /\ Len(front) = a /\ a \in Nat /\ n \in Nat
         /\ \A i \in 1..a : front[i] = h[i]
    BY <2>8, <2>15, <1>0
  <2>17. \A i \in 1..n : commits[i] = h[a + i]
    BY <2>9, <2>13
  <2>18. a + n \in 0..Len(h)
    BY <2>10, LastIs
  <2>19. Recovered(f, log) = front \o commits
    BY <2>14
  <2>20. LastLsn(f, log) = a + n
    BY <2>10
  <2> HIDE DEF front, a
  <2>21. \A x, y \in Seq(Commits) :
            /\ x \o y \in Seq(Commits) /\ Len(x \o y) = Len(x) + Len(y)
            /\ \A i \in 1..(Len(x) + Len(y)) :
                  (x \o y)[i] = IF i <= Len(x) THEN x[i] ELSE y[i - Len(x)]
    OBVIOUS
  <2> DEFINE both == front \o commits
  <2>22. /\ both \in Seq(Commits) /\ Len(both) = a + n
         /\ \A i \in 1..(a + n) : both[i] = IF i <= a THEN front[i] ELSE commits[i - a]
    <3>1. Len(front) = a /\ Len(commits) = n /\ front \in Seq(Commits) /\ commits \in Seq(Commits)
      BY <2>13, <2>16
    <3>2. both \in Seq(Commits) /\ Len(both) = Len(front) + Len(commits)
      BY <2>21, <3>1
    <3>3. \A i \in 1..(Len(front) + Len(commits)) :
             both[i] = IF i <= Len(front) THEN front[i] ELSE commits[i - Len(front)]
      BY <2>21, <3>1
    <3> HIDE DEF both
    <3> QED BY <3>1, <3>2, <3>3
  <2> HIDE DEF both
  <2>23. \A i \in 1..(a + n) : both[i] = h[i]
    <3> SUFFICES ASSUME NEW i \in 1..(a + n) PROVE both[i] = h[i]
      OBVIOUS
    <3>1. i \in Nat /\ a \in Nat /\ n \in Nat
      BY <2>16
    <3>2. CASE i <= a
      <4>1. i \in 1..a
        BY <3>1, <3>2
      <4> QED BY <2>16, <2>22, <3>2, <4>1
    <3>3. CASE ~(i <= a)
      <4>1. i - a \in 1..n /\ a + (i - a) = i
        BY <3>1, <3>3
      <4>2. commits[i - a] = h[i]
        BY <2>17, <4>1
      <4>3. both[i] = commits[i - a]
        BY <2>22, <3>3
      <4> QED BY <4>2, <4>3
    <3> QED BY <3>2, <3>3
  <2>24. both = FirstN(h, a + n)
    BY <2>18, <2>22, <2>23, FirstIs
  <2> QED BY <2>19, <2>20, <2>24 DEF both
<1> QED BY <1>1, <1>2

\* What a crash leaves of a log that fits is one that fits.
LEMMA PrefixFits ==
    ASSUME NEW h \in Seq(Commits), NEW log \in Seq(Frame), LogFits(log, h), NEW n \in 0..Len(log)
    PROVE  /\ FirstN(log, n) \in Seq(Frame) /\ LogFits(FirstN(log, n), h)
           /\ \A f \in File : Continues(log, f) => Continues(FirstN(log, n), f)
<1> DEFINE short == FirstN(log, n)
<1>1. short \in Seq(Frame) /\ DOMAIN short = 1..n /\ \A i \in 1..n : short[i] = log[i]
  BY First
<1>2. \A i \in 1..n : i \in DOMAIN log /\ (i > 1 => i - 1 \in 1..n)
  OBVIOUS
<1> HIDE DEF short
<1>3. LogFits(short, h)
  BY <1>1, <1>2 DEF LogFits
<1>4. \A f \in File : Continues(log, f) => Continues(short, f)
  BY <1>1, <1>2 DEF Continues
<1> QED BY <1>1, <1>3, <1>4 DEF short

\* The same of the history: a file and a log that do not reach past n.
LEMMA ShorterHistory ==
    ASSUME NEW h \in Seq(Commits), NEW n \in 0..Len(h)
    PROVE  /\ \A log \in Seq(Frame) : LogFits(log, h) /\ (\A i \in DOMAIN log : log[i].lsn <= n) =>
                 LogFits(log, FirstN(h, n))
           /\ \A f \in File : FileFits(f, h) /\ f.lsn <= n => FileFits(f, FirstN(h, n))
<1> DEFINE short == FirstN(h, n)
<1>1. short \in Seq(Commits) /\ Len(short) = n /\ \A i \in 1..n : short[i] = h[i]
  BY First
<1>2. ASSUME NEW log \in Seq(Frame), LogFits(log, h), \A i \in DOMAIN log : log[i].lsn <= n
      PROVE  LogFits(log, short)
  <2>1. \A i \in DOMAIN log : log[i].lsn \in 1..n
    BY <1>2 DEF LogFits
  <2> HIDE DEF short
  <2> QED BY <1>1, <1>2, <2>1 DEF LogFits
<1>3. ASSUME NEW f \in File, FileFits(f, h), f.lsn <= n
      PROVE  FileFits(f, short)
  <2>1. f.lsn \in 0..n
    BY <1>3 DEF FileFits
  <2>2. FirstN(short, f.lsn) = FirstN(h, f.lsn)
    BY <2>1, FirstOfFirst
  <2> QED BY <1>1, <1>3, <2>1, <2>2 DEF FileFits
<1> QED BY <1>2, <1>3

\* ... and of a longer history.
LEMMA LongerHistory ==
    ASSUME NEW h \in Seq(Commits), NEW c \in Commits
    PROVE  /\ \A log \in Seq(Frame) : LogFits(log, h) => LogFits(log, Append(h, c))
           /\ \A f \in File : FileFits(f, h) => FileFits(f, Append(h, c))
<1> DEFINE long == Append(h, c)
<1>1. /\ long \in Seq(Commits) /\ Len(long) = Len(h) + 1 /\ \A i \in 1..Len(h) : long[i] = h[i]
      /\ \A n \in 0..Len(h) : FirstN(long, n) = FirstN(h, n)
  BY AppendFirst
<1>2. Len(h) \in Nat /\ \A i \in 1..Len(h) : i \in 1..(Len(h) + 1)
  OBVIOUS
<1> HIDE DEF long
<1>3. ASSUME NEW log \in Seq(Frame), LogFits(log, h) PROVE LogFits(log, long)
  BY <1>1, <1>2, <1>3 DEF LogFits
<1>4. ASSUME NEW f \in File, FileFits(f, h) PROVE FileFits(f, long)
  BY <1>1, <1>2, <1>4 DEF FileFits
<1> QED BY <1>3, <1>4 DEF long

\* Two sequences have a longest common prefix.
LEMMA LongestExists ==
    ASSUME NEW S, NEW p \in Seq(S), NEW c \in Seq(S)
    PROVE  /\ LongestCommonPrefix({p, c}) \in CommonPrefixes({p, c})
           /\ \A other \in CommonPrefixes({p, c}) : Len(other) <= Len(LongestCommonPrefix({p, c}))
<1> DEFINE C == CommonPrefixes({p, c})
           T == {n \in Nat : n <= Len(p) /\ \E s \in C : Len(s) = Len(p) - n}
<1>1. \A s \in C : s \in Seq(S) /\ Len(s) <= Len(p) /\ Len(s) \in Nat
  <2>1. \A s \in C : Len(s) <= Len(p)
    BY DEF CommonPrefixes, IsPrefix
  <2>2. \A q \in Seq(S) : Prefixes(q) \subseteq Seq(S)
    BY DEF Prefixes
  <2>3. \A s \in C : s \in Prefixes(p) \cup Prefixes(c)
    BY DEF CommonPrefixes
  <2>4. \A s \in C : s \in Seq(S)
    BY <2>2, <2>3
  <2> QED BY <2>1, <2>4
<1>2. <<>> \in C
  <2>1. \A q \in Seq(S) : IsPrefix(<<>>, q)
    BY DEF IsPrefix
  <2>2. <<>> \in Prefixes(p)
    BY DEF Prefixes
  <2> QED BY <2>1, <2>2 DEF CommonPrefixes
<1>3. Len(p) \in Nat /\ Len(p) \in T
  <2>1. Len(p) \in Nat /\ Len(<<>>) = Len(p) - Len(p)
    OBVIOUS
  <2> QED BY <1>2, <2>1
<1>4. PICK n \in T : \A m \in T : n <= m
  <2>1. T \in SUBSET Nat /\ T # {}
    BY <1>3
  <2> QED BY <2>1, LeastElement
<1>5. PICK s \in C : Len(s) = Len(p) - n
  OBVIOUS
<1>6. \A other \in C : Len(other) <= Len(s)
  <2> SUFFICES ASSUME NEW other \in C PROVE Len(other) <= Len(s)
    OBVIOUS
  <2>1. Len(other) \in Nat /\ Len(other) <= Len(p)
    BY <1>1
  <2> DEFINE m == Len(p) - Len(other)
  <2>2. m \in Nat /\ m <= Len(p) /\ Len(other) = Len(p) - m
    BY <1>3, <2>1
  <2>3. m \in T
    BY <2>2
  <2>4. n <= m /\ n \in Nat
    BY <1>4, <2>3
  <2> QED BY <1>3, <1>5, <2>2, <2>4
<1>7. LongestCommonPrefix({p, c}) = CHOOSE longest \in C : \A other \in C : Len(other) <= Len(longest)
  BY DEF LongestCommonPrefix
<1> HIDE DEF C
<1>8. \E longest \in C : \A other \in C : Len(other) <= Len(longest)
  BY <1>5, <1>6
<1>9. LongestCommonPrefix({p, c}) \in C
      /\ \A other \in C : Len(other) <= Len(LongestCommonPrefix({p, c}))
  BY <1>7, <1>8
<1> QED BY <1>9 DEF C

\* A power loss leaves a prefix of either content, and all they agree on.
LEMMA SurvivorIs ==
    ASSUME NEW p \in Seq(Frame), NEW c \in Seq(Frame), NEW log \in Survivors(p, c)
    PROVE  \E s \in {p, c} : \E n \in 0..Len(s) :
              /\ log = FirstN(s, n)
              /\ \A j \in 0..Len(p) : j <= Len(c) /\ FirstN(c, j) = FirstN(p, j) => j <= n
<1> DEFINE agreed == LongestCommonPrefix({p, c})
<1>1. agreed \in CommonPrefixes({p, c})
      /\ \A other \in CommonPrefixes({p, c}) : Len(other) <= Len(agreed)
  BY LongestExists
<1>2. \A j \in 0..Len(p) : j <= Len(c) /\ FirstN(c, j) = FirstN(p, j) => j <= Len(agreed)
  <2> SUFFICES ASSUME NEW j \in 0..Len(p), j <= Len(c), FirstN(c, j) = FirstN(p, j)
               PROVE  j <= Len(agreed)
    OBVIOUS
  <2> DEFINE u == FirstN(p, j)
  <2>0. j \in 0..Len(c) /\ j \in Nat
    OBVIOUS
  <2>1. u \in Seq(Frame) /\ Len(u) = j
    BY First
  <2>2. u \in Prefixes(p)
    <3>1. CASE j = 0
      <4>1. u = <<>>
        BY <2>1, <3>1
      <4> QED BY <4>1 DEF Prefixes
    <3>2. CASE j # 0
      BY <3>2 DEF Prefixes, FirstN
    <3> QED BY <3>1, <3>2
  <2>3. SubSeq(u, 1, Len(u)) = u
    BY <2>1
  <2>4. IsPrefix(u, p) /\ IsPrefix(u, c)
    BY <2>0, <2>1, <2>3 DEF IsPrefix, FirstN
  <2>5. u \in CommonPrefixes({p, c})
    BY <2>2, <2>4 DEF CommonPrefixes
  <2> QED BY <1>1, <2>1, <2>5
<1>3. Len(agreed) \in Nat
  <2>1. \A s \in Prefixes(p) \cup Prefixes(c) : s \in Seq(Frame)
    BY DEF Prefixes
  <2>2. agreed \in Prefixes(p) \cup Prefixes(c)
    BY <1>1 DEF CommonPrefixes
  <2> QED BY <2>1, <2>2
<1>4. PICK s \in {p, c} : \E n \in Len(agreed)..Len(s) : log = FirstN(s, n)
  BY DEF Survivors
<1>5. PICK n \in Len(agreed)..Len(s) : log = FirstN(s, n)
  BY <1>4
<1> HIDE DEF agreed
<1>6. n \in 0..Len(s) /\ n >= Len(agreed)
  BY <1>3
<1>7. \A j \in 0..Len(p) : j <= Len(c) /\ FirstN(c, j) = FirstN(p, j) => j <= n
  BY <1>2, <1>3, <1>6
<1> QED BY <1>5, <1>6, <1>7

-----------------------------------------------------------------------------
(* The inductive invariant, in named parts.                                *)

Staged == inflight.pc = "staged"
\* The number of the last commit that is not in flight.
Settled == IF Staged THEN nextLsn - 2 ELSE nextLsn - 1

Files == {file} \cup olderFiles
Here  == [cache |-> cache, platter |-> platter]
Pairs == {Here} \cup olderLogs
Logs  == {o.cache : o \in Pairs} \cup {o.platter : o \in Pairs}
OlderLogs == {o.cache : o \in olderLogs} \cup {o.platter : o \in olderLogs}

\* What is on the disk is made of h, and the log now reaches its end.
DiskOK(h) ==
    /\ \A log \in Logs : LogFits(log, h)
    /\ \A f \in Files : FileFits(f, h)
    /\ \A log \in Logs, f \in Files : Continues(log, f)
    /\ \A f \in Files : f.lsn <= Settled /\ LastLsn(f, cache) = Len(h)
    /\ \A log \in OlderLogs : \A i \in DOMAIN log : log[i].lsn <= Settled

\* h is what was published, and a commit that is in flight or was left behind.
OrderOK(h) ==
    /\ \A i, j \in DOMAIN h : h[i] = h[j] => i = j
    /\ \A i \in DOMAIN h : h[i] <= attempts
    /\ Len(h) \in {Settled, Settled + 1}
    /\ ~poisoned /\ ~Staged => Len(h) = Settled
    /\ ~diverged => mem = FirstN(h, Settled)

\* The commit in flight is the last of h and the last of the log.
FlightOK(h) ==
    Staged =>
        /\ ~poisoned /\ end > 0 /\ cache[end].lsn = Len(h) /\ Len(h) = Settled + 1
        /\ inflight.lsn = Len(h) /\ inflight.prevEnd = end - 1
        /\ h[Len(h)] = inflight.commit

EndOK == ~poisoned /\ ckpt.pc # "truncated" => end = Len(cache)

\* What was acknowledged is in h, what was refused is not, unless it is what a
\* poisoned log was left with.
ToldOK(h) ==
    /\ acked \subseteq Elems(h) /\ (refused \ stranded) \cap Elems(h) = {}
    /\ Staged => inflight.commit \notin acked
    /\ \A c \in refused : c <= attempts
    /\ ~Staged /\ Len(h) # Settled => h[Len(h)] \in stranded

\* The stamp of the checkpoint running, and the files it supersedes.
StampOK(h) ==
    /\ ckpt.lsn <= Settled /\ ckpt.graph = FirstN(h, ckpt.lsn)
    /\ \A f \in Files : f.lsn <= ckpt.lsn
    /\ ckpt.pc \in {"renamed", "synced", "truncated", "trimmed"} => file.lsn = ckpt.lsn
    /\ ckpt.pc \in {"synced", "truncated", "trimmed"} => olderFiles = {}

\* Its offset is where the stamp's commits end in the log.
OffsetOK(h) ==
    ~poisoned /\ ckpt.pc \notin {"truncated", "trimmed"} =>
        /\ ckpt.epoch = epoch /\ ckpt.offset <= end
        /\ Len(h) - ckpt.lsn = end - ckpt.offset
        /\ Staged => ckpt.offset < end
        /\ \A i \in DOMAIN cache : i <= ckpt.offset => cache[i].lsn <= ckpt.lsn
        /\ \A i \in DOMAIN cache : i > ckpt.offset => cache[i].lsn = ckpt.lsn + (i - ckpt.offset)

\* What runs under the locks has them to itself.
LockedOK ==
    /\ ckpt.pc \in {"truncated", "trimmed"} => ~Staged /\ ~poisoned
    /\ ckpt.pc = "truncated" => cache = <<>>
    /\ ckpt.kind = "save" => /\ ~Staged /\ ~poisoned /\ ckpt.offset = end
                             /\ "save" \in scenario.uses

PointOK(h) == ckpt.pc # "none" => StampOK(h) /\ OffsetOK(h) /\ LockedOK

DirectOK == (pending # {} => diverged) /\ (diverged => "direct" \in scenario.uses)

Describes(h) ==
    /\ h \in Seq(Commits)
    /\ DiskOK(h) /\ OrderOK(h) /\ FlightOK(h) /\ EndOK /\ ToldOK(h) /\ PointOK(h)

\* No clone fails, and no session saves over direct writes.
Plain(s) == "clone" \notin s.faults /\ ~ {"save", "direct"} \subseteq s.uses

DataInv == TypeOK /\ Plain(scenario) /\ DirectOK /\ \E h \in Seq(Commits) : Describes(h)

-----------------------------------------------------------------------------
(* What the parts are made of.                                             *)

\* The types of logs and files.
LEMMA DiskTypes ==
    ASSUME TypeOK
    PROVE  /\ Logs \subseteq Seq(Frame) /\ Files \subseteq File
           /\ cache \in Logs /\ platter \in Logs /\ file \in Files
           /\ cache \in Seq(Frame) /\ platter \in Seq(Frame) /\ file \in File
           /\ Settled \in Int /\ nextLsn \in Nat /\ end \in Nat
           /\ \A f \in Files : f.lsn \in Nat
           /\ OlderLogs \subseteq Logs
<1>1. Here.cache = cache /\ Here.platter = platter
  BY DEF Here
<1>2. cache \in Seq(Frame) /\ platter \in Seq(Frame) /\ file \in File
      /\ nextLsn \in Nat /\ end \in Nat
      /\ \A o \in olderLogs : o.cache \in Seq(Frame) /\ o.platter \in Seq(Frame)
  BY DEF TypeOK
<1>7. \A f \in olderFiles : f \in File
  BY DEF TypeOK
<1>3. cache \in Logs /\ platter \in Logs /\ Logs \subseteq Seq(Frame) /\ OlderLogs \subseteq Logs
  BY <1>1, <1>2 DEF Logs, Pairs, OlderLogs
<1>4. file \in Files /\ Files \subseteq File
  <2>1. file \in File
    BY <1>2
  <2> QED BY <1>7, <2>1 DEF Files
<1>5. \A f \in File : f.lsn \in Nat
  BY DEF File
<1>6. Settled \in Int
  BY <1>2 DEF Settled
<1>8. \A f \in Files : f.lsn \in Nat
  BY <1>4, <1>5
<1> QED BY <1>2, <1>3, <1>4, <1>6, <1>8

\* Logs by their parts.
LEMMA LogsAre == Logs = {cache, platter} \cup OlderLogs
<1>1. Here.cache = cache /\ Here.platter = platter
  BY DEF Here
<1> QED BY <1>1 DEF Logs, Pairs, OlderLogs

\* The numbers of a state that h describes.
LEMMA Numbers ==
    ASSUME TypeOK, NEW h, Describes(h)
    PROVE  /\ h \in Seq(Commits) /\ Len(h) \in Nat /\ DOMAIN h = 1..Len(h)
           /\ Settled \in 0..Len(h) /\ Settled \in Nat
           /\ Len(h) = Settled \/ Len(h) = Settled + 1
           /\ \A i \in 1..Len(h) : h[i] \in Commits /\ h[i] \in 1..attempts
           /\ nextLsn = IF Staged THEN Settled + 2 ELSE Settled + 1
           /\ attempts \in Nat /\ attempts <= MaxCommits
           /\ cache \in Seq(Frame) /\ DOMAIN cache = 1..Len(cache) /\ Len(cache) \in Nat
           /\ LogFits(cache, h) /\ FileFits(file, h)
           /\ file.lsn \in Nat /\ LastLsn(file, cache) = Len(h)
<1>1. h \in Seq(Commits) /\ Len(h) \in Nat /\ DOMAIN h = 1..Len(h)
      /\ \A i \in 1..Len(h) : h[i] \in Commits
  BY DEF Describes
<1>2. cache \in Seq(Frame) /\ DOMAIN cache = 1..Len(cache) /\ Len(cache) \in Nat
  BY DiskTypes
<1>3. file \in Files /\ cache \in Logs /\ file.lsn \in Nat /\ Settled \in Int
  BY DiskTypes
<1>4. LogFits(cache, h) /\ FileFits(file, h) /\ file.lsn <= Settled /\ LastLsn(file, cache) = Len(h)
  BY <1>3 DEF Describes, DiskOK
<1>5. Len(h) = Settled \/ Len(h) = Settled + 1
  BY DEF Describes, OrderOK
<1>6. attempts \in Nat /\ attempts <= MaxCommits
  BY DurableLogAssumption DEF TypeOK
<1>7. \A i \in 1..Len(h) : h[i] \in 1..attempts
  <2>1. \A i \in 1..Len(h) : h[i] <= attempts
    BY <1>1 DEF Describes, OrderOK
  <2> QED BY <1>1, <1>6, <2>1, DurableLogAssumption DEF Commits
<1>8. nextLsn = IF Staged THEN Settled + 2 ELSE Settled + 1
  BY DiskTypes DEF Settled
<1>9. Settled \in Nat /\ Settled \in 0..Len(h)
  <2> DEFINE n == Len(h)  a == file.lsn  b == Settled
  <2>1. n \in Nat /\ a \in Nat /\ b \in Int /\ a <= b /\ (n = b \/ n = b + 1)
    BY <1>1, <1>3, <1>4, <1>5
  <2> HIDE DEF n, a, b
  <2>2. b \in Nat /\ b \in 0..n
    BY <2>1
  <2> QED BY <2>2 DEF n, b
<1> QED BY <1>1, <1>2, <1>3, <1>4, <1>5, <1>6, <1>7, <1>8, <1>9

\* A step under which no log or file is new, and the log reaches as far.
LEMMA DiskStands ==
    ASSUME TypeOK, NEW h, DiskOK(h), Logs' \subseteq Logs, Files' \subseteq Files,
           OlderLogs' \subseteq OlderLogs, cache' = cache, Settled' \in Int, Settled <= Settled'
    PROVE  DiskOK(h)'
<1>0. Settled \in Int /\ \A f \in Files : f.lsn \in Nat
  BY DiskTypes
<1>1. \A f \in Files : f.lsn <= Settled => f.lsn <= Settled'
  BY <1>0
<1>2. \A log \in OlderLogs : \A i \in DOMAIN log : log[i].lsn <= Settled => log[i].lsn <= Settled'
  <2>1. \A log \in OlderLogs : \A i \in DOMAIN log : log[i].lsn \in Nat
    <3>1. \A log \in OlderLogs : log \in Seq(Frame)
      BY DiskTypes
    <3>2. \A log \in Seq(Frame) : \A i \in DOMAIN log : log[i] \in Frame
      OBVIOUS
    <3>3. \A r \in Frame : r.lsn \in Nat
      BY DEF Frame
    <3> QED BY <3>1, <3>2, <3>3
  <2> QED BY <1>0, <2>1
<1>3. \A f \in Files' : LastLsn(f, cache)' = LastLsn(f, cache)
  BY DEF LastLsn
<1>4. (\A log \in Logs : LogFits(log, h)) => \A log \in Logs' : LogFits(log, h)
  OBVIOUS
<1> QED BY <1>1, <1>2, <1>3 DEF DiskOK

-----------------------------------------------------------------------------
(* Steps that move nothing on the disk.                                    *)

\* A step that leaves the disk alone.
LEMMA DiskAlone ==
    ASSUME TypeOK, NEW h, DiskOK(h), UNCHANGED <<cache, platter, olderLogs, file, olderFiles>>,
           Settled' \in Int, Settled <= Settled'
    PROVE  DiskOK(h)'
<1>1. Logs' = Logs /\ OlderLogs' = OlderLogs /\ Files' = Files
  BY DEF Logs, OlderLogs, Pairs, Here, Files
<1> QED BY <1>1, DiskStands

\* ... or writes the page cache through.
LEMMA DiskWritten ==
    ASSUME TypeOK, NEW h, DiskOK(h), UNCHANGED <<cache, olderLogs, file, olderFiles>>,
           platter' \in {cache, platter}, Settled' \in Int, Settled <= Settled'
    PROVE  DiskOK(h)'
<1>1. OlderLogs' = OlderLogs /\ Files' = Files
  BY DEF OlderLogs, Files
<1>2. Logs' = {cache', platter'} \cup OlderLogs'
  <2>1. Here.cache = cache /\ Here.platter = platter
    BY DEF Here
  <2>2. Here'.cache = cache' /\ Here'.platter = platter'
    BY DEF Here
  <2> QED BY <2>2 DEF Logs, Pairs, OlderLogs
<1>3. Logs' \subseteq Logs
  BY <1>1, <1>2, LogsAre
<1> QED BY <1>1, <1>3, DiskStands

\* The parts that a step on the log or the checkpoint file leaves alone.
LEMMA OrderStands ==
    ASSUME NEW h, OrderOK(h), UNCHANGED <<attempts, nextLsn, inflight, mem, diverged>>,
           poisoned' = poisoned \/ poisoned'
    PROVE  OrderOK(h)' /\ Settled' = Settled
<1>1. Settled' = Settled /\ Staged' = Staged
  BY DEF Settled, Staged
<1> QED BY <1>1 DEF OrderOK

\* What clients were told.
LEMMA ToldStands ==
    ASSUME NEW h, ToldOK(h),
           UNCHANGED <<acked, refused, stranded, inflight, attempts, nextLsn>>
    PROVE  ToldOK(h)'
BY DEF ToldOK, Staged, Settled

\* Sync writes the log through.
LEMMA SyncKeeps ==
    ASSUME TypeOK, Plain(scenario), DirectOK, NEW h, Describes(h), Sync, scenario' = scenario
    PROVE  TypeOK' /\ DirectOK' /\ Describes(h)'
<1> USE DEF process, logFile, ckptFile, bounds
<1>1. TypeOK'
  BY DEF Sync, TypeOK, Elems
<1>2. DiskOK(h)'
  <2>1. Settled' = Settled /\ Settled \in Int
    BY DiskTypes DEF Sync, Settled, Staged
  <2> QED BY <2>1, DiskWritten DEF Sync, Describes
<1>3. OrderOK(h)' /\ ToldOK(h)'
  BY OrderStands, ToldStands DEF Sync, Describes
<1>4. FlightOK(h)' /\ EndOK' /\ DirectOK'
  BY DEF Sync, Describes, FlightOK, EndOK, DirectOK, Staged, Settled
<1>5. PointOK(h)'
  BY DEF Sync, Describes, PointOK, StampOK, OffsetOK, LockedOK, Staged, Settled, Files
<1> QED BY <1>1, <1>2, <1>3, <1>4, <1>5 DEF Describes

\* The latch goes up; what it is for comes later.
LEMMA MarkDivergedKeeps ==
    ASSUME TypeOK, Plain(scenario), DirectOK, NEW h, Describes(h), MarkDiverged, scenario' = scenario
    PROVE  TypeOK' /\ DirectOK' /\ Describes(h)'
<1> USE DEF process, logFile, ckptFile, told, bounds
<1>0. attempts \in Nat /\ attempts < MaxCommits /\ MaxCommits \in Nat
      /\ attempts + 1 \in 1..MaxCommits /\ attempts + 1 \in 0..MaxCommits
  <2>1. attempts \in 0..MaxCommits /\ attempts < MaxCommits /\ MaxCommits \in Nat
    BY DurableLogAssumption DEF TypeOK, MarkDiverged
  <2> QED BY <2>1
<1>1. TypeOK'
  <2>1. pending' \subseteq Commits /\ attempts' \in 0..MaxCommits
    BY <1>0 DEF MarkDiverged, TypeOK, NewCommit, Commits
  <2> QED BY <2>1 DEF MarkDiverged, TypeOK
<1>2. DiskOK(h)'
  <2>1. Settled' = Settled /\ Settled \in Int
    BY DiskTypes DEF MarkDiverged, Settled, Staged
  <2> QED BY <2>1, DiskAlone DEF MarkDiverged, Describes
<1>3. OrderOK(h)' /\ ToldOK(h)'
  <2>1. \A c \in Nat : c <= attempts => c <= attempts'
    BY <1>0 DEF MarkDiverged
  <2>2. \A i \in DOMAIN h : h[i] \in Nat
    BY Numbers
  <2>3. \A c \in refused : c \in Nat
    BY DEF TypeOK, Commits
  <2>4. OrderOK(h)'
    BY <2>1, <2>2 DEF MarkDiverged, Describes, OrderOK, Settled, Staged
  <2>5. ToldOK(h)'
    BY <2>1, <2>3 DEF MarkDiverged, Describes, ToldOK, Staged, Settled
  <2> QED BY <2>4, <2>5
<1>4. FlightOK(h)' /\ EndOK' /\ DirectOK'
  BY DEF MarkDiverged, Describes, FlightOK, EndOK, DirectOK, Staged, Settled
<1>5. PointOK(h)'
  BY DEF MarkDiverged, Describes, PointOK, StampOK, OffsetOK, LockedOK, Staged, Settled, Files
<1> QED BY <1>1, <1>2, <1>3, <1>4, <1>5 DEF Describes

\* A direct write moves the graph away from the history, and the latch is up.
LEMMA DirectWriteKeeps ==
    ASSUME TypeOK, Plain(scenario), DirectOK, NEW h, Describes(h), NEW w \in pending,
           DirectWrite(w), scenario' = scenario
    PROVE  TypeOK' /\ DirectOK' /\ Describes(h)'
<1> USE DEF process, logFile, ckptFile, told, bounds
<1>0. diverged
  BY DEF DirectOK
<1>1. TypeOK'
  <2>1. w \in Commits /\ mem \in Seq(Commits)
    BY DEF TypeOK
  <2>2. mem' \in Seq(Commits) /\ pending' \subseteq Commits
    BY <2>1 DEF DirectWrite, TypeOK
  <2> QED BY <2>2 DEF DirectWrite, TypeOK
<1>2. DiskOK(h)'
  <2>1. Settled' = Settled /\ Settled \in Int
    BY DiskTypes DEF DirectWrite, Settled, Staged
  <2> QED BY <2>1, DiskAlone DEF DirectWrite, Describes
<1>3. OrderOK(h)' /\ ToldOK(h)'
  BY <1>0 DEF DirectWrite, Describes, OrderOK, ToldOK, Settled, Staged
<1>4. FlightOK(h)' /\ EndOK' /\ DirectOK'
  BY DEF DirectWrite, Describes, FlightOK, EndOK, DirectOK, Staged, Settled
<1>5. PointOK(h)'
  BY DEF DirectWrite, Describes, PointOK, StampOK, OffsetOK, LockedOK, Staged, Settled, Files
<1> QED BY <1>1, <1>2, <1>3, <1>4, <1>5 DEF Describes

-----------------------------------------------------------------------------
(* Checkpoints.                                                            *)

\* The point a checkpoint fixes is where the history ends, or is about to.
LEMMA PointFixed ==
    ASSUME TypeOK, NEW h, Describes(h), GateFree, ckpt.pc = "none", ~diverged \/ ~poisoned,
           ~diverged \/ "save" \in scenario.uses, DirectOK, Plain(scenario),
           NEW kind \in {"save", "online"}, NEW pc \in {"write", "barrier"},
           kind = "save" => ~poisoned /\ "save" \in scenario.uses,
           ckpt' = Point(kind, pc),
           UNCHANGED <<scenario, nextLsn, inflight, end, epoch, poisoned, cache, file, olderFiles>>
    PROVE  PointOK(h)' /\ ckpt'.graph \in Seq(Commits) /\ ckpt'.lsn \in Nat
<1>1. ~Staged /\ Settled = nextLsn - 1 /\ Settled' = Settled /\ ~Staged'
  BY DEF GateFree, Staged, Settled
<1>2. ~diverged
  BY DEF DirectOK, Plain
<1>3. mem = FirstN(h, Settled) /\ mem \in Seq(Commits) /\ Settled \in Nat
  BY <1>2, Numbers DEF Describes, OrderOK, TypeOK
<1>4. ckpt' = [pc |-> pc, kind |-> kind, lsn |-> Settled, graph |-> mem,
               offset |-> end, epoch |-> epoch]
  BY <1>1 DEF Point
<1>5. StampOK(h)'
  <2>1. \A f \in Files : f.lsn <= Settled
    BY DEF Describes, DiskOK
  <2>2. Files' = Files
    BY DEF Files
  <2> QED BY <1>1, <1>3, <1>4, <2>1, <2>2 DEF StampOK
<1>6. OffsetOK(h)'
  <2>1. CASE poisoned
    BY <2>1 DEF OffsetOK
  <2>2. CASE ~poisoned
    <3>1. end = Len(cache) /\ Len(h) = Settled
      BY <1>1, <2>2 DEF Describes, EndOK, OrderOK
    <3>2. DOMAIN cache = 1..end /\ end \in Nat
      BY <3>1, Numbers
    <3>3. \A i \in DOMAIN cache : cache[i].lsn <= Settled
      BY <3>1, Numbers DEF LogFits
    <3>4. Len(h) - Settled = end - end /\ end <= end /\ \A i \in 1..end : i <= end /\ ~(i > end)
      BY <1>3, <3>1, <3>2
    <3> QED BY <1>1, <1>4, <3>2, <3>3, <3>4 DEF OffsetOK
  <2> QED BY <2>1, <2>2
<1>7. LockedOK'
  BY <1>1, <1>4 DEF LockedOK
<1>8. PointOK(h)'
  BY <1>5, <1>6, <1>7 DEF PointOK
<1> QED BY <1>3, <1>4, <1>8

\* What does not change when only the checkpoint and its files move.
LEMMA CheckpointStands ==
    ASSUME NEW h, Describes(h), DirectOK, UNCHANGED <<scenario, pending, diverged, attempts, mem,
           nextLsn, inflight, acked, refused, stranded, end, poisoned, cache>>, ckpt'.pc # "truncated",
           ckpt.pc # "truncated"
    PROVE  /\ OrderOK(h)' /\ ToldOK(h)' /\ FlightOK(h)' /\ EndOK' /\ DirectOK'
           /\ Settled' = Settled /\ Staged' = Staged
<1>1. OrderOK(h)' /\ ToldOK(h)' /\ Settled' = Settled /\ Staged' = Staged
  BY OrderStands, ToldStands DEF Describes, Staged
<1>2. FlightOK(h)'
  BY <1>1 DEF Describes, FlightOK
<1>3. EndOK' /\ DirectOK'
  BY DEF Describes, EndOK, DirectOK
<1> QED BY <1>1, <1>2, <1>3

\* A save stamps what is published, and holds everything still.
LEMMA SaveStartKeeps ==
    ASSUME TypeOK, Plain(scenario), DirectOK, NEW h, Describes(h), SaveStart, scenario' = scenario
    PROVE  TypeOK' /\ DirectOK' /\ Describes(h)'
<1> USE DEF process, logFile, ckptFile, told, bounds
<1>1. PointOK(h)' /\ ckpt'.graph \in Seq(Commits) /\ ckpt'.lsn \in Nat
  BY PointFixed DEF SaveStart, StartCheckpoint
<1>2. ckpt.pc = "none" /\ ckpt' = Point("save", "write")
  BY DEF SaveStart, StartCheckpoint
<1>3. TypeOK'
  <2>1. rewrites' \in 0..MaxRewrites
    <3>1. rewrites \in Nat /\ MaxRewrites \in Nat /\ rewrites < MaxRewrites
      BY DurableLogAssumption DEF SaveStart, StartCheckpoint, TypeOK
    <3>2. rewrites' = rewrites + 1
      BY DEF SaveStart, StartCheckpoint
    <3> QED BY <3>1, <3>2
  <2>2. ckpt' \in [pc : {"none", "barrier", "write", "renamed", "synced", "truncated", "trimmed"},
                   kind : {"save", "online"}, lsn : Nat, graph : Seq(Commits),
                   offset : Nat, epoch : Nat]
    BY <1>1, <1>2 DEF Point, TypeOK
  <2> QED BY <2>1, <2>2 DEF SaveStart, TypeOK
<1>4. OrderOK(h)' /\ ToldOK(h)' /\ FlightOK(h)' /\ EndOK' /\ DirectOK' /\ Settled' = Settled
  <2>1. ckpt'.pc # "truncated" /\ ckpt.pc # "truncated"
    BY <1>2 DEF Point
  <2> QED BY <2>1, CheckpointStands DEF SaveStart
<1>5. DiskOK(h)'
  BY <1>4, DiskTypes, DiskWritten DEF SaveStart, Describes
<1> QED BY <1>1, <1>3, <1>4, <1>5 DEF Describes

\* An online checkpoint stamps the same and lets go.
LEMMA OnlineStartKeeps ==
    ASSUME TypeOK, Plain(scenario), DirectOK, NEW h, Describes(h), OnlineStart, scenario' = scenario
    PROVE  TypeOK' /\ DirectOK' /\ Describes(h)'
<1> USE DEF process, logFile, ckptFile, told, bounds
<1> DEFINE at == IF Full THEN "write" ELSE "barrier"
<1>0. at \in {"write", "barrier"} /\ ckpt' = Point("online", at)
  BY DEF OnlineStart
<1> HIDE DEF at
<1>1. PointOK(h)' /\ ckpt'.graph \in Seq(Commits) /\ ckpt'.lsn \in Nat
  BY <1>0, PointFixed DEF OnlineStart, StartCheckpoint
<1>2. ckpt.pc = "none"
  BY DEF OnlineStart, StartCheckpoint
<1>3. TypeOK'
  <2>1. rewrites' \in 0..MaxRewrites
    <3>1. rewrites \in Nat /\ MaxRewrites \in Nat /\ rewrites < MaxRewrites
      BY DurableLogAssumption DEF OnlineStart, StartCheckpoint, TypeOK
    <3>2. rewrites' = rewrites + 1
      BY DEF OnlineStart, StartCheckpoint
    <3> QED BY <3>1, <3>2
  <2>2. ckpt' \in [pc : {"none", "barrier", "write", "renamed", "synced", "truncated", "trimmed"},
                   kind : {"save", "online"}, lsn : Nat, graph : Seq(Commits),
                   offset : Nat, epoch : Nat]
    BY <1>0, <1>1 DEF Point, TypeOK
  <2> QED BY <2>1, <2>2 DEF OnlineStart, TypeOK
<1>4. OrderOK(h)' /\ ToldOK(h)' /\ FlightOK(h)' /\ EndOK' /\ DirectOK' /\ Settled' = Settled
  <2>1. ckpt'.pc # "truncated" /\ ckpt.pc # "truncated"
    BY <1>0, <1>2 DEF Point
  <2> QED BY <2>1, CheckpointStands DEF OnlineStart
<1>5. DiskOK(h)'
  BY <1>4, DiskTypes, DiskAlone DEF OnlineStart, Describes
<1> QED BY <1>1, <1>3, <1>4, <1>5 DEF Describes

\* The frames of a log are frames.
LEMMA FrameTypes ==
    \A log \in Seq(Frame) : \A i \in DOMAIN log :
        log[i] \in Frame /\ log[i].lsn \in Nat /\ log[i].commit \in Commits
<1>1. \A log \in Seq(Frame) : \A i \in DOMAIN log : log[i] \in Frame
  OBVIOUS
<1>2. \A r \in Frame : r.lsn \in Nat /\ r.commit \in Commits
  BY DEF Frame
<1> QED BY <1>1, <1>2

\* The snapshot's frames are made certain.
LEMMA OnlineBarrierKeeps ==
    ASSUME TypeOK, Plain(scenario), DirectOK, NEW h, Describes(h), OnlineBarrier, scenario' = scenario
    PROVE  TypeOK' /\ DirectOK' /\ Describes(h)'
<1> USE DEF process, logFile, ckptFile, told, bounds
<1>1. ckpt.pc = "barrier" /\ ckpt' = [ckpt EXCEPT !.pc = "write"]
  BY DEF OnlineBarrier
<1>2. ckpt'.pc = "write" /\ ckpt'.kind = ckpt.kind /\ ckpt'.lsn = ckpt.lsn /\ ckpt'.graph = ckpt.graph
      /\ ckpt'.offset = ckpt.offset /\ ckpt'.epoch = ckpt.epoch
  BY <1>1 DEF TypeOK
<1>3. TypeOK'
  <2>1. ckpt' \in [pc : {"none", "barrier", "write", "renamed", "synced", "truncated", "trimmed"},
                   kind : {"save", "online"}, lsn : Nat, graph : Seq(Commits),
                   offset : Nat, epoch : Nat]
    BY <1>1 DEF TypeOK
  <2> QED BY <2>1 DEF OnlineBarrier, TypeOK
<1>4. OrderOK(h)' /\ ToldOK(h)' /\ FlightOK(h)' /\ EndOK' /\ DirectOK' /\ Settled' = Settled /\ Staged' = Staged
  BY <1>1, <1>2, CheckpointStands DEF OnlineBarrier
<1>5. DiskOK(h)'
  BY <1>4, DiskTypes, DiskWritten DEF OnlineBarrier, Describes
<1>6. PointOK(h)'
  <2>1. Files' = Files /\ StampOK(h) /\ OffsetOK(h) /\ LockedOK
    BY <1>1 DEF OnlineBarrier, Files, Describes, PointOK
  <2>2. StampOK(h)'
    BY <1>1, <1>2, <1>4, <2>1 DEF StampOK
  <2>3. OffsetOK(h)'
    BY <1>1, <1>2, <1>4, <2>1 DEF OffsetOK, OnlineBarrier
  <2>4. LockedOK'
    BY <1>1, <1>2, <1>4, <2>1 DEF LockedOK, OnlineBarrier
  <2> QED BY <2>2, <2>3, <2>4 DEF PointOK
<1> QED BY <1>3, <1>4, <1>5, <1>6 DEF Describes

\* The new file continues the same log: it holds all the old one does, and
\* what it adds, the log's next frames would have added.
LEMMA RenameFileKeeps ==
    ASSUME TypeOK, Plain(scenario), DirectOK, NEW h, Describes(h), RenameFile, scenario' = scenario
    PROVE  TypeOK' /\ DirectOK' /\ Describes(h)'
<1> USE DEF process, logFile, ckptFile, told, bounds
<1> DEFINE new == [lsn |-> ckpt.lsn, graph |-> ckpt.graph]
<1>1. ckpt.pc = "write" /\ ckpt' = [ckpt EXCEPT !.pc = "renamed"] /\ file' = new
      /\ olderFiles' = olderFiles \cup {file}
  BY DEF RenameFile
<1>2. ckpt'.pc = "renamed" /\ ckpt'.kind = ckpt.kind /\ ckpt'.lsn = ckpt.lsn /\ ckpt'.graph = ckpt.graph
      /\ ckpt'.offset = ckpt.offset /\ ckpt'.epoch = ckpt.epoch
  BY <1>1 DEF TypeOK
<1>3. new \in File /\ new.lsn = ckpt.lsn /\ new.graph = ckpt.graph
  BY DEF TypeOK, File
<1>4. TypeOK'
  <2>1. ckpt' \in [pc : {"none", "barrier", "write", "renamed", "synced", "truncated", "trimmed"},
                   kind : {"save", "online"}, lsn : Nat, graph : Seq(Commits),
                   offset : Nat, epoch : Nat]
    BY <1>1 DEF TypeOK
  <2>2. file' \in File /\ \A f \in olderFiles' : f \in File
    BY <1>1, <1>3 DEF TypeOK
  <2> HIDE DEF new
  <2> QED BY <2>1, <2>2 DEF RenameFile, TypeOK
<1>5. OrderOK(h)' /\ ToldOK(h)' /\ FlightOK(h)' /\ EndOK' /\ DirectOK' /\ Settled' = Settled /\ Staged' = Staged
  BY <1>1, <1>2, CheckpointStands DEF RenameFile
<1>6. Files' = Files \cup {new}
  BY <1>1 DEF Files
<1>7. Logs' = Logs /\ OlderLogs' = OlderLogs
  BY DEF Logs, OlderLogs, Pairs, Here, RenameFile
<1> HIDE DEF new
<1>8. StampOK(h) /\ OffsetOK(h) /\ LockedOK
  BY <1>1 DEF Describes, PointOK
<1>9. file.lsn <= ckpt.lsn /\ ckpt.lsn <= Settled /\ ckpt.lsn \in Nat /\ file.lsn \in Nat
  BY <1>8, DiskTypes DEF StampOK, TypeOK
<1>10. FileFits(new, h)
  <2>1. ckpt.lsn \in 0..Len(h)
    <3>1. Len(h) \in Nat /\ Settled \in Nat /\ Settled \in 0..Len(h)
      BY Numbers
    <3> QED BY <1>9, <3>1
  <2> QED BY <1>3, <1>8, <2>1 DEF FileFits, StampOK
<1>11. \A log \in Logs : Continues(log, new)
  <2> SUFFICES ASSUME NEW log \in Logs PROVE Continues(log, new)
    OBVIOUS
  <2>1. log \in Seq(Frame) /\ Continues(log, file) /\ LogFits(log, h) /\ FileFits(file, h)
    BY DiskTypes DEF Describes, DiskOK
  <2>2. DOMAIN log = 1..Len(log) /\ Len(log) \in Nat
    BY <2>1
  <2>3. \A i \in DOMAIN log : log[i].lsn \in Nat
    BY <2>1, FrameTypes
  <2> SUFFICES ASSUME NEW i \in DOMAIN log, log[i].lsn > ckpt.lsn
               PROVE  log[i].lsn = ckpt.lsn + 1 \/ (i > 1 /\ log[i - 1].lsn = log[i].lsn - 1)
    BY <1>3 DEF Continues
  <2>4. log[i].lsn > file.lsn
    BY <1>9, <2>3
  <2>5. log[i].lsn = file.lsn + 1 \/ (i > 1 /\ log[i - 1].lsn = log[i].lsn - 1)
    BY <2>1, <2>4 DEF Continues
  <2>6. CASE log[i].lsn = file.lsn + 1
    <3> DEFINE x == log[i].lsn  y == file.lsn  z == ckpt.lsn
    <3>1. x \in Nat /\ y \in Nat /\ z \in Nat /\ y <= z /\ x > z /\ x = y + 1
      BY <1>9, <2>3, <2>6
    <3> HIDE DEF x, y, z
    <3>2. x = z + 1
      BY <3>1
    <3> QED BY <3>2 DEF x, z
  <2> QED BY <2>5, <2>6
<1>12. LastLsn(new, cache) = Len(h)
  <2>1. LastLsn(file, cache) = Len(h) /\ file \in Files
    BY DiskTypes DEF Describes, DiskOK
  <2>2. \A f \in Files : f.lsn <= Settled
    BY DEF Describes, DiskOK
  <2>3. Settled \in Nat /\ Settled <= Len(h) /\ Len(h) \in Nat
    BY Numbers
  <2>4. LastLsn(new, cache) \in 0..Len(h) /\ ckpt.lsn <= LastLsn(new, cache)
        /\ \A i \in DOMAIN cache : cache[i].lsn <= LastLsn(new, cache)
    BY <1>3, <1>10, LastIs, Numbers
  <2>5. cache \in Seq(Frame) /\ FileFits(file, h) /\ LogFits(cache, h) /\ DOMAIN cache = 1..Len(cache)
        /\ Len(cache) \in Nat /\ h \in Seq(Commits) /\ file \in File
    BY Numbers, DiskTypes
  <2>6. CASE cache = <<>> \/ \A i \in DOMAIN cache : cache[i].lsn <= file.lsn
    <3>1. file.lsn = Len(h)
      BY <2>1, <2>5, <2>6, LastIs
    <3> QED BY <1>9, <2>3, <2>4, <3>1
  <2>7. CASE cache # <<>> /\ \E i \in DOMAIN cache : ~(cache[i].lsn <= file.lsn)
    <3>1. \A i \in DOMAIN cache : cache[i].lsn \in Nat
      BY <2>5, FrameTypes
    <3>2. cache[Len(cache)].lsn = Len(h)
      BY <1>9, <2>1, <2>5, <2>7, <3>1, LastIs
    <3>3. Len(cache) \in DOMAIN cache
      BY <2>5, <2>7
    <3> QED BY <2>3, <2>4, <3>2, <3>3
  <2> QED BY <2>6, <2>7
<1>13. DiskOK(h)'
  <2>1. \A f \in Files' : f.lsn <= Settled'
    BY <1>3, <1>5, <1>6, <1>9 DEF Describes, DiskOK
  <2>2. \A f \in Files' : LastLsn(f, cache') = Len(h)
    BY <1>6, <1>12 DEF RenameFile, Describes, DiskOK
  <2>3. \A f \in Files' : FileFits(f, h) /\ \A log \in Logs' : Continues(log, f)
    BY <1>6, <1>7, <1>10, <1>11 DEF Describes, DiskOK
  <2>4. (\A log \in Logs' : LogFits(log, h)) /\ \A log \in OlderLogs' : \A i \in DOMAIN log : log[i].lsn <= Settled'
    BY <1>5, <1>7 DEF Describes, DiskOK
  <2>5. \A f \in Files' : LastLsn(f, cache)' = LastLsn(f, cache')
    BY DEF LastLsn
  <2> QED BY <2>1, <2>2, <2>3, <2>4, <2>5 DEF DiskOK
<1>14. PointOK(h)'
  <2>1. StampOK(h)'
    <3>1. \A f \in Files' : f.lsn <= ckpt'.lsn
      BY <1>2, <1>3, <1>6, <1>8, <1>9 DEF StampOK
    <3>2. file'.lsn = ckpt'.lsn
      BY <1>1, <1>2, <1>3
    <3> QED BY <1>2, <1>5, <1>8, <3>1, <3>2 DEF StampOK
  <2>2. OffsetOK(h)'
    BY <1>1, <1>2, <1>5, <1>8 DEF OffsetOK, RenameFile
  <2>3. LockedOK'
    BY <1>1, <1>2, <1>5, <1>8 DEF LockedOK, RenameFile
  <2> QED BY <2>1, <2>2, <2>3 DEF PointOK
<1> QED BY <1>4, <1>5, <1>13, <1>14 DEF Describes

\* The directory forgets the older files.
LEMMA SyncFileDirKeeps ==
    ASSUME TypeOK, Plain(scenario), DirectOK, NEW h, Describes(h), SyncFileDir, scenario' = scenario
    PROVE  TypeOK' /\ DirectOK' /\ Describes(h)'
<1> USE DEF process, logFile, ckptFile, told, bounds
<1>1. ckpt.pc = "renamed" /\ ckpt' = [ckpt EXCEPT !.pc = "synced"] /\ olderFiles' = {}
  BY DEF SyncFileDir
<1>2. ckpt'.pc = "synced" /\ ckpt'.kind = ckpt.kind /\ ckpt'.lsn = ckpt.lsn /\ ckpt'.graph = ckpt.graph
      /\ ckpt'.offset = ckpt.offset /\ ckpt'.epoch = ckpt.epoch
  BY <1>1 DEF TypeOK
<1>3. TypeOK'
  <2>1. ckpt' \in [pc : {"none", "barrier", "write", "renamed", "synced", "truncated", "trimmed"},
                   kind : {"save", "online"}, lsn : Nat, graph : Seq(Commits),
                   offset : Nat, epoch : Nat]
    BY <1>1 DEF TypeOK
  <2> QED BY <1>1, <2>1 DEF SyncFileDir, TypeOK
<1>4. OrderOK(h)' /\ ToldOK(h)' /\ FlightOK(h)' /\ EndOK' /\ DirectOK' /\ Settled' = Settled /\ Staged' = Staged
  BY <1>1, <1>2, CheckpointStands DEF SyncFileDir
<1>5. Files' \subseteq Files /\ Logs' = Logs /\ OlderLogs' = OlderLogs
  BY <1>1 DEF Files, Logs, OlderLogs, Pairs, Here, SyncFileDir
<1>6. DiskOK(h)'
  BY <1>4, <1>5, DiskTypes, DiskStands DEF SyncFileDir, Describes
<1>7. PointOK(h)'
  <2>1. StampOK(h) /\ OffsetOK(h) /\ LockedOK
    BY <1>1 DEF Describes, PointOK
  <2>2. StampOK(h)'
    BY <1>1, <1>2, <1>4, <1>5, <2>1 DEF StampOK, SyncFileDir
  <2>3. OffsetOK(h)'
    BY <1>1, <1>2, <1>4, <2>1 DEF OffsetOK, SyncFileDir
  <2>4. LockedOK'
    BY <1>1, <1>2, <1>4, <2>1 DEF LockedOK, SyncFileDir
  <2> QED BY <2>2, <2>3, <2>4 DEF PointOK
<1> QED BY <1>3, <1>4, <1>6, <1>7 DEF Describes

\* No checkpoint runs, and nothing else moved.
LEMMA CheckpointEnds ==
    ASSUME TypeOK, DirectOK, NEW h, Describes(h), ckpt.pc # "truncated", ckpt' = NoCheckpoint,
           UNCHANGED <<scenario, pending, diverged, attempts, mem, nextLsn, inflight, end, epoch,
                       poisoned, cache, platter, file, olderFiles, acked, refused, stranded, rewrites,
                       crashes>>,
           olderLogs' \subseteq olderLogs, promised' \subseteq Commits
    PROVE  TypeOK' /\ DirectOK' /\ Describes(h)'
<1>1. ckpt'.pc = "none"
  BY DEF NoCheckpoint
<1>2. OrderOK(h)' /\ ToldOK(h)' /\ FlightOK(h)' /\ EndOK' /\ DirectOK' /\ Settled' = Settled
  BY <1>1, CheckpointStands
<1>3. Files' = Files /\ Logs' \subseteq Logs /\ OlderLogs' \subseteq OlderLogs
  <2>1. Here' = Here /\ Pairs' \subseteq Pairs
    BY DEF Here, Pairs
  <2> QED BY <2>1 DEF Files, Logs, OlderLogs
<1>4. DiskOK(h)'
  BY <1>2, <1>3, DiskTypes, DiskStands DEF Describes
<1>5. TypeOK'
  <2>1. ckpt' \in [pc : {"none", "barrier", "write", "renamed", "synced", "truncated", "trimmed"},
                   kind : {"save", "online"}, lsn : Nat, graph : Seq(Commits),
                   offset : Nat, epoch : Nat]
    <3>1. <<>> \in Seq(Commits)
      OBVIOUS
    <3> QED BY <3>1 DEF NoCheckpoint
  <2> QED BY <2>1 DEF TypeOK
<1> QED BY <1>1, <1>2, <1>4, <1>5 DEF Describes, PointOK

\* A checkpoint that fails leaves everything.
LEMMA CheckpointFailsKeeps ==
    ASSUME TypeOK, Plain(scenario), DirectOK, NEW h, Describes(h), CheckpointFails, scenario' = scenario
    PROVE  TypeOK' /\ DirectOK' /\ Describes(h)'
<1>1. ckpt.pc # "truncated" /\ promised' = promised /\ promised \subseteq Commits
  BY DEF CheckpointFails, told, TypeOK
<1> QED BY <1>1, CheckpointEnds DEF CheckpointFails, process, logFile, ckptFile, told, bounds

\* ... and so does one whose trim is refused.
LEMMA TrimRefusedKeeps ==
    ASSUME TypeOK, Plain(scenario), DirectOK, NEW h, Describes(h), TrimRefused, scenario' = scenario
    PROVE  TypeOK' /\ DirectOK' /\ Describes(h)'
<1>1. ckpt.pc # "truncated" /\ promised' = promised /\ promised \subseteq Commits
  BY DEF TrimRefused, told, TypeOK
<1> QED BY <1>1, CheckpointEnds DEF TrimRefused, process, logFile, ckptFile, told, bounds

\* What a finished checkpoint holds is commits.
LEMMA HeldAreCommits ==
    ASSUME TypeOK
    PROVE  promised \cup Elems(ckpt.graph) \subseteq Commits
<1>1. ckpt.graph \in Seq(Commits) /\ promised \subseteq Commits
  BY DEF TypeOK
<1>2. \A s \in Seq(Commits) : Elems(s) \subseteq Commits
  BY DEF Elems
<1> QED BY <1>1, <1>2

\* The log's directory is synced, or is not.
LEMMA SyncLogDirKeeps ==
    ASSUME TypeOK, Plain(scenario), DirectOK, NEW h, Describes(h), SyncLogDir, scenario' = scenario
    PROVE  TypeOK' /\ DirectOK' /\ Describes(h)'
<1>1. ckpt.pc # "truncated" /\ promised' \subseteq Commits /\ olderLogs' \subseteq olderLogs
  BY HeldAreCommits DEF SyncLogDir, TypeOK
<1> QED BY <1>1, CheckpointEnds DEF SyncLogDir, process, logFile, ckptFile, told, bounds

\* When the log goes, the file holds all of the history.
LEMMA TruncateLogKeeps ==
    ASSUME TypeOK, Plain(scenario), DirectOK, NEW h, Describes(h), TruncateLog, scenario' = scenario
    PROVE  TypeOK' /\ DirectOK' /\ Describes(h)'
<1> USE DEF process, logFile, ckptFile, told, bounds
<1>1. ckpt.pc = "synced" /\ ckpt' = [ckpt EXCEPT !.pc = "truncated"] /\ cache' = <<>>
  BY DEF TruncateLog
<1>2. ckpt'.pc = "truncated" /\ ckpt'.kind = ckpt.kind /\ ckpt'.lsn = ckpt.lsn /\ ckpt'.graph = ckpt.graph
      /\ ckpt'.offset = ckpt.offset /\ ckpt'.epoch = ckpt.epoch
  BY <1>1 DEF TypeOK
<1>3. StampOK(h) /\ OffsetOK(h) /\ LockedOK
  BY <1>1 DEF Describes, PointOK
<1>4. ~Staged /\ ~poisoned /\ ckpt.offset = end
  <2>1. CASE ckpt.kind = "save"
    BY <1>3, <2>1 DEF LockedOK
  <2>2. CASE ckpt.kind # "save"
    BY <2>2 DEF TruncateLog, StaleOffset, Staged
  <2> QED BY <2>1, <2>2
<1>5. Len(h) = ckpt.lsn /\ Files = {file} /\ file.lsn = Len(h)
  <2>1. Len(h) - ckpt.lsn = end - end
    BY <1>1, <1>3, <1>4 DEF OffsetOK
  <2>2. Len(h) \in Nat /\ ckpt.lsn \in Nat /\ end \in Nat
    BY Numbers DEF TypeOK
  <2>3. Len(h) = ckpt.lsn
    <3> DEFINE n == Len(h)
    <3>1. n - ckpt.lsn = end - end /\ n \in Nat
      BY <2>1, <2>2
    <3> HIDE DEF n
    <3>2. n = ckpt.lsn
      BY <2>2, <3>1
    <3> QED BY <3>2 DEF n
  <2>4. file.lsn = ckpt.lsn /\ olderFiles = {}
    BY <1>1, <1>3 DEF StampOK
  <2> QED BY <2>3, <2>4 DEF Files
<1>6. TypeOK'
  <2>1. ckpt' \in [pc : {"none", "barrier", "write", "renamed", "synced", "truncated", "trimmed"},
                   kind : {"save", "online"}, lsn : Nat, graph : Seq(Commits),
                   offset : Nat, epoch : Nat]
    BY <1>1 DEF TypeOK
  <2>2. cache' \in Seq(Frame)
    BY <1>1
  <2> QED BY <2>1, <2>2 DEF TruncateLog, TypeOK
<1>7. OrderOK(h)' /\ ToldOK(h)' /\ Settled' = Settled /\ Staged' = Staged /\ Files' = Files
  BY OrderStands, ToldStands DEF TruncateLog, Describes, Staged, Files
<1>8. FlightOK(h)' /\ EndOK' /\ DirectOK'
  BY <1>2, <1>4, <1>7 DEF TruncateLog, FlightOK, EndOK, DirectOK
<1>9. DiskOK(h)'
  <2>1. Here'.cache = <<>> /\ Here'.platter = platter /\ Here.platter = platter
    BY <1>1 DEF Here, TruncateLog
  <2>2. OlderLogs' = OlderLogs /\ Logs' \subseteq {<<>>} \cup Logs
    BY <2>1 DEF Logs, OlderLogs, Pairs, TruncateLog
  <2>3. LogFits(<<>>, h) /\ \A f \in Files : Continues(<<>>, f)
    BY DEF LogFits, Continues
  <2>4. \A f \in Files' : LastLsn(f, cache)' = f.lsn
    BY <1>1 DEF LastLsn
  <2>5. \A f \in Files' : f.lsn = Len(h)
    BY <1>5, <1>7
  <2> QED BY <1>7, <2>2, <2>3, <2>4, <2>5 DEF Describes, DiskOK
<1>10. PointOK(h)'
  <2>1. StampOK(h)'
    BY <1>1, <1>2, <1>3, <1>7 DEF StampOK, TruncateLog
  <2>2. OffsetOK(h)'
    BY <1>2 DEF OffsetOK
  <2>3. LockedOK'
    BY <1>1, <1>2, <1>3, <1>4, <1>7 DEF LockedOK, TruncateLog
  <2> QED BY <2>1, <2>2, <2>3 DEF PointOK
<1> QED BY <1>6, <1>7, <1>8, <1>9, <1>10 DEF Describes

\* The truncation is made certain.
LEMMA SyncTruncationKeeps ==
    ASSUME TypeOK, Plain(scenario), DirectOK, NEW h, Describes(h), SyncTruncation, scenario' = scenario
    PROVE  TypeOK' /\ DirectOK' /\ Describes(h)'
<1> USE DEF process, logFile, ckptFile, told, bounds
<1>1. ckpt.pc = "truncated" /\ ckpt' = NoCheckpoint /\ ckpt'.pc = "none" /\ platter' = <<>>
  BY DEF SyncTruncation, NoCheckpoint
<1>2. ~Staged /\ ~poisoned /\ cache = <<>> /\ (ckpt.kind = "save" => "save" \in scenario.uses)
  BY <1>1 DEF Describes, PointOK, LockedOK
<1>3. diverged \in BOOLEAN /\ ckpt.kind \in {"save", "online"}
  BY DEF TypeOK
<1>4. diverged' = diverged
  <2>1. diverged => ckpt.kind = "online"
    BY <1>2, <1>3 DEF DirectOK, Plain
  <2> QED BY <1>3, <2>1 DEF SyncTruncation
<1>5. TypeOK'
  <2>1. ckpt' \in [pc : {"none", "barrier", "write", "renamed", "synced", "truncated", "trimmed"},
                   kind : {"save", "online"}, lsn : Nat, graph : Seq(Commits),
                   offset : Nat, epoch : Nat]
    <3>1. <<>> \in Seq(Commits)
      OBVIOUS
    <3> QED BY <1>1, <3>1 DEF NoCheckpoint
  <2>2. platter' \in Seq(Frame) /\ promised' \subseteq Commits
    BY <1>1, HeldAreCommits DEF SyncTruncation
  <2>3. epoch' \in Nat /\ end' \in Nat
    BY DEF SyncTruncation, TypeOK
  <2> QED BY <1>3, <1>4, <2>1, <2>2, <2>3 DEF SyncTruncation, TypeOK
<1>6. OrderOK(h)' /\ ToldOK(h)' /\ Settled' = Settled /\ Staged' = Staged
  <2>1. Settled' = Settled /\ Staged' = Staged
    BY DEF SyncTruncation, Settled, Staged
  <2>2. OrderOK(h)'
    BY <1>2, <1>4, <2>1 DEF SyncTruncation, Describes, OrderOK
  <2>3. ToldOK(h)'
    BY ToldStands DEF SyncTruncation, Describes
  <2> QED BY <2>1, <2>2, <2>3
<1>7. FlightOK(h)' /\ DirectOK'
  BY <1>2, <1>4, <1>6 DEF SyncTruncation, FlightOK, DirectOK
<1>8. EndOK'
  <2>1. cache' = <<>> /\ end' = 0
    BY <1>2 DEF SyncTruncation
  <2> QED BY <2>1 DEF EndOK
<1>9. DiskOK(h)'
  BY <1>1, <1>2, <1>6, DiskTypes, DiskWritten DEF SyncTruncation, Describes
<1>10. PointOK(h)'
  BY <1>1 DEF PointOK
<1> QED BY <1>5, <1>6, <1>7, <1>8, <1>9, <1>10 DEF Describes

\* The kept tail continues the file from its first frame on.
LEMMA TrimLogKeeps ==
    ASSUME TypeOK, Plain(scenario), DirectOK, NEW h, Describes(h), TrimLog, scenario' = scenario
    PROVE  TypeOK' /\ DirectOK' /\ Describes(h)'
<1> USE DEF process, logFile, ckptFile, told, bounds
<1> DEFINE tail == SubSeq(cache, ckpt.offset + 1, end)
           n == end - ckpt.offset
<1>1. ckpt.pc = "synced" /\ ckpt.kind = "online" /\ ~Staged /\ ~poisoned /\ ckpt.epoch = epoch
      /\ ckpt.offset < end /\ cache' = tail /\ platter' = tail
      /\ olderLogs' = olderLogs \cup {Here}
  BY DEF TrimLog, StaleOffset, Staged, Here
<1>2. StampOK(h) /\ OffsetOK(h)
  BY <1>1 DEF Describes, PointOK
<1>3. end = Len(cache) /\ Len(h) = Settled
  BY <1>1 DEF Describes, EndOK, OrderOK
<1>4. Files = {file} /\ file.lsn = ckpt.lsn /\ file \in File /\ ckpt.lsn \in Nat
  BY <1>1, <1>2 DEF StampOK, Files, TypeOK
<1>5. ckpt.offset \in Nat /\ end \in Nat /\ n \in Nat /\ n > 0 /\ Len(h) \in Nat /\ cache \in Seq(Frame)
      /\ Len(h) = ckpt.lsn + n
  <2>1. ckpt.offset \in Nat /\ end \in Nat /\ Len(h) \in Nat /\ cache \in Seq(Frame)
    BY Numbers DEF TypeOK
  <2>2. Len(h) - ckpt.lsn = end - ckpt.offset
    BY <1>1, <1>2 DEF OffsetOK
  <2> DEFINE m == Len(h)  o == ckpt.offset  a == ckpt.lsn
  <2>3. m \in Nat /\ o \in Nat /\ a \in Nat /\ m - a = end - o /\ o < end
    BY <1>1, <1>4, <2>1, <2>2
  <2> HIDE DEF m, o, a
  <2>4. end - o \in Nat /\ end - o > 0 /\ m = a + (end - o)
    BY <2>1, <2>3
  <2> QED BY <2>1, <2>4 DEF m, o, a
<1>6. tail \in Seq(Frame) /\ Len(tail) = n /\ DOMAIN tail = 1..n
      /\ \A i \in 1..n : tail[i] = cache[ckpt.offset + i] /\ ckpt.offset + i \in DOMAIN cache
  <2> DEFINE o == ckpt.offset
  <2>1. o \in Nat /\ o < end /\ end = Len(cache) /\ cache \in Seq(Frame) /\ end \in Nat
    BY <1>1, <1>3, <1>5
  <2> HIDE DEF o
  <2>2. SubSeq(cache, o + 1, end) \in Seq(Frame) /\ Len(SubSeq(cache, o + 1, end)) = end - o
        /\ DOMAIN SubSeq(cache, o + 1, end) = 1..(end - o)
        /\ \A i \in 1..(end - o) : SubSeq(cache, o + 1, end)[i] = cache[o + i]
    BY <2>1
  <2>3. \A i \in 1..(end - o) : o + i \in 1..Len(cache)
    BY <2>1
  <2> QED BY <2>1, <2>2, <2>3, SMTT(30) DEF o
<1>7. \A i \in 1..n : tail[i].lsn = ckpt.lsn + i
  <2> SUFFICES ASSUME NEW i \in 1..n PROVE tail[i].lsn = ckpt.lsn + i
    OBVIOUS
  <2>1. ckpt.offset + i \in DOMAIN cache /\ ckpt.offset + i > ckpt.offset
    BY <1>5, <1>6, SMTT(30)
  <2>2. cache[ckpt.offset + i].lsn = ckpt.lsn + ((ckpt.offset + i) - ckpt.offset)
    BY <1>1, <1>2, <2>1 DEF OffsetOK
  <2>3. (ckpt.offset + i) - ckpt.offset = i
    BY <1>5
  <2> QED BY <1>6, <2>2, <2>3
<1> HIDE DEF tail, n
<1>8. LogFits(tail, h)
  <2>1. LogFits(cache, h)
    BY Numbers
  <2>2. \A i \in 1..n : tail[i].lsn \in 1..Len(h) /\ tail[i].commit = h[tail[i].lsn]
    BY <1>6, <2>1 DEF LogFits
  <2>3. \A i, j \in 1..n : i < j => ckpt.lsn + i < ckpt.lsn + j
    BY <1>4, <1>5
  <2> QED BY <1>6, <1>7, <2>2, <2>3 DEF LogFits
<1>9. Continues(tail, file)
  <2> SUFFICES ASSUME NEW i \in 1..n
               PROVE  tail[i].lsn = file.lsn + 1 \/ (i > 1 /\ tail[i - 1].lsn = tail[i].lsn - 1)
    BY <1>6 DEF Continues
  <2>1. CASE i = 1
    BY <1>4, <1>7, <2>1
  <2>2. CASE i > 1
    <3>1. i - 1 \in 1..n
      BY <1>5, <2>2
    <3>2. ckpt.lsn + (i - 1) = (ckpt.lsn + i) - 1
      BY <1>4, <2>2
    <3> QED BY <1>7, <2>2, <3>1, <3>2
  <2>3. i = 1 \/ i > 1
    BY <1>5
  <2> QED BY <2>1, <2>2, <2>3
<1>10. LastLsn(file, tail) = Len(h)
  <2>1. n \in DOMAIN tail /\ tail[n].lsn = ckpt.lsn + n
    BY <1>5, <1>6, <1>7
  <2>2. tail[n].lsn > file.lsn
    BY <1>4, <1>5, <2>1
  <2>3. FileFits(file, h) /\ h \in Seq(Commits)
    BY Numbers
  <2>4. LastLsn(file, tail) = tail[Len(tail)].lsn
    BY <1>4, <1>6, <1>8, <2>1, <2>2, <2>3, LastIs
  <2> QED BY <1>5, <1>6, <2>1, <2>4
<1>11. Here.cache = cache /\ Here.platter = platter /\ Here'.cache = tail /\ Here'.platter = tail
  BY <1>1 DEF Here
<1>12. Files' = Files /\ Logs' \subseteq {tail} \cup Logs /\ OlderLogs' \subseteq Logs
  <2>1. Files' = Files
    BY DEF TrimLog, Files
  <2>2. Pairs' = {Here'} \cup Pairs
    BY <1>1 DEF Pairs
  <2>3. Logs' \subseteq {tail} \cup Logs
    BY <1>11, <2>2 DEF Logs
  <2>4. olderLogs' = Pairs
    BY <1>1 DEF Pairs
  <2>5. OlderLogs' \subseteq Logs
    BY <2>4 DEF OlderLogs, Logs
  <2> QED BY <2>1, <2>3, <2>5
<1>13. OrderOK(h)' /\ ToldOK(h)' /\ Settled' = Settled /\ Staged' = Staged
  <2>1. poisoned' = poisoned \/ poisoned'
    BY DEF TrimLog
  <2>2. UNCHANGED <<attempts, nextLsn, inflight, mem, diverged, acked, refused, stranded>>
    BY DEF TrimLog
  <2> QED BY <2>1, <2>2, OrderStands, ToldStands DEF Describes, Staged
<1>14. FlightOK(h)' /\ DirectOK'
  BY <1>1, <1>13 DEF TrimLog, FlightOK, DirectOK
<1>15. DiskOK(h)'
  <2>1. \A log \in Logs' : LogFits(log, h)
    BY <1>8, <1>12 DEF Describes, DiskOK
  <2>2. \A f \in Files' : FileFits(f, h) /\ f.lsn <= Settled'
    BY <1>12, <1>13 DEF Describes, DiskOK
  <2>3. \A log \in Logs', f \in Files' : Continues(log, f)
    BY <1>4, <1>9, <1>12 DEF Describes, DiskOK
  <2>4. \A f \in Files' : LastLsn(f, cache)' = Len(h)
    <3>1. \A f \in Files' : LastLsn(f, cache)' = LastLsn(f, tail)
      BY <1>1 DEF LastLsn
    <3> QED BY <1>4, <1>10, <1>12, <3>1
  <2>5. \A log \in OlderLogs' : \A i \in DOMAIN log : log[i].lsn <= Settled'
    <3>1. \A log \in Logs : \A i \in DOMAIN log : log[i].lsn \in 1..Len(h)
      BY DEF Describes, DiskOK, LogFits
    <3>2. \A x \in 1..Len(h) : x <= Settled'
      <4> DEFINE m == Len(h)
      <4>1. Settled' = m
        BY <1>3, <1>13
      <4>2. m \in Nat
        BY <1>5
      <4> HIDE DEF m
      <4>3. \A x \in 1..m : x <= Settled'
        BY <4>1, <4>2
      <4> QED BY <4>3 DEF m
    <3> QED BY <1>12, <3>1, <3>2
  <2> QED BY <2>1, <2>2, <2>3, <2>4, <2>5 DEF DiskOK
<1>16. CASE /\ end' = n /\ epoch' = epoch + 1 /\ ckpt' = [ckpt EXCEPT !.pc = "trimmed"]
            /\ UNCHANGED poisoned
  <2>1. ckpt'.pc = "trimmed" /\ ckpt'.kind = ckpt.kind /\ ckpt'.lsn = ckpt.lsn /\ ckpt'.graph = ckpt.graph
    BY <1>16 DEF TypeOK
  <2>2. TypeOK'
    <3>1. ckpt' \in [pc : {"none", "barrier", "write", "renamed", "synced", "truncated", "trimmed"},
                     kind : {"save", "online"}, lsn : Nat, graph : Seq(Commits),
                     offset : Nat, epoch : Nat]
      BY <1>16 DEF TypeOK
    <3>2. end' \in Nat /\ epoch' \in Nat /\ poisoned' \in BOOLEAN
      <4>1. epoch \in Nat /\ poisoned \in BOOLEAN
        BY DEF TypeOK
      <4>2. end' = n /\ epoch' = epoch + 1 /\ poisoned' = poisoned
        BY <1>16
      <4> QED BY <1>5, <4>1, <4>2
    <3>3. Here \in [cache : Seq(Frame), platter : Seq(Frame)]
      BY DEF Here, TypeOK
    <3>4. \A o \in olderLogs' : o \in [cache : Seq(Frame), platter : Seq(Frame)]
      BY <1>1, <3>3 DEF TypeOK
    <3>5. cache' \in Seq(Frame) /\ platter' \in Seq(Frame)
      BY <1>1, <1>6
    <3> QED BY <3>1, <3>2, <3>4, <3>5 DEF TrimLog, TypeOK
  <2>3. EndOK'
    BY <1>1, <1>6, <1>16 DEF EndOK
  <2>4. PointOK(h)'
    <3>1. StampOK(h)'
      BY <1>1, <1>2, <1>12, <1>13, <2>1 DEF StampOK, TrimLog
    <3>2. OffsetOK(h)'
      BY <2>1 DEF OffsetOK
    <3>3. LockedOK'
      BY <1>1, <1>13, <1>16, <2>1 DEF LockedOK
    <3> QED BY <3>1, <3>2, <3>3 DEF PointOK
  <2> QED BY <1>13, <1>14, <1>15, <2>2, <2>3, <2>4 DEF Describes
<1>17. CASE poisoned' = TRUE /\ ckpt' = NoCheckpoint /\ UNCHANGED <<end, epoch>>
  <2>1. TypeOK'
    <3>1. ckpt' \in [pc : {"none", "barrier", "write", "renamed", "synced", "truncated", "trimmed"},
                     kind : {"save", "online"}, lsn : Nat, graph : Seq(Commits),
                     offset : Nat, epoch : Nat]
      <4>1. <<>> \in Seq(Commits)
        OBVIOUS
      <4> QED BY <1>17, <4>1 DEF NoCheckpoint
    <3>2. Here \in [cache : Seq(Frame), platter : Seq(Frame)]
      BY DEF Here, TypeOK
    <3>3. \A o \in olderLogs' : o \in [cache : Seq(Frame), platter : Seq(Frame)]
      BY <1>1, <3>2 DEF TypeOK
    <3>4. cache' \in Seq(Frame) /\ platter' \in Seq(Frame)
      BY <1>1, <1>6
    <3> QED BY <1>17, <3>1, <3>3, <3>4 DEF TrimLog, TypeOK
  <2>2. EndOK' /\ PointOK(h)'
    BY <1>17 DEF EndOK, PointOK, NoCheckpoint
  <2> QED BY <1>13, <1>14, <1>15, <2>1, <2>2 DEF Describes
<1>18. \/ end' = n /\ epoch' = epoch + 1 /\ ckpt' = [ckpt EXCEPT !.pc = "trimmed"] /\ UNCHANGED poisoned
       \/ poisoned' = TRUE /\ ckpt' = NoCheckpoint /\ UNCHANGED <<end, epoch>>
  BY DEF TrimLog, n
<1> QED BY <1>16, <1>17, <1>18

-----------------------------------------------------------------------------
(* Commits.                                                                *)

\* A new commit is one more.
LEMMA NewCommitIs ==
    ASSUME TypeOK, attempts < MaxCommits
    PROVE  /\ NewCommit \in Commits /\ NewCommit \in Nat /\ NewCommit = attempts + 1
           /\ attempts \in Nat
           /\ NewCommit \in 0..MaxCommits
<1>1. attempts \in Nat /\ attempts < MaxCommits /\ MaxCommits \in Nat
  BY DurableLogAssumption DEF TypeOK
<1> QED BY <1>1 DEF NewCommit, Commits

\* The commit staged is the next of the history.
LEMMA StageOkKeeps ==
    ASSUME TypeOK, Plain(scenario), DirectOK, NEW h, Describes(h), Stage, StageOk, scenario' = scenario,
           NEW c, c = NewCommit
    PROVE  TypeOK' /\ DirectOK' /\ Describes(Append(h, c))'
<1> USE DEF process, logFile, ckptFile, told, bounds
<1> DEFINE n == Len(h)
<1>1. ~Staged /\ ~LocksHeld /\ ~diverged /\ ~poisoned /\ attempts < MaxCommits
  BY DEF Stage, GateFree, Staged
<1>2. c \in Commits /\ c \in Nat /\ c = attempts + 1 /\ attempts \in Nat /\ c \in 0..MaxCommits
  BY <1>1, NewCommitIs
<1>3. h \in Seq(Commits) /\ n \in Nat /\ n = Settled /\ nextLsn = n + 1 /\ DOMAIN h = 1..n
      /\ \A i \in 1..n : h[i] \in 1..attempts
  <2>1. Len(h) = Settled
    BY <1>1 DEF Describes, OrderOK
  <2> QED BY <1>1, <2>1, Numbers
<1> DEFINE g == Append(h, c)
<1>4. /\ g \in Seq(Commits) /\ Len(g) = n + 1 /\ DOMAIN g = 1..(n + 1) /\ g[n + 1] = c
      /\ \A i \in 1..n : g[i] = h[i]
      /\ \A i \in 0..n : FirstN(g, i) = FirstN(h, i)
      /\ Elems(g) = Elems(h) \cup {c}
  BY <1>2, <1>3, AppendFirst
<1>5. cache' = Append(cache, NewFrame) /\ end' = end + 1 /\ nextLsn' = nextLsn + 1
      /\ inflight' = [pc |-> "staged", commit |-> c, lsn |-> nextLsn, prevEnd |-> end]
      /\ UNCHANGED <<platter, poisoned, refused>>
  BY DEF StageOk
<1>6. attempts' = attempts + 1
      /\ UNCHANGED <<mem, diverged, epoch, pending, ckpt, olderLogs, file, olderFiles,
                     acked, stranded, promised, rewrites, crashes>>
  BY DEF Stage
<1>7. NewFrame \in Frame /\ NewFrame.lsn = n + 1 /\ NewFrame.commit = c
  <2>1. nextLsn \in Nat
    BY DEF TypeOK
  <2> QED BY <1>2, <1>3, <2>1 DEF NewFrame, Frame
<1>8. cache \in Seq(Frame) /\ end = Len(cache) /\ end \in Nat /\ DOMAIN cache = 1..end
  <2>1. ckpt.pc # "truncated"
    BY <1>1 DEF LocksHeld
  <2>2. end = Len(cache)
    BY <1>1, <2>1 DEF Describes, EndOK
  <2> QED BY <2>2, Numbers
<1> DEFINE new == Append(cache, NewFrame)
<1>9. new \in Seq(Frame) /\ Len(new) = end + 1 /\ DOMAIN new = 1..(end + 1) /\ new[end + 1] = NewFrame
      /\ \A i \in 1..end : new[i] = cache[i]
  BY <1>7, <1>8, AppendFirst
<1> HIDE DEF n, g, new
<1>10. TypeOK'
  <2>1. inflight' \in [pc : {"none", "staged"}, commit : 0 .. MaxCommits, lsn : Nat, prevEnd : Nat]
    <3>1. nextLsn \in Nat
      BY DEF TypeOK
    <3> QED BY <1>2, <1>5, <1>8, <3>1
  <2>2. nextLsn' \in Nat \ {0} /\ end' \in Nat
    BY <1>3, <1>5, <1>8
  <2>3. attempts' \in 0..MaxCommits
    BY <1>2, <1>6
  <2>4. cache' \in Seq(Frame)
    BY <1>5, <1>9 DEF new
  <2> QED BY <1>5, <1>6, <2>1, <2>2, <2>3, <2>4 DEF TypeOK
<1>11. Staged' /\ Settled' = n
  <2>1. Staged'
    BY <1>5 DEF Staged
  <2> QED BY <1>3, <1>5, <2>1 DEF Settled
<1>12. LogFits(cache, h) /\ \A f \in Files : Continues(cache, f) /\ f.lsn \in 0..n
                                              /\ LastLsn(f, cache) = n /\ f \in File /\ FileFits(f, h)
  <2>1. \A f \in Files : f.lsn \in 0..n
    BY DEF Describes, DiskOK, FileFits, n
  <2> QED BY <2>1, DiskTypes DEF Describes, DiskOK, n
<1>13. LogFits(new, g)
  <2>1. LogFits(cache, g)
    BY <1>2, <1>3, <1>8, <1>12, LongerHistory DEF g
  <2>2. \A i \in 1..end : cache[i].lsn \in 1..n
    BY <1>8, <1>12 DEF LogFits, n
  <2>3. \A i \in 1..(end + 1) : new[i].lsn \in 1..(n + 1) /\ new[i].commit = g[new[i].lsn]
    <3> SUFFICES ASSUME NEW i \in 1..(end + 1)
                 PROVE  new[i].lsn \in 1..(n + 1) /\ new[i].commit = g[new[i].lsn]
      OBVIOUS
    <3>1. CASE i = end + 1
      BY <1>3, <1>4, <1>7, <1>9, <3>1
    <3>2. CASE i \in 1..end
      BY <1>4, <1>8, <1>9, <2>1, <3>2 DEF LogFits
    <3> QED BY <1>8, <3>1, <3>2
  <2>4. \A i, j \in 1..(end + 1) : i < j => new[i].lsn < new[j].lsn
    <3> SUFFICES ASSUME NEW i \in 1..(end + 1), NEW j \in 1..(end + 1), i < j
                 PROVE  new[i].lsn < new[j].lsn
      OBVIOUS
    <3>1. i \in 1..end
      BY <1>8
    <3>2. CASE j = end + 1
      <4>1. cache[i].lsn < n + 1
        BY <1>3, <2>2, <3>1
      <4> QED BY <1>7, <1>9, <3>1, <3>2, <4>1
    <3>3. CASE j \in 1..end
      BY <1>8, <1>9, <1>12, <3>1, <3>3 DEF LogFits
    <3> QED BY <1>8, <3>2, <3>3
  <2> QED BY <1>4, <1>9, <2>3, <2>4 DEF LogFits
<1>14. ASSUME NEW f \in Files
       PROVE  Continues(new, f)
  <2>1. Continues(cache, f) /\ f.lsn \in 0..n /\ LastLsn(f, cache) = n /\ f \in File /\ FileFits(f, h)
    BY <1>12
  <2> SUFFICES ASSUME NEW i \in 1..(end + 1), new[i].lsn > f.lsn
               PROVE  new[i].lsn = f.lsn + 1 \/ (i > 1 /\ new[i - 1].lsn = new[i].lsn - 1)
    BY <1>9 DEF Continues
  <2>2. CASE i \in 1..end
    <3>1. new[i] = cache[i] /\ i \in DOMAIN cache /\ (i > 1 => new[i - 1] = cache[i - 1])
      BY <1>8, <1>9, <2>2
    <3> QED BY <2>1, <3>1 DEF Continues
  <2>3. CASE i = end + 1
    <3>1. new[i].lsn = n + 1
      BY <1>7, <1>9, <2>3
    <3>2. CASE cache = <<>> \/ \A k \in DOMAIN cache : cache[k].lsn <= f.lsn
      <4>1. LastLsn(f, cache) = f.lsn
        <5>1. h \in Seq(Commits) /\ cache \in Seq(Frame) /\ f \in File
              /\ LogFits(cache, h) /\ FileFits(f, h)
          BY <1>3, <1>8, <1>12, <2>1
        <5> QED BY <3>2, <5>1, LastIs
      <4> QED BY <2>1, <3>1, <4>1
    <3>3. CASE cache # <<>> /\ \E k \in DOMAIN cache : ~(cache[k].lsn <= f.lsn)
      <4>1. \E k \in DOMAIN cache : cache[k].lsn > f.lsn
        <5>1. \A k \in DOMAIN cache : cache[k].lsn \in Nat
          BY <1>8, FrameTypes
        <5>2. f.lsn \in Nat
          BY <1>3, <2>1
        <5> QED BY <3>3, <5>1, <5>2
      <4>2. cache[end].lsn = n
        BY <1>3, <1>8, <1>12, <2>1, <4>1, LastIs, SMTT(30)
      <4>3. end > 0 /\ i > 1 /\ i - 1 = end /\ end \in 1..end
        BY <1>8, <2>3, <4>1
      <4>4. new[i - 1].lsn = n
        BY <1>9, <4>2, <4>3
      <4>5. n = (n + 1) - 1
        BY <1>3
      <4> QED BY <3>1, <4>3, <4>4, <4>5
    <3> QED BY <3>2, <3>3
  <2> QED BY <1>8, <2>2, <2>3
<1>15. \A f \in Files : LastLsn(f, new) = n + 1
  <2> SUFFICES ASSUME NEW f \in Files PROVE LastLsn(f, new) = n + 1
    OBVIOUS
  <2>1. f.lsn \in 0..n /\ f \in File /\ FileFits(f, h)
    BY <1>12
  <2>2. FileFits(f, g)
    BY <1>2, <1>3, <2>1, LongerHistory DEF g
  <2>3. end + 1 \in DOMAIN new /\ new[end + 1].lsn = n + 1 /\ new[end + 1].lsn > f.lsn
    BY <1>3, <1>7, <1>8, <1>9, <2>1
  <2>4. LastLsn(f, new) = new[Len(new)].lsn
    BY <1>4, <1>9, <1>13, <2>1, <2>2, <2>3, LastIs
  <2> QED BY <1>9, <2>3, <2>4
<1>16. Files' = Files /\ OlderLogs' = OlderLogs /\ Logs' = {new, platter} \cup OlderLogs
  <2>1. Here'.cache = new /\ Here'.platter = platter
    BY <1>5 DEF Here, new
  <2> QED BY <1>6, <2>1 DEF Files, OlderLogs, Logs, Pairs
<1>17. DiskOK(g)'
  <2>1. \A log \in Logs : log \in Seq(Frame) /\ LogFits(log, h)
    BY DiskTypes DEF Describes, DiskOK
  <2>2. \A log \in Logs : LogFits(log, g)
    BY <1>2, <1>3, <2>1, LongerHistory DEF g
  <2>3. \A log \in Logs' : LogFits(log, g)
    BY <1>13, <1>16, <2>2, LogsAre
  <2>4. \A f \in Files' : FileFits(f, g)
    BY <1>2, <1>3, <1>12, <1>16, LongerHistory DEF g
  <2>5. \A log \in Logs', f \in Files' : Continues(log, f)
    BY <1>14, <1>16, LogsAre DEF Describes, DiskOK
  <2>6. \A f \in Files' : f.lsn <= Settled'
    BY <1>3, <1>11, <1>12, <1>16
  <2>7. \A f \in Files' : LastLsn(f, cache)' = Len(g)
    <3>1. \A f \in Files' : LastLsn(f, cache)' = LastLsn(f, new)
      BY <1>5 DEF LastLsn, new
    <3> QED BY <1>4, <1>15, <1>16, <3>1
  <2>8. \A log \in OlderLogs' : \A i \in DOMAIN log : log[i].lsn <= Settled'
    BY <1>3, <1>11, <1>16 DEF Describes, DiskOK
  <2> QED BY <2>3, <2>4, <2>5, <2>6, <2>7, <2>8 DEF DiskOK
<1>18. OrderOK(g)'
  <2>1. \A i, j \in 1..n : h[i] = h[j] => i = j
    BY <1>3 DEF Describes, OrderOK
  <2>2. \A i, j \in 1..(n + 1) : g[i] = g[j] => i = j
    <3>1. \A i \in 1..n : g[i] < c /\ g[i] # c
      BY <1>2, <1>3, <1>4
    <3>2. \A i \in 1..(n + 1) : i \in 1..n \/ i = n + 1
      BY <1>3
    <3> QED BY <1>4, <2>1, <3>1, <3>2
  <2>3. \A i \in 1..(n + 1) : g[i] <= attempts'
    <3>1. \A i \in 1..(n + 1) : i \in 1..n \/ i = n + 1
      BY <1>3
    <3> QED BY <1>2, <1>3, <1>4, <1>6, <3>1
  <2>4. mem' = FirstN(g, Settled')
    <3>1. mem = FirstN(h, n) /\ n \in 0..n
      BY <1>1, <1>3 DEF Describes, OrderOK
    <3>2. FirstN(g, n) = FirstN(h, n)
      BY <1>4, <3>1, Zenon
    <3> QED BY <1>6, <1>11, <3>1, <3>2, Zenon
  <2> QED BY <1>4, <1>11, <2>2, <2>3, <2>4 DEF OrderOK
<1>19. FlightOK(g)' /\ EndOK' /\ DirectOK'
  <2>1. end' > 0 /\ cache'[end'].lsn = n + 1 /\ end' = Len(cache') /\ end' - 1 = end
    BY <1>5, <1>7, <1>8, <1>9 DEF new
  <2>2. inflight'.lsn = n + 1 /\ inflight'.prevEnd = end /\ inflight'.commit = c
    BY <1>3, <1>5
  <2> QED BY <1>1, <1>4, <1>5, <1>6, <1>11, <2>1, <2>2 DEF FlightOK, EndOK, DirectOK
<1>20. ToldOK(g)'
  <2>1. /\ acked \subseteq Elems(h) /\ (refused \ stranded) \cap Elems(h) = {}
        /\ \A r \in refused : r <= attempts
    BY DEF Describes, ToldOK
  <2>2. c \notin Elems(h)
    BY <1>2, <1>3 DEF Elems
  <2>3. c \notin refused /\ \A r \in refused : r <= attempts + 1
    <3>1. refused \subseteq Nat
      BY DEF TypeOK, Commits
    <3> QED BY <1>2, <2>1, <3>1
  <2>4. inflight'.commit = c
    BY <1>5
  <2>5. acked \subseteq Elems(g) /\ (refused \ stranded) \cap Elems(g) = {} /\ c \notin acked
    BY <1>4, <2>1, <2>2, <2>3, Zenon
  <2> QED BY <1>5, <1>6, <1>11, <2>3, <2>4, <2>5 DEF ToldOK
<1>21. PointOK(g)'
  <2> SUFFICES ASSUME ckpt.pc # "none" PROVE PointOK(g)'
    BY <1>6 DEF PointOK
  <2>1. StampOK(h) /\ OffsetOK(h) /\ ckpt.kind # "save" /\ ckpt.pc \notin {"truncated", "trimmed"}
    BY <1>1 DEF Describes, PointOK, LocksHeld
  <2>2. StampOK(g)'
    <3>1. ckpt.lsn \in 0..n
      <4>1. ckpt.lsn \in Nat /\ ckpt.lsn <= n
        BY <1>3, <2>1 DEF StampOK, TypeOK
      <4> QED BY <1>3, <4>1
    <3>2. ckpt.graph = FirstN(g, ckpt.lsn)
      <4>1. FirstN(g, ckpt.lsn) = FirstN(h, ckpt.lsn)
        BY <1>4, <3>1, Zenon
      <4> QED BY <2>1, <4>1 DEF StampOK
    <3> QED BY <1>3, <1>6, <1>11, <1>16, <2>1, <3>2 DEF StampOK
  <2>3. OffsetOK(g)'
    <3> DEFINE o == ckpt.offset  a == ckpt.lsn
    <3>1. /\ ckpt.epoch = epoch /\ o <= end /\ n - a = end - o
          /\ \A i \in DOMAIN cache : i <= o => cache[i].lsn <= a
          /\ \A i \in DOMAIN cache : i > o => cache[i].lsn = a + (i - o)
      BY <1>1, <2>1 DEF OffsetOK, n
    <3>2. o \in Nat /\ a \in Nat
      BY DEF TypeOK
    <3> HIDE DEF o, a
    <3>3. o <= end + 1 /\ (n + 1) - a = (end + 1) - o /\ o < end + 1 /\ n + 1 = a + ((end + 1) - o)
      BY <1>3, <1>8, <3>1, <3>2
    <3>4. \A i \in 1..(end + 1) : i \in 1..end \/ i = end + 1
      BY <1>8
    <3>5. \A i \in 1..(end + 1) : i <= o => new[i].lsn <= a
      <4>1. \A i \in 1..(end + 1) : i <= o => i \in 1..end
        BY <1>8, <3>1, <3>2
      <4> QED BY <1>8, <1>9, <3>1, <4>1
    <3>6. \A i \in 1..(end + 1) : i > o => new[i].lsn = a + (i - o)
      BY <1>7, <1>8, <1>9, <3>1, <3>3, <3>4
    <3>7. cache' = new /\ DOMAIN cache' = 1..(end + 1) /\ ckpt'.offset = o /\ ckpt'.lsn = a
          /\ ckpt'.epoch = ckpt.epoch /\ epoch' = epoch /\ end' = end + 1 /\ Len(g) = n + 1
      BY <1>4, <1>5, <1>6, <1>9 DEF new, o, a
    <3> QED BY <3>1, <3>3, <3>5, <3>6, <3>7 DEF OffsetOK
  <2>4. LockedOK'
    BY <1>6, <2>1 DEF LockedOK
  <2> QED BY <2>2, <2>3, <2>4 DEF PointOK
<1>22. Describes(g)'
  BY <1>4, <1>17, <1>18, <1>19, <1>20, <1>21 DEF Describes
<1> QED BY <1>10, <1>19, <1>22 DEF g

\* A write that failed is cut out, or poisons the log: the history stands.
LEMMA StageWriteFailsKeeps ==
    ASSUME TypeOK, Plain(scenario), DirectOK, NEW h, Describes(h), Stage, StageWriteFails,
           scenario' = scenario
    PROVE  TypeOK' /\ DirectOK' /\ Describes(h)'
<1> USE DEF process, logFile, ckptFile, told, bounds
<1> DEFINE c == NewCommit
<1>1. ~Staged /\ ~LocksHeld /\ ~diverged /\ ~poisoned /\ attempts < MaxCommits
  BY DEF Stage, GateFree, Staged
<1>2. c \in Commits /\ c \in Nat /\ c = attempts + 1 /\ attempts \in Nat /\ c \in 0..MaxCommits
  BY <1>1, NewCommitIs
<1>3. h \in Seq(Commits) /\ DOMAIN h = 1..Len(h) /\ \A i \in 1..Len(h) : h[i] \in 1..attempts
  BY Numbers
<1> HIDE DEF c
<1>4. end = Len(cache) /\ cache \in Seq(Frame)
  <2>1. ckpt.pc # "truncated"
    BY <1>1 DEF LocksHeld
  <2>2. end = Len(cache)
    BY <1>1, <2>1 DEF Describes, EndOK
  <2> QED BY <2>2, Numbers
<1>5. /\ UNCHANGED <<cache, end, nextLsn, inflight>> /\ platter' \in {cache, platter}
      /\ poisoned' \in BOOLEAN /\ refused' = refused \cup {c}
  <2>1. FirstN(cache, end) = cache
    <3>1. 0 \in 0..Len(cache)
      BY <1>4
    <3>2. Len(cache) \in 0..Len(cache)
      BY <1>4
    <3> QED BY <1>4, <3>1, <3>2, FirstOfFirst
  <2>2. poisoned \in BOOLEAN
    BY DEF TypeOK
  <2>3. UNCHANGED <<cache, end, nextLsn, inflight>> /\ platter' \in {cache, platter}
    BY <2>1 DEF StageWriteFails, CutBackTo
  <2>4. refused' = refused \cup {c}
    BY DEF StageWriteFails, c
  <2>5. poisoned' \in BOOLEAN
    BY <2>2 DEF StageWriteFails
  <2> QED BY <2>3, <2>4, <2>5
<1>6. attempts' = attempts + 1
      /\ UNCHANGED <<mem, diverged, epoch, pending, ckpt, olderLogs, file, olderFiles,
                     acked, stranded, promised, rewrites, crashes>>
  BY DEF Stage
<1>7. TypeOK'
  <2>1. /\ attempts' \in 0..MaxCommits /\ refused' \subseteq Commits
        /\ stranded' \subseteq refused'
    BY <1>2, <1>5, <1>6 DEF TypeOK
  <2>2. cache' \in Seq(Frame) /\ platter' \in Seq(Frame)
    BY <1>5 DEF TypeOK
  <2> QED BY <1>5, <1>6, <2>1, <2>2 DEF TypeOK
<1>8. Settled' = Settled /\ Staged' = Staged
  BY <1>5 DEF Settled, Staged
<1>9. DiskOK(h)'
  BY <1>5, <1>6, <1>8, DiskTypes, DiskWritten DEF Describes
<1>10. OrderOK(h)'
  <2>1. \A i \in DOMAIN h : h[i] <= attempts'
    BY <1>2, <1>3, <1>6
  <2> QED BY <1>1, <1>6, <1>8, <2>1 DEF Describes, OrderOK
<1>11. FlightOK(h)' /\ EndOK' /\ DirectOK'
  BY <1>1, <1>4, <1>5, <1>6, <1>8 DEF FlightOK, EndOK, DirectOK
<1>12. ToldOK(h)'
  <2>1. /\ acked \subseteq Elems(h) /\ (refused \ stranded) \cap Elems(h) = {}
        /\ \A r \in refused : r <= attempts
    BY DEF Describes, ToldOK
  <2>2. c \notin Elems(h)
    BY <1>2, <1>3 DEF Elems
  <2>3. \A r \in refused' : r <= attempts'
    <3>1. refused \subseteq Nat
      BY DEF TypeOK, Commits
    <3> QED BY <1>2, <1>5, <1>6, <2>1, <3>1
  <2>4. Len(h) = Settled
    BY <1>1 DEF Describes, OrderOK
  <2> QED BY <1>1, <1>5, <1>6, <1>8, <2>1, <2>2, <2>3, <2>4 DEF ToldOK
<1>13. PointOK(h)'
  <2> SUFFICES ASSUME ckpt.pc # "none" PROVE PointOK(h)'
    BY <1>6 DEF PointOK
  <2>1. StampOK(h) /\ OffsetOK(h) /\ ckpt.kind # "save" /\ ckpt.pc \notin {"truncated", "trimmed"}
    BY <1>1 DEF Describes, PointOK, LocksHeld
  <2>2. StampOK(h)'
    BY <1>6, <1>8, <2>1 DEF StampOK, Files
  <2>3. OffsetOK(h)'
    BY <1>1, <1>5, <1>6, <1>8, <2>1 DEF OffsetOK
  <2>4. LockedOK'
    BY <1>6, <2>1 DEF LockedOK
  <2> QED BY <2>2, <2>3, <2>4 DEF PointOK
<1> QED BY <1>3, <1>7, <1>9, <1>10, <1>11, <1>12, <1>13 DEF Describes

\* A commit is staged or refused.
LEMMA StageKeeps ==
    ASSUME TypeOK, Plain(scenario), DirectOK, NEW h, Describes(h), Stage, scenario' = scenario
    PROVE  TypeOK' /\ DirectOK' /\ \E g : Describes(g)'
<1>1. CASE StageOk
  <2>1. PICK c : c = NewCommit
    OBVIOUS
  <2>2. TypeOK' /\ DirectOK' /\ Describes(Append(h, c))'
    BY <1>1, <2>1, StageOkKeeps
  <2> QED BY <2>2
<1>2. CASE StageWriteFails
  <2>1. TypeOK' /\ DirectOK' /\ Describes(h)'
    BY <1>2, StageWriteFailsKeeps
  <2> QED BY <2>1
<1>3. CASE StageCloneFails
  BY <1>3 DEF StageCloneFails, CanFail, Plain
<1> QED BY <1>1, <1>2, <1>3 DEF Stage

\* Publishing settles the commit that was in flight.
LEMMA PublishKeeps ==
    ASSUME TypeOK, Plain(scenario), DirectOK, NEW h, Describes(h), Publish, scenario' = scenario
    PROVE  TypeOK' /\ DirectOK' /\ Describes(h)'
<1> USE DEF process, logFile, ckptFile, told, bounds
<1> DEFINE n == Len(h)  c == inflight.commit
<1>1. /\ Staged /\ platter' \in {cache, platter} /\ mem' = Append(mem, c) /\ acked' = acked \cup {c}
      /\ promised' \in {promised, promised \cup {c}} /\ inflight' = Idle
      /\ UNCHANGED <<nextLsn, diverged, end, epoch, poisoned, pending, ckpt, cache,
                     olderLogs, file, olderFiles, refused, stranded, attempts, rewrites,
                     crashes>>
  BY DEF Publish, Staged
<1>2. /\ ~poisoned /\ n = Settled + 1 /\ h[n] = c /\ n \in Nat /\ Settled \in Nat /\ n \in 1..n
      /\ h \in Seq(Commits) /\ DOMAIN h = 1..n /\ c \in Commits
  <2>1. ~poisoned /\ n = Settled + 1 /\ h[n] = c
    BY <1>1 DEF Describes, FlightOK
  <2>2. n \in Nat /\ Settled \in Nat /\ h \in Seq(Commits) /\ DOMAIN h = 1..n
    BY Numbers
  <2> HIDE DEF n
  <2>3. n \in 1..n
    BY <2>1, <2>2
  <2>4. h[n] \in Commits
    BY <2>2, <2>3
  <2> QED BY <2>1, <2>2, <2>3, <2>4
<1>3. ~Staged' /\ Settled' = n
  <2>1. ~Staged'
    BY <1>1 DEF Staged, Idle
  <2>2. nextLsn = Settled + 2 /\ nextLsn' = nextLsn
    BY <1>1, Numbers
  <2>3. Settled' = nextLsn' - 1
    BY <2>1 DEF Settled
  <2> HIDE DEF n
  <2> QED BY <1>2, <2>1, <2>2, <2>3
<1> HIDE DEF n, c
<1>4. TypeOK'
  <2>1. mem' \in Seq(Commits) /\ acked' \subseteq Commits /\ promised' \subseteq Commits
    BY <1>1, <1>2, SMTT(30) DEF TypeOK
  <2>2. inflight' \in [pc : {"none", "staged"}, commit : 0 .. MaxCommits, lsn : Nat, prevEnd : Nat]
    BY <1>1, DurableLogAssumption DEF Idle
  <2>3. platter' \in Seq(Frame)
    BY <1>1 DEF TypeOK
  <2> QED BY <1>1, <2>1, <2>2, <2>3 DEF TypeOK
<1>5. DiskOK(h)'
  BY <1>1, <1>2, <1>3, DiskWritten DEF Describes
<1>6. OrderOK(h)'
  <2>1. ~diverged => mem' = FirstN(h, n)
    <3> SUFFICES ASSUME ~diverged PROVE mem' = FirstN(h, n)
      OBVIOUS
    <3>1. mem = FirstN(h, Settled) /\ Settled \in 0..Len(h)
      BY Numbers DEF Describes, OrderOK
    <3>2. mem \in Seq(Commits) /\ Len(mem) = Settled /\ \A i \in 1..Settled : mem[i] = h[i]
      BY <1>2, <3>1, First
    <3>3. mem' \in Seq(Commits) /\ Len(mem') = n /\ \A i \in 1..Settled : mem'[i] = mem[i]
      BY <1>1, <1>2, <3>2, AppendFirst
    <3>4. mem'[Settled + 1] = c
      BY <1>1, <1>2, <3>2, AppendFirst
    <3>5. \A i \in 1..n : mem'[i] = h[i]
      BY <1>2, <3>2, <3>3, <3>4
    <3>6. n \in 0..Len(h)
      BY <1>2 DEF n
    <3> QED BY <1>2, <3>3, <3>5, <3>6, FirstIs
  <2> QED BY <1>1, <1>2, <1>3, <2>1 DEF Describes, OrderOK, n
<1>7. FlightOK(h)' /\ EndOK' /\ DirectOK'
  BY <1>1, <1>3 DEF Describes, FlightOK, EndOK, DirectOK
<1>8. ToldOK(h)'
  <2>1. c \in Elems(h)
    BY <1>2 DEF Elems
  <2> QED BY <1>1, <1>3, <2>1 DEF Describes, ToldOK, n
<1>9. PointOK(h)'
  <2> SUFFICES ASSUME ckpt.pc # "none" PROVE PointOK(h)'
    BY <1>1 DEF PointOK
  <2>1. StampOK(h) /\ OffsetOK(h) /\ LockedOK
    BY DEF Describes, PointOK
  <2>2. StampOK(h)'
    <3>1. ckpt.lsn <= Settled /\ ckpt.lsn \in Nat
      BY <2>1 DEF StampOK, TypeOK
    <3>2. ckpt.lsn <= Settled'
      BY <1>2, <1>3, <3>1
    <3> QED BY <1>1, <2>1, <3>2 DEF StampOK, Files
  <2>3. OffsetOK(h)'
    BY <1>1, <1>3, <2>1 DEF OffsetOK
  <2>4. LockedOK'
    BY <1>1, <1>3, <2>1 DEF LockedOK
  <2> QED BY <2>2, <2>3, <2>4 DEF PointOK
<1> QED BY <1>2, <1>4, <1>5, <1>6, <1>7, <1>8, <1>9 DEF Describes

\* A commit whose barrier failed is cut back out: the history loses its last.
LEMMA BarrierFailsCut ==
    ASSUME TypeOK, Plain(scenario), DirectOK, NEW h, Describes(h), scenario' = scenario,
           Staged, Full, CutBackTo(inflight.prevEnd),
           refused' = refused \cup {inflight.commit},
           end' = inflight.prevEnd, nextLsn' = inflight.lsn, inflight' = Idle,
           UNCHANGED <<poisoned, stranded, mem, diverged, epoch, pending, ckpt, olderLogs, file,
                       olderFiles, acked, promised, attempts, rewrites, crashes>>
    PROVE  TypeOK' /\ DirectOK' /\ Describes(FirstN(h, Len(h) - 1))'
<1> DEFINE n == Len(h)  c == inflight.commit  g == FirstN(h, n - 1)  cut == FirstN(cache, end - 1)
<1>1. /\ ~poisoned /\ end > 0 /\ cache[end].lsn = n /\ n = Settled + 1
      /\ inflight.lsn = n /\ inflight.prevEnd = end - 1 /\ h[n] = c
  BY DEF Describes, FlightOK
<1>2. /\ h \in Seq(Commits) /\ n \in Nat /\ Settled \in Nat /\ DOMAIN h = 1..n /\ n - 1 = Settled
      /\ n - 1 \in 0..n /\ n \in 1..n /\ c \in Commits /\ n > 0
  <2>1. n \in Nat /\ Settled \in Nat /\ h \in Seq(Commits) /\ DOMAIN h = 1..n
    BY Numbers
  <2> HIDE DEF n, g
  <2>2. n \in 1..n /\ n - 1 = Settled /\ n - 1 \in 0..n /\ n > 0
    BY <1>1, <2>1
  <2>3. h[n] \in Commits
    BY <2>1, <2>2
  <2> QED BY <1>1, <2>1, <2>2, <2>3
<1>3. /\ end = Len(cache) /\ cache \in Seq(Frame) /\ end \in Nat /\ DOMAIN cache = 1..end
      /\ end - 1 \in 0..Len(cache) /\ end \in 1..end
  <2>1. ckpt.pc # "truncated"
    BY DEF Describes, PointOK, LockedOK
  <2>2. end = Len(cache)
    BY <1>1, <2>1 DEF Describes, EndOK
  <2>3. cache \in Seq(Frame) /\ end \in Nat /\ DOMAIN cache = 1..end
    BY <2>2, Numbers
  <2>4. end - 1 \in 0..end /\ end \in 1..end
    BY <1>1, <2>3
  <2> QED BY <2>2, <2>3, <2>4
<1>4. cache' = cut /\ platter' = cut /\ end' = end - 1 /\ nextLsn' = n
  BY <1>1 DEF CutBackTo
<1>5. g \in Seq(Commits) /\ Len(g) = n - 1 /\ DOMAIN g = 1..(n - 1) /\ \A i \in 1..(n - 1) : g[i] = h[i]
  <2>1. h \in Seq(Commits) /\ n - 1 \in 0..Len(h)
    BY <1>2
  <2> QED BY <2>1, First
<1>6. /\ cut \in Seq(Frame) /\ Len(cut) = end - 1 /\ DOMAIN cut = 1..(end - 1)
      /\ \A i \in 1..(end - 1) : cut[i] = cache[i]
  <2>1. cache \in Seq(Frame) /\ end - 1 \in 0..Len(cache)
    BY <1>3
  <2> QED BY <2>1, First
<1> HIDE DEF n, c, cut
<1>7. \A i \in 0..(n - 1) : FirstN(g, i) = FirstN(h, i)
  BY <1>2, FirstOfFirst DEF n
<1>8. Elems(h) = Elems(g) \cup {c} /\ c \notin Elems(g)
  <2>1. \A i \in 1..n : i \in 1..(n - 1) \/ i = n
    BY <1>2
  <2>2. \A i \in 1..(n - 1) : i \in 1..n /\ i # n
    BY <1>2
  <2>3. \A i, j \in 1..n : h[i] = h[j] => i = j
    BY <1>2 DEF Describes, OrderOK
  <2> HIDE DEF g
  <2>4. c \notin Elems(g)
    BY <1>1, <1>2, <1>5, <2>2, <2>3 DEF Elems
  <2>5. Elems(h) = Elems(g) \cup {c}
    BY <1>1, <1>2, <1>5, <2>1, <2>2 DEF Elems
  <2> QED BY <2>4, <2>5
<1>9. ~Staged' /\ Settled' = n - 1
  <2>1. ~Staged'
    BY DEF Staged, Idle
  <2> QED BY <1>4, <2>1 DEF Settled
<1>10. TypeOK'
  <2>1. inflight' \in [pc : {"none", "staged"}, commit : 0 .. MaxCommits, lsn : Nat, prevEnd : Nat]
    BY DurableLogAssumption DEF Idle
  <2>2. nextLsn' \in Nat \ {0} /\ end' \in Nat
    BY <1>1, <1>2, <1>3, <1>4
  <2>3. refused' \subseteq Commits /\ stranded' \subseteq refused'
    BY <1>2 DEF TypeOK, c
  <2>4. cache' \in Seq(Frame) /\ platter' \in Seq(Frame)
    BY <1>4, <1>6
  <2> QED BY <2>1, <2>2, <2>3, <2>4 DEF TypeOK
<1>11. \A f \in Files : /\ f \in File /\ f.lsn \in Nat /\ f.lsn <= n - 1
                        /\ FileFits(f, h) /\ Continues(cache, f)
  BY <1>2, DiskTypes DEF Describes, DiskOK
<1>12. LogFits(cache, h)
  BY Numbers
<1>13. LogFits(cut, g) /\ \A f \in Files : Continues(cut, f)
  <2>1. LogFits(cut, h) /\ \A f \in File : Continues(cache, f) => Continues(cut, f)
    BY <1>2, <1>3, <1>12, PrefixFits DEF cut
  <2>2. \A i \in 1..(end - 1) : cut[i].lsn <= n - 1
    <3>1. \A i \in 1..(end - 1) : i \in 1..end /\ i < end
      BY <1>3
    <3>2. \A i \in 1..(end - 1) : cache[i].lsn < n /\ cache[i].lsn \in Nat
      BY <1>1, <1>3, <1>12, <3>1, FrameTypes DEF LogFits
    <3> QED BY <1>2, <1>6, <3>2
  <2>3. LogFits(cut, g)
    BY <1>2, <1>6, <2>1, <2>2, ShorterHistory DEF n
  <2> QED BY <1>11, <2>1, <2>3
<1>14. \A f \in Files : FileFits(f, g)
  BY <1>2, <1>11, ShorterHistory DEF n
<1> HIDE DEF g
<1>15. ASSUME NEW f \in Files
       PROVE  LastLsn(f, cut) = n - 1
  <2>1. f \in File /\ f.lsn \in Nat /\ f.lsn <= n - 1 /\ FileFits(f, g) /\ Continues(cache, f)
    BY <1>11, <1>14
  <2>2. /\ LastLsn(f, cut) \in 0..(n - 1) /\ f.lsn <= LastLsn(f, cut)
        /\ \A i \in DOMAIN cut : cut[i].lsn <= LastLsn(f, cut)
    BY <1>5, <1>6, <1>13, <2>1, LastIs
  <2>3. n > f.lsn
    BY <1>2, <2>1
  <2>4. cache[end].lsn = f.lsn + 1 \/ (end > 1 /\ cache[end - 1].lsn = cache[end].lsn - 1)
    BY <1>1, <1>3, <2>1, <2>3 DEF Continues
  <2>5. CASE cache[end].lsn = f.lsn + 1
    BY <1>1, <1>2, <2>1, <2>2, <2>5
  <2>6. CASE end > 1 /\ cache[end - 1].lsn = cache[end].lsn - 1
    <3>1. end - 1 \in DOMAIN cut /\ end - 1 \in 1..(end - 1)
      BY <1>3, <1>6, <2>6
    <3>2. cut[end - 1].lsn = n - 1
      BY <1>1, <1>6, <2>6, <3>1
    <3> QED BY <1>2, <2>2, <3>1, <3>2
  <2> QED BY <2>4, <2>5, <2>6
<1>16. Files' = Files /\ OlderLogs' = OlderLogs /\ Logs' = {cut} \cup OlderLogs
  <2>1. Here'.cache = cut /\ Here'.platter = cut
    BY <1>4 DEF Here
  <2> QED BY <2>1 DEF Files, OlderLogs, Logs, Pairs
<1>17. DiskOK(g)'
  <2>1. \A log \in OlderLogs : log \in Seq(Frame) /\ LogFits(log, h) /\ \A i \in DOMAIN log : log[i].lsn <= n - 1
    BY <1>2, DiskTypes DEF Describes, DiskOK
  <2>2. \A log \in OlderLogs : LogFits(log, g)
    BY <1>2, <2>1, ShorterHistory DEF g, n
  <2>3. \A log \in Logs' : LogFits(log, g)
    BY <1>13, <1>16, <2>2
  <2>4. \A log \in Logs', f \in Files' : Continues(log, f)
    BY <1>13, <1>16, DiskTypes DEF Describes, DiskOK
  <2>5. \A f \in Files' : LastLsn(f, cache)' = Len(g)
    <3>1. \A f \in Files' : LastLsn(f, cache)' = LastLsn(f, cut)
      BY <1>4 DEF LastLsn
    <3> QED BY <1>5, <1>15, <1>16, <3>1
  <2>6. \A f \in Files' : FileFits(f, g) /\ f.lsn <= Settled'
    BY <1>9, <1>11, <1>14, <1>16
  <2>7. \A log \in OlderLogs' : \A i \in DOMAIN log : log[i].lsn <= Settled'
    BY <1>9, <1>16, <2>1
  <2> QED BY <2>3, <2>4, <2>5, <2>6, <2>7 DEF DiskOK
<1>18. OrderOK(g)'
  <2>1. \A i \in 1..(n - 1) : i \in 1..n
    BY <1>2
  <2>2. (\A i, j \in DOMAIN g : g[i] = g[j] => i = j) /\ \A i \in DOMAIN g : g[i] <= attempts'
    BY <1>2, <1>5, <2>1 DEF Describes, OrderOK
  <2>3. ~diverged => mem' = FirstN(g, Settled')
    <3>1. n - 1 \in 0..(n - 1)
      BY <1>2
    <3>2. ~diverged => mem = FirstN(h, n - 1)
      BY <1>2 DEF Describes, OrderOK
    <3> QED BY <1>7, <1>9, <3>1, <3>2
  <2> QED BY <1>5, <1>9, <2>2, <2>3 DEF OrderOK
<1>19. FlightOK(g)' /\ EndOK' /\ DirectOK'
  BY <1>4, <1>6, <1>9 DEF FlightOK, EndOK, DirectOK
<1>20. ToldOK(g)'
  <2>1. /\ acked \subseteq Elems(h) /\ (refused \ stranded) \cap Elems(h) = {} /\ c \notin acked
        /\ \A r \in refused : r <= attempts
    BY DEF Describes, ToldOK, c
  <2>2. c <= attempts
    BY <1>1, <1>2 DEF Describes, OrderOK
  <2>3. /\ refused' = refused \cup {c} /\ stranded' = stranded
        /\ acked' = acked /\ attempts' = attempts
    BY DEF c
  <2>4. acked' \subseteq Elems(g) /\ (refused \ stranded)' \cap Elems(g) = {}
    BY <1>8, <2>1, <2>3
  <2> QED BY <1>5, <1>9, <2>1, <2>2, <2>3, <2>4 DEF ToldOK
<1>21. PointOK(g)'
  <2> SUFFICES ASSUME ckpt.pc # "none" PROVE PointOK(g)'
    BY DEF PointOK
  <2>1. StampOK(h) /\ OffsetOK(h) /\ LockedOK
    BY DEF Describes, PointOK
  <2>2. ckpt.kind # "save" /\ ckpt.pc \notin {"truncated", "trimmed"}
    BY <2>1 DEF LockedOK
  <2>3. StampOK(g)'
    <3>1. ckpt.lsn <= n - 1 /\ ckpt.lsn \in Nat /\ ckpt.graph = FirstN(h, ckpt.lsn)
      BY <1>2, <2>1 DEF StampOK, TypeOK
    <3>2. ckpt.lsn \in 0..(n - 1)
      BY <1>2, <3>1
    <3>3. ckpt.graph = FirstN(g, ckpt.lsn)
      BY <1>7, <3>1, <3>2
    <3> QED BY <1>9, <1>16, <2>1, <3>1, <3>3 DEF StampOK
  <2>4. OffsetOK(g)'
    <3> DEFINE o == ckpt.offset  a == ckpt.lsn
    <3>1. /\ ckpt.epoch = epoch /\ o < end /\ n - a = end - o
          /\ \A i \in DOMAIN cache : i <= o => cache[i].lsn <= a
          /\ \A i \in DOMAIN cache : i > o => cache[i].lsn = a + (i - o)
      BY <1>1, <2>1, <2>2 DEF OffsetOK, n
    <3>2. o \in Nat /\ a \in Nat
      BY DEF TypeOK
    <3>3. ckpt'.offset = o /\ ckpt'.lsn = a /\ ckpt'.epoch = epoch'
      BY <3>1
    <3> HIDE DEF o, a
    <3>4. o <= end - 1 /\ (n - 1) - a = (end - 1) - o
      BY <1>2, <1>3, <3>1, <3>2
    <3>5. \A i \in 1..(end - 1) : i \in 1..end
      BY <1>3
    <3>6. /\ \A i \in 1..(end - 1) : i <= o => cut[i].lsn <= a
          /\ \A i \in 1..(end - 1) : i > o => cut[i].lsn = a + (i - o)
      BY <1>3, <1>6, <3>1, <3>5
    <3> QED BY <1>4, <1>5, <1>6, <1>9, <3>3, <3>4, <3>6 DEF OffsetOK
  <2>5. LockedOK'
    BY <2>2 DEF LockedOK
  <2> QED BY <2>3, <2>4, <2>5 DEF PointOK
<1>22. Describes(g)'
  BY <1>5, <1>17, <1>18, <1>19, <1>20, <1>21 DEF Describes
<1> QED BY <1>10, <1>19, <1>22 DEF g, n

\* If the cut fails too the frame stays, at the end of a log that takes no more.
LEMMA BarrierFailsUncut ==
    ASSUME TypeOK, Plain(scenario), DirectOK, NEW h, Describes(h), scenario' = scenario,
           Staged, poisoned' = TRUE,
           refused' = refused \cup {inflight.commit}, stranded' = stranded \cup {inflight.commit},
           end' = inflight.prevEnd, nextLsn' = inflight.lsn, inflight' = Idle,
           UNCHANGED <<cache, platter, mem, diverged, epoch, pending, ckpt, olderLogs,
                       file, olderFiles, acked, promised, attempts, rewrites, crashes>>
    PROVE  TypeOK' /\ DirectOK' /\ Describes(h)'
<1>1. /\ Len(h) = Settled + 1 /\ inflight.lsn = Len(h)
      /\ h[Len(h)] = inflight.commit
  BY DEF Describes, FlightOK
<1>2. h \in Seq(Commits) /\ Len(h) \in Nat /\ Settled \in Nat
  BY Numbers
<1>3. ~Staged' /\ Settled' = Settled /\ nextLsn' = Settled + 1
  <2>1. ~Staged'
    BY DEF Staged, Idle
  <2>2. Settled' = nextLsn' - 1
    BY <2>1 DEF Settled
  <2> QED BY <1>1, <1>2, <2>1, <2>2
<1>4. TypeOK'
  <2>1. inflight' \in [pc : {"none", "staged"}, commit : 0 .. MaxCommits, lsn : Nat, prevEnd : Nat]
    BY DurableLogAssumption DEF Idle
  <2>2. nextLsn' \in Nat \ {0} /\ end' \in Nat
    BY <1>2, <1>3 DEF TypeOK
  <2>3. refused' \subseteq Commits /\ stranded' \subseteq refused'
    BY <1>1, <1>2 DEF TypeOK
  <2> QED BY <2>1, <2>2, <2>3 DEF TypeOK
<1>5. DiskOK(h)'
  BY <1>2, <1>3, DiskAlone DEF Describes
<1>6. OrderOK(h)'
  BY <1>3 DEF Describes, OrderOK
<1>7. FlightOK(h)' /\ EndOK' /\ DirectOK'
  BY <1>3 DEF Describes, FlightOK, EndOK, DirectOK
<1>9. ToldOK(h)'
  <2>1. (refused \ stranded)' = (refused \ stranded) \ {inflight.commit}
    OBVIOUS
  <2>2. inflight.commit <= attempts
    BY <1>1, <1>2, Numbers
  <2> QED BY <1>1, <1>3, <2>1, <2>2 DEF Describes, ToldOK
<1>8. PointOK(h)'
  <2> SUFFICES ASSUME ckpt.pc # "none" PROVE PointOK(h)'
    BY DEF PointOK
  <2>1. StampOK(h) /\ LockedOK
    BY DEF Describes, PointOK
  <2>2. StampOK(h)'
    BY <1>3, <2>1 DEF StampOK, Files
  <2>3. OffsetOK(h)' /\ LockedOK'
    BY <2>1 DEF OffsetOK, LockedOK
  <2> QED BY <2>2, <2>3 DEF PointOK
<1> QED BY <1>2, <1>4, <1>5, <1>6, <1>7, <1>8, <1>9 DEF Describes

\* Either way a failed barrier leaves a history.
LEMMA BarrierFailsKeeps ==
    ASSUME TypeOK, Plain(scenario), DirectOK, NEW h, Describes(h), BarrierFails, scenario' = scenario
    PROVE  TypeOK' /\ DirectOK' /\ \E g : Describes(g)'
<1> USE DEF process, logFile, ckptFile, told, bounds
<1>1. CASE CutBackTo(inflight.prevEnd) /\ UNCHANGED <<poisoned, stranded>>
  <2>1. TypeOK' /\ DirectOK' /\ Describes(FirstN(h, Len(h) - 1))'
    BY <1>1, BarrierFailsCut DEF BarrierFails, Staged
  <2> QED BY <2>1
<1>2. CASE /\ poisoned' = TRUE /\ stranded' = stranded \cup {inflight.commit}
            /\ UNCHANGED <<cache, platter>>
  <2>1. TypeOK' /\ DirectOK' /\ Describes(h)'
    BY <1>2, BarrierFailsUncut DEF BarrierFails, Staged
  <2> QED BY <2>1
<1> QED BY <1>1, <1>2 DEF BarrierFails

-----------------------------------------------------------------------------
(* Crashes.                                                                *)

\* A process crash keeps the page cache, and the replay gives the history.
LEMMA ProcessCrashKeeps ==
    ASSUME TypeOK, Plain(scenario), DirectOK, NEW h, Describes(h), ProcessCrash, scenario' = scenario
    PROVE  TypeOK' /\ DirectOK' /\ Describes(h)'
<1> USE DEF process, logFile, ckptFile, told, bounds
<1> DEFINE n == Len(h)
<1>1. /\ mem' = Recovered(file, cache) /\ nextLsn' = LastLsn(file, cache) + 1 /\ diverged' = FALSE
      /\ poisoned' = FALSE /\ end' = Len(cache) /\ epoch' = 0 /\ inflight' = Idle /\ pending' = {}
      /\ ckpt' = NoCheckpoint /\ crashes < MaxCrashes /\ crashes' = crashes + 1
      /\ UNCHANGED <<cache, platter, olderLogs, file, olderFiles, acked, refused, stranded, promised,
                     attempts, rewrites>>
  BY DEF ProcessCrash, Reopen
<1>2. /\ h \in Seq(Commits) /\ n \in Nat /\ Settled \in Nat /\ Settled <= n /\ LastLsn(file, cache) = n
      /\ cache \in Seq(Frame) /\ Len(cache) \in Nat
  <2>1. Settled \in 0..n /\ n \in Nat
    BY Numbers
  <2> HIDE DEF n
  <2>2. Settled <= n
    BY <2>1
  <2> QED BY <2>2, Numbers DEF n
<1>3. Recovered(file, cache) = h
  <2>1. Continues(cache, file) /\ file \in File
    BY DiskTypes DEF Describes, DiskOK
  <2>2. Recovered(file, cache) = FirstN(h, n)
    BY <1>2, <2>1, Numbers, RecoveredIs
  <2>3. 0 \in 0..Len(h) /\ Len(h) \in 0..Len(h)
    BY <1>2
  <2>4. FirstN(h, Len(h)) = h
    BY <1>2, <2>3, FirstOfFirst
  <2> QED BY <2>2, <2>4
<1>4. ~Staged' /\ Settled' = n
  <2>1. ~Staged'
    BY <1>1 DEF Staged, Idle
  <2>2. Settled' = nextLsn' - 1 /\ nextLsn' = n + 1
    BY <1>1, <1>2, <2>1 DEF Settled
  <2> HIDE DEF n
  <2> QED BY <1>2, <2>1, <2>2
<1> HIDE DEF n
<1>5. TypeOK'
  <2>1. inflight' \in [pc : {"none", "staged"}, commit : 0 .. MaxCommits, lsn : Nat, prevEnd : Nat]
    BY <1>1, DurableLogAssumption DEF Idle
  <2>2. nextLsn' \in Nat \ {0} /\ end' \in Nat
    BY <1>1, <1>2
  <2>3. ckpt' \in [pc : {"none", "barrier", "write", "renamed", "synced", "truncated", "trimmed"},
                   kind : {"save", "online"}, lsn : Nat, graph : Seq(Commits),
                   offset : Nat, epoch : Nat]
    <3>1. <<>> \in Seq(Commits)
      OBVIOUS
    <3> QED BY <1>1, <3>1 DEF NoCheckpoint
  <2>4. crashes' \in 0..MaxCrashes
    <3>1. crashes \in Nat /\ MaxCrashes \in Nat
      BY DurableLogAssumption DEF TypeOK
    <3> QED BY <1>1, <3>1
  <2>5. mem' \in Seq(Commits)
    BY <1>1, <1>2, <1>3
  <2> QED BY <1>1, <2>1, <2>2, <2>3, <2>4, <2>5 DEF TypeOK
<1>6. DiskOK(h)'
  BY <1>1, <1>2, <1>4, DiskAlone DEF Describes
<1>7. OrderOK(h)'
  <2>1. mem' = FirstN(h, n)
    <3>1. 0 \in 0..Len(h) /\ Len(h) \in 0..Len(h)
      BY <1>2 DEF n
    <3>2. FirstN(h, Len(h)) = h
      BY <1>2, <3>1, FirstOfFirst
    <3> QED BY <1>1, <1>3, <3>2 DEF n
  <2> QED BY <1>1, <1>4, <2>1 DEF Describes, OrderOK, n
<1>8. FlightOK(h)' /\ EndOK' /\ DirectOK' /\ ToldOK(h)'
  BY <1>1, <1>4 DEF Describes, FlightOK, EndOK, DirectOK, ToldOK, n
<1>9. PointOK(h)'
  BY <1>1 DEF PointOK, NoCheckpoint
<1> QED BY <1>2, <1>5, <1>6, <1>7, <1>8, <1>9 DEF Describes

\* What a power loss may leave of the logs is a prefix of one of them.
LEMMA LeftOver ==
    ASSUME TypeOK, NEW log \in LogsAfterPowerLoss
    PROVE  \E s \in Logs : \E n \in 0..Len(s) : log = FirstN(s, n)
<1>1. PICK o \in Pairs : log \in Survivors(o.platter, o.cache)
  <2>1. CASE log \in Survivors(platter, cache)
    <3>1. Here \in Pairs /\ Here.cache = cache /\ Here.platter = platter
      BY DEF Pairs, Here
    <3> QED BY <2>1, <3>1
  <2>2. CASE log \in UNION {Survivors(o.platter, o.cache) : o \in olderLogs}
    BY <2>2 DEF Pairs
  <2> QED BY <2>1, <2>2 DEF LogsAfterPowerLoss
<1>2. o.platter \in Logs /\ o.cache \in Logs
  BY <1>1 DEF Logs
<1>3. o.platter \in Seq(Frame) /\ o.cache \in Seq(Frame)
  BY <1>2, DiskTypes
<1>4. \E s \in {o.platter, o.cache} : \E n \in 0..Len(s) : log = FirstN(s, n)
  BY <1>1, <1>3, SurvivorIs
<1> QED BY <1>2, <1>4

\* What an open makes of any log and any file a crash may leave.
LEMMA AnyRecovery ==
    ASSUME TypeOK, NEW h, Describes(h), NEW log \in LogsAfterPowerLoss \cup {cache},
           NEW f \in FilesAfterPowerLoss
    PROVE  /\ log \in Seq(Frame) /\ f \in File /\ f \in Files
           /\ LogFits(log, h) /\ FileFits(f, h) /\ Continues(log, f)
           /\ LastLsn(f, log) \in 0..Len(h)
           /\ Recovered(f, log) = FirstN(h, LastLsn(f, log))
<1>1. f \in Files /\ f \in File /\ FileFits(f, h)
  <2>1. f \in Files
    BY DEF FilesAfterPowerLoss, Files
  <2> QED BY <2>1, DiskTypes DEF Describes, DiskOK
<1>2. PICK s \in Logs : \E n \in 0..Len(s) : log = FirstN(s, n)
  <2>1. CASE log = cache
    <3>1. cache \in Logs /\ cache \in Seq(Frame)
      BY DiskTypes
    <3>2. 0 \in 0..Len(cache) /\ Len(cache) \in 0..Len(cache)
      BY <3>1
    <3>3. FirstN(cache, Len(cache)) = cache
      BY <3>1, <3>2, FirstOfFirst
    <3> QED BY <2>1, <3>1, <3>2, <3>3
  <2> QED BY <2>1, LeftOver
<1>3. PICK n \in 0..Len(s) : log = FirstN(s, n)
  BY <1>2
<1>4. s \in Seq(Frame) /\ LogFits(s, h) /\ Continues(s, f) /\ h \in Seq(Commits)
  BY <1>1, DiskTypes DEF Describes, DiskOK
<1>5. log \in Seq(Frame) /\ LogFits(log, h) /\ Continues(log, f)
  BY <1>1, <1>3, <1>4, PrefixFits
<1>6. LastLsn(f, log) \in 0..Len(h) /\ Recovered(f, log) = FirstN(h, LastLsn(f, log))
  BY <1>1, <1>4, <1>5, LastIs, RecoveredIs
<1> QED BY <1>1, <1>5, <1>6

\* A power loss leaves a shorter history, and everything describes it.
LEMMA PowerLossLeaves ==
    ASSUME TypeOK, Plain(scenario), DirectOK, NEW h, Describes(h), scenario' = scenario,
           NEW log \in LogsAfterPowerLoss, NEW f \in FilesAfterPowerLoss,
           Reopen(f, log), cache' = log, platter' = log, file' = f,
           acked' = acked \cap Elems(Recovered(f, log)),
           olderLogs' = {}, olderFiles' = {}, crashes < MaxCrashes, crashes' = crashes + 1,
           UNCHANGED <<refused, stranded, promised, attempts, rewrites>>
    PROVE  TypeOK' /\ DirectOK' /\ Describes(FirstN(h, LastLsn(f, log)))'
<1> DEFINE n == LastLsn(f, log)  g == FirstN(h, n)
<1>1. /\ log \in Seq(Frame) /\ f \in File /\ f \in Files
      /\ LogFits(log, h) /\ FileFits(f, h) /\ Continues(log, f)
      /\ n \in 0..Len(h) /\ Recovered(f, log) = g
  BY AnyRecovery
<1>2. h \in Seq(Commits) /\ DOMAIN h = 1..Len(h) /\ Len(h) \in Nat
  BY Numbers
<1>3. g \in Seq(Commits) /\ Len(g) = n /\ DOMAIN g = 1..n /\ \A i \in 1..n : g[i] = h[i]
  <2> HIDE DEF n
  <2>1. n \in 0..Len(h) /\ h \in Seq(Commits)
    BY <1>1, <1>2
  <2> QED BY <2>1, First
<1>4. Elems(g) \subseteq Elems(h) /\ g = FirstN(g, n)
  <2>1. 0 \in 0..Len(h) /\ Len(h) \in 0..Len(h) /\ n \in 0..n
    <3> HIDE DEF n, g
    <3> QED BY <1>1, <1>2
  <2>2. Elems(g) \subseteq Elems(h)
    BY <1>1, <1>2, <2>1, FirstElems
  <2>3. FirstN(g, n) = g
    BY <1>1, <1>2, <2>1, FirstOfFirst
  <2> QED BY <2>2, <2>3
<1>5. f.lsn <= n /\ \A i \in DOMAIN log : log[i].lsn <= n
  BY <1>1, <1>2, LastIs
<1>6. LogFits(log, g) /\ FileFits(f, g)
  BY <1>1, <1>2, <1>5, ShorterHistory
<1> HIDE DEF n, g
<1>7. /\ mem' = g /\ nextLsn' = n + 1 /\ diverged' = FALSE /\ poisoned' = FALSE /\ end' = Len(log)
      /\ epoch' = 0 /\ inflight' = Idle /\ pending' = {} /\ ckpt' = NoCheckpoint
      /\ acked' = acked \cap Elems(g)
  BY <1>1 DEF Reopen, n
<1>8. n \in Nat
  BY <1>1, <1>2
<1>9. ~Staged' /\ Settled' = n
  <2>1. ~Staged'
    BY <1>7 DEF Staged, Idle
  <2> QED BY <1>7, <1>8, <2>1 DEF Settled
<1>10. TypeOK'
  <2>1. inflight' \in [pc : {"none", "staged"}, commit : 0 .. MaxCommits, lsn : Nat, prevEnd : Nat]
    BY <1>7, DurableLogAssumption DEF Idle
  <2>2. nextLsn' \in Nat \ {0} /\ end' \in Nat
    BY <1>1, <1>7, <1>8
  <2>3. ckpt' \in [pc : {"none", "barrier", "write", "renamed", "synced", "truncated", "trimmed"},
                   kind : {"save", "online"}, lsn : Nat, graph : Seq(Commits),
                   offset : Nat, epoch : Nat]
    <3>1. <<>> \in Seq(Commits)
      OBVIOUS
    <3> QED BY <1>7, <3>1 DEF NoCheckpoint
  <2>4. crashes' \in 0..MaxCrashes
    <3>1. crashes \in Nat /\ MaxCrashes \in Nat
      BY DurableLogAssumption DEF TypeOK
    <3> QED BY <3>1
  <2>5. mem' \in Seq(Commits) /\ acked' \subseteq Commits
    BY <1>3, <1>7 DEF TypeOK
  <2> QED BY <1>1, <1>7, <2>1, <2>2, <2>3, <2>4, <2>5 DEF TypeOK
<1>11. DiskOK(g)'
  <2>1. Files' = {f} /\ OlderLogs' = {} /\ Logs' = {log}
    <3>1. Here'.cache = log /\ Here'.platter = log
      BY DEF Here
    <3> QED BY <3>1 DEF Files, OlderLogs, Logs, Pairs
  <2>2. LastLsn(f, cache)' = n
    BY DEF LastLsn, n
  <2> QED BY <1>1, <1>3, <1>5, <1>6, <1>9, <2>1, <2>2 DEF DiskOK
<1>12. OrderOK(g)'
  <2>1. \A i \in 1..n : i \in 1..Len(h)
    BY <1>1, <1>2
  <2>2. (\A i, j \in DOMAIN g : g[i] = g[j] => i = j) /\ \A i \in DOMAIN g : g[i] <= attempts'
    BY <1>2, <1>3, <2>1 DEF Describes, OrderOK
  <2> QED BY <1>3, <1>4, <1>7, <1>9, <2>2 DEF OrderOK
<1>13. FlightOK(g)' /\ EndOK' /\ DirectOK'
  BY <1>7, <1>9 DEF FlightOK, EndOK, DirectOK
<1>14. ToldOK(g)'
  <2>1. /\ acked \subseteq Elems(h) /\ (refused \ stranded) \cap Elems(h) = {}
        /\ \A r \in refused : r <= attempts
    BY DEF Describes, ToldOK
  <2>2. acked' \subseteq Elems(g) /\ (refused \ stranded)' \cap Elems(g) = {}
    BY <1>4, <1>7, <2>1
  <2>3. ~Staged' /\ Len(g) = Settled'
    BY <1>3, <1>9
  <2> QED BY <2>1, <2>2, <2>3 DEF ToldOK
<1>15. PointOK(g)'
  BY <1>7 DEF PointOK, NoCheckpoint
<1>16. Describes(g)'
  BY <1>3, <1>11, <1>12, <1>13, <1>14, <1>15 DEF Describes
<1> QED BY <1>10, <1>13, <1>16 DEF g, n

\* A power loss leaves a history.
LEMMA PowerLossKeeps ==
    ASSUME TypeOK, Plain(scenario), DirectOK, NEW h, Describes(h), PowerLoss, scenario' = scenario
    PROVE  TypeOK' /\ DirectOK' /\ \E g : Describes(g)'
<1>1. PICK log \in LogsAfterPowerLoss, f \in FilesAfterPowerLoss :
        /\ Reopen(f, log)
        /\ cache' = log /\ platter' = log
        /\ file' = f
        /\ acked' = acked \cap Elems(Recovered(f, log))
  BY DEF PowerLoss
<1>2. TypeOK' /\ DirectOK' /\ Describes(FirstN(h, LastLsn(f, log)))'
  BY <1>1, PowerLossLeaves DEF PowerLoss
<1>3. \E m : Describes(FirstN(h, m))'
  BY <1>2
<1> QED BY <1>2, <1>3

-----------------------------------------------------------------------------
(* The invariant holds.                                                    *)

\* An empty history describes a fresh log.
LEMMA InitDescribes == Init => TypeOK /\ DirectOK /\ Describes(<<>>)
<1> SUFFICES ASSUME Init PROVE TypeOK /\ DirectOK /\ Describes(<<>>)
  OBVIOUS
<1>1. <<>> \in Seq(Commits) /\ <<>> \in Seq(Frame) /\ Len(<<>>) = 0 /\ DOMAIN <<>> = {}
  OBVIOUS
<1>2. ~Staged /\ Settled = 0
  <2>1. ~Staged
    BY DEF Init, Staged, Idle
  <2> QED BY <2>1 DEF Init, Settled
<1>3. TypeOK
  <2>1. inflight \in [pc : {"none", "staged"}, commit : 0 .. MaxCommits, lsn : Nat, prevEnd : Nat]
    BY DurableLogAssumption DEF Init, Idle
  <2>2. ckpt \in [pc : {"none", "barrier", "write", "renamed", "synced", "truncated", "trimmed"},
                  kind : {"save", "online"}, lsn : Nat, graph : Seq(Commits),
                  offset : Nat, epoch : Nat]
    BY <1>1 DEF Init, NoCheckpoint
  <2>3. file \in File
    BY <1>1 DEF Init, File
  <2>4. attempts \in 0..MaxCommits /\ rewrites \in 0..MaxRewrites /\ crashes \in 0..MaxCrashes
    BY DurableLogAssumption DEF Init
  <2>5. mem \in Seq(Commits) /\ cache \in Seq(Frame) /\ platter \in Seq(Frame)
    BY <1>1 DEF Init
  <2>6. nextLsn \in Nat \ {0} /\ end \in Nat /\ epoch \in Nat
    BY DEF Init
  <2>7. diverged \in BOOLEAN /\ poisoned \in BOOLEAN
    BY DEF Init
  <2> QED BY <2>1, <2>2, <2>3, <2>4, <2>5, <2>6, <2>7 DEF Init, TypeOK
<1>4. FirstN(<<>>, 0) = <<>>
  <2>1. 0 \in 0..Len(<<>>)
    BY <1>1
  <2>2. FirstN(<<>>, Len(<<>>)) = <<>>
    BY <1>1, <2>1, FirstOfFirst
  <2> QED BY <1>1, <2>2
<1>5. DiskOK(<<>>)
  <2>1. Files = {file} /\ OlderLogs = {} /\ Logs = {<<>>} /\ cache = <<>>
    <3>1. Here.cache = <<>> /\ Here.platter = <<>>
      BY DEF Here, Init
    <3> QED BY <3>1 DEF Init, Files, OlderLogs, Logs, Pairs
  <2>2. file.lsn = 0 /\ file.graph = <<>>
    BY DEF Init
  <2>3. LogFits(<<>>, <<>>) /\ Continues(<<>>, file)
    BY <1>1 DEF LogFits, Continues
  <2>4. FileFits(file, <<>>) /\ LastLsn(file, cache) = 0
    BY <1>1, <1>4, <2>1, <2>2 DEF FileFits, LastLsn
  <2> QED BY <1>1, <1>2, <2>1, <2>2, <2>3, <2>4 DEF DiskOK
<1>6. OrderOK(<<>>)
  BY <1>1, <1>2, <1>4 DEF OrderOK, Init
<1>7. FlightOK(<<>>) /\ EndOK /\ DirectOK /\ ToldOK(<<>>)
  BY <1>1, <1>2 DEF Init, FlightOK, EndOK, DirectOK, ToldOK
<1>8. PointOK(<<>>)
  BY DEF Init, PointOK, NoCheckpoint
<1> QED BY <1>1, <1>3, <1>5, <1>6, <1>7, <1>8 DEF Describes

\* Every step leaves a history that describes what is there.
LEMMA StepKeeps ==
    ASSUME TypeOK, Plain(scenario), DirectOK, NEW h, Describes(h), Step, scenario' = scenario
    PROVE  TypeOK' /\ DirectOK' /\ \E g : Describes(g)'
<1>1. CASE Stage
  BY <1>1, StageKeeps
<1>2. CASE BarrierFails
  BY <1>2, BarrierFailsKeeps
<1>3. CASE PowerLoss
  BY <1>3, PowerLossKeeps
<1>4. CASE \/ Publish \/ Sync \/ MarkDiverged \/ (\E w \in pending : DirectWrite(w))
           \/ SaveStart \/ OnlineStart \/ ProcessCrash
  <2>1. TypeOK' /\ DirectOK' /\ Describes(h)'
    <3>1. CASE Publish BY <3>1, PublishKeeps
    <3>2. CASE Sync BY <3>2, SyncKeeps
    <3>3. CASE MarkDiverged BY <3>3, MarkDivergedKeeps
    <3>4. CASE \E w \in pending : DirectWrite(w) BY <3>4, DirectWriteKeeps
    <3>5. CASE SaveStart BY <3>5, SaveStartKeeps
    <3>6. CASE OnlineStart BY <3>6, OnlineStartKeeps
    <3>7. CASE ProcessCrash BY <3>7, ProcessCrashKeeps
    <3> QED BY <1>4, <3>1, <3>2, <3>3, <3>4, <3>5, <3>6, <3>7
  <2> QED BY <2>1
<1>5. CASE CheckpointStep
  <2>1. TypeOK' /\ DirectOK' /\ Describes(h)'
    <3>1. CASE OnlineBarrier BY <3>1, OnlineBarrierKeeps
    <3>2. CASE RenameFile BY <3>2, RenameFileKeeps
    <3>3. CASE SyncFileDir BY <3>3, SyncFileDirKeeps
    <3>4. CASE CheckpointFails BY <3>4, CheckpointFailsKeeps
    <3>5. CASE TruncateLog BY <3>5, TruncateLogKeeps
    <3>6. CASE SyncTruncation BY <3>6, SyncTruncationKeeps
    <3>7. CASE TrimLog BY <3>7, TrimLogKeeps
    <3>8. CASE SyncLogDir BY <3>8, SyncLogDirKeeps
    <3>9. CASE TrimRefused BY <3>9, TrimRefusedKeeps
    <3> QED BY <1>5, <3>1, <3>2, <3>3, <3>4, <3>5, <3>6, <3>7, <3>8, <3>9 DEF CheckpointStep
  <2> QED BY <2>1
<1> QED BY <1>1, <1>2, <1>3, <1>4, <1>5 DEF Step

\* The invariant is inductive.
LEMMA NextData == DataInv /\ [Next]_vars => DataInv'
<1> SUFFICES ASSUME DataInv, [Next]_vars PROVE DataInv'
  OBVIOUS
<1>1. PICK h : Describes(h)
  BY DEF DataInv
<1>2. TypeOK /\ Plain(scenario) /\ DirectOK
  BY DEF DataInv
<1>3. CASE Next
  <2>1. Step /\ scenario' = scenario
    BY <1>3 DEF Next
  <2>2. TypeOK' /\ DirectOK' /\ \E g : Describes(g)'
    BY <1>1, <1>2, <2>1, StepKeeps
  <2>3. Plain(scenario)'
    BY <1>2, <2>1 DEF Plain
  <2>4. PICK g : Describes(g)'
    BY <2>2
  <2>5. g \in Seq(Commits)
    BY <2>4 DEF Describes
  <2> QED BY <2>2, <2>3, <2>4, <2>5 DEF DataInv
<1>4. CASE UNCHANGED vars
  <2> USE DEF vars, process, logFile, ckptFile, told, bounds
  <2>1. TypeOK' /\ DirectOK' /\ Plain(scenario)'
    BY <1>2, <1>4 DEF TypeOK, DirectOK, Plain
  <2>2. Settled' = Settled /\ Settled \in Nat
    BY <1>1, <1>2, <1>4, Numbers DEF Settled, Staged
  <2>3. DiskOK(h)'
    <3>1. Settled \in Int /\ Settled <= Settled'
      BY <2>2
    <3> QED BY <1>1, <1>2, <1>4, <2>2, <3>1, DiskAlone DEF Describes
  <2>4. OrderOK(h)' /\ ToldOK(h)'
    BY <1>1, <1>4, OrderStands, ToldStands DEF Describes
  <2>5. FlightOK(h)' /\ EndOK'
    BY <1>1, <1>4, <2>2 DEF Describes, FlightOK, EndOK, Staged
  <2>6. PointOK(h)'
    BY <1>1, <1>4, <2>2 DEF Describes, PointOK, StampOK, OffsetOK, LockedOK, Staged, Files
  <2>7. Describes(h)' /\ h \in Seq(Commits)
    BY <1>1, <2>3, <2>4, <2>5, <2>6 DEF Describes
  <2> QED BY <2>1, <2>7 DEF DataInv
<1> QED BY <1>3, <1>4

\* In every plain scenario there is a history.
LEMMA DataHolds ==
    ASSUME \A s \in Scenarios : Plain(s)
    PROVE  Spec => []DataInv
<1>1. Init => DataInv
  <2>1. <<>> \in Seq(Commits)
    OBVIOUS
  <2> QED BY <2>1, InitDescribes DEF DataInv, Init
<1>2. DataInv /\ [Next]_vars => DataInv'
  BY NextData
<1> QED BY <1>1, <1>2, PTL DEF Spec

-----------------------------------------------------------------------------
(* What follows from it.                                                   *)

\* The state has the types the model gives it: offsets, LSNs and stamps stay
\* counts through failed barriers, cuts and trims.
THEOREM LogTypes ==
    ASSUME \A s \in Scenarios : Plain(s)
    PROVE  Spec => []TypeOK
<1>1. DataInv => TypeOK
  BY DEF DataInv
<1> QED BY <1>1, DataHolds, PTL

\* The history is what was published; or that and one commit more, the one in
\* flight or the one a poisoned log was left with.
LEMMA OrderIs ==
    ASSUME TypeOK, NEW h, Describes(h), ~diverged
    PROVE  \/ h = mem /\ ~Staged
           \/ /\ h \in Seq(Commits) /\ Len(h) - 1 \in 0..Len(h) /\ mem = FirstN(h, Len(h) - 1)
              /\ h = Append(mem, h[Len(h)])
              /\ IF Staged THEN h[Len(h)] = inflight.commit
                 ELSE poisoned /\ h[Len(h)] \in stranded
<1> DEFINE n == Len(h)  last == h[n]
<1>1. h \in Seq(Commits) /\ n \in Nat /\ Settled \in 0..n /\ mem = FirstN(h, Settled)
      /\ DOMAIN h = 1..n /\ (\A i \in 1..n : h[i] \in Commits) /\ n \in {Settled, Settled + 1}
  BY Numbers DEF Describes, OrderOK
<1>2. FirstN(h, Len(h)) = h
  <2>1. h \in Seq(Commits) /\ Len(h) \in Nat
    BY <1>1
  <2>2. 0 \in 0..Len(h) /\ Len(h) \in 0..Len(h)
    BY <2>1
  <2> QED BY <2>1, <2>2, FirstOfFirst
<1>3. CASE n = Settled
  <2>1. ~Staged
    BY <1>1, <1>3 DEF Describes, FlightOK
  <2> QED BY <1>1, <1>2, <1>3, <2>1
<1>4. CASE n # Settled
  <2>1. IF Staged THEN last = inflight.commit ELSE poisoned /\ last \in stranded
    BY <1>4 DEF Describes, FlightOK, OrderOK, ToldOK
  <2>2. mem \in Seq(Commits) /\ Len(mem) = Settled /\ \A i \in 1..Settled : mem[i] = h[i]
    BY <1>1, First
  <2> HIDE DEF n, last
  <2>3. n = Settled + 1 /\ n \in 1..n /\ Settled \in Nat /\ n - 1 = Settled /\ n \in 0..n
    BY <1>1, <1>4
  <2> DEFINE t == Append(mem, last)
  <2>4. last \in Commits
    BY <1>1, <2>3 DEF last
  <2>5. /\ t \in Seq(Commits) /\ Len(t) = n /\ t[Settled + 1] = last
        /\ \A i \in 1..Settled : t[i] = mem[i]
    BY <2>2, <2>3, <2>4, AppendFirst
  <2> HIDE DEF t
  <2>6. \A i \in 1..n : t[i] = h[i]
    BY <2>2, <2>3, <2>5 DEF last
  <2>7. t = FirstN(h, n)
    BY <1>1, <2>3, <2>5, <2>6, FirstIs DEF n
  <2>8. t = h
    BY <1>2, <2>7 DEF n
  <2> QED BY <1>1, <2>1, <2>3, <2>8 DEF n, last, t
<1> QED BY <1>3, <1>4

\* Replaying the log onto the checkpoint gives the published graph, whenever
\* nobody holds a gate, nothing was written directly and the log is sound.
THEOREM LogIsTheGraph ==
    ASSUME \A s \in Scenarios : Plain(s)
    PROVE  Spec => []LogDescribesGraph
<1>1. DataInv => LogDescribesGraph
  <2> SUFFICES ASSUME DataInv, GateFree, ~diverged, ~poisoned PROVE Recovered(file, cache) = mem
    BY DEF LogDescribesGraph
  <2>1. PICK h : Describes(h)
    BY DEF DataInv
  <2>2. TypeOK
    BY DEF DataInv
  <2>3. h = mem
    BY <2>1, <2>2, OrderIs DEF GateFree, Staged
  <2>4. h \in Seq(Commits) /\ Len(h) \in Nat /\ LastLsn(file, cache) = Len(h)
    BY <2>1, <2>2, Numbers
  <2>5. cache \in LogsAfterPowerLoss \cup {cache} /\ file \in FilesAfterPowerLoss
    BY DEF FilesAfterPowerLoss
  <2>6. Recovered(file, cache) = FirstN(h, Len(h))
    BY <2>1, <2>2, <2>4, <2>5, AnyRecovery
  <2>7. 0 \in 0..Len(h) /\ Len(h) \in 0..Len(h)
    BY <2>4
  <2>8. FirstN(h, Len(h)) = h
    BY <2>4, <2>7, FirstOfFirst
  <2> QED BY <2>3, <2>6, <2>8
<1> QED BY <1>1, DataHolds, PTL

\* Whatever a crash leaves of the logs and the files, their replay is a state
\* the graph went through, or is one commit past it: one whose barrier was not
\* over, or failed and could not be cut out.
THEOREM RecoveryIsPrefix ==
    ASSUME \A s \in Scenarios : Plain(s)
    PROVE  Spec => []RecoveredIsPrefix
<1>1. DataInv => RecoveredIsPrefix
  <2> DEFINE after == IF inflight.pc = "staged" THEN {inflight.commit}
                      ELSE IF poisoned THEN stranded
                      ELSE {}
  <2> SUFFICES ASSUME DataInv, ~diverged,
                      NEW log \in LogsAfterPowerLoss \cup {cache}, NEW f \in FilesAfterPowerLoss
               PROVE  \/ IsPrefix(Recovered(f, log), mem)
                      \/ \E c \in after : Recovered(f, log) = Append(mem, c)
    BY DEF RecoveredIsPrefix
  <2>1. PICK h : Describes(h)
    BY DEF DataInv
  <2>2. TypeOK
    BY DEF DataInv
  <2>3. h \in Seq(Commits) /\ Len(h) \in Nat
    BY <2>1, <2>2, Numbers
  <2>4. PICK n \in 0..Len(h) : Recovered(f, log) = FirstN(h, n)
    BY <2>1, <2>2, AnyRecovery
  <2>5. CASE h = mem
    BY <2>3, <2>4, <2>5, FirstIsPrefix
  <2>6. CASE h # mem
    <3>1. /\ Len(h) - 1 \in 0..Len(h) /\ mem = FirstN(h, Len(h) - 1)
          /\ h = Append(mem, h[Len(h)]) /\ h[Len(h)] \in after
      BY <2>1, <2>2, <2>6, OrderIs DEF Staged
    <3> HIDE DEF after
    <3>2. CASE n = Len(h)
      <4>1. FirstN(h, n) = h
        BY <2>3, <2>4, <3>2, FirstOfFirst
      <4> QED BY <2>4, <3>1, <4>1
    <3>3. CASE n # Len(h)
      <4>1. n \in 0..(Len(h) - 1)
        BY <2>3, <2>4, <3>3
      <4>2. FirstN(mem, n) = FirstN(h, n)
        BY <2>3, <3>1, <4>1, FirstOfFirst
      <4>3. mem \in Seq(Commits) /\ Len(mem) = Len(h) - 1
        BY <2>3, <3>1, First
      <4>4. IsPrefix(FirstN(mem, n), mem)
        BY <4>1, <4>3, FirstIsPrefix
      <4> QED BY <2>4, <4>2, <4>4
    <3> QED BY <3>2, <3>3
  <2> QED BY <2>5, <2>6
<1> QED BY <1>1, DataHolds, PTL

\* No crash brings back a commit whose client was told it failed, unless the log
\* was poisoned with its frame still in it.
THEOREM RefusalIsFinal ==
    ASSUME \A s \in Scenarios : Plain(s)
    PROVE  Spec => []RefusedIsForgotten
<1>1. DataInv => RefusedIsForgotten
  <2> SUFFICES ASSUME DataInv, NEW log \in LogsAfterPowerLoss \cup {cache},
                      NEW f \in FilesAfterPowerLoss
               PROVE  (refused \ stranded) \cap Elems(Recovered(f, log)) = {}
    BY DEF RefusedIsForgotten
  <2>1. PICK h : Describes(h)
    BY DEF DataInv
  <2>2. TypeOK
    BY DEF DataInv
  <2>3. h \in Seq(Commits) /\ Len(h) \in Nat /\ (refused \ stranded) \cap Elems(h) = {}
    BY <2>1, <2>2, Numbers DEF Describes, ToldOK
  <2>4. PICK n \in 0..Len(h) : Recovered(f, log) = FirstN(h, n)
    BY <2>1, <2>2, AnyRecovery
  <2>5. n \in 0..n
    BY <2>3
  <2>6. Elems(FirstN(h, n)) \subseteq Elems(h)
    BY <2>3, <2>5, FirstElems
  <2> QED BY <2>3, <2>4, <2>6
<1> QED BY <1>1, DataHolds, PTL

\* A process that dies finds every acknowledged commit again.
THEOREM AcknowledgedSurvivesProcessCrash ==
    ASSUME \A s \in Scenarios : Plain(s)
    PROVE  Spec => []AckedSurvivesCrash
<1>1. DataInv => AckedSurvivesCrash
  <2> SUFFICES ASSUME DataInv PROVE acked \subseteq Elems(Recovered(file, cache))
    BY DEF AckedSurvivesCrash
  <2>1. PICK h : Describes(h)
    BY DEF DataInv
  <2>2. TypeOK
    BY DEF DataInv
  <2>3. h \in Seq(Commits) /\ Len(h) \in Nat /\ acked \subseteq Elems(h) /\ LastLsn(file, cache) = Len(h)
    BY <2>1, <2>2, Numbers DEF Describes, ToldOK
  <2>4. cache \in LogsAfterPowerLoss \cup {cache} /\ file \in FilesAfterPowerLoss
    BY DEF FilesAfterPowerLoss
  <2>5. Recovered(file, cache) = FirstN(h, Len(h))
    BY <2>1, <2>2, <2>3, <2>4, AnyRecovery
  <2>6. 0 \in 0..Len(h) /\ Len(h) \in 0..Len(h)
    BY <2>3
  <2>7. FirstN(h, Len(h)) = h
    BY <2>3, <2>6, FirstOfFirst
  <2> QED BY <2>3, <2>5, <2>7
<1> QED BY <1>1, DataHolds, PTL

-----------------------------------------------------------------------------
(* What power loss cannot take: no log and file that may survive together  *)
(* leave out a commit numbered d or less, and every promise is among them. *)

\* The page cache and the platter of this log agree on a frame numbered d or more.
ReachesIn(o, d) ==
    \E j \in DOMAIN o.cache :
        /\ j <= Len(o.platter) /\ FirstN(o.cache, j) = FirstN(o.platter, j)
        /\ o.cache[j].lsn >= d

Covers(h, d) ==
    /\ promised \subseteq Elems(FirstN(h, d))
    /\ Staged => d < Len(h)
    /\ Full => d >= Settled
    /\ \A f \in Files, o \in Pairs : f.lsn >= d \/ ReachesIn(o, d)
    /\ olderLogs # {} => poisoned \/ ckpt.pc = "trimmed"

\* A sync of the log's directory that fails leaves the session appending to a
\* log whose name is not certain; a process crash leaves such a log too.
Certain(s) == "process" \notin s.crashes /\ "logdir" \notin s.faults

CoverInv ==
    Certain(scenario) =>
        \E h \in Seq(Commits) : Describes(h) /\ \E d \in 0..Len(h) : Covers(h, d)

\* A log written through reaches as far as it goes.
LEMMA Flushed ==
    ASSUME NEW h \in Seq(Commits), NEW log \in Seq(Frame), NEW f \in File,
           LogFits(log, h), FileFits(f, h), NEW e \in Nat, e <= LastLsn(f, log),
           NEW o, o.cache = log, o.platter = log
    PROVE  f.lsn >= e \/ ReachesIn(o, e)
<1>1. DOMAIN log = 1..Len(log) /\ Len(log) \in Nat /\ f.lsn \in Nat
      /\ \A i \in DOMAIN log : log[i].lsn \in Nat
  BY FrameTypes DEF File
<1>2. CASE log = <<>> \/ \A i \in DOMAIN log : log[i].lsn <= f.lsn
  <2>1. LastLsn(f, log) = f.lsn
    BY <1>2, LastIs
  <2> QED BY <1>1, <2>1
<1>3. CASE log # <<>> /\ \E i \in DOMAIN log : ~(log[i].lsn <= f.lsn)
  <2>1. \E i \in DOMAIN log : log[i].lsn > f.lsn
    BY <1>1, <1>3
  <2>2. LastLsn(f, log) = log[Len(log)].lsn
    BY <2>1, LastIs
  <2>3. Len(log) \in DOMAIN log /\ Len(log) <= Len(log)
    BY <1>1, <2>1
  <2>4. log[Len(log)].lsn >= e
    BY <1>1, <2>2, <2>3
  <2> QED BY <2>3, <2>4 DEF ReachesIn
<1> QED BY <1>2, <1>3

\* What covers d keeps d through a power loss.
LEMMA CoveredStays ==
    ASSUME TypeOK, NEW h, Describes(h), NEW d \in 0..Len(h), Covers(h, d),
           NEW log \in LogsAfterPowerLoss, NEW f \in FilesAfterPowerLoss
    PROVE  d <= LastLsn(f, log) /\ LastLsn(f, log) \in 0..Len(h)
<1>1. /\ log \in Seq(Frame) /\ f \in File /\ f \in Files
      /\ LogFits(log, h) /\ FileFits(f, h) /\ LastLsn(f, log) \in 0..Len(h)
  BY AnyRecovery
<1>2. h \in Seq(Commits) /\ Len(h) \in Nat
  BY Numbers
<1>3. f.lsn <= LastLsn(f, log) /\ \A i \in DOMAIN log : log[i].lsn <= LastLsn(f, log)
  BY <1>1, <1>2, LastIs
<1>4. PICK o \in Pairs : log \in Survivors(o.platter, o.cache)
  <2>1. CASE log \in Survivors(platter, cache)
    <3>1. Here \in Pairs /\ Here.cache = cache /\ Here.platter = platter
      BY DEF Pairs, Here
    <3> QED BY <2>1, <3>1
  <2>2. CASE log \in UNION {Survivors(o.platter, o.cache) : o \in olderLogs}
    BY <2>2 DEF Pairs
  <2> QED BY <2>1, <2>2 DEF LogsAfterPowerLoss
<1>5. o.platter \in Seq(Frame) /\ o.cache \in Seq(Frame)
  <2>1. o.platter \in Logs /\ o.cache \in Logs
    BY DEF Logs
  <2> QED BY <2>1, DiskTypes
<1>6. f.lsn >= d \/ ReachesIn(o, d)
  BY <1>1 DEF Covers
<1>7. CASE f.lsn >= d
  <2>1. f.lsn \in Nat /\ d \in Nat
    BY <1>1, <1>2 DEF File
  <2> DEFINE m == LastLsn(f, log)
  <2>2. m \in Nat /\ f.lsn <= m
    BY <1>1, <1>2, <1>3
  <2> HIDE DEF m
  <2>3. d <= m
    BY <1>7, <2>1, <2>2
  <2> QED BY <1>1, <2>3 DEF m
<1>8. CASE ReachesIn(o, d)
  <2>1. PICK j \in DOMAIN o.cache : /\ j <= Len(o.platter) /\ FirstN(o.cache, j) = FirstN(o.platter, j)
                                    /\ o.cache[j].lsn >= d
    BY <1>8 DEF ReachesIn
  <2>2. PICK s \in {o.platter, o.cache} : \E n \in 0..Len(s) :
              /\ log = FirstN(s, n)
              /\ \A i \in 0..Len(o.platter) : i <= Len(o.cache) /\ FirstN(o.cache, i) = FirstN(o.platter, i) => i <= n
    BY <1>4, <1>5, SurvivorIs
  <2>3. PICK n \in 0..Len(s) :
              /\ log = FirstN(s, n)
              /\ \A i \in 0..Len(o.platter) : i <= Len(o.cache) /\ FirstN(o.cache, i) = FirstN(o.platter, i) => i <= n
    BY <2>2
  <2>4. j \in Nat /\ j >= 1 /\ j <= Len(o.cache) /\ j \in 0..Len(o.platter) /\ j \in 0..Len(o.cache)
    <3>1. j \in 1..Len(o.cache) /\ Len(o.cache) \in Nat /\ Len(o.platter) \in Nat
      BY <1>5
    <3> QED BY <2>1, <3>1
  <2>5. j <= n
    BY <2>1, <2>3, <2>4
  <2>6. s \in Seq(Frame) /\ n \in Nat /\ j \in 1..n /\ j \in 0..Len(s)
    <3>1. s \in Seq(Frame) /\ Len(s) \in Nat
      BY <1>5
    <3> QED BY <2>4, <2>5, <3>1
  <2>7. log[j] = s[j] /\ j \in DOMAIN log
    BY <2>3, <2>6, First, SMTT(30)
  <2>8. s[j] = o.cache[j]
    <3>1. j \in 1..j
      BY <2>4
    <3>2. FirstN(o.cache, j)[j] = o.cache[j]
      BY <1>5, <2>4, <3>1, First
    <3>3. FirstN(o.platter, j)[j] = o.platter[j]
      BY <1>5, <2>4, <3>1, First
    <3> QED BY <2>1, <3>2, <3>3
  <2>9. log[j].lsn >= d /\ log[j].lsn <= LastLsn(f, log) /\ log[j].lsn \in Nat
    BY <1>1, <1>3, <2>1, <2>7, <2>8, FrameTypes
  <2> DEFINE m == LastLsn(f, log)  x == log[j].lsn
  <2>10. m \in Nat /\ x <= m /\ x >= d /\ x \in Nat /\ d \in Nat
    BY <1>1, <1>2, <2>9
  <2> HIDE DEF m, x
  <2>11. d <= m
    BY <2>10
  <2> QED BY <1>1, <2>11 DEF m
<1> QED BY <1>6, <1>7, <1>8

\* A step after which the page cache and the platter agree.
LEMMA CoverFlushed ==
    ASSUME TypeOK', NEW h, Describes(h)', NEW e \in 0..Len(h), cache' = platter',
           scenario' = scenario,
           promised' \subseteq Elems(FirstN(h, e)), Staged' => e < Len(h), Full => e >= Settled',
           \A f \in Files', o \in olderLogs' : f.lsn >= e \/ ReachesIn(o, e),
           olderLogs' # {} => poisoned' \/ ckpt'.pc = "trimmed"
    PROVE  Covers(h, e)'
<1>1. cache' \in Seq(Frame) /\ \A f \in Files' : f \in File
  BY DEF TypeOK, Files
<1>2. h \in Seq(Commits) /\ Len(h) \in Nat /\ e \in Nat /\ e <= Len(h)
  <2>1. h \in Seq(Commits)
    BY DEF Describes
  <2>2. Len(h) \in Nat
    BY <2>1
  <2> QED BY <2>1, <2>2
<1>3. Here'.cache = cache' /\ Here'.platter = cache' /\ Pairs' = {Here'} \cup olderLogs'
  BY DEF Here, Pairs
<1>4. LogFits(cache', h) /\ \A f \in Files' : FileFits(f, h) /\ LastLsn(f, cache') = Len(h)
  <2>1. cache' \in Logs'
    BY <1>3 DEF Logs
  <2>2. \A f \in Files' : LastLsn(f, cache)' = LastLsn(f, cache')
    BY DEF LastLsn
  <2> QED BY <2>1, <2>2 DEF Describes, DiskOK
<1>5. \A f \in Files' : f.lsn >= e \/ ReachesIn(Here', e)
  BY <1>1, <1>2, <1>3, <1>4, Flushed
<1>6. \A f \in Files', o \in Pairs' : f.lsn >= e \/ ReachesIn(o, e)
  BY <1>3, <1>5
<1>7. Full' = Full
  BY DEF Full
<1> QED BY <1>6, <1>7 DEF Covers

\* A step that leaves the disk alone.
LEMMA CoverAlone ==
    ASSUME NEW h, NEW d, Covers(h, d), scenario' = scenario,
           Pairs' \subseteq Pairs, Files' \subseteq Files,
           promised' \subseteq Elems(FirstN(h, d)), Staged' => Staged, Full => Settled' = Settled,
           olderLogs' # {} => poisoned' \/ ckpt'.pc = "trimmed"
    PROVE  Covers(h, d)'
<1>1. Full' = Full
  BY DEF Full
<1>2. \A f \in Files', o \in Pairs' : f.lsn >= d \/ ReachesIn(o, d)
  BY DEF Covers
<1> QED BY <1>1, <1>2 DEF Covers

\* The parts of a step's hypotheses that every covering lemma opens with.
LEMMA CoverParts ==
    ASSUME TypeOK, NEW h, Describes(h), NEW d \in 0..Len(h), Covers(h, d)
    PROVE  /\ promised \subseteq Elems(FirstN(h, d)) /\ promised \subseteq Elems(h)
           /\ d \in Nat /\ d <= Len(h) /\ Len(h) \in Nat /\ h \in Seq(Commits)
           /\ FirstN(h, Len(h)) = h /\ Len(h) \in 0..Len(h)
           /\ Settled \in Nat /\ Settled \in 0..Len(h)
<1>1. h \in Seq(Commits) /\ Len(h) \in Nat /\ Settled \in Nat /\ Settled \in 0..Len(h)
  BY Numbers
<1>2. d \in Nat /\ d <= Len(h) /\ Len(h) \in 0..Len(h) /\ 0 \in 0..Len(h) /\ d \in 0..Len(h)
  BY <1>1
<1>3. FirstN(h, Len(h)) = h
  BY <1>1, <1>2, FirstOfFirst
<1>4. Elems(FirstN(h, d)) \subseteq Elems(h)
  BY <1>1, <1>2, <1>3, FirstElems
<1> QED BY <1>1, <1>2, <1>3, <1>4 DEF Covers

\* Steps that move nothing on the disk and promise nothing.
LEMMA QuietCovers ==
    ASSUME NEW h, NEW d, Covers(h, d), scenario' = scenario,
           \/ OnlineStart \/ MarkDiverged \/ (\E w \in pending : DirectWrite(w))
           \/ CheckpointFails \/ TrimRefused \/ SyncFileDir
    PROVE  Covers(h, d)'
<1> USE DEF process, logFile, ckptFile, told, bounds
<1>1. /\ UNCHANGED <<cache, platter, olderLogs, file, promised, inflight, nextLsn, poisoned>>
      /\ olderFiles' \subseteq olderFiles
      /\ ckpt.pc # "trimmed" \/ ckpt' = ckpt
  <2>1. CASE OnlineStart
    BY <2>1 DEF OnlineStart, StartCheckpoint
  <2>2. CASE MarkDiverged
    BY <2>2 DEF MarkDiverged
  <2>3. CASE \E w \in pending : DirectWrite(w)
    BY <2>3 DEF DirectWrite
  <2>4. CASE CheckpointFails
    BY <2>4 DEF CheckpointFails
  <2>5. CASE TrimRefused
    BY <2>5 DEF TrimRefused
  <2>6. CASE SyncFileDir
    BY <2>6 DEF SyncFileDir
  <2> QED BY <2>1, <2>2, <2>3, <2>4, <2>5, <2>6
<1>2. Pairs' = Pairs /\ Files' \subseteq Files
  BY <1>1 DEF Pairs, Here, Files
<1>3. Settled' = Settled /\ Staged' = Staged
  BY <1>1 DEF Settled, Staged
<1>4. promised' \subseteq Elems(FirstN(h, d)) /\ (olderLogs' # {} => poisoned' \/ ckpt'.pc = "trimmed")
  BY <1>1 DEF Covers
<1> QED BY <1>2, <1>3, <1>4, CoverAlone

\* Sync promises what it made certain.
LEMMA SyncCovers ==
    ASSUME TypeOK, Plain(scenario), DirectOK, NEW h, Describes(h), NEW d \in 0..Len(h), Covers(h, d),
           Sync, scenario' = scenario
    PROVE  \E e \in 0..Len(h) : Covers(h, e)'
<1> USE DEF process, logFile, ckptFile, bounds
<1>1. TypeOK' /\ Describes(h)'
  BY SyncKeeps
<1>2. /\ promised \subseteq Elems(FirstN(h, d)) /\ promised \subseteq Elems(h)
      /\ d \in Nat /\ d <= Len(h) /\ Len(h) \in Nat /\ h \in Seq(Commits)
      /\ FirstN(h, Len(h)) = h /\ Len(h) \in 0..Len(h)
      /\ Settled \in Nat /\ Settled \in 0..Len(h)
  BY CoverParts
<1>3. /\ ~diverged /\ ~Staged /\ ckpt.pc # "trimmed" /\ (Full \/ ~poisoned)
      /\ UNCHANGED <<inflight, nextLsn, cache, olderLogs, file, olderFiles, poisoned, ckpt>>
      /\ platter' = (IF Full THEN platter ELSE cache) /\ promised' = promised \cup Elems(mem)
  BY DEF Sync, GateFree, LocksHeld, Staged
<1>4. Settled' = Settled /\ ~Staged' /\ mem = FirstN(h, Settled)
  BY <1>3 DEF Settled, Staged, Describes, OrderOK
<1>5. CASE Full
  <2>1. d >= Settled
    BY <1>5 DEF Covers
  <2>2. Settled \in 0..d
    BY <1>2, <2>1
  <2>3. Elems(mem) \subseteq Elems(FirstN(h, d))
    BY <1>2, <1>4, <2>2, FirstElems
  <2>4. Pairs' = Pairs /\ Files' = Files
    BY <1>3, <1>5 DEF Pairs, Here, Files
  <2>5. promised' \subseteq Elems(FirstN(h, d)) /\ (olderLogs' # {} => poisoned' \/ ckpt'.pc = "trimmed")
    BY <1>2, <1>3, <2>3 DEF Covers
  <2>6. Covers(h, d)'
    BY <1>4, <2>4, <2>5, CoverAlone
  <2> QED BY <2>6
<1>6. CASE ~Full
  <2>1. olderLogs' = {} /\ cache' = platter'
    BY <1>3, <1>6 DEF Covers
  <2>2. Elems(mem) \subseteq Elems(h)
    <3>1. Len(h) \in 0..Len(h) /\ Settled \in 0..Len(h)
      BY <1>2
    <3> QED BY <1>2, <1>4, <3>1, FirstElems
  <2>3. promised' \subseteq Elems(FirstN(h, Len(h)))
    BY <1>2, <1>3, <2>2
  <2>4. Covers(h, Len(h))'
    BY <1>1, <1>2, <1>4, <1>6, <2>1, <2>3, CoverFlushed
  <2> QED BY <1>2, <2>4
<1> QED BY <1>5, <1>6

\* Steps that write the log through and promise nothing.
LEMMA FlushCovers ==
    ASSUME TypeOK, Plain(scenario), DirectOK, NEW h, Describes(h), NEW d \in 0..Len(h), Covers(h, d),
           SaveStart \/ OnlineBarrier, scenario' = scenario
    PROVE  Covers(h, d)'
<1> USE DEF process, logFile, ckptFile, told, bounds
<1>1. TypeOK' /\ Describes(h)'
  BY SaveStartKeeps, OnlineBarrierKeeps
<1>2. /\ UNCHANGED <<inflight, nextLsn, cache, olderLogs, file, olderFiles, poisoned, promised>>
      /\ platter' = cache /\ ckpt.pc # "trimmed"
  <2>1. CASE SaveStart
    BY <2>1 DEF SaveStart, StartCheckpoint
  <2>2. CASE OnlineBarrier
    BY <2>2 DEF OnlineBarrier
  <2> QED BY <2>1, <2>2
<1>3. Settled' = Settled /\ Staged' = Staged /\ Files' = Files
  BY <1>2 DEF Settled, Staged, Files
<1>4. \A f \in Files', o \in olderLogs' : f.lsn >= d \/ ReachesIn(o, d)
  BY <1>2, <1>3 DEF Covers, Pairs
<1>5. promised' \subseteq Elems(FirstN(h, d)) /\ (olderLogs' # {} => poisoned' \/ ckpt'.pc = "trimmed")
      /\ (Staged' => d < Len(h)) /\ (Full => d >= Settled')
  BY <1>2, <1>3 DEF Covers
<1> QED BY <1>1, <1>2, <1>4, <1>5, CoverFlushed

\* The new file holds whatever the one before held.
LEMMA RenameFileCovers ==
    ASSUME TypeOK, NEW h, Describes(h), NEW d \in 0..Len(h), Covers(h, d), RenameFile, scenario' = scenario
    PROVE  Covers(h, d)'
<1> USE DEF process, logFile, ckptFile, told, bounds
<1>1. /\ UNCHANGED <<inflight, nextLsn, cache, platter, olderLogs, poisoned, promised>>
      /\ ckpt.pc = "write" /\ file'.lsn = ckpt.lsn /\ olderFiles' = olderFiles \cup {file}
  BY DEF RenameFile
<1>2. Settled' = Settled /\ Staged' = Staged /\ Pairs' = Pairs /\ Files' = Files \cup {file'} /\ Full' = Full
  BY <1>1 DEF Settled, Staged, Pairs, Here, Files, Full
<1>3. file.lsn <= ckpt.lsn /\ file.lsn \in Nat /\ ckpt.lsn \in Nat /\ d \in Nat
  <2>1. file.lsn <= ckpt.lsn
    BY <1>1, DiskTypes DEF Describes, PointOK, StampOK
  <2>2. file.lsn \in Nat /\ ckpt.lsn \in Nat
    BY DiskTypes DEF TypeOK
  <2> QED BY <2>1, <2>2, CoverParts
<1>4. \A o \in Pairs : file.lsn >= d \/ ReachesIn(o, d)
  BY DiskTypes DEF Covers
<1>5. file.lsn >= d => ckpt.lsn >= d
  BY <1>3
<1>6. \A f \in Files', o \in Pairs' : f.lsn >= d \/ ReachesIn(o, d)
  BY <1>1, <1>2, <1>4, <1>5 DEF Covers
<1> QED BY <1>1, <1>2, <1>6 DEF Covers

\* When the log goes, the file holds everything.
LEMMA TruncateLogCovers ==
    ASSUME TypeOK, Plain(scenario), DirectOK, NEW h, Describes(h), NEW d \in 0..Len(h), Covers(h, d),
           TruncateLog, scenario' = scenario
    PROVE  Covers(h, d)'
<1> USE DEF process, logFile, ckptFile, told, bounds
<1>1. TypeOK' /\ Describes(h)'
  BY TruncateLogKeeps
<1>2. /\ UNCHANGED <<inflight, nextLsn, olderLogs, file, olderFiles, poisoned, promised>>
      /\ cache' = <<>> /\ ckpt.pc = "synced"
  BY DEF TruncateLog
<1>3. Settled' = Settled /\ Staged' = Staged /\ Files' = Files /\ Full' = Full
  BY <1>2 DEF Settled, Staged, Files, Full
<1>4. \A f \in Files' : f.lsn = Len(h)
  <2>1. \A f \in Files' : LastLsn(f, cache)' = f.lsn
    BY <1>2 DEF LastLsn
  <2> QED BY <1>1, <2>1 DEF Describes, DiskOK
<1>5. \A f \in Files' : f.lsn >= d
  BY <1>4, CoverParts
<1> QED BY <1>2, <1>3, <1>5 DEF Covers

\* ... and the session promises it.
LEMMA SyncTruncationCovers ==
    ASSUME TypeOK, Plain(scenario), DirectOK, NEW h, Describes(h), NEW d \in 0..Len(h), Covers(h, d),
           SyncTruncation, scenario' = scenario
    PROVE  Covers(h, Len(h))'
<1> USE DEF process, logFile, ckptFile, told, bounds
<1>1. TypeOK' /\ Describes(h)'
  BY SyncTruncationKeeps
<1>2. /\ UNCHANGED <<inflight, nextLsn, cache, olderLogs, file, olderFiles>>
      /\ platter' = <<>> /\ ckpt.pc = "truncated" /\ promised' = promised \cup Elems(ckpt.graph)
  BY DEF SyncTruncation
<1>3. StampOK(h) /\ LockedOK
  BY <1>2 DEF Describes, PointOK
<1>4. cache' = platter' /\ ~Staged /\ ~poisoned /\ olderLogs' = {}
  BY <1>2, <1>3 DEF LockedOK, Covers
<1>5. Settled' = Settled /\ ~Staged'
  BY <1>2, <1>4 DEF Settled, Staged
<1>6. /\ promised \subseteq Elems(h) /\ Len(h) \in Nat /\ h \in Seq(Commits)
      /\ FirstN(h, Len(h)) = h /\ Len(h) \in 0..Len(h) /\ Settled \in 0..Len(h) /\ Settled \in Nat
  BY CoverParts
<1>7. Elems(ckpt.graph) \subseteq Elems(h)
  <2>1. ckpt.lsn \in Nat /\ ckpt.lsn <= Settled /\ ckpt.graph = FirstN(h, ckpt.lsn)
    BY <1>3 DEF StampOK, TypeOK
  <2>2. ckpt.lsn \in 0..Len(h)
    BY <1>6, <2>1
  <2> QED BY <1>6, <2>1, <2>2, FirstElems
<1>8. promised' \subseteq Elems(FirstN(h, Len(h)))
  BY <1>2, <1>6, <1>7
<1>9. Len(h) >= Settled'
  BY <1>5, <1>6
<1> QED BY <1>1, <1>4, <1>5, <1>6, <1>8, <1>9, CoverFlushed

\* A trim is written through before it is renamed over the log.
LEMMA TrimLogCovers ==
    ASSUME TypeOK, Plain(scenario), DirectOK, NEW h, Describes(h), NEW d \in 0..Len(h), Covers(h, d),
           TrimLog, scenario' = scenario
    PROVE  Covers(h, d)'
<1> USE DEF process, logFile, ckptFile, told, bounds
<1>1. TypeOK' /\ Describes(h)'
  BY TrimLogKeeps
<1>2. /\ UNCHANGED <<inflight, nextLsn, file, olderFiles, promised>>
      /\ cache' = platter' /\ olderLogs' = Pairs
      /\ poisoned' \/ ckpt' = [ckpt EXCEPT !.pc = "trimmed"]
  BY DEF TrimLog, Pairs, Here
<1>3. Settled' = Settled /\ Staged' = Staged /\ Files' = Files
  BY <1>2 DEF Settled, Staged, Files
<1>4. \A f \in Files', o \in olderLogs' : f.lsn >= d \/ ReachesIn(o, d)
  BY <1>2, <1>3 DEF Covers
<1>5. poisoned' \/ ckpt'.pc = "trimmed"
  BY <1>2 DEF TypeOK
<1>6. promised' \subseteq Elems(FirstN(h, d)) /\ (Staged' => d < Len(h)) /\ (Full => d >= Settled')
  BY <1>2, <1>3 DEF Covers
<1> QED BY <1>1, <1>2, <1>4, <1>5, <1>6, CoverFlushed

\* Once the log's directory is synced the stamp is promised.
LEMMA SyncLogDirCovers ==
    ASSUME TypeOK, Certain(scenario), NEW h, Describes(h), NEW d \in 0..Len(h), Covers(h, d),
           SyncLogDir, scenario' = scenario
    PROVE  \E e \in 0..Len(h) : Covers(h, e)'
<1> USE DEF process, logFile, ckptFile, told, bounds
<1>0. PICK a : a = ckpt.lsn
  OBVIOUS
<1>1. /\ UNCHANGED <<inflight, nextLsn, cache, platter, file, olderFiles, poisoned>>
      /\ ckpt.pc = "trimmed" /\ olderLogs' = {} /\ promised' = promised \cup Elems(ckpt.graph)
  BY DEF SyncLogDir, CanFail, Certain
<1>2. StampOK(h) /\ LockedOK
  BY <1>1 DEF Describes, PointOK
<1>3. ~Staged' /\ Settled' = Settled /\ Full' = Full
  BY <1>1, <1>2 DEF LockedOK, Staged, Settled, Full
<1>4. a \in Nat /\ a <= Settled /\ ckpt.graph = FirstN(h, a) /\ Files' = Files /\ Files = {file} /\ file.lsn = a
  BY <1>0, <1>1, <1>2 DEF StampOK, TypeOK, Files
<1>5. Pairs' = {Here} /\ Here \in Pairs
  BY <1>1 DEF Pairs, Here
<1>6. /\ promised \subseteq Elems(FirstN(h, d)) /\ d \in Nat /\ d <= Len(h) /\ Len(h) \in Nat
      /\ h \in Seq(Commits) /\ Settled \in Nat /\ Settled \in 0..Len(h)
  BY CoverParts
<1>7. CASE a <= d
  <2>1. a \in 0..d
    BY <1>4, <1>6, <1>7
  <2>2. Elems(ckpt.graph) \subseteq Elems(FirstN(h, d))
    BY <1>4, <1>6, <2>1, FirstElems
  <2>3. promised' \subseteq Elems(FirstN(h, d))
    BY <1>1, <1>6, <2>2
  <2>4. \A f \in Files', o \in Pairs' : f.lsn >= d \/ ReachesIn(o, d)
    BY <1>4, <1>5 DEF Covers
  <2>5. Full => d >= Settled'
    BY <1>3 DEF Covers
  <2>6. Covers(h, d)'
    BY <1>1, <1>3, <2>3, <2>4, <2>5 DEF Covers
  <2> QED BY <2>6
<1>8. CASE d <= a
  <2>1. a \in 0..Len(h) /\ d \in 0..a
    BY <1>4, <1>6, <1>8
  <2>2. Elems(FirstN(h, d)) \subseteq Elems(FirstN(h, a))
    BY <1>6, <2>1, FirstElems
  <2>3. promised' \subseteq Elems(FirstN(h, a))
    BY <1>1, <1>4, <1>6, <2>2
  <2>4. \A f \in Files', o \in Pairs' : f.lsn >= a \/ ReachesIn(o, a)
    BY <1>4
  <2>5. Full => a >= Settled'
    <3>1. Full => d >= Settled
      BY DEF Covers
    <3> QED BY <1>3, <1>4, <1>6, <1>8, <3>1
  <2>6. Covers(h, a)'
    BY <1>1, <1>3, <2>3, <2>4, <2>5 DEF Covers
  <2> QED BY <2>1, <2>6
<1> QED BY <1>4, <1>6, <1>7, <1>8

\* A staged commit lies past what is covered.
LEMMA StageOkCovers ==
    ASSUME TypeOK, NEW h, Describes(h), NEW d \in 0..Len(h), Covers(h, d),
           Stage, StageOk, scenario' = scenario, NEW c, c = NewCommit
    PROVE  Covers(Append(h, c), d)'
<1> USE DEF process, logFile, ckptFile, told, bounds
<1>1. /\ UNCHANGED <<platter, olderLogs, file, olderFiles, poisoned, promised, ckpt>>
      /\ cache' = Append(cache, NewFrame) /\ nextLsn' = nextLsn + 1
      /\ inflight'.pc = "staged" /\ inflight.pc = "none" /\ ~poisoned /\ ckpt.pc # "trimmed"
      /\ attempts < MaxCommits
  BY DEF Stage, StageOk, GateFree, LocksHeld
<1>2. /\ promised \subseteq Elems(FirstN(h, d)) /\ d \in Nat /\ d <= Len(h) /\ Len(h) \in Nat
      /\ h \in Seq(Commits) /\ d \in 0..Len(h)
  BY CoverParts
<1>3. c \in Commits /\ NewFrame \in Frame
  <2>1. c \in Commits
    BY <1>1, NewCommitIs
  <2>2. nextLsn \in Nat
    BY DEF TypeOK
  <2> QED BY <2>1, <2>2 DEF NewFrame, Frame
<1>4. Len(Append(h, c)) = Len(h) + 1 /\ FirstN(Append(h, c), d) = FirstN(h, d)
  BY <1>2, <1>3, AppendFirst
<1>5. Staged' /\ Settled' = Settled /\ Full' = Full
  <2>1. ~Staged /\ Staged' /\ nextLsn \in Nat
    BY <1>1 DEF Staged, TypeOK
  <2>2. Settled' = nextLsn' - 2 /\ Settled = nextLsn - 1
    BY <2>1 DEF Settled
  <2>3. Settled' = Settled
    BY <1>1, <2>1, <2>2
  <2> QED BY <2>1, <2>3 DEF Full
<1>6. Files' = Files /\ Pairs' = {Here'} /\ Here \in Pairs /\ olderLogs' = {}
  <2>1. olderLogs = {}
    BY <1>1 DEF Covers
  <2> QED BY <1>1, <2>1 DEF Files, Pairs
<1>7. ReachesIn(Here, d) => ReachesIn(Here', d)
  <2> SUFFICES ASSUME ReachesIn(Here, d) PROVE ReachesIn(Here', d)
    OBVIOUS
  <2>1. /\ Here.cache = cache /\ Here.platter = platter
        /\ Here'.cache = Append(cache, NewFrame) /\ Here'.platter = platter
    BY <1>1 DEF Here
  <2>2. PICK j \in DOMAIN cache : /\ j <= Len(platter) /\ FirstN(cache, j) = FirstN(platter, j)
                                  /\ cache[j].lsn >= d
    BY <2>1 DEF ReachesIn
  <2>3. cache \in Seq(Frame)
    BY DEF TypeOK
  <2>4. j \in 1..Len(cache) /\ j \in 0..Len(cache) /\ j \in 1..(Len(cache) + 1)
    BY <2>2, <2>3
  <2>5. /\ FirstN(Append(cache, NewFrame), j) = FirstN(cache, j)
        /\ Append(cache, NewFrame)[j] = cache[j] /\ j \in DOMAIN Append(cache, NewFrame)
    BY <1>3, <2>3, <2>4, AppendFirst
  <2> QED BY <2>1, <2>2, <2>5 DEF ReachesIn
<1>8. \A f \in Files', o \in Pairs' : f.lsn >= d \/ ReachesIn(o, d)
  BY <1>6, <1>7 DEF Covers
<1>9. d < Len(Append(h, c))
  BY <1>2, <1>4
<1>10. Full => d >= Settled'
  BY <1>5 DEF Covers
<1>11. promised' \subseteq Elems(FirstN(Append(h, c), d))
  BY <1>1, <1>2, <1>4
<1> QED BY <1>5, <1>6, <1>8, <1>9, <1>10, <1>11 DEF Covers

\* A refused one changes nothing.
LEMMA StageWriteFailsCovers ==
    ASSUME TypeOK, Plain(scenario), DirectOK, NEW h, Describes(h), NEW d \in 0..Len(h), Covers(h, d),
           Stage, StageWriteFails, scenario' = scenario
    PROVE  Covers(h, d)'
<1> USE DEF process, logFile, ckptFile, told, bounds
<1>1. TypeOK' /\ Describes(h)'
  BY StageWriteFailsKeeps
<1>2. /\ UNCHANGED <<olderLogs, file, olderFiles, promised, ckpt, nextLsn, inflight>>
      /\ ~Staged /\ ~poisoned /\ ckpt.pc # "trimmed"
  BY DEF Stage, StageWriteFails, GateFree, LocksHeld, Staged
<1>3. olderLogs' = {} /\ promised' \subseteq Elems(FirstN(h, d))
  BY <1>2 DEF Covers
<1>4. Settled' = Settled /\ ~Staged' /\ Files' = Files
  BY <1>2 DEF Settled, Staged, Files
<1>5. Full => d >= Settled'
  BY <1>4 DEF Covers
<1>6. CASE UNCHANGED <<cache, platter>>
  <2>1. Pairs' = Pairs
    BY <1>2, <1>6 DEF Pairs, Here
  <2> QED BY <1>3, <1>4, <2>1, CoverAlone
<1>7. CASE CutBackTo(end) /\ Full
  <2>1. cache' = platter'
    BY <1>7 DEF CutBackTo
  <2> QED BY <1>1, <1>3, <1>4, <1>5, <2>1, CoverFlushed
<1>8. CASE CutBackTo(end) /\ ~Full
  <2>1. end = Len(cache) /\ cache \in Seq(Frame)
    <3>1. ckpt.pc # "truncated"
      BY DEF Stage, GateFree, LocksHeld
    <3>2. end = Len(cache)
      BY <1>2, <3>1 DEF Describes, EndOK
    <3> QED BY <3>2, Numbers
  <2>2. 0 \in 0..Len(cache) /\ Len(cache) \in 0..Len(cache)
    BY <2>1
  <2>3. FirstN(cache, end) = cache
    BY <2>1, <2>2, FirstOfFirst
  <2>4. UNCHANGED <<cache, platter>>
    BY <1>8, <2>3 DEF CutBackTo
  <2> QED BY <1>6, <2>4
<1> QED BY <1>6, <1>7, <1>8 DEF StageWriteFails

\* A barrier covers the commit it is for, and everything before it.
LEMMA PublishCovers ==
    ASSUME TypeOK, Plain(scenario), DirectOK, NEW h, Describes(h), NEW d \in 0..Len(h), Covers(h, d),
           Publish, scenario' = scenario
    PROVE  \E e \in 0..Len(h) : Covers(h, e)'
<1> USE DEF process, logFile, ckptFile, told, bounds
<1>1. TypeOK' /\ Describes(h)'
  BY PublishKeeps
<1>2. /\ Staged /\ UNCHANGED <<cache, olderLogs, file, olderFiles, ckpt, nextLsn, poisoned>>
      /\ platter' = (IF Full THEN cache ELSE platter)
      /\ promised' = (IF Full THEN promised \cup {inflight.commit} ELSE promised)
      /\ inflight' = Idle
  BY DEF Publish, Staged
<1>3. ~Staged' /\ Files' = Files
  BY <1>2 DEF Staged, Idle, Files
<1>4. /\ promised \subseteq Elems(h) /\ promised \subseteq Elems(FirstN(h, d)) /\ Len(h) \in Nat
      /\ h \in Seq(Commits) /\ FirstN(h, Len(h)) = h /\ Len(h) \in 0..Len(h)
      /\ Settled \in Nat
  BY CoverParts
<1>5. ~poisoned /\ Len(h) = Settled + 1 /\ h[Len(h)] = inflight.commit
  BY <1>2 DEF Describes, FlightOK
<1>6. olderLogs' = {}
  <2>1. ckpt.pc # "trimmed"
    BY <1>2 DEF Describes, PointOK, LockedOK
  <2> QED BY <1>2, <1>5, <2>1 DEF Covers
<1>7. CASE Full
  <2>1. inflight.commit \in Elems(h)
    <3>1. Len(h) \in DOMAIN h
      BY <1>4, <1>5
    <3> QED BY <1>5, <3>1 DEF Elems
  <2>2. promised' \subseteq Elems(FirstN(h, Len(h))) /\ cache' = platter'
    BY <1>2, <1>4, <1>7, <2>1
  <2>3. Len(h) >= Settled'
    <3>1. Settled' = nextLsn' - 1 /\ nextLsn = Settled + 2
      BY <1>2, <1>3, Numbers DEF Settled
    <3>2. Settled' = Settled + 1
      BY <1>2, <1>4, <3>1
    <3> QED BY <1>4, <1>5, <3>2
  <2>4. Covers(h, Len(h))'
    BY <1>1, <1>3, <1>4, <1>6, <2>2, <2>3, CoverFlushed
  <2> QED BY <1>4, <2>4
<1>8. CASE ~Full
  <2>1. Pairs' = Pairs
    BY <1>2, <1>8 DEF Pairs, Here
  <2>2. promised' \subseteq Elems(FirstN(h, d))
    BY <1>2, <1>4, <1>8
  <2>3. Covers(h, d)'
    BY <1>3, <1>6, <1>8, <2>1, <2>2, CoverAlone
  <2> QED BY <2>3
<1> QED BY <1>7, <1>8

\* Cutting out the commit in flight uncovers nothing.
LEMMA BarrierFailsCovers ==
    ASSUME TypeOK, Plain(scenario), DirectOK, NEW h, Describes(h), NEW d \in 0..Len(h), Covers(h, d),
           BarrierFails, scenario' = scenario
    PROVE  \E g : Describes(g)' /\ \E e \in 0..Len(g) : Covers(g, e)'
<1> USE DEF process, logFile, ckptFile, told, bounds
<1>1. /\ Staged /\ Full /\ UNCHANGED <<olderLogs, file, olderFiles, ckpt, promised>>
      /\ nextLsn' = inflight.lsn /\ inflight' = Idle
  BY DEF BarrierFails, Staged
<1>2. ~poisoned /\ Len(h) = Settled + 1 /\ inflight.lsn = Len(h)
  BY <1>1 DEF Describes, FlightOK
<1>3. /\ promised \subseteq Elems(FirstN(h, d)) /\ d \in Nat /\ d <= Len(h) /\ Len(h) \in Nat
      /\ h \in Seq(Commits) /\ Settled \in Nat /\ d < Len(h) /\ d >= Settled
  BY <1>1, CoverParts DEF Covers
<1>4. ~Staged' /\ Settled' = Settled /\ Files' = Files
  <2>1. ~Staged' /\ Files' = Files
    BY <1>1 DEF Staged, Idle, Files
  <2>2. Settled' = nextLsn' - 1
    BY <2>1 DEF Settled
  <2>3. Settled' = Settled
    BY <1>1, <1>2, <1>3, <2>2
  <2> QED BY <2>1, <2>3
<1>5. olderLogs' = {}
  <2>1. ckpt.pc # "trimmed"
    BY <1>1 DEF Describes, PointOK, LockedOK
  <2> QED BY <1>1, <1>2, <2>1 DEF Covers
<1>6. CASE CutBackTo(inflight.prevEnd) /\ UNCHANGED <<poisoned, stranded>>
  <2> DEFINE g == FirstN(h, Len(h) - 1)
  <2>1. TypeOK' /\ Describes(g)'
    BY <1>6, BarrierFailsCut DEF BarrierFails, Staged
  <2>2. Len(h) - 1 \in 0..Len(h) /\ d \in 0..(Len(h) - 1)
    <3> DEFINE n == Len(h)
    <3>1. n \in Nat /\ d < n
      BY <1>3
    <3> HIDE DEF n
    <3>2. n - 1 \in 0..n /\ d \in 0..(n - 1)
      BY <1>3, <3>1
    <3> QED BY <3>2 DEF n
  <2>3. Len(g) = Len(h) - 1 /\ FirstN(g, d) = FirstN(h, d)
    BY <1>3, <2>2, First, FirstOfFirst
  <2>4. cache' = platter'
    BY <1>1, <1>6 DEF CutBackTo
  <2> HIDE DEF g
  <2>5. d \in 0..Len(g) /\ promised' \subseteq Elems(FirstN(g, d))
    BY <1>1, <1>3, <2>2, <2>3
  <2>6. Covers(g, d)'
    BY <1>3, <1>4, <1>5, <2>1, <2>4, <2>5, CoverFlushed
  <2> QED BY <2>1, <2>5, <2>6
<1>7. CASE /\ poisoned' = TRUE /\ stranded' = stranded \cup {inflight.commit}
            /\ UNCHANGED <<cache, platter>>
  <2>1. Describes(h)'
    BY <1>7, BarrierFailsUncut DEF BarrierFails, Staged
  <2>2. Pairs' = Pairs
    BY <1>1, <1>7 DEF Pairs, Here
  <2>3. promised' \subseteq Elems(FirstN(h, d))
    BY <1>1, <1>3
  <2>4. Covers(h, d)'
    BY <1>4, <1>5, <2>2, <2>3, CoverAlone
  <2> QED BY <2>1, <2>4
<1> QED BY <1>6, <1>7 DEF BarrierFails

\* Power loss takes nothing that is covered, and all that is left is certain.
LEMMA PowerLossCovers ==
    ASSUME TypeOK, Plain(scenario), DirectOK, NEW h, Describes(h), NEW d \in 0..Len(h), Covers(h, d),
           PowerLoss, scenario' = scenario
    PROVE  \E g : Describes(g)' /\ \E e \in 0..Len(g) : Covers(g, e)'
<1>1. PICK log \in LogsAfterPowerLoss, f \in FilesAfterPowerLoss :
        /\ Reopen(f, log)
        /\ cache' = log /\ platter' = log
        /\ file' = f
        /\ acked' = acked \cap Elems(Recovered(f, log))
  BY DEF PowerLoss
<1>2. PICK m : m = LastLsn(f, log)
  OBVIOUS
<1> DEFINE g == FirstN(h, m)
<1>3. TypeOK' /\ Describes(g)'
  BY <1>1, <1>2, PowerLossLeaves DEF PowerLoss
<1>4. d <= m /\ m \in 0..Len(h)
  BY <1>2, CoveredStays
<1>5. /\ promised \subseteq Elems(FirstN(h, d)) /\ d \in Nat /\ d <= Len(h) /\ Len(h) \in Nat
      /\ h \in Seq(Commits)
  BY CoverParts
<1>6. m \in Nat /\ m \in 0..m /\ d \in 0..m
  BY <1>4, <1>5
<1>7. Len(g) = m /\ FirstN(g, m) = g /\ Elems(FirstN(h, d)) \subseteq Elems(g)
  BY <1>4, <1>5, <1>6, First, FirstOfFirst, FirstElems
<1> HIDE DEF g
<1>8. promised' \subseteq Elems(FirstN(g, m)) /\ olderLogs' = {} /\ cache' = platter'
  BY <1>1, <1>5, <1>7 DEF PowerLoss
<1>9. ~Staged' /\ Settled' = m
  <2>1. inflight' = Idle /\ nextLsn' = m + 1
    BY <1>1, <1>2 DEF Reopen
  <2>2. ~Staged'
    BY <2>1 DEF Staged, Idle
  <2> QED BY <1>6, <2>1, <2>2 DEF Settled
<1>10. Covers(g, m)'
  BY <1>3, <1>6, <1>7, <1>8, <1>9, CoverFlushed
<1> QED BY <1>3, <1>6, <1>7, <1>10

\* Every step but a process crash leaves the promises covered.
LEMMA StepCovers ==
    ASSUME TypeOK, Plain(scenario), Certain(scenario), DirectOK, NEW h, Describes(h),
           NEW d \in 0..Len(h), Covers(h, d), Step, scenario' = scenario
    PROVE  \E g : Describes(g)' /\ \E e \in 0..Len(g) : Covers(g, e)'
<1>1. CASE Stage
  <2>1. CASE StageOk
    <3>1. PICK c : c = NewCommit
      OBVIOUS
    <3>2. Describes(Append(h, c))' /\ Covers(Append(h, c), d)'
      BY <1>1, <2>1, <3>1, StageOkKeeps, StageOkCovers
    <3>3. d \in 0..Len(Append(h, c))
      <4>1. c \in Commits
        BY <1>1, <3>1, NewCommitIs DEF Stage
      <4>2. Len(Append(h, c)) = Len(h) + 1 /\ Len(h) \in Nat
        BY <4>1, CoverParts, AppendFirst
      <4> QED BY <4>2
    <3> QED BY <3>2, <3>3
  <2>2. CASE StageWriteFails
    <3>1. Describes(h)' /\ Covers(h, d)'
      BY <1>1, <2>2, StageWriteFailsKeeps, StageWriteFailsCovers
    <3> QED BY <3>1
  <2>3. CASE StageCloneFails
    BY <2>3 DEF StageCloneFails, CanFail, Plain
  <2> QED BY <1>1, <2>1, <2>2, <2>3 DEF Stage
<1>2. CASE BarrierFails
  BY <1>2, BarrierFailsCovers
<1>3. CASE PowerLoss
  BY <1>3, PowerLossCovers
<1>4. CASE ProcessCrash
  BY <1>4 DEF ProcessCrash, Certain
<1>5. CASE Publish
  <2>1. Describes(h)' /\ \E e \in 0..Len(h) : Covers(h, e)'
    BY <1>5, PublishKeeps, PublishCovers
  <2> QED BY <2>1
<1>6. CASE Sync
  <2>1. Describes(h)' /\ \E e \in 0..Len(h) : Covers(h, e)'
    BY <1>6, SyncKeeps, SyncCovers
  <2> QED BY <2>1
<1>7. CASE SyncLogDir
  <2>1. Describes(h)' /\ \E e \in 0..Len(h) : Covers(h, e)'
    BY <1>7, SyncLogDirKeeps, SyncLogDirCovers
  <2> QED BY <2>1
<1>8. CASE SyncTruncation
  <2>1. Describes(h)' /\ Covers(h, Len(h))' /\ Len(h) \in 0..Len(h)
    BY <1>8, SyncTruncationKeeps, SyncTruncationCovers, CoverParts
  <2> QED BY <2>1
<1>9. CASE SaveStart \/ OnlineBarrier
  <2>1. Describes(h)' /\ Covers(h, d)'
    BY <1>9, SaveStartKeeps, OnlineBarrierKeeps, FlushCovers
  <2> QED BY <2>1
<1>10. CASE RenameFile \/ TruncateLog \/ TrimLog
  <2>1. Describes(h)' /\ Covers(h, d)'
    BY <1>10, RenameFileKeeps, RenameFileCovers, TruncateLogKeeps, TruncateLogCovers,
       TrimLogKeeps, TrimLogCovers
  <2> QED BY <2>1
<1>11. CASE \/ OnlineStart \/ MarkDiverged \/ (\E w \in pending : DirectWrite(w))
            \/ CheckpointFails \/ TrimRefused \/ SyncFileDir
  <2>1. Covers(h, d)'
    BY <1>11, QuietCovers
  <2>2. Describes(h)'
    BY <1>11, OnlineStartKeeps, MarkDivergedKeeps, DirectWriteKeeps, CheckpointFailsKeeps,
       TrimRefusedKeeps, SyncFileDirKeeps
  <2> QED BY <2>1, <2>2
<1> QED BY <1>1, <1>2, <1>3, <1>4, <1>5, <1>6, <1>7, <1>8, <1>9, <1>10, <1>11
        DEF Step, CheckpointStep

\* The cover is inductive.
LEMMA NextCover == DataInv /\ CoverInv /\ [Next]_vars => CoverInv'
<1> SUFFICES ASSUME DataInv, CoverInv, [Next]_vars, Certain(scenario)' PROVE CoverInv'
  BY DEF CoverInv
<1>1. scenario' = scenario /\ Certain(scenario)
  BY DEF Next, vars, Certain
<1>2. PICK h \in Seq(Commits) : Describes(h) /\ \E d \in 0..Len(h) : Covers(h, d)
  BY <1>1 DEF CoverInv
<1>3. PICK d \in 0..Len(h) : Covers(h, d)
  BY <1>2
<1>4. TypeOK /\ Plain(scenario) /\ DirectOK
  BY DEF DataInv
<1>5. \E g : Describes(g)' /\ \E e \in 0..Len(g) : Covers(g, e)'
  <2>1. CASE Next
    BY <1>1, <1>2, <1>3, <1>4, <2>1, StepCovers DEF Next
  <2>2. CASE UNCHANGED vars
    <3> USE DEF vars, process, logFile, ckptFile, told, bounds
    <3>1. Pairs' = Pairs /\ Files' = Files /\ Settled' = Settled /\ Staged' = Staged
      BY <2>2 DEF Pairs, Here, Files, Settled, Staged
    <3>2. promised' \subseteq Elems(FirstN(h, d)) /\ (olderLogs' # {} => poisoned' \/ ckpt'.pc = "trimmed")
      BY <1>3, <2>2 DEF Covers
    <3>3. Covers(h, d)'
      BY <1>1, <1>3, <3>1, <3>2, CoverAlone
    <3>4. Settled \in Int /\ Settled <= Settled'
      BY <1>2, <1>4, <3>1, Numbers
    <3>5. DiskOK(h)'
      BY <1>2, <1>4, <2>2, <3>1, <3>4, DiskAlone DEF Describes
    <3>6. OrderOK(h)' /\ ToldOK(h)'
      BY <1>2, <2>2, OrderStands, ToldStands DEF Describes
    <3>7. FlightOK(h)' /\ EndOK'
      BY <1>2, <2>2, <3>1 DEF Describes, FlightOK, EndOK
    <3>8. PointOK(h)'
      BY <1>2, <2>2, <3>1 DEF Describes, PointOK, StampOK, OffsetOK, LockedOK
    <3>9. Describes(h)'
      BY <3>5, <3>6, <3>7, <3>8 DEF Describes
    <3> QED BY <3>3, <3>9
  <2> QED BY <2>1, <2>2
<1>6. PICK g : Describes(g)' /\ \E e \in 0..Len(g) : Covers(g, e)'
  BY <1>5
<1>7. g \in Seq(Commits)
  BY <1>6 DEF Describes
<1> QED BY <1>6, <1>7 DEF CoverInv

\* Nothing is promised yet.
LEMMA InitCover == Init => CoverInv
<1> SUFFICES ASSUME Init PROVE CoverInv
  OBVIOUS
<1>1. TypeOK /\ Describes(<<>>)
  BY InitDescribes
<1>2. <<>> \in Seq(Commits) /\ Len(<<>>) = 0 /\ 0 \in 0..Len(<<>>)
  OBVIOUS
<1>3. ~Staged /\ Settled = 0
  <2>1. ~Staged
    BY DEF Init, Staged, Idle
  <2> QED BY <2>1 DEF Init, Settled
<1>4. \A f \in Files : f.lsn >= 0
  BY <1>1, DiskTypes
<1>5. promised = {} /\ olderLogs = {}
  BY DEF Init
<1>6. Covers(<<>>, 0)
  BY <1>3, <1>4, <1>5 DEF Covers
<1> QED BY <1>1, <1>2, <1>6 DEF CoverInv

\* No power loss takes a commit whose survival was promised: acknowledged under
\* a barrier, synced, or held by a checkpoint that was reported finished.
THEOREM PromisesAreKept ==
    ASSUME \A s \in Scenarios : Plain(s) /\ "process" \notin s.crashes
    PROVE  Spec => []PromisedSurvives
<1>1. Init => CoverInv
  BY InitCover
<1>2. DataInv /\ CoverInv /\ [Next]_vars => CoverInv'
  BY NextCover
<1>3. Spec => []DataInv
  BY DataHolds
<1>4. DataInv /\ CoverInv => PromisedSurvives
  <2> SUFFICES ASSUME DataInv, CoverInv, ~CanFail("logdir"),
                      NEW log \in LogsAfterPowerLoss, NEW f \in FilesAfterPowerLoss
               PROVE  promised \subseteq Elems(Recovered(f, log))
    BY DEF PromisedSurvives
  <2>1. TypeOK /\ scenario \in Scenarios
    BY DEF DataInv, TypeOK
  <2>2. Certain(scenario)
    BY <2>1 DEF Certain, CanFail
  <2>3. PICK h \in Seq(Commits) : Describes(h) /\ \E d \in 0..Len(h) : Covers(h, d)
    BY <2>2 DEF CoverInv
  <2>4. PICK d \in 0..Len(h) : Covers(h, d)
    BY <2>3
  <2>5. promised \subseteq Elems(FirstN(h, d)) /\ d \in Nat /\ Len(h) \in Nat
    BY <2>1, <2>3, <2>4, CoverParts
  <2>6. PICK m : m = LastLsn(f, log)
    OBVIOUS
  <2>7. d <= m /\ m \in 0..Len(h) /\ Recovered(f, log) = FirstN(h, m)
    BY <2>1, <2>3, <2>4, <2>6, CoveredStays, AnyRecovery
  <2>8. d \in 0..m
    BY <2>5, <2>7
  <2>9. Elems(FirstN(h, d)) \subseteq Elems(FirstN(h, m))
    BY <2>7, <2>8, FirstElems
  <2> QED BY <2>5, <2>7, <2>9
<1> QED BY <1>1, <1>2, <1>3, <1>4, PTL DEF Spec
=============================================================================
