------------------------- MODULE Selections_proofs --------------------------
(***************************************************************************)
(* Induction and recursion over the naturals, with the predicate given as  *)
(* a set and the step of the recursion as a function; and from them what   *)
(* the operators on sequences return that the compositions and the graphs  *)
(* are built from: Those, FlattenSeq and FoldLeft.                         *)
(***************************************************************************)
EXTENDS Selections, Integers, FiniteSets, FiniteSetsExt, WellFoundedInduction, TLAPS

\* Every nonempty set of naturals has a least element.
LEMMA LeastNat ==
    ASSUME NEW S \in SUBSET Nat, S # {}
    PROVE  \E m \in S : \A k \in S : m <= k
  <1>1. PICK m \in S : \A k \in S : <<k, m>> \notin OpToRel(<, Nat)
    BY WFMin, NatLessThanWellFounded, Zenon
  <1>2. \A k \in S : ~(k < m)
    BY <1>1, Zenon DEF OpToRel
  <1> QED
    BY <1>2

\* A set that holds 0 and, with a number below n, the next one, holds 0..n.
LEMMA Climb ==
    ASSUME NEW n \in Nat, NEW S, 0 \in S,
           \A k \in Nat : k < n /\ k \in S => k + 1 \in S
    PROVE  \A k \in 0..n : k \in S
  <1> SUFFICES ASSUME (0..n) \ S # {}
               PROVE  FALSE
    OBVIOUS
  <1>0. (0..n) \ S \in SUBSET Nat
    OBVIOUS
  <1>1. PICK m \in (0..n) \ S : \A k \in (0..n) \ S : m <= k
    BY <1>0, LeastNat
  <1>2. m # 0
    OBVIOUS
  <1>3. m - 1 \in Nat /\ m - 1 < n /\ m - 1 \in S /\ (m - 1) + 1 = m
    BY <1>1, <1>2
  <1> QED
    BY <1>3

\* n steps, each a function on V, and what they make of c.
AreSteps(g, n, V) == g \in [1..n -> [V -> V]]

IsRun(f, g, n, V, c) ==
    f \in [0..n -> V] /\ f[0] = c /\ \A i \in 1..n : f[i] = g[i][f[i - 1]]

\* Steps can be run from any c in V.
LEMMA Iterate ==
    ASSUME NEW V, NEW c \in V, NEW n \in Nat, NEW g, AreSteps(g, n, V)
    PROVE  \E f : IsRun(f, g, n, V, c)
  <1> USE DEF AreSteps, IsRun
  <1> DEFINE Runs(k, f) == f[0] = c /\ \A i \in 1..k : f[i] = g[i][f[i - 1]]
             S == {k \in 0..n : \E f \in [0..n -> V] : Runs(k, f)}
  <1>1. 0 \in S
    <2> DEFINE h == [i \in 0..n |-> c]
    <2>1. h \in [0..n -> V] /\ Runs(0, h)
      OBVIOUS
    <2>2. 0 \in 0..n
      OBVIOUS
    <2> HIDE DEF h, Runs
    <2> QED
      BY <2>1, <2>2
  <1>2. ASSUME NEW k \in Nat, k < n, k \in S
        PROVE  k + 1 \in S
    <2>1. PICK f \in [0..n -> V] : Runs(k, f)
      BY <1>2
    <2> DEFINE h == [f EXCEPT ![k + 1] = g[k + 1][f[k]]]
    <2>2. k + 1 \in 1..n /\ k \in 0..n /\ k + 1 \in 0..n
      BY <1>2
    <2>3. g[k + 1][f[k]] \in V
      BY <2>2
    <2>4. h \in [0..n -> V]
      BY <2>3
    <2>5. Runs(k + 1, h)
      <3>1. h[0] = c
        BY <2>1, <2>2
      <3>2. ASSUME NEW i \in 1..(k + 1)
            PROVE  h[i] = g[i][h[i - 1]]
        <4>1. i \in 0..n /\ i - 1 \in 0..n /\ i - 1 # k + 1
          BY <2>2
        <4>2. CASE i = k + 1
          BY <4>1, <4>2, <2>2
        <4>3. CASE i # k + 1
          BY <4>1, <4>3, <2>1
        <4> QED
          BY <4>2, <4>3
      <3> QED
        BY <3>1, <3>2
    <2> QED
      BY <2>2, <2>4, <2>5
  <1>3. n \in S
    <2> HIDE DEF S
    <2>1. \A k \in 0..n : k \in S
      BY <1>1, <1>2, Climb
    <2> QED
      BY <2>1
  <1> QED
    BY <1>3

\* One step, a function on V, and what it makes of c when it is repeated.
IsStep(g, V) == g \in [V -> V]

IsOrbit(f, g, V, c) == f \in [Nat -> V] /\ f[0] = c /\ \A k \in Nat : f[k + 1] = g[f[k]]

\* A step can be repeated for ever.
LEMMA IterateAll ==
    ASSUME NEW V, NEW c \in V, NEW g, IsStep(g, V)
    PROVE  \E f : IsOrbit(f, g, V, c)
  <1> USE DEF IsStep, IsOrbit
  <1> DEFINE Same(n) == [i \in 1..n |-> g]
             Run(n) == CHOOSE r : IsRun(r, Same(n), n, V, c)
             f == [n \in Nat |-> Run(n)[n]]
  <1>1. ASSUME NEW n \in Nat
        PROVE  /\ Run(n) \in [0..n -> V] /\ Run(n)[0] = c
               /\ \A i \in 1..n : Run(n)[i] = g[Run(n)[i - 1]]
    <2>1. AreSteps(Same(n), n, V)
      BY DEF AreSteps
    <2> DEFINE s == Same(n)
    <2>2. \A i \in 1..n : s[i] = g
      OBVIOUS
    <2> HIDE DEF s
    <2>3. \E r : IsRun(r, s, n, V, c)
      BY <2>1, Iterate DEF s
    <2>4. IsRun(Run(n), s, n, V, c)
      BY <2>3 DEF s
    <2> HIDE DEF Run
    <2> QED
      BY <2>2, <2>4 DEF IsRun
  <1> HIDE DEF Run
  <1>2. ASSUME NEW n \in Nat, NEW k \in 0..n
        PROVE  Run(n + 1)[k] = Run(n)[k]
    <2> DEFINE S == {i \in 0..n : Run(n + 1)[i] = Run(n)[i]}
    <2>0. n + 1 \in Nat
      OBVIOUS
    <2>1. 0 \in S
      BY <1>1, <2>0
    <2>2. ASSUME NEW i \in Nat, i < n, i \in S
          PROVE  i + 1 \in S
      <3>1. /\ i + 1 \in 1..n /\ i + 1 \in 1..(n + 1) /\ i + 1 \in 0..n
            /\ (i + 1) - 1 = i
        BY <2>2
      <3> QED
        BY <3>1, <1>1, <2>0, <2>2
    <2> HIDE DEF S
    <2>3. k \in S
      BY <2>1, <2>2, Climb
    <2> QED
      BY <2>3 DEF S
  <1>3. f \in [Nat -> V]
    <2>1. ASSUME NEW n \in Nat PROVE Run(n)[n] \in V
      <3>1. n \in 0..n
        OBVIOUS
      <3> QED
        BY <3>1, <1>1
    <2> QED
      BY <2>1
  <1>4. f[0] = c
    BY <1>1
  <1>5. ASSUME NEW k \in Nat
        PROVE  f[k + 1] = g[f[k]]
    <2>1. k + 1 \in Nat /\ k + 1 \in 1..(k + 1) /\ (k + 1) - 1 = k /\ k \in 0..k
      OBVIOUS
    <2>2. Run(k + 1)[k + 1] = g[Run(k + 1)[k]]
      BY <1>1, <2>1
    <2>3. Run(k + 1)[k] = Run(k)[k]
      BY <1>2, <2>1
    <2>4. f[k + 1] = Run(k + 1)[k + 1] /\ f[k] = Run(k)[k]
      BY <2>1
    <2> QED
      BY <2>2, <2>3, <2>4
  <1> QED
    BY <1>3, <1>4, <1>5

-----------------------------------------------------------------------------
\* Selections and concatenations

\* Runs of a sequence as a recursion: f[k] is what has been made of the first k
\* elements.
IsPick(f, seq, keep, S) ==
    /\ f \in [0..Len(seq) -> Seq(S)] /\ f[0] = <<>>
    /\ \A i \in 1..Len(seq) :
         f[i] = IF i \in keep THEN Append(f[i - 1], seq[i]) ELSE f[i - 1]

LEMMA ThoseRun ==
    ASSUME NEW S, NEW seq \in Seq(S), NEW keep
    PROVE  \E f : IsPick(f, seq, keep, S) /\ Those(seq, keep) = f[Len(seq)]
  <1> DEFINE n == Len(seq)
             V == Seq(S)
             Next(v, i) == IF i \in keep THEN Append(v, seq[i]) ELSE v
             Eq(f) == f = [i \in 0..n |-> IF i = 0 THEN <<>> ELSE Next(f[i - 1], i)]
             g == [i \in 1..n |-> [v \in V |-> Next(v, i)]]
             c == <<>>
  <1>1. n \in Nat /\ c \in V /\ \A i \in 1..n, v \in V : Next(v, i) \in V
    OBVIOUS
  <1>2. AreSteps(g, n, V)
    <2> HIDE DEF n, V, Next
    <2> QED
      BY <1>1 DEF AreSteps
  <1>3. PICK h : IsRun(h, g, n, V, c)
    <2> HIDE DEF n, V, g, c
    <2> QED
      BY <1>1, <1>2, Iterate
  <1>4. Eq(h)
    <2>1. \A i \in 1..n : i - 1 \in 0..n
      BY <1>1
    <2>2. \A i \in 1..n, v \in V : g[i][v] = Next(v, i)
      OBVIOUS
    <2>3. h \in [0..n -> V] /\ h[0] = c /\ \A i \in 1..n : h[i] = g[i][h[i - 1]]
      BY <1>3 DEF IsRun
    <2>4. \A i \in 0..n : h[i] = IF i = 0 THEN c ELSE Next(h[i - 1], i)
      <3> SUFFICES ASSUME NEW i \in 0..n PROVE h[i] = IF i = 0 THEN c ELSE Next(h[i - 1], i)
        OBVIOUS
      <3>1. i = 0 \/ i \in 1..n
        BY <1>1
      <3> HIDE DEF n, V, g, c, Next
      <3> QED
        BY <2>1, <2>2, <2>3, <3>1
    <2> HIDE DEF n, V, g, Next
    <2> QED
      BY <2>3, <2>4
  <1> DEFINE f == CHOOSE f : Eq(f)
  <1>5. Eq(f)
    <2> HIDE DEF Eq
    <2> QED
      BY <1>4
  <1>6. Those(seq, keep) = f[n]
    BY DEF Those
  <1> HIDE DEF f
  <1>7. /\ f = [i \in 0..n |-> f[i]] /\ f[0] = <<>>
        /\ \A i \in 1..n : f[i] = Next(f[i - 1], i)
    <2> HIDE DEF Next, n, V, g
    <2> QED
      BY <1>1, <1>5
  <1>8. \A k \in 0..n : k \in {i \in 0..n : f[i] \in V}
    <2> DEFINE K == {i \in 0..n : f[i] \in V}
    <2>1. 0 \in K
      BY <1>1, <1>7
    <2>2. ASSUME NEW k \in Nat, k < n, k \in K
          PROVE  k + 1 \in K
      <3>1. k + 1 \in 1..n /\ k + 1 \in 0..n /\ (k + 1) - 1 = k /\ f[k] \in V
        BY <1>1, <2>2
      <3> HIDE DEF Next, V, n
      <3> QED
        BY <1>1, <1>7, <3>1
    <2> HIDE DEF K, n
    <2>3. \A k \in 0..n : k \in K
      BY <1>1, <2>1, <2>2, Climb
    <2> QED
      BY <2>3 DEF K
  <1>9. f \in [0..n -> V]
    BY <1>7, <1>8
  <1> QED
    BY <1>6, <1>7, <1>9 DEF IsPick

\* The elements of seq that are to be kept are among those of s.
AreKept(s, seq, keep) ==
    \A i \in keep \cap (1..Len(seq)) : \E j \in 1..Len(s) : s[j] = seq[i]

\* Those picks elements of the sequence, and misses none that it is to keep.
LEMMA ThoseFacts ==
    ASSUME NEW S, NEW seq \in Seq(S), NEW keep
    PROVE  /\ Those(seq, keep) \in Seq({seq[i] : i \in keep \cap (1..Len(seq))})
           /\ Those(seq, keep) \in Seq(S)
           /\ AreKept(Those(seq, keep), seq, keep)
  <1> DEFINE n == Len(seq)
             T == {seq[i] : i \in keep \cap (1..n)}
             Has(s, k) == \A i \in keep \cap (1..k) : \E j \in 1..Len(s) : s[j] = seq[i]
  <1>1. PICK f : IsPick(f, seq, keep, S) /\ Those(seq, keep) = f[n]
    BY ThoseRun
  <1>2. n \in Nat
    OBVIOUS
  <1>3. \A k \in 0..n : k \in {i \in 0..n : f[i] \in Seq(T) /\ Has(f[i], i)}
    <2> DEFINE K == {i \in 0..n : f[i] \in Seq(T) /\ Has(f[i], i)}
    <2>1. 0 \in K
      BY <1>1, <1>2 DEF IsPick
    <2>2. ASSUME NEW k \in Nat, k < n, k \in K
          PROVE  k + 1 \in K
      <3>1. k + 1 \in 1..n /\ k + 1 \in 0..n /\ (k + 1) - 1 = k /\ f[k] \in Seq(T) /\ Has(f[k], k)
        <4> HIDE DEF Has, T, n
        <4> QED
          BY <1>2, <2>2
      <3>2. CASE k + 1 \in keep
        <4>1. f[k + 1] = Append(f[k], seq[k + 1])
          BY <1>1, <3>1, <3>2 DEF IsPick
        <4>2. seq[k + 1] \in T
          BY <3>1, <3>2
        <4> HIDE DEF T, n
        <4>3. /\ f[k + 1] \in Seq(T) /\ Len(f[k + 1]) = Len(f[k]) + 1
              /\ f[k + 1][Len(f[k]) + 1] = seq[k + 1]
              /\ \A j \in 1..Len(f[k]) : f[k + 1][j] = f[k][j]
              /\ Len(f[k]) \in Nat
          BY <3>1, <4>1, <4>2
        <4>4. Has(f[k + 1], k + 1)
          <5> SUFFICES ASSUME NEW i \in keep \cap (1..(k + 1))
                       PROVE  \E j \in 1..Len(f[k + 1]) : f[k + 1][j] = seq[i]
            OBVIOUS
          <5>1. i = k + 1 \/ i \in keep \cap (1..k)
            OBVIOUS
          <5>2. CASE i = k + 1
            BY <4>3, <5>2
          <5>3. CASE i \in keep \cap (1..k)
            <6>1. PICK j \in 1..Len(f[k]) : f[k][j] = seq[i]
              BY <3>1, <5>3
            <6> QED
              BY <4>3, <6>1
          <5> QED
            BY <5>1, <5>2, <5>3
        <4> QED
          BY <3>1, <4>3, <4>4
      <3>3. CASE k + 1 \notin keep
        <4>1. f[k + 1] = f[k]
          BY <1>1, <3>1, <3>3 DEF IsPick
        <4>2. \A i \in keep \cap (1..(k + 1)) : i \in keep \cap (1..k)
          BY <3>3
        <4> QED
          BY <3>1, <4>1, <4>2
      <3> QED
        BY <3>2, <3>3
    <2> HIDE DEF K, n
    <2>3. \A k \in 0..n : k \in K
      BY <1>2, <2>1, <2>2, Climb
    <2> QED
      BY <2>3 DEF K
  <1>4. n \in 0..n
    BY <1>2
  <1>5. f[n] \in Seq(S)
    BY <1>1, <1>4 DEF IsPick
  <1> QED
    BY <1>1, <1>3, <1>4, <1>5 DEF AreKept

\* The only element that is kept.
LEMMA ThoseOne ==
    ASSUME NEW S, NEW seq \in Seq(S), NEW keep, NEW m \in 1..Len(seq),
           keep \cap (1..Len(seq)) = {m}
    PROVE  Those(seq, keep) = <<seq[m]>>
  <1> DEFINE n == Len(seq)
  <1>1. PICK f : IsPick(f, seq, keep, S) /\ Those(seq, keep) = f[n]
    BY ThoseRun
  <1>2. n \in Nat
    OBVIOUS
  <1> DEFINE Made(k) == IF k < m THEN <<>> ELSE <<seq[m]>>
  <1>3. \A k \in 0..n : k \in {i \in 0..n : f[i] = Made(i)}
    <2> DEFINE K == {i \in 0..n : f[i] = Made(i)}
    <2>1. 0 \in K
      BY <1>1, <1>2 DEF IsPick
    <2>2. ASSUME NEW k \in Nat, k < n, k \in K
          PROVE  k + 1 \in K
      <3>1. k + 1 \in 1..n /\ k + 1 \in 0..n /\ (k + 1) - 1 = k /\ f[k] = Made(k)
        BY <1>2, <2>2
      <3>2. f[k + 1] = IF k + 1 \in keep THEN Append(f[k], seq[k + 1]) ELSE f[k]
        BY <1>1, <3>1 DEF IsPick
      <3>3. k + 1 \in keep <=> k + 1 = m
        BY <3>1
      <3>4. CASE k + 1 = m
        <4>1. f[k] = <<>> /\ Made(k + 1) = <<seq[m]>>
          BY <3>1, <3>4
        <4> HIDE DEF Made
        <4> QED
          BY <3>1, <3>2, <3>3, <3>4, <4>1
      <3>5. CASE k + 1 # m
        <4>1. Made(k + 1) = Made(k)
          BY <3>5
        <4> HIDE DEF Made
        <4> QED
          BY <3>1, <3>2, <3>3, <3>5, <4>1
      <3> QED
        BY <3>4, <3>5
    <2> HIDE DEF K, n
    <2>3. \A k \in 0..n : k \in K
      BY <1>2, <2>1, <2>2, Climb
    <2> QED
      BY <2>3 DEF K
  <1> QED
    BY <1>1, <1>2, <1>3

\* Nothing is kept.
LEMMA ThoseNone ==
    ASSUME NEW S, NEW seq \in Seq(S), NEW keep, keep \cap (1..Len(seq)) = {}
    PROVE  Those(seq, keep) = <<>>
  <1>1. {seq[i] : i \in keep \cap (1..Len(seq))} = {}
    OBVIOUS
  <1>2. Those(seq, keep) \in Seq({})
    BY <1>1, ThoseFacts
  <1>3. ASSUME NEW t \in Seq({}) PROVE t = <<>>
    <2>1. Len(t) = 0
      <3> SUFFICES ASSUME Len(t) # 0 PROVE FALSE
        OBVIOUS
      <3>1. 1 \in 1..Len(t)
        OBVIOUS
      <3> QED
        BY <3>1
    <2> QED
      BY <2>1
  <1> QED
    BY <1>2, <1>3

-----------------------------------------------------------------------------
\* f[k] is the concatenation of the first k sequences.
IsConcat(f, ss, S) ==
    /\ f \in [0..Len(ss) -> Seq(S)] /\ f[0] = <<>>
    /\ \A i \in 1..Len(ss) : f[i] = f[i - 1] \o ss[i]

LEMMA FlattenRun ==
    ASSUME NEW S, NEW ss \in Seq(Seq(S))
    PROVE  \E f : IsConcat(f, ss, S) /\ FlattenSeq(ss) = f[Len(ss)]
  <1> DEFINE n == Len(ss)
             V == Seq(S)
             g == [i \in 1..n |-> [v \in V |-> v \o ss[i]]]
             c == <<>>
             Eq(f) == f = [i \in 1..n |-> IF i = 1 THEN ss[i] ELSE f[i - 1] \o ss[i]]
  <1>1. n \in Nat /\ c \in V /\ \A i \in 1..n : ss[i] \in V
    OBVIOUS
  <1>2. AreSteps(g, n, V)
    <2>1. \A i \in 1..n, v \in V : v \o ss[i] \in V
      OBVIOUS
    <2> HIDE DEF n, V
    <2> QED
      BY <2>1 DEF AreSteps
  <1>3. PICK h : IsRun(h, g, n, V, c)
    <2> HIDE DEF n, V, g, c
    <2> QED
      BY <1>1, <1>2, Iterate
  <1>4. h \in [0..n -> V] /\ h[0] = <<>> /\ \A i \in 1..n : h[i] = h[i - 1] \o ss[i]
    <2>1. \A i \in 1..n : i - 1 \in 0..n
      BY <1>1
    <2>2. \A i \in 1..n, v \in V : g[i][v] = v \o ss[i]
      OBVIOUS
    <2>3. h \in [0..n -> V] /\ h[0] = c /\ \A i \in 1..n : h[i] = g[i][h[i - 1]]
      BY <1>3 DEF IsRun
    <2>4. \A i \in 1..n : h[i - 1] \in V
      BY <2>1, <2>3
    <2> HIDE DEF n, V, g
    <2> QED
      BY <2>2, <2>3, <2>4
  <1>5. IsConcat(h, ss, S)
    BY <1>4 DEF IsConcat
  <1>6. CASE n = 0
    <2>1. ss = <<>> /\ FlattenSeq(ss) = ss
      BY <1>6 DEF FlattenSeq
    <2> QED
      BY <1>4, <1>5, <1>6, <2>1
  <1>7. CASE n # 0
    <2> DEFINE p == [i \in 1..n |-> h[i]]
               f == CHOOSE f : Eq(f)
    <2>1. Eq(p)
      <3>1. 1 \in 1..n /\ h[1] = ss[1]
        <4>1. 1 \in 1..n /\ h[1] = h[0] \o ss[1]
          <5>1. 1 \in 1..n /\ 1 - 1 = 0
            BY <1>1, <1>7
          <5> HIDE DEF n, V, p, g, f, Eq
          <5>2. h[1] = h[1 - 1] \o ss[1]
            BY <1>4, <5>1
          <5> QED
            BY <5>1, <5>2
        <4>2. \A t \in V : <<>> \o t = t
          OBVIOUS
        <4> HIDE DEF V
        <4> QED
          BY <1>1, <1>4, <4>1, <4>2
      <3>2. \A i \in 1..n : i # 1 => i - 1 \in 1..n
        BY <1>1
      <3>3. \A i \in 1..n : h[i] = IF i = 1 THEN ss[i] ELSE p[i - 1] \o ss[i]
        <4> HIDE DEF n, V
        <4> QED
          BY <1>4, <3>1, <3>2
      <3> QED
        BY <3>3
    <2>2. Eq(f)
      <3> HIDE DEF Eq
      <3> QED
        BY <2>1
    <2>3. FlattenSeq(ss) = f[n]
      BY <1>7 DEF FlattenSeq
    <2> HIDE DEF f
    <2>4. \A i \in 1..n : f[i] = IF i = 1 THEN ss[i] ELSE f[i - 1] \o ss[i]
      <3> HIDE DEF n
      <3> QED
        BY <2>2
    <2>5. \A k \in 0..n : k \in {i \in 0..n : i = 0 \/ f[i] = h[i]}
      <3> DEFINE K == {i \in 0..n : i = 0 \/ f[i] = h[i]}
      <3>1. 0 \in K
        BY <1>1
      <3>2. ASSUME NEW k \in Nat, k < n, k \in K
            PROVE  k + 1 \in K
        <4>1. k + 1 \in 1..n /\ k + 1 \in 0..n /\ (k + 1) - 1 = k /\ (k = 0 \/ f[k] = h[k])
          BY <1>1, <3>2
        <4>0. /\ f[k + 1] = IF k + 1 = 1 THEN ss[k + 1] ELSE f[(k + 1) - 1] \o ss[k + 1]
              /\ h[k + 1] = h[(k + 1) - 1] \o ss[k + 1]
          <5> HIDE DEF n, V, p, g, K, Eq
          <5> QED
            BY <1>4, <2>4, <4>1
        <4>2. CASE k = 0
          <5>1. f[k + 1] = ss[k + 1] /\ h[k + 1] = <<>> \o ss[k + 1] /\ ss[k + 1] \in V
            BY <1>1, <1>4, <4>0, <4>1, <4>2
          <5>2. \A t \in V : <<>> \o t = t
            OBVIOUS
          <5> QED
            BY <4>1, <5>1, <5>2
        <4>3. CASE k # 0
          <5>0. k + 1 # 1
            BY <4>3
          <5>1. f[k + 1] = f[k] \o ss[k + 1] /\ h[k + 1] = h[k] \o ss[k + 1]
            <6> HIDE DEF n, V, p, g, K, Eq
            <6> QED
              BY <4>0, <4>1, <5>0
          <5> QED
            BY <4>1, <4>3, <5>1
        <4> QED
          BY <4>2, <4>3
      <3> HIDE DEF K, n
      <3>3. \A k \in 0..n : k \in K
        BY <1>1, <3>1, <3>2, Climb
      <3> QED
        BY <3>3 DEF K
    <2>6. f[n] = h[n]
      BY <1>1, <1>7, <2>5
    <2> QED
      BY <1>5, <2>3, <2>6
  <1> QED
    BY <1>6, <1>7

\* Two runs make the same of a common prefix.
LEMMA ConcatPrefix ==
    ASSUME NEW S, NEW T, NEW ss, NEW tt, NEW f, NEW h, IsConcat(f, ss, S), IsConcat(h, tt, T),
           NEW n \in Nat, n <= Len(ss), n <= Len(tt), Len(ss) \in Nat, Len(tt) \in Nat,
           \A i \in 1..n : ss[i] = tt[i]
    PROVE  f[n] = h[n]
  <1> DEFINE K == {i \in 0..n : f[i] = h[i]}
  <1>1. 0 \in K
    BY DEF IsConcat
  <1>2. ASSUME NEW k \in Nat, k < n, k \in K
        PROVE  k + 1 \in K
    <2>1. /\ k + 1 \in 1..n /\ k + 1 \in 0..n /\ (k + 1) - 1 = k /\ f[k] = h[k]
          /\ k + 1 \in 1..Len(ss) /\ k + 1 \in 1..Len(tt)
      BY <1>2
    <2>2. f[k + 1] = f[k] \o ss[k + 1] /\ h[k + 1] = h[k] \o tt[k + 1]
      BY <2>1 DEF IsConcat
    <2> QED
      BY <2>1, <2>2
  <1> HIDE DEF K
  <1>3. \A k \in 0..n : k \in K
    BY <1>1, <1>2, Climb
  <1> QED
    BY <1>3 DEF K

\* The concatenation has the elements of the sequences.
LEMMA FlattenFacts ==
    ASSUME NEW S, NEW ss \in Seq(Seq(S))
    PROVE  /\ FlattenSeq(ss) \in Seq(S)
           /\ \A k \in 1..Len(FlattenSeq(ss)) :
                \E i \in 1..Len(ss) : \E j \in 1..Len(ss[i]) : FlattenSeq(ss)[k] = ss[i][j]
  <1> DEFINE n == Len(ss)
             T == UNION {{ss[i][j] : j \in 1..Len(ss[i])} : i \in 1..n}
  <1>1. n \in Nat /\ \A i \in 1..n : ss[i] \in Seq(S)
    OBVIOUS
  <1>2. \A i \in 1..n : ss[i] \in Seq(T)
    <2> SUFFICES ASSUME NEW i \in 1..n PROVE ss[i] \in Seq(T)
      OBVIOUS
    <2>1. ASSUME NEW j \in 1..Len(ss[i]) PROVE ss[i][j] \in T
      <3>1. ss[i][j] \in {ss[i][m] : m \in 1..Len(ss[i])}
        OBVIOUS
      <3> QED
        BY <3>1
    <2> DEFINE s == ss[i]
    <2>2. s \in Seq(S) /\ \A j \in 1..Len(s) : s[j] \in T
      BY <1>1, <2>1
    <2> HIDE DEF T, n, s
    <2>3. s \in Seq(T)
      BY <2>2
    <2> QED
      BY <2>3 DEF s
  <1>3. ss \in Seq(Seq(T))
    <2> HIDE DEF T
    <2> QED
      BY <1>2
  <1>4. PICK f : IsConcat(f, ss, T) /\ FlattenSeq(ss) = f[Len(ss)]
    <2> HIDE DEF T
    <2> QED
      BY <1>3, FlattenRun
  <1>5. PICK h : IsConcat(h, ss, S) /\ FlattenSeq(ss) = h[Len(ss)]
    BY FlattenRun
  <1>6. FlattenSeq(ss) \in Seq(T) /\ FlattenSeq(ss) \in Seq(S)
    <2>1. Len(ss) \in 0..Len(ss)
      OBVIOUS
    <2> HIDE DEF T
    <2> QED
      BY <1>4, <1>5, <2>1 DEF IsConcat
  <1>7. \A k \in 1..Len(FlattenSeq(ss)) : FlattenSeq(ss)[k] \in T
    <2> HIDE DEF T
    <2> QED
      BY <1>6
  <1> QED
    BY <1>6, <1>7

LEMMA FlattenAppend ==
    ASSUME NEW S, NEW ss \in Seq(Seq(S)), NEW s \in Seq(S)
    PROVE  FlattenSeq(Append(ss, s)) = FlattenSeq(ss) \o s
  <1> DEFINE n == Len(ss)
             tt == Append(ss, s)
  <1>1. /\ n \in Nat /\ tt \in Seq(Seq(S)) /\ Len(tt) = n + 1 /\ tt[n + 1] = s
        /\ \A i \in 1..n : ss[i] = tt[i]
    OBVIOUS
  <1>2. PICK f : IsConcat(f, ss, S) /\ FlattenSeq(ss) = f[n]
    BY FlattenRun
  <1>3. PICK h : IsConcat(h, tt, S) /\ FlattenSeq(tt) = h[Len(tt)]
    <2> HIDE DEF tt
    <2> QED
      BY <1>1, FlattenRun
  <1> HIDE DEF n, tt
  <1>4. f[n] = h[n]
    <2>1. n = Len(ss) /\ n <= Len(ss) /\ Len(ss) \in Nat /\ n <= Len(tt) /\ Len(tt) \in Nat
      BY <1>1 DEF n
    <2>2. n \in Nat /\ \A i \in 1..n : ss[i] = tt[i]
      BY <1>1
    <2>3. IsConcat(f, ss, S) /\ IsConcat(h, tt, S)
      BY <1>2, <1>3
    <2>4. ASSUME NEW N \in Nat, N <= Len(ss), N <= Len(tt), \A i \in 1..N : ss[i] = tt[i]
          PROVE  f[N] = h[N]
      BY <2>1, <2>3, <2>4, ConcatPrefix
    <2> QED
      BY <2>1, <2>2, <2>3, <2>4
  <1>5. h[n + 1] = h[n] \o s
    <2>1. n + 1 \in 1..Len(tt) /\ (n + 1) - 1 = n
      BY <1>1
    <2> QED
      BY <1>1, <1>3, <2>1 DEF IsConcat
  <1> QED
    BY <1>1, <1>2, <1>3, <1>4, <1>5 DEF tt

\* Only one of the sequences has elements.
LEMMA FlattenOne ==
    ASSUME NEW S, NEW ss \in Seq(Seq(S)), NEW m \in 1..Len(ss),
           \A i \in 1..Len(ss) : i # m => ss[i] = <<>>
    PROVE  FlattenSeq(ss) = ss[m]
  <1> DEFINE n == Len(ss)
  <1>1. n \in Nat /\ m \in 1..n /\ ss[m] \in Seq(S)
    OBVIOUS
  <1>2. PICK f : IsConcat(f, ss, S) /\ FlattenSeq(ss) = f[n]
    BY FlattenRun
  <1> DEFINE K == {i \in 0..n : f[i] = IF i < m THEN <<>> ELSE ss[m]}
  <1>3. 0 \in K
    BY <1>1, <1>2 DEF IsConcat
  <1>4. ASSUME NEW k \in Nat, k < n, k \in K
        PROVE  k + 1 \in K
    <2>1. /\ k + 1 \in 1..n /\ k + 1 \in 0..n /\ (k + 1) - 1 = k
          /\ f[k] = IF k < m THEN <<>> ELSE ss[m]
      BY <1>1, <1>4
    <2>2. f[k + 1] = f[k] \o ss[k + 1]
      BY <1>2, <2>1 DEF IsConcat
    <2>3. \A t \in Seq(S) : <<>> \o t = t /\ t \o <<>> = t
      OBVIOUS
    <2>4. CASE k + 1 < m
      <3>1. k < m /\ ss[k + 1] = <<>>
        BY <2>1, <2>4
      <3> QED
        BY <2>1, <2>2, <2>3, <2>4, <3>1
    <2>5. CASE k + 1 = m
      <3>0. k < m /\ ~(k + 1 < m)
        BY <2>5
      <3>1. f[k] = <<>>
        BY <2>1, <3>0
      <3>2. f[k + 1] = <<>> \o ss[m]
        <4> HIDE DEF n, K
        <4> QED
          BY <2>2, <2>5, <3>1
      <3> QED
        BY <1>1, <2>1, <2>3, <3>0, <3>2
    <2>6. CASE k + 1 > m
      <3>1. ~(k < m) /\ ss[k + 1] = <<>>
        BY <1>1, <2>1, <2>6
      <3> QED
        BY <1>1, <2>1, <2>2, <2>3, <2>6, <3>1
    <2> QED
      BY <1>1, <2>1, <2>4, <2>5, <2>6
  <1> HIDE DEF K, n
  <1>5. \A k \in 0..n : k \in K
    BY <1>1, <1>3, <1>4, Climb
  <1>6. n \in K /\ ~(n < m)
    BY <1>1, <1>5
  <1> QED
    BY <1>2, <1>6 DEF K

\* Each of the sequences is a single element.
LEMMA FlattenSingles ==
    ASSUME NEW S, NEW s \in Seq(S)
    PROVE  FlattenSeq([i \in 1..Len(s) |-> <<s[i]>>]) = s
  <1> DEFINE n == Len(s)
             ss == [i \in 1..n |-> <<s[i]>>]
  <1>1. n \in Nat /\ ss \in Seq(Seq(S)) /\ Len(ss) = n /\ \A i \in 1..n : ss[i] = <<s[i]>>
    OBVIOUS
  <1> HIDE DEF ss
  <1>2. PICK f : IsConcat(f, ss, S) /\ FlattenSeq(ss) = f[n]
    BY <1>1, FlattenRun
  <1> DEFINE Made(k) == SubSeq(s, 1, k)
             K == {i \in 0..n : f[i] = Made(i)}
  <1>3. 0 \in K
    BY <1>1, <1>2 DEF IsConcat
  <1>4. ASSUME NEW k \in Nat, k < n, k \in K
        PROVE  k + 1 \in K
    <2>1. k + 1 \in 1..n /\ k + 1 \in 0..n /\ (k + 1) - 1 = k /\ f[k] = Made(k)
      BY <1>1, <1>4
    <2>2. f[k + 1] = f[k] \o <<s[k + 1]>>
      BY <1>1, <1>2, <2>1 DEF IsConcat
    <2>3. Made(k + 1) = Made(k) \o <<s[k + 1]>>
      BY <1>1, <2>1
    <2> QED
      BY <2>1, <2>2, <2>3
  <1> HIDE DEF K, n, Made
  <1>5. \A k \in 0..n : k \in K
    BY <1>1, <1>3, <1>4, Climb
  <1>6. f[n] = SubSeq(s, 1, n)
    BY <1>1, <1>5 DEF K, Made
  <1>7. SubSeq(s, 1, n) = s
    BY DEF n
  <1> QED
    BY <1>2, <1>6, <1>7 DEF ss, n

-----------------------------------------------------------------------------
\* A nonempty set of positions has a last one.
LEMMA LastPosition ==
    ASSUME NEW n \in Nat, NEW s \in SUBSET (1..n), s # {}
    PROVE  Max(s) \in s /\ \A y \in s : Max(s) >= y
  <1> DEFINE R == {n - y : y \in s}
  <1>1. R \in SUBSET Nat /\ R # {}
    <2>1. \A y \in s : n - y \in Nat
      OBVIOUS
    <2>2. PICK y : y \in s
      OBVIOUS
    <2> QED
      BY <2>1, <2>2
  <1>2. PICK m \in R : \A k \in R : m <= k
    BY <1>1, LeastNat
  <1>3. PICK x \in s : m = n - x
    BY <1>2
  <1>4. \A y \in s : x >= y
    <2> TAKE y \in s
    <2>1. n - x <= n - y
      BY <1>2, <1>3
    <2> QED
      BY <2>1
  <1> QED
    BY <1>3, <1>4 DEF Max

LEMMA MaxOfPrefix ==
    ASSUME NEW k \in Nat \ {0}
    PROVE  Max(1..k) = k /\ (1..k) \ {k} = 1..(k - 1)
  <1>1. (1..k) \in SUBSET (1..k) /\ 1..k # {} /\ k \in 1..k
    OBVIOUS
  <1> DEFINE s == 1..k
  <1>2. Max(s) \in s /\ \A y \in s : Max(s) >= y
    BY <1>1, LastPosition
  <1>3. Max(s) = k
    BY <1>1, <1>2
  <1> QED
    BY <1>3

\* What FoldLeft computes with the steps g: a function of the sets of positions.
IsFold(it, g, n, c) ==
    it = [s \in SUBSET (1..n) |-> IF s = {} THEN c ELSE g[Max(s)][it[s \ {Max(s)}]]]

LEMMA FoldExists ==
    ASSUME NEW V, NEW c \in V, NEW n \in Nat, NEW g, AreSteps(g, n, V)
    PROVE  \E it \in [SUBSET (1..n) -> V] : IsFold(it, g, n, c)
  <1> DEFINE Of(s) == [i \in 1..n |-> [v \in V |-> IF i \in s THEN g[i][v] ELSE v]]
             R(s) == CHOOSE r : IsRun(r, Of(s), n, V, c)
             it == [s \in SUBSET (1..n) |-> R(s)[n]]
  <1>1. ASSUME NEW s
        PROVE  /\ R(s) \in [0..n -> V] /\ R(s)[0] = c
               /\ \A i \in 1..n : R(s)[i] = IF i \in s THEN g[i][R(s)[i - 1]] ELSE R(s)[i - 1]
    <2> DEFINE h == Of(s)
    <2>1. AreSteps(h, n, V)
      BY DEF AreSteps
    <2>2. \A i \in 1..n, v \in V : h[i][v] = IF i \in s THEN g[i][v] ELSE v
      OBVIOUS
    <2> HIDE DEF h
    <2>3. \E r : IsRun(r, h, n, V, c)
      BY <2>1, Iterate
    <2>4. IsRun(R(s), h, n, V, c)
      BY <2>3 DEF h
    <2> HIDE DEF R
    <2>5. \A i \in 1..n : i - 1 \in 0..n
      OBVIOUS
    <2>6. R(s) \in [0..n -> V] /\ R(s)[0] = c /\ \A i \in 1..n : R(s)[i] = h[i][R(s)[i - 1]]
      BY <2>4 DEF IsRun
    <2> QED
      BY <2>2, <2>5, <2>6
  <1> HIDE DEF R
  <1>2. it \in [SUBSET (1..n) -> V]
    <2>1. n \in 0..n
      OBVIOUS
    <2> QED
      BY <1>1, <2>1
  <1>3. ASSUME NEW s \in SUBSET (1..n), s # {}
        PROVE  R(s)[n] = g[Max(s)][R(s \ {Max(s)})[n]]
    <2> DEFINE m == Max(s)
               t == s \ {m}
    <2>1. m \in s /\ m \in 1..n /\ \A y \in s : m >= y
      BY <1>3, LastPosition
    <2> HIDE DEF m
    <2>2. /\ \A i \in 1..n : i < m => (i \in s <=> i \in t)
          /\ \A i \in 1..n : i > m => i \notin s
          /\ \A i \in 1..n : i >= m => i \notin t
      BY <2>1
    <2> HIDE DEF t
    <2> DEFINE K == {i \in 0..n : /\ i < m => R(s)[i] = R(t)[i]
                                  /\ i >= m => R(t)[i] = R(t)[m - 1]
                                  /\ i >= m => R(s)[i] = g[m][R(t)[m - 1]]}
    <2>3. 0 \in K
      BY <1>1, <2>1
    <2>4. ASSUME NEW k \in Nat, k < n, k \in K
          PROVE  k + 1 \in K
      <3>1. /\ k + 1 \in 1..n /\ k + 1 \in 0..n /\ (k + 1) - 1 = k
            /\ k < m => R(s)[k] = R(t)[k]
            /\ k >= m => R(t)[k] = R(t)[m - 1]
            /\ k >= m => R(s)[k] = g[m][R(t)[m - 1]]
        BY <2>4
      <3>2. /\ R(s)[k + 1] = IF k + 1 \in s THEN g[k + 1][R(s)[k]] ELSE R(s)[k]
            /\ R(t)[k + 1] = IF k + 1 \in t THEN g[k + 1][R(t)[k]] ELSE R(t)[k]
        BY <1>1, <3>1
      <3>3. CASE k + 1 < m
        <4>1. k < m /\ (k + 1 \in s <=> k + 1 \in t)
          BY <2>1, <2>2, <3>1, <3>3
        <4>2. R(s)[k + 1] = R(t)[k + 1] /\ ~(k + 1 >= m)
          BY <2>1, <3>1, <3>2, <3>3, <4>1
        <4> QED
          BY <3>1, <3>3, <4>2
      <3>4. CASE k + 1 = m
        <4>1. k < m /\ m - 1 = k /\ k + 1 \in s /\ k + 1 \notin t
          BY <2>1, <2>2, <3>1, <3>4
        <4>2. R(t)[k + 1] = R(t)[m - 1] /\ R(s)[k + 1] = g[m][R(t)[m - 1]]
          BY <3>1, <3>2, <3>4, <4>1
        <4>3. ~(k + 1 < m)
          BY <3>4
        <4> QED
          BY <3>1, <4>2, <4>3
      <3>5. CASE k + 1 > m
        <4>1. k >= m /\ k + 1 \notin s /\ k + 1 \notin t /\ ~(k + 1 < m)
          BY <2>1, <2>2, <3>1, <3>5
        <4>2. R(t)[k + 1] = R(t)[m - 1] /\ R(s)[k + 1] = g[m][R(t)[m - 1]]
          BY <3>1, <3>2, <4>1
        <4> QED
          BY <3>1, <4>1, <4>2
      <3> QED
        BY <2>1, <3>3, <3>4, <3>5
    <2> HIDE DEF K
    <2>5. \A k \in 0..n : k \in K
      BY <2>3, <2>4, Climb
    <2>6. n \in K /\ n >= m
      BY <2>1, <2>5
    <2>7. R(s)[n] = g[m][R(t)[n]]
      BY <2>6 DEF K
    <2> QED
      BY <2>7 DEF m, t
  <1>4. R({})[n] = c
    <2> DEFINE K == {i \in 0..n : R({})[i] = c}
    <2>1. 0 \in K
      BY <1>1
    <2>2. ASSUME NEW k \in Nat, k < n, k \in K
          PROVE  k + 1 \in K
      <3>1. k + 1 \in 1..n /\ k + 1 \in 0..n /\ (k + 1) - 1 = k /\ R({})[k] = c
        BY <2>2
      <3>2. R({})[k + 1] = IF k + 1 \in {} THEN g[k + 1][R({})[k]] ELSE R({})[k]
        BY <1>1, <3>1
      <3> QED
        BY <3>1, <3>2
    <2> HIDE DEF K
    <2>3. \A k \in 0..n : k \in K
      BY <2>1, <2>2, Climb
    <2> QED
      BY <2>3 DEF K
  <1>5. \A s \in SUBSET (1..n) :
          R(s)[n] = IF s = {} THEN c ELSE g[Max(s)][it[s \ {Max(s)}]]
    <2> SUFFICES ASSUME NEW s \in SUBSET (1..n)
                 PROVE  R(s)[n] = IF s = {} THEN c ELSE g[Max(s)][it[s \ {Max(s)}]]
      OBVIOUS
    <2>1. it[s \ {Max(s)}] = R(s \ {Max(s)})[n]
      OBVIOUS
    <2> HIDE DEF it
    <2> QED
      BY <1>3, <1>4, <2>1
  <1>6. IsFold(it, g, n, c)
    BY <1>5 DEF IsFold
  <1> QED
    BY <1>2, <1>6

\* What is folded over the first positions is a run of the steps.
LEMMA FoldRuns ==
    ASSUME NEW V, NEW c \in V, NEW n \in Nat, NEW g, AreSteps(g, n, V),
           NEW it, it[{}] = c,
           \A k \in 1..n : it[1..(k - 1)] \in V => it[1..k] = g[k][it[1..(k - 1)]]
    PROVE  \E f : IsRun(f, g, n, V, c) /\ it[1..n] = f[n]
  <1>1. PICK f : IsRun(f, g, n, V, c)
    BY Iterate
  <1> DEFINE K == {i \in 0..n : it[1..i] = f[i]}
  <1>2. 0 \in K
    <2>1. 1..0 = {}
      OBVIOUS
    <2> QED
      BY <1>1, <2>1 DEF IsRun
  <1>3. ASSUME NEW k \in Nat, k < n, k \in K
        PROVE  k + 1 \in K
    <2>1. k + 1 \in 1..n /\ k + 1 \in 0..n /\ (k + 1) - 1 = k /\ it[1..k] = f[k] /\ k \in 0..n
      BY <1>3
    <2>2. f[k] \in V /\ f[k + 1] = g[k + 1][f[k]]
      BY <1>1, <2>1 DEF IsRun
    <2>3. it[1..(k + 1)] = g[k + 1][it[1..k]]
      BY <2>1, <2>2
    <2> QED
      BY <2>1, <2>2, <2>3
  <1> HIDE DEF K
  <1>4. \A k \in 0..n : k \in K
    BY <1>2, <1>3, Climb
  <1>5. n \in K
    BY <1>4
  <1> QED
    BY <1>1, <1>5 DEF K

\* The sequences given by a function.
LEMMA FlattenType ==
    ASSUME NEW S, NEW n \in Nat, NEW ss \in [1..n -> Seq(S)]
    PROVE  ss \in Seq(Seq(S)) /\ Len(ss) = n /\ FlattenSeq(ss) \in Seq(S)
  <1>1. ss \in Seq(Seq(S)) /\ Len(ss) = n
    OBVIOUS
  <1> QED
    BY <1>1, FlattenFacts

\* Two runs of the same steps agree.
LEMMA RunsAgree ==
    ASSUME NEW V, NEW c, NEW len \in Nat, NEW m \in Nat, m <= len, NEW g, NEW h, NEW p, NEW q,
           IsRun(p, g, len, V, c), IsRun(q, h, m, V, c),
           \A i \in 1..m, v \in V : g[i][v] = h[i][v]
    PROVE  \A k \in 0..m : p[k] = q[k]
  <1> DEFINE K == {i \in 0..m : p[i] = q[i]}
  <1>1. 0 \in K
    BY DEF IsRun
  <1>2. ASSUME NEW k \in Nat, k < m, k \in K
        PROVE  k + 1 \in K
    <2>1. /\ k + 1 \in 1..m /\ k + 1 \in 1..len /\ k + 1 \in 0..m /\ (k + 1) - 1 = k
          /\ k \in 0..m /\ p[k] = q[k]
      BY <1>2
    <2>2. p[k + 1] = g[k + 1][p[k]] /\ q[k + 1] = h[k + 1][q[k]] /\ q[k] \in V
      BY <2>1 DEF IsRun
    <2> QED
      BY <2>1, <2>2
  <1> HIDE DEF K
  <1>3. \A k \in 0..m : k \in K
    BY <1>1, <1>2, Climb
  <1> QED
    BY <1>3 DEF K

-----------------------------------------------------------------------------
\* Sums

\* The sum of the first k numbers is the end of a run.
LEMMA SumRun ==
    ASSUME NEW numbers, NEW k \in Nat, \A i \in 1..k : numbers[i] \in Nat
    PROVE  \E f : /\ f \in [0..k -> Nat] /\ f[0] = 0
                  /\ \A i \in 1..k : f[i] = f[i - 1] + numbers[i]
                  /\ SumTo(numbers, k) = f[k]
  <1> DEFINE seq == [i \in 1..k |-> i]
             g == [i \in 1..k |-> [v \in Nat |-> v + numbers[i]]]
             Eq(h) == h = [s \in SUBSET (DOMAIN seq) |->
                             IF s = {} THEN 0
                             ELSE h[s \ {Max(s)}] + numbers[seq[Max(s)]]]
             it == CHOOSE h : Eq(h)
  <1>1. AreSteps(g, k, Nat)
    BY DEF AreSteps
  <1>0. DOMAIN seq = 1..k
    OBVIOUS
  <1>2. \E f : Eq(f)
    <2>1. PICK f \in [SUBSET (1..k) -> Nat] : IsFold(f, g, k, 0)
      <3> HIDE DEF g
      <3> QED
        BY <1>1, FoldExists
    <2>2. \A s \in SUBSET (1..k) : s # {} =>
             g[Max(s)][f[s \ {Max(s)}]] = f[s \ {Max(s)}] + numbers[seq[Max(s)]]
      <3> SUFFICES ASSUME NEW s \in SUBSET (1..k), s # {}
                   PROVE  g[Max(s)][f[s \ {Max(s)}]] = f[s \ {Max(s)}] + numbers[seq[Max(s)]]
        OBVIOUS
      <3>1. Max(s) \in 1..k
        BY LastPosition
      <3>2. f[s \ {Max(s)}] \in Nat
        OBVIOUS
      <3> QED
        BY <3>1, <3>2
    <2>3. Eq(f)
      <3> HIDE DEF g, seq
      <3> QED
        BY <1>0, <2>1, <2>2 DEF IsFold
    <2> HIDE DEF Eq
    <2> QED
      BY <2>3
  <1>3. Eq(it)
    <2> HIDE DEF Eq
    <2> QED
      BY <1>2
  <1>4. SumTo(numbers, k) = it[1..k]
    <2>1. SumTo(numbers, k) = it[DOMAIN seq]
      BY DEF SumTo, FoldLeft, MapThenFoldSet
    <2> HIDE DEF it, seq
    <2> QED
      BY <1>0, <2>1
  <1> HIDE DEF it
  <1>5. it[{}] = 0
    <2> HIDE DEF seq
    <2> QED
      BY <1>0, <1>3
  <1>6. \A i \in 1..k : it[1..(i - 1)] \in Nat => it[1..i] = g[i][it[1..(i - 1)]]
    <2> SUFFICES ASSUME NEW i \in 1..k, it[1..(i - 1)] \in Nat
                 PROVE  it[1..i] = g[i][it[1..(i - 1)]]
      OBVIOUS
    <2>1. Max(1..i) = i /\ (1..i) \ {i} = 1..(i - 1) /\ 1..i # {} /\ (1..i) \in SUBSET (1..k)
      <3>1. i \in Nat \ {0}
        OBVIOUS
      <3>2. 1..i # {} /\ (1..i) \in SUBSET (1..k)
        <4>1. i \in 1..i /\ \A y \in 1..i : y \in 1..k
          OBVIOUS
        <4> QED
          BY <4>1
      <3> QED
        BY <3>1, <3>2, MaxOfPrefix
    <2>2. seq[i] = i
      OBVIOUS
    <2>3. it[1..i] = it[1..(i - 1)] + numbers[i]
      <3> DEFINE s == 1..i
      <3>1. it[s] = it[s \ {Max(s)}] + numbers[seq[Max(s)]]
        <4>1. s \in SUBSET (1..k) /\ s # {}
          BY <2>1
        <4> HIDE DEF s, seq
        <4> QED
          BY <1>0, <1>3, <4>1
      <3> HIDE DEF seq
      <3> QED
        BY <2>1, <2>2, <3>1
    <2> QED
      BY <2>3
  <1>7. PICK f : IsRun(f, g, k, Nat, 0) /\ it[1..k] = f[k]
    <2> DEFINE c == 0
               V == Nat
    <2>1. /\ c \in V /\ it[{}] = c /\ AreSteps(g, k, V)
          /\ \A i \in 1..k : it[1..(i - 1)] \in V => it[1..i] = g[i][it[1..(i - 1)]]
      BY <1>1, <1>5, <1>6
    <2> HIDE DEF g, c, V, Eq
    <2>2. \E f : IsRun(f, g, k, V, c) /\ it[1..k] = f[k]
      BY <2>1, FoldRuns
    <2> QED
      BY <2>2 DEF c, V
  <1>8. \A i \in 1..k : f[i] = f[i - 1] + numbers[i]
    <2> SUFFICES ASSUME NEW i \in 1..k PROVE f[i] = f[i - 1] + numbers[i]
      OBVIOUS
    <2>1. i - 1 \in 0..k
      OBVIOUS
    <2>2. f[i] = g[i][f[i - 1]] /\ f[i - 1] \in Nat
      <3> HIDE DEF g
      <3> QED
        BY <1>7, <2>1 DEF IsRun
    <2> QED
      BY <2>2
  <1> QED
    BY <1>4, <1>7, <1>8 DEF IsRun

\* Sums of the first numbers grow with each number.
LEMMA SumFacts ==
    ASSUME NEW numbers \in Seq(Nat)
    PROVE  /\ \A k \in 0..Len(numbers) : SumTo(numbers, k) \in Nat
           /\ SumTo(numbers, 0) = 0
           /\ \A k \in 1..Len(numbers) :
                SumTo(numbers, k) = SumTo(numbers, k - 1) + numbers[k]
           /\ \A k \in 1..Len(numbers) :
                SumTo(numbers, k - 1) + numbers[k] <= SumTo(numbers, Len(numbers))
  <1> DEFINE len == Len(numbers)
             IsSum(f, k) == /\ f \in [0..k -> Nat] /\ f[0] = 0
                            /\ \A i \in 1..k : f[i] = f[i - 1] + numbers[i]
  <1>1. len \in Nat /\ \A i \in 1..len : numbers[i] \in Nat
    OBVIOUS
  <1>2. PICK f : IsSum(f, len) /\ SumTo(numbers, len) = f[len]
    BY <1>1, SumRun
  <1>3. ASSUME NEW k \in 0..len PROVE SumTo(numbers, k) = f[k]
    <2>1. k \in Nat /\ k <= len /\ \A i \in 1..k : numbers[i] \in Nat
      BY <1>1
    <2>2. PICK h : IsSum(h, k) /\ SumTo(numbers, k) = h[k]
      BY <2>1, SumRun
    <2> DEFINE K == {i \in 0..k : f[i] = h[i]}
    <2>3. 0 \in K
      BY <1>2, <2>1, <2>2
    <2>4. ASSUME NEW i \in Nat, i < k, i \in K
          PROVE  i + 1 \in K
      <3>1. i + 1 \in 1..k /\ i + 1 \in 1..len /\ i + 1 \in 0..k /\ (i + 1) - 1 = i /\ f[i] = h[i]
        BY <1>1, <2>1, <2>4
      <3>2. f[i + 1] = f[i] + numbers[i + 1] /\ h[i + 1] = h[i] + numbers[i + 1]
        <4> HIDE DEF K, len
        <4> QED
          BY <1>2, <2>2, <3>1
      <3> QED
        BY <3>1, <3>2
    <2> HIDE DEF K
    <2>5. \A i \in 0..k : i \in K
      BY <2>1, <2>3, <2>4, Climb
    <2>6. k \in K
      BY <2>1, <2>5
    <2> QED
      BY <2>2, <2>6 DEF K
  <1>4. \A k \in 1..len : k - 1 \in 0..len /\ k \in 0..len
    BY <1>1
  <1>5. 0 \in 0..len /\ len \in 0..len
    BY <1>1
  <1>6. \A k \in 1..len : f[k] <= f[len]
    <2> SUFFICES ASSUME NEW k \in 1..len PROVE f[k] <= f[len]
      OBVIOUS
    <2> DEFINE K == {i \in 0..(len - k) : f[k] <= f[k + i]}
    <2>0. len - k \in Nat /\ k \in 0..len
      BY <1>1
    <2>1. 0 \in K
      <3>1. k + 0 = k /\ f[k] \in Nat
        BY <1>2, <2>0
      <3> QED
        BY <2>0, <3>1
    <2>2. ASSUME NEW i \in Nat, i < len - k, i \in K
          PROVE  i + 1 \in K
      <3>1. /\ k + (i + 1) \in 1..len /\ (k + (i + 1)) - 1 = k + i /\ f[k] <= f[k + i]
            /\ i + 1 \in 0..(len - k) /\ k + i \in 0..len
        BY <1>1, <2>2
      <3>2. f[k + (i + 1)] = f[k + i] + numbers[k + (i + 1)]
        <4> HIDE DEF K, len
        <4> QED
          BY <1>2, <3>1
      <3>3. numbers[k + (i + 1)] \in Nat /\ f[k + i] \in Nat /\ f[k] \in Nat
        BY <1>1, <1>2, <2>0, <3>1
      <3> QED
        BY <3>1, <3>2, <3>3
    <2> HIDE DEF K
    <2>3. \A i \in 0..(len - k) : i \in K
      BY <2>0, <2>1, <2>2, Climb
    <2>4. len - k \in K /\ k + (len - k) = len
      BY <1>1, <2>0, <2>3
    <2> QED
      BY <2>4 DEF K
  <1> QED
    BY <1>2, <1>3, <1>4, <1>5, <1>6

\* The length of a concatenation.
LEMMA FlattenLength ==
    ASSUME NEW S, NEW ss \in Seq(Seq(S))
    PROVE  Len(FlattenSeq(ss)) = SumTo([k \in 1..Len(ss) |-> Len(ss[k])], Len(ss))
  <1> DEFINE len == Len(ss)
             lens == [k \in 1..len |-> Len(ss[k])]
  <1>1. len \in Nat /\ lens \in Seq(Nat) /\ Len(lens) = len /\ \A k \in 1..len : lens[k] = Len(ss[k])
    OBVIOUS
  <1>2. PICK f : IsConcat(f, ss, S) /\ FlattenSeq(ss) = f[len]
    BY FlattenRun
  <1> HIDE DEF lens
  <1> DEFINE K == {i \in 0..len : Len(f[i]) = SumTo(lens, i)}
  <1>3. 0 \in K
    <2>1. f[0] = <<>> /\ SumTo(lens, 0) = 0
      BY <1>1, <1>2, SumFacts DEF IsConcat
    <2> QED
      BY <1>1, <2>1
  <1>4. ASSUME NEW k \in Nat, k < len, k \in K
        PROVE  k + 1 \in K
    <2>1. /\ k + 1 \in 1..len /\ k + 1 \in 0..len /\ (k + 1) - 1 = k /\ k \in 0..len
          /\ Len(f[k]) = SumTo(lens, k)
      BY <1>1, <1>4
    <2>2. f[k + 1] = f[k] \o ss[k + 1] /\ f[k] \in Seq(S) /\ ss[k + 1] \in Seq(S)
      <3>1. f[k + 1] = f[k] \o ss[k + 1] /\ f[k] \in Seq(S)
        <4> HIDE DEF K
        <4> QED
          BY <1>2, <2>1 DEF IsConcat
      <3> QED
        BY <2>1, <3>1
    <2>3. Len(f[k + 1]) = Len(f[k]) + Len(ss[k + 1])
      BY <2>2
    <2>4. SumTo(lens, k + 1) = SumTo(lens, k) + lens[k + 1]
      BY <1>1, <2>1, SumFacts
    <2> QED
      BY <1>1, <2>1, <2>3, <2>4
  <1> HIDE DEF K
  <1>5. \A k \in 0..len : k \in K
    BY <1>1, <1>3, <1>4, Climb
  <1>6. len \in K
    BY <1>1, <1>5
  <1> QED
    BY <1>2, <1>6 DEF K, lens

\* What is kept of a longer sequence.
LEMMA ThoseGrows ==
    ASSUME NEW S, NEW seq \in Seq(S), NEW x \in S, NEW keep, NEW more,
           \A i \in 1..Len(seq) : i \in more <=> i \in keep
    PROVE  Those(Append(seq, x), more)
             = IF Len(seq) + 1 \in more THEN Append(Those(seq, keep), x) ELSE Those(seq, keep)
  <1> DEFINE n == Len(seq)
             tt == Append(seq, x)
  <1>1. /\ n \in Nat /\ tt \in Seq(S) /\ Len(tt) = n + 1 /\ tt[n + 1] = x
        /\ \A i \in 1..n : seq[i] = tt[i]
    OBVIOUS
  <1>2. PICK f : IsPick(f, seq, keep, S) /\ Those(seq, keep) = f[n]
    BY ThoseRun
  <1> HIDE DEF tt
  <1>3. PICK h : IsPick(h, tt, more, S) /\ Those(tt, more) = h[Len(tt)]
    BY <1>1, ThoseRun
  <1>4. /\ h[0] = f[0]
        /\ \A k \in 1..n : f[k] = IF k \in keep THEN Append(f[k - 1], seq[k]) ELSE f[k - 1]
        /\ \A k \in 1..(n + 1) : h[k] = IF k \in more THEN Append(h[k - 1], tt[k]) ELSE h[k - 1]
    BY <1>1, <1>2, <1>3 DEF IsPick
  <1>5. \A i \in 1..n : i \in more <=> i \in keep
    OBVIOUS
  <1> HIDE DEF n
  <1> DEFINE K == {k \in 0..n : f[k] = h[k]}
  <1>6. 0 \in K
    BY <1>1, <1>4
  <1>7. ASSUME NEW k \in Nat, k < n, k \in K PROVE k + 1 \in K
    <2>1. k + 1 \in 1..n /\ k + 1 \in 0..n /\ k + 1 \in 1..(n + 1) /\ (k + 1) - 1 = k
      BY <1>1, <1>7
    <2>2. f[k] = h[k] /\ seq[k + 1] = tt[k + 1]
      BY <1>1, <1>7, <2>1
    <2>3. f[k + 1] = h[k + 1]
      BY <1>4, <1>5, <2>1, <2>2
    <2> QED
      BY <2>1, <2>3
  <1> HIDE DEF K
  <1>8. \A k \in 0..n : k \in K
    BY <1>1, <1>6, <1>7, Climb
  <1>9. f[n] = h[n]
    BY <1>1, <1>8 DEF K
  <1>10. n + 1 \in 1..(n + 1) /\ (n + 1) - 1 = n
    BY <1>1
  <1>11. h[n + 1] = IF n + 1 \in more THEN Append(h[n], x) ELSE h[n]
    BY <1>1, <1>4, <1>10
  <1> QED
    BY <1>1, <1>2, <1>3, <1>9, <1>11 DEF tt, n

\* What is picked of the images are the images of what is picked.
Images(g, s) == [k \in 1..Len(s) |-> g[s[k]]]

LEMMA ImagesGrow ==
    ASSUME NEW S, NEW g, NEW s \in Seq(S), NEW e \in S
    PROVE  Images(g, Append(s, e)) = Append(Images(g, s), g[e])
  <1> DEFINE V == {g[x] : x \in S}
             n == Len(s)
             t == Append(s, e)
             r == Images(g, s)
             q == Append(r, g[e])
             p == Images(g, t)
  <1>1. n \in Nat /\ (\A k \in 1..n : s[k] \in S /\ g[s[k]] \in V) /\ g[e] \in V
    OBVIOUS
  <1>2. Len(t) = n + 1 /\ t[n + 1] = e /\ \A k \in 1..n : t[k] = s[k]
    OBVIOUS
  <1>3. r = [k \in 1..n |-> g[s[k]]] /\ p = [k \in 1..(n + 1) |-> g[t[k]]]
    <2> HIDE DEF t
    <2> QED
      BY <1>2 DEF Images
  <1> HIDE DEF V, n, t, r, p
  <1>4. r \in Seq(V) /\ Len(r) = n
    BY <1>1, <1>3
  <1>5. Len(q) = n + 1 /\ q \in Seq(V) /\ q[n + 1] = g[e] /\ \A k \in 1..n : q[k] = r[k]
    BY <1>1, <1>4
  <1> HIDE DEF q
  <1>6. q = [k \in 1..(n + 1) |-> q[k]]
    BY <1>5
  <1>7. \A k \in 1..(n + 1) : p[k] = q[k]
    <2> TAKE k \in 1..(n + 1)
    <2>1. k \in 1..n \/ k = n + 1
      BY <1>1
    <2> QED
      BY <1>1, <1>2, <1>3, <1>5, <2>1
  <1>8. p = q
    BY <1>3, <1>6, <1>7
  <1> QED
    BY <1>4, <1>8 DEF q, p, r, t, n

LEMMA ThoseImages ==
    ASSUME NEW S, NEW g, NEW s \in Seq(S), NEW keep
    PROVE  Those(Images(g, s), keep) = Images(g, Those(s, keep))
  <1> DEFINE V == {g[x] : x \in S}
             n == Len(s)
             r == Images(g, s)
  <1>1. n \in Nat /\ r \in Seq(V) /\ Len(r) = n /\ \A k \in 1..n : r[k] = g[s[k]] /\ s[k] \in S
    <2>1. n \in Nat /\ \A k \in 1..n : s[k] \in S /\ g[s[k]] \in V
      OBVIOUS
    <2>2. r = [k \in 1..n |-> g[s[k]]]
      BY DEF Images
    <2> HIDE DEF V, r, n
    <2>3. r \in Seq(V) /\ Len(r) = n
      BY <2>1, <2>2
    <2> QED
      BY <2>1, <2>2, <2>3
  <1> HIDE DEF V, r
  <1>2. PICK f : IsPick(f, s, keep, S) /\ Those(s, keep) = f[n]
    BY ThoseRun
  <1>3. PICK h : IsPick(h, r, keep, V) /\ Those(r, keep) = h[n]
    BY <1>1, ThoseRun
  <1> HIDE DEF n
  <1>4. /\ f \in [0..n -> Seq(S)] /\ f[0] = <<>> /\ h \in [0..n -> Seq(V)] /\ h[0] = <<>>
        /\ \A i \in 1..n : f[i] = IF i \in keep THEN Append(f[i - 1], s[i]) ELSE f[i - 1]
        /\ \A i \in 1..n : h[i] = IF i \in keep THEN Append(h[i - 1], r[i]) ELSE h[i - 1]
    BY <1>1, <1>2, <1>3 DEF IsPick, n
  <1>9. \A v \in Seq(S), e \in S : Images(g, Append(v, e)) = Append(Images(g, v), g[e])
    BY ImagesGrow
  <1> DEFINE K == {i \in 0..n : h[i] = Images(g, f[i])}
  <1>5. 0 \in K
    <2>1. Images(g, <<>>) = <<>>
      BY DEF Images
    <2> QED
      BY <1>1, <1>4, <2>1
  <1>6. ASSUME NEW k \in Nat, k < n, k \in K PROVE k + 1 \in K
    <2>1. k + 1 \in 1..n /\ k + 1 \in 0..n /\ (k + 1) - 1 = k /\ k \in 0..n
      BY <1>1, <1>6
    <2>2. f[k] \in Seq(S) /\ s[k + 1] \in S /\ r[k + 1] = g[s[k + 1]] /\ h[k] = Images(g, f[k])
      BY <1>1, <1>4, <1>6, <2>1
    <2>3. f[k + 1] = IF k + 1 \in keep THEN Append(f[k], s[k + 1]) ELSE f[k]
      BY <1>4, <2>1
    <2>4. h[k + 1] = IF k + 1 \in keep THEN Append(h[k], r[k + 1]) ELSE h[k]
      BY <1>4, <2>1
    <2>5. Images(g, Append(f[k], s[k + 1])) = Append(Images(g, f[k]), g[s[k + 1]])
      <3> DEFINE v == f[k]
                 e == s[k + 1]
      <3>1. v \in Seq(S) /\ e \in S
        BY <2>2
      <3> HIDE DEF v, e
      <3>2. Images(g, Append(v, e)) = Append(Images(g, v), g[e])
        BY <1>9, <3>1
      <3> QED
        BY <3>2 DEF v, e
    <2> QED
      BY <2>1, <2>2, <2>3, <2>4, <2>5
  <1> HIDE DEF K
  <1>7. \A k \in 0..n : k \in K
    BY <1>1, <1>5, <1>6, Climb
  <1>8. n \in K
    <2>1. n \in 0..n
      BY <1>1
    <2> QED
      BY <1>7, <2>1
  <1> QED
    BY <1>2, <1>3, <1>8 DEF K, r

\* Sums, term by term
LEMMA SumsAdd ==
    ASSUME NEW a \in Seq(Nat), NEW b \in Seq(Nat), NEW c \in Seq(Nat),
           Len(b) = Len(a), Len(c) = Len(a), \A i \in 1..Len(a) : c[i] = a[i] + b[i]
    PROVE  SumTo(c, Len(a)) = SumTo(a, Len(a)) + SumTo(b, Len(a))
  <1> DEFINE n == Len(a)
             K == {k \in 0..n : SumTo(c, k) = SumTo(a, k) + SumTo(b, k)}
  <1>1. n \in Nat /\ \A i \in 1..n : a[i] \in Nat /\ b[i] \in Nat /\ c[i] = a[i] + b[i]
    <2>1. \A i \in 1..Len(b) : b[i] \in Nat
      OBVIOUS
    <2> QED
      BY <2>1
  <1>2. /\ \A k \in 0..n : SumTo(a, k) \in Nat /\ SumTo(b, k) \in Nat
        /\ SumTo(a, 0) = 0 /\ SumTo(b, 0) = 0 /\ SumTo(c, 0) = 0
        /\ \A k \in 1..n : /\ SumTo(a, k) = SumTo(a, k - 1) + a[k]
                           /\ SumTo(b, k) = SumTo(b, k - 1) + b[k]
                           /\ SumTo(c, k) = SumTo(c, k - 1) + c[k]
    BY SumFacts
  <1> HIDE DEF n
  <1>3. 0 \in K
    BY <1>1, <1>2
  <1>4. ASSUME NEW k \in Nat, k < n, k \in K PROVE k + 1 \in K
    <2>1. k + 1 \in 1..n /\ k + 1 \in 0..n /\ (k + 1) - 1 = k /\ k \in 0..n
      BY <1>1, <1>4
    <2>2. /\ SumTo(a, k + 1) = SumTo(a, k) + a[k + 1] /\ SumTo(b, k + 1) = SumTo(b, k) + b[k + 1]
          /\ SumTo(c, k + 1) = SumTo(c, k) + c[k + 1]
      BY <1>2, <2>1
    <2>3. /\ SumTo(a, k) \in Nat /\ SumTo(b, k) \in Nat /\ a[k + 1] \in Nat /\ b[k + 1] \in Nat
          /\ c[k + 1] = a[k + 1] + b[k + 1] /\ SumTo(c, k) = SumTo(a, k) + SumTo(b, k)
      BY <1>1, <1>2, <1>4, <2>1
    <2> QED
      BY <2>1, <2>2, <2>3
  <1> HIDE DEF K
  <1>5. \A k \in 0..n : k \in K
    BY <1>1, <1>3, <1>4, Climb
  <1>6. n \in K
    <2>1. n \in 0..n
      BY <1>1
    <2> QED
      BY <1>5, <2>1
  <1> QED
    BY <1>6 DEF K, n

\* Sums of the same numbers are the same, those of nothing are nothing.
LEMMA SumsAgree ==
    ASSUME NEW a \in Seq(Nat), NEW b \in Seq(Nat), NEW n \in Nat, n <= Len(a), n <= Len(b),
           \A i \in 1..n : a[i] = b[i]
    PROVE  SumTo(a, n) = SumTo(b, n)
  <1> DEFINE K == {k \in 0..n : SumTo(a, k) = SumTo(b, k)}
  <1>1. /\ SumTo(a, 0) = 0 /\ SumTo(b, 0) = 0
        /\ \A k \in 1..n : /\ SumTo(a, k) = SumTo(a, k - 1) + a[k]
                           /\ SumTo(b, k) = SumTo(b, k - 1) + b[k]
    <2>1. \A k \in 1..n : k \in 1..Len(a) /\ k \in 1..Len(b)
      OBVIOUS
    <2> QED
      BY <2>1, SumFacts
  <1>2. 0 \in K
    BY <1>1
  <1>3. ASSUME NEW k \in Nat, k < n, k \in K PROVE k + 1 \in K
    <2>1. k + 1 \in 1..n /\ k + 1 \in 0..n /\ (k + 1) - 1 = k
      BY <1>3
    <2>2. SumTo(a, k + 1) = SumTo(a, k) + a[k + 1] /\ SumTo(b, k + 1) = SumTo(b, k) + b[k + 1]
      BY <1>1, <2>1
    <2>3. a[k + 1] = b[k + 1] /\ SumTo(a, k) = SumTo(b, k)
      BY <1>3, <2>1
    <2> QED
      BY <2>1, <2>2, <2>3
  <1> HIDE DEF K
  <1>4. \A k \in 0..n : k \in K
    BY <1>2, <1>3, Climb
  <1>5. n \in K
    BY <1>4
  <1> QED
    BY <1>5 DEF K

LEMMA SumsVanish ==
    ASSUME NEW a \in Seq(Nat), \A i \in 1..Len(a) : a[i] = 0
    PROVE  SumTo(a, Len(a)) = 0
  <1> DEFINE n == Len(a)
             K == {k \in 0..n : SumTo(a, k) = 0}
  <1>1. n \in Nat /\ SumTo(a, 0) = 0 /\ \A k \in 1..n : SumTo(a, k) = SumTo(a, k - 1) + a[k] /\ a[k] = 0
    BY SumFacts
  <1> HIDE DEF n
  <1>2. 0 \in K
    BY <1>1
  <1>3. ASSUME NEW k \in Nat, k < n, k \in K PROVE k + 1 \in K
    <2>1. k + 1 \in 1..n /\ k + 1 \in 0..n /\ (k + 1) - 1 = k /\ SumTo(a, k) = 0
      BY <1>1, <1>3
    <2> QED
      BY <1>1, <2>1
  <1> HIDE DEF K
  <1>4. \A k \in 0..n : k \in K
    BY <1>1, <1>2, <1>3, Climb
  <1>5. n \in K
    BY <1>1, <1>4
  <1> QED
    BY <1>5 DEF K, n

\* What the elements of a sequence count for.
Summed(g, s) == SumTo(Images(g, s), Len(s))

LEMMA SummedFacts ==
    ASSUME NEW S, NEW g, \A e \in S : g[e] \in Nat, NEW s \in Seq(S)
    PROVE  /\ Summed(g, s) \in Nat /\ Summed(g, <<>>) = 0
           /\ \A e \in S : Summed(g, Append(s, e)) = Summed(g, s) + g[e]
  <1> DEFINE n == Len(s)
             a == Images(g, s)
  <1>1. n \in Nat /\ \A k \in 1..n : g[s[k]] \in Nat
    OBVIOUS
  <1>2. a = [k \in 1..n |-> g[s[k]]]
    BY DEF Images
  <1> HIDE DEF n, a
  <1>3. a \in Seq(Nat) /\ Len(a) = n
    BY <1>1, <1>2
  <1>4. Summed(g, s) = SumTo(a, n) /\ SumTo(a, n) \in Nat
    <2>1. n \in 0..Len(a)
      BY <1>1, <1>3
    <2> QED
      BY <1>3, <2>1, SumFacts DEF Summed, a, n
  <1>5. Summed(g, <<>>) = 0
    <2>1. Images(g, <<>>) = <<>> /\ <<>> \in Seq(Nat) /\ Len(<<>>) = 0
      BY DEF Images
    <2>2. SumTo(<<>>, 0) = 0
      BY <2>1, SumFacts
    <2> QED
      BY <2>1, <2>2 DEF Summed
  <1>6. ASSUME NEW e \in S PROVE Summed(g, Append(s, e)) = Summed(g, s) + g[e]
    <2> DEFINE y == g[e]
               b == Append(a, y)
    <2>1. y \in Nat
      OBVIOUS
    <2>2. Images(g, Append(s, e)) = b
      BY ImagesGrow DEF a
    <2>3. Len(Append(s, e)) = n + 1
      BY DEF n
    <2> HIDE DEF y
    <2>4. b \in Seq(Nat) /\ Len(b) = n + 1 /\ b[n + 1] = y /\ \A k \in 1..n : b[k] = a[k]
      BY <1>1, <1>3, <2>1
    <2> HIDE DEF b
    <2>5. SumTo(b, n + 1) = SumTo(b, n) + y
      <3>1. n + 1 \in 1..Len(b) /\ (n + 1) - 1 = n
        BY <1>1, <2>4
      <3> QED
        BY <2>4, <3>1, SumFacts
    <2>6. SumTo(b, n) = SumTo(a, n)
      <3>1. n <= Len(a) /\ n <= Len(b)
        BY <1>1, <1>3, <2>4
      <3> QED
        BY <1>1, <1>3, <2>4, <3>1, SumsAgree
    <2> QED
      BY <1>4, <2>2, <2>3, <2>5, <2>6 DEF Summed, y
  <1> QED
    BY <1>4, <1>5, <1>6

\* When only the last element changes.
LEMMA SummedLast ==
    ASSUME NEW S, NEW g, \A e \in S : g[e] \in Nat, NEW s \in Seq(S), NEW r \in Seq(S),
           Len(s) > 0, Len(r) = Len(s), \A k \in 1..(Len(s) - 1) : r[k] = s[k]
    PROVE  Summed(g, r) + g[s[Len(s)]] = Summed(g, s) + g[r[Len(s)]]
  <1> DEFINE n == Len(s)
             m == n - 1
             a == Images(g, s)
             b == Images(g, r)
  <1>1. n \in Nat /\ m \in Nat /\ m + 1 = n /\ (\A k \in 1..n : g[s[k]] \in Nat /\ g[r[k]] \in Nat)
        /\ \A k \in 1..m : r[k] = s[k]
    <2>1. \A k \in 1..Len(s) : s[k] \in S
      OBVIOUS
    <2>2. \A k \in 1..Len(r) : r[k] \in S
      OBVIOUS
    <2>3. n \in Nat /\ m \in Nat /\ m + 1 = n
      OBVIOUS
    <2> QED
      BY <2>1, <2>2, <2>3
  <1>2. a = [k \in 1..n |-> g[s[k]]] /\ b = [k \in 1..n |-> g[r[k]]]
    BY DEF Images
  <1>3. Summed(g, s) = SumTo(a, n) /\ Summed(g, r) = SumTo(b, n)
    BY DEF Summed
  <1> HIDE DEF n, m, a, b
  <1>4. a \in Seq(Nat) /\ b \in Seq(Nat) /\ Len(a) = n /\ Len(b) = n /\ \A k \in 1..m : a[k] = b[k]
    BY <1>1, <1>2
  <1>5. SumTo(a, m) = SumTo(b, m)
    <2>1. m <= Len(a) /\ m <= Len(b)
      BY <1>1, <1>4
    <2> QED
      BY <1>1, <1>4, <2>1, SumsAgree
  <1>6. SumTo(a, n) = SumTo(a, m) + a[n] /\ SumTo(b, n) = SumTo(b, m) + b[n] /\ SumTo(a, m) \in Nat
    <2>1. n \in 1..n /\ m \in 0..n /\ n - 1 = m
      BY <1>1
    <2> QED
      BY <1>4, <2>1, SumFacts
  <1>7. a[n] = g[s[n]] /\ b[n] = g[r[n]] /\ a[n] \in Nat /\ b[n] \in Nat
    <2>1. n \in 1..n
      BY <1>1
    <2> QED
      BY <1>1, <1>2, <2>1
  <1>8. Summed(g, r) + a[n] = Summed(g, s) + b[n]
    BY <1>3, <1>5, <1>6, <1>7
  <1> QED
    BY <1>7, <1>8 DEF n

\* Numbers that are added up under the names that they go by make up their sum.
ByName(v, name, len, names, totals, rows) ==
    /\ v \in Seq(Nat) /\ len \in Nat /\ totals \in Seq(Nat) /\ Len(totals) = len
    /\ \A j, k \in 1..len : names[j] = names[k] => j = k
    /\ \A i \in 1..Len(v) : \E j \in 1..len : name[i] = names[j]
    /\ \A j \in 1..len : /\ rows[j] = [i \in 1..Len(v) |-> IF name[i] = names[j] THEN v[i] ELSE 0]
                         /\ totals[j] = SumTo(rows[j], Len(v))

LEMMA SumsByName ==
    ASSUME NEW v, NEW name, NEW len, NEW names, NEW totals, NEW rows,
           ByName(v, name, len, names, totals, rows)
    PROVE  SumTo(totals, len) = SumTo(v, Len(v))
  <1>0. /\ v \in Seq(Nat) /\ len \in Nat /\ totals \in Seq(Nat) /\ Len(totals) = len
        /\ \A j, k \in 1..len : names[j] = names[k] => j = k
        /\ \A i \in 1..Len(v) : \E j \in 1..len : name[i] = names[j]
        /\ \A j \in 1..len :
             /\ rows[j] = [i \in 1..Len(v) |-> IF name[i] = names[j] THEN v[i] ELSE 0]
             /\ totals[j] = SumTo(rows[j], Len(v))
    BY DEF ByName
  <1> DEFINE n == Len(v)
             part(m) == [i \in 1..n |-> IF \E j \in 1..m : name[i] = names[j] THEN v[i] ELSE 0]
             K == {m \in 0..len : SumTo(totals, m) = SumTo(part(m), n)}
  <1>1. n \in Nat /\ \A i \in 1..n : v[i] \in Nat
    BY <1>0
  <1> HIDE DEF n
  <1>2. ASSUME NEW m \in Nat PROVE part(m) \in Seq(Nat) /\ Len(part(m)) = n
    BY <1>1
  <1>3. /\ SumTo(totals, 0) = 0
        /\ \A j \in 1..len : SumTo(totals, j) = SumTo(totals, j - 1) + totals[j]
    BY <1>0, SumFacts
  <1>4. 0 \in K
    <2> DEFINE a == part(0)
    <2>1. \A i \in 1..n : a[i] = 0
      OBVIOUS
    <2> HIDE DEF part
    <2>2. a \in Seq(Nat) /\ Len(a) = n
      BY <1>2
    <2> HIDE DEF a
    <2>3. SumTo(a, n) = 0
      BY <2>1, <2>2, SumsVanish
    <2> QED
      BY <1>0, <1>3, <2>3 DEF a
  <1>5. ASSUME NEW m \in Nat, m < len, m \in K PROVE m + 1 \in K
    <2> DEFINE a == part(m)
               b == rows[m + 1]
               c == part(m + 1)
    <2>1. m + 1 \in 1..len /\ m + 1 \in 0..len /\ (m + 1) - 1 = m /\ SumTo(totals, m) = SumTo(a, n)
      BY <1>0, <1>5
    <2>2. b = [i \in 1..n |-> IF name[i] = names[m + 1] THEN v[i] ELSE 0] /\ totals[m + 1] = SumTo(b, n)
      BY <1>0, <2>1 DEF n
    <2>3. \A i \in 1..n : c[i] = a[i] + b[i]
      <3> TAKE i \in 1..n
      <3>1. v[i] \in Nat /\ b[i] = IF name[i] = names[m + 1] THEN v[i] ELSE 0
        BY <1>1, <2>2
      <3>2. CASE name[i] = names[m + 1]
        <4>1. ~\E j \in 1..m : name[i] = names[j]
          <5> SUFFICES ASSUME NEW j \in 1..m, name[i] = names[j] PROVE FALSE
            OBVIOUS
          <5>1. j \in 1..len /\ j # m + 1
            BY <1>0, <2>1
          <5> QED
            BY <1>0, <2>1, <3>2, <5>1
        <4>2. m + 1 \in 1..(m + 1)
          OBVIOUS
        <4> QED
          BY <3>1, <3>2, <4>1, <4>2
      <3>3. CASE name[i] # names[m + 1]
        <4>1. (\E j \in 1..m : name[i] = names[j]) <=> \E j \in 1..(m + 1) : name[i] = names[j]
          <5>1. \A j \in 1..(m + 1) : j = m + 1 \/ j \in 1..m
            OBVIOUS
          <5>2. \A j \in 1..m : j \in 1..(m + 1)
            OBVIOUS
          <5> QED
            BY <3>3, <5>1, <5>2
        <4> QED
          BY <3>1, <3>3, <4>1
      <3> QED
        BY <3>2, <3>3
    <2> HIDE DEF part
    <2>4. a \in Seq(Nat) /\ Len(a) = n /\ c \in Seq(Nat) /\ Len(c) = n
      <3>1. m + 1 \in Nat
        OBVIOUS
      <3> QED
        BY <1>2, <3>1
    <2>5. b \in Seq(Nat) /\ Len(b) = n
      BY <1>1, <2>2
    <2> HIDE DEF a, b, c, K
    <2>6. SumTo(c, n) = SumTo(a, n) + SumTo(b, n)
      <3>1. Len(b) = Len(a) /\ Len(c) = Len(a) /\ \A i \in 1..Len(a) : c[i] = a[i] + b[i]
        BY <2>3, <2>4, <2>5
      <3>2. SumTo(c, Len(a)) = SumTo(a, Len(a)) + SumTo(b, Len(a))
        BY <2>4, <2>5, <3>1, SumsAdd, SMTT(40)
      <3> QED
        BY <2>4, <3>2
    <2>7. SumTo(totals, m + 1) = SumTo(totals, m) + totals[m + 1]
      BY <1>3, <2>1
    <2> QED
      BY <2>1, <2>2, <2>6, <2>7 DEF c, K
  <1>6. len \in K
    <2> HIDE DEF K, part
    <2>1. \A m \in 0..len : m \in K
      BY <1>0, <1>4, <1>5, Climb
    <2> QED
      BY <1>0, <2>1
  <1>7. part(len) = v
    <2>1. part(len) = [i \in 1..n |-> v[i]]
      BY <1>0, <1>1 DEF n
    <2>2. v = [i \in 1..n |-> v[i]]
      BY <1>0 DEF n
    <2> QED
      BY <2>1, <2>2
  <1> HIDE DEF part
  <1> QED
    BY <1>6, <1>7 DEF n
=============================================================================
