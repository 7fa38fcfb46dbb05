------------------------ MODULE HandleGraphs_proofs ------------------------
(***************************************************************************)
(* The graph of a reference with classes and synonyms.  Its states can be  *)
(* laid out: each one is inside at most one outermost class or synonym and *)
(* stands behind a number of tokens, and every arc keeps to that.  So a    *)
(* path enters and leaves its classes and synonyms in turn, and never      *)
(* meets one of them twice.  The chain that the walk reports is such a     *)
(* path, against the words of the hypothesis.                              *)
(***************************************************************************)
EXTENDS HandleWer, Selections_proofs, FiniteSetTheorems

\* The operators on sequences that the graphs are built with.
LEMMA GraphOps ==
    /\ \A ss : G!FlattenSeq(ss) = FlattenSeq(ss)
    /\ \A seq, keep : G!Those(seq, keep) = Those(seq, keep)
    /\ \A s : G!Max(s) = Max(s)
    /\ \A b, s : G!When(b, s) = When(b, s)
    /\ \A s : G!Cardinality(s) = Cardinality(s)
    /\ \A numbers, k : G!SumTo(numbers, k) = SumTo(numbers, k)
  BY DEF G!Cardinality, Cardinality, G!FlattenSeq, FlattenSeq, G!Those, Those, G!Max, Max, G!When, When,
         G!SumTo, SumTo, G!FoldLeft, FoldLeft, G!MapThenFoldSet, MapThenFoldSet

-----------------------------------------------------------------------------
\* Sums, as the graphs take them

LEMMA GraphSums ==
    ASSUME NEW numbers \in Seq(Nat)
    PROVE  /\ \A k \in 0..Len(numbers) : G!SumTo(numbers, k) \in Nat
           /\ G!SumTo(numbers, 0) = 0
           /\ \A k \in 1..Len(numbers) :
                G!SumTo(numbers, k) = G!SumTo(numbers, k - 1) + numbers[k]
           /\ \A k \in 1..Len(numbers) :
                G!SumTo(numbers, k - 1) + numbers[k] <= G!SumTo(numbers, Len(numbers))
  BY SumFacts, GraphOps

LEMMA GraphLength ==
    ASSUME NEW elems, NEW ss \in Seq(Seq(elems))
    PROVE  Len(FlattenSeq(ss)) = G!SumTo([k \in 1..Len(ss) |-> Len(ss[k])], Len(ss))
  BY FlattenLength, GraphOps

\* The sums grow.
LEMMA SumGrows ==
    ASSUME NEW numbers \in Seq(Nat), NEW j \in 0..Len(numbers)
    PROVE  \A k \in j..Len(numbers) : G!SumTo(numbers, j) <= G!SumTo(numbers, k)
  <1> DEFINE len == Len(numbers)
             f(k) == G!SumTo(numbers, k)
             K == {d \in 0..(len - j) : f(j) <= f(j + d)}
  <1>1. len \in Nat /\ j \in Nat /\ j <= len
    OBVIOUS
  <1>2. /\ \A k \in 0..len : f(k) \in Nat
        /\ \A k \in 1..len : f(k) = f(k - 1) + numbers[k] /\ numbers[k] \in Nat
    BY GraphSums
  <1> HIDE DEF f, len
  <1>3. 0 \in K
    BY <1>1, <1>2
  <1>4. ASSUME NEW d \in Nat, d < len - j, d \in K
        PROVE  d + 1 \in K
    <2>1. /\ j + d + 1 \in 1..len /\ j + d \in 0..len /\ j + d + 1 \in 0..len
          /\ (j + d + 1) - 1 = j + d /\ d + 1 \in 0..(len - j) /\ j + (d + 1) = j + d + 1
      BY <1>1, <1>4
    <2>2. f(j + d + 1) = f(j + d) + numbers[j + d + 1] /\ numbers[j + d + 1] \in Nat
      BY <1>2, <2>1
    <2>3. f(j) \in Nat /\ f(j + d) \in Nat /\ f(j) <= f(j + d)
      BY <1>1, <1>2, <1>4, <2>1
    <2>4. f(j) <= f(j + d + 1)
      BY <2>2, <2>3
    <2> QED
      BY <2>1, <2>4
  <1> HIDE DEF K
  <1>5. len - j \in Nat
    BY <1>1
  <1>6. \A d \in 0..(len - j) : d \in K
    BY <1>3, <1>4, <1>5, Climb
  <1>7. \A k \in j..len : f(j) <= f(k)
    <2> SUFFICES ASSUME NEW k \in j..len PROVE f(j) <= f(k)
      OBVIOUS
    <2>1. k - j \in 0..(len - j) /\ j + (k - j) = k
      BY <1>1
    <2> QED
      BY <1>6, <2>1 DEF K
  <1> QED
    BY <1>7 DEF f, len

\* Numbers are dealt out in blocks of the given sizes: block[d] is the block that the
\* number 1 + d is in.
LEMMA Blocks ==
    ASSUME NEW sizes \in Seq(Nat)
    PROVE  \E block \in [Nat -> 1..Len(sizes) \cup {0}] :
             \A i \in 1..Len(sizes), d \in Nat :
               d < sizes[i] => block[G!SumTo(sizes, i - 1) + d] = i
  <1> DEFINE len == Len(sizes)
             f(k) == G!SumTo(sizes, k)
             In(x, i) == f(i - 1) <= x /\ x < f(i - 1) + sizes[i]
             block == [x \in Nat |-> IF \E i \in 1..len : In(x, i)
                                     THEN CHOOSE i \in 1..len : In(x, i) ELSE 0]
  <1>1. len \in Nat /\ \A i \in 1..len : sizes[i] \in Nat
    OBVIOUS
  <1>2. /\ \A k \in 0..len : f(k) \in Nat
        /\ \A k \in 1..len : f(k) = f(k - 1) + sizes[k]
        /\ \A j \in 0..len : \A k \in j..len : f(j) <= f(k)
    BY GraphSums, SumGrows
  <1> HIDE DEF f, len
  <1>3. ASSUME NEW i \in 1..len, NEW j \in 1..len, NEW x \in Nat, In(x, i), In(x, j)
        PROVE  ~(i < j)
    <2> SUFFICES ASSUME i < j PROVE FALSE
      OBVIOUS
    <2>1. i \in 0..len /\ j - 1 \in i..len /\ i - 1 \in 0..len /\ j - 1 \in 0..len
      BY <1>1
    <2>2. /\ f(i) = f(i - 1) + sizes[i] /\ f(i) <= f(j - 1)
          /\ f(i) \in Nat /\ f(j - 1) \in Nat /\ f(i - 1) \in Nat
      BY <1>2, <2>1
    <2>3. x < f(i) /\ f(j - 1) <= x
      BY <1>3, <2>2
    <2> QED
      BY <2>2, <2>3
  <1>4. \A i \in 1..len, j \in 1..len, x \in Nat : In(x, i) /\ In(x, j) => i = j
    BY <1>1, <1>3
  <1>5. block \in [Nat -> 1..len \cup {0}]
    OBVIOUS
  <1>6. ASSUME NEW i \in 1..len, NEW d \in Nat, d < sizes[i]
        PROVE  block[f(i - 1) + d] = i
    <2>1. f(i - 1) \in Nat /\ sizes[i] \in Nat
      BY <1>1, <1>2
    <2> DEFINE x == f(i - 1) + d
    <2>2. x \in Nat /\ In(x, i)
      BY <1>6, <2>1
    <2> HIDE DEF x, In
    <2>3. (CHOOSE j \in 1..len : In(x, j)) = i
      BY <1>4, <2>2
    <2>4. block[x] = i
      BY <2>2, <2>3
    <2> QED
      BY <2>4 DEF x
  <1> HIDE DEF block
  <1>7. \A i \in 1..len, d \in Nat : d < sizes[i] => block[f(i - 1) + d] = i
    BY <1>6
  <1> QED
    BY <1>5, <1>7 DEF f, len

-----------------------------------------------------------------------------
\* Layouts

AnyLabel == EntityLabel \cup SynonymLabel

\* The symbols that an edge may carry.
Symbol == Word \cup AnyLabel \cup {0}

\* The edges of a graph of m states.
EdgeAmong(m) == [from : 0..(m - 1), label : Symbol, weight : {0, 1}, next : 0..(m - 1)]

\* A layout: the outermost class or synonym that a state is inside of, the number of
\* tokens that it stands behind, the states that are reached in a class or synonym
\* without a word, and the number of tokens before each class and synonym.
Layout(m) == [open : [0..(m - 1) -> AnyLabel \cup {0}], pos : [0..(m - 1) -> Nat],
              idle : SUBSET (0..(m - 1)), since : [AnyLabel -> Nat]]

\* Whether an arc labelled l may lead from state p to state q.
PassesBy(lay, p, l, q) ==
    /\ ~IsLabel(l) /\ lay.open[q] = lay.open[p]
    /\ l = 0 => lay.pos[q] = lay.pos[p] /\ (p \in lay.idle => q \in lay.idle)
    /\ l # 0 /\ lay.open[p] = 0 => lay.pos[p] < lay.pos[q]

GoesIn(lay, p, l, q) ==
    /\ IsLabel(l) /\ lay.open[p] = 0 /\ lay.open[q] = l
    /\ lay.since[l] = lay.pos[p] /\ q \in lay.idle

GoesOut(lay, p, l, q) ==
    /\ IsLabel(l) /\ lay.open[p] = l /\ lay.open[q] = 0
    /\ lay.since[l] < lay.pos[q] /\ (p \in lay.idle => l \in FallbackLabel)

StaysInside(lay, p, l, q) ==
    /\ IsLabel(l) /\ lay.open[p] \notin {0, l} /\ lay.open[q] = lay.open[p]
    /\ p \in lay.idle => q \in lay.idle

Fits(lay, p, l, q) ==
    /\ lay.pos[p] <= lay.pos[q]
    /\ \/ PassesBy(lay, p, l, q) \/ GoesIn(lay, p, l, q)
       \/ GoesOut(lay, p, l, q) \/ StaysInside(lay, p, l, q)

Fitting(lay, m) == {e \in EdgeAmong(m) : Fits(lay, e.from, e.label, e.next)}

\* The labels are no words, and neither is <eps>.
LEMMA Symbols ==
    /\ \A w \in Word : w \in Nat /\ w # 0 /\ w \notin AnyLabel /\ ~IsLabel(w)
                       /\ w # InsLabel /\ w # DelLabel
    /\ \A l \in AnyLabel : l \in Nat /\ l # 0 /\ IsLabel(l) /\ l # InsLabel /\ l # DelLabel
    /\ \A l : IsLabel(l) <=> l \in AnyLabel
    /\ ~IsLabel(0) /\ 0 \notin AnyLabel
    /\ EntityLabel \cap SynonymLabel = {}
    /\ InsLabel \in Nat /\ DelLabel \in Nat /\ InsLabel # 0 /\ DelLabel # 0
    /\ InsLabel # DelLabel /\ ~IsLabel(InsLabel) /\ ~IsLabel(DelLabel)
    /\ InsLabel \notin Symbol /\ DelLabel \notin Symbol
  BY LabelAssumption DEF Word, AnyLabel, Symbol, IsLabel, T!IsLabel

\* A word inside of a class or a synonym.
LEMMA FitsInside ==
    ASSUME NEW m \in Nat, NEW lay \in Layout(m), NEW p \in 0..(m - 1), NEW q \in 0..(m - 1),
           NEW l \in Word, lay.open[p] # 0, lay.open[q] = lay.open[p],
           lay.pos[p] = lay.pos[q]
    PROVE  Fits(lay, p, l, q)
  <1>1. lay.pos[p] \in Nat
    BY DEF Layout
  <1> QED
    BY <1>1, Symbols DEF Fits, PassesBy

LEMMA EdgeIs ==
    ASSUME NEW m \in Nat, NEW p \in 0..(m - 1), NEW l \in Symbol, NEW cost \in {0, 1},
           NEW q \in 0..(m - 1)
    PROVE  G!Edge(p, l, cost, q) \in EdgeAmong(m)
  BY DEF G!Edge, EdgeAmong

\* The path of some words: it leads from p through the fresh states s, s + 1, ...
SpellEdges(m, p, s, t) ==
    {e \in EdgeAmong(m) : e.label \in Word /\ e.from \in {p} \cup (s..t) /\ e.next \in s..t}

LEMMA SpellLaid ==
    ASSUME NEW m \in Nat, NEW p \in 0..(m - 1), NEW words \in Seq(Word), NEW s \in Nat,
           s + Len(words) <= m
    PROVE  /\ G!Spell(p, words, s) \in Seq(SpellEdges(m, p, s, s + Len(words) - 1))
           /\ words = <<>> => G!EndOf(p, words, s) = p
           /\ words # <<>> => G!EndOf(p, words, s) \in s..(s + Len(words) - 1)
  <1> DEFINE k == Len(words)
             t == s + k - 1
  <1>1. k \in Nat /\ DOMAIN words = 1..k /\ \A i \in 1..k : words[i] \in Word
    OBVIOUS
  <1>2. ASSUME NEW i \in 1..k
        PROVE  G!Edge(IF i = 1 THEN p ELSE s + i - 2, words[i], 0, s + i - 1)
                 \in SpellEdges(m, p, s, t)
    <2> DEFINE f == IF i = 1 THEN p ELSE s + i - 2
               q == s + i - 1
    <2>0. i \in 1..k /\ s + k <= m /\ words[i] \in Word
      BY <1>1
    <2> HIDE DEF k
    <2>1. /\ f \in 0..(m - 1) /\ q \in 0..(m - 1)
          /\ f \in {p} \cup (s..t) /\ q \in s..t
      BY <1>1, <2>0
    <2>2. words[i] \in Symbol
      BY <2>0 DEF Symbol
    <2> HIDE DEF f, q, t
    <2>3. G!Edge(f, words[i], 0, q) \in EdgeAmong(m)
      BY <2>1, <2>2, EdgeIs
    <2> QED
      BY <2>0, <2>1, <2>3 DEF f, q, SpellEdges, G!Edge
  <1>3. G!Spell(p, words, s)
        = [i \in 1..k |-> G!Edge(IF i = 1 THEN p ELSE s + i - 2, words[i], 0, s + i - 1)]
    BY <1>1 DEF G!Spell
  <1>4. G!Spell(p, words, s) \in Seq(SpellEdges(m, p, s, t))
    <2> HIDE DEF k, t
    <2> QED
      BY <1>1, <1>2, <1>3
  <1>5. words # <<>> => k > 0
    OBVIOUS
  <1> QED
    BY <1>1, <1>4, <1>5 DEF G!EndOf

\* A class behind p, from its entry s; its alternatives use the states up to t.  It can
\* be passed without a word if one of them is empty.
ClassEdgesOf(m, p, l, s, t, skips) ==
    {e \in EdgeAmong(m) :
       \/ e.from = p /\ e.label = l /\ e.next = s
       \/ e.from = s + 1 /\ e.label = l /\ e.next = s + 2
       \/ e.label \in Word /\ e.from \in {s} \cup ((s + 3)..t) /\ e.next \in (s + 3)..t
       \/ e.label = 0 /\ e.next = s + 1 /\ (e.from = s => skips)
          /\ e.from \in {s} \cup ((s + 3)..t)}

LEMMA AlternativeLaid ==
    ASSUME NEW m \in Nat, NEW p, NEW l, NEW s \in Nat, NEW u \in Nat, NEW t \in Nat,
           NEW words \in Seq(Word), NEW skips, words = <<>> => skips,
           s + 3 + u + Len(words) - 1 <= t, t < m, s + 2 < m
    PROVE  Append(G!Spell(s, words, s + 3 + u),
                  G!Edge(G!EndOf(s, words, s + 3 + u), 0, 0, s + 1))
             \in Seq(ClassEdgesOf(m, p, l, s, t, skips))
  <1> DEFINE f == s + 3 + u
             k == Len(words)
             c == ClassEdgesOf(m, p, l, s, t, skips)
             end == G!EndOf(s, words, f)
  <1>1. k \in Nat /\ f \in Nat /\ f + k <= m /\ s \in 0..(m - 1) /\ f + k - 1 <= t /\ s + 3 <= f
        /\ s + 1 \in 0..(m - 1) /\ s + 2 \in 0..(m - 1)
    OBVIOUS
  <1> HIDE DEF f
  <1>2. /\ G!Spell(s, words, f) \in Seq(SpellEdges(m, s, f, f + k - 1))
        /\ words = <<>> => end = s
        /\ words # <<>> => end \in f..(f + k - 1)
    BY <1>1, SpellLaid
  <1> HIDE DEF end, k
  <1>3. SpellEdges(m, s, f, f + k - 1) \subseteq c
    <2> SUFFICES ASSUME NEW e \in SpellEdges(m, s, f, f + k - 1) PROVE e \in c
      OBVIOUS
    <2>1. /\ e \in EdgeAmong(m) /\ e.label \in Word
          /\ e.from \in {s} \cup (f..(f + k - 1)) /\ e.next \in f..(f + k - 1)
      BY DEF SpellEdges
    <2>2. e.from \in {s} \cup ((s + 3)..t) /\ e.next \in (s + 3)..t
      BY <1>1, <2>1
    <2> QED
      BY <2>1, <2>2 DEF ClassEdgesOf
  <1>4. G!Edge(end, 0, 0, s + 1) \in c
    <2>1. end \in 0..(m - 1) /\ end \in {s} \cup ((s + 3)..t) /\ (end = s => skips)
      BY <1>1, <1>2
    <2>2. G!Edge(end, 0, 0, s + 1) \in EdgeAmong(m)
      BY <1>1, <2>1, EdgeIs DEF Symbol
    <2> QED
      BY <2>1, <2>2 DEF ClassEdgesOf, G!Edge
  <1>5. G!Spell(s, words, f) \in Seq(c)
    <2> HIDE DEF c
    <2> QED
      BY <1>2, <1>3
  <1> HIDE DEF c
  <1>6. Append(G!Spell(s, words, f), G!Edge(end, 0, 0, s + 1)) \in Seq(c)
    BY <1>4, <1>5
  <1> QED
    BY <1>6 DEF c, f, end

\* Where the states of an alternative are.
LEMMA RoomBehind ==
    ASSUME NEW m \in Nat, NEW s \in Nat, NEW z \in Nat, NEW u \in Nat, NEW t \in Nat,
           s + 3 + z <= m, u + t <= z
    PROVE  /\ s + 3 + u + t - 1 <= s + 2 + z /\ s + 2 + z < m /\ s + 2 < m
           /\ s + 2 + z \in Nat
  OBVIOUS

\* A class with its alternatives.
LEMMA ClassLaid ==
    ASSUME NEW m \in Nat, NEW p \in 0..(m - 1), NEW l \in EntityLabel, NEW cost \in {0, 1},
           NEW s \in Nat, NEW alternatives \in Seq(Seq(Word)), NEW skips,
           ~skips => alternatives \in Seq(Words),
           s + 3 + Len(FlattenSeq(alternatives)) <= m
    PROVE  G!ClassEdges(p, l, cost, s, alternatives)
             \in Seq(ClassEdgesOf(m, p, l, s, s + 2 + Len(FlattenSeq(alternatives)), skips))
  <1> DEFINE c == Len(alternatives)
             lengths == [k \in 1..c |-> Len(alternatives[k])]
             fresh(k) == s + 3 + G!SumTo(lengths, k - 1)
             of(k) == Append(G!Spell(s, alternatives[k], fresh(k)),
                             G!Edge(G!EndOf(s, alternatives[k], fresh(k)), 0, 0, s + 1))
             ss == [k \in 1..c |-> of(k)]
             first == G!Edge(p, l, cost, s)
             leave == G!Edge(s + 1, l, 0, s + 2)
             z == Len(FlattenSeq(alternatives))
             es == ClassEdgesOf(m, p, l, s, s + 2 + z, skips)
  <1>1. /\ c \in Nat /\ DOMAIN alternatives = 1..c /\ lengths \in Seq(Nat) /\ Len(lengths) = c
        /\ \A k \in 1..c : alternatives[k] \in Seq(Word) /\ lengths[k] = Len(alternatives[k])
    OBVIOUS
  <1>2. Len(FlattenSeq(alternatives)) = G!SumTo(lengths, c)
    BY GraphLength
  <1>3. z \in Nat
    <2>1. FlattenSeq(alternatives) \in Seq(Word)
      BY FlattenFacts
    <2> QED
      BY <2>1
  <1>4. ASSUME NEW k \in 1..c PROVE of(k) \in Seq(es)
    <2>1. /\ G!SumTo(lengths, k - 1) \in Nat
          /\ G!SumTo(lengths, k - 1) + Len(alternatives[k]) <= G!SumTo(lengths, c)
      <3>1. k - 1 \in 0..c
        BY <1>1
      <3> HIDE DEF c, lengths
      <3> QED
        BY <1>1, <3>1, GraphSums
    <2> DEFINE a == alternatives[k]
               u == G!SumTo(lengths, k - 1)
               t == Len(a)
    <2>2. a \in Seq(Word) /\ t \in Nat /\ u \in Nat /\ u + t <= z /\ s + 3 + z <= m
      BY <1>1, <1>2, <2>1
    <2>3. a = <<>> => skips
      <3>1. ASSUME ~skips PROVE a # <<>>
        <4>1. alternatives \in Seq(Words) /\ k \in 1..Len(alternatives)
          BY <3>1
        <4>2. alternatives[k] \in Words
          BY <4>1
        <4> QED
          BY <4>2 DEF Words
      <3> QED
        BY <3>1
    <2> HIDE DEF u, t, z, c, a
    <2>4. s + 3 + u + t - 1 <= s + 2 + z /\ s + 2 + z < m /\ s + 2 < m /\ s + 2 + z \in Nat
      BY <1>3, <2>2, RoomBehind
    <2>5. Append(G!Spell(s, a, s + 3 + u), G!Edge(G!EndOf(s, a, s + 3 + u), 0, 0, s + 1))
            \in Seq(ClassEdgesOf(m, p, l, s, s + 2 + z, skips))
      BY <2>2, <2>3, <2>4, AlternativeLaid DEF t
    <2> QED
      BY <2>5 DEF u, a
  <1>5. ss \in [1..c -> Seq(es)]
    <2> HIDE DEF of, c, es
    <2> QED
      BY <1>4
  <1>6. first \in es /\ leave \in es
    <2> HIDE DEF z
    <2>1. /\ s \in 0..(m - 1) /\ s + 1 \in 0..(m - 1) /\ s + 2 \in 0..(m - 1) /\ l \in Symbol
          /\ 0 \in {0, 1}
      BY <1>3 DEF AnyLabel, Symbol, z
    <2>2. first \in EdgeAmong(m) /\ leave \in EdgeAmong(m)
      BY <2>1, EdgeIs
    <2> QED
      BY <2>2 DEF ClassEdgesOf, G!Edge
  <1>7. G!ClassEdges(p, l, cost, s, alternatives) = <<first, leave>> \o FlattenSeq(ss)
    <2>1. DOMAIN alternatives = 1..c
      BY <1>1
    <2> QED
      BY <2>1, GraphOps DEF G!ClassEdges, G!Eps
  <1> HIDE DEF ss, first, leave, c, es
  <1>8. FlattenSeq(ss) \in Seq(es)
    BY <1>1, <1>5, FlattenType
  <1> QED
    BY <1>6, <1>7, <1>8 DEF es

\* A class in the layout of its states.
LEMMA ClassFits ==
    ASSUME NEW m \in Nat, NEW lay \in Layout(m), NEW p \in 0..(m - 1), NEW l \in EntityLabel,
           NEW s \in Nat, NEW t \in Nat, s + 2 <= t, t < m,
           lay.open[p] = 0, lay.pos[p] < lay.pos[s], lay.since[l] = lay.pos[p],
           \A q \in s..t : /\ lay.pos[q] = lay.pos[s]
                           /\ lay.open[q] = IF q = s + 2 THEN 0 ELSE l,
           s \in lay.idle, s + 1 \in lay.idle <=> l \in FallbackLabel,
           \A q \in (s + 3)..t : q \notin lay.idle
    PROVE  ClassEdgesOf(m, p, l, s, t, l \in FallbackLabel)
             \subseteq {e \in Fitting(lay, m) : e.label \notin SynonymLabel}
  <1> SUFFICES ASSUME NEW e \in ClassEdgesOf(m, p, l, s, t, l \in FallbackLabel)
               PROVE  Fits(lay, e.from, e.label, e.next) /\ e.label \notin SynonymLabel
    BY DEF ClassEdgesOf, Fitting
  <1>1. /\ s \in s..t /\ s + 1 \in s..t /\ s + 2 \in s..t /\ s # s + 1 /\ s # s + 2 /\ s + 1 # s + 2
        /\ \A q \in (s + 3)..t : q \in s..t /\ q # s + 2 /\ q # s
        /\ \A q \in s..t : q \in 0..(m - 1)
    OBVIOUS
  <1>2. \A q \in 0..(m - 1) : lay.pos[q] \in Nat
    BY DEF Layout
  <1>3. l \in Nat /\ l # 0 /\ IsLabel(l) /\ l \notin SynonymLabel
    BY Symbols DEF AnyLabel
  <1>4. CASE e.from = p /\ e.label = l /\ e.next = s
    <2>1. GoesIn(lay, p, l, s) /\ lay.pos[p] <= lay.pos[s]
      BY <1>1, <1>2, <1>3 DEF GoesIn
    <2> QED
      BY <1>3, <1>4, <2>1 DEF Fits
  <1>5. CASE e.from = s + 1 /\ e.label = l /\ e.next = s + 2
    <2>1. GoesOut(lay, s + 1, l, s + 2) /\ lay.pos[s + 1] <= lay.pos[s + 2]
      BY <1>1, <1>2, <1>3 DEF GoesOut
    <2> QED
      BY <1>3, <1>5, <2>1 DEF Fits
  <1>6. CASE /\ e.label \in Word /\ e.from \in {s} \cup ((s + 3)..t)
             /\ e.next \in (s + 3)..t
    <2>1. /\ e.from \in 0..(m - 1) /\ e.next \in 0..(m - 1)
          /\ lay.open[e.from] = l /\ lay.open[e.next] = l
          /\ lay.pos[e.from] = lay.pos[e.next]
      BY <1>1, <1>6
    <2>2. Fits(lay, e.from, e.label, e.next)
      BY <1>3, <1>6, <2>1, FitsInside
    <2>3. e.label \notin SynonymLabel
      BY <1>6, Symbols DEF AnyLabel
    <2> QED
      BY <2>2, <2>3
  <1>7. CASE /\ e.label = 0 /\ e.next = s + 1 /\ (e.from = s => l \in FallbackLabel)
             /\ e.from \in {s} \cup ((s + 3)..t)
    <2>1. /\ e.from \in 0..(m - 1) /\ e.next \in 0..(m - 1)
          /\ lay.open[e.from] = l /\ lay.open[e.next] = l
          /\ lay.pos[e.from] = lay.pos[e.next]
          /\ e.from \in lay.idle => e.next \in lay.idle
      BY <1>1, <1>7
    <2>2. lay.pos[e.from] \in Nat
      BY <1>2, <2>1
    <2>3. Fits(lay, e.from, e.label, e.next)
      BY <1>3, <1>7, <2>1, <2>2, Symbols DEF Fits, PassesBy
    <2> QED
      BY <1>7, <2>3, Symbols DEF AnyLabel
  <1> QED
    BY <1>4, <1>5, <1>6, <1>7 DEF ClassEdgesOf

\* A graph under construction with its layout, and one without any synonym yet.
IsLaid(g, lay) ==
    /\ g.n \in Nat \ {0} /\ g.last \in 0..(g.n - 1) /\ lay \in Layout(g.n)
    /\ g.edges \in Seq(Fitting(lay, g.n))
    /\ lay.open[0] = 0 /\ lay.open[g.last] = 0
    /\ g = [edges |-> g.edges, n |-> g.n, last |-> g.last]

NoSynonyms(g, lay) ==
    /\ \A s \in 0..(g.n - 1) : lay.open[s] \notin SynonymLabel
    /\ g.edges \in Seq({e \in Fitting(lay, g.n) : e.label \notin SynonymLabel})

\* What the loader makes of the rows.
Candidates == {c \in [EntityLabel -> Seq(Seq(Word))] :
                 \A l \in EntityLabel \ FallbackLabel : c[l] \in Seq(Words)}

Once(tokens) ==
    \A i, j \in 1..Len(tokens) : tokens[i] \in EntityLabel /\ tokens[i] = tokens[j] => i = j

LEMMA WeightType == ASSUME NEW map, NEW i PROVE G!Weight(map, i) \in {0, 1}
  BY DEF G!Weight

\* The graph of a text with its classes.
LEMMA ConvertLaid ==
    ASSUME NEW tokens \in Seq(Word \cup EntityLabel), Once(tokens), NEW cands \in Candidates
    PROVE  \E lay : /\ IsLaid(G!ConvertToFst(tokens, <<>>, cands), lay)
                    /\ NoSynonyms(G!ConvertToFst(tokens, <<>>, cands), lay)
  <1> DEFINE k == Len(tokens)
             isClass(i) == tokens[i] \in EntityLabel
             size(i) == IF isClass(i) THEN 3 + Len(FlattenSeq(cands[tokens[i]])) ELSE 1
             sizes == [i \in 1..k |-> size(i)]
             fresh(i) == 1 + G!SumTo(sizes, i - 1)
             end(i) == IF i = 0 THEN 0 ELSE fresh(i) + (IF isClass(i) THEN 2 ELSE 0)
             of(i) == IF isClass(i)
                      THEN G!ClassEdges(end(i - 1), tokens[i], G!Weight(<<>>, i), fresh(i),
                                        cands[tokens[i]])
                      ELSE <<G!Edge(end(i - 1), tokens[i], G!Weight(<<>>, i), fresh(i))>>
             ss == [i \in 1..k |-> of(i)]
             m == 1 + G!SumTo(sizes, k)
             g == G!ConvertToFst(tokens, <<>>, cands)
  <1>1. k \in Nat /\ DOMAIN tokens = 1..k /\ \A i \in 1..k : tokens[i] \in Word \cup EntityLabel
    OBVIOUS
  <1>2. ASSUME NEW i \in 1..k, isClass(i)
        PROVE  /\ cands[tokens[i]] \in Seq(Seq(Word))
               /\ Len(FlattenSeq(cands[tokens[i]])) \in Nat
               /\ tokens[i] \notin FallbackLabel => cands[tokens[i]] \in Seq(Words)
    <2>1. /\ cands[tokens[i]] \in Seq(Seq(Word))
          /\ tokens[i] \notin FallbackLabel => cands[tokens[i]] \in Seq(Words)
      BY <1>2 DEF Candidates
    <2>2. FlattenSeq(cands[tokens[i]]) \in Seq(Word)
      BY <2>1, FlattenFacts
    <2> QED
      BY <2>1, <2>2
  <1>3. \A i \in 1..k : /\ size(i) \in Nat \ {0}
                        /\ isClass(i) => /\ size(i) >= 3
                                         /\ size(i) = 3 + Len(FlattenSeq(cands[tokens[i]]))
                        /\ ~isClass(i) => size(i) = 1
    BY <1>2
  <1>4. sizes \in Seq(Nat) /\ Len(sizes) = k /\ \A i \in 1..k : sizes[i] = size(i)
    <2> HIDE DEF size, k
    <2> QED
      BY <1>1, <1>3
  <1>5. g = [edges |-> FlattenSeq(ss), n |-> m, last |-> end(k)]
    <2>1. DOMAIN tokens = 1..k
      BY <1>1
    <2>2. Len(sizes) = k
      BY <1>4
    <2> QED
      BY <2>1, <2>2, GraphOps DEF G!ConvertToFst
  <1> HIDE DEF size, sizes, k
  <1>6. G!SumTo(sizes, k) \in Nat /\ m \in Nat \ {0}
    BY <1>1, <1>4, GraphSums
  <1>7. ASSUME NEW i \in 1..k
        PROVE  /\ fresh(i) \in Nat \ {0} /\ fresh(i) + size(i) <= m
               /\ fresh(i) - 1 = G!SumTo(sizes, i - 1)
    <2>1. /\ G!SumTo(sizes, i - 1) \in Nat
          /\ G!SumTo(sizes, i - 1) + sizes[i] <= G!SumTo(sizes, k)
      <3>1. i - 1 \in 0..k
        BY <1>1
      <3> QED
        BY <1>1, <1>4, <3>1, GraphSums
    <2> DEFINE u == G!SumTo(sizes, i - 1)
               v == G!SumTo(sizes, k)
               t == size(i)
    <2>2. u \in Nat /\ v \in Nat /\ t \in Nat \ {0} /\ u + t <= v
      BY <1>3, <1>4, <1>6, <2>1
    <2> HIDE DEF u, v, t
    <2>3. 1 + u \in Nat \ {0} /\ (1 + u) + t <= 1 + v /\ (1 + u) - 1 = u
      BY <2>2
    <2> QED
      BY <2>3 DEF u, v, t
  <1>8. PICK block \in [Nat -> 1..k \cup {0}] :
          \A i \in 1..k, d \in Nat : d < size(i) => block[G!SumTo(sizes, i - 1) + d] = i
    BY <1>1, <1>4, Blocks
  <1> HIDE DEF fresh, m
  <1> DEFINE b(s) == block[s - 1]
             class(i) == IF isClass(i) THEN tokens[i] ELSE 0
             lay == [open |-> [s \in 0..(m - 1) |->
                                 IF s = 0 \/ b(s) = 0 \/ s = fresh(b(s)) + 2 THEN 0
                                 ELSE class(b(s))],
                     pos |-> [s \in 0..(m - 1) |-> IF s = 0 THEN 0 ELSE b(s)],
                     idle |-> {s \in 1..(m - 1) :
                                 /\ b(s) # 0
                                 /\ \/ s = fresh(b(s))
                                    \/ s = fresh(b(s)) + 1 /\ tokens[b(s)] \in FallbackLabel},
                     since |-> [l \in AnyLabel |->
                                  IF \E i \in 1..k : tokens[i] = l
                                  THEN (CHOOSE i \in 1..k : tokens[i] = l) - 1 ELSE 0]]
  <1>9. lay \in Layout(m)
    <2>1. \A s \in 0..(m - 1) : s # 0 => b(s) \in 1..k \cup {0}
      BY <1>6, <1>8
    <2>2. \A i \in 1..k : class(i) \in AnyLabel \cup {0}
      BY DEF AnyLabel
    <2>3. \A l \in AnyLabel : (\E i \in 1..k : tokens[i] = l) =>
            (CHOOSE i \in 1..k : tokens[i] = l) - 1 \in Nat
      BY <1>1
    <2> HIDE DEF b, class
    <2>4. /\ lay.open \in [0..(m - 1) -> AnyLabel \cup {0}]
          /\ lay.idle \in SUBSET (0..(m - 1))
      BY <2>1, <2>2
    <2>5. lay.pos \in [0..(m - 1) -> Nat]
      BY <1>1, <2>1
    <2>6. lay.since \in [AnyLabel -> Nat]
      BY <2>3
    <2> QED
      BY <2>4, <2>5, <2>6 DEF Layout
  <1>10. ASSUME NEW i \in 1..k, NEW d \in Nat, d < size(i)
         PROVE  /\ fresh(i) + d \in 0..(m - 1)
                /\ lay.pos[fresh(i) + d] = i
                /\ lay.open[fresh(i) + d] = IF d = 2 THEN 0 ELSE class(i)
                /\ fresh(i) + d \in lay.idle <=>
                     d = 0 \/ (d = 1 /\ tokens[i] \in FallbackLabel)
    <2> DEFINE s == fresh(i) + d
    <2>1. /\ s \in 1..(m - 1) /\ s # 0 /\ s - 1 = G!SumTo(sizes, i - 1) + d
          /\ s = fresh(i) + 2 <=> d = 2
          /\ s = fresh(i) <=> d = 0
          /\ s = fresh(i) + 1 <=> d = 1
      <3> DEFINE f == fresh(i)
                 u == G!SumTo(sizes, i - 1)
                 t == size(i)
      <3>1. f \in Nat \ {0} /\ f + t <= m /\ f - 1 = u /\ t \in Nat /\ d < t
        BY <1>3, <1>7, <1>10
      <3> HIDE DEF f, u, t
      <3>2. /\ f + d \in 1..(m - 1) /\ f + d # 0 /\ (f + d) - 1 = u + d
            /\ f + d = f + 2 <=> d = 2
            /\ f + d = f <=> d = 0
            /\ f + d = f + 1 <=> d = 1
        BY <1>6, <3>1
      <3> QED
        BY <3>2 DEF f, u
    <2> HIDE DEF s
    <2>2. b(s) = i /\ i # 0
      BY <1>1, <1>8, <1>10, <2>1
    <2>3. s \in 0..(m - 1)
      BY <2>1
    <2> HIDE DEF b, class
    <2>4. lay.pos[s] = i /\ lay.open[s] = IF d = 2 THEN 0 ELSE class(i)
      BY <2>1, <2>2, <2>3
    <2>5. s \in lay.idle <=> d = 0 \/ (d = 1 /\ tokens[i] \in FallbackLabel)
      BY <2>1, <2>2
    <2> QED
      BY <2>3, <2>4, <2>5 DEF s
  <1>11. lay.open[0] = 0 /\ lay.pos[0] = 0
    <2>1. 0 \in 0..(m - 1)
      BY <1>6
    <2> QED
      BY <2>1
  <1>12. ASSUME NEW i \in 1..k, isClass(i) PROVE lay.since[tokens[i]] = i - 1
    <2>1. tokens[i] \in AnyLabel
      BY <1>12 DEF AnyLabel
    <2>2. \A j \in 1..k : tokens[j] = tokens[i] => j = i
      BY <1>1, <1>12 DEF Once, k
    <2>3. (CHOOSE j \in 1..k : tokens[j] = tokens[i]) = i
      BY <2>2
    <2> HIDE DEF b, class
    <2> QED
      BY <2>1, <2>3
  <1>13. lay.open \in [0..(m - 1) -> {0} \cup EntityLabel]
    <2>1. \A i \in 1..k : class(i) \in {0} \cup EntityLabel
      OBVIOUS
    <2>2. \A s \in 0..(m - 1) : s # 0 => b(s) \in 1..k \cup {0}
      BY <1>6, <1>8
    <2> HIDE DEF b, class
    <2> QED
      BY <2>1, <2>2
  <1> HIDE DEF lay, b
  <1>14. \A i \in 0..k : end(i) \in 0..(m - 1) /\ lay.open[end(i)] = 0 /\ lay.pos[end(i)] = i
    <2> SUFFICES ASSUME NEW i \in 0..k
                 PROVE  end(i) \in 0..(m - 1) /\ lay.open[end(i)] = 0 /\ lay.pos[end(i)] = i
      OBVIOUS
    <2>1. CASE i = 0
      BY <1>6, <1>11, <2>1
    <2>2. CASE i # 0 /\ isClass(i)
      <3>1. i \in 1..k /\ 2 < size(i) /\ 2 \in Nat
        BY <1>1, <1>3, <2>2
      <3>2. end(i) = fresh(i) + 2
        BY <2>2
      <3> QED
        BY <1>10, <3>1, <3>2
    <2>3. CASE i # 0 /\ ~isClass(i)
      <3>1. i \in 1..k /\ 0 < size(i) /\ 0 \in Nat /\ class(i) = 0
        BY <1>1, <1>3, <2>3
      <3>2. end(i) = fresh(i) + 0
        BY <1>7, <2>3, <3>1
      <3> HIDE DEF class
      <3> QED
        BY <1>10, <3>1, <3>2
    <2> QED
      BY <2>1, <2>2, <2>3
  <1> DEFINE es == {e \in Fitting(lay, m) : e.label \notin SynonymLabel}
  <1>15. ASSUME NEW i \in 1..k PROVE of(i) \in Seq(es)
    <2> DEFINE p == end(i - 1)
               s == fresh(i)
               l == tokens[i]
               w == G!Weight(<<>>, i)
               z == Len(FlattenSeq(cands[l]))
    <2>1. /\ p \in 0..(m - 1) /\ lay.open[p] = 0 /\ lay.pos[p] = i - 1
          /\ w \in {0, 1} /\ s \in Nat /\ s + size(i) <= m
      <3>1. i - 1 \in 0..k
        BY <1>1
      <3> HIDE DEF end
      <3> QED
        BY <1>7, <1>14, <3>1, WeightType
    <2>2. of(i) = IF isClass(i) THEN G!ClassEdges(p, l, w, s, cands[l])
                  ELSE <<G!Edge(p, l, w, s)>>
      OBVIOUS
    <2> HIDE DEF of, p, w, end
    <2>3. CASE isClass(i)
      <3>1. /\ z \in Nat /\ size(i) = 3 + z /\ l \in EntityLabel /\ class(i) = l
            /\ cands[l] \in Seq(Seq(Word)) /\ (l \notin FallbackLabel => cands[l] \in Seq(Words))
        BY <1>2, <1>3, <2>3
      <3>2. lay.since[l] = i - 1
        BY <1>12, <2>3
      <3> DEFINE t == s + 2 + z
      <3> HIDE DEF z, class
      <3>3. \A d \in Nat : d < 3 + z =>
              /\ lay.pos[s + d] = i /\ lay.open[s + d] = IF d = 2 THEN 0 ELSE l
              /\ s + d \in lay.idle <=> d = 0 \/ (d = 1 /\ l \in FallbackLabel)
        BY <1>10, <3>1
      <3> HIDE DEF s, l
      <3>4. s + 2 <= t /\ t < m /\ t \in Nat /\ s + 3 + z <= m
        BY <1>6, <2>1, <3>1
      <3>5. \A q \in s..t : q - s \in Nat /\ q - s < 3 + z /\ s + (q - s) = q
        BY <2>1, <3>1
      <3>6. /\ \A q \in s..t : lay.pos[q] = i /\ lay.open[q] = IF q = s + 2 THEN 0 ELSE l
            /\ \A q \in s..t : q \in lay.idle <=> q = s \/ (q = s + 1 /\ l \in FallbackLabel)
        <4> SUFFICES ASSUME NEW q \in s..t
                     PROVE  /\ lay.pos[q] = i /\ lay.open[q] = IF q = s + 2 THEN 0 ELSE l
                            /\ q \in lay.idle <=> q = s \/ (q = s + 1 /\ l \in FallbackLabel)
          OBVIOUS
        <4>1. PICK d \in Nat : d < 3 + z /\ s + d = q
          BY <3>5
        <4>2. /\ q = s + 2 <=> d = 2
              /\ q = s <=> d = 0
              /\ q = s + 1 <=> d = 1
          BY <2>1, <4>1
        <4>3. /\ lay.pos[s + d] = i /\ lay.open[s + d] = IF d = 2 THEN 0 ELSE l
              /\ s + d \in lay.idle <=> d = 0 \/ (d = 1 /\ l \in FallbackLabel)
          BY <3>3, <4>1
        <4> QED
          BY <4>1, <4>2, <4>3
      <3> HIDE DEF t
      <3>7. s \in s..t /\ s + 1 \in s..t /\ s # s + 1 /\ \A q \in (s + 3)..t : q \in s..t /\ q # s /\ q # s + 1
        BY <2>1, <3>4
      <3>8. /\ s \in lay.idle /\ (s + 1 \in lay.idle <=> l \in FallbackLabel)
            /\ \A q \in (s + 3)..t : q \notin lay.idle
            /\ lay.pos[s] = i /\ i - 1 < i
        BY <1>1, <3>6, <3>7
      <3>9. ClassEdgesOf(m, p, l, s, t, l \in FallbackLabel) \subseteq es
        <4>1. /\ \A q \in s..t : lay.pos[q] = lay.pos[s] /\ lay.open[q] = IF q = s + 2 THEN 0 ELSE l
              /\ lay.pos[p] < lay.pos[s] /\ lay.since[l] = lay.pos[p] /\ m \in Nat
          BY <1>6, <2>1, <3>2, <3>6, <3>8
        <4> HIDE DEF es
        <4>2. ClassEdgesOf(m, p, l, s, t, l \in FallbackLabel)
                \subseteq {e \in Fitting(lay, m) : e.label \notin SynonymLabel}
          BY <1>9, <2>1, <3>1, <3>4, <3>8, <4>1, ClassFits, SMTT(40)
        <4> QED
          BY <4>2 DEF es
      <3>10. G!ClassEdges(p, l, w, s, cands[l])
               \in Seq(ClassEdgesOf(m, p, l, s, t, l \in FallbackLabel))
        <4> DEFINE alts == cands[l]
        <4>1. alts \in Seq(Seq(Word)) /\ (l \notin FallbackLabel => alts \in Seq(Words))
          BY <3>1
        <4>2. s + 3 + Len(FlattenSeq(alts)) <= m
          BY <3>4 DEF z
        <4>3. m \in Nat /\ p \in 0..(m - 1) /\ w \in {0, 1} /\ s \in Nat /\ l \in EntityLabel
          BY <1>6, <2>1, <3>1
        <4> HIDE DEF alts
        <4>4. G!ClassEdges(p, l, w, s, alts)
                \in Seq(ClassEdgesOf(m, p, l, s, s + 2 + Len(FlattenSeq(alts)), l \in FallbackLabel))
          BY <4>1, <4>2, <4>3, ClassLaid
        <4> QED
          BY <4>4 DEF t, z, alts
      <3> HIDE DEF es
      <3>11. G!ClassEdges(p, l, w, s, cands[l]) \in Seq(es)
        BY <3>9, <3>10
      <3> QED
        BY <2>2, <2>3, <3>11 DEF l
    <2>4. CASE ~isClass(i)
      <3>1. l \in Word /\ l \in Nat /\ l # 0 /\ ~IsLabel(l) /\ l \notin SynonymLabel
        BY <1>1, <2>4, Symbols DEF AnyLabel
      <3>2. 0 \in Nat /\ 0 < size(i) /\ fresh(i) + 0 = s /\ class(i) = 0
        BY <1>3, <2>1, <2>4
      <3> HIDE DEF class
      <3>3. lay.pos[s] = i /\ lay.open[s] = 0 /\ s \in 0..(m - 1)
        BY <1>10, <3>2
      <3>4. Fits(lay, p, l, s)
        BY <1>1, <2>1, <3>1, <3>3 DEF Fits, PassesBy
      <3>5. G!Edge(p, l, w, s) \in EdgeAmong(m)
        BY <1>6, <2>1, <3>1, <3>3, EdgeIs DEF Symbol
      <3>6. G!Edge(p, l, w, s) \in es
        BY <3>1, <3>4, <3>5 DEF Fitting, G!Edge
      <3> HIDE DEF es
      <3> QED
        BY <2>2, <2>4, <3>6
    <2> QED
      BY <2>3, <2>4
  <1> HIDE DEF of, end, g
  <1>16. FlattenSeq(ss) \in Seq(es)
    <2>1. ss \in [1..k -> Seq(es)]
      BY <1>15
    <2> HIDE DEF ss, es
    <2> QED
      BY <1>1, <2>1, FlattenType
  <1>17. IsLaid(g, lay) /\ NoSynonyms(g, lay)
    <2>1. FlattenSeq(ss) \in Seq(Fitting(lay, m))
      BY <1>16
    <2>2. end(k) \in 0..(m - 1) /\ lay.open[end(k)] = 0
      BY <1>1, <1>14
    <2>3. \A s \in 0..(m - 1) : lay.open[s] \notin SynonymLabel
      <3>1. \A s \in 0..(m - 1) : lay.open[s] \in {0} \cup EntityLabel
        BY <1>13
      <3> QED
        BY <3>1, Symbols DEF AnyLabel
    <2> HIDE DEF ss
    <2> QED
      BY <1>5, <1>6, <1>9, <1>11, <1>16, <2>1, <2>2, <2>3 DEF IsLaid, NoSynonyms
  <1> QED
    BY <1>17 DEF g

-----------------------------------------------------------------------------
\* Replacements

\* The edges that leave a state.
LEMMA EdgesFromOf ==
    ASSUME NEW elems, NEW g, g.edges \in Seq(elems), NEW s
    PROVE  G!EdgesFrom(g, s) \in Seq({e \in elems : e.from = s})
  <1> DEFINE keep == {j \in DOMAIN g.edges : g.edges[j].from = s}
             es == g.edges
             kept == {es[i] : i \in keep \cap (1..Len(es))}
  <1>1. G!EdgesFrom(g, s) = Those(es, keep)
    BY GraphOps DEF G!EdgesFrom
  <1>2. kept \subseteq {e \in elems : e.from = s}
    <2> SUFFICES ASSUME NEW i \in keep \cap (1..Len(es))
                 PROVE  es[i] \in elems /\ es[i].from = s
      OBVIOUS
    <2> QED
      OBVIOUS
  <1>3. Those(es, keep) \in Seq(kept)
    <2>1. es \in Seq(elems)
      OBVIOUS
    <2> HIDE DEF keep, es
    <2> QED
      BY <2>1, ThoseFacts
  <1> HIDE DEF kept
  <1> QED
    BY <1>1, <1>2, <1>3

\* The states that may be reached from p with words: when p is outside of all classes
\* and synonyms, those that are further on.
Ahead(lay, m, p) ==
    {q \in 0..(m - 1) : lay.open[q] = lay.open[p] /\ lay.pos[p] <= lay.pos[q]}

Beyond(lay, m, p) ==
    {q \in Ahead(lay, m, p) : lay.open[p] = 0 => lay.pos[p] < lay.pos[q]}

LEMMA BehindLaid ==
    ASSUME NEW g, NEW lay, IsLaid(g, lay), NEW word \in Word, NEW s \in 0..(g.n - 1)
    PROVE  G!Behind(g, word)[s] \in Seq(Beyond(lay, g.n, s))
  <1> DEFINE m == g.n
             es == g.edges
             keep == {k \in DOMAIN es : es[k].from = s /\ es[k].label = word}
             kept == {es[i] : i \in keep \cap (1..Len(es))}
             r == Those(es, keep)
             t == [k \in 1..Len(r) |-> r[k].next]
  <1>1. es \in Seq(Fitting(lay, m)) /\ lay \in Layout(m)
    BY DEF IsLaid
  <1>2. r \in Seq(kept)
    <2> HIDE DEF es, keep
    <2> QED
      BY <1>1, ThoseFacts
  <1>3. \A e \in kept : e.next \in Beyond(lay, m, s)
    <2> SUFFICES ASSUME NEW i \in keep \cap (1..Len(es)) PROVE es[i].next \in Beyond(lay, m, s)
      OBVIOUS
    <2>1. es[i] \in Fitting(lay, m) /\ es[i].from = s /\ es[i].label = word
      BY <1>1
    <2> HIDE DEF es, keep
    <2>2. Fits(lay, s, word, es[i].next) /\ es[i].next \in 0..(m - 1)
      BY <2>1 DEF Fitting, EdgeAmong
    <2>3. PassesBy(lay, s, word, es[i].next) /\ lay.pos[s] <= lay.pos[es[i].next] /\ word # 0
      BY <2>2, Symbols DEF Fits, GoesIn, GoesOut, StaysInside
    <2> QED
      BY <2>2, <2>3 DEF PassesBy, Beyond, Ahead
  <1>4. G!Behind(g, word)[s] = t
    <2>1. r = G!Those(es, keep)
      BY GraphOps
    <2>2. DOMAIN r = 1..Len(r)
      BY <1>2
    <2> HIDE DEF r
    <2> QED
      BY <2>1, <2>2 DEF G!Behind
  <1> HIDE DEF kept, r, m
  <1>5. Len(r) \in Nat /\ \A k \in 1..Len(r) : r[k] \in kept
    BY <1>2
  <1>6. t \in Seq(Beyond(lay, m, s))
    BY <1>3, <1>5
  <1> QED
    BY <1>4, <1>6 DEF m

\* Words are read on from states ahead to states beyond.
LEMMA FurtherOn ==
    ASSUME NEW m \in Nat, NEW lay \in Layout(m), NEW p \in 0..(m - 1),
           NEW q \in Ahead(lay, m, p)
    PROVE  Beyond(lay, m, q) \subseteq Beyond(lay, m, p)
  <1> SUFFICES ASSUME NEW r \in Beyond(lay, m, q) PROVE r \in Beyond(lay, m, p)
    OBVIOUS
  <1>1. q \in 0..(m - 1) /\ r \in 0..(m - 1)
    BY DEF Ahead, Beyond
  <1>2. lay.pos[p] \in Nat /\ lay.pos[q] \in Nat /\ lay.pos[r] \in Nat
    BY <1>1 DEF Layout
  <1> QED
    BY <1>1, <1>2 DEF Ahead, Beyond

LEMMA ReadLaid ==
    ASSUME NEW g, NEW lay, IsLaid(g, lay), NEW words \in Words, NEW p \in 0..(g.n - 1)
    PROVE  G!Read(g, <<p>>, words) \in Seq(Beyond(lay, g.n, p))
  <1> DEFINE k == Len(words)
             m == g.n
             V == Seq(Ahead(lay, m, p))
             states == <<p>>
             On(ends, word) ==
                 G!FlattenSeq([j \in DOMAIN ends |-> G!Behind(g, word)[ends[j]]])
             step == [i \in 1..k |-> [v \in V |-> On(v, words[i])]]
             Eq(h) == h = [s \in SUBSET (DOMAIN words) |->
                             IF s = {} THEN states
                             ELSE On(h[s \ {G!Max(s)}], words[G!Max(s)])]
             it == CHOOSE h : Eq(h)
  <1>0. /\ k \in Nat \ {0} /\ DOMAIN words = 1..k /\ \A s : G!Max(s) = Max(s)
        /\ \A i \in 1..k : words[i] \in Word
    BY GraphOps DEF Words
  <1>a. m \in Nat /\ lay \in Layout(m)
    BY DEF IsLaid
  <1>1. ASSUME NEW v \in V, NEW word \in Word
        PROVE  On(v, word) \in Seq(Beyond(lay, m, p)) /\ On(v, word) \in V
    <2> DEFINE b == G!Behind(g, word)
               d == Len(v)
               ss == [j \in 1..d |-> b[v[j]]]
    <2>1. \A s \in 0..(m - 1) : b[s] \in Seq(Beyond(lay, m, s))
      BY BehindLaid
    <2> HIDE DEF b
    <2>2. d \in Nat /\ DOMAIN v = 1..d /\ \A j \in 1..d : v[j] \in Ahead(lay, m, p)
      OBVIOUS
    <2> HIDE DEF d, m
    <2>3. ASSUME NEW j \in 1..d PROVE b[v[j]] \in Seq(Beyond(lay, m, p))
      <3>1. v[j] \in Ahead(lay, m, p) /\ v[j] \in 0..(m - 1)
        BY <2>2 DEF Ahead
      <3>2. p \in 0..(m - 1)
        BY DEF m
      <3>3. Beyond(lay, m, v[j]) \subseteq Beyond(lay, m, p)
        BY <1>a, <3>1, <3>2, FurtherOn
      <3> QED
        BY <2>1, <3>1, <3>3
    <2>4. ss \in [1..d -> Seq(Beyond(lay, m, p))]
      BY <2>3
    <2> HIDE DEF ss
    <2>5. FlattenSeq(ss) \in Seq(Beyond(lay, m, p))
      BY <2>2, <2>4, FlattenType
    <2>6. On(v, word) = FlattenSeq(ss)
      BY <2>2, GraphOps DEF ss, b
    <2>7. Beyond(lay, m, p) \subseteq Ahead(lay, m, p)
      BY DEF Beyond
    <2> HIDE DEF On
    <2> QED
      BY <2>5, <2>6, <2>7
  <1> HIDE DEF On
  <1>2. AreSteps(step, k, V) /\ states \in V
    <2>1. p \in Ahead(lay, m, p)
      <3>1. lay.pos[p] \in Nat
        BY <1>a DEF Layout
      <3> QED
        BY <3>1 DEF Ahead
    <2> HIDE DEF k, m
    <2>2. states \in V
      BY <2>1
    <2> HIDE DEF V
    <2> QED
      BY <1>0, <1>1, <2>2 DEF AreSteps
  <1>3. \E h : Eq(h)
    <2>1. PICK h \in [SUBSET (1..k) -> V] : IsFold(h, step, k, states)
      <3> HIDE DEF step, k, V
      <3> QED
        BY <1>0, <1>2, FoldExists
    <2>2. \A s \in SUBSET (1..k) : s # {} =>
             step[Max(s)][h[s \ {Max(s)}]] = On(h[s \ {Max(s)}], words[Max(s)])
      <3> SUFFICES ASSUME NEW s \in SUBSET (1..k), s # {}
                   PROVE  step[Max(s)][h[s \ {Max(s)}]] = On(h[s \ {Max(s)}], words[Max(s)])
        OBVIOUS
      <3> HIDE DEF k, V
      <3>1. Max(s) \in 1..k
        BY <1>0, LastPosition
      <3>2. h[s \ {Max(s)}] \in V
        BY <2>1
      <3> QED
        BY <3>1, <3>2
    <2>3. Eq(h)
      <3> HIDE DEF step, k, V
      <3> QED
        BY <1>0, <2>1, <2>2 DEF IsFold
    <2> HIDE DEF Eq
    <2> QED
      BY <2>3
  <1>4. Eq(it)
    <2> HIDE DEF Eq
    <2> QED
      BY <1>3
  <1>5. G!Read(g, states, words) = it[1..k]
    <2>1. G!Read(g, states, words) = it[DOMAIN words]
      BY DEF G!Read, G!FoldLeft, G!MapThenFoldSet, On
    <2> HIDE DEF it, k
    <2> QED
      BY <1>0, <2>1
  <1> HIDE DEF it
  <1>6. it[{}] = states
    <2> HIDE DEF k
    <2> QED
      BY <1>0, <1>4
  <1>7. \A i \in 1..k : it[1..(i - 1)] \in V => it[1..i] = step[i][it[1..(i - 1)]]
    <2> SUFFICES ASSUME NEW i \in 1..k, it[1..(i - 1)] \in V
                 PROVE  it[1..i] = step[i][it[1..(i - 1)]]
      OBVIOUS
    <2>1. Max(1..i) = i /\ (1..i) \ {i} = 1..(i - 1)
      <3>1. i \in Nat \ {0}
        OBVIOUS
      <3> QED
        BY <3>1, MaxOfPrefix
    <2>2. (1..i) \in SUBSET (1..k) /\ 1..i # {}
      <3>1. i \in 1..i /\ \A y \in 1..i : y \in 1..k
        BY <1>0
      <3> QED
        BY <3>1
    <2> DEFINE s == 1..i
    <2>3. it[s] = On(it[s \ {Max(s)}], words[Max(s)])
      <3> HIDE DEF s, k
      <3> QED
        BY <1>0, <1>4, <2>2 DEF s
    <2>4. step[i][it[1..(i - 1)]] = On(it[1..(i - 1)], words[i])
      <3> HIDE DEF k, V
      <3> QED
        OBVIOUS
    <2> HIDE DEF step, k, V
    <2> QED
      BY <2>1, <2>3, <2>4
  <1> HIDE DEF k, V, Eq, states
  <1>8. PICK f : IsRun(f, step, k, V, states) /\ it[1..k] = f[k]
    <2> HIDE DEF step
    <2> QED
      BY <1>0, <1>2, <1>6, <1>7, FoldRuns
  <1>9. f[k] \in Seq(Beyond(lay, m, p))
    <2>1. /\ k \in 1..k /\ k - 1 \in 0..k /\ f[k] = step[k][f[k - 1]] /\ f[k - 1] \in V
      BY <1>0, <1>8 DEF IsRun
    <2>2. f[k] = On(f[k - 1], words[k])
      BY <2>1
    <2> QED
      BY <1>0, <1>1, <2>1, <2>2
  <1> QED
    BY <1>5, <1>8, <1>9 DEF states

LEMMA WiderSeq ==
    ASSUME NEW elems, NEW more, elems \subseteq more, NEW s \in Seq(elems)
    PROVE  s \in Seq(more)
  OBVIOUS

LEMMA WhenKeeps == ASSUME NEW elems, NEW s \in Seq(elems), NEW c PROVE G!When(c, s) \in Seq(elems)
  BY DEF G!When

Rule == [lhs : Words, rhs : Words]

\* A replacement in a graph of m states: it ends beyond the state where it starts.
Replacement(lay, m) ==
    {r \in [from : 0..(m - 1), words : Words, replaced : Nat, ends : Seq(0..(m - 1))] :
       r.ends \in Seq(Beyond(lay, m, r.from))}

LEMMA ReplacementsLaid ==
    ASSUME NEW g, NEW lay, IsLaid(g, lay), NEW rs \in Seq(Rule)
    PROVE  G!Replacements(g, rs) \in Seq(Replacement(lay, g.n))
  <1> DEFINE m == g.n
             k == Len(rs)
             one(i, l, r) ==
               [from |-> i - 1, words |-> rs[r].rhs, replaced |-> Len(rs[r].lhs),
                ends |-> G!When(Head(rs[r].lhs) = l, G!SeekForward(g, rs[r].lhs, i - 1))]
             tried(i, l) == [r \in DOMAIN rs |-> one(i, l, r)]
             kept(i, l) == G!Those(tried(i, l), {r \in DOMAIN tried(i, l) :
                                                   tried(i, l)[r].ends # <<>>})
             of(i) == G!FlattenSeq([j \in DOMAIN G!EdgesFrom(g, i - 1) |->
                                      kept(i, G!EdgesFrom(g, i - 1)[j].label)])
             rep == Replacement(lay, m)
  <1>1. /\ m \in Nat \ {0} /\ k \in Nat /\ DOMAIN rs = 1..k
        /\ \A r \in 1..k : rs[r].lhs \in Words /\ rs[r].rhs \in Words
    <2>1. \A r \in 1..k : rs[r] \in Rule
      OBVIOUS
    <2>2. \A r \in 1..k : rs[r].lhs \in Words /\ rs[r].rhs \in Words
      <3> HIDE DEF k
      <3> QED
        BY <2>1 DEF Rule
    <2> QED
      BY <2>2 DEF IsLaid
  <1>2. ASSUME NEW i \in 1..m, NEW l, NEW r \in 1..k
        PROVE  one(i, l, r) \in rep
    <2> DEFINE lw == rs[r].lhs
               ends == G!When(Head(lw) = l, G!SeekForward(g, lw, i - 1))
               p == i - 1
    <2>1. lw \in Words /\ rs[r].rhs \in Words /\ Len(lw) \in Nat
      BY <1>1 DEF Words
    <2>2. p \in 0..(m - 1)
      BY <1>1
    <2> HIDE DEF lw, p
    <2>3. G!SeekForward(g, lw, p) \in Seq(Beyond(lay, m, p))
      BY <2>1, <2>2, ReadLaid DEF G!SeekForward
    <2>4. ends \in Seq(Beyond(lay, m, p))
      BY <2>3, WhenKeeps DEF p
    <2> HIDE DEF ends
    <2>5. Beyond(lay, m, p) \subseteq 0..(m - 1)
      BY DEF Beyond, Ahead
    <2>6. ends \in Seq(0..(m - 1))
      BY <2>4, <2>5, WiderSeq
    <2>7. one(i, l, r) = [from |-> p, words |-> rs[r].rhs, replaced |-> Len(lw), ends |-> ends]
      BY DEF ends, lw, p
    <2> HIDE DEF one, m
    <2> QED
      BY <2>1, <2>2, <2>4, <2>6, <2>7 DEF Replacement
  <1> HIDE DEF one, k, rep
  <1>3. ASSUME NEW i \in 1..m, NEW l
        PROVE  kept(i, l) \in Seq(rep)
    <2> DEFINE t == tried(i, l)
               keep == {r \in DOMAIN t : t[r].ends # <<>>}
    <2>1. t \in Seq(rep)
      BY <1>1, <1>2
    <2> HIDE DEF t
    <2>2. Those(t, keep) \in Seq(rep)
      <3> HIDE DEF keep
      <3> QED
        BY <2>1, ThoseFacts
    <2> QED
      BY <2>2, GraphOps DEF t
  <1> HIDE DEF kept
  <1>4. ASSUME NEW i \in 1..m PROVE of(i) \in Seq(rep)
    <2> DEFINE out == G!EdgesFrom(g, i - 1)
               d == Len(out)
               ss == [j \in 1..d |-> kept(i, out[j].label)]
    <2>1. out \in Seq({e \in Fitting(lay, m) : e.from = i - 1})
      BY EdgesFromOf DEF IsLaid
    <2> HIDE DEF out
    <2>2. d \in Nat /\ DOMAIN out = 1..d
      BY <2>1
    <2> HIDE DEF d
    <2>3. ss \in [1..d -> Seq(rep)]
      BY <1>3
    <2>4. FlattenSeq(ss) \in Seq(rep)
      <3> HIDE DEF ss
      <3> QED
        BY <2>2, <2>3, FlattenType
    <2> QED
      BY <2>2, <2>4, GraphOps DEF out
  <1> DEFINE ss == [i \in 1..m |-> of(i)]
  <1>5. G!Replacements(g, rs) = FlattenSeq(ss)
    BY GraphOps DEF G!Replacements, kept, one
  <1> HIDE DEF of
  <1>6. ss \in [1..m -> Seq(rep)]
    BY <1>4
  <1> HIDE DEF ss, m
  <1>7. FlattenSeq(ss) \in Seq(rep)
    BY <1>1, <1>6, FlattenType
  <1> QED
    BY <1>5, <1>7 DEF m, rep

\* The labels of the first k replacements: there are as many, and they differ.
Labelled(k) == \A i \in 1..k : \E l \in SynonymLabel :
                  Cardinality({m \in SynonymLabel : m < l}) = i - 1

LEMMA LabelsDiffer ==
    ASSUME NEW k \in Nat, Labelled(k)
    PROVE  /\ \A i \in 1..k : G!LabelOf(i) \in SynonymLabel
           /\ \A i, j \in 1..k : G!LabelOf(i) = G!LabelOf(j) => i = j
  <1> DEFINE c(l) == Cardinality({m \in SynonymLabel : m < l})
  <1>1. \A i \in 1..k : G!LabelOf(i) \in SynonymLabel /\ c(G!LabelOf(i)) = i - 1
    BY GraphOps DEF G!LabelOf, Labelled
  <1> HIDE DEF c
  <1>2. ASSUME NEW i \in 1..k, NEW j \in 1..k, G!LabelOf(i) = G!LabelOf(j) PROVE i = j
    <2>1. i - 1 = j - 1
      BY <1>1, <1>2
    <2> QED
      BY <2>1
  <1> QED
    BY <1>1, <1>2

\* The states s, s + 1, ... are where the replacement f is read, between its labels l.
Splices(lay, m, f, l, s) ==
    /\ f.from \in 0..(m - 1) /\ f.words \in Words /\ f.ends \in Seq(Beyond(lay, m, f.from))
    /\ s + 1 + Len(f.words) <= m
    /\ lay.open[f.from] # l
    /\ lay.open[f.from] = 0 => lay.since[l] = lay.pos[f.from]
    /\ \A q \in s..(s + Len(f.words)) :
          /\ lay.open[q] = IF lay.open[f.from] = 0 THEN l ELSE lay.open[f.from]
          /\ lay.pos[q] = lay.pos[f.from]
          /\ q \in lay.idle <=> q = s

\* The edges of a replacement of f.from by the states s, s + 1, ...
LEMMA ReplacementFits ==
    ASSUME NEW m \in Nat, NEW lay \in Layout(m), NEW f, NEW l \in SynonymLabel, NEW s \in Nat,
           Splices(lay, m, f, l, s)
    PROVE  G!ReplacementEdges(f, l, s) \in Seq(Fitting(lay, m))
  <1> DEFINE p == f.from
             k == Len(f.words)
             last == G!EndOf(s, f.words, s + 1)
             d == Len(f.ends)
             back == [j \in DOMAIN f.ends |-> G!Edge(last, l, 0, f.ends[j])]
             spelt == G!Spell(s, f.words, s + 1)
             enter == G!Edge(p, l, 0, s)
             fit == Fitting(lay, m)
  <1>0. /\ f.from \in 0..(m - 1) /\ f.words \in Words /\ f.ends \in Seq(Beyond(lay, m, f.from))
        /\ s + 1 + Len(f.words) <= m
        /\ lay.open[f.from] # l
        /\ lay.open[f.from] = 0 => lay.since[l] = lay.pos[f.from]
        /\ \A q \in s..(s + Len(f.words)) :
              /\ lay.open[q] = IF lay.open[f.from] = 0 THEN l ELSE lay.open[f.from]
              /\ lay.pos[q] = lay.pos[f.from]
              /\ q \in lay.idle <=> q = s
    BY DEF Splices
  <1>1. /\ f.words \in Seq(Word) /\ f.words # <<>> /\ k \in Nat \ {0}
        /\ d \in Nat /\ DOMAIN f.ends = 1..d
        /\ \A j \in 1..d : f.ends[j] \in Beyond(lay, m, p)
    BY <1>0 DEF Words
  <1>2. /\ p \in 0..(m - 1) /\ s + 1 + k <= m /\ s \in 0..(m - 1) /\ s \in s..(s + k)
        /\ s + 1 \in Nat /\ (s + 1) + k <= m /\ (s + 1) + k - 1 = s + k
    <2>1. k \in Nat \ {0} /\ s + 1 + k <= m /\ p \in 0..(m - 1)
      BY <1>0, <1>1
    <2> HIDE DEF k, p
    <2> QED
      BY <2>1
  <1>3. \A q \in s..(s + k) :
           /\ lay.open[q] = IF lay.open[p] = 0 THEN l ELSE lay.open[p]
           /\ lay.pos[q] = lay.pos[p]
           /\ q \in lay.idle <=> q = s
    BY <1>0
  <1>4. l \in Nat /\ l # 0 /\ IsLabel(l) /\ l \in AnyLabel /\ lay.pos[p] \in Nat
    BY <1>2, Symbols DEF AnyLabel, Layout
  <1>5. last \in (s + 1)..(s + k) /\ spelt \in Seq(SpellEdges(m, s, s + 1, s + k))
    <2> DEFINE w == f.words
               t == s + 1
    <2>1. w \in Seq(Word) /\ w # <<>> /\ t \in Nat /\ t + Len(w) <= m /\ t + Len(w) - 1 = s + k
      BY <1>1, <1>2
    <2> HIDE DEF w, t, k
    <2>2. /\ G!Spell(s, w, t) \in Seq(SpellEdges(m, s, t, t + Len(w) - 1))
          /\ G!EndOf(s, w, t) \in t..(t + Len(w) - 1)
      BY <1>2, <2>1, SpellLaid
    <2> QED
      BY <2>1, <2>2 DEF w, t
  <1> HIDE DEF k, last, d, back, spelt, p, fit, enter
  <1>6. enter \in fit
    <2>1. /\ lay.open[s] = (IF lay.open[p] = 0 THEN l ELSE lay.open[p])
          /\ lay.pos[s] = lay.pos[p] /\ s \in lay.idle
      BY <1>2, <1>3
    <2>2. Fits(lay, p, l, s)
      BY <1>0, <1>4, <2>1 DEF Fits, GoesIn, StaysInside, p
    <2>3. G!Edge(p, l, 0, s) \in EdgeAmong(m)
      BY <1>2, <1>4, EdgeIs DEF Symbol
    <2> QED
      BY <2>2, <2>3 DEF enter, G!Edge, fit, Fitting
  <1>7. SpellEdges(m, s, s + 1, s + k) \subseteq fit
    <2> SUFFICES ASSUME NEW e \in SpellEdges(m, s, s + 1, s + k) PROVE e \in fit
      OBVIOUS
    <2>1. /\ e \in EdgeAmong(m) /\ e.label \in Word
          /\ e.from \in s..(s + k) /\ e.next \in s..(s + k)
      BY <1>1, <1>2 DEF SpellEdges
    <2>2. /\ e.from \in 0..(m - 1) /\ e.next \in 0..(m - 1)
      BY <2>1 DEF EdgeAmong
    <2>3. lay.open[e.from] # 0 /\ lay.open[e.next] = lay.open[e.from]
          /\ lay.pos[e.from] = lay.pos[e.next]
      BY <1>3, <1>4, <2>1
    <2>4. Fits(lay, e.from, e.label, e.next)
      BY <2>1, <2>2, <2>3, FitsInside
    <2> QED
      BY <2>1, <2>4 DEF fit, Fitting
  <1>8. \A j \in 1..d : G!Edge(last, l, 0, f.ends[j]) \in fit
    <2> SUFFICES ASSUME NEW j \in 1..d PROVE G!Edge(last, l, 0, f.ends[j]) \in fit
      OBVIOUS
    <2> DEFINE q == f.ends[j]
    <2>1. q \in Beyond(lay, m, p)
      BY <1>1
    <2> HIDE DEF q
    <2>2. /\ q \in 0..(m - 1) /\ lay.open[q] = lay.open[p] /\ lay.pos[p] <= lay.pos[q]
          /\ lay.open[p] = 0 => lay.pos[p] < lay.pos[q]
      BY <2>1 DEF Beyond, Ahead
    <2>3. last \in s..(s + k) /\ last # s /\ last \in 0..(m - 1)
      BY <1>1, <1>2, <1>5
    <2>4. /\ lay.open[last] = (IF lay.open[p] = 0 THEN l ELSE lay.open[p])
          /\ lay.pos[last] = lay.pos[p] /\ last \notin lay.idle
      BY <1>3, <2>3
    <2>5. Fits(lay, last, l, q)
      BY <1>0, <1>4, <2>2, <2>4 DEF Fits, GoesOut, StaysInside, p
    <2>6. G!Edge(last, l, 0, q) \in EdgeAmong(m)
      BY <1>4, <2>2, <2>3, EdgeIs DEF Symbol
    <2> QED
      BY <2>5, <2>6 DEF q, G!Edge, fit, Fitting
  <1>9. back \in Seq(fit)
    BY <1>1, <1>8 DEF back
  <1>10. spelt \in Seq(fit)
    BY <1>5, <1>7, WiderSeq
  <1>11. G!ReplacementEdges(f, l, s) = <<enter>> \o spelt \o back
    BY DEF G!ReplacementEdges, enter, spelt, last, back, p
  <1> QED
    BY <1>6, <1>9, <1>10, <1>11 DEF fit

\* The graph with its replacements.
LEMMA ApplyLaid ==
    ASSUME NEW g, NEW lay, IsLaid(g, lay), NoSynonyms(g, lay),
           NEW repl \in Seq(Replacement(lay, g.n)), Labelled(Len(repl))
    PROVE  \E wide : IsLaid(G!ApplyToFst(g, repl), wide)
  <1> DEFINE k == Len(repl)
             u == g.n
             sizes == [i \in 1..k |-> 1 + Len(repl[i].words)]
             f(i) == G!SumTo(sizes, i - 1)
             start(i) == u + f(i)
             lab(i) == G!LabelOf(i)
             of(i) == G!ReplacementEdges(repl[i], lab(i), start(i))
             ss == [i \in 1..k |-> of(i)]
             m == u + G!SumTo(sizes, k)
             es == g.edges
             h == G!ApplyToFst(g, repl)
             rep == Replacement(lay, u)
  <1>1. /\ k \in Nat /\ DOMAIN repl = 1..k /\ u \in Nat \ {0} /\ lay \in Layout(u)
        /\ es \in Seq({e \in Fitting(lay, u) : e.label \notin SynonymLabel})
        /\ g.last \in 0..(u - 1)
        /\ \A i \in 1..k : repl[i] \in rep
    BY DEF IsLaid, NoSynonyms
  <1>2. \A i \in 1..k : /\ repl[i].from \in 0..(u - 1) /\ repl[i].words \in Words
                        /\ Len(repl[i].words) \in Nat
                        /\ repl[i].ends \in Seq(Beyond(lay, u, repl[i].from))
    <2> SUFFICES ASSUME NEW i \in 1..k
                 PROVE  /\ repl[i].from \in 0..(u - 1) /\ repl[i].words \in Words
                        /\ Len(repl[i].words) \in Nat
                        /\ repl[i].ends \in Seq(Beyond(lay, u, repl[i].from))
      OBVIOUS
    <2> HIDE DEF k, u
    <2>1. /\ repl[i].from \in 0..(u - 1) /\ repl[i].words \in Words
          /\ repl[i].ends \in Seq(Beyond(lay, u, repl[i].from))
      BY <1>1 DEF Replacement
    <2> QED
      BY <2>1 DEF Words
  <1>3. sizes \in Seq(Nat) /\ Len(sizes) = k /\ \A i \in 1..k : sizes[i] = 1 + Len(repl[i].words)
    <2> HIDE DEF k
    <2>1. \A i \in 1..k : 1 + Len(repl[i].words) \in Nat
      BY <1>2
    <2> QED
      BY <1>1, <2>1
  <1>4. h = [edges |-> es \o FlattenSeq(ss), n |-> m, last |-> g.last]
    <2>1. DOMAIN repl = 1..k /\ Len(sizes) = k
      BY <1>1, <1>3
    <2>2. g = [edges |-> es, n |-> u, last |-> g.last]
      BY DEF IsLaid
    <2>3. h = [g EXCEPT !.edges = es \o FlattenSeq(ss), !.n = m]
      BY <2>1, GraphOps DEF G!ApplyToFst
    <2> HIDE DEF es, u, ss, m, h
    <2> QED
      BY <2>2, <2>3
  <1> HIDE DEF k, sizes, u, h, es, rep
  <1>5. m \in Nat \ {0} /\ u <= m
    <2>1. G!SumTo(sizes, k) \in Nat
      BY <1>1, <1>3, GraphSums
    <2> QED
      BY <1>1, <2>1
  <1>6. \A i \in 1..k : /\ f(i) \in Nat /\ start(i) \in Nat /\ u <= start(i)
                        /\ start(i) + sizes[i] <= m /\ sizes[i] \in Nat /\ 1 < sizes[i]
    <2> SUFFICES ASSUME NEW i \in 1..k
                 PROVE  /\ f(i) \in Nat /\ start(i) \in Nat /\ u <= start(i)
                        /\ start(i) + sizes[i] <= m /\ sizes[i] \in Nat /\ 1 < sizes[i]
      OBVIOUS
    <2>1. /\ f(i) \in Nat /\ G!SumTo(sizes, k) \in Nat
          /\ f(i) + sizes[i] <= G!SumTo(sizes, k)
      <3>1. i - 1 \in 0..k /\ k \in 0..k
        BY <1>1
      <3> QED
        BY <1>1, <1>3, <3>1, GraphSums
    <2>2. sizes[i] \in Nat /\ 1 < sizes[i]
      <3>1. repl[i].words \in Seq(Word) /\ repl[i].words # <<>>
        BY <1>2 DEF Words
      <3>2. Len(repl[i].words) \in Nat \ {0}
        BY <3>1
      <3> QED
        BY <1>3, <3>2
    <2> QED
      BY <1>1, <2>1, <2>2
  <1>7. PICK b \in [Nat -> 1..k \cup {0}] :
           \A i \in 1..k, d \in Nat : d < sizes[i] => b[f(i) + d] = i
    BY <1>3, Blocks
  <1>8. /\ \A i \in 1..k : lab(i) \in SynonymLabel
        /\ \A i, j \in 1..k : lab(i) = lab(j) => i = j
    BY <1>1, LabelsDiffer DEF k
  <1> HIDE DEF f, lab
  <1> DEFINE from(i) == repl[i].from
             inner(i) == IF lay.open[from(i)] = 0 THEN lab(i) ELSE lay.open[from(i)]
             wide == [open |-> [s \in 0..(m - 1) |->
                        IF s < u THEN lay.open[s]
                        ELSE IF b[s - u] = 0 THEN 0 ELSE inner(b[s - u])],
                      pos |-> [s \in 0..(m - 1) |->
                        IF s < u THEN lay.pos[s]
                        ELSE IF b[s - u] = 0 THEN 0 ELSE lay.pos[from(b[s - u])]],
                      idle |-> lay.idle \cup {start(i) : i \in 1..k},
                      since |-> [l \in AnyLabel |->
                        IF \E i \in 1..k : lab(i) = l
                        THEN lay.pos[from(CHOOSE i \in 1..k : lab(i) = l)] ELSE lay.since[l]]]
  <1>9. \A i \in 1..k : /\ from(i) \in 0..(u - 1) /\ lay.open[from(i)] \in AnyLabel \cup {0}
                        /\ lay.pos[from(i)] \in Nat /\ inner(i) \in AnyLabel
                        /\ lay.open[from(i)] # lab(i)
    <2> SUFFICES ASSUME NEW i \in 1..k
                 PROVE  /\ from(i) \in 0..(u - 1) /\ lay.open[from(i)] \in AnyLabel \cup {0}
                        /\ lay.pos[from(i)] \in Nat /\ inner(i) \in AnyLabel
                        /\ lay.open[from(i)] # lab(i)
      OBVIOUS
    <2>1. from(i) \in 0..(u - 1)
      BY <1>2
    <2> HIDE DEF from
    <2>2. /\ lay.open[from(i)] \in AnyLabel \cup {0} /\ lay.pos[from(i)] \in Nat
      BY <1>1, <2>1 DEF Layout
    <2>3. lay.open[from(i)] \notin SynonymLabel
      BY <2>1 DEF NoSynonyms, u
    <2> QED
      BY <1>8, <2>1, <2>2, <2>3 DEF AnyLabel
  <1>10. wide \in Layout(m)
    <2>1. \A s \in 0..(m - 1) : s < u => lay.open[s] \in AnyLabel \cup {0} /\ lay.pos[s] \in Nat
      <3>1. \A s \in 0..(m - 1) : s < u => s \in 0..(u - 1)
        BY <1>1, <1>5
      <3> QED
        BY <1>1, <3>1 DEF Layout
    <2>2. \A s \in 0..(m - 1) : ~(s < u) => b[s - u] \in 1..k \cup {0}
      <3>1. \A s \in 0..(m - 1) : ~(s < u) => s - u \in Nat
        BY <1>1, <1>5
      <3> QED
        BY <1>7, <3>1
    <2>3. wide.idle \in SUBSET (0..(m - 1))
      <3>1. lay.idle \subseteq 0..(u - 1)
        BY <1>1 DEF Layout
      <3>2. \A i \in 1..k : start(i) \in 0..(m - 1)
        <4> HIDE DEF start, m
        <4> QED
          BY <1>5, <1>6
      <3>3. \A s \in 0..(u - 1) : s \in 0..(m - 1)
        BY <1>1, <1>5
      <3> HIDE DEF start, m
      <3> QED
        BY <3>1, <3>2, <3>3
    <2> HIDE DEF m, start, inner, from
    <2>4. wide.open \in [0..(m - 1) -> AnyLabel \cup {0}]
      BY <1>9, <2>1, <2>2
    <2>5. wide.pos \in [0..(m - 1) -> Nat]
      BY <1>9, <2>1, <2>2
    <2>6. wide.since \in [AnyLabel -> Nat]
      <3>1. \A l \in AnyLabel : lay.since[l] \in Nat
        BY <1>1 DEF Layout
      <3>2. \A l \in AnyLabel : (\E i \in 1..k : lab(i) = l) =>
               lay.pos[from(CHOOSE i \in 1..k : lab(i) = l)] \in Nat
        BY <1>9
      <3> QED
        BY <3>1, <3>2
    <2> QED
      BY <2>3, <2>4, <2>5, <2>6 DEF Layout
  <1>11. \A s \in 0..(u - 1) : /\ s \in 0..(m - 1) /\ wide.open[s] = lay.open[s]
                               /\ wide.pos[s] = lay.pos[s]
                               /\ s \in wide.idle <=> s \in lay.idle
    <2> SUFFICES ASSUME NEW s \in 0..(u - 1)
                 PROVE  /\ s \in 0..(m - 1) /\ wide.open[s] = lay.open[s]
                        /\ wide.pos[s] = lay.pos[s]
                        /\ s \in wide.idle <=> s \in lay.idle
      OBVIOUS
    <2>1. s \in 0..(m - 1) /\ s < u
      BY <1>1, <1>5
    <2>2. \A i \in 1..k : start(i) # s
      BY <1>1, <1>6, <2>1
    <2> HIDE DEF start, m
    <2> QED
      BY <2>1, <2>2
  <1>12. ASSUME NEW i \in 1..k, NEW d \in Nat, d < sizes[i]
         PROVE  /\ wide.open[start(i) + d] = inner(i)
                /\ wide.pos[start(i) + d] = lay.pos[from(i)]
                /\ start(i) + d \in wide.idle <=> d = 0
    <2> DEFINE s == start(i) + d
    <2>1. /\ s \in 0..(m - 1) /\ ~(s < u) /\ s - u = f(i) + d /\ s \notin 0..(u - 1)
      <3> DEFINE x == f(i)
                 z == sizes[i]
      <3>1. u \in Nat /\ x \in Nat /\ z \in Nat /\ u + x + z <= m /\ d < z /\ m \in Nat
        BY <1>1, <1>5, <1>6, <1>12
      <3>2. s = u + x + d
        OBVIOUS
      <3> HIDE DEF x, z, m, s
      <3>3. s \in 0..(m - 1) /\ ~(s < u) /\ s - u = x + d /\ s \notin 0..(u - 1)
        BY <3>1, <3>2
      <3> QED
        BY <3>3 DEF x
    <2>2. b[s - u] = i /\ i # 0
      BY <1>7, <1>12, <2>1
    <2>3. s \notin lay.idle
      BY <1>1, <2>1 DEF Layout
    <2>4. s \in {start(j) : j \in 1..k} <=> d = 0
      <3>1. ASSUME NEW j \in 1..k, start(j) = s PROVE d = 0
        <4>1. f(j) + 0 = f(i) + d /\ f(j) \in Nat /\ f(i) \in Nat /\ 0 < sizes[j]
          <5> DEFINE x == f(i)
                     y == f(j)
          <5>1. u \in Nat /\ x \in Nat /\ y \in Nat /\ sizes[j] \in Nat /\ 1 < sizes[j]
            BY <1>1, <1>6
          <5>2. u + y = u + x + d
            BY <3>1
          <5> HIDE DEF x, y
          <5>3. y + 0 = x + d /\ 0 < sizes[j]
            BY <5>1, <5>2
          <5> QED
            BY <5>1, <5>3 DEF x, y
        <4>2. b[f(j) + 0] = j /\ b[f(i) + d] = i
          BY <1>7, <1>12, <4>1
        <4>3. i = j
          BY <4>1, <4>2
        <4> QED
          BY <4>1, <4>3
      <3>2. d = 0 => s = start(i)
        BY <1>6
      <3> HIDE DEF s, start
      <3> QED
        BY <3>1, <3>2
    <2> HIDE DEF start, m, inner, from, s
    <2> QED
      BY <2>1, <2>2, <2>3, <2>4 DEF s
  <1>13. \A i \in 1..k : wide.since[lab(i)] = lay.pos[from(i)]
    <2> SUFFICES ASSUME NEW i \in 1..k PROVE wide.since[lab(i)] = lay.pos[from(i)]
      OBVIOUS
    <2>1. (CHOOSE j \in 1..k : lab(j) = lab(i)) = i
      BY <1>8
    <2>2. lab(i) \in AnyLabel
      BY <1>8 DEF AnyLabel
    <2> HIDE DEF from
    <2> QED
      BY <2>1, <2>2
  <1>14. \A l \in AnyLabel \ SynonymLabel : wide.since[l] = lay.since[l]
    BY <1>8
  <1> HIDE DEF wide, m
  <1>15. ASSUME NEW i \in 1..k PROVE of(i) \in Seq(Fitting(wide, m))
    <2> DEFINE s == start(i)
               w == repl[i].words
               p == from(i)
               l == lab(i)
    <2>1. /\ p \in 0..(m - 1) /\ wide.open[p] = lay.open[p] /\ wide.pos[p] = lay.pos[p]
          /\ l \in SynonymLabel /\ s \in Nat
      BY <1>6, <1>8, <1>9, <1>11
    <2>2. w \in Words /\ sizes[i] = 1 + Len(w) /\ Len(w) \in Nat
      BY <1>2, <1>3
    <2>3. s + 1 + Len(w) <= m
      <3> HIDE DEF w, s
      <3>1. s + sizes[i] <= m
        BY <1>6 DEF s
      <3> QED
        BY <1>5, <2>1, <2>2, <3>1
    <2>4. repl[i].ends \in Seq(Beyond(wide, m, p))
      <3>1. Beyond(lay, u, p) \subseteq Beyond(wide, m, p)
        <4> SUFFICES ASSUME NEW q \in Beyond(lay, u, p) PROVE q \in Beyond(wide, m, p)
          OBVIOUS
        <4> HIDE DEF p
        <4>1. q \in 0..(u - 1) /\ lay.open[q] = lay.open[p] /\ lay.pos[p] <= lay.pos[q]
              /\ (lay.open[p] = 0 => lay.pos[p] < lay.pos[q])
          BY DEF Beyond, Ahead
        <4> QED
          BY <1>11, <2>1, <4>1 DEF Beyond, Ahead
      <3>2. repl[i].ends \in Seq(Beyond(lay, u, p))
        BY <1>2
      <3> QED
        BY <3>1, <3>2, WiderSeq
    <2>5. \A q \in s..(s + Len(w)) :
              /\ wide.open[q] = IF wide.open[p] = 0 THEN l ELSE wide.open[p]
              /\ wide.pos[q] = wide.pos[p]
              /\ q \in wide.idle <=> q = s
      <3> SUFFICES ASSUME NEW q \in s..(s + Len(w))
                   PROVE  /\ wide.open[q] = IF wide.open[p] = 0 THEN l ELSE wide.open[p]
                          /\ wide.pos[q] = wide.pos[p]
                          /\ q \in wide.idle <=> q = s
        OBVIOUS
      <3> DEFINE d == q - s
      <3> HIDE DEF w, s
      <3>1. d \in Nat /\ d < sizes[i] /\ s + d = q /\ (d = 0 <=> q = s)
        BY <2>1, <2>2
      <3> HIDE DEF d
      <3>2. /\ wide.open[s + d] = inner(i) /\ wide.pos[s + d] = lay.pos[p]
            /\ s + d \in wide.idle <=> d = 0
        BY <1>12, <3>1 DEF s
      <3>3. inner(i) = IF lay.open[p] = 0 THEN l ELSE lay.open[p]
        OBVIOUS
      <3> HIDE DEF inner, p, l
      <3> QED
        BY <2>1, <3>1, <3>2, <3>3
    <2>6. wide.open[p] # l /\ (wide.open[p] = 0 => wide.since[l] = wide.pos[p])
      BY <1>9, <1>13, <2>1
    <2> DEFINE rr == repl[i]
    <2>7. rr.from = p /\ rr.words = w
      OBVIOUS
    <2> HIDE DEF w, s, p, l, rr
    <2>8. /\ rr.ends \in Seq(Beyond(wide, m, rr.from)) /\ rr.from \in 0..(m - 1)
          /\ rr.words \in Words /\ s + 1 + Len(rr.words) <= m
          /\ wide.open[rr.from] # l
          /\ wide.open[rr.from] = 0 => wide.since[l] = wide.pos[rr.from]
      BY <2>1, <2>2, <2>3, <2>4, <2>6, <2>7 DEF rr
    <2>a. \A q \in s..(s + Len(rr.words)) :
              /\ wide.open[q] = IF wide.open[rr.from] = 0 THEN l ELSE wide.open[rr.from]
              /\ wide.pos[q] = wide.pos[rr.from]
              /\ q \in wide.idle <=> q = s
      BY <2>5, <2>7
    <2>b. m \in Nat /\ l \in SynonymLabel /\ s \in Nat
      BY <1>5, <2>1
    <2>c. Splices(wide, m, rr, l, s)
      BY <2>8, <2>a DEF Splices
    <2>9. G!ReplacementEdges(rr, l, s) \in Seq(Fitting(wide, m))
      BY <1>10, <2>b, <2>c, ReplacementFits
    <2> QED
      BY <2>9 DEF rr, l, s
  <1> HIDE DEF of
  <1>16. ss \in [1..k -> Seq(Fitting(wide, m))]
    BY <1>15
  <1> HIDE DEF ss
  <1>17. FlattenSeq(ss) \in Seq(Fitting(wide, m))
    BY <1>1, <1>16, FlattenType
  <1>18. es \in Seq(Fitting(wide, m))
    <2>1. {e \in Fitting(lay, u) : e.label \notin SynonymLabel} \subseteq Fitting(wide, m)
      <3> SUFFICES ASSUME NEW e \in Fitting(lay, u), e.label \notin SynonymLabel
                   PROVE  e \in Fitting(wide, m)
        OBVIOUS
      <3> DEFINE p == e.from
                 q == e.next
                 l == e.label
      <3>1. e \in EdgeAmong(u) /\ Fits(lay, p, l, q) /\ p \in 0..(u - 1) /\ q \in 0..(u - 1)
        BY DEF Fitting, EdgeAmong
      <3>2. e \in EdgeAmong(m)
        <4>1. 0..(u - 1) \subseteq 0..(m - 1)
          BY <1>11
        <4> QED
          BY <3>1, <4>1 DEF EdgeAmong
      <3>3. IsLabel(l) => wide.since[l] = lay.since[l]
        BY <1>14, Symbols
      <3>4. /\ wide.open[p] = lay.open[p] /\ wide.pos[p] = lay.pos[p]
            /\ p \in wide.idle <=> p \in lay.idle
            /\ wide.open[q] = lay.open[q] /\ wide.pos[q] = lay.pos[q]
            /\ q \in wide.idle <=> q \in lay.idle
        BY <1>11, <3>1
      <3> HIDE DEF p, l, q
      <3>5. Fits(wide, p, l, q)
        BY <3>1, <3>3, <3>4 DEF Fits, PassesBy, GoesIn, GoesOut, StaysInside
      <3> QED
        BY <3>2, <3>5 DEF Fitting, p, l, q
    <2> QED
      BY <1>1, <2>1, WiderSeq
  <1>19. IsLaid(h, wide)
    <2>1. /\ h.n = m /\ h.edges = es \o FlattenSeq(ss) /\ h.last = g.last
          /\ h = [edges |-> h.edges, n |-> h.n, last |-> h.last]
      BY <1>4
    <2>2. h.edges \in Seq(Fitting(wide, m))
      BY <1>17, <1>18, <2>1
    <2>3. 0 \in 0..(u - 1) /\ lay.open[0] = 0 /\ lay.open[g.last] = 0
      BY <1>1 DEF IsLaid
    <2>4. wide.open[0] = 0 /\ wide.open[g.last] = 0 /\ g.last \in 0..(m - 1)
      BY <1>1, <1>11, <2>3
    <2> QED
      BY <1>5, <1>10, <2>1, <2>2, <2>4 DEF IsLaid
  <1> QED
    BY <1>19 DEF h

-----------------------------------------------------------------------------
\* Finished graphs

\* The edges that may be put at state s.
Onward(lay, m, s) == {e \in EdgeAmong(m) : Fits(lay, s, e.label, e.next)}

\* What follows an <eps> edge may start where that does.
LEMMA FitsBefore ==
    ASSUME NEW m \in Nat, NEW lay \in Layout(m), NEW s \in 0..(m - 1), NEW q \in 0..(m - 1),
           Fits(lay, s, 0, q), NEW l, NEW r \in 0..(m - 1), Fits(lay, q, l, r)
    PROVE  Fits(lay, s, l, r)
  <1>1. /\ lay.open[q] = lay.open[s] /\ lay.pos[q] = lay.pos[s]
        /\ s \in lay.idle => q \in lay.idle
    BY Symbols DEF Fits, PassesBy, GoesIn, GoesOut, StaysInside
  <1>2. lay.pos[s] <= lay.pos[r]
    BY <1>1 DEF Fits
  <1>3. CASE PassesBy(lay, q, l, r)
    BY <1>1, <1>2, <1>3 DEF Fits, PassesBy
  <1>4. CASE GoesIn(lay, q, l, r)
    BY <1>1, <1>2, <1>4 DEF Fits, GoesIn
  <1>5. CASE GoesOut(lay, q, l, r)
    BY <1>1, <1>2, <1>5 DEF Fits, GoesOut
  <1>6. CASE StaysInside(lay, q, l, r)
    BY <1>1, <1>2, <1>6 DEF Fits, StaysInside
  <1> QED
    BY <1>3, <1>4, <1>5, <1>6 DEF Fits

LEMMA EdgesFromLaid ==
    ASSUME NEW g, NEW lay, IsLaid(g, lay), NEW s
    PROVE  G!EdgesFrom(g, s) \in Seq(Onward(lay, g.n, s))
  <1>1. G!EdgesFrom(g, s) \in Seq({e \in Fitting(lay, g.n) : e.from = s})
    BY EdgesFromOf DEF IsLaid
  <1>2. {e \in Fitting(lay, g.n) : e.from = s} \subseteq Onward(lay, g.n, s)
    BY DEF Fitting, Onward
  <1> QED
    BY <1>1, <1>2, WiderSeq

\* The edges of a state when its <eps> edges are replaced by what follows them.
LEMMA RmEpsilonLaid ==
    ASSUME NEW g, NEW lay, IsLaid(g, lay)
    PROVE  /\ DOMAIN G!RmEpsilon(g).out = 0..(g.n - 1)
           /\ \A s \in 0..(g.n - 1) : G!RmEpsilon(g).out[s] \in Seq(Onward(lay, g.n, s))
           /\ G!RmEpsilon(g).last = g.last
  <1> DEFINE m == g.n
             edges(s) == G!EdgesFrom(g, s)
             of(s, j) == IF edges(s)[j].label = G!Eps THEN edges(edges(s)[j].next)
                         ELSE <<edges(s)[j]>>
             out == [s \in 0..(m - 1) |-> FlattenSeq([j \in DOMAIN edges(s) |-> of(s, j)])]
  <1>1. G!RmEpsilon(g) = [out |-> out, last |-> g.last]
    BY GraphOps DEF G!RmEpsilon
  <1>2. m \in Nat /\ lay \in Layout(m) /\ G!Eps = 0
    BY DEF IsLaid, G!Eps
  <1>3. \A s : edges(s) \in Seq(Onward(lay, m, s))
    BY EdgesFromLaid
  <1>4. ASSUME NEW s \in 0..(m - 1)
        PROVE  FlattenSeq([j \in DOMAIN edges(s) |-> of(s, j)]) \in Seq(Onward(lay, m, s))
    <2> DEFINE k == Len(edges(s))
               ss == [j \in 1..k |-> of(s, j)]
               R == Onward(lay, m, s)
    <2> HIDE DEF edges
    <2>1. k \in Nat /\ DOMAIN edges(s) = 1..k /\ \A j \in 1..k : edges(s)[j] \in R
      BY <1>3
    <2>2. ASSUME NEW j \in 1..k
          PROVE  of(s, j) \in Seq(R)
      <3> DEFINE e == edges(s)[j]
                 q == e.next
      <3>1. e \in EdgeAmong(m) /\ Fits(lay, s, e.label, e.next) /\ q \in 0..(m - 1) /\ e \in R
        BY <2>1 DEF Onward, EdgeAmong
      <3>2. CASE e.label = 0
        <4> HIDE DEF q
        <4>1. Onward(lay, m, q) \subseteq R
          <5> SUFFICES ASSUME NEW f \in Onward(lay, m, q) PROVE f \in R
            OBVIOUS
          <5>1. f \in EdgeAmong(m) /\ Fits(lay, q, f.label, f.next) /\ f.next \in 0..(m - 1)
            BY DEF Onward, EdgeAmong
          <5>2. Fits(lay, s, 0, q)
            BY <3>1, <3>2 DEF q
          <5>3. Fits(lay, s, f.label, f.next)
            <6> HIDE DEF m
            <6> QED
              BY <1>2, <3>1, <5>1, <5>2, FitsBefore
          <5> QED
            BY <5>1, <5>3 DEF Onward
        <4>2. edges(q) \in Seq(Onward(lay, m, q))
          BY <1>3
        <4> HIDE DEF R
        <4>3. edges(q) \in Seq(R)
          BY <4>1, <4>2, WiderSeq
        <4> QED
          BY <1>2, <3>2, <4>3 DEF q
      <3>3. CASE e.label # 0
        <4>1. <<e>> \in Seq(R)
          <5> HIDE DEF R, e
          <5> QED
            BY <3>1
        <4> QED
          BY <1>2, <3>3, <4>1
      <3> QED
        BY <3>2, <3>3
    <2> HIDE DEF k, of, R
    <2>3. ss \in [1..k -> Seq(R)]
      BY <2>2
    <2> HIDE DEF ss
    <2>4. FlattenSeq(ss) \in Seq(R)
      BY <2>1, <2>3, FlattenType
    <2> QED
      BY <2>1, <2>4 DEF ss, R
  <1> HIDE DEF of, m, edges
  <1>5. DOMAIN out = 0..(m - 1) /\ \A s \in 0..(m - 1) : out[s] \in Seq(Onward(lay, m, s))
    BY <1>4
  <1> HIDE DEF out
  <1> QED
    BY <1>1, <1>5 DEF m

\* The arcs that may leave state s.
Leaving(lay, m, s) ==
    {a \in [label : Symbol, weight : {0, 1}, next : 0..(m - 1)] : Fits(lay, s, a.label, a.next)}

LEMMA ToArcsLaid ==
    ASSUME NEW m, NEW lay, NEW s, NEW edges \in Seq(Onward(lay, m, s))
    PROVE  G!ToArcs(edges) \in Seq(Leaving(lay, m, s))
  <1>1. \A j \in 1..Len(edges) : edges[j] \in Onward(lay, m, s)
    OBVIOUS
  <1>2. \A j \in 1..Len(edges) :
          [label |-> edges[j].label, weight |-> edges[j].weight, next |-> edges[j].next]
            \in Leaving(lay, m, s)
    BY <1>1 DEF Onward, EdgeAmong, Leaving
  <1> QED
    BY <1>2 DEF G!ToArcs

\* An edge at its place among those that are sorted already.
Placing(s, e) == G!InsertAt(s, 1 + G!Cardinality({j \in DOMAIN s : s[j].label >= e.label}), e)

LEMMA PlaceType ==
    ASSUME NEW elems, NEW s \in Seq(elems), NEW e \in elems
    PROVE  Placing(s, e) \in Seq(elems)
  <1> DEFINE k == Len(s)
             J == {j \in DOMAIN s : s[j].label >= e.label}
             i == 1 + Cardinality(J)
  <1>1. k \in Nat /\ DOMAIN s = 1..k
    OBVIOUS
  <1>2. IsFiniteSet(1..k) /\ Cardinality(1..k) = k
    <2>1. IsFiniteSet(1..k) /\ Cardinality(1..k) = IF 1 > k THEN 0 ELSE k - 1 + 1
      BY <1>1, FS_Interval
    <2> HIDE DEF k
    <2> QED
      BY <1>1, <2>1
  <1>3. J \in SUBSET (1..k)
    BY <1>1
  <1> HIDE DEF J
  <1>4. IsFiniteSet(J) /\ Cardinality(J) <= k
    BY <1>2, <1>3, FS_Subset
  <1>5. Cardinality(J) \in Nat
    BY <1>4, FS_CardinalityType
  <1>6. i \in 1..(k + 1)
    <2> HIDE DEF k
    <2> QED
      BY <1>1, <1>4, <1>5
  <1> HIDE DEF i
  <1>7. SubSeq(s, 1, i - 1) \in Seq(elems) /\ SubSeq(s, i, Len(s)) \in Seq(elems)
    BY <1>6
  <1> QED
    BY <1>7, GraphOps DEF Placing, G!InsertAt, J, i

LEMMA SortedType ==
    ASSUME NEW elems, NEW edges \in Seq(elems)
    PROVE  G!Sorted(edges) \in Seq(elems)
  <1> DEFINE k == Len(edges)
             V == Seq(elems)
             states == <<>>
             On(h, e) == Placing(h, e)
             step == [i \in 1..k |-> [v \in V |-> On(v, edges[i])]]
             Eq(h) == h = [s \in SUBSET (DOMAIN edges) |->
                             IF s = {} THEN states
                             ELSE On(h[s \ {G!Max(s)}], edges[G!Max(s)])]
             it == CHOOSE h : Eq(h)
  <1>0. k \in Nat /\ DOMAIN edges = 1..k /\ (\A s : G!Max(s) = Max(s))
        /\ \A i \in 1..k : edges[i] \in elems
    BY GraphOps
  <1>1. \A v \in V, e \in elems : On(v, e) \in V
    BY PlaceType
  <1>a. states \in V
    OBVIOUS
  <1> HIDE DEF On
  <1>2. AreSteps(step, k, V) /\ states \in V
    <2> HIDE DEF k, V
    <2> QED
      BY <1>0, <1>1, <1>a DEF AreSteps
  <1>3. \E h : Eq(h)
    <2>1. PICK h \in [SUBSET (1..k) -> V] : IsFold(h, step, k, states)
      <3> HIDE DEF step, k, V
      <3> QED
        BY <1>0, <1>2, FoldExists
    <2>2. \A s \in SUBSET (1..k) : s # {} =>
             step[Max(s)][h[s \ {Max(s)}]] = On(h[s \ {Max(s)}], edges[Max(s)])
      <3> SUFFICES ASSUME NEW s \in SUBSET (1..k), s # {}
                   PROVE  step[Max(s)][h[s \ {Max(s)}]] = On(h[s \ {Max(s)}], edges[Max(s)])
        OBVIOUS
      <3> HIDE DEF k, V
      <3>1. Max(s) \in 1..k
        BY <1>0, LastPosition
      <3>2. h[s \ {Max(s)}] \in V
        BY <2>1
      <3> QED
        BY <3>1, <3>2
    <2>3. Eq(h)
      <3> HIDE DEF step, k, V
      <3> QED
        BY <1>0, <2>1, <2>2 DEF IsFold
    <2> HIDE DEF Eq
    <2> QED
      BY <2>3
  <1>4. Eq(it)
    <2> HIDE DEF Eq
    <2> QED
      BY <1>3
  <1>5. G!Sorted(edges) = it[1..k]
    <2>1. G!Sorted(edges) = it[DOMAIN edges]
      BY DEF G!Sorted, Placing, G!FoldLeft, G!MapThenFoldSet, On
    <2> HIDE DEF it, k
    <2> QED
      BY <1>0, <2>1
  <1> HIDE DEF it
  <1>6. it[{}] = states
    <2> HIDE DEF k, states
    <2> QED
      BY <1>0, <1>4
  <1>7. \A i \in 1..k : it[1..(i - 1)] \in V => it[1..i] = step[i][it[1..(i - 1)]]
    <2> SUFFICES ASSUME NEW i \in 1..k, it[1..(i - 1)] \in V
                 PROVE  it[1..i] = step[i][it[1..(i - 1)]]
      OBVIOUS
    <2>1. Max(1..i) = i /\ (1..i) \ {i} = 1..(i - 1)
      <3>1. i \in Nat \ {0}
        OBVIOUS
      <3> QED
        BY <3>1, MaxOfPrefix
    <2>2. (1..i) \in SUBSET (1..k) /\ 1..i # {}
      <3>1. i \in 1..i /\ \A y \in 1..i : y \in 1..k
        BY <1>0
      <3> QED
        BY <3>1
    <2> DEFINE s == 1..i
    <2>3. it[s] = On(it[s \ {Max(s)}], edges[Max(s)])
      <3> HIDE DEF s, k
      <3> QED
        BY <1>0, <1>4, <2>2 DEF s
    <2>4. step[i][it[1..(i - 1)]] = On(it[1..(i - 1)], edges[i])
      <3> HIDE DEF k, V
      <3> QED
        OBVIOUS
    <2> HIDE DEF step, k, V
    <2> QED
      BY <2>1, <2>3, <2>4
  <1> HIDE DEF k, V, Eq, states
  <1>8. PICK f : IsRun(f, step, k, V, states) /\ it[1..k] = f[k]
    <2> HIDE DEF step
    <2> QED
      BY <1>0, <1>2, <1>6, <1>7, FoldRuns
  <1> QED
    BY <1>0, <1>5, <1>8 DEF IsRun, V

\* A finished graph of m states with its layout.
IsLaidFst(fst, m, lay) ==
    /\ m \in Nat \ {0} /\ lay \in Layout(m)
    /\ DOMAIN fst.arcs = 0..(m - 1)
    /\ \A s \in 0..(m - 1) : fst.arcs[s] \in Seq(Leaving(lay, m, s))
    /\ lay.open[0] = 0 /\ \A s \in fst.final : lay.open[s] = 0

LEMMA ReferenceLaid ==
    ASSUME NEW g, NEW lay, IsLaid(g, lay)
    PROVE  IsLaidFst(G!ReferenceFst(G!RmEpsilon(g)), g.n, lay)
  <1> DEFINE m == g.n
             out == G!RmEpsilon(g).out
             arcs == [s \in DOMAIN out |-> G!ToArcs(G!Sorted(out[s]))]
             fst == G!ReferenceFst(G!RmEpsilon(g))
  <1>1. fst.arcs = arcs /\ fst.final = {G!RmEpsilon(g).last}
    BY DEF G!ReferenceFst
  <1>2. /\ DOMAIN out = 0..(m - 1) /\ G!RmEpsilon(g).last = g.last
        /\ \A s \in 0..(m - 1) : out[s] \in Seq(Onward(lay, m, s))
    BY RmEpsilonLaid
  <1> HIDE DEF out
  <1>3. \A s \in 0..(m - 1) : G!ToArcs(G!Sorted(out[s])) \in Seq(Leaving(lay, m, s))
    BY <1>2, SortedType, ToArcsLaid
  <1>4. m \in Nat \ {0} /\ lay \in Layout(m) /\ lay.open[0] = 0 /\ lay.open[g.last] = 0
    BY DEF IsLaid
  <1>5. DOMAIN arcs = 0..(m - 1) /\ \A s \in 0..(m - 1) : arcs[s] \in Seq(Leaving(lay, m, s))
    BY <1>2, <1>3
  <1> HIDE DEF arcs, fst
  <1> QED
    BY <1>1, <1>2, <1>4, <1>5 DEF IsLaidFst, fst

-----------------------------------------------------------------------------
\* The loader

\* The rows of the reference, and the loader between two of them.
Row == [token : Word \cup {0}, label : EntityLabel \cup {0}, punctuation : Word \cup {0},
        speaker : Speaker, tags : SUBSET Tag]

Loading == {l \in [mToken : Seq(Word \cup EntityLabel), mNlpRows : Seq(Row),
                   candidates : Candidates, last_label : EntityLabel \cup {0}] :
              l.last_label # 0 => l.candidates[l.last_label] # <<>>}

\* An alternative more, and a longer last one.
LEMMA MoreAlternatives ==
    ASSUME NEW c \in Candidates, NEW l \in EntityLabel, NEW w \in Word
    PROVE  /\ [c EXCEPT ![l] = Append(@, <<w>>)] \in Candidates
           /\ [c EXCEPT ![l] = Append(@, <<w>>)][l] # <<>>
           /\ c[l] # <<>> =>
                /\ [c EXCEPT ![l] = Append(G!Front(@), Append(G!Last(@), w))] \in Candidates
                /\ [c EXCEPT ![l] = Append(G!Front(@), Append(G!Last(@), w))][l] # <<>>
  <1> DEFINE s == c[l]
             more == Append(s, <<w>>)
             longer == Append(G!Front(s), Append(G!Last(s), w))
  <1>1. /\ c \in [EntityLabel -> Seq(Seq(Word))]
        /\ \A k \in EntityLabel \ FallbackLabel : c[k] \in Seq(Words)
    BY DEF Candidates
  <1>2. s \in Seq(Seq(Word)) /\ (l \notin FallbackLabel => s \in Seq(Words))
    BY <1>1
  <1> HIDE DEF s
  <1>3. ASSUME NEW v, v \in Seq(Seq(Word)), l \notin FallbackLabel => v \in Seq(Words)
        PROVE  [c EXCEPT ![l] = v] \in Candidates
    BY <1>1, <1>3 DEF Candidates
  <1>4. /\ more \in Seq(Seq(Word)) /\ more # <<>>
        /\ l \notin FallbackLabel => more \in Seq(Words)
    <2>1. <<w>> \in Seq(Word) /\ <<w>> # <<>>
      OBVIOUS
    <2>2. <<w>> \in Words
      BY <2>1 DEF Words
    <2> DEFINE x == <<w>>
    <2>3. x \in Seq(Word) /\ x \in Words
      BY <2>1, <2>2
    <2> HIDE DEF x
    <2>4. Append(s, x) \in Seq(Seq(Word)) /\ Append(s, x) # <<>>
      BY <1>2, <2>3
    <2>5. ASSUME l \notin FallbackLabel PROVE Append(s, x) \in Seq(Words)
      BY <1>2, <2>3, <2>5
    <2> QED
      BY <2>4, <2>5 DEF x
  <1>5. ASSUME s # <<>>
        PROVE  /\ longer \in Seq(Seq(Word)) /\ longer # <<>>
               /\ l \notin FallbackLabel => longer \in Seq(Words)
    <2> DEFINE last == G!Last(s)
               front == G!Front(s)
               x == Append(last, w)
    <2>1. last \in Seq(Word)
      BY <1>2, <1>5 DEF G!Last
    <2>2. /\ front \in Seq(Seq(Word))
          /\ l \notin FallbackLabel => front \in Seq(Words)
      <3>1. ASSUME NEW elems, s \in Seq(elems) PROVE SubSeq(s, 1, Len(s) - 1) \in Seq(elems)
        BY <1>5, <3>1
      <3> QED
        BY <1>2, <3>1 DEF G!Front
    <2> HIDE DEF last, front
    <2>3. x \in Seq(Word) /\ x # <<>>
      <3>1. Append(last, w) \in Seq(Word) /\ Len(Append(last, w)) = Len(last) + 1
        BY <2>1
      <3>2. Len(last) \in Nat
        BY <2>1
      <3> QED
        BY <3>1, <3>2
    <2>4. x \in Words
      BY <2>3 DEF Words
    <2> HIDE DEF x
    <2>5. Append(front, x) \in Seq(Seq(Word)) /\ Append(front, x) # <<>>
      BY <2>2, <2>3
    <2>6. ASSUME l \notin FallbackLabel PROVE Append(front, x) \in Seq(Words)
      BY <2>2, <2>4, <2>6
    <2> QED
      BY <2>5, <2>6 DEF x, front, last
  <1> HIDE DEF more, longer
  <1>6. [c EXCEPT ![l] = more][l] = more /\ [c EXCEPT ![l] = longer][l] = longer
    BY <1>1
  <1>7. /\ [c EXCEPT ![l] = Append(@, <<w>>)] = [c EXCEPT ![l] = more]
        /\ [c EXCEPT ![l] = Append(G!Front(@), Append(G!Last(@), w))] = [c EXCEPT ![l] = longer]
    BY DEF more, longer, s
  <1> QED
    BY <1>3, <1>4, <1>5, <1>6, <1>7 DEF s

LEMMA LoadRowType ==
    ASSUME NEW l \in Loading, NEW row \in Record, NEW split \in BOOLEAN
    PROVE  /\ G!LoadRow(l, row, split) \in Loading
           /\ G!LoadRow(l, row, split).last_label = row.label
           /\ \E end \in {<<>>, <<row.punctuation>>} :
                /\ row.punctuation \notin Word => end = <<>>
                /\ G!LoadRow(l, row, split).mToken =
                     (IF row.label = 0 THEN Append(l.mToken, row.token)
                      ELSE IF row.label = l.last_label THEN l.mToken
                      ELSE Append(l.mToken, row.label)) \o end
  <1> DEFINE word == G!LoadWord(l, row)
             b == split /\ row.punctuation # G!NoPunctuation
             new == G!LoadRow(l, row, split)
             end == IF b THEN <<row.punctuation>> ELSE <<>>
             tokens == IF row.label = 0 THEN Append(l.mToken, row.token)
                       ELSE IF row.label = l.last_label THEN l.mToken
                       ELSE Append(l.mToken, row.label)
             behind == IF b THEN <<G!PunctuationRow(row)>> ELSE <<>>
             cands == word.candidates
  <1>1. /\ l.mToken \in Seq(Word \cup EntityLabel) /\ l.mNlpRows \in Seq(Row)
        /\ l.candidates \in Candidates /\ l.last_label \in EntityLabel \cup {0}
        /\ l.last_label # 0 => l.candidates[l.last_label] # <<>>
        /\ l = [mToken |-> l.mToken, mNlpRows |-> l.mNlpRows, candidates |-> l.candidates,
                last_label |-> l.last_label]
    BY DEF Loading
  <1>2. /\ row.token \in Word /\ row.label \in EntityLabel \cup {0}
        /\ row.punctuation \in Word \cup {0} /\ row \in Row
    BY DEF Record, Row
  <1>3. G!NoLabel = 0 /\ G!NoPunctuation = 0 /\ 0 \notin EntityLabel /\ 0 \notin Word
    BY Symbols DEF G!NoLabel, G!NoPunctuation, AnyLabel
  <1>4. /\ word = [mToken |-> tokens, mNlpRows |-> l.mNlpRows, candidates |-> cands,
                    last_label |-> l.last_label]
        /\ cands \in Candidates /\ (row.label # 0 => cands[row.label] # <<>>)
    <2>1. CASE row.label = 0
      <3>1. word = [l EXCEPT !.mToken = Append(@, row.token)]
        BY <1>3, <2>1 DEF G!LoadWord
      <3> QED
        BY <1>1, <2>1, <3>1
    <2>2. CASE row.label # 0 /\ row.label # l.last_label
      <3> DEFINE c == [l.candidates EXCEPT ![row.label] = Append(@, <<row.token>>)]
      <3>1. word = [l EXCEPT !.mToken = Append(@, row.label),
                             !.candidates[row.label] = Append(@, <<row.token>>)]
        BY <1>3, <2>2 DEF G!LoadWord
      <3>2. c \in Candidates /\ c[row.label] # <<>>
        BY <1>1, <1>2, <2>2, MoreAlternatives
      <3>3. word = [mToken |-> Append(l.mToken, row.label), mNlpRows |-> l.mNlpRows,
                    candidates |-> c, last_label |-> l.last_label]
        BY <1>1, <3>1
      <3>4. cands = c /\ tokens = Append(l.mToken, row.label)
        BY <2>2, <3>3
      <3> HIDE DEF c, word, cands, tokens
      <3> QED
        BY <2>2, <3>2, <3>3, <3>4
    <2>3. CASE row.label # 0 /\ row.label = l.last_label
      <3> DEFINE c == [l.candidates EXCEPT ![row.label] =
                         Append(G!Front(@), Append(G!Last(@), row.token))]
      <3>1. word = [l EXCEPT !.candidates[row.label] =
                               Append(G!Front(@), Append(G!Last(@), row.token))]
        BY <1>3, <2>3 DEF G!LoadWord
      <3>2. c \in Candidates /\ c[row.label] # <<>>
        BY <1>1, <1>2, <2>3, MoreAlternatives
      <3>3. word = [mToken |-> l.mToken, mNlpRows |-> l.mNlpRows,
                    candidates |-> c, last_label |-> l.last_label]
        BY <1>1, <3>1
      <3>4. cands = c /\ tokens = l.mToken
        BY <2>3, <3>3
      <3> HIDE DEF c, word, cands, tokens
      <3> QED
        BY <2>3, <3>2, <3>3, <3>4
    <2> QED
      BY <2>1, <2>2, <2>3
  <1>5. new = [mToken |-> tokens \o end, mNlpRows |-> l.mNlpRows \o <<row>> \o behind,
               candidates |-> cands, last_label |-> row.label]
    <2>1. new = [word EXCEPT !.mToken = IF b THEN Append(@, row.punctuation) ELSE @,
                             !.mNlpRows = @ \o <<row>> \o behind,
                             !.last_label = row.label]
      BY DEF G!LoadRow
    <2>2. tokens \in Seq(Word \cup EntityLabel)
      BY <1>1, <1>2
    <2> HIDE DEF tokens, cands, word, b, behind, new
    <2>3. new = [mToken |-> IF b THEN Append(tokens, row.punctuation) ELSE tokens,
                 mNlpRows |-> l.mNlpRows \o <<row>> \o behind,
                 candidates |-> cands, last_label |-> row.label]
      BY <1>1, <1>4, <2>1
    <2>4. (IF b THEN Append(tokens, row.punctuation) ELSE tokens) = tokens \o end
      BY <2>2
    <2> QED
      BY <2>3, <2>4
  <1>6. end \in Seq(Word) /\ (row.punctuation \notin Word => end = <<>>)
    BY <1>2, <1>3
  <1>7. tokens \in Seq(Word \cup EntityLabel)
    BY <1>1, <1>2
  <1>8. behind \in Seq(Row)
    <2>1. G!PunctuationRow(row) \in Row
      BY <1>2, <1>3 DEF G!PunctuationRow, Row
    <2> HIDE DEF b
    <2> QED
      BY <2>1
  <1>9. new \in Loading
    <2> HIDE DEF tokens, end, behind, cands, new
    <2>1. end \in Seq(Word \cup EntityLabel)
      BY <1>6
    <2>2. tokens \o end \in Seq(Word \cup EntityLabel)
      BY <1>7, <2>1
    <2>3. l.mNlpRows \o <<row>> \o behind \in Seq(Row)
      BY <1>1, <1>2, <1>8
    <2> QED
      BY <1>2, <1>4, <1>5, <2>2, <2>3 DEF Loading
  <1>10. new.mToken = tokens \o end /\ new.last_label = row.label
    <2> HIDE DEF new, tokens, end
    <2> QED
      BY <1>5
  <1>11. end \in {<<>>, <<row.punctuation>>}
    OBVIOUS
  <1> HIDE DEF new, tokens, end
  <1>12. \E e \in {<<>>, <<row.punctuation>>} :
            (row.punctuation \notin Word => e = <<>>) /\ new.mToken = tokens \o e
    BY <1>6, <1>10, <1>11
  <1> QED
    BY <1>9, <1>10, <1>12 DEF new, tokens

\* The loader as a run over the rows.
IsLoad(f, records, normalization, split) ==
    /\ f \in [0..Len(records) -> Loading]
    /\ f[0] = [mToken |-> <<>>, mNlpRows |-> <<>>, candidates |-> normalization,
               last_label |-> G!NoLabel]
    /\ \A i \in 1..Len(records) : f[i] = G!LoadRow(f[i - 1], records[i], split)

LEMMA LoadRun ==
    ASSUME NEW records \in Seq(Record), NEW normalization \in Candidates, NEW split \in BOOLEAN
    PROVE  \E f : /\ IsLoad(f, records, normalization, split)
                  /\ G!NlpFstLoader(records, normalization, split) = f[Len(records)]
  <1> DEFINE k == Len(records)
             V == Loading
             states == [mToken |-> <<>>, mNlpRows |-> <<>>, candidates |-> normalization, last_label |-> G!NoLabel]
             On(h, e) == G!LoadRow(h, e, split)
             step == [i \in 1..k |-> [v \in V |-> On(v, records[i])]]
             Eq(h) == h = [s \in SUBSET (DOMAIN records) |->
                             IF s = {} THEN states
                             ELSE On(h[s \ {G!Max(s)}], records[G!Max(s)])]
             it == CHOOSE h : Eq(h)
  <1>0. k \in Nat /\ DOMAIN records = 1..k /\ (\A s : G!Max(s) = Max(s))
        /\ \A i \in 1..k : records[i] \in Record
    BY GraphOps
  <1>1. \A v \in V, e \in Record : On(v, e) \in V
    BY LoadRowType
  <1>a. states \in V
    BY DEF Loading, G!NoLabel
  <1> HIDE DEF On
  <1>2. AreSteps(step, k, V) /\ states \in V
    <2> HIDE DEF k, V
    <2> QED
      BY <1>0, <1>1, <1>a DEF AreSteps
  <1>3. \E h : Eq(h)
    <2>1. PICK h \in [SUBSET (1..k) -> V] : IsFold(h, step, k, states)
      <3> HIDE DEF step, k, V
      <3> QED
        BY <1>0, <1>2, FoldExists
    <2>2. \A s \in SUBSET (1..k) : s # {} =>
             step[Max(s)][h[s \ {Max(s)}]] = On(h[s \ {Max(s)}], records[Max(s)])
      <3> SUFFICES ASSUME NEW s \in SUBSET (1..k), s # {}
                   PROVE  step[Max(s)][h[s \ {Max(s)}]] = On(h[s \ {Max(s)}], records[Max(s)])
        OBVIOUS
      <3> HIDE DEF k, V
      <3>1. Max(s) \in 1..k
        BY <1>0, LastPosition
      <3>2. h[s \ {Max(s)}] \in V
        BY <2>1
      <3> QED
        BY <3>1, <3>2
    <2>3. Eq(h)
      <3> HIDE DEF step, k, V
      <3> QED
        BY <1>0, <2>1, <2>2 DEF IsFold
    <2> HIDE DEF Eq
    <2> QED
      BY <2>3
  <1>4. Eq(it)
    <2> HIDE DEF Eq
    <2> QED
      BY <1>3
  <1>5. G!NlpFstLoader(records, normalization, split) = it[1..k]
    <2>1. G!NlpFstLoader(records, normalization, split) = it[DOMAIN records]
      BY DEF G!NlpFstLoader, G!FoldLeft, G!MapThenFoldSet, On
    <2> HIDE DEF it, k
    <2> QED
      BY <1>0, <2>1
  <1> HIDE DEF it
  <1>6. it[{}] = states
    <2> HIDE DEF k, states
    <2> QED
      BY <1>0, <1>4
  <1>7. \A i \in 1..k : it[1..(i - 1)] \in V => it[1..i] = step[i][it[1..(i - 1)]]
    <2> SUFFICES ASSUME NEW i \in 1..k, it[1..(i - 1)] \in V
                 PROVE  it[1..i] = step[i][it[1..(i - 1)]]
      OBVIOUS
    <2>1. Max(1..i) = i /\ (1..i) \ {i} = 1..(i - 1)
      <3>1. i \in Nat \ {0}
        OBVIOUS
      <3> QED
        BY <3>1, MaxOfPrefix
    <2>2. (1..i) \in SUBSET (1..k) /\ 1..i # {}
      <3>1. i \in 1..i /\ \A y \in 1..i : y \in 1..k
        BY <1>0
      <3> QED
        BY <3>1
    <2> DEFINE s == 1..i
    <2>3. it[s] = On(it[s \ {Max(s)}], records[Max(s)])
      <3> HIDE DEF s, k
      <3> QED
        BY <1>0, <1>4, <2>2 DEF s
    <2>4. step[i][it[1..(i - 1)]] = On(it[1..(i - 1)], records[i])
      <3> HIDE DEF k, V
      <3> QED
        OBVIOUS
    <2> HIDE DEF step, k, V
    <2> QED
      BY <2>1, <2>3, <2>4
  <1> HIDE DEF k, V, Eq, states
  <1>8. PICK f : IsRun(f, step, k, V, states) /\ it[1..k] = f[k]
    <2> HIDE DEF step
    <2> QED
      BY <1>0, <1>2, <1>6, <1>7, FoldRuns
  <1>9. \A i \in 1..k : f[i] = On(f[i - 1], records[i])
    <2> SUFFICES ASSUME NEW i \in 1..k PROVE f[i] = On(f[i - 1], records[i])
      OBVIOUS
    <2>1. i - 1 \in 0..k
      BY <1>0
    <2> QED
      BY <1>8, <2>1 DEF IsRun
  <1> QED
    BY <1>5, <1>8, <1>9 DEF IsLoad, IsRun, k, V, On, states

\* The classes among some tokens, and one token more.
ClassesOf(tokens) == {tokens[i] : i \in {j \in 1..Len(tokens) : tokens[j] \in EntityLabel}}

LEMMA OnceGrows ==
    ASSUME NEW tokens \in Seq(Word \cup EntityLabel), Once(tokens),
           NEW x \in Word \cup EntityLabel, x \notin ClassesOf(tokens)
    PROVE  /\ Append(tokens, x) \in Seq(Word \cup EntityLabel) /\ Once(Append(tokens, x))
           /\ \A l \in ClassesOf(Append(tokens, x)) : l \in ClassesOf(tokens) \/ l = x
  <1> DEFINE k == Len(tokens)
             more == Append(tokens, x)
  <1>1. /\ k \in Nat /\ more \in Seq(Word \cup EntityLabel) /\ Len(more) = k + 1
        /\ more[k + 1] = x /\ \A i \in 1..k : more[i] = tokens[i]
        /\ \A i \in 1..(k + 1) : i \in 1..k \/ i = k + 1
    OBVIOUS
  <1>2. \A i \in 1..k : tokens[i] \in EntityLabel => tokens[i] \in ClassesOf(tokens)
    BY DEF ClassesOf
  <1>3. \A i, j \in 1..k : tokens[i] \in EntityLabel /\ tokens[i] = tokens[j] => i = j
    BY DEF Once
  <1> HIDE DEF k, more
  <1>4. ASSUME NEW i \in 1..(k + 1), NEW j \in 1..(k + 1), more[i] \in EntityLabel, more[i] = more[j]
        PROVE  i = j
    <2>1. CASE i \in 1..k /\ j \in 1..k
      BY <1>1, <1>3, <1>4, <2>1
    <2>2. CASE i \in 1..k /\ j = k + 1
      BY <1>1, <1>2, <1>4, <2>2
    <2>3. CASE j \in 1..k /\ i = k + 1
      BY <1>1, <1>2, <1>4, <2>3
    <2> QED
      BY <1>1, <2>1, <2>2, <2>3
  <1>5. ASSUME NEW l \in ClassesOf(more) PROVE l \in ClassesOf(tokens) \/ l = x
    <2>1. PICK i \in 1..(k + 1) : more[i] \in EntityLabel /\ l = more[i]
      BY <1>1 DEF ClassesOf
    <2> QED
      BY <1>1, <1>2, <2>1
  <1> QED
    BY <1>1, <1>4, <1>5 DEF Once, more

\* The loader puts no class twice among its tokens, as the rows of a class stand together.
LEMMA LoaderFacts ==
    ASSUME NEW i \in Inputs
    PROVE  /\ G!NlpFstLoader(i.records, i.normalization, i.use_punctuation) \in Loading
           /\ Once(G!NlpFstLoader(i.records, i.normalization, i.use_punctuation).mToken)
  <1> DEFINE rs == i.records
             k == Len(rs)
             split == i.use_punctuation
             norm == i.normalization
  <1>1. /\ rs \in Seq(Record) /\ k \in Nat /\ DOMAIN rs = 1..k /\ split \in BOOLEAN
        /\ \A j \in 1..k : rs[j] \in Record
    BY InputAssumption
  <1>2. \A j, m \in 1..k : j < m /\ rs[j].label = rs[m].label /\ rs[m].label # 0
                           => \A n \in j..m : rs[n].label = rs[m].label
    BY <1>1, InputAssumption
  <1>3. norm \in Candidates
    BY InputAssumption DEF Candidates
  <1> HIDE DEF rs, k, split, norm
  <1>4. PICK f : IsLoad(f, rs, norm, split) /\ G!NlpFstLoader(rs, norm, split) = f[k]
    BY <1>1, <1>3, LoadRun DEF k
  <1>5. /\ f \in [0..k -> Loading]
        /\ f[0] = [mToken |-> <<>>, mNlpRows |-> <<>>, candidates |-> norm,
                   last_label |-> G!NoLabel]
        /\ \A j \in 1..k : f[j] = G!LoadRow(f[j - 1], rs[j], split)
    BY <1>4 DEF IsLoad, k
  <1> DEFINE Good(j) == /\ Once(f[j].mToken)
                        /\ \A l \in ClassesOf(f[j].mToken) : \E m \in 1..j : rs[m].label = l
                        /\ j > 0 => f[j].last_label = rs[j].label
             K == {j \in 0..k : Good(j)}
  <1>6. 0 \in K
    <2>1. f[0].mToken = <<>> /\ 0 \in 0..k
      BY <1>1, <1>5
    <2>2. Once(<<>>) /\ ClassesOf(<<>>) = {}
      BY DEF Once, ClassesOf
    <2> QED
      BY <2>1, <2>2
  <1>7. ASSUME NEW j \in Nat, j < k, j \in K
        PROVE  j + 1 \in K
    <2> DEFINE m == j + 1
               row == rs[m]
               l == f[j]
               new == f[m]
    <2>1. m \in 1..k /\ m \in 0..k /\ j \in 0..k /\ m > 0 /\ m - 1 = j /\ (\A n \in 1..j : n \in 1..m)
      BY <1>1, <1>7
    <2>2. row \in Record /\ l \in Loading /\ new = G!LoadRow(l, row, split) /\ new \in Loading
      BY <1>1, <1>5, <2>1
    <2>3. /\ Once(l.mToken) /\ (j > 0 => l.last_label = rs[j].label)
          /\ \A c \in ClassesOf(l.mToken) : \E n \in 1..j : rs[n].label = c
      BY <1>7
    <2>4. /\ row.token \in Word /\ row.label \in EntityLabel \cup {0}
          /\ row.punctuation \in Word \cup {0}
          /\ l.mToken \in Seq(Word \cup EntityLabel)
      BY <2>2 DEF Record, Loading
    <2>5. Word \cap EntityLabel = {} /\ (\A t : Word \cap ClassesOf(t) = {})
      BY Symbols DEF AnyLabel, ClassesOf
    <2> DEFINE tokens == IF row.label = 0 THEN Append(l.mToken, row.token)
                         ELSE IF row.label = l.last_label THEN l.mToken
                         ELSE Append(l.mToken, row.label)
               Is(t) == /\ t \in Seq(Word \cup EntityLabel) /\ Once(t)
                        /\ \A c \in ClassesOf(t) : \E n \in 1..m : rs[n].label = c
    <2>6. \A c \in ClassesOf(l.mToken) : \E n \in 1..m : rs[n].label = c
      BY <2>1, <2>3
    <2>7. \A w \in Word : ~(\E n \in 1..k : rs[n].label = w)
      <3>1. 0 \notin Word
        BY Symbols
      <3>2. \A n \in 1..k : rs[n].label \in EntityLabel \cup {0}
        BY <1>1 DEF Record
      <3> QED
        BY <2>5, <3>1, <3>2
    <2> HIDE DEF row, l, new, m
    <2>8. Is(tokens)
      <3>1. CASE row.label = 0
        <4>1. row.token \notin ClassesOf(l.mToken) /\ row.token \notin EntityLabel
          BY <2>4, <2>5
        <4>2. \A c \in ClassesOf(Append(l.mToken, row.token)) : c \in ClassesOf(l.mToken)
          <5>1. \A c \in ClassesOf(Append(l.mToken, row.token)) : c \in EntityLabel
            BY DEF ClassesOf
          <5> QED
            BY <2>3, <2>4, <4>1, <5>1, OnceGrows
        <4> QED
          BY <2>3, <2>4, <2>6, <3>1, <4>1, <4>2, OnceGrows
      <3>2. CASE row.label # 0 /\ row.label = l.last_label
        BY <2>3, <2>4, <2>6, <3>2
      <3>3. CASE row.label # 0 /\ row.label # l.last_label
        <4>1. row.label \notin ClassesOf(l.mToken)
          <5> SUFFICES ASSUME row.label \in ClassesOf(l.mToken) PROVE FALSE
            OBVIOUS
          <5>1. PICK n \in 1..j : rs[n].label = row.label
            BY <2>3
          <5>2. n \in 1..k /\ n < m /\ j \in n..m /\ j > 0
            BY <1>1, <2>1, <5>1 DEF m
          <5>3. rs[j].label = row.label
            BY <1>2, <2>1, <3>3, <5>1, <5>2 DEF row
          <5> QED
            BY <2>3, <3>3, <5>2, <5>3
        <4>2. rs[m].label = row.label /\ m \in 1..m
          BY <2>1 DEF row
        <4>3. row.label \in Word \cup EntityLabel
          BY <2>4, <3>3
        <4>4. /\ Append(l.mToken, row.label) \in Seq(Word \cup EntityLabel)
              /\ Once(Append(l.mToken, row.label))
              /\ \A c \in ClassesOf(Append(l.mToken, row.label)) :
                    c \in ClassesOf(l.mToken) \/ c = row.label
          BY <2>3, <2>4, <4>1, <4>3, OnceGrows
        <4> QED
          BY <2>6, <3>3, <4>2, <4>4
      <3> QED
        BY <3>1, <3>2, <3>3
    <2>9. /\ new.last_label = row.label
          /\ \E end \in {<<>>, <<row.punctuation>>} :
               (row.punctuation \notin Word => end = <<>>) /\ new.mToken = tokens \o end
      BY <1>1, <2>2, LoadRowType
    <2> HIDE DEF tokens
    <2>10. PICK end \in {<<>>, <<row.punctuation>>} :
               (row.punctuation \notin Word => end = <<>>) /\ new.mToken = tokens \o end
      BY <2>9
    <2>11. Is(new.mToken)
      <3>1. CASE end = <<>>
        <4>1. new.mToken = tokens
          BY <2>8, <2>10, <3>1
        <4> QED
          BY <2>8, <4>1
      <3>2. CASE end # <<>>
        <4> DEFINE w == row.punctuation
        <4>1. end = <<w>> /\ w \in Word
          BY <2>10, <3>2
        <4> HIDE DEF w
        <4>2. new.mToken = Append(tokens, w)
          BY <2>8, <2>10, <4>1
        <4>3. w \in Word \cup EntityLabel /\ w \notin ClassesOf(tokens) /\ w \notin EntityLabel
          BY <2>5, <4>1
        <4>4. /\ Append(tokens, w) \in Seq(Word \cup EntityLabel) /\ Once(Append(tokens, w))
              /\ \A c \in ClassesOf(Append(tokens, w)) : c \in ClassesOf(tokens) \/ c = w
          BY <2>8, <4>3, OnceGrows
        <4>5. \A c \in ClassesOf(Append(tokens, w)) : c \in EntityLabel
          BY DEF ClassesOf
        <4> QED
          BY <2>8, <4>2, <4>3, <4>4, <4>5
      <3> QED
        BY <3>1, <3>2
    <2>12. Good(m)
      BY <2>9, <2>11 DEF row, new
    <2> QED
      BY <2>1, <2>12 DEF m
  <1> HIDE DEF K
  <1>8. k \in K
    <2>1. \A j \in 0..k : j \in K
      BY <1>1, <1>6, <1>7, Climb
    <2> QED
      BY <1>1, <2>1
  <1>9. Once(f[k].mToken) /\ f[k] \in Loading
    BY <1>1, <1>5, <1>8 DEF K
  <1> QED
    BY <1>4, <1>9 DEF rs, norm, split

-----------------------------------------------------------------------------
\* The graph of the hypothesis

LineEdges(tokens) ==
    [i \in 1..Len(tokens) |-> G!Edge(i - 1, tokens[i], G!Weight(<<>>, i), i)]

LineGraph(tokens) ==
    [edges |-> LineEdges(tokens), n |-> Len(tokens) + 1, last |-> Len(tokens)]

LineArc(tokens, i) == [label |-> tokens[i], weight |-> G!Weight(<<>>, i), next |-> i]

\* The finished graph f is the path of the tokens.
IsLine(f, tokens) ==
    /\ f.arcs = [s \in 0..Len(tokens) |->
                   IF s < Len(tokens) THEN <<LineArc(tokens, s + 1)>> ELSE <<>>]
    /\ f.final = {Len(tokens)}

\* The first k numbers of a sequence of ones.
LEMMA SumOfOnes ==
    ASSUME NEW numbers \in Seq(Nat), \A i \in 1..Len(numbers) : numbers[i] = 1
    PROVE  \A k \in 0..Len(numbers) : G!SumTo(numbers, k) = k
  <1> DEFINE len == Len(numbers)
             K == {k \in 0..len : G!SumTo(numbers, k) = k}
  <1>1. len \in Nat /\ 0 \in K
    BY GraphSums
  <1>2. ASSUME NEW k \in Nat, k < len, k \in K
        PROVE  k + 1 \in K
    <2>1. k + 1 \in 1..len /\ (k + 1) - 1 = k /\ k + 1 \in 0..len
      <3> HIDE DEF len
      <3> QED
        BY <1>1, <1>2
    <2>2. G!SumTo(numbers, k + 1) = G!SumTo(numbers, (k + 1) - 1) + numbers[k + 1]
      BY <2>1, GraphSums
    <2>3. G!SumTo(numbers, k) = k /\ numbers[k + 1] = 1
      BY <1>2, <2>1
    <2> HIDE DEF len
    <2> QED
      BY <2>1, <2>2, <2>3
  <1> HIDE DEF K, len
  <1>3. \A k \in 0..len : k \in K
    BY <1>1, <1>2, Climb
  <1> QED
    BY <1>3 DEF K, len

\* Without classes the tokens are the edges, one behind the other.
LEMMA ConvertLine ==
    ASSUME NEW tokens \in Seq((Word \cup {0}) \ EntityLabel)
    PROVE  G!ConvertToFst(tokens, <<>>, <<>>) = LineGraph(tokens)
  <1> DEFINE k == Len(tokens)
             isClass(i) == tokens[i] \in EntityLabel
             size(i) == IF isClass(i) THEN 3 + Len(FlattenSeq(<<>>[tokens[i]])) ELSE 1
             sizes == [i \in 1..k |-> size(i)]
             fresh(i) == 1 + G!SumTo(sizes, i - 1)
             end(i) == IF i = 0 THEN 0 ELSE fresh(i) + (IF isClass(i) THEN 2 ELSE 0)
             of(i) == IF isClass(i)
                      THEN G!ClassEdges(end(i - 1), tokens[i], G!Weight(<<>>, i), fresh(i),
                                        <<>>[tokens[i]])
                      ELSE <<G!Edge(end(i - 1), tokens[i], G!Weight(<<>>, i), fresh(i))>>
             ss == [i \in 1..k |-> of(i)]
             es == LineEdges(tokens)
  <1>1. k \in Nat /\ DOMAIN tokens = 1..k /\ \A i \in 1..k : ~isClass(i)
    OBVIOUS
  <1>2. \A i \in 1..k : size(i) = 1
    BY <1>1
  <1>3. sizes \in Seq(Nat) /\ Len(sizes) = k /\ \A i \in 1..k : sizes[i] = 1
    <2> HIDE DEF size, k
    <2> QED
      BY <1>1, <1>2
  <1>4. G!ConvertToFst(tokens, <<>>, <<>>)
        = [edges |-> FlattenSeq(ss), n |-> 1 + G!SumTo(sizes, k), last |-> end(k)]
    <2>1. DOMAIN tokens = 1..k
      BY <1>1
    <2>2. Len(sizes) = k
      BY <1>3
    <2> QED
      BY <2>1, <2>2, GraphOps DEF G!ConvertToFst
  <1> HIDE DEF size, sizes, k
  <1>5. \A i \in 0..k : G!SumTo(sizes, i) = i
    BY <1>3, SumOfOnes
  <1>6. \A i \in 1..k : fresh(i) = i
    <2> SUFFICES ASSUME NEW i \in 1..k PROVE fresh(i) = i
      OBVIOUS
    <2>1. i - 1 \in 0..k
      BY <1>1
    <2>2. G!SumTo(sizes, i - 1) = i - 1
      BY <1>5, <2>1
    <2> QED
      BY <2>2
  <1>7. \A i \in 0..k : end(i) = i
    <2> SUFFICES ASSUME NEW i \in 0..k PROVE end(i) = i
      OBVIOUS
    <2>1. i = 0 \/ i \in 1..k
      BY <1>1
    <2>2. CASE i = 0
      BY <2>2
    <2>3. CASE i \in 1..k
      <3>1. fresh(i) = i /\ ~isClass(i) /\ i # 0
        BY <1>1, <1>6, <2>3
      <3> HIDE DEF fresh, isClass
      <3> QED
        BY <3>1
    <2> QED
      BY <2>1, <2>2, <2>3
  <1>8. \A i \in 1..k : of(i) = <<es[i]>>
    <2> SUFFICES ASSUME NEW i \in 1..k PROVE of(i) = <<es[i]>>
      OBVIOUS
    <2>1. fresh(i) = i /\ end(i - 1) = i - 1 /\ ~isClass(i)
      <3>1. i - 1 \in 0..k
        BY <1>1
      <3> HIDE DEF fresh, isClass, end
      <3> QED
        BY <3>1, <1>1, <1>6, <1>7
    <2>2. es[i] = G!Edge(i - 1, tokens[i], G!Weight(<<>>, i), i)
      BY DEF LineEdges, k
    <2> HIDE DEF fresh, isClass, end, es
    <2> QED
      BY <2>1, <2>2
  <1> HIDE DEF of, end, fresh
  <1>9. es \in Seq({es[i] : i \in 1..k}) /\ Len(es) = k
    BY <1>1 DEF LineEdges, k
  <1>10. ss = [i \in 1..Len(es) |-> <<es[i]>>]
    <2> HIDE DEF es
    <2> QED
      BY <1>8, <1>9
  <1>11. FlattenSeq(ss) = es
    <2> HIDE DEF es, ss
    <2> QED
      BY <1>9, <1>10, FlattenSingles
  <1>12. G!SumTo(sizes, k) = k /\ end(k) = k /\ 1 + k = k + 1
    <2>1. k \in 0..k
      BY <1>1
    <2> QED
      BY <1>1, <1>5, <1>7, <2>1
  <1> HIDE DEF es, ss
  <1> QED
    BY <1>4, <1>11, <1>12 DEF LineGraph, es, k

\* One edge leaves every state of a path but the last.
LEMMA LineFacts ==
    ASSUME NEW tokens \in Seq(Word \cup {0}), NEW s \in 0..Len(tokens)
    PROVE  G!EdgesFrom(LineGraph(tokens), s)
           = IF s < Len(tokens) THEN <<LineEdges(tokens)[s + 1]>> ELSE <<>>
  <1> DEFINE k == Len(tokens)
             es == LineEdges(tokens)
             keep == {j \in DOMAIN es : es[j].from = s}
             elems == {es[i] : i \in 1..k}
  <1>1. k \in Nat
    OBVIOUS
  <1>2. es \in Seq(elems) /\ DOMAIN es = 1..k /\ Len(es) = k /\ \A i \in 1..k : es[i].from = i - 1
    <2> DEFINE of(i) == G!Edge(i - 1, tokens[i], G!Weight(<<>>, i), i)
    <2>1. es = [i \in 1..k |-> of(i)]
      BY DEF LineEdges
    <2>2. \A i \in 1..k : of(i).from = i - 1
      BY DEF G!Edge
    <2> HIDE DEF of, es, k
    <2>3. es \in [1..k -> elems] /\ \A i \in 1..k : es[i] = of(i)
      BY <2>1
    <2> HIDE DEF elems
    <2> QED
      BY <1>1, <2>2, <2>3
  <1>3. G!EdgesFrom(LineGraph(tokens), s) = Those(es, keep)
    BY GraphOps DEF G!EdgesFrom, LineGraph
  <1> HIDE DEF k, es, elems
  <1>4. CASE s < k
    <2>1. s + 1 \in 1..k
      BY <1>1, <1>4
    <2>2. keep \cap (1..k) = {s + 1}
      <3>1. \A j \in 1..k : j - 1 = s <=> j = s + 1
        BY <1>1
      <3> QED
        BY <1>2, <2>1, <3>1
    <2> HIDE DEF keep
    <2>3. Those(es, keep) = <<es[s + 1]>>
      BY <1>2, <2>1, <2>2, ThoseOne
    <2> QED
      BY <1>3, <1>4, <2>3 DEF k, es
  <1>5. CASE ~(s < k)
    <2>1. keep \cap (1..k) = {}
      <3>1. \A j \in 1..k : j - 1 # s
        BY <1>1, <1>5 DEF k
      <3> QED
        BY <1>2, <3>1
    <2> HIDE DEF keep
    <2>2. Those(es, keep) = <<>>
      BY <1>2, <2>1, ThoseNone
    <2> QED
      BY <1>3, <1>5, <2>2 DEF k
  <1> QED
    BY <1>4, <1>5

\* The arc of an edge of the path.
LEMMA LineToArcs ==
    ASSUME NEW tokens, NEW i \in 1..Len(tokens)
    PROVE  G!ToArcs(<<LineEdges(tokens)[i]>>) = <<LineArc(tokens, i)>>
  <1> DEFINE e == LineEdges(tokens)[i]
  <1>1. [label |-> e.label, weight |-> e.weight, next |-> e.next] = LineArc(tokens, i)
    BY DEF LineEdges, G!Edge, LineArc
  <1> HIDE DEF e
  <1>2. G!ToArcs(<<e>>) = <<[label |-> e.label, weight |-> e.weight, next |-> e.next]>>
    BY DEF G!ToArcs
  <1> QED
    BY <1>1, <1>2 DEF e

\* The loader leaves the path as it is.
LEMMA LoadedLine ==
    ASSUME NEW tokens \in Seq(Word \cup {0})
    PROVE  IsLine(G!LoadedFst(LineGraph(tokens)), tokens)
  <1> DEFINE k == Len(tokens)
             g == LineGraph(tokens)
             f == G!LoadedFst(g)
             out(s) == IF s < k THEN <<LineArc(tokens, s + 1)>> ELSE <<>>
  <1>1. k \in Nat /\ g.n = k + 1 /\ g.last = k
    BY DEF LineGraph
  <1>2. f = [arcs |-> [s \in 0..(g.n - 1) |-> G!ToArcs(G!EdgesFrom(g, s))], final |-> {g.last}]
    BY DEF G!LoadedFst
  <1>3. ASSUME NEW s \in 0..k
        PROVE  G!ToArcs(G!EdgesFrom(g, s)) = out(s)
    <2>1. CASE s < k
      <3>1. s + 1 \in 1..k
        BY <2>1
      <3> QED
        BY <2>1, <3>1, LineFacts, LineToArcs
    <2>2. CASE ~(s < k)
      <3>1. G!ToArcs(<<>>) = <<>>
        BY DEF G!ToArcs
      <3> QED
        BY <2>2, <3>1, LineFacts
    <2> QED
      BY <2>1, <2>2
  <1> HIDE DEF k, g, f, out
  <1>4. g.n - 1 = k
    BY <1>1
  <1>5. f.arcs = [s \in 0..k |-> out(s)] /\ f.final = {k}
    BY <1>1, <1>2, <1>3, <1>4
  <1> QED
    BY <1>5 DEF IsLine, k, out, f, g

-----------------------------------------------------------------------------
\* The graphs that are composed

HypTokens == IF input.finalEps THEN Append(input.hyp, 0) ELSE input.hyp

\* The graphs of the reference, with a layout of its m states, and of the hypothesis.
Laid(m, lay) ==
    /\ input \in Inputs
    /\ IsLaidFst(fstA, m, lay)
    /\ IsLine(fstB, HypTokens)
    /\ mNlpRows \in Seq(Row)

AreLaid == phase # "load" => \E m, lay : Laid(m, lay)

\* As long as nothing is loaded the input is one of the inputs.
LoadInv == input \in Inputs /\ AreLaid

LEMMA LoadLaid ==
    ASSUME input \in Inputs, Load
    PROVE  \E m, lay : Laid(m, lay)'
  <1> DEFINE l == G!NlpFstLoader(input.records, input.normalization, input.use_punctuation)
             g == G!ConvertToFst(l.mToken, <<>>, l.candidates)
             repl == G!Replacements(g, input.rules)
             spliced == G!ApplyToFst(g, repl)
  <1>1. /\ fstA' = G!ReferenceFst(G!RmEpsilon(spliced)) /\ mNlpRows' = l.mNlpRows
        /\ fstB' = G!LoadedFst(G!ConvertToFst(IF input.finalEps THEN Append(input.hyp, G!Eps)
                                              ELSE input.hyp, <<>>, <<>>))
        /\ input' = input
    BY DEF Load
  <1>2. l \in Loading /\ Once(l.mToken)
    BY LoaderFacts
  <1>3. \A k \in DOMAIN repl : \E label \in SynonymLabel :
             Cardinality({m \in SynonymLabel : m < label}) = k - 1
    BY SynonymLabelsSuffice
  <1>4. input.rules \in Seq(Rule) /\ input.hyp \in Seq(Word) /\ input.finalEps \in BOOLEAN
    BY InputAssumption DEF Rule
  <1> HIDE DEF l
  <1>5. /\ l.mToken \in Seq(Word \cup EntityLabel) /\ l.candidates \in Candidates
        /\ l.mNlpRows \in Seq(Row)
    BY <1>2 DEF Loading
  <1>6. PICK lay : IsLaid(g, lay) /\ NoSynonyms(g, lay)
    BY <1>2, <1>5, ConvertLaid
  <1> HIDE DEF g
  <1>7. repl \in Seq(Replacement(lay, g.n))
    BY <1>4, <1>6, ReplacementsLaid
  <1> HIDE DEF repl
  <1>a. Labelled(Len(repl))
    <2>1. DOMAIN repl = 1..Len(repl)
      BY <1>7
    <2> QED
      BY <1>3, <2>1 DEF Labelled
  <1>8. PICK wide : IsLaid(spliced, wide)
    BY <1>6, <1>7, <1>a, ApplyLaid
  <1> HIDE DEF spliced
  <1>9. PICK n : IsLaidFst(fstA', n, wide)
    BY <1>1, <1>8, ReferenceLaid
  <1>10. IsLine(fstB', HypTokens')
    <2> DEFINE tokens == IF input.finalEps THEN Append(input.hyp, 0) ELSE input.hyp
    <2>1. fstB' = G!LoadedFst(G!ConvertToFst(tokens, <<>>, <<>>)) /\ HypTokens' = tokens
      BY <1>1 DEF HypTokens, G!Eps
    <2>2. tokens \in Seq((Word \cup {0}) \ EntityLabel)
      <3> DEFINE tk == (Word \cup {0}) \ EntityLabel
      <3>1. 0 \in tk /\ Word \subseteq tk
        BY Symbols DEF AnyLabel
      <3> HIDE DEF tk
      <3>2. input.hyp \in Seq(tk)
        BY <1>4, <3>1, WiderSeq
      <3>3. Append(input.hyp, 0) \in Seq(tk)
        BY <3>1, <3>2
      <3> QED
        BY <3>2, <3>3 DEF tk
    <2>3. tokens \in Seq(Word \cup {0})
      <3>1. (Word \cup {0}) \ EntityLabel \subseteq Word \cup {0}
        OBVIOUS
      <3> HIDE DEF tokens
      <3> QED
        BY <2>2, <3>1, WiderSeq
    <2> HIDE DEF tokens
    <2> QED
      BY <2>1, <2>2, <2>3, ConvertLine, LoadedLine
  <1>11. Laid(n, wide)'
    BY <1>1, <1>5, <1>9, <1>10 DEF Laid
  <1> QED
    BY <1>11

\* The graphs that the loader, ConvertToFst, ApplyToFst and RmEpsilon make are laid out
\* whenever they are there: every arc enters, stays in or leaves one class or synonym.
THEOREM GraphsLaid == Spec => []LoadInv
  <1>1. Init => LoadInv
    BY DEF Init, LoadInv, AreLaid
  <1>2. LoadInv /\ [Next]_vars => LoadInv'
    <2> SUFFICES ASSUME LoadInv, [Next]_vars PROVE LoadInv'
      OBVIOUS
    <2>1. CASE UNCHANGED vars
      BY <2>1 DEF LoadInv, AreLaid, Laid, HypTokens, vars, loadVars
    <2>2. CASE Load
      BY <2>2, LoadLaid DEF LoadInv, AreLaid, Load
    <2>3. CASE Walk
      BY <2>3 DEF LoadInv, AreLaid, Laid, HypTokens, Walk, C!TryGetArcsAtState
    <2>4. CASE ReadBack
      BY <2>4 DEF LoadInv, AreLaid, Laid, HypTokens, ReadBack, loadVars
    <2>5. CASE MakeStitches
      BY <2>5 DEF LoadInv, AreLaid, Laid, HypTokens, MakeStitches, loadVars
    <2>6. CASE AlignStitchesToNlp
      BY <2>6 DEF LoadInv, AreLaid, Laid, HypTokens, AlignStitchesToNlp, loadVars
    <2>7. CASE Done
      BY <2>1, <2>7 DEF Done
    <2> QED
      BY <2>1, <2>2, <2>3, <2>4, <2>5, <2>6, <2>7 DEF Next, Step
  <1> QED
    BY <1>1, <1>2, PTL DEF Spec

-----------------------------------------------------------------------------
\* Composed states

\* The operators on sequences that the compositions are built with.
LEMMA CompOps ==
    /\ \A ss : C!FlattenSeq(ss) = FlattenSeq(ss)
    /\ \A seq, keep : C!Those(seq, keep) = Those(seq, keep)
    /\ \A b, s : C!When(b, s) = When(b, s)
    /\ \A s : C!ToSet(s) = ToSet(s)
  BY DEF C!FlattenSeq, FlattenSeq, C!Those, Those, C!When, When, C!ToSet, ToSet

\* all continues states with the pairs that were not among them.
Numbers(all, states, pairs) ==
    /\ Len(states) <= Len(all)
    /\ \A i \in 1..Len(states) : all[i] = states[i]
    /\ \A j \in 1..Len(pairs) :
         /\ C!IdOf(all, pairs[j]) \in Nat
         /\ C!IdOf(all, pairs[j]) < Len(all)
         /\ all[C!IdOf(all, pairs[j]) + 1] = pairs[j]

\* The pairs stay where they are, and each of the new ones gets an id.
LEMMA CreatedFacts ==
    ASSUME NEW elems, NEW states \in Seq(elems), NEW pairs \in Seq(elems)
    PROVE  /\ C!Created(states, pairs) \in Seq(elems)
           /\ Numbers(C!Created(states, pairs), states, pairs)
  <1> DEFINE k == Len(pairs)
             d == Len(states)
             fresh == {j \in DOMAIN pairs : /\ pairs[j] \notin C!ToSet(states)
                                            /\ \A i \in 1..(j - 1) : pairs[i] # pairs[j]}
             new == Those(pairs, fresh)
             all == C!Created(states, pairs)
  <1>1. k \in Nat /\ d \in Nat /\ DOMAIN pairs = 1..k /\ DOMAIN states = 1..d
    OBVIOUS
  <1>2. new \in Seq(elems) /\ \A i \in fresh : \E j \in 1..Len(new) : new[j] = pairs[i]
    <2>1. fresh \cap (1..Len(pairs)) = fresh
      BY <1>1
    <2> HIDE DEF fresh, k
    <2>2. Those(pairs, fresh) \in Seq(elems) /\ AreKept(Those(pairs, fresh), pairs, fresh)
      BY ThoseFacts
    <2> QED
      BY <2>1, <2>2 DEF AreKept
  <1>3. all = states \o new
    BY CompOps DEF C!Created
  <1>4. /\ all \in Seq(elems) /\ Len(all) = d + Len(new) /\ DOMAIN all = 1..Len(all)
        /\ \A i \in 1..d : all[i] = states[i]
        /\ \A j \in 1..Len(new) : all[d + j] = new[j] /\ d + j \in 1..Len(all)
    <2> HIDE DEF new, all
    <2> QED
      BY <1>2, <1>3
  <1>5. ASSUME NEW i \in 1..k
        PROVE  \E j \in 1..Len(all) : all[j] = pairs[i]
    <2>1. CASE pairs[i] \in C!ToSet(states)
      <3>1. PICK j \in 1..d : states[j] = pairs[i]
        BY <1>1, <2>1, CompOps DEF ToSet
      <3>2. j \in 1..Len(all)
        <4>1. Len(new) \in Nat
          <5> HIDE DEF new
          <5> QED
            BY <1>2
        <4> HIDE DEF new, all, d
        <4> QED
          BY <1>1, <1>4, <4>1
      <3> HIDE DEF all
      <3> QED
        BY <1>4, <3>1, <3>2
    <2>2. CASE pairs[i] \notin C!ToSet(states)
      <3> DEFINE K == {j \in 1..k : pairs[j] = pairs[i]}
      <3>1. K \in SUBSET Nat /\ K # {}
        OBVIOUS
      <3>2. PICK j \in K : \A l \in K : j <= l
        BY <3>1, LeastNat
      <3>3. j \in fresh
        <4>1. j \in DOMAIN pairs /\ pairs[j] = pairs[i] /\ j \in Nat
          BY <1>1, <3>2
        <4>2. \A l \in 1..(j - 1) : pairs[l] # pairs[j]
          <5> SUFFICES ASSUME NEW l \in 1..(j - 1), pairs[l] = pairs[j]
                       PROVE  FALSE
            OBVIOUS
          <5>1. l \in 1..k /\ l < j
            BY <1>1, <4>1
          <5>2. l \in K
            BY <4>1, <5>1
          <5> QED
            BY <3>2, <4>1, <5>1, <5>2
        <4> QED
          BY <2>2, <4>1, <4>2
      <3>4. pairs[j] = pairs[i]
        BY <3>2
      <3> HIDE DEF K, fresh, new, all
      <3>5. PICK l \in 1..Len(new) : new[l] = pairs[j]
        BY <1>2, <3>3
      <3> QED
        BY <1>4, <3>4, <3>5
    <2> QED
      BY <2>1, <2>2
  <1>6. ASSUME NEW i \in 1..k
        PROVE  /\ C!IdOf(all, pairs[i]) \in Nat /\ C!IdOf(all, pairs[i]) < Len(all)
               /\ all[C!IdOf(all, pairs[i]) + 1] = pairs[i]
    <2> HIDE DEF all
    <2> DEFINE j == CHOOSE j \in DOMAIN all : all[j] = pairs[i]
    <2>1. j \in 1..Len(all) /\ all[j] = pairs[i]
      BY <1>4, <1>5
    <2>2. C!IdOf(all, pairs[i]) = j - 1
      BY DEF C!IdOf
    <2>3. Len(all) \in Nat
      BY <1>4
    <2> HIDE DEF j
    <2> QED
      BY <2>1, <2>2, <2>3
  <1>7. d <= Len(all)
    <2>1. Len(new) \in Nat
      <3> HIDE DEF new
      <3> QED
        BY <1>2
    <2> HIDE DEF new, all, d
    <2> QED
      BY <1>1, <1>4, <2>1
  <1> HIDE DEF all
  <1>8. all \in Seq(elems) /\ Numbers(all, states, pairs)
    BY <1>4, <1>6, <1>7 DEF Numbers
  <1> QED
    BY <1>8 DEF all

-----------------------------------------------------------------------------
\* The answers of the composition

\* What an arc may do that leads from state p of the reference and q of the hypothesis
\* to r and t: nothing or an arc of the reference, and none or the next of the tokens.
OnReference(lay, p, arc, r) ==
    \/ arc.ilabel = 0 /\ r = p
    \/ Fits(lay, p, arc.ilabel, r)

OnHypothesis(tokens, q, arc, t) ==
    \/ t = q /\ arc.olabel = IF IsLabel(arc.ilabel) THEN DelLabel ELSE 0
    \/ /\ q < Len(tokens) /\ t = q + 1
       /\ arc.olabel = tokens[q + 1] /\ ~IsLabel(arc.ilabel)

Answers(m, lay, tokens, p, q) ==
    {a \in [ilabel : Symbol, olabel : Symbol \cup {DelLabel}, weight : Nat,
            pair : (0..(m - 1)) \X (0..Len(tokens))] :
       OnReference(lay, p, a, a.pair[1]) /\ OnHypothesis(tokens, q, a, a.pair[2])}

\* An arc of the reference, or none, against a token of the hypothesis, or none.
LEMMA AnswerIs ==
    ASSUME NEW m, NEW lay, NEW tokens, NEW p, NEW q, NEW i \in Symbol,
           NEW o \in Symbol \cup {DelLabel}, NEW cost \in Nat, NEW r \in 0..(m - 1),
           NEW t \in 0..Len(tokens),
           (i = 0 /\ r = p) \/ Fits(lay, p, i, r),
           \/ t = q /\ o = IF IsLabel(i) THEN DelLabel ELSE 0
           \/ q < Len(tokens) /\ t = q + 1 /\ o = tokens[q + 1] /\ ~IsLabel(i)
    PROVE  C!Proposal(i, o, cost, r, t) \in Answers(m, lay, tokens, p, q)
  <1> DEFINE a == C!Proposal(i, o, cost, r, t)
  <1>1. a = [ilabel |-> i, olabel |-> o, weight |-> cost, pair |-> <<r, t>>]
    BY DEF C!Proposal
  <1> HIDE DEF a
  <1>2. /\ a.ilabel = i /\ a.olabel = o /\ a.pair[1] = r /\ a.pair[2] = t
        /\ a \in [ilabel : Symbol, olabel : Symbol \cup {DelLabel}, weight : Nat,
                  pair : (0..(m - 1)) \X (0..Len(tokens))]
    BY <1>1
  <1>3. OnReference(lay, p, a, r) /\ OnHypothesis(tokens, q, a, t)
    BY <1>2 DEF OnReference, OnHypothesis
  <1> QED
    BY <1>2, <1>3 DEF Answers, a

LEMMA WhenAnswers ==
    ASSUME NEW elems, NEW s \in Seq(elems), NEW c PROVE C!When(c, s) \in Seq(elems)
  <1>1. <<>> \in Seq(elems)
    OBVIOUS
  <1> QED
    BY <1>1, CompOps DEF When

LEMMA SingleAnswer == ASSUME NEW elems, NEW a \in elems PROVE <<a>> \in Seq(elems)
  OBVIOUS

\* The graphs at a pair of states.
Meets(m, lay, tokens, p, q) ==
    /\ IsLaidFst(fstA, m, lay) /\ IsLine(fstB, tokens)
    /\ tokens \in Seq(Word \cup {0}) /\ p \in 0..(m - 1) /\ q \in 0..Len(tokens)

LEMMA MeetsFacts ==
    ASSUME NEW m, NEW lay, NEW tokens, NEW p, NEW q, Meets(m, lay, tokens, p, q)
    PROVE  /\ fstA.arcs[p] \in Seq(Leaving(lay, m, p)) /\ m \in Nat \ {0}
           /\ \A a \in Leaving(lay, m, p) :
                /\ a.label \in Symbol /\ a.next \in 0..(m - 1) /\ Fits(lay, p, a.label, a.next)
           /\ Len(tokens) \in Nat
           /\ fstB.arcs[q] = IF q < Len(tokens) THEN <<LineArc(tokens, q + 1)>> ELSE <<>>
           /\ q < Len(tokens) => /\ q + 1 \in 0..Len(tokens) /\ tokens[q + 1] \in Symbol
                                 /\ LineArc(tokens, q + 1).label = tokens[q + 1]
                                 /\ LineArc(tokens, q + 1).next = q + 1
  <1>1. fstA.arcs[p] \in Seq(Leaving(lay, m, p)) /\ m \in Nat \ {0}
    BY DEF Meets, IsLaidFst
  <1>2. \A a \in Leaving(lay, m, p) :
           a.label \in Symbol /\ a.next \in 0..(m - 1) /\ Fits(lay, p, a.label, a.next)
    BY DEF Leaving
  <1> DEFINE d == Len(tokens)
  <1>3. /\ tokens \in Seq(Word \cup {0}) /\ d \in Nat /\ q \in 0..d
        /\ fstB.arcs = [s \in 0..d |-> IF s < d THEN <<LineArc(tokens, s + 1)>> ELSE <<>>]
    BY DEF Meets, IsLine
  <1>4. q < d => q + 1 \in 1..d /\ q + 1 \in 0..d
    BY <1>3
  <1>5. q < d => tokens[q + 1] \in Symbol
    BY <1>3, <1>4 DEF Symbol
  <1>6. /\ LineArc(tokens, q + 1).label = tokens[q + 1]
        /\ LineArc(tokens, q + 1).next = q + 1
    BY DEF LineArc
  <1> HIDE DEF d
  <1>7. fstB.arcs[q] = IF q < d THEN <<LineArc(tokens, q + 1)>> ELSE <<>>
    BY <1>3
  <1> QED
    BY <1>1, <1>2, <1>3, <1>4, <1>5, <1>6, <1>7 DEF d

\* A word against a token.
LEMMA AgainstType ==
    ASSUME NEW m, NEW lay, NEW tokens, NEW p, NEW q, Meets(m, lay, tokens, p, q),
           NEW arcA \in Leaving(lay, m, p), ~IsLabel(arcA.label), q < Len(tokens)
    PROVE  C!Against(p, arcA, LineArc(tokens, q + 1)) \in Seq(Answers(m, lay, tokens, p, q))
  <1> DEFINE arcB == LineArc(tokens, q + 1)
             R == Answers(m, lay, tokens, p, q)
             match == C!Proposal(arcA.label, arcB.label, 0, arcA.next, arcB.next)
             insert == C!Insertion(p, arcB)
             subst == C!Proposal(arcA.label, arcB.label, C!substitution_cost,
                                 arcA.next, arcB.next)
  <1>1. /\ arcA.label \in Symbol /\ arcA.next \in 0..(m - 1) /\ Fits(lay, p, arcA.label, arcA.next)
        /\ q + 1 \in 0..Len(tokens) /\ arcB.label = tokens[q + 1] /\ arcB.next = q + 1
        /\ tokens[q + 1] \in Symbol /\ p \in 0..(m - 1)
    BY MeetsFacts DEF Meets
  <1>2. 0 \in Nat /\ C!substitution_cost \in Nat /\ C!insertion_cost \in Nat /\ 0 \in Symbol
        /\ C!Eps = 0 /\ ~IsLabel(0)
    BY Symbols DEF C!substitution_cost, C!insertion_cost, Symbol, C!Eps
  <1> HIDE DEF arcB
  <1>3. match \in R /\ subst \in R
    BY <1>1, <1>2, AnswerIs
  <1>4. insert \in R
    BY <1>1, <1>2, AnswerIs DEF C!Insertion
  <1>5. C!Against(p, arcA, arcB)
        = C!When(arcA.label = arcB.label, <<match>>) \o C!When(arcB.weight <= 0, <<insert>>)
          \o C!When(arcA.weight <= 0 /\ arcB.weight <= 0, <<subst>>)
    BY DEF C!Against
  <1> HIDE DEF match, subst, insert, R
  <1>6. /\ C!When(arcA.label = arcB.label, <<match>>) \in Seq(R)
        /\ C!When(arcB.weight <= 0, <<insert>>) \in Seq(R)
        /\ C!When(arcA.weight <= 0 /\ arcB.weight <= 0, <<subst>>) \in Seq(R)
    BY <1>3, <1>4, SingleAnswer, WhenAnswers
  <1>7. C!Against(p, arcA, arcB) \in Seq(R)
    <2> DEFINE x == C!When(arcA.label = arcB.label, <<match>>)
               y == C!When(arcB.weight <= 0, <<insert>>)
               z == C!When(arcA.weight <= 0 /\ arcB.weight <= 0, <<subst>>)
    <2>1. x \in Seq(R) /\ y \in Seq(R) /\ z \in Seq(R) /\ C!Against(p, arcA, arcB) = x \o y \o z
      BY <1>5, <1>6
    <2> HIDE DEF x, y, z
    <2> QED
      BY <2>1
  <1> QED
    BY <1>7 DEF arcB, R

\* What one arc of the reference contributes.
LEMMA ProposalsOfType ==
    ASSUME NEW m, NEW lay, NEW tokens, NEW p, NEW q, Meets(m, lay, tokens, p, q),
           NEW k \in DOMAIN fstA.arcs[p]
    PROVE  C!ProposalsOf(p, q, k) \in Seq(Answers(m, lay, tokens, p, q))
  <1> DEFINE arcA == fstA.arcs[p][k]
             R == Answers(m, lay, tokens, p, q)
             arcsB == fstB.arcs[q]
             word == C!FlattenSeq([j \in DOMAIN arcsB |-> C!Against(p, arcA, arcsB[j])])
             deleted == C!Proposal(arcA.label, C!Eps, C!deletion_cost, arcA.next, q)
             label == C!Proposal(arcA.label, DelLabel, 0, arcA.next, q)
             eps == C!Proposal(C!Eps, C!Eps, 0, arcA.next, q)
  <1>1. /\ arcA \in Leaving(lay, m, p) /\ arcA.label \in Symbol /\ arcA.next \in 0..(m - 1)
        /\ Fits(lay, p, arcA.label, arcA.next) /\ q \in 0..Len(tokens)
    <2>1. arcA \in Leaving(lay, m, p)
      <3>1. fstA.arcs[p] \in Seq(Leaving(lay, m, p))
        BY MeetsFacts
      <3> QED
        BY <3>1
    <2> QED
      BY <2>1, MeetsFacts DEF Meets
  <1>2. 0 \in Nat /\ C!deletion_cost \in Nat /\ C!Eps = 0 /\ 0 \in Symbol /\ ~IsLabel(0)
    BY Symbols DEF C!deletion_cost, C!Eps, Symbol
  <1>3. C!IsWord(arcA) <=> arcA.label # 0 /\ ~IsLabel(arcA.label)
    BY <1>2 DEF C!IsWord, IsLabel, T!IsLabel
  <1>4. CASE arcA.next = p
    <2>1. C!ProposalsOf(p, q, k) = <<>>
      BY <1>4 DEF C!ProposalsOf
    <2> QED
      BY <2>1
  <1>5. CASE arcA.next # p /\ arcA.label = 0
    <2>1. C!ProposalsOf(p, q, k) = <<eps>>
      BY <1>2, <1>5 DEF C!ProposalsOf
    <2> HIDE DEF arcA
    <2>2. eps \in R
      BY <1>1, <1>2, <1>5, AnswerIs
    <2> HIDE DEF eps, R
    <2> QED
      BY <2>1, <2>2, SingleAnswer DEF R
  <1>6. CASE arcA.next # p /\ IsLabel(arcA.label)
    <2>1. C!ProposalsOf(p, q, k) = C!When(C!Enters(p, arcA, q), <<label>>)
      BY <1>2, <1>3, <1>6 DEF C!ProposalsOf
    <2> HIDE DEF arcA
    <2>2. label \in R
      BY <1>1, <1>2, <1>6, AnswerIs
    <2> HIDE DEF label, R
    <2>3. <<label>> \in Seq(R)
      BY <2>2, SingleAnswer
    <2> QED
      BY <2>1, <2>3, WhenAnswers DEF R
  <1>7. CASE arcA.next # p /\ arcA.label # 0 /\ ~IsLabel(arcA.label)
    <2> DEFINE rest == C!When(C!NumMatch(p, q, k) = 0 \/ arcA.weight < 0, <<deleted>>)
    <2>1. C!ProposalsOf(p, q, k) = word \o rest
      BY <1>2, <1>3, <1>7 DEF C!ProposalsOf
    <2>2. rest \in Seq(R)
      <3> HIDE DEF arcA
      <3>1. deleted \in R
        BY <1>1, <1>2, <1>7, AnswerIs
      <3> HIDE DEF deleted, R
      <3>2. <<deleted>> \in Seq(R)
        BY <3>1, SingleAnswer
      <3> QED
        BY <3>2, WhenAnswers
    <2>3. word \in Seq(R)
      <3> DEFINE d == Len(arcsB)
                 of(j) == C!Against(p, arcA, arcsB[j])
                 ss == [j \in 1..d |-> of(j)]
      <3>1. /\ arcsB = IF q < Len(tokens) THEN <<LineArc(tokens, q + 1)>> ELSE <<>>
            /\ d \in Nat /\ DOMAIN arcsB = 1..d
            /\ \A j \in 1..d : q < Len(tokens) /\ arcsB[j] = LineArc(tokens, q + 1)
        <4>1. arcsB = IF q < Len(tokens) THEN <<LineArc(tokens, q + 1)>> ELSE <<>>
          BY MeetsFacts
        <4> DEFINE x == LineArc(tokens, q + 1)
        <4> HIDE DEF arcsB, x
        <4>2. CASE q < Len(tokens)
          <5>1. arcsB = <<x>>
            BY <4>1, <4>2 DEF x
          <5> QED
            BY <4>1, <4>2, <5>1 DEF x
        <4>3. CASE ~(q < Len(tokens))
          <5>1. arcsB = <<>>
            BY <4>1, <4>3
          <5> QED
            BY <4>1, <5>1
        <4> QED
          BY <4>2, <4>3
      <3> HIDE DEF arcA, arcsB, d
      <3>2. \A j \in 1..d : of(j) \in Seq(R)
        BY <1>1, <1>7, <3>1, AgainstType
      <3> HIDE DEF of, R
      <3>3. ss \in [1..d -> Seq(R)]
        BY <3>2
      <3> HIDE DEF ss
      <3>4. FlattenSeq(ss) \in Seq(R)
        BY <3>1, <3>3, FlattenType
      <3> QED
        BY <3>1, <3>4, CompOps DEF ss, of
    <2> HIDE DEF word, rest, R
    <2>4. word \o rest \in Seq(R)
      BY <2>2, <2>3
    <2> QED
      BY <2>1, <2>4 DEF R
  <1> QED
    BY <1>4, <1>5, <1>6, <1>7

\* The answer of the composition.
LEMMA ProposalsType ==
    ASSUME NEW m, NEW lay, NEW tokens, NEW p, NEW q, Meets(m, lay, tokens, p, q),
           NEW s, composed_states[s + 1] = <<p, q>>
    PROVE  C!Proposals(s) \in Seq(Answers(m, lay, tokens, p, q))
  <1> DEFINE R == Answers(m, lay, tokens, p, q)
             d == Len(fstA.arcs[p])
             of(k) == C!ProposalsOf(p, q, k)
             ss == [k \in 1..d |-> of(k)]
             arcsB == fstB.arcs[q]
             keep == {j \in DOMAIN arcsB : arcsB[j].weight <= 0}
             free == Those(arcsB, keep)
             inserted == [j \in DOMAIN free |-> C!Insertion(p, free[j])]
             tail == {arc \in {LineArc(tokens, q + 1)} : q < Len(tokens)}
  <1>1. d \in Nat /\ DOMAIN fstA.arcs[p] = 1..d
    <2>1. fstA.arcs[p] \in Seq(Leaving(lay, m, p))
      BY MeetsFacts
    <2> QED
      BY <2>1
  <1>2. \A k \in 1..d : of(k) \in Seq(R)
    BY <1>1, ProposalsOfType
  <1>3. FlattenSeq(ss) \in Seq(R)
    <2> HIDE DEF of, R, d
    <2>1. ss \in [1..d -> Seq(R)]
      BY <1>2
    <2> HIDE DEF ss
    <2> QED
      BY <1>1, <2>1, FlattenType
  <1>4. free \in Seq(tail)
    <2>1. arcsB = IF q < Len(tokens) THEN <<LineArc(tokens, q + 1)>> ELSE <<>>
      BY MeetsFacts
    <2>2. arcsB \in Seq(tail)
      <3> HIDE DEF arcsB
      <3>1. CASE q < Len(tokens)
        <4> DEFINE x == LineArc(tokens, q + 1)
        <4>1. x \in tail /\ arcsB = <<x>>
          BY <2>1, <3>1
        <4> HIDE DEF x, tail
        <4> QED
          BY <4>1
      <3>2. CASE ~(q < Len(tokens))
        <4>1. arcsB = <<>>
          BY <2>1, <3>2
        <4> QED
          BY <4>1
      <3> QED
        BY <3>1, <3>2
    <2> HIDE DEF keep, arcsB, tail
    <2> QED
      BY <2>2, ThoseFacts
  <1>5. \A arc \in tail : C!Insertion(p, arc) \in R
    <2> SUFFICES ASSUME q < Len(tokens) PROVE C!Insertion(p, LineArc(tokens, q + 1)) \in R
      OBVIOUS
    <2>1. /\ q + 1 \in 0..Len(tokens) /\ tokens[q + 1] \in Symbol /\ p \in 0..(m - 1)
          /\ LineArc(tokens, q + 1).label = tokens[q + 1] /\ LineArc(tokens, q + 1).next = q + 1
      BY MeetsFacts DEF Meets
    <2>2. C!insertion_cost \in Nat /\ 0 \in Symbol /\ C!Eps = 0 /\ ~IsLabel(0)
      BY Symbols DEF C!insertion_cost, Symbol, C!Eps
    <2> QED
      BY <2>1, <2>2, AnswerIs DEF C!Insertion
  <1>6. inserted \in Seq(R)
    <2> HIDE DEF free, tail, R
    <2> QED
      BY <1>4, <1>5
  <1>7. C!Trailing(p, q) = C!When(fstA.arcs[p] = <<>>, inserted)
    BY CompOps DEF C!Trailing
  <1>8. C!Trailing(p, q) \in Seq(R)
    <2> HIDE DEF inserted, R
    <2>1. C!When(fstA.arcs[p] = <<>>, inserted) \in Seq(R)
      BY <1>6, WhenAnswers
    <2> QED
      BY <1>7, <2>1
  <1>9. C!Proposals(s) = FlattenSeq(ss) \o C!Trailing(p, q)
    <2>1. composed_states[s + 1][1] = p /\ composed_states[s + 1][2] = q
      OBVIOUS
    <2> HIDE DEF d
    <2> QED
      BY <1>1, <2>1, CompOps DEF C!Proposals
  <1> HIDE DEF ss, R
  <1>10. C!Proposals(s) \in Seq(R)
    BY <1>3, <1>8, <1>9
  <1> QED
    BY <1>10 DEF R

-----------------------------------------------------------------------------
\* The chain

Arc == [ilabel : Symbol, olabel : Symbol \cup {DelLabel}, weight : Nat, next : Nat]

\* The arcs lead over the states p of the reference and the states q of the hypothesis.
Follows(m, lay, tokens, p, q, arcs) ==
    /\ arcs \in Seq(Arc)
    /\ p \in [0..Len(arcs) -> 0..(m - 1)] /\ q \in [0..Len(arcs) -> 0..Len(tokens)]
    /\ p[0] = 0 /\ q[0] = 0
    /\ \A i \in 1..Len(arcs) : /\ OnReference(lay, p[i - 1], arcs[i], p[i])
                               /\ OnHypothesis(tokens, q[i - 1], arcs[i], q[i])

\* The states that are reached one step later.
Later(p, n, r) == [i \in 0..(n + 1) |-> IF i = n + 1 THEN r ELSE p[i]]

LEMMA FollowsOn ==
    ASSUME NEW m, NEW lay, NEW tokens, NEW p, NEW q, NEW arcs, Follows(m, lay, tokens, p, q, arcs),
           NEW arc \in Arc, NEW r \in 0..(m - 1), NEW t \in 0..Len(tokens),
           OnReference(lay, p[Len(arcs)], arc, r), OnHypothesis(tokens, q[Len(arcs)], arc, t)
    PROVE  /\ Follows(m, lay, tokens, Later(p, Len(arcs), r), Later(q, Len(arcs), t),
                      Append(arcs, arc))
           /\ Len(Append(arcs, arc)) = Len(arcs) + 1
           /\ Later(p, Len(arcs), r)[Len(arcs) + 1] = r
           /\ Later(q, Len(arcs), t)[Len(arcs) + 1] = t
  <1> DEFINE n == Len(arcs)
             new == Append(arcs, arc)
             d == Len(tokens)
             p2 == Later(p, n, r)
             q2 == Later(q, n, t)
  <1>1. /\ arcs \in Seq(Arc) /\ n \in Nat
        /\ p \in [0..n -> 0..(m - 1)] /\ q \in [0..n -> 0..d]
        /\ p[0] = 0 /\ q[0] = 0
        /\ \A i \in 1..n : /\ OnReference(lay, p[i - 1], arcs[i], p[i])
                           /\ OnHypothesis(tokens, q[i - 1], arcs[i], q[i])
    BY DEF Follows
  <1>2. /\ new \in Seq(Arc) /\ Len(new) = n + 1 /\ new[n + 1] = arc
        /\ \A i \in 1..n : new[i] = arcs[i]
    BY <1>1
  <1>3. OnReference(lay, p[n], arc, r) /\ OnHypothesis(tokens, q[n], arc, t)
        /\ r \in 0..(m - 1) /\ t \in 0..d
    OBVIOUS
  <1> HIDE DEF n, new, d
  <1>4. /\ p2 \in [0..(n + 1) -> 0..(m - 1)] /\ q2 \in [0..(n + 1) -> 0..d]
        /\ p2[n + 1] = r /\ q2[n + 1] = t
        /\ \A i \in 0..n : p2[i] = p[i] /\ q2[i] = q[i]
    BY <1>1, <1>3 DEF Later
  <1>5. p2[0] = 0 /\ q2[0] = 0
    BY <1>1, <1>4
  <1> HIDE DEF p2, q2
  <1>6. ASSUME NEW i \in 1..(n + 1)
        PROVE  /\ OnReference(lay, p2[i - 1], new[i], p2[i])
               /\ OnHypothesis(tokens, q2[i - 1], new[i], q2[i])
    <2>1. CASE i = n + 1
      <3>1. i - 1 = n /\ n \in 0..n
        BY <1>1, <2>1
      <3> QED
        BY <1>2, <1>3, <1>4, <2>1, <3>1
    <2>2. CASE i # n + 1
      <3>1. i \in 1..n /\ i \in 0..n /\ i - 1 \in 0..n
        BY <1>1, <2>2
      <3> QED
        BY <1>1, <1>2, <1>4, <3>1
    <2> QED
      BY <2>1, <2>2
  <1> QED
    BY <1>2, <1>4, <1>5, <1>6 DEF Follows, n, new, d, p2, q2

\* While the chain grows it stands for a path through both graphs, and when it is read
\* back the path is at the end of the hypothesis and outside of classes and synonyms.
WalkedTo(m, lay, p, q) ==
    /\ Laid(m, lay) /\ Follows(m, lay, HypTokens, p, q, chain)
    /\ composed_states \in Seq((0..(m - 1)) \X (0..Len(HypTokens)))
    /\ at \in Nat /\ at < Len(composed_states)
    /\ composed_states[at + 1] = <<p[Len(chain)], q[Len(chain)]>>

Told(m, lay, p, q) ==
    /\ Laid(m, lay) /\ Follows(m, lay, HypTokens, p, q, chain)
    /\ lay.open[p[Len(chain)]] = 0 /\ q[Len(chain)] = Len(HypTokens)
    /\ alignment = T!GetDetails(chain)

ChainInv ==
    /\ input \in Inputs
    /\ phase = "load" => chain = <<>> /\ at = 0
    /\ phase = "walk" => \E m, lay, p, q : WalkedTo(m, lay, p, q)
    /\ phase \notin {"load", "walk"} => \E m, lay, p, q : Told(m, lay, p, q)

LEMMA HypTyped ==
    ASSUME input \in Inputs
    PROVE  HypTokens \in Seq(Word \cup {0}) /\ input.hyp \in Seq(Word)
  <1>1. input.hyp \in Seq(Word)
    BY InputAssumption
  <1> DEFINE tk == Word \cup {0}
  <1>2. 0 \in tk /\ Word \subseteq tk
    OBVIOUS
  <1> HIDE DEF tk
  <1>3. input.hyp \in Seq(tk)
    BY <1>1, <1>2, WiderSeq
  <1>4. Append(input.hyp, 0) \in Seq(tk)
    BY <1>2, <1>3
  <1> QED
    BY <1>1, <1>3, <1>4 DEF HypTokens, tk

LEMMA LoadChain ==
    ASSUME ChainInv, Load
    PROVE  ChainInv'
  <1>1. input \in Inputs /\ chain = <<>> /\ at = 0
    BY DEF ChainInv, Load
  <1>2. /\ composed_states' = <<<<0, 0>>>> /\ at' = 0 /\ chain' = <<>> /\ phase' = "walk"
        /\ input' = input
    BY <1>1 DEF Load, C!Start
  <1>3. PICK m, lay : Laid(m, lay)'
    BY <1>1, LoadLaid
  <1> DEFINE p == [i \in {0} |-> 0]
             tokens == HypTokens'
  <1>4. m \in Nat \ {0} /\ tokens \in Seq(Word \cup {0})
    <2>1. m \in Nat \ {0}
      BY <1>3 DEF Laid, IsLaidFst
    <2>2. tokens = HypTokens
      BY <1>2 DEF HypTokens
    <2> HIDE DEF tokens
    <2> QED
      BY <1>1, <2>1, <2>2, HypTyped
  <1> HIDE DEF tokens
  <1>5. 0 \in 0..(m - 1) /\ 0 \in 0..Len(tokens)
    BY <1>4
  <1>6. Follows(m, lay, tokens, p, p, <<>>)
    <2>1. Len(<<>>) = 0 /\ 0..0 = {0} /\ 1..0 = {} /\ <<>> \in Seq(Arc)
      OBVIOUS
    <2>2. p \in [{0} -> 0..(m - 1)] /\ p \in [{0} -> 0..Len(tokens)] /\ p[0] = 0
      BY <1>5
    <2> QED
      BY <2>1, <2>2 DEF Follows
  <1>7. <<<<0, 0>>>> \in Seq((0..(m - 1)) \X (0..Len(tokens)))
    <2> DEFINE x == <<0, 0>>
               pairs == (0..(m - 1)) \X (0..Len(tokens))
    <2>1. x \in pairs
      BY <1>5
    <2> HIDE DEF x, pairs
    <2>2. <<x>> \in Seq(pairs)
      BY <2>1
    <2> QED
      BY <2>2 DEF x, pairs
  <1>8. composed_states'[at' + 1] = <<p[0], p[0]>> /\ at' \in Nat /\ at' < Len(composed_states')
    BY <1>2
  <1>9. WalkedTo(m, lay, p, p)'
    <2>1. Len(chain') = 0
      BY <1>2
    <2> QED
      BY <1>2, <1>3, <1>6, <1>7, <1>8, <2>1 DEF WalkedTo, tokens
  <1> QED
    BY <1>1, <1>2, <1>9 DEF ChainInv

LEMMA WalkChain ==
    ASSUME ChainInv, Walk
    PROVE  ChainInv'
  <1>1. phase = "walk" /\ phase' = "walk" /\ input' = input /\ input \in Inputs
    BY DEF ChainInv, Walk
  <1>2. PICK m, lay, p, q : WalkedTo(m, lay, p, q)
    BY <1>1 DEF ChainInv
  <1> DEFINE out == C!Proposals(at)
             n == Len(chain)
             tokens == HypTokens
             pairs == (0..(m - 1)) \X (0..Len(tokens))
             ps == [j \in DOMAIN out |-> out[j].pair]
             R == Answers(m, lay, tokens, p[n], q[n])
  <1>3. /\ composed_states' = C!Created(composed_states, ps)
        /\ fstA' = fstA /\ fstB' = fstB /\ mNlpRows' = mNlpRows
        /\ \E arc \in C!ToSet(C!ArcsTo(out, composed_states')) :
              chain' = Append(chain, arc) /\ at' = arc.next
    BY CompOps DEF Walk, C!TryGetArcsAtState
  <1>4. /\ Follows(m, lay, tokens, p, q, chain) /\ Laid(m, lay) /\ tokens \in Seq(Word \cup {0})
        /\ composed_states \in Seq(pairs) /\ composed_states[at + 1] = <<p[n], q[n]>>
    BY <1>1, <1>2, HypTyped DEF WalkedTo
  <1>5. n \in Nat /\ n \in 0..n /\ p[n] \in 0..(m - 1) /\ q[n] \in 0..Len(tokens)
    BY <1>4 DEF Follows
  <1> HIDE DEF tokens
  <1>6. Meets(m, lay, tokens, p[n], q[n])
    BY <1>4, <1>5 DEF Meets, Laid, tokens
  <1>7. out \in Seq(R)
    BY <1>4, <1>6, ProposalsType
  <1> HIDE DEF out, R, n
  <1>8. DOMAIN out = 1..Len(out) /\ Len(out) \in Nat /\ \A j \in 1..Len(out) : out[j] \in R
    BY <1>7
  <1>9. \A j \in 1..Len(out) :
           /\ out[j].ilabel \in Symbol /\ out[j].olabel \in Symbol \cup {DelLabel}
           /\ out[j].weight \in Nat /\ out[j].pair \in pairs
           /\ OnReference(lay, p[n], out[j], out[j].pair[1])
           /\ OnHypothesis(tokens, q[n], out[j], out[j].pair[2])
    BY <1>8 DEF R, Answers
  <1>10. ps \in Seq(pairs) /\ Len(ps) = Len(out) /\ \A j \in 1..Len(out) : ps[j] = out[j].pair
    <2> HIDE DEF pairs
    <2> QED
      BY <1>8, <1>9
  <1> HIDE DEF ps, pairs
  <1>11. /\ composed_states' \in Seq(pairs)
         /\ Numbers(composed_states', composed_states, ps)
    BY <1>3, <1>4, <1>10, CreatedFacts
  <1>12. PICK j \in 1..Len(out) :
            LET arc == [ilabel |-> out[j].ilabel, olabel |-> out[j].olabel,
                        weight |-> out[j].weight, next |-> C!IdOf(composed_states', out[j].pair)]
            IN  chain' = Append(chain, arc) /\ at' = arc.next
    <2>1. PICK arc \in C!ToSet(C!ArcsTo(out, composed_states')) :
             chain' = Append(chain, arc) /\ at' = arc.next
      BY <1>3
    <2>2. PICK j \in 1..Len(out) :
             arc = [ilabel |-> out[j].ilabel, olabel |-> out[j].olabel,
                    weight |-> out[j].weight, next |-> C!IdOf(composed_states', out[j].pair)]
      BY <1>8, CompOps DEF ToSet, C!ArcsTo
    <2> QED
      BY <2>1, <2>2
  <1> DEFINE id == C!IdOf(composed_states', out[j].pair)
             arc == [ilabel |-> out[j].ilabel, olabel |-> out[j].olabel,
                     weight |-> out[j].weight, next |-> id]
             r == out[j].pair[1]
             t == out[j].pair[2]
  <1>13. id \in Nat /\ id < Len(composed_states') /\ composed_states'[id + 1] = out[j].pair
    BY <1>10, <1>11 DEF Numbers
  <1>14. r \in 0..(m - 1) /\ t \in 0..Len(tokens) /\ out[j].pair = <<r, t>>
    <2>1. out[j].pair \in (0..(m - 1)) \X (0..Len(tokens))
      BY <1>9 DEF pairs
    <2> DEFINE x == out[j].pair
    <2> HIDE DEF x
    <2> QED
      BY <2>1 DEF x
  <1>15. chain' = Append(chain, arc) /\ at' = id
    BY <1>12
  <1> HIDE DEF id
  <1>16. arc \in Arc /\ arc.ilabel = out[j].ilabel /\ arc.olabel = out[j].olabel
    BY <1>9, <1>13 DEF Arc
  <1> HIDE DEF arc, r, t
  <1>17. OnReference(lay, p[n], arc, r) /\ OnHypothesis(tokens, q[n], arc, t)
    BY <1>9, <1>16 DEF OnReference, OnHypothesis, r, t
  <1>18. /\ Follows(m, lay, tokens, Later(p, n, r), Later(q, n, t), Append(chain, arc))
         /\ Len(Append(chain, arc)) = n + 1
         /\ Later(p, n, r)[n + 1] = r /\ Later(q, n, t)[n + 1] = t
    BY <1>4, <1>14, <1>16, <1>17, FollowsOn DEF n
  <1>19. Laid(m, lay)' /\ tokens = HypTokens'
    BY <1>1, <1>3, <1>4 DEF Laid, HypTokens, tokens
  <1>20. \E u, v : /\ Follows(m, lay, tokens, u, v, chain') /\ Len(chain') = n + 1
                  /\ u[n + 1] = r /\ v[n + 1] = t
    BY <1>15, <1>18
  <1>21. PICK u, v : /\ Follows(m, lay, tokens, u, v, chain') /\ Len(chain') = n + 1
                     /\ u[n + 1] = r /\ v[n + 1] = t
    BY <1>20
  <1>22. WalkedTo(m, lay, u, v)'
    <2>1. composed_states'[at' + 1] = <<u[n + 1], v[n + 1]>>
      BY <1>13, <1>14, <1>15, <1>21
    <2>2. /\ Laid(m, lay)' /\ Follows(m, lay, HypTokens', u, v, chain')
          /\ composed_states' \in Seq((0..(m - 1)) \X (0..Len(HypTokens')))
          /\ at' \in Nat /\ at' < Len(composed_states')
          /\ composed_states'[at' + 1] = <<u[Len(chain')], v[Len(chain')]>>
      BY <1>11, <1>13, <1>15, <1>19, <1>21, <2>1 DEF pairs
    <2> QED
      BY <2>2 DEF WalkedTo
  <1> QED
    BY <1>1, <1>22 DEF ChainInv

LEMMA ReadBackChain ==
    ASSUME ChainInv, ReadBack
    PROVE  ChainInv'
  <1>1. /\ phase = "walk" /\ phase' = "stitch" /\ input' = input /\ chain' = chain
        /\ alignment' = T!GetDetails(chain) /\ C!Final(at)
        /\ fstA' = fstA /\ fstB' = fstB /\ mNlpRows' = mNlpRows
    BY DEF ReadBack, loadVars, compVars
  <1>2. PICK m, lay, p, q : WalkedTo(m, lay, p, q)
    BY <1>1 DEF ChainInv
  <1>3. Laid(m, lay) /\ Follows(m, lay, HypTokens, p, q, chain)
    BY <1>2 DEF WalkedTo
  <1>4. lay.open[p[Len(chain)]] = 0 /\ q[Len(chain)] = Len(HypTokens)
    <2>1. /\ composed_states[at + 1] = <<p[Len(chain)], q[Len(chain)]>>
      BY <1>2 DEF WalkedTo
    <2>2. p[Len(chain)] \in fstA.final /\ q[Len(chain)] \in fstB.final
      BY <1>1, <2>1 DEF C!Final
    <2> QED
      BY <1>3, <2>2 DEF Laid, IsLaidFst, IsLine
  <1>5. Told(m, lay, p, q)'
    BY <1>1, <1>3, <1>4 DEF Told, Laid, HypTokens
  <1> QED
    BY <1>1, <1>5 DEF ChainInv

\* Behind the read-back neither the graphs nor the chain change.
LEMMA KeepsChain ==
    ASSUME ChainInv, phase' = phase \/ {phase, phase'} \cap {"load", "walk"} = {},
           UNCHANGED <<input, loadVars, compVars, alignment>>
    PROVE  ChainInv'
  <1>1. /\ input' = input /\ chain' = chain /\ at' = at /\ alignment' = alignment
        /\ composed_states' = composed_states
        /\ fstA' = fstA /\ fstB' = fstB /\ mNlpRows' = mNlpRows
    BY DEF loadVars, compVars
  <1>2. HypTokens' = HypTokens
    BY <1>1 DEF HypTokens
  <1>3. ASSUME NEW m, NEW lay, NEW p, NEW q, WalkedTo(m, lay, p, q)
        PROVE  WalkedTo(m, lay, p, q)'
    BY <1>1, <1>2, <1>3 DEF WalkedTo, Laid
  <1>4. ASSUME NEW m, NEW lay, NEW p, NEW q, Told(m, lay, p, q)
        PROVE  Told(m, lay, p, q)'
    BY <1>1, <1>2, <1>4 DEF Told, Laid
  <1> QED
    BY <1>1, <1>3, <1>4 DEF ChainInv

\* Every chain follows a path of the reference graph, which enters and leaves its
\* classes in turn, and a path of the hypothesis; the one that is read back goes to
\* the end of both.
THEOREM ChainTold == Spec => []ChainInv
  <1>1. Init => ChainInv
    BY DEF Init, ChainInv
  <1>2. ChainInv /\ [Next]_vars => ChainInv'
    <2> SUFFICES ASSUME ChainInv, [Next]_vars PROVE ChainInv'
      OBVIOUS
    <2>1. CASE UNCHANGED vars
      BY <2>1, KeepsChain DEF vars
    <2>2. CASE Load
      BY <2>2, LoadChain
    <2>3. CASE Walk
      BY <2>3, WalkChain
    <2>4. CASE ReadBack
      BY <2>4, ReadBackChain
    <2>5. CASE MakeStitches
      <3>1. phase = "stitch" /\ phase' \in {"stitch", "rows"}
        BY <2>5 DEF MakeStitches
      <3> QED
        BY <2>5, <3>1, KeepsChain DEF MakeStitches
    <2>6. CASE AlignStitchesToNlp
      <3>1. phase = "rows" /\ phase' \in {"rows", "done"}
        BY <2>6 DEF AlignStitchesToNlp
      <3> QED
        BY <2>6, <3>1, KeepsChain DEF AlignStitchesToNlp
    <2>7. CASE Done
      BY <2>1, <2>7 DEF Done
    <2> QED
      BY <2>1, <2>2, <2>3, <2>4, <2>5, <2>6, <2>7 DEF Next, Step
  <1> QED
    BY <1>1, <1>2, PTL DEF Spec
=============================================================================
