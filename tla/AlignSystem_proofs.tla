------------------------- MODULE AlignSystem_proofs -------------------------
(***************************************************************************)
(* Proofs about the alignment of two texts.  Every arc of the graphs it is *)
(* made from leads to a state of its graph, and the graph of a text        *)
(* without classes and synonyms is the path of its words.  Wherever the    *)
(* walk stands in the composed graph, its chains have read what is in      *)
(* front of it, and what they report reads the whole hypothesis.           *)
(***************************************************************************)
EXTENDS AlignSystem, Selections_proofs, FiniteSetTheorems

\* The operators on sequences that the graphs are built with.
LEMMA GraphOps ==
    /\ \A ss : G!FlattenSeq(ss) = FlattenSeq(ss)
    /\ \A seq, keep : G!Those(seq, keep) = Those(seq, keep)
    /\ \A S : G!Max(S) = Max(S)
    /\ \A b, s : G!When(b, s) = When(b, s)
    /\ \A S : G!Cardinality(S) = Cardinality(S)
    /\ \A numbers, k : G!SumTo(numbers, k) = SumTo(numbers, k)
  BY DEF G!Cardinality, Cardinality, G!FlattenSeq, FlattenSeq, G!Those, Those, G!Max, Max, G!When, When,
         G!SumTo, SumTo, G!FoldLeft, FoldLeft, G!MapThenFoldSet, MapThenFoldSet

-----------------------------------------------------------------------------
\* Sums, as the graphs take them

LEMMA GraphSums ==
    ASSUME NEW numbers \in Seq(Nat)
    PROVE  /\ \A k \in 0..Len(numbers) : G!SumTo(numbers, k) \in Nat
           /\ G!SumTo(numbers, 0) = 0
           /\ \A k \in 1..Len(numbers) :
                G!SumTo(numbers, k) = G!SumTo(numbers, k - 1) + numbers[k]
           /\ \A k \in 1..Len(numbers) :
                G!SumTo(numbers, k - 1) + numbers[k] <= G!SumTo(numbers, Len(numbers))
  BY SumFacts, GraphOps

LEMMA GraphLength ==
    ASSUME NEW S, NEW ss \in Seq(Seq(S))
    PROVE  Len(FlattenSeq(ss)) = G!SumTo([k \in 1..Len(ss) |-> Len(ss[k])], Len(ss))
  BY FlattenLength, GraphOps

-----------------------------------------------------------------------------
\* The synonyms

Rule == [lhs : Seq(Word), alternatives : Seq(Seq(Word))]

LEMMA RuleOps ==
    /\ \A ss : E!FlattenSeq(ss) = FlattenSeq(ss)
    /\ \A seq, keep : E!Those(seq, keep) = Those(seq, keep)
    /\ \A S : E!Max(S) = Max(S)
  BY DEF E!FlattenSeq, FlattenSeq, E!Those, Those, E!Max, Max

\* An entry that is placed among others.
LEMMA AddType ==
    ASSUME NEW syn \in Seq(Rule), NEW lhs \in Seq(Word), NEW alternatives \in Seq(Seq(Word))
    PROVE  E!AddIfNew(syn, lhs, alternatives) \in Seq(Rule)
  <1> DEFINE e == [lhs |-> lhs, alternatives |-> alternatives]
             before == {k \in DOMAIN syn : E!Before(syn[k].lhs, e.lhs)}
  <1>1. e \in Rule
    BY DEF Rule
  <1>2. E!Placed(e, syn) \in Seq(Rule)
    <2>1. E!Placed(e, syn) = Those(syn, before) \o <<e>> \o Those(syn, DOMAIN syn \ before)
      BY RuleOps DEF E!Placed
    <2> DEFINE s == Those(syn, before)
               t == Those(syn, DOMAIN syn \ before)
    <2> HIDE DEF before, e
    <2>2. s \in Seq(Rule) /\ t \in Seq(Rule)
      BY ThoseFacts
    <2> HIDE DEF s, t
    <2>3. s \o <<e>> \o t \in Seq(Rule)
      BY <1>1, <2>2
    <2> QED
      BY <2>1, <2>3 DEF s, t
  <1> QED
    BY <1>2 DEF E!AddIfNew

LEMMA OfWordType ==
    ASSUME NEW syn \in Seq(Rule), NEW word \in Word, NEW opts
    PROVE  E!OfWord(syn, word, opts) \in Seq(Rule)
  <1>1. ASSUME word \in DOMAIN StemOf
        PROVE  E!AddIfNew(syn, <<word>>, <<<<StemOf[word]>>>>) \in Seq(Rule)
    <2>1. <<word>> \in Seq(Word) /\ <<<<StemOf[word]>>>> \in Seq(Seq(Word))
      BY <1>1, SynonymAssumption
    <2> QED
      BY <2>1, AddType
  <1>2. ASSUME word \in DOMAIN PartsOf
        PROVE  E!Compound(syn, word) \in Seq(Rule)
    <2>1. /\ <<word>> \in Seq(Word) /\ PartsOf[word] \in Seq(Word)
          /\ <<PartsOf[word]>> \in Seq(Seq(Word)) /\ <<<<word>>>> \in Seq(Seq(Word))
      BY <1>2, SynonymAssumption
    <2>2. E!AddIfNew(syn, <<word>>, <<PartsOf[word]>>) \in Seq(Rule)
      BY <2>1, AddType
    <2> QED
      BY <2>1, <2>2, AddType DEF E!Compound
  <1> QED
    BY <1>1, <1>2 DEF E!OfWord

\* The rules of a file, and those that the words of the symbol table add.
LEMMA ParsedType ==
    ASSUME NEW lines \in Seq(Rule)
    PROVE  E!ParseStrings(lines) \in Seq(Rule)
  <1> DEFINE k == Len(lines)
             V == Seq(Rule)
             g == [i \in 1..k |-> [v \in V |->
                     E!AddIfNew(v, lines[i].lhs, lines[i].alternatives)]]
             Eq(h) == h = [s \in SUBSET (DOMAIN lines) |->
                             IF s = {} THEN <<>>
                             ELSE E!AddIfNew(h[s \ {E!Max(s)}], lines[E!Max(s)].lhs,
                                             lines[E!Max(s)].alternatives)]
             it == CHOOSE h : Eq(h)
             c == <<>>
  <1>0. k \in Nat /\ DOMAIN lines = 1..k /\ \A s : E!Max(s) = Max(s)
    BY RuleOps
  <1>1. AreSteps(g, k, V) /\ c \in V
    <2>1. \A i \in 1..k : lines[i].lhs \in Seq(Word) /\ lines[i].alternatives \in Seq(Seq(Word))
      <3>1. \A i \in 1..k : lines[i] \in Rule
        OBVIOUS
      <3> HIDE DEF k
      <3> QED
        BY <3>1 DEF Rule
    <2>2. \A i \in 1..k, v \in V : E!AddIfNew(v, lines[i].lhs, lines[i].alternatives) \in V
      <3> HIDE DEF k
      <3> QED
        BY <2>1, AddType
    <2> HIDE DEF k, V
    <2>3. AreSteps(g, k, V)
      BY <2>2 DEF AreSteps
    <2> QED
      BY <2>3 DEF V
  <1>2. \E h : Eq(h)
    <2>1. PICK h \in [SUBSET (1..k) -> V] : IsFold(h, g, k, c)
      <3> HIDE DEF g, k, V, c
      <3> QED
        BY <1>0, <1>1, FoldExists
    <2>2. \A s \in SUBSET (1..k) : s # {} =>
             g[Max(s)][h[s \ {Max(s)}]]
             = E!AddIfNew(h[s \ {Max(s)}], lines[Max(s)].lhs, lines[Max(s)].alternatives)
      <3> SUFFICES ASSUME NEW s \in SUBSET (1..k), s # {}
                   PROVE  g[Max(s)][h[s \ {Max(s)}]]
                          = E!AddIfNew(h[s \ {Max(s)}], lines[Max(s)].lhs,
                                       lines[Max(s)].alternatives)
        OBVIOUS
      <3> HIDE DEF k, V
      <3>1. Max(s) \in 1..k
        BY <1>0, LastPosition
      <3>2. h[s \ {Max(s)}] \in V
        BY <2>1
      <3> QED
        BY <3>1, <3>2
    <2>3. Eq(h)
      <3> HIDE DEF g, k, V
      <3> QED
        BY <1>0, <2>1, <2>2 DEF IsFold
    <2> HIDE DEF Eq
    <2> QED
      BY <2>3
  <1>3. Eq(it)
    <2> HIDE DEF Eq
    <2> QED
      BY <1>2
  <1>4. E!ParseStrings(lines) = it[1..k]
    <2>1. E!ParseStrings(lines) = it[DOMAIN lines]
      BY DEF E!ParseStrings, E!FoldLeft, E!MapThenFoldSet, E!NoSynonyms
    <2> HIDE DEF it, k
    <2> QED
      BY <1>0, <2>1
  <1> HIDE DEF it
  <1>5. it[{}] = c
    <2> HIDE DEF k
    <2> QED
      BY <1>0, <1>3
  <1>6. \A i \in 1..k : it[1..(i - 1)] \in V => it[1..i] = g[i][it[1..(i - 1)]]
    <2> SUFFICES ASSUME NEW i \in 1..k, it[1..(i - 1)] \in V
                 PROVE  it[1..i] = g[i][it[1..(i - 1)]]
      OBVIOUS
    <2>1. Max(1..i) = i /\ (1..i) \ {i} = 1..(i - 1)
      <3>1. i \in Nat \ {0}
        OBVIOUS
      <3> QED
        BY <3>1, MaxOfPrefix
    <2>2. (1..i) \in SUBSET (1..k) /\ 1..i # {}
      <3>1. i \in 1..i /\ \A y \in 1..i : y \in 1..k
        BY <1>0
      <3> QED
        BY <3>1
    <2> DEFINE s == 1..i
    <2>3. it[s] = E!AddIfNew(it[s \ {Max(s)}], lines[Max(s)].lhs, lines[Max(s)].alternatives)
      <3> HIDE DEF s, k
      <3> QED
        BY <1>0, <1>3, <2>2 DEF s
    <2>4. g[i][it[1..(i - 1)]]
          = E!AddIfNew(it[1..(i - 1)], lines[i].lhs, lines[i].alternatives)
      <3> HIDE DEF k, V
      <3> QED
        OBVIOUS
    <2> HIDE DEF g, k, V
    <2> QED
      BY <2>1, <2>3, <2>4
  <1> HIDE DEF g, k, V, c, Eq
  <1>7. PICK f : IsRun(f, g, k, V, c) /\ it[1..k] = f[k]
    BY <1>0, <1>1, <1>5, <1>6, FoldRuns
  <1>8. f[k] \in V
    BY <1>0, <1>7 DEF IsRun
  <1> QED
    BY <1>4, <1>7, <1>8 DEF V

LEMMA GeneratedType ==
    ASSUME NEW syn \in Seq(Rule), NEW words \in Seq(Word), NEW opts
    PROVE  E!GenerateSynFromSymbolTable(syn, words, opts) \in Seq(Rule)
  <1> DEFINE k == Len(words)
             V == Seq(Rule)
             g == [i \in 1..k |-> [v \in V |-> E!OfWord(v, words[i], opts)]]
             Eq(h) == h = [s \in SUBSET (DOMAIN words) |->
                             IF s = {} THEN syn
                             ELSE E!OfWord(h[s \ {E!Max(s)}], words[E!Max(s)], opts)]
             it == CHOOSE h : Eq(h)
             c == syn
  <1>0. k \in Nat /\ DOMAIN words = 1..k /\ \A s : E!Max(s) = Max(s)
    BY RuleOps
  <1>1. AreSteps(g, k, V) /\ c \in V
    <2>1. \A i \in 1..k : words[i] \in Word
      OBVIOUS
    <2>2. \A i \in 1..k, v \in V : E!OfWord(v, words[i], opts) \in V
      <3> HIDE DEF k
      <3> QED
        BY <2>1, OfWordType
    <2> HIDE DEF k, V
    <2>3. AreSteps(g, k, V)
      BY <2>2 DEF AreSteps
    <2> QED
      BY <2>3 DEF V
  <1>2. \E h : Eq(h)
    <2>1. PICK h \in [SUBSET (1..k) -> V] : IsFold(h, g, k, c)
      <3> HIDE DEF g, k, V, c
      <3> QED
        BY <1>0, <1>1, FoldExists
    <2>2. \A s \in SUBSET (1..k) : s # {} =>
             g[Max(s)][h[s \ {Max(s)}]] = E!OfWord(h[s \ {Max(s)}], words[Max(s)], opts)
      <3> SUFFICES ASSUME NEW s \in SUBSET (1..k), s # {}
                   PROVE  g[Max(s)][h[s \ {Max(s)}]]
                          = E!OfWord(h[s \ {Max(s)}], words[Max(s)], opts)
        OBVIOUS
      <3> HIDE DEF k, V
      <3>1. Max(s) \in 1..k
        BY <1>0, LastPosition
      <3>2. h[s \ {Max(s)}] \in V
        BY <2>1
      <3> QED
        BY <3>1, <3>2
    <2>3. Eq(h)
      <3> HIDE DEF g, k, V
      <3> QED
        BY <1>0, <2>1, <2>2 DEF IsFold
    <2> HIDE DEF Eq
    <2> QED
      BY <2>3
  <1>3. Eq(it)
    <2> HIDE DEF Eq
    <2> QED
      BY <1>2
  <1>4. E!GenerateSynFromSymbolTable(syn, words, opts) = it[1..k]
    <2>1. E!GenerateSynFromSymbolTable(syn, words, opts) = it[DOMAIN words]
      BY DEF E!GenerateSynFromSymbolTable, E!FoldLeft, E!MapThenFoldSet
    <2> HIDE DEF it, k
    <2> QED
      BY <1>0, <2>1
  <1> HIDE DEF it
  <1>5. it[{}] = c
    <2> HIDE DEF k
    <2> QED
      BY <1>0, <1>3
  <1>6. \A i \in 1..k : it[1..(i - 1)] \in V => it[1..i] = g[i][it[1..(i - 1)]]
    <2> SUFFICES ASSUME NEW i \in 1..k, it[1..(i - 1)] \in V
                 PROVE  it[1..i] = g[i][it[1..(i - 1)]]
      OBVIOUS
    <2>1. Max(1..i) = i /\ (1..i) \ {i} = 1..(i - 1)
      <3>1. i \in Nat \ {0}
        OBVIOUS
      <3> QED
        BY <3>1, MaxOfPrefix
    <2>2. (1..i) \in SUBSET (1..k) /\ 1..i # {}
      <3>1. i \in 1..i /\ \A y \in 1..i : y \in 1..k
        BY <1>0
      <3> QED
        BY <3>1
    <2> DEFINE s == 1..i
    <2>3. it[s] = E!OfWord(it[s \ {Max(s)}], words[Max(s)], opts)
      <3> HIDE DEF s, k
      <3> QED
        BY <1>0, <1>3, <2>2 DEF s
    <2>4. g[i][it[1..(i - 1)]] = E!OfWord(it[1..(i - 1)], words[i], opts)
      <3> HIDE DEF k, V
      <3> QED
        OBVIOUS
    <2> HIDE DEF g, k, V
    <2> QED
      BY <2>1, <2>3, <2>4
  <1> HIDE DEF g, k, V, c, Eq
  <1>7. PICK f : IsRun(f, g, k, V, c) /\ it[1..k] = f[k]
    BY <1>0, <1>1, <1>5, <1>6, FoldRuns
  <1>8. f[k] \in V
    BY <1>0, <1>7 DEF IsRun
  <1> QED
    BY <1>4, <1>7, <1>8 DEF V

\* A rule with one of its alternatives, as the replacements use it.
OneRule == [lhs : Seq(Word), rhs : Seq(Word)]

LEMMA OrderedType ==
    ASSUME NEW syn \in Seq(Rule)
    PROVE  E!InOrder(syn) \in Seq(OneRule)
  <1> DEFINE of(k) == [m \in DOMAIN syn[k].alternatives |->
                         [lhs |-> syn[k].lhs, rhs |-> syn[k].alternatives[m]]]
             ss == [k \in DOMAIN syn |-> of(k)]
  <1>1. ASSUME NEW k \in DOMAIN syn PROVE of(k) \in Seq(OneRule)
    <2>1. syn[k] \in Rule
      OBVIOUS
    <2>2. syn[k].lhs \in Seq(Word) /\ syn[k].alternatives \in Seq(Seq(Word))
      BY <2>1 DEF Rule
    <2> DEFINE a == syn[k].alternatives
    <2>3. DOMAIN a = 1..Len(a) /\ Len(a) \in Nat /\ \A m \in 1..Len(a) : a[m] \in Seq(Word)
      BY <2>2
    <2> HIDE DEF a
    <2> DEFINE t == [m \in 1..Len(a) |-> [lhs |-> syn[k].lhs, rhs |-> a[m]]]
    <2>4. t \in [1..Len(a) -> OneRule]
      BY <2>2, <2>3 DEF OneRule
    <2>5. t \in Seq(OneRule)
      <3> HIDE DEF t
      <3> QED
        BY <2>3, <2>4
    <2> QED
      BY <2>3, <2>5 DEF a
  <1> DEFINE k == Len(syn)
  <1>2. k \in Nat /\ DOMAIN syn = 1..k
    OBVIOUS
  <1> HIDE DEF of, k
  <1>3. ss \in Seq(Seq(OneRule))
    <2>1. ss \in [1..k -> Seq(OneRule)]
      BY <1>1, <1>2
    <2> HIDE DEF ss
    <2> QED
      BY <1>2, <2>1
  <1>4. FlattenSeq(ss) \in Seq(OneRule)
    <2> HIDE DEF ss
    <2> QED
      BY <1>3, FlattenFacts
  <1> QED
    BY <1>4, RuleOps DEF E!InOrder, of

\* What the engine is given: the rules that the words of the texts select.
LEMMA SynonymsType ==
    ASSUME ref \in Seq(Word), hyp \in Seq(Word), rules \in Seq(Rule)
    PROVE  E!InOrder(Synonyms) \in Seq(OneRule)
  <1> DEFINE of(i) == IF ref[i] \in EntityLabel THEN FlattenSeq(Candidates[ref[i]])
                      ELSE <<ref[i]>>
             k == Len(ref)
             ss == [i \in DOMAIN ref |-> of(i)]
  <1>1. k \in Nat /\ DOMAIN ref = 1..k /\ \A i \in 1..k : ref[i] \in Word
    OBVIOUS
  <1>2. ASSUME NEW i \in 1..k PROVE of(i) \in Seq(Word)
    <2>1. CASE ref[i] \in EntityLabel
      <3>1. Candidates[ref[i]] \in Seq(Seq(Word))
        BY <2>1, SynonymAssumption
      <3> QED
        BY <2>1, <3>1, FlattenFacts
    <2> QED
      BY <1>1, <2>1
  <1> HIDE DEF of, k
  <1>3. FlattenSeq(ss) \in Seq(Word)
    <2>1. ss \in [1..k -> Seq(Word)]
      BY <1>1, <1>2
    <2> HIDE DEF ss
    <2> QED
      BY <1>1, <2>1, FlattenType
  <1>4. Symbols \in Seq(Word)
    <2>1. Symbols = FlattenSeq(ss) \o hyp
      BY DEF Symbols, of
    <2> HIDE DEF ss
    <2> QED
      BY <1>3, <2>1
  <1>5. Synonyms \in Seq(Rule)
    BY <1>4, ParsedType, GeneratedType DEF Synonyms
  <1> QED
    BY <1>5, OrderedType

-----------------------------------------------------------------------------
\* Graphs under construction and finished graphs

\* What labels an arc: a word, <eps>, a class or a replacement.
SomeLabel == Word \cup {0} \cup EntityLabel \cup {G!LabelOf(k) : k \in Nat}

\* Edges and arcs of a graph of m states.
EdgeTo(m) == [from : Nat, label : SomeLabel, weight : {0, 1}, next : 0..(m - 1)]
ArcTo(m) == [label : SomeLabel, weight : {0, 1}, next : 0..(m - 1)]

IsGraph(g) ==
    /\ g.n \in Nat \ {0} /\ g.last \in 0..(g.n - 1) /\ g.edges \in Seq(EdgeTo(g.n))
    /\ g = [edges |-> g.edges, n |-> g.n, last |-> g.last]

\* The finished graph f has m states.
IsFst(f, m) ==
    /\ m \in Nat \ {0} /\ f.arcs \in [0..(m - 1) -> Seq(ArcTo(m))]
    /\ f.final \subseteq 0..(m - 1)

LEMMA EdgeType ==
    ASSUME NEW m \in Nat, NEW p \in Nat, NEW l \in SomeLabel, NEW cost \in {0, 1},
           NEW q \in Nat, q < m
    PROVE  G!Edge(p, l, cost, q) \in EdgeTo(m)
  BY DEF G!Edge, EdgeTo

\* The path of some words.
LEMMA SpellType ==
    ASSUME NEW m \in Nat, NEW p \in Nat, NEW words \in Seq(Word), NEW s \in Nat,
           s + Len(words) <= m
    PROVE  /\ G!Spell(p, words, s) \in Seq(EdgeTo(m))
           /\ G!EndOf(p, words, s) \in Nat
           /\ p < m => G!EndOf(p, words, s) < m
  <1> DEFINE k == Len(words)
  <1>1. k \in Nat /\ DOMAIN words = 1..k /\ \A i \in 1..k : words[i] \in SomeLabel
    BY DEF SomeLabel
  <1>2. ASSUME NEW i \in 1..k
        PROVE  G!Edge(IF i = 1 THEN p ELSE s + i - 2, words[i], 0, s + i - 1) \in EdgeTo(m)
    <2>1. /\ (IF i = 1 THEN p ELSE s + i - 2) \in Nat
          /\ s + i - 1 \in Nat /\ s + i - 1 < m /\ words[i] \in SomeLabel
      BY <1>1
    <2> HIDE DEF k
    <2> QED
      BY <2>1, EdgeType
  <1>3. G!Spell(p, words, s)
        = [i \in 1..k |->
             G!Edge(IF i = 1 THEN p ELSE s + i - 2, words[i], 0, s + i - 1)]
    BY <1>1 DEF G!Spell
  <1>4. G!Spell(p, words, s) \in Seq(EdgeTo(m))
    <2> HIDE DEF k
    <2> QED
      BY <1>1, <1>2, <1>3
  <1>5. words # <<>> => k > 0
    OBVIOUS
  <1> QED
    BY <1>1, <1>4, <1>5 DEF G!EndOf

LEMMA RoomBehind ==
    ASSUME NEW m \in Nat, NEW s \in Nat, NEW z \in Nat, NEW u \in Nat, NEW t \in Nat,
           s + 3 + z <= m, u + t <= z
    PROVE  /\ s + 3 + u \in Nat /\ (s + 3 + u) + t <= m
           /\ s < m /\ s + 1 < m /\ s + 1 \in Nat
  OBVIOUS

\* A class with its alternatives.
LEMMA ClassType ==
    ASSUME NEW m \in Nat, NEW p \in Nat, NEW l \in SomeLabel, NEW cost \in {0, 1}, NEW s \in Nat,
           NEW alternatives \in Seq(Seq(Word)), s + 3 + Len(FlattenSeq(alternatives)) <= m
    PROVE  G!ClassEdges(p, l, cost, s, alternatives) \in Seq(EdgeTo(m))
  <1> DEFINE c == Len(alternatives)
             lengths == [k \in 1..c |-> Len(alternatives[k])]
             fresh(k) == s + 3 + G!SumTo(lengths, k - 1)
             of(k) == Append(G!Spell(s, alternatives[k], fresh(k)),
                             G!Edge(G!EndOf(s, alternatives[k], fresh(k)), 0, 0, s + 1))
             ss == [k \in 1..c |-> of(k)]
             first == G!Edge(p, l, cost, s)
             leave == G!Edge(s + 1, l, 0, s + 2)
  <1>1. /\ c \in Nat /\ DOMAIN alternatives = 1..c /\ lengths \in Seq(Nat) /\ Len(lengths) = c
        /\ \A k \in 1..c : alternatives[k] \in Seq(Word) /\ lengths[k] = Len(alternatives[k])
    OBVIOUS
  <1>2. Len(FlattenSeq(alternatives)) = G!SumTo(lengths, c)
    BY GraphLength
  <1>3. 0 \in SomeLabel
    BY DEF SomeLabel
  <1>0. Len(FlattenSeq(alternatives)) \in Nat
    <2>1. FlattenSeq(alternatives) \in Seq(Word)
      BY FlattenFacts
    <2> QED
      BY <2>1
  <1>4. ASSUME NEW k \in 1..c PROVE of(k) \in Seq(EdgeTo(m))
    <2>1. /\ G!SumTo(lengths, k - 1) \in Nat
          /\ G!SumTo(lengths, k - 1) + Len(alternatives[k]) <= G!SumTo(lengths, c)
      <3>1. k - 1 \in 0..c
        BY <1>1
      <3> HIDE DEF c, lengths
      <3> QED
        BY <1>1, <3>1, GraphSums
    <2>2. /\ fresh(k) \in Nat /\ fresh(k) + Len(alternatives[k]) <= m
          /\ alternatives[k] \in Seq(Word) /\ s < m /\ s + 1 < m /\ s + 1 \in Nat
      <3> DEFINE u == G!SumTo(lengths, k - 1)
                 t == Len(alternatives[k])
                 z == Len(FlattenSeq(alternatives))
      <3>1. u \in Nat /\ u + t <= z /\ z \in Nat /\ s + 3 + z <= m
        BY <1>0, <1>2, <2>1
      <3>2. t \in Nat
        BY <1>1
      <3>4. alternatives[k] \in Seq(Word)
        BY <1>1
      <3> HIDE DEF u, t, z, c
      <3>3. s + 3 + u \in Nat /\ (s + 3 + u) + t <= m /\ s < m /\ s + 1 < m /\ s + 1 \in Nat
        BY <3>1, <3>2, RoomBehind
      <3> QED
        BY <3>3, <3>4 DEF u, t
    <2> DEFINE f == fresh(k)
               a == alternatives[k]
    <2>3. f \in Nat /\ a \in Seq(Word) /\ f + Len(a) <= m
      BY <2>2
    <2> HIDE DEF f, a, fresh
    <2>4. G!Spell(s, a, f) \in Seq(EdgeTo(m)) /\ G!EndOf(s, a, f) \in Nat
      BY <2>3, SpellType
    <2>5. G!Edge(G!EndOf(s, a, f), 0, 0, s + 1) \in EdgeTo(m)
      BY <1>3, <2>2, <2>4, EdgeType
    <2> QED
      BY <2>4, <2>5 DEF f, a
  <1>5. ss \in [1..c -> Seq(EdgeTo(m))]
    <2> HIDE DEF of, c
    <2> QED
      BY <1>4
  <1>6. first \in EdgeTo(m) /\ leave \in EdgeTo(m)
    <2>1. s < m /\ s + 1 \in Nat /\ s + 2 \in Nat /\ s + 2 < m
      BY <1>0
    <2> QED
      BY <2>1, EdgeType
  <1>7. G!ClassEdges(p, l, cost, s, alternatives) = <<first, leave>> \o FlattenSeq(ss)
    <2>1. DOMAIN alternatives = 1..c
      BY <1>1
    <2> QED
      BY <2>1, GraphOps DEF G!ClassEdges, G!Eps
  <1> HIDE DEF ss, first, leave, c
  <1>8. FlattenSeq(ss) \in Seq(EdgeTo(m))
    BY <1>1, <1>5, FlattenType
  <1> QED
    BY <1>6, <1>7, <1>8

\* The weight of a token is that of its mark.
LEMMA WeightType == ASSUME NEW map, NEW i PROVE G!Weight(map, i) \in {0, 1}
  BY DEF G!Weight

\* The graph of a text with its classes.
LEMMA ConvertType ==
    ASSUME NEW tokens \in Seq(Word \cup {0}), NEW map
    PROVE  IsGraph(G!ConvertToFst(tokens, map, Candidates))
  <1> DEFINE k == Len(tokens)
             isClass(i) == tokens[i] \in EntityLabel
             size(i) == IF isClass(i) THEN 3 + Len(FlattenSeq(Candidates[tokens[i]])) ELSE 1
             sizes == [i \in 1..k |-> size(i)]
             fresh(i) == 1 + G!SumTo(sizes, i - 1)
             end(i) == IF i = 0 THEN 0 ELSE fresh(i) + (IF isClass(i) THEN 2 ELSE 0)
             of(i) == IF isClass(i)
                      THEN G!ClassEdges(end(i - 1), tokens[i], G!Weight(map, i), fresh(i),
                                        Candidates[tokens[i]])
                      ELSE <<G!Edge(end(i - 1), tokens[i], G!Weight(map, i), fresh(i))>>
             ss == [i \in 1..k |-> of(i)]
             m == 1 + G!SumTo(sizes, k)
             g == G!ConvertToFst(tokens, map, Candidates)
  <1>1. k \in Nat /\ DOMAIN tokens = 1..k /\ \A i \in 1..k : tokens[i] \in Word \cup {0}
    OBVIOUS
  <1>2. ASSUME NEW i \in 1..k, isClass(i)
        PROVE  /\ Candidates[tokens[i]] \in Seq(Seq(Word))
               /\ Len(FlattenSeq(Candidates[tokens[i]])) \in Nat
    <2>1. Candidates[tokens[i]] \in Seq(Seq(Word))
      BY <1>2, SynonymAssumption
    <2>2. FlattenSeq(Candidates[tokens[i]]) \in Seq(Word)
      BY <2>1, FlattenFacts
    <2> QED
      BY <2>1, <2>2
  <1>3. \A i \in 1..k : size(i) \in Nat \ {0} /\ (isClass(i) => size(i) >= 3)
    BY <1>2
  <1>4. sizes \in Seq(Nat) /\ Len(sizes) = k /\ \A i \in 1..k : sizes[i] = size(i)
    <2> HIDE DEF size, k
    <2> QED
      BY <1>1, <1>3
  <1>5. g = [edges |-> FlattenSeq(ss), n |-> m, last |-> end(k)]
    <2>1. DOMAIN tokens = 1..k
      BY <1>1
    <2>2. Len(sizes) = k
      BY <1>4
    <2> QED
      BY <2>1, <2>2, GraphOps DEF G!ConvertToFst
  <1> HIDE DEF size, sizes, k
  <1>6. G!SumTo(sizes, k) \in Nat
    BY <1>1, <1>4, GraphSums
  <1>7. ASSUME NEW i \in 1..k
        PROVE  /\ fresh(i) \in Nat /\ fresh(i) + size(i) <= m
               /\ end(i) \in Nat /\ end(i) < m
    <2>1. /\ G!SumTo(sizes, i - 1) \in Nat
          /\ G!SumTo(sizes, i - 1) + sizes[i] <= G!SumTo(sizes, k)
      <3>1. i - 1 \in 0..k
        BY <1>1
      <3> QED
        BY <1>1, <1>4, <3>1, GraphSums
    <2> DEFINE u == G!SumTo(sizes, i - 1)
               v == G!SumTo(sizes, k)
               t == size(i)
    <2>2. u \in Nat /\ v \in Nat /\ t \in Nat \ {0} /\ u + t <= v /\ (isClass(i) => t >= 3) /\ i # 0
      BY <1>1, <1>3, <1>4, <1>6, <2>1
    <2> HIDE DEF u, v, t, isClass
    <2>3. /\ 1 + u \in Nat /\ (1 + u) + t <= 1 + v
          /\ (1 + u) + (IF isClass(i) THEN 2 ELSE 0) \in Nat
          /\ (1 + u) + (IF isClass(i) THEN 2 ELSE 0) < 1 + v
      BY <2>2
    <2> QED
      BY <2>2, <2>3 DEF u, v, t
  <1>8. \A i \in 1..k : end(i - 1) \in Nat
    <2> SUFFICES ASSUME NEW i \in 1..k PROVE end(i - 1) \in Nat
      OBVIOUS
    <2>1. i - 1 = 0 \/ i - 1 \in 1..k
      BY <1>1
    <2>2. CASE i - 1 = 0
      BY <2>2
    <2>3. CASE i - 1 \in 1..k
      <3> HIDE DEF end, fresh, m
      <3> QED
        BY <1>7, <2>3
    <2> QED
      BY <2>1, <2>2, <2>3
  <1>9. m \in Nat \ {0} /\ end(k) \in 0..(m - 1)
    <2>1. m \in Nat \ {0}
      BY <1>6
    <2>2. k = 0 \/ k \in 1..k
      BY <1>1
    <2>3. CASE k = 0
      BY <2>1, <2>3
    <2>4. CASE k \in 1..k
      <3>1. end(k) \in Nat /\ end(k) < m
        <4> HIDE DEF end, fresh, m
        <4> QED
          BY <1>7, <2>4
      <3> HIDE DEF end, m
      <3> QED
        BY <2>1, <3>1
    <2> QED
      BY <2>2, <2>3, <2>4
  <1>10. ASSUME NEW i \in 1..k PROVE of(i) \in Seq(EdgeTo(m))
    <2>1. tokens[i] \in SomeLabel /\ G!Weight(map, i) \in {0, 1}
      BY <1>1, WeightType DEF SomeLabel
    <2>2. /\ fresh(i) \in Nat /\ fresh(i) + size(i) <= m /\ end(i - 1) \in Nat
          /\ size(i) \in Nat \ {0}
      <3> HIDE DEF end, fresh, m
      <3> QED
        BY <1>3, <1>7, <1>8
    <2>3. CASE isClass(i)
      <3>1. fresh(i) + 3 + Len(FlattenSeq(Candidates[tokens[i]])) <= m
        <4>1. size(i) = 3 + Len(FlattenSeq(Candidates[tokens[i]]))
          BY <2>3 DEF size
        <4> HIDE DEF fresh, m
        <4> QED
          BY <1>2, <1>9, <2>2, <2>3, <4>1
      <3> HIDE DEF end, fresh, m
      <3>2. G!ClassEdges(end(i - 1), tokens[i], G!Weight(map, i), fresh(i),
                         Candidates[tokens[i]]) \in Seq(EdgeTo(m))
        BY <1>2, <1>9, <2>1, <2>2, <2>3, <3>1, ClassType
      <3> QED
        BY <2>3, <3>2
    <2>4. CASE ~isClass(i)
      <3> HIDE DEF end, fresh, m
      <3>1. fresh(i) < m
        BY <1>9, <2>2
      <3>2. G!Edge(end(i - 1), tokens[i], G!Weight(map, i), fresh(i)) \in EdgeTo(m)
        BY <1>9, <2>1, <2>2, <3>1, EdgeType
      <3> QED
        BY <2>4, <3>2
    <2> QED
      BY <2>3, <2>4
  <1> HIDE DEF of, m, end, g
  <1>11. FlattenSeq(ss) \in Seq(EdgeTo(m))
    <2>1. ss \in [1..k -> Seq(EdgeTo(m))]
      BY <1>10
    <2> HIDE DEF ss
    <2> QED
      BY <1>1, <2>1, FlattenType
  <1>12. IsGraph(g)
    <2> HIDE DEF ss
    <2> QED
      BY <1>5, <1>9, <1>11 DEF IsGraph
  <1> QED
    BY <1>12 DEF g

-----------------------------------------------------------------------------
\* Replacements

\* The edges that leave a state.
LEMMA EdgesFromType ==
    ASSUME NEW g, IsGraph(g), NEW s
    PROVE  G!EdgesFrom(g, s) \in Seq(EdgeTo(g.n))
  <1> DEFINE keep == {j \in DOMAIN g.edges : g.edges[j].from = s}
             es == g.edges
  <1>1. G!EdgesFrom(g, s) = Those(es, keep)
    BY GraphOps DEF G!EdgesFrom
  <1>2. es \in Seq(EdgeTo(g.n))
    BY DEF IsGraph
  <1> HIDE DEF keep, es
  <1>3. Those(es, keep) \in Seq(EdgeTo(g.n))
    BY <1>2, ThoseFacts
  <1> QED
    BY <1>1, <1>3

\* The states behind a word.
LEMMA BehindType ==
    ASSUME NEW g, IsGraph(g), NEW word
    PROVE  G!Behind(g, word) \in [0..(g.n - 1) -> Seq(0..(g.n - 1))]
  <1> DEFINE Q == 0..(g.n - 1)
             keep(s) == {k \in DOMAIN g.edges : g.edges[k].from = s /\ g.edges[k].label = word}
             read(s) == G!Those(g.edges, keep(s))
             nexts(s) == [k \in DOMAIN read(s) |-> read(s)[k].next]
  <1>1. ASSUME NEW s \in Q PROVE nexts(s) \in Seq(Q)
    <2> DEFINE es == g.edges
               r == Those(es, keep(s))
    <2>1. es \in Seq(EdgeTo(g.n))
      BY DEF IsGraph
    <2>2. r \in Seq(EdgeTo(g.n))
      <3> HIDE DEF es, keep
      <3> QED
        BY <2>1, ThoseFacts
    <2>3. read(s) = r
      BY GraphOps
    <2> HIDE DEF r, read
    <2>4. DOMAIN r = 1..Len(r) /\ Len(r) \in Nat /\ \A k \in 1..Len(r) : r[k] \in EdgeTo(g.n)
      BY <2>2
    <2>5. \A k \in 1..Len(r) : r[k].next \in Q
      BY <2>4 DEF EdgeTo
    <2> DEFINE t == [k \in 1..Len(r) |-> r[k].next]
    <2>6. t \in Seq(Q)
      <3> HIDE DEF Q
      <3> QED
        BY <2>4, <2>5
    <2> QED
      BY <2>3, <2>4, <2>6
  <1>2. G!Behind(g, word) = [s \in Q |-> nexts(s)]
    BY DEF G!Behind
  <1> HIDE DEF nexts, Q
  <1>3. G!Behind(g, word) \in [Q -> Seq(Q)]
    BY <1>1, <1>2
  <1> QED
    BY <1>3 DEF Q

\* The states where some words are read to the end.
LEMMA ReadType ==
    ASSUME NEW g, IsGraph(g), NEW words \in Seq(Word), NEW states \in Seq(0..(g.n - 1))
    PROVE  G!Read(g, states, words) \in Seq(0..(g.n - 1))
  <1> DEFINE k == Len(words)
             Q == 0..(g.n - 1)
             V == Seq(Q)
             On(ends, word) ==
                 G!FlattenSeq([j \in DOMAIN ends |-> G!Behind(g, word)[ends[j]]])
             step == [i \in 1..k |-> [v \in V |-> On(v, words[i])]]
             Eq(h) == h = [s \in SUBSET (DOMAIN words) |->
                             IF s = {} THEN states
                             ELSE On(h[s \ {G!Max(s)}], words[G!Max(s)])]
             it == CHOOSE h : Eq(h)
  <1>0. k \in Nat /\ DOMAIN words = 1..k /\ \A s : G!Max(s) = Max(s)
    BY GraphOps
  <1>1. ASSUME NEW v \in V, NEW word PROVE On(v, word) \in V
    <2> DEFINE b == G!Behind(g, word)
               d == Len(v)
               ss == [j \in 1..d |-> b[v[j]]]
    <2>1. b \in [Q -> Seq(Q)]
      BY BehindType
    <2> HIDE DEF b, Q
    <2>2. d \in Nat /\ DOMAIN v = 1..d /\ \A j \in 1..d : v[j] \in Q
      OBVIOUS
    <2> HIDE DEF d
    <2>3. ss \in [1..d -> Seq(Q)]
      BY <2>1, <2>2
    <2> HIDE DEF ss
    <2>4. FlattenSeq(ss) \in Seq(Q)
      BY <2>2, <2>3, FlattenType
    <2> QED
      BY <2>2, <2>4, GraphOps DEF ss, b
  <1> HIDE DEF On
  <1>2. AreSteps(step, k, V) /\ states \in V
    <2> HIDE DEF k, V
    <2>1. AreSteps(step, k, V)
      BY <1>1 DEF AreSteps
    <2> QED
      BY <2>1 DEF V
  <1>3. \E h : Eq(h)
    <2>1. PICK h \in [SUBSET (1..k) -> V] : IsFold(h, step, k, states)
      <3> HIDE DEF step, k, V
      <3> QED
        BY <1>0, <1>2, FoldExists
    <2>2. \A s \in SUBSET (1..k) : s # {} =>
             step[Max(s)][h[s \ {Max(s)}]] = On(h[s \ {Max(s)}], words[Max(s)])
      <3> SUFFICES ASSUME NEW s \in SUBSET (1..k), s # {}
                   PROVE  step[Max(s)][h[s \ {Max(s)}]] = On(h[s \ {Max(s)}], words[Max(s)])
        OBVIOUS
      <3> HIDE DEF k, V
      <3>1. Max(s) \in 1..k
        BY <1>0, LastPosition
      <3>2. h[s \ {Max(s)}] \in V
        BY <2>1
      <3> QED
        BY <3>1, <3>2
    <2>3. Eq(h)
      <3> HIDE DEF step, k, V
      <3> QED
        BY <1>0, <2>1, <2>2 DEF IsFold
    <2> HIDE DEF Eq
    <2> QED
      BY <2>3
  <1>4. Eq(it)
    <2> HIDE DEF Eq
    <2> QED
      BY <1>3
  <1>5. G!Read(g, states, words) = it[1..k]
    <2>1. G!Read(g, states, words) = it[DOMAIN words]
      BY DEF G!Read, G!FoldLeft, G!MapThenFoldSet, On
    <2> HIDE DEF it, k
    <2> QED
      BY <1>0, <2>1
  <1> HIDE DEF it
  <1>6. it[{}] = states
    <2> HIDE DEF k
    <2> QED
      BY <1>0, <1>4
  <1>7. \A i \in 1..k : it[1..(i - 1)] \in V => it[1..i] = step[i][it[1..(i - 1)]]
    <2> SUFFICES ASSUME NEW i \in 1..k, it[1..(i - 1)] \in V
                 PROVE  it[1..i] = step[i][it[1..(i - 1)]]
      OBVIOUS
    <2>1. Max(1..i) = i /\ (1..i) \ {i} = 1..(i - 1)
      <3>1. i \in Nat \ {0}
        OBVIOUS
      <3> QED
        BY <3>1, MaxOfPrefix
    <2>2. (1..i) \in SUBSET (1..k) /\ 1..i # {}
      <3>1. i \in 1..i /\ \A y \in 1..i : y \in 1..k
        BY <1>0
      <3> QED
        BY <3>1
    <2> DEFINE s == 1..i
    <2>3. it[s] = On(it[s \ {Max(s)}], words[Max(s)])
      <3> HIDE DEF s, k
      <3> QED
        BY <1>0, <1>4, <2>2 DEF s
    <2>4. step[i][it[1..(i - 1)]] = On(it[1..(i - 1)], words[i])
      <3> HIDE DEF k, V
      <3> QED
        OBVIOUS
    <2> HIDE DEF step, k, V
    <2> QED
      BY <2>1, <2>3, <2>4
  <1> HIDE DEF step, k, V, Eq
  <1>8. PICK f : IsRun(f, step, k, V, states) /\ it[1..k] = f[k]
    BY <1>0, <1>2, <1>6, <1>7, FoldRuns
  <1>9. f[k] \in V
    BY <1>0, <1>8 DEF IsRun
  <1> QED
    BY <1>5, <1>8, <1>9 DEF V

LEMMA WhenType == ASSUME NEW S, NEW s \in Seq(S), NEW c PROVE G!When(c, s) \in Seq(S)
  BY DEF G!When

\* A replacement in a graph of m states.
Repl(m) == [from : 0..(m - 1), words : Seq(Word), replaced : Nat, ends : Seq(0..(m - 1))]

LEMMA ReplacementsType ==
    ASSUME NEW g, IsGraph(g), NEW rs \in Seq(OneRule)
    PROVE  G!Replacements(g, rs) \in Seq(Repl(g.n))
  <1> DEFINE m == g.n
             k == Len(rs)
             one(i, l, r) ==
               [from |-> i - 1, words |-> rs[r].rhs, replaced |-> Len(rs[r].lhs),
                ends |-> G!When(Head(rs[r].lhs) = l, G!SeekForward(g, rs[r].lhs, i - 1))]
             tried(i, l) == [r \in DOMAIN rs |-> one(i, l, r)]
             kept(i, l) == G!Those(tried(i, l), {r \in DOMAIN tried(i, l) :
                                                   tried(i, l)[r].ends # <<>>})
             of(i) == G!FlattenSeq([j \in DOMAIN G!EdgesFrom(g, i - 1) |->
                                      kept(i, G!EdgesFrom(g, i - 1)[j].label)])
  <1>1. /\ m \in Nat \ {0} /\ k \in Nat /\ DOMAIN rs = 1..k
        /\ \A r \in 1..k : rs[r].lhs \in Seq(Word) /\ rs[r].rhs \in Seq(Word)
    <2>1. \A r \in 1..k : rs[r] \in OneRule
      OBVIOUS
    <2>2. \A r \in 1..k : rs[r].lhs \in Seq(Word) /\ rs[r].rhs \in Seq(Word)
      <3> HIDE DEF k
      <3> QED
        BY <2>1 DEF OneRule
    <2> QED
      BY <2>2 DEF IsGraph
  <1>2. ASSUME NEW i \in 1..m, NEW l, NEW r \in 1..k
        PROVE  one(i, l, r) \in Repl(m)
    <2> DEFINE w0 == rs[r].lhs
               ends == G!When(Head(w0) = l, G!SeekForward(g, w0, i - 1))
    <2>1. w0 \in Seq(Word) /\ rs[r].rhs \in Seq(Word) /\ Len(w0) \in Nat
      BY <1>1
    <2>2. i - 1 \in 0..(m - 1) /\ <<i - 1>> \in Seq(0..(m - 1))
      BY <1>1
    <2> HIDE DEF w0
    <2>3. G!SeekForward(g, w0, i - 1) \in Seq(0..(m - 1))
      BY <2>1, <2>2, ReadType DEF G!SeekForward
    <2>4. ends \in Seq(0..(m - 1))
      BY <2>3, WhenType
    <2> HIDE DEF ends
    <2> QED
      BY <2>1, <2>2, <2>4 DEF Repl, w0, ends
  <1> HIDE DEF one, k
  <1>3. ASSUME NEW i \in 1..m, NEW l
        PROVE  kept(i, l) \in Seq(Repl(m))
    <2> DEFINE t == tried(i, l)
               keep == {r \in DOMAIN t : t[r].ends # <<>>}
    <2>1. t \in Seq(Repl(m))
      BY <1>1, <1>2
    <2> HIDE DEF t
    <2>2. Those(t, keep) \in Seq(Repl(m))
      <3> HIDE DEF keep
      <3> QED
        BY <2>1, ThoseFacts
    <2> QED
      BY <2>2, GraphOps DEF t
  <1> HIDE DEF kept
  <1>4. ASSUME NEW i \in 1..m PROVE of(i) \in Seq(Repl(m))
    <2> DEFINE out == G!EdgesFrom(g, i - 1)
               d == Len(out)
               ss == [j \in 1..d |-> kept(i, out[j].label)]
    <2>1. out \in Seq(EdgeTo(m))
      BY EdgesFromType
    <2> HIDE DEF out
    <2>2. d \in Nat /\ DOMAIN out = 1..d
      BY <2>1
    <2> HIDE DEF d
    <2>3. ss \in [1..d -> Seq(Repl(m))]
      BY <1>3
    <2>4. FlattenSeq(ss) \in Seq(Repl(m))
      <3> HIDE DEF ss
      <3> QED
        BY <2>2, <2>3, FlattenType
    <2> QED
      BY <2>2, <2>4, GraphOps DEF out
  <1> DEFINE ss == [i \in 1..m |-> of(i)]
  <1>5. G!Replacements(g, rs) = FlattenSeq(ss)
    BY GraphOps DEF G!Replacements, kept, one
  <1> HIDE DEF of
  <1>6. ss \in [1..m -> Seq(Repl(m))]
    BY <1>4
  <1> HIDE DEF ss, m
  <1>7. FlattenSeq(ss) \in Seq(Repl(m))
    BY <1>1, <1>6, FlattenType
  <1> QED
    BY <1>5, <1>7 DEF m

\* The edges of one replacement.
LEMMA ReplacementType ==
    ASSUME NEW m \in Nat, NEW m0 \in Nat, m0 <= m, NEW f \in Repl(m0), NEW l \in SomeLabel,
           NEW s \in Nat, s + 1 + Len(f.words) <= m
    PROVE  G!ReplacementEdges(f, l, s) \in Seq(EdgeTo(m))
  <1> DEFINE last == G!EndOf(s, f.words, s + 1)
             d == Len(f.ends)
             back == [k \in DOMAIN f.ends |-> G!Edge(last, l, 0, f.ends[k])]
             spelt == G!Spell(s, f.words, s + 1)
             enter == G!Edge(f.from, l, 0, s)
  <1>1. f.words \in Seq(Word) /\ f.ends \in Seq(0..(m0 - 1)) /\ f.from \in Nat
    BY DEF Repl
  <1>2. spelt \in Seq(EdgeTo(m)) /\ last \in Nat
    <2> DEFINE w0 == f.words
               s0 == s + 1
    <2>0. s0 + Len(w0) <= m
      OBVIOUS
    <2>1. w0 \in Seq(Word)
      BY <1>1
    <2>2. s0 \in Nat
      OBVIOUS
    <2> HIDE DEF w0, s0
    <2>3. G!Spell(s, w0, s0) \in Seq(EdgeTo(m)) /\ G!EndOf(s, w0, s0) \in Nat
      BY <2>0, <2>1, <2>2, SpellType
    <2> QED
      BY <2>3 DEF w0, s0
  <1>3. enter \in EdgeTo(m)
    <2>2. s < m
      <3> DEFINE d0 == Len(f.words)
      <3>1. d0 \in Nat
        BY <1>1
      <3>2. s + 1 + d0 <= m
        OBVIOUS
      <3> HIDE DEF d0
      <3> QED
        BY <3>1, <3>2
    <2> QED
      BY <1>1, <2>2, EdgeType
  <1>4. d \in Nat /\ DOMAIN f.ends = 1..d /\ \A k \in 1..d : f.ends[k] \in Nat /\ f.ends[k] < m
    BY <1>1
  <1> HIDE DEF last, d, spelt, enter
  <1>5. \A k \in 1..d : G!Edge(last, l, 0, f.ends[k]) \in EdgeTo(m)
    BY <1>2, <1>4, EdgeType
  <1>6. back \in Seq(EdgeTo(m))
    BY <1>4, <1>5
  <1>7. G!ReplacementEdges(f, l, s) = <<enter>> \o spelt \o back
    BY DEF G!ReplacementEdges, enter, spelt, last
  <1> HIDE DEF back
  <1> QED
    BY <1>2, <1>3, <1>6, <1>7

\* The graph with its replacements.
LEMMA ApplyType ==
    ASSUME NEW g, IsGraph(g), NEW repl \in Seq(Repl(g.n))
    PROVE  IsGraph(G!ApplyToFst(g, repl))
  <1> DEFINE k == Len(repl)
             m0 == g.n
             sizes == [i \in 1..k |-> 1 + Len(repl[i].words)]
             at(i) == m0 + G!SumTo(sizes, i - 1)
             of(i) == G!ReplacementEdges(repl[i], G!LabelOf(i), at(i))
             ss == [i \in 1..k |-> of(i)]
             m == m0 + G!SumTo(sizes, k)
             es == g.edges
             h == G!ApplyToFst(g, repl)
  <1>1. /\ k \in Nat /\ DOMAIN repl = 1..k /\ m0 \in Nat \ {0} /\ es \in Seq(EdgeTo(m0))
        /\ g.last \in 0..(m0 - 1)
        /\ \A i \in 1..k : repl[i] \in Repl(m0)
    BY DEF IsGraph
  <1>2. \A i \in 1..k : 1 + Len(repl[i].words) \in Nat
    <2> SUFFICES ASSUME NEW i \in 1..k PROVE 1 + Len(repl[i].words) \in Nat
      OBVIOUS
    <2>1. repl[i].words \in Seq(Word)
      <3> HIDE DEF k, m0
      <3> QED
        BY <1>1 DEF Repl
    <2> QED
      BY <2>1
  <1>3. sizes \in Seq(Nat) /\ Len(sizes) = k /\ \A i \in 1..k : sizes[i] = 1 + Len(repl[i].words)
    <2> HIDE DEF k
    <2> QED
      BY <1>1, <1>2
  <1>4. h = [edges |-> es \o FlattenSeq(ss), n |-> m, last |-> g.last]
    <2>1. DOMAIN repl = 1..k /\ Len(sizes) = k
      BY <1>1, <1>3
    <2>2. g = [edges |-> es, n |-> m0, last |-> g.last]
      BY DEF IsGraph
    <2>3. h = [g EXCEPT !.edges = es \o FlattenSeq(ss), !.n = m]
      BY <2>1, GraphOps DEF G!ApplyToFst
    <2> HIDE DEF es, m0, ss, m, h
    <2> QED
      BY <2>2, <2>3
  <1> HIDE DEF k, sizes, m0, h, es
  <1>5. m \in Nat \ {0} /\ m0 <= m
    <2>1. G!SumTo(sizes, k) \in Nat
      BY <1>1, <1>3, GraphSums
    <2> QED
      BY <1>1, <2>1
  <1>6. ASSUME NEW i \in 1..k PROVE of(i) \in Seq(EdgeTo(m))
    <2>1. /\ G!SumTo(sizes, i - 1) \in Nat /\ G!SumTo(sizes, k) \in Nat
          /\ G!SumTo(sizes, i - 1) + sizes[i] <= G!SumTo(sizes, k)
      <3>1. i - 1 \in 0..k /\ k \in 0..k
        BY <1>1
      <3> QED
        BY <1>1, <1>3, <3>1, GraphSums
    <2> DEFINE u == G!SumTo(sizes, i - 1)
               v == G!SumTo(sizes, k)
               t == Len(repl[i].words)
    <2>2. u \in Nat /\ v \in Nat /\ u + (1 + t) <= v /\ t \in Nat
      <3>1. repl[i].words \in Seq(Word)
        BY <1>1 DEF Repl
      <3>2. t \in Nat
        BY <3>1
      <3> QED
        BY <1>3, <2>1, <3>2
    <2> HIDE DEF u, v, t
    <2>3. m0 + u \in Nat /\ (m0 + u) + 1 + t <= m0 + v
      BY <1>1, <2>2
    <2>4. at(i) \in Nat /\ at(i) + 1 + Len(repl[i].words) <= m
      BY <2>3 DEF u, v, t
    <2>5. G!LabelOf(i) \in SomeLabel
      <3>1. i \in Nat
        BY <1>1
      <3> QED
        BY <3>1 DEF SomeLabel
    <2> HIDE DEF at, m
    <2> QED
      BY <1>1, <1>5, <2>4, <2>5, ReplacementType
  <1> HIDE DEF of, m
  <1>7. ss \in [1..k -> Seq(EdgeTo(m))]
    BY <1>6
  <1> HIDE DEF ss
  <1>8. FlattenSeq(ss) \in Seq(EdgeTo(m))
    BY <1>1, <1>7, FlattenType
  <1>9. es \in Seq(EdgeTo(m))
    <2>1. \A i \in 1..Len(es) : es[i] \in EdgeTo(m)
      <3> SUFFICES ASSUME NEW i \in 1..Len(es) PROVE es[i] \in EdgeTo(m)
        OBVIOUS
      <3>1. es[i] \in EdgeTo(m0)
        BY <1>1
      <3> QED
        BY <1>1, <1>5, <3>1 DEF EdgeTo
    <2> QED
      BY <1>1, <2>1
  <1>10. IsGraph(h)
    BY <1>1, <1>4, <1>5, <1>8, <1>9 DEF IsGraph
  <1> QED
    BY <1>10 DEF h

-----------------------------------------------------------------------------
\* Finished graphs

\* What is left of the edges of a state without its <eps> edges.
LEMMA RmEpsilonType ==
    ASSUME NEW g, IsGraph(g)
    PROVE  /\ G!RmEpsilon(g).out \in [0..(g.n - 1) -> Seq(EdgeTo(g.n))]
           /\ G!RmEpsilon(g).last = g.last
  <1> DEFINE m == g.n
             edges(s) == G!EdgesFrom(g, s)
             of(s, j) == IF edges(s)[j].label = G!Eps THEN G!EdgesFrom(g, edges(s)[j].next)
                         ELSE <<edges(s)[j]>>
             out == [s \in 0..(m - 1) |-> FlattenSeq([j \in DOMAIN edges(s) |-> of(s, j)])]
  <1>1. G!RmEpsilon(g) = [out |-> out, last |-> g.last]
    BY GraphOps DEF G!RmEpsilon
  <1>2. ASSUME NEW s \in 0..(m - 1)
        PROVE  FlattenSeq([j \in DOMAIN edges(s) |-> of(s, j)]) \in Seq(EdgeTo(m))
    <2> DEFINE k == Len(edges(s))
               ss == [j \in 1..k |-> of(s, j)]
    <2>1. edges(s) \in Seq(EdgeTo(m))
      BY EdgesFromType
    <2> HIDE DEF edges
    <2>2. k \in Nat /\ DOMAIN edges(s) = 1..k /\ \A j \in 1..k : edges(s)[j] \in EdgeTo(m)
      BY <2>1
    <2>3. ASSUME NEW j \in 1..k
          PROVE  of(s, j) \in Seq(EdgeTo(m))
      <3>1. edges(s)[j] \in EdgeTo(m)
        BY <2>2
      <3>2. G!EdgesFrom(g, edges(s)[j].next) \in Seq(EdgeTo(m))
        BY EdgesFromType
      <3> HIDE DEF m
      <3>3. <<edges(s)[j]>> \in Seq(EdgeTo(m))
        BY <3>1
      <3> QED
        BY <3>2, <3>3
    <2> HIDE DEF k, of, m
    <2>4. ss \in [1..k -> Seq(EdgeTo(m))]
      BY <2>3
    <2> HIDE DEF ss
    <2>5. FlattenSeq(ss) \in Seq(EdgeTo(m))
      BY <2>2, <2>4, FlattenType
    <2> QED
      BY <2>2, <2>5 DEF ss
  <1> HIDE DEF of, m, edges
  <1>3. out \in [0..(m - 1) -> Seq(EdgeTo(m))]
    BY <1>2
  <1> HIDE DEF out
  <1> QED
    BY <1>1, <1>3 DEF m

\* Edges as arcs.
LEMMA ToArcsType ==
    ASSUME NEW m \in Nat, NEW edges \in Seq(EdgeTo(m))
    PROVE  G!ToArcs(edges) \in Seq(ArcTo(m))
  <1>1. \A j \in 1..Len(edges) : edges[j] \in EdgeTo(m)
    OBVIOUS
  <1>2. \A j \in 1..Len(edges) :
          [label |-> edges[j].label, weight |-> edges[j].weight, next |-> edges[j].next] \in ArcTo(m)
    BY <1>1 DEF EdgeTo, ArcTo
  <1> QED
    BY <1>2 DEF G!ToArcs

\* The place of an edge in a sequence of sorted edges.
LEMMA PlaceType ==
    ASSUME NEW S, NEW s \in Seq(S), NEW e \in S, NEW J \in SUBSET DOMAIN s
    PROVE  G!InsertAt(s, 1 + Cardinality(J), e) \in Seq(S)
  <1> DEFINE k == Len(s)
             i == 1 + Cardinality(J)
  <1>1. k \in Nat /\ DOMAIN s = 1..k
    OBVIOUS
  <1>2. IsFiniteSet(1..k) /\ Cardinality(1..k) = k
    <2>1. Cardinality(1..k) = IF 1 > k THEN 0 ELSE k - 1 + 1
      BY <1>1, FS_Interval
    <2>2. IsFiniteSet(1..k)
      BY <1>1, FS_Interval
    <2> HIDE DEF k
    <2> QED
      BY <1>1, <2>1, <2>2
  <1>3. IsFiniteSet(J) /\ Cardinality(J) <= k
    BY <1>1, <1>2, FS_Subset
  <1>4. Cardinality(J) \in Nat
    BY <1>3, FS_CardinalityType
  <1>5. i \in 1..(k + 1)
    <2> HIDE DEF k
    <2> QED
      BY <1>1, <1>3, <1>4
  <1> HIDE DEF i
  <1>6. SubSeq(s, 1, i - 1) \in Seq(S) /\ SubSeq(s, i, Len(s)) \in Seq(S)
    BY <1>5
  <1> QED
    BY <1>6 DEF G!InsertAt, i

\* Where an edge goes among those that are sorted already.
Placing(s, e) ==
    G!InsertAt(s, 1 + G!Cardinality({j \in DOMAIN s : s[j].label >= e.label}), e)

\* Sorting as a run: f[i] holds the first i edges in their order.
LEMMA SortedRun ==
    ASSUME NEW S, NEW edges \in Seq(S)
    PROVE  \E f : /\ f \in [0..Len(edges) -> Seq(S)] /\ f[0] = <<>>
                  /\ \A i \in 1..Len(edges) : f[i] = Placing(f[i - 1], edges[i])
                  /\ G!Sorted(edges) = f[Len(edges)]
  <1> DEFINE k == Len(edges)
             V == Seq(S)
             step == [i \in 1..k |-> [v \in V |-> Placing(v, edges[i])]]
             Eq(h) == h = [s \in SUBSET (DOMAIN edges) |->
                             IF s = {} THEN <<>>
                             ELSE Placing(h[s \ {G!Max(s)}], edges[G!Max(s)])]
             it == CHOOSE h : Eq(h)
             c == <<>>
  <1>0. k \in Nat /\ DOMAIN edges = 1..k /\ \A s : G!Max(s) = Max(s)
    BY GraphOps
  <1>1. ASSUME NEW v \in V, NEW i \in 1..k PROVE Placing(v, edges[i]) \in V
    <2> DEFINE J == {j \in DOMAIN v : v[j].label >= edges[i].label}
    <2>1. J \in SUBSET DOMAIN v /\ edges[i] \in S
      OBVIOUS
    <2> HIDE DEF J
    <2>2. G!InsertAt(v, 1 + Cardinality(J), edges[i]) \in V
      BY <2>1, PlaceType
    <2> QED
      BY <2>2, GraphOps DEF Placing, J
  <1>2. AreSteps(step, k, V) /\ c \in V
    <2> HIDE DEF k, V
    <2>1. AreSteps(step, k, V)
      BY <1>1 DEF AreSteps
    <2> QED
      BY <2>1 DEF V
  <1>3. \E h : Eq(h)
    <2>1. PICK h \in [SUBSET (1..k) -> V] : IsFold(h, step, k, c)
      <3> HIDE DEF step, k, V, c
      <3> QED
        BY <1>0, <1>2, FoldExists
    <2>2. \A s \in SUBSET (1..k) : s # {} =>
             step[Max(s)][h[s \ {Max(s)}]] = Placing(h[s \ {Max(s)}], edges[Max(s)])
      <3> SUFFICES ASSUME NEW s \in SUBSET (1..k), s # {}
                   PROVE  step[Max(s)][h[s \ {Max(s)}]]
                          = Placing(h[s \ {Max(s)}], edges[Max(s)])
        OBVIOUS
      <3> HIDE DEF k, V
      <3>1. Max(s) \in 1..k
        BY <1>0, LastPosition
      <3>2. h[s \ {Max(s)}] \in V
        BY <2>1
      <3> QED
        BY <3>1, <3>2
    <2>3. Eq(h)
      <3> HIDE DEF step, k, V
      <3> QED
        BY <1>0, <2>1, <2>2 DEF IsFold
    <2> HIDE DEF Eq
    <2> QED
      BY <2>3
  <1>4. Eq(it)
    <2> HIDE DEF Eq
    <2> QED
      BY <1>3
  <1>5. G!Sorted(edges) = it[1..k]
    <2>1. G!Sorted(edges) = it[DOMAIN edges]
      BY DEF G!Sorted, G!FoldLeft, G!MapThenFoldSet, Placing
    <2> HIDE DEF it, k
    <2> QED
      BY <1>0, <2>1
  <1> HIDE DEF it
  <1>6. it[{}] = c
    <2> HIDE DEF k
    <2> QED
      BY <1>0, <1>4
  <1>7. \A i \in 1..k : it[1..(i - 1)] \in V => it[1..i] = step[i][it[1..(i - 1)]]
    <2> SUFFICES ASSUME NEW i \in 1..k, it[1..(i - 1)] \in V
                 PROVE  it[1..i] = step[i][it[1..(i - 1)]]
      OBVIOUS
    <2>1. Max(1..i) = i /\ (1..i) \ {i} = 1..(i - 1)
      <3>1. i \in Nat \ {0}
        OBVIOUS
      <3> QED
        BY <3>1, MaxOfPrefix
    <2>2. (1..i) \in SUBSET (1..k) /\ 1..i # {}
      <3>1. i \in 1..i /\ \A y \in 1..i : y \in 1..k
        BY <1>0
      <3> QED
        BY <3>1
    <2> DEFINE s == 1..i
    <2>3. it[s] = Placing(it[s \ {Max(s)}], edges[Max(s)])
      <3> HIDE DEF s, k
      <3> QED
        BY <1>0, <1>4, <2>2 DEF s
    <2>4. step[i][it[1..(i - 1)]] = Placing(it[1..(i - 1)], edges[i])
      <3> HIDE DEF k, V
      <3> QED
        OBVIOUS
    <2> HIDE DEF step, k, V
    <2> QED
      BY <2>1, <2>3, <2>4
  <1> HIDE DEF step, V, Eq, c, k
  <1>8. PICK f : IsRun(f, step, k, V, c) /\ it[1..k] = f[k]
    BY <1>0, <1>2, <1>6, <1>7, FoldRuns
  <1>9. \A i \in 1..k : f[i] = Placing(f[i - 1], edges[i])
    <2> SUFFICES ASSUME NEW i \in 1..k PROVE f[i] = Placing(f[i - 1], edges[i])
      OBVIOUS
    <2>1. i - 1 \in 0..k /\ f[i] = step[i][f[i - 1]]
      BY <1>0, <1>8 DEF IsRun
    <2>2. f[i - 1] \in V
      BY <1>8, <2>1 DEF IsRun
    <2> QED
      BY <2>1, <2>2 DEF step
  <1> QED
    BY <1>5, <1>8, <1>9 DEF IsRun, V, c, k

LEMMA SortedType ==
    ASSUME NEW S, NEW edges \in Seq(S)
    PROVE  G!Sorted(edges) \in Seq(S)
  <1> DEFINE k == Len(edges)
  <1>1. PICK f : f \in [0..k -> Seq(S)] /\ G!Sorted(edges) = f[k]
    BY SortedRun
  <1>2. k \in 0..k
    OBVIOUS
  <1> HIDE DEF k
  <1> QED
    BY <1>1, <1>2

\* A state with at most one arc is sorted as it is.
LEMMA SortedShort ==
    ASSUME NEW S, NEW edges \in Seq(S), Len(edges) <= 1
    PROVE  G!Sorted(edges) = edges
  <1> DEFINE k == Len(edges)
  <1>1. PICK f : /\ f \in [0..k -> Seq(S)] /\ f[0] = <<>>
                 /\ \A i \in 1..k : f[i] = Placing(f[i - 1], edges[i])
                 /\ G!Sorted(edges) = f[k]
    BY SortedRun
  <1>2. k = 0 \/ k = 1
    <2>1. k \in Nat /\ k <= 1
      OBVIOUS
    <2> HIDE DEF k
    <2> QED
      BY <2>1
  <1>3. CASE k = 0
    <2>1. edges = <<>>
      BY <1>3
    <2> HIDE DEF k
    <2> QED
      BY <1>1, <1>3, <2>1
  <1>4. CASE k = 1
    <2>1. edges = <<edges[1]>> /\ edges[1] \in S
      BY <1>4
    <2>2. G!Sorted(edges) = Placing(<<>>, edges[1])
      <3> HIDE DEF k
      <3> QED
        BY <1>1, <1>4
    <2> DEFINE e == edges[1]
    <2>3. Placing(<<>>, e) = <<e>>
      <3> HIDE DEF e
      <3>1. {j \in DOMAIN <<>> : <<>>[j].label >= e.label} = {}
        OBVIOUS
      <3>2. Placing(<<>>, e) = G!InsertAt(<<>>, 1 + 0, e)
        BY <3>1, FS_EmptySet, GraphOps DEF Placing
      <3>3. G!InsertAt(<<>>, 1, e) = <<e>>
        <4>1. G!InsertAt(<<>>, 1, e) = SubSeq(<<>>, 1, 1 - 1) \o <<e>> \o SubSeq(<<>>, 1, Len(<<>>))
          BY DEF G!InsertAt
        <4>2. SubSeq(<<>>, 1, 1 - 1) = <<>> /\ SubSeq(<<>>, 1, Len(<<>>)) = <<>>
          OBVIOUS
        <4>3. <<>> \o <<e>> = <<e>> /\ <<e>> \o <<>> = <<e>>
          OBVIOUS
        <4> QED
          BY <4>1, <4>2, <4>3
      <3> QED
        BY <3>2, <3>3
    <2> HIDE DEF e
    <2> QED
      BY <2>1, <2>2, <2>3 DEF e
  <1> QED
    BY <1>2, <1>3, <1>4

\* The graph of the reference.
LEMMA ReferenceType ==
    ASSUME NEW g, IsGraph(g)
    PROVE  IsFst(G!ReferenceFst(G!RmEpsilon(g)), g.n)
  <1> DEFINE m == g.n
             r == G!RmEpsilon(g)
             f == G!ReferenceFst(r)
  <1>1. r.out \in [0..(m - 1) -> Seq(EdgeTo(m))] /\ r.last \in 0..(m - 1) /\ m \in Nat \ {0}
    BY RmEpsilonType DEF IsGraph
  <1> HIDE DEF r, m
  <1>2. f = [arcs |-> [s \in 0..(m - 1) |-> G!ToArcs(G!Sorted(r.out[s]))], final |-> {r.last}]
    BY <1>1 DEF G!ReferenceFst
  <1>3. \A s \in 0..(m - 1) : G!ToArcs(G!Sorted(r.out[s])) \in Seq(ArcTo(m))
    <2> SUFFICES ASSUME NEW s \in 0..(m - 1)
                 PROVE  G!ToArcs(G!Sorted(r.out[s])) \in Seq(ArcTo(m))
      OBVIOUS
    <2>1. r.out[s] \in Seq(EdgeTo(m))
      BY <1>1
    <2>2. G!Sorted(r.out[s]) \in Seq(EdgeTo(m))
      BY <2>1, SortedType
    <2> QED
      BY <1>1, <2>2, ToArcsType
  <1>4. f.arcs \in [0..(m - 1) -> Seq(ArcTo(m))] /\ f.final = {r.last}
    BY <1>2, <1>3
  <1> HIDE DEF f
  <1>5. IsFst(f, m)
    BY <1>1, <1>4 DEF IsFst
  <1> QED
    BY <1>5 DEF f, m, r

\* A graph as the loader leaves it.
LEMMA LoadedType ==
    ASSUME NEW g, IsGraph(g)
    PROVE  IsFst(G!LoadedFst(g), g.n)
  <1> DEFINE m == g.n
             f == G!LoadedFst(g)
  <1>1. m \in Nat \ {0} /\ g.last \in 0..(m - 1)
    BY DEF IsGraph
  <1>2. \A s \in 0..(m - 1) : G!ToArcs(G!EdgesFrom(g, s)) \in Seq(ArcTo(m))
    <2> SUFFICES ASSUME NEW s \in 0..(m - 1)
                 PROVE  G!ToArcs(G!EdgesFrom(g, s)) \in Seq(ArcTo(m))
      OBVIOUS
    <2>1. G!EdgesFrom(g, s) \in Seq(EdgeTo(m))
      BY EdgesFromType
    <2> HIDE DEF m
    <2> QED
      BY <1>1, <2>1, ToArcsType
  <1>3. f = [arcs |-> [s \in 0..(m - 1) |-> G!ToArcs(G!EdgesFrom(g, s))], final |-> {g.last}]
    BY DEF G!LoadedFst
  <1> HIDE DEF m
  <1>4. f.arcs \in [0..(m - 1) -> Seq(ArcTo(m))] /\ f.final = {g.last}
    BY <1>2, <1>3
  <1> HIDE DEF f
  <1>5. IsFst(f, m)
    BY <1>1, <1>4 DEF IsFst
  <1> QED
    BY <1>5 DEF f, m

-----------------------------------------------------------------------------
\* The path of a text

LineEdges(tokens, map) ==
    [i \in 1..Len(tokens) |-> G!Edge(i - 1, tokens[i], G!Weight(map, i), i)]

LineGraph(tokens, map) ==
    [edges |-> LineEdges(tokens, map), n |-> Len(tokens) + 1, last |-> Len(tokens)]

LineArc(tokens, map, i) == [label |-> tokens[i], weight |-> G!Weight(map, i), next |-> i]

\* The finished graph f is the path of the tokens.
IsLine(f, tokens, map) ==
    /\ f.arcs = [s \in 0..Len(tokens) |->
                   IF s < Len(tokens) THEN <<LineArc(tokens, map, s + 1)>> ELSE <<>>]
    /\ f.final = {Len(tokens)}

\* The first k numbers of a sequence of ones.
LEMMA SumOfOnes ==
    ASSUME NEW numbers \in Seq(Nat), \A i \in 1..Len(numbers) : numbers[i] = 1
    PROVE  \A k \in 0..Len(numbers) : G!SumTo(numbers, k) = k
  <1> DEFINE len == Len(numbers)
             K == {k \in 0..len : G!SumTo(numbers, k) = k}
  <1>1. len \in Nat /\ 0 \in K
    BY GraphSums
  <1>2. ASSUME NEW k \in Nat, k < len, k \in K
        PROVE  k + 1 \in K
    <2>1. k + 1 \in 1..len /\ (k + 1) - 1 = k /\ k + 1 \in 0..len
      <3> HIDE DEF len
      <3> QED
        BY <1>1, <1>2
    <2>2. G!SumTo(numbers, k + 1) = G!SumTo(numbers, (k + 1) - 1) + numbers[k + 1]
      BY <2>1, GraphSums
    <2>3. G!SumTo(numbers, k) = k /\ numbers[k + 1] = 1
      BY <1>2, <2>1
    <2> HIDE DEF len
    <2> QED
      BY <2>1, <2>2, <2>3
  <1> HIDE DEF K, len
  <1>3. \A k \in 0..len : k \in K
    BY <1>1, <1>2, Climb
  <1> QED
    BY <1>3 DEF K, len

\* Without classes the tokens are the edges, one behind the other.
LEMMA ConvertLine ==
    ASSUME NEW tokens \in Seq((Word \cup {0}) \ EntityLabel), NEW map
    PROVE  G!ConvertToFst(tokens, map, Candidates) = LineGraph(tokens, map)
  <1> DEFINE k == Len(tokens)
             isClass(i) == tokens[i] \in EntityLabel
             size(i) == IF isClass(i) THEN 3 + Len(FlattenSeq(Candidates[tokens[i]])) ELSE 1
             sizes == [i \in 1..k |-> size(i)]
             fresh(i) == 1 + G!SumTo(sizes, i - 1)
             end(i) == IF i = 0 THEN 0 ELSE fresh(i) + (IF isClass(i) THEN 2 ELSE 0)
             of(i) == IF isClass(i)
                      THEN G!ClassEdges(end(i - 1), tokens[i], G!Weight(map, i), fresh(i),
                                        Candidates[tokens[i]])
                      ELSE <<G!Edge(end(i - 1), tokens[i], G!Weight(map, i), fresh(i))>>
             ss == [i \in 1..k |-> of(i)]
             es == LineEdges(tokens, map)
  <1>1. k \in Nat /\ DOMAIN tokens = 1..k /\ \A i \in 1..k : ~isClass(i)
    OBVIOUS
  <1>2. \A i \in 1..k : size(i) = 1
    BY <1>1
  <1>3. sizes \in Seq(Nat) /\ Len(sizes) = k /\ \A i \in 1..k : sizes[i] = 1
    <2> HIDE DEF size, k
    <2> QED
      BY <1>1, <1>2
  <1>4. G!ConvertToFst(tokens, map, Candidates)
        = [edges |-> FlattenSeq(ss), n |-> 1 + G!SumTo(sizes, k), last |-> end(k)]
    <2>1. DOMAIN tokens = 1..k
      BY <1>1
    <2>2. Len(sizes) = k
      BY <1>3
    <2> QED
      BY <2>1, <2>2, GraphOps DEF G!ConvertToFst
  <1> HIDE DEF size, sizes, k
  <1>5. \A i \in 0..k : G!SumTo(sizes, i) = i
    BY <1>3, SumOfOnes
  <1>6. \A i \in 1..k : fresh(i) = i
    <2> SUFFICES ASSUME NEW i \in 1..k PROVE fresh(i) = i
      OBVIOUS
    <2>1. i - 1 \in 0..k
      BY <1>1
    <2>2. G!SumTo(sizes, i - 1) = i - 1
      BY <1>5, <2>1
    <2> QED
      BY <2>2
  <1>7. \A i \in 0..k : end(i) = i
    <2> SUFFICES ASSUME NEW i \in 0..k PROVE end(i) = i
      OBVIOUS
    <2>1. i = 0 \/ i \in 1..k
      BY <1>1
    <2>2. CASE i = 0
      BY <2>2
    <2>3. CASE i \in 1..k
      <3>1. fresh(i) = i /\ ~isClass(i) /\ i # 0
        BY <1>1, <1>6, <2>3
      <3> HIDE DEF fresh, isClass
      <3> QED
        BY <3>1
    <2> QED
      BY <2>1, <2>2, <2>3
  <1>8. \A i \in 1..k : of(i) = <<es[i]>>
    <2> SUFFICES ASSUME NEW i \in 1..k PROVE of(i) = <<es[i]>>
      OBVIOUS
    <2>1. fresh(i) = i /\ end(i - 1) = i - 1 /\ ~isClass(i)
      <3>1. i - 1 \in 0..k
        BY <1>1
      <3> HIDE DEF fresh, isClass, end
      <3> QED
        BY <3>1, <1>1, <1>6, <1>7
    <2>2. es[i] = G!Edge(i - 1, tokens[i], G!Weight(map, i), i)
      BY DEF LineEdges, k
    <2> HIDE DEF fresh, isClass, end, es
    <2> QED
      BY <2>1, <2>2
  <1> HIDE DEF of, end, fresh
  <1>9. es \in Seq({es[i] : i \in 1..k}) /\ Len(es) = k
    BY <1>1 DEF LineEdges, k
  <1>10. ss = [i \in 1..Len(es) |-> <<es[i]>>]
    <2> HIDE DEF es
    <2> QED
      BY <1>8, <1>9
  <1>11. FlattenSeq(ss) = es
    <2> HIDE DEF es, ss
    <2> QED
      BY <1>9, <1>10, FlattenSingles
  <1>12. G!SumTo(sizes, k) = k /\ end(k) = k /\ 1 + k = k + 1
    <2>1. k \in 0..k
      BY <1>1
    <2> QED
      BY <1>1, <1>5, <1>7, <2>1
  <1> HIDE DEF es, ss
  <1> QED
    BY <1>4, <1>11, <1>12 DEF LineGraph, es, k

\* One edge leaves every state of a path but the last.
LEMMA LineFacts ==
    ASSUME NEW tokens \in Seq(Word \cup {0}), NEW map, NEW s \in 0..Len(tokens)
    PROVE  G!EdgesFrom(LineGraph(tokens, map), s)
           = IF s < Len(tokens) THEN <<LineEdges(tokens, map)[s + 1]>> ELSE <<>>
  <1> DEFINE k == Len(tokens)
             es == LineEdges(tokens, map)
             keep == {j \in DOMAIN es : es[j].from = s}
             S == {es[i] : i \in 1..k}
  <1>1. k \in Nat
    OBVIOUS
  <1>2. es \in Seq(S) /\ DOMAIN es = 1..k /\ Len(es) = k /\ \A i \in 1..k : es[i].from = i - 1
    <2> DEFINE of(i) == G!Edge(i - 1, tokens[i], G!Weight(map, i), i)
    <2>1. es = [i \in 1..k |-> of(i)]
      BY DEF LineEdges
    <2>2. \A i \in 1..k : of(i).from = i - 1
      BY DEF G!Edge
    <2> HIDE DEF of, es, k
    <2>3. es \in [1..k -> S] /\ \A i \in 1..k : es[i] = of(i)
      BY <2>1
    <2> HIDE DEF S
    <2> QED
      BY <1>1, <2>2, <2>3
  <1>3. G!EdgesFrom(LineGraph(tokens, map), s) = Those(es, keep)
    BY GraphOps DEF G!EdgesFrom, LineGraph
  <1> HIDE DEF k, es, S
  <1>4. CASE s < k
    <2>1. s + 1 \in 1..k
      BY <1>1, <1>4
    <2>2. keep \cap (1..k) = {s + 1}
      <3>1. \A j \in 1..k : j - 1 = s <=> j = s + 1
        BY <1>1
      <3> QED
        BY <1>2, <2>1, <3>1
    <2> HIDE DEF keep
    <2>3. Those(es, keep) = <<es[s + 1]>>
      BY <1>2, <2>1, <2>2, ThoseOne
    <2> QED
      BY <1>3, <1>4, <2>3 DEF k, es
  <1>5. CASE ~(s < k)
    <2>1. keep \cap (1..k) = {}
      <3>1. \A j \in 1..k : j - 1 # s
        BY <1>1, <1>5 DEF k
      <3> QED
        BY <1>2, <3>1
    <2> HIDE DEF keep
    <2>2. Those(es, keep) = <<>>
      BY <1>2, <2>1, ThoseNone
    <2> QED
      BY <1>3, <1>5, <2>2 DEF k
  <1> QED
    BY <1>4, <1>5

\* The arc of an edge of the path.
LEMMA LineToArcs ==
    ASSUME NEW tokens, NEW map, NEW i \in 1..Len(tokens)
    PROVE  G!ToArcs(<<LineEdges(tokens, map)[i]>>) = <<LineArc(tokens, map, i)>>
  <1> DEFINE e == LineEdges(tokens, map)[i]
  <1>1. [label |-> e.label, weight |-> e.weight, next |-> e.next] = LineArc(tokens, map, i)
    BY DEF LineEdges, G!Edge, LineArc
  <1> HIDE DEF e
  <1>2. G!ToArcs(<<e>>) = <<[label |-> e.label, weight |-> e.weight, next |-> e.next]>>
    BY DEF G!ToArcs
  <1> QED
    BY <1>1, <1>2 DEF e

\* The loader leaves the path as it is.
LEMMA LoadedLine ==
    ASSUME NEW tokens \in Seq(Word \cup {0}), NEW map
    PROVE  IsLine(G!LoadedFst(LineGraph(tokens, map)), tokens, map)
  <1> DEFINE k == Len(tokens)
             g == LineGraph(tokens, map)
             f == G!LoadedFst(g)
             out(s) == IF s < k THEN <<LineArc(tokens, map, s + 1)>> ELSE <<>>
  <1>1. k \in Nat /\ g.n = k + 1 /\ g.last = k
    BY DEF LineGraph
  <1>2. f = [arcs |-> [s \in 0..(g.n - 1) |-> G!ToArcs(G!EdgesFrom(g, s))], final |-> {g.last}]
    BY DEF G!LoadedFst
  <1>3. ASSUME NEW s \in 0..k
        PROVE  G!ToArcs(G!EdgesFrom(g, s)) = out(s)
    <2>1. CASE s < k
      <3>1. s + 1 \in 1..k
        BY <2>1
      <3> QED
        BY <2>1, <3>1, LineFacts, LineToArcs
    <2>2. CASE ~(s < k)
      <3>1. G!ToArcs(<<>>) = <<>>
        BY DEF G!ToArcs
      <3> QED
        BY <2>2, <3>1, LineFacts
    <2> QED
      BY <2>1, <2>2
  <1> HIDE DEF k, g, f, out
  <1>4. g.n - 1 = k
    BY <1>1
  <1>5. f.arcs = [s \in 0..k |-> out(s)] /\ f.final = {k}
    BY <1>1, <1>2, <1>3, <1>4
  <1> QED
    BY <1>5 DEF IsLine, k, out, f, g

\* Neither removing <eps> nor sorting changes the path of words.
LEMMA ReferenceLine ==
    ASSUME NEW tokens \in Seq(Word \ {0}), NEW map
    PROVE  IsLine(G!ReferenceFst(G!RmEpsilon(LineGraph(tokens, map))), tokens, map)
  <1> DEFINE k == Len(tokens)
             g == LineGraph(tokens, map)
             es == LineEdges(tokens, map)
             r == G!RmEpsilon(g)
             edges(s) == G!EdgesFrom(g, s)
             kept(s) == FlattenSeq([j \in DOMAIN edges(s) |->
                           IF edges(s)[j].label = G!Eps THEN G!EdgesFrom(g, edges(s)[j].next)
                           ELSE <<edges(s)[j]>>])
             f == G!ReferenceFst(r)
             out(s) == IF s < k THEN <<LineArc(tokens, map, s + 1)>> ELSE <<>>
  <1>1. k \in Nat /\ g.n = k + 1 /\ g.last = k /\ tokens \in Seq(Word \cup {0})
    BY DEF LineGraph
  <1>2. r = [out |-> [s \in 0..(g.n - 1) |-> kept(s)], last |-> g.last]
    BY GraphOps DEF G!RmEpsilon
  <1>3. ASSUME NEW s \in 0..k
        PROVE  G!ToArcs(G!Sorted(kept(s))) = out(s)
    <2>1. CASE s < k
      <3>1. s + 1 \in 1..k
        BY <2>1
      <3> DEFINE e == es[s + 1]
      <3>2. edges(s) = <<e>>
        BY <1>1, <2>1, LineFacts
      <3>3. e.label # G!Eps
        <4>1. e.label = tokens[s + 1] /\ tokens[s + 1] \in Word \ {0}
          BY <3>1 DEF LineEdges, G!Edge
        <4> QED
          BY <4>1 DEF G!Eps
      <3>4. G!ToArcs(<<e>>) = <<LineArc(tokens, map, s + 1)>>
        BY <3>1, LineToArcs
      <3> HIDE DEF e, edges, k
      <3>5. kept(s) = FlattenSeq([j \in 1..1 |-> <<(<<e>>)[j]>>])
        <4>1. DOMAIN edges(s) = 1..1 /\ edges(s)[1] = e /\ \A j \in 1..1 : j = 1
          BY <3>2
        <4>2. \A j \in 1..1 :
                (IF edges(s)[j].label = G!Eps THEN G!EdgesFrom(g, edges(s)[j].next)
                 ELSE <<edges(s)[j]>>) = <<(<<e>>)[j]>>
          BY <3>3, <4>1
        <4> QED
          BY <4>1, <4>2
      <3> HIDE DEF kept
      <3>6. kept(s) = <<e>>
        <4>1. <<e>> \in Seq({e}) /\ Len(<<e>>) = 1
          OBVIOUS
        <4>2. FlattenSeq([j \in 1..Len(<<e>>) |-> <<(<<e>>)[j]>>]) = <<e>>
          BY <4>1, FlattenSingles
        <4> QED
          BY <3>5, <4>1, <4>2
      <3>7. G!Sorted(<<e>>) = <<e>>
        <4>1. <<e>> \in Seq({e}) /\ Len(<<e>>) <= 1
          OBVIOUS
        <4> QED
          BY <4>1, SortedShort
      <3> QED
        BY <2>1, <3>4, <3>6, <3>7
    <2>2. CASE ~(s < k)
      <3>1. edges(s) = <<>>
        BY <1>1, <2>2, LineFacts
      <3> HIDE DEF edges, k
      <3>2. kept(s) = FlattenSeq(<<>>)
        <4>1. DOMAIN edges(s) = {}
          BY <3>1
        <4> QED
          BY <4>1
      <3> HIDE DEF kept
      <3>3. FlattenSeq(<<>>) = <<>>
        BY DEF FlattenSeq
      <3>4. G!Sorted(<<>>) = <<>>
        <4>1. <<>> \in Seq({}) /\ Len(<<>>) <= 1
          OBVIOUS
        <4> QED
          BY <4>1, SortedShort
      <3>5. G!ToArcs(<<>>) = <<>>
        BY DEF G!ToArcs
      <3> QED
        BY <2>2, <3>2, <3>3, <3>4, <3>5
    <2> QED
      BY <2>1, <2>2
  <1>4. g.n - 1 = k
    <2> HIDE DEF k, g
    <2> QED
      BY <1>1
  <1> HIDE DEF k, g, kept, out
  <1>5. r.out = [s \in 0..k |-> kept(s)] /\ r.last = k
    BY <1>1, <1>2, <1>4
  <1> HIDE DEF r
  <1>6. f = [arcs |-> [s \in 0..k |-> G!ToArcs(G!Sorted(kept(s)))], final |-> {k}]
    BY <1>5 DEF G!ReferenceFst
  <1> HIDE DEF f
  <1>7. f.arcs = [s \in 0..k |-> out(s)] /\ f.final = {k}
    BY <1>3, <1>6
  <1> QED
    BY <1>7 DEF IsLine, k, out, f, r, g

\* Without rules nothing is replaced.
LEMMA NothingReplaced ==
    ASSUME NEW g, IsGraph(g)
    PROVE  G!ApplyToFst(g, G!Replacements(g, E!InOrder(<<>>))) = g
  <1> DEFINE m == g.n
             edges(i) == G!EdgesFrom(g, i - 1)
  <1>0. FlattenSeq(<<>>) = <<>>
    BY DEF FlattenSeq
  <1>1. E!InOrder(<<>>) = <<>>
    BY <1>0, RuleOps DEF E!InOrder
  <1>2. \A keep : Those(<<>>, keep) = <<>>
    <2> SUFFICES ASSUME NEW keep PROVE Those(<<>>, keep) = <<>>
      OBVIOUS
    <2>1. <<>> \in Seq({}) /\ keep \cap (1..Len(<<>>)) = {}
      OBVIOUS
    <2> QED
      BY <2>1, ThoseNone
  <1>3. m \in Nat
    BY DEF IsGraph
  <1>4. ASSUME NEW d \in Nat, NEW ss, ss = [j \in 1..d |-> <<>>]
        PROVE  FlattenSeq(ss) = <<>>
    <2>1. CASE d = 0
      <3>1. ss = <<>>
        BY <1>4, <2>1
      <3> QED
        BY <1>0, <3>1
    <2>2. CASE d # 0
      <3>1. ss \in Seq(Seq({})) /\ Len(ss) = d /\ 1 \in 1..Len(ss) /\ \A j \in 1..d : ss[j] = <<>>
        BY <1>4, <2>2
      <3>2. FlattenSeq(ss) = ss[1]
        BY <3>1, FlattenOne
      <3> QED
        BY <3>1, <3>2
    <2> QED
      BY <2>1, <2>2
  <1>5. G!Replacements(g, <<>>) = <<>>
    <2> DEFINE one(i, j) ==
                 LET tried == [r \in DOMAIN <<>> |->
                                [from |-> i - 1, words |-> (<<>>)[r].rhs,
                                 replaced |-> Len((<<>>)[r].lhs),
                                 ends |-> G!When(Head((<<>>)[r].lhs) = edges(i)[j].label,
                                                 G!SeekForward(g, (<<>>)[r].lhs, i - 1))]]
                 IN  Those(tried, {r \in DOMAIN tried : tried[r].ends # <<>>})
               of(i) == FlattenSeq([j \in DOMAIN edges(i) |-> one(i, j)])
    <2>1. G!Replacements(g, <<>>) = FlattenSeq([i \in 1..m |-> of(i)])
      BY GraphOps DEF G!Replacements
    <2>2. ASSUME NEW i, NEW j PROVE one(i, j) = <<>>
      <3> DEFINE tried == [r \in DOMAIN <<>> |->
                                [from |-> i - 1, words |-> (<<>>)[r].rhs,
                                 replaced |-> Len((<<>>)[r].lhs),
                                 ends |-> G!When(Head((<<>>)[r].lhs) = edges(i)[j].label,
                                                 G!SeekForward(g, (<<>>)[r].lhs, i - 1))]]
      <3>1. tried = <<>>
        <4>1. DOMAIN <<>> = {}
          OBVIOUS
        <4>2. \A F : [r \in {} |-> F[r]] = <<>>
          OBVIOUS
        <4> QED
          BY <4>1
      <3>2. one(i, j) = Those(tried, {r \in DOMAIN tried : tried[r].ends # <<>>})
        OBVIOUS
      <3> HIDE DEF tried, one
      <3> QED
        BY <1>2, <3>1, <3>2
    <2>3. \A i \in 1..m : of(i) = <<>>
      <3> SUFFICES ASSUME NEW i \in 1..m PROVE of(i) = <<>>
        OBVIOUS
      <3> DEFINE d == Len(edges(i))
                 ss == [j \in DOMAIN edges(i) |-> one(i, j)]
      <3>1. edges(i) \in Seq(EdgeTo(m))
        BY EdgesFromType
      <3> HIDE DEF edges, m, one
      <3>2. d \in Nat /\ DOMAIN edges(i) = 1..d
        BY <3>1
      <3>3. ss = [j \in 1..d |-> <<>>]
        BY <2>2, <3>2
      <3> HIDE DEF d, ss
      <3>4. FlattenSeq(ss) = <<>>
        BY <1>4, <3>2, <3>3
      <3> QED
        BY <3>4 DEF ss
    <2> HIDE DEF of, m
    <2> DEFINE ss == [i \in 1..m |-> of(i)]
    <2>4. ss = [i \in 1..m |-> <<>>]
      BY <2>3
    <2> HIDE DEF ss
    <2>5. FlattenSeq(ss) = <<>>
      BY <1>3, <1>4, <2>4
    <2> QED
      BY <2>1, <2>5 DEF ss
  <1>6. G!ApplyToFst(g, <<>>) = g
    <2> DEFINE sizes == [k \in DOMAIN <<>> |-> 1 + Len((<<>>)[k].words)]
               added == FlattenSeq([k \in DOMAIN <<>> |->
                          G!ReplacementEdges((<<>>)[k], G!LabelOf(k),
                                             m + G!SumTo(sizes, k - 1))])
    <2>1. G!ApplyToFst(g, <<>>)
          = [g EXCEPT !.edges = @ \o added, !.n = @ + G!SumTo(sizes, Len(sizes))]
      BY GraphOps DEF G!ApplyToFst
    <2>2. sizes = <<>>
      OBVIOUS
    <2>3. added = <<>>
      BY <1>0
    <2>4. G!SumTo(<<>>, 0) = 0
      <3>1. <<>> \in Seq(Nat)
        OBVIOUS
      <3> QED
        BY <3>1, GraphSums
    <2>5. g.edges \o <<>> = g.edges /\ m + 0 = m
      BY DEF IsGraph
    <2> HIDE DEF sizes, added, m
    <2>6. G!SumTo(sizes, Len(sizes)) = 0
      BY <2>2, <2>4
    <2>7. G!ApplyToFst(g, <<>>) = [edges |-> g.edges \o added,
                                   n |-> g.n + G!SumTo(sizes, Len(sizes)), last |-> g.last]
      <3>1. g = [edges |-> g.edges, n |-> g.n, last |-> g.last]
        BY DEF IsGraph
      <3> QED
        BY <2>1, <3>1
    <2>8. [edges |-> g.edges \o added, n |-> g.n + G!SumTo(sizes, Len(sizes)), last |-> g.last]
          = [edges |-> g.edges, n |-> g.n, last |-> g.last]
      BY <2>3, <2>5, <2>6 DEF m
    <2> QED
      BY <2>7, <2>8 DEF IsGraph
  <1> QED
    BY <1>1, <1>5, <1>6

-----------------------------------------------------------------------------
\* Composed states

\* The operators on sequences that the compositions are built with.
LEMMA CompOps ==
    /\ \A ss : C!FlattenSeq(ss) = FlattenSeq(ss)
    /\ \A seq, keep : C!Those(seq, keep) = Those(seq, keep)
    /\ \A b, s : C!When(b, s) = When(b, s)
    /\ \A s : C!ToSet(s) = ToSet(s)
  BY DEF C!FlattenSeq, FlattenSeq, C!Those, Those, C!When, When, C!ToSet, ToSet

\* all continues states with the pairs that were not among them.
Holds(all, states, pairs) ==
    /\ Len(states) <= Len(all)
    /\ \A i \in 1..Len(states) : all[i] = states[i]
    /\ \A j \in 1..Len(pairs) :
         /\ C!IdOf(all, pairs[j]) \in Nat
         /\ C!IdOf(all, pairs[j]) < Len(all)
         /\ all[C!IdOf(all, pairs[j]) + 1] = pairs[j]

\* The pairs stay where they are, and each of the new ones gets an id.
LEMMA CreatedFacts ==
    ASSUME NEW S, NEW states \in Seq(S), NEW pairs \in Seq(S)
    PROVE  /\ C!Created(states, pairs) \in Seq(S)
           /\ Holds(C!Created(states, pairs), states, pairs)
  <1> DEFINE k == Len(pairs)
             d == Len(states)
             fresh == {j \in DOMAIN pairs : /\ pairs[j] \notin C!ToSet(states)
                                            /\ \A i \in 1..(j - 1) : pairs[i] # pairs[j]}
             new == Those(pairs, fresh)
             all == C!Created(states, pairs)
  <1>1. k \in Nat /\ d \in Nat /\ DOMAIN pairs = 1..k /\ DOMAIN states = 1..d
    OBVIOUS
  <1>2. new \in Seq(S) /\ \A i \in fresh : \E j \in 1..Len(new) : new[j] = pairs[i]
    <2>1. fresh \cap (1..Len(pairs)) = fresh
      BY <1>1
    <2> HIDE DEF fresh, k
    <2>2. Those(pairs, fresh) \in Seq(S) /\ AreKept(Those(pairs, fresh), pairs, fresh)
      BY ThoseFacts
    <2> QED
      BY <2>1, <2>2 DEF AreKept
  <1>3. all = states \o new
    BY CompOps DEF C!Created
  <1>4. /\ all \in Seq(S) /\ Len(all) = d + Len(new) /\ DOMAIN all = 1..Len(all)
        /\ \A i \in 1..d : all[i] = states[i]
        /\ \A j \in 1..Len(new) : all[d + j] = new[j] /\ d + j \in 1..Len(all)
    <2> HIDE DEF new, all
    <2> QED
      BY <1>2, <1>3
  <1>5. ASSUME NEW i \in 1..k
        PROVE  \E j \in 1..Len(all) : all[j] = pairs[i]
    <2>1. CASE pairs[i] \in C!ToSet(states)
      <3>1. PICK j \in 1..d : states[j] = pairs[i]
        BY <1>1, <2>1, CompOps DEF ToSet
      <3>2. j \in 1..Len(all)
        <4>1. Len(new) \in Nat
          <5> HIDE DEF new
          <5> QED
            BY <1>2
        <4> HIDE DEF new, all, d
        <4> QED
          BY <1>1, <1>4, <4>1
      <3> HIDE DEF all
      <3> QED
        BY <1>4, <3>1, <3>2
    <2>2. CASE pairs[i] \notin C!ToSet(states)
      <3> DEFINE K == {j \in 1..k : pairs[j] = pairs[i]}
      <3>1. K \in SUBSET Nat /\ K # {}
        OBVIOUS
      <3>2. PICK j \in K : \A l \in K : j <= l
        BY <3>1, LeastNat
      <3>3. j \in fresh
        <4>1. j \in DOMAIN pairs /\ pairs[j] = pairs[i] /\ j \in Nat
          BY <1>1, <3>2
        <4>2. \A l \in 1..(j - 1) : pairs[l] # pairs[j]
          <5> SUFFICES ASSUME NEW l \in 1..(j - 1), pairs[l] = pairs[j]
                       PROVE  FALSE
            OBVIOUS
          <5>1. l \in 1..k /\ l < j
            BY <1>1, <4>1
          <5>2. l \in K
            BY <4>1, <5>1
          <5> QED
            BY <3>2, <4>1, <5>1, <5>2
        <4> QED
          BY <2>2, <4>1, <4>2
      <3>4. pairs[j] = pairs[i]
        BY <3>2
      <3> HIDE DEF K, fresh, new, all
      <3>5. PICK l \in 1..Len(new) : new[l] = pairs[j]
        BY <1>2, <3>3
      <3> QED
        BY <1>4, <3>4, <3>5
    <2> QED
      BY <2>1, <2>2
  <1>6. ASSUME NEW i \in 1..k
        PROVE  /\ C!IdOf(all, pairs[i]) \in Nat /\ C!IdOf(all, pairs[i]) < Len(all)
               /\ all[C!IdOf(all, pairs[i]) + 1] = pairs[i]
    <2> HIDE DEF all
    <2> DEFINE j == CHOOSE j \in DOMAIN all : all[j] = pairs[i]
    <2>1. j \in 1..Len(all) /\ all[j] = pairs[i]
      BY <1>4, <1>5
    <2>2. C!IdOf(all, pairs[i]) = j - 1
      BY DEF C!IdOf
    <2>3. Len(all) \in Nat
      BY <1>4
    <2> HIDE DEF j
    <2> QED
      BY <2>1, <2>2, <2>3
  <1>7. d <= Len(all)
    <2>1. Len(new) \in Nat
      <3> HIDE DEF new
      <3> QED
        BY <1>2
    <2> HIDE DEF new, all, d
    <2> QED
      BY <1>1, <1>4, <2>1
  <1> HIDE DEF all
  <1>8. all \in Seq(S) /\ Holds(all, states, pairs)
    BY <1>4, <1>6, <1>7 DEF Holds
  <1> QED
    BY <1>8 DEF all

-----------------------------------------------------------------------------
\* Reading

\* The first k words of a text, or all of them.
Prefix(s, k) == SubSeq(s, 1, IF k <= Len(s) THEN k ELSE Len(s))

\* The tokens that are made from a text.
TokensOf(tokens, s) == tokens = s \/ tokens = Append(s, 0)

LEMMA PrefixFacts ==
    ASSUME NEW S, NEW s \in Seq(S), NEW k \in Nat
    PROVE  /\ Prefix(s, k) \in Seq(S)
           /\ Len(Prefix(s, k)) = IF k <= Len(s) THEN k ELSE Len(s)
           /\ Prefix(s, 0) = <<>> /\ Prefix(s, Len(s)) = s
           /\ k >= Len(s) => Prefix(s, k) = s
  <1> DEFINE d == Len(s)
  <1>1. d \in Nat /\ SubSeq(s, 1, d) = s /\ SubSeq(s, 1, 0) = <<>>
    OBVIOUS
  <1>2. \A j \in 0..d : SubSeq(s, 1, j) \in Seq(S) /\ Len(SubSeq(s, 1, j)) = j
    OBVIOUS
  <1> HIDE DEF d
  <1> DEFINE j == IF k <= d THEN k ELSE d
  <1>3. j \in 0..d /\ (k >= d => j = d)
    BY <1>1
  <1>4. Prefix(s, k) = SubSeq(s, 1, j) /\ Prefix(s, 0) = SubSeq(s, 1, 0)
        /\ Prefix(s, d) = SubSeq(s, 1, d)
    <2>1. 0 <= d /\ d <= d
      BY <1>1
    <2> QED
      BY <2>1 DEF Prefix, d
  <1> QED
    BY <1>1, <1>2, <1>3, <1>4 DEF d

\* Reading one more token.
LEMMA ReadsOn ==
    ASSUME NEW S, 0 \notin S, NEW s \in Seq(S), NEW tokens, TokensOf(tokens, s),
           NEW b \in Nat, b < Len(tokens)
    PROVE  /\ (tokens[b + 1] = 0) = (b = Len(s))
           /\ b # Len(s) => b < Len(s) /\ tokens[b + 1] = s[b + 1]
           /\ Prefix(s, b + 1) = Prefix(s, b) \o (IF tokens[b + 1] = 0 THEN <<>>
                                                  ELSE <<tokens[b + 1]>>)
  <1> DEFINE d == Len(s)
  <1>1. d \in Nat
    OBVIOUS
  <1>2. b <= d
    BY DEF TokensOf
  <1>3. CASE b = d
    <2>1. tokens = Append(s, 0)
      BY <1>3 DEF TokensOf
    <2>2. tokens[b + 1] = 0
      BY <1>3, <2>1
    <2>3. Prefix(s, b + 1) = s /\ Prefix(s, b) = s
      <3>1. b + 1 \in Nat /\ b + 1 >= d /\ b >= d
        BY <1>1, <1>3
      <3> QED
        BY <3>1, PrefixFacts
    <2>4. s \o <<>> = s
      OBVIOUS
    <2> QED
      BY <1>3, <2>2, <2>3, <2>4
  <1>4. CASE b # d
    <2>1. b < d /\ b + 1 \in 1..d /\ b + 1 <= d /\ b <= d
      BY <1>1, <1>2, <1>4
    <2>2. tokens[b + 1] = s[b + 1] /\ s[b + 1] \in S
      BY <2>1 DEF TokensOf
    <2>3. SubSeq(s, 1, b + 1) = SubSeq(s, 1, b) \o <<s[b + 1]>>
      BY <2>1
    <2>4. Prefix(s, b + 1) = SubSeq(s, 1, b + 1) /\ Prefix(s, b) = SubSeq(s, 1, b)
      BY <2>1 DEF Prefix
    <2> QED
      BY <1>4, <2>1, <2>2, <2>3, <2>4
  <1> QED
    BY <1>3, <1>4

-----------------------------------------------------------------------------
\* The answers of the compositions

RefTokens == IF composition_approach = "standard" THEN Append(ref, 0) ELSE ref

\* Whether the reference is the path of its words.
RefIsText == Plain \/ composition_approach = "standard"

\* What the texts are, and what holds of them when the reference is a path.
TextsTyped ==
    /\ composition_approach \in {"adapted", "standard"}
    /\ ref \in Seq(Word \ (SynonymLabel \cup {0}))
    /\ hyp \in Seq(Word \ (EntityLabel \cup SynonymLabel \cup {0}))
    /\ RefIsText => ref \in Seq(Word \ (EntityLabel \cup SynonymLabel \cup {0}))

\* The graphs, of which that of the reference has m states.
Graphs(m) ==
    /\ TextsTyped
    /\ IsFst(fstA, m)
    /\ RefIsText => IsLine(fstA, RefTokens, UsedRefMap)
    /\ IsLine(fstB, HypTokens, UsedHypMap)

Id == SomeLabel \cup {DelLabel}

\* What a proposal for the hypothesis in state b may do: stay and read nothing, or
\* read the next token; where that is marked, against the same word.
OnHyp(b, p) ==
    \/ p.pair[2] = b /\ (T!IsLabel(p.ilabel) \/ p.olabel = 0)
    \/ /\ b < Len(HypTokens) /\ p.pair[2] = b + 1
       /\ p.olabel = HypTokens[b + 1] /\ ~T!IsLabel(p.ilabel)
       /\ composition_approach = "adapted" /\ G!Weight(UsedHypMap, b + 1) = 1
            => p.ilabel = p.olabel

\* The same for the reference; a marked word may be deleted.
OnRef(a, p) ==
    \/ p.pair[1] = a /\ p.ilabel = 0
    \/ /\ a < Len(RefTokens) /\ p.pair[1] = a + 1 /\ p.ilabel = RefTokens[a + 1]
       /\ composition_approach = "adapted" /\ G!Weight(UsedRefMap, a + 1) = 1
            => p.olabel \in {p.ilabel, 0}

Answers(m, a, b) ==
    {p \in [ilabel : Id, olabel : Id, weight : Nat,
            pair : (0..(m - 1)) \X (0..Len(HypTokens))] :
       OnHyp(b, p) /\ (RefIsText => OnRef(a, p))}

\* An arc of the hypothesis graph.
LEMMA HypArc ==
    ASSUME NEW m, Graphs(m), NEW b \in 0..Len(HypTokens), NEW j \in DOMAIN fstB.arcs[b]
    PROVE  /\ b < Len(HypTokens) /\ b + 1 \in 0..Len(HypTokens) /\ j = 1
           /\ Len(HypTokens) \in Nat
           /\ fstB.arcs[b][j] = LineArc(HypTokens, UsedHypMap, b + 1)
           /\ HypTokens[b + 1] \in Id /\ ~T!IsLabel(HypTokens[b + 1])
  <1> DEFINE d == Len(HypTokens)
             Tok == (Word \cup {0}) \ (EntityLabel \cup SynonymLabel)
  <1>1. HypTokens \in Seq(Tok)
    <2>1. 0 \in Tok /\ hyp \in Seq(Tok)
      BY TextAssumption DEF Graphs, TextsTyped
    <2> HIDE DEF Tok
    <2> QED
      BY <2>1 DEF HypTokens, G!Eps
  <1>2. d \in Nat
    BY <1>1
  <1>3. fstB.arcs[b] = IF b < d THEN <<LineArc(HypTokens, UsedHypMap, b + 1)>> ELSE <<>>
    BY DEF Graphs, IsLine
  <1> HIDE DEF d
  <1>4. b < d /\ j = 1 /\ fstB.arcs[b][j] = LineArc(HypTokens, UsedHypMap, b + 1)
    BY <1>3
  <1>5. b + 1 \in 1..d /\ b + 1 \in 0..d
    BY <1>2, <1>4 DEF d
  <1>6. HypTokens[b + 1] \in Tok
    <2> HIDE DEF Tok
    <2> QED
      BY <1>1, <1>5 DEF d
  <1>7. HypTokens[b + 1] \in Id /\ ~T!IsLabel(HypTokens[b + 1])
    BY <1>6 DEF Id, SomeLabel, T!IsLabel
  <1> QED
    BY <1>2, <1>4, <1>5, <1>7 DEF d

\* An arc of the reference graph.
LEMMA RefArc ==
    ASSUME NEW m, Graphs(m), NEW a \in 0..(m - 1), NEW k \in DOMAIN fstA.arcs[a]
    PROVE  /\ fstA.arcs[a][k] \in ArcTo(m)
           /\ RefIsText =>
                /\ a < Len(RefTokens)
                /\ fstA.arcs[a][k] = LineArc(RefTokens, UsedRefMap, a + 1)
                /\ ~T!IsLabel(RefTokens[a + 1])
  <1>1. fstA.arcs[a] \in Seq(ArcTo(m))
    BY DEF Graphs, IsFst
  <1>2. fstA.arcs[a][k] \in ArcTo(m)
    BY <1>1
  <1>3. ASSUME RefIsText
        PROVE  /\ a < Len(RefTokens)
               /\ fstA.arcs[a][k] = LineArc(RefTokens, UsedRefMap, a + 1)
               /\ ~T!IsLabel(RefTokens[a + 1])
    <2> DEFINE d == Len(RefTokens)
               Tok == (Word \cup {0}) \ (EntityLabel \cup SynonymLabel)
    <2>1. RefTokens \in Seq(Tok)
      <3>1. 0 \in Tok /\ ref \in Seq(Tok)
        BY <1>3, TextAssumption DEF Graphs, TextsTyped
      <3> HIDE DEF Tok
      <3> QED
        BY <3>1 DEF RefTokens
    <2>2. d \in Nat
      BY <2>1
    <2>3. fstA.arcs = [s \in 0..d |-> IF s < d THEN <<LineArc(RefTokens, UsedRefMap, s + 1)>>
                                      ELSE <<>>]
      BY <1>3 DEF Graphs, IsLine
    <2>4. a \in 0..d
      <3>1. DOMAIN fstA.arcs = 0..(m - 1)
        BY DEF Graphs, IsFst
      <3>2. DOMAIN fstA.arcs = 0..d
        BY <2>3
      <3> QED
        BY <3>1, <3>2
    <2> HIDE DEF d
    <2>5. fstA.arcs[a] = IF a < d THEN <<LineArc(RefTokens, UsedRefMap, a + 1)>> ELSE <<>>
      BY <2>3, <2>4
    <2>6. a < d /\ k = 1 /\ fstA.arcs[a][k] = LineArc(RefTokens, UsedRefMap, a + 1)
      BY <2>5
    <2>7. a + 1 \in 1..d
      BY <2>2, <2>4, <2>6
    <2>8. RefTokens[a + 1] \in Tok
      <3> HIDE DEF Tok
      <3> QED
        BY <2>1, <2>7 DEF d
    <2> QED
      BY <2>6, <2>8 DEF T!IsLabel, d
  <1> QED
    BY <1>2, <1>3

LEMMA ZeroIsNoLabel == 0 \in Id /\ ~T!IsLabel(0) /\ DelLabel \in Id
  BY TextAssumption DEF Id, SomeLabel, T!IsLabel

\* A word of each side.
LEMMA PairAnswer ==
    ASSUME NEW m, Graphs(m), NEW a \in 0..(m - 1), NEW k \in DOMAIN fstA.arcs[a],
           NEW b \in 0..Len(HypTokens), NEW j \in DOMAIN fstB.arcs[b], NEW cost \in Nat,
           ~T!IsLabel(fstA.arcs[a][k].label),
           composition_approach = "adapted" =>
             \/ fstA.arcs[a][k].label = fstB.arcs[b][j].label
             \/ fstA.arcs[a][k].weight <= 0 /\ fstB.arcs[b][j].weight <= 0
    PROVE  C!Proposal(fstA.arcs[a][k].label, fstB.arcs[b][j].label, cost,
                      fstA.arcs[a][k].next, fstB.arcs[b][j].next) \in Answers(m, a, b)
  <1> DEFINE arcA == fstA.arcs[a][k]
             arcB == fstB.arcs[b][j]
             p == C!Proposal(arcA.label, arcB.label, cost, arcA.next, arcB.next)
  <1>1. /\ arcB = LineArc(HypTokens, UsedHypMap, b + 1) /\ b < Len(HypTokens)
        /\ b + 1 \in 0..Len(HypTokens) /\ HypTokens[b + 1] \in Id
    BY HypArc
  <1>2. /\ arcA \in ArcTo(m)
        /\ RefIsText => /\ a < Len(RefTokens)
                        /\ arcA = LineArc(RefTokens, UsedRefMap, a + 1)
    BY RefArc
  <1>3. ~T!IsLabel(arcA.label)
        /\ (composition_approach = "adapted" =>
              arcA.label = arcB.label \/ (arcA.weight <= 0 /\ arcB.weight <= 0))
    OBVIOUS
  <1> HIDE DEF arcA, arcB
  <1>4. p = [ilabel |-> arcA.label, olabel |-> arcB.label, weight |-> cost,
             pair |-> <<arcA.next, arcB.next>>]
    BY DEF C!Proposal
  <1> HIDE DEF p
  <1>5. /\ arcB.label = HypTokens[b + 1] /\ arcB.next = b + 1
        /\ arcB.weight = G!Weight(UsedHypMap, b + 1)
    BY <1>1 DEF LineArc
  <1>6. p \in [ilabel : Id, olabel : Id, weight : Nat,
               pair : (0..(m - 1)) \X (0..Len(HypTokens))]
    <2>1. arcA.label \in Id /\ arcA.next \in 0..(m - 1)
      BY <1>2 DEF ArcTo, Id
    <2> QED
      BY <1>1, <1>4, <1>5, <2>1
  <1>7. OnHyp(b, p)
    <2>1. p.pair[2] = b + 1 /\ p.olabel = HypTokens[b + 1] /\ p.ilabel = arcA.label
      BY <1>4, <1>5
    <2>2. composition_approach = "adapted" /\ G!Weight(UsedHypMap, b + 1) = 1
            => p.ilabel = p.olabel
      BY <1>3, <1>4, <1>5
    <2> QED
      BY <1>1, <1>3, <2>1, <2>2 DEF OnHyp
  <1>8. ASSUME RefIsText PROVE OnRef(a, p)
    <2>1. /\ a < Len(RefTokens) /\ arcA.label = RefTokens[a + 1] /\ arcA.next = a + 1
          /\ arcA.weight = G!Weight(UsedRefMap, a + 1)
      BY <1>2, <1>8 DEF LineArc
    <2>2. p.pair[1] = a + 1 /\ p.ilabel = RefTokens[a + 1]
      BY <1>4, <2>1
    <2>3. composition_approach = "adapted" /\ G!Weight(UsedRefMap, a + 1) = 1
            => p.olabel = p.ilabel
      BY <1>3, <1>4, <2>1
    <2> QED
      BY <2>1, <2>2, <2>3 DEF OnRef
  <1>9. p \in Answers(m, a, b)
    BY <1>6, <1>7, <1>8 DEF Answers
  <1> QED
    BY <1>9 DEF p, arcA, arcB

\* A word of the hypothesis, or its <eps>, alone.
LEMMA InsertAnswer ==
    ASSUME NEW m, Graphs(m), NEW a \in 0..(m - 1),
           NEW b \in 0..Len(HypTokens), NEW j \in DOMAIN fstB.arcs[b], NEW cost \in Nat,
           composition_approach = "adapted" => fstB.arcs[b][j].weight <= 0
    PROVE  C!Proposal(0, fstB.arcs[b][j].label, cost, a, fstB.arcs[b][j].next)
             \in Answers(m, a, b)
  <1> DEFINE arcB == fstB.arcs[b][j]
             p == C!Proposal(0, arcB.label, cost, a, arcB.next)
  <1>1. /\ arcB = LineArc(HypTokens, UsedHypMap, b + 1) /\ b < Len(HypTokens)
        /\ b + 1 \in 0..Len(HypTokens) /\ HypTokens[b + 1] \in Id
    BY HypArc
  <1>2. composition_approach = "adapted" => arcB.weight <= 0
    OBVIOUS
  <1> HIDE DEF arcB
  <1>3. p = [ilabel |-> 0, olabel |-> arcB.label, weight |-> cost, pair |-> <<a, arcB.next>>]
    BY DEF C!Proposal
  <1> HIDE DEF p
  <1>4. /\ arcB.label = HypTokens[b + 1] /\ arcB.next = b + 1
        /\ arcB.weight = G!Weight(UsedHypMap, b + 1)
    BY <1>1 DEF LineArc
  <1>5. p \in [ilabel : Id, olabel : Id, weight : Nat,
               pair : (0..(m - 1)) \X (0..Len(HypTokens))]
    BY <1>1, <1>3, <1>4, ZeroIsNoLabel
  <1>6. OnHyp(b, p)
    <2>1. p.pair[2] = b + 1 /\ p.olabel = HypTokens[b + 1] /\ ~T!IsLabel(p.ilabel)
      BY <1>3, <1>4, ZeroIsNoLabel
    <2>2. composition_approach = "adapted" => ~(G!Weight(UsedHypMap, b + 1) = 1)
      BY <1>2, <1>4
    <2> QED
      BY <1>1, <2>1, <2>2 DEF OnHyp
  <1>7. OnRef(a, p)
    BY <1>3 DEF OnRef
  <1>8. p \in Answers(m, a, b)
    BY <1>5, <1>6, <1>7 DEF Answers
  <1> QED
    BY <1>8 DEF p, arcB

\* A word of the reference, a class label or an <eps> alone.
LEMMA DeleteAnswer ==
    ASSUME NEW m, Graphs(m), NEW a \in 0..(m - 1), NEW k \in DOMAIN fstA.arcs[a],
           NEW b \in 0..Len(HypTokens), NEW o \in Id, NEW cost \in Nat,
           o = 0 \/ T!IsLabel(fstA.arcs[a][k].label)
    PROVE  C!Proposal(fstA.arcs[a][k].label, o, cost, fstA.arcs[a][k].next, b)
             \in Answers(m, a, b)
  <1> DEFINE arcA == fstA.arcs[a][k]
             p == C!Proposal(arcA.label, o, cost, arcA.next, b)
  <1>1. /\ arcA \in ArcTo(m)
        /\ RefIsText => /\ a < Len(RefTokens)
                        /\ arcA = LineArc(RefTokens, UsedRefMap, a + 1)
                        /\ ~T!IsLabel(RefTokens[a + 1])
    BY RefArc
  <1>2. o = 0 \/ T!IsLabel(arcA.label)
    OBVIOUS
  <1> HIDE DEF arcA
  <1>3. p = [ilabel |-> arcA.label, olabel |-> o, weight |-> cost, pair |-> <<arcA.next, b>>]
    BY DEF C!Proposal
  <1> HIDE DEF p
  <1>4. p \in [ilabel : Id, olabel : Id, weight : Nat,
               pair : (0..(m - 1)) \X (0..Len(HypTokens))]
    <2>1. arcA.label \in Id /\ arcA.next \in 0..(m - 1)
      BY <1>1 DEF ArcTo, Id
    <2> QED
      BY <1>3, <2>1
  <1>5. OnHyp(b, p)
    BY <1>2, <1>3 DEF OnHyp
  <1>6. ASSUME RefIsText PROVE OnRef(a, p)
    <2>1. /\ a < Len(RefTokens) /\ arcA.label = RefTokens[a + 1] /\ arcA.next = a + 1
          /\ ~T!IsLabel(arcA.label)
      BY <1>1, <1>6 DEF LineArc
    <2>2. p.pair[1] = a + 1 /\ p.ilabel = RefTokens[a + 1] /\ p.olabel = 0
      BY <1>2, <1>3, <2>1
    <2> QED
      BY <2>1, <2>2 DEF OnRef
  <1>7. p \in Answers(m, a, b)
    BY <1>4, <1>5, <1>6 DEF Answers
  <1> QED
    BY <1>7 DEF p, arcA

LEMMA WhenAnswers ==
    ASSUME NEW S, NEW s \in Seq(S), NEW c
    PROVE  C!When(c, s) \in Seq(S)
  <1>1. <<>> \in Seq(S)
    OBVIOUS
  <1> QED
    BY <1>1, CompOps DEF When

LEMMA SingleAnswer == ASSUME NEW S, NEW p \in S PROVE <<p>> \in Seq(S)
  OBVIOUS

\* A word against a word.
LEMMA AgainstType ==
    ASSUME NEW m, Graphs(m), composition_approach = "adapted",
           NEW a \in 0..(m - 1), NEW k \in DOMAIN fstA.arcs[a],
           NEW b \in 0..Len(HypTokens), NEW j \in DOMAIN fstB.arcs[b],
           C!IsWord(fstA.arcs[a][k])
    PROVE  C!Against(a, fstA.arcs[a][k], fstB.arcs[b][j]) \in Seq(Answers(m, a, b))
  <1> DEFINE arcA == fstA.arcs[a][k]
             arcB == fstB.arcs[b][j]
             S == Answers(m, a, b)
             match == <<C!Proposal(arcA.label, arcB.label, 0, arcA.next, arcB.next)>>
             insert == <<C!Insertion(a, arcB)>>
             subst == <<C!Proposal(arcA.label, arcB.label, C!substitution_cost,
                                   arcA.next, arcB.next)>>
             free == arcA.weight <= 0 /\ arcB.weight <= 0
  <1>1. ~T!IsLabel(arcA.label) /\ 0 \in Nat /\ C!substitution_cost \in Nat
        /\ C!insertion_cost \in Nat
    BY DEF C!IsWord, T!IsLabel, C!substitution_cost, C!insertion_cost
  <1>2. C!When(arcA.label = arcB.label, match) \in Seq(S)
    <2>1. CASE arcA.label = arcB.label
      <3>1. C!Proposal(arcA.label, arcB.label, 0, arcA.next, arcB.next) \in S
        BY <1>1, <2>1, PairAnswer
      <3> HIDE DEF S, arcA, arcB
      <3>2. match \in Seq(S)
        BY <3>1
      <3> HIDE DEF match
      <3> QED
        BY <3>2, WhenAnswers
    <2>2. CASE arcA.label # arcB.label
      <3>1. <<>> \in Seq(S)
        OBVIOUS
      <3> QED
        BY <2>2, <3>1, CompOps DEF When
    <2> QED
      BY <2>1, <2>2
  <1>3. C!When(arcB.weight <= 0, insert) \in Seq(S)
    <2>1. CASE arcB.weight <= 0
      <3>1. C!Proposal(0, arcB.label, C!insertion_cost, a, arcB.next) \in S
        BY <1>1, <2>1, InsertAnswer
      <3> HIDE DEF S, arcA, arcB
      <3>2. insert \in Seq(S)
        BY <3>1 DEF C!Insertion, C!Eps
      <3> HIDE DEF insert
      <3> QED
        BY <3>2, WhenAnswers
    <2>2. CASE ~(arcB.weight <= 0)
      <3>1. <<>> \in Seq(S)
        OBVIOUS
      <3> QED
        BY <2>2, <3>1, CompOps DEF When
    <2> QED
      BY <2>1, <2>2
  <1>4. C!When(free, subst) \in Seq(S)
    <2>1. CASE free
      <3>1. C!Proposal(arcA.label, arcB.label, C!substitution_cost, arcA.next, arcB.next) \in S
        BY <1>1, <2>1, PairAnswer
      <3> HIDE DEF S, arcA, arcB, free
      <3>2. subst \in Seq(S)
        BY <3>1
      <3> HIDE DEF subst
      <3> QED
        BY <3>2, WhenAnswers
    <2>2. CASE ~free
      <3>1. <<>> \in Seq(S)
        OBVIOUS
      <3> HIDE DEF free
      <3> QED
        BY <2>2, <3>1, CompOps DEF When
    <2> QED
      BY <2>1, <2>2
  <1>5. C!Against(a, arcA, arcB)
        = C!When(arcA.label = arcB.label, match) \o C!When(arcB.weight <= 0, insert)
          \o C!When(free, subst)
    BY DEF C!Against
  <1> HIDE DEF arcA, arcB, S, match, insert, subst, free
  <1>6. C!Against(a, arcA, arcB) \in Seq(S)
    BY <1>2, <1>3, <1>4, <1>5
  <1> QED
    BY <1>6 DEF arcA, arcB, S

\* What one arc of the reference contributes.
LEMMA ProposalsOfType ==
    ASSUME NEW m, Graphs(m), composition_approach = "adapted",
           NEW a \in 0..(m - 1), NEW k \in DOMAIN fstA.arcs[a],
           NEW b \in 0..Len(HypTokens)
    PROVE  C!ProposalsOf(a, b, k) \in Seq(Answers(m, a, b))
  <1> DEFINE arcA == fstA.arcs[a][k]
             S == Answers(m, a, b)
             word == C!FlattenSeq([j \in DOMAIN fstB.arcs[b] |->
                                     C!Against(a, arcA, fstB.arcs[b][j])])
             deleted == <<C!Proposal(arcA.label, C!Eps, C!deletion_cost, arcA.next, b)>>
             label == <<C!Proposal(arcA.label, DelLabel, 0, arcA.next, b)>>
             eps == <<C!Proposal(C!Eps, C!Eps, 0, arcA.next, b)>>
  <1>1. 0 \in Nat /\ C!deletion_cost \in Nat /\ C!Eps = 0
    BY DEF C!deletion_cost, C!Eps
  <1>2. CASE arcA.next = a
    <2>1. C!ProposalsOf(a, b, k) = <<>>
      BY <1>2 DEF C!ProposalsOf
    <2> QED
      BY <2>1
  <1>3. CASE arcA.next # a /\ arcA.label = C!Eps
    <2>1. C!Proposal(arcA.label, 0, 0, arcA.next, b) \in S
      BY <1>1, ZeroIsNoLabel, DeleteAnswer
    <2>2. C!ProposalsOf(a, b, k) = eps
      BY <1>3 DEF C!ProposalsOf
    <2>3. eps = <<C!Proposal(arcA.label, 0, 0, arcA.next, b)>>
      BY <1>1, <1>3
    <2> HIDE DEF arcA, S, eps
    <2>4. eps \in Seq(S)
      BY <2>1, <2>3, SingleAnswer
    <2> QED
      BY <2>2, <2>4 DEF S
  <1>4. CASE arcA.next # a /\ arcA.label # C!Eps /\ ~C!IsWord(arcA)
    <2>1. T!IsLabel(arcA.label)
      BY <1>4 DEF C!IsWord, T!IsLabel
    <2>2. C!Proposal(arcA.label, DelLabel, 0, arcA.next, b) \in S
      BY <1>1, <2>1, ZeroIsNoLabel, DeleteAnswer
    <2>3. C!ProposalsOf(a, b, k) = C!When(C!Enters(a, arcA, b), label)
      BY <1>4 DEF C!ProposalsOf
    <2> HIDE DEF arcA, S
    <2>4. label \in Seq(S)
      BY <2>2, SingleAnswer
    <2> HIDE DEF label
    <2>5. C!When(C!Enters(a, arcA, b), label) \in Seq(S)
      BY <2>4, WhenAnswers
    <2> QED
      BY <2>3, <2>5 DEF S
  <1>5. CASE arcA.next # a /\ arcA.label # C!Eps /\ C!IsWord(arcA)
    <2> DEFINE rest == C!When(C!NumMatch(a, b, k) = 0 \/ arcA.weight < 0, deleted)
    <2>1. C!Proposal(arcA.label, 0, C!deletion_cost, arcA.next, b) \in S
      BY <1>1, ZeroIsNoLabel, DeleteAnswer
    <2>2. C!ProposalsOf(a, b, k) = word \o rest
      BY <1>5 DEF C!ProposalsOf
    <2>3. rest \in Seq(S)
      <3> HIDE DEF arcA, S
      <3>1. deleted \in Seq(S)
        BY <1>1, <2>1, SingleAnswer
      <3> HIDE DEF deleted
      <3> QED
        BY <3>1, WhenAnswers
    <2>4. word \in Seq(S)
      <3> DEFINE d == Len(fstB.arcs[b])
                 of(j) == C!Against(a, arcA, fstB.arcs[b][j])
                 ss == [j \in 1..d |-> of(j)]
      <3>1. d \in Nat /\ DOMAIN fstB.arcs[b] = 1..d
        <4>1. fstB.arcs[b] = <<>> \/ \E e : fstB.arcs[b] = <<e>>
          BY DEF Graphs, IsLine
        <4> QED
          BY <4>1
      <3>2. \A j \in 1..d : of(j) \in Seq(S)
        BY <1>5, <3>1, AgainstType
      <3> HIDE DEF of, S, d
      <3>3. ss \in [1..d -> Seq(S)]
        BY <3>2
      <3> HIDE DEF ss
      <3>4. FlattenSeq(ss) \in Seq(S)
        BY <3>1, <3>3, FlattenType
      <3> QED
        BY <3>1, <3>4, CompOps DEF ss, of
    <2> HIDE DEF word, rest, S
    <2>5. word \o rest \in Seq(S)
      BY <2>3, <2>4
    <2> QED
      BY <2>2, <2>5 DEF S
  <1> QED
    BY <1>2, <1>3, <1>4, <1>5

\* The answer of the adapted composition.
LEMMA ProposalsType ==
    ASSUME NEW m, Graphs(m), composition_approach = "adapted", NEW s, NEW a \in 0..(m - 1),
           NEW b \in 0..Len(HypTokens), composed_states[s + 1] = <<a, b>>
    PROVE  C!Proposals(s) \in Seq(Answers(m, a, b))
  <1> DEFINE S == Answers(m, a, b)
             d == Len(fstA.arcs[a])
             of(k) == C!ProposalsOf(a, b, k)
             ss == [k \in 1..d |-> of(k)]
             arcsB == fstB.arcs[b]
             keep == {j \in DOMAIN arcsB : arcsB[j].weight <= 0}
             free == Those(arcsB, keep)
             inserted == [j \in DOMAIN free |-> C!Insertion(a, free[j])]
             R == {arcsB[i] : i \in keep \cap (1..Len(arcsB))}
  <1>1. fstA.arcs[a] \in Seq(ArcTo(m))
    BY DEF Graphs, IsFst
  <1>2. d \in Nat /\ DOMAIN fstA.arcs[a] = 1..d
    BY <1>1
  <1>3. \A k \in 1..d : of(k) \in Seq(S)
    BY <1>2, ProposalsOfType
  <1>4. FlattenSeq(ss) \in Seq(S)
    <2> HIDE DEF of, S, d
    <2>1. ss \in [1..d -> Seq(S)]
      BY <1>3
    <2> HIDE DEF ss
    <2> QED
      BY <1>2, <2>1, FlattenType
  <1>5. free \in Seq(R)
    <2>1. arcsB \in Seq({arcsB[i] : i \in DOMAIN arcsB})
      <3>1. arcsB = <<>> \/ \E e : arcsB = <<e>>
        BY DEF Graphs, IsLine
      <3> HIDE DEF arcsB
      <3>2. CASE arcsB = <<>>
        BY <3>2
      <3>3. ASSUME NEW e, arcsB = <<e>>
            PROVE  arcsB \in Seq({arcsB[i] : i \in DOMAIN arcsB})
        <4>1. DOMAIN arcsB = {1} /\ arcsB[1] = e
          BY <3>3
        <4>2. {arcsB[i] : i \in DOMAIN arcsB} = {e}
          BY <4>1
        <4>3. <<e>> \in Seq({e})
          OBVIOUS
        <4> QED
          BY <3>3, <4>2, <4>3
      <3> QED
        BY <3>1, <3>2, <3>3
    <2> HIDE DEF keep, arcsB
    <2> QED
      BY <2>1, ThoseFacts
  <1>6. \A r \in R : C!Insertion(a, r) \in S
    <2> SUFFICES ASSUME NEW i \in keep PROVE C!Insertion(a, arcsB[i]) \in S
      OBVIOUS
    <2>1. i \in DOMAIN fstB.arcs[b] /\ fstB.arcs[b][i].weight <= 0 /\ C!insertion_cost \in Nat
      BY DEF C!insertion_cost
    <2>2. C!Proposal(0, fstB.arcs[b][i].label, C!insertion_cost, a, fstB.arcs[b][i].next) \in S
      BY <2>1, InsertAnswer
    <2> QED
      BY <2>2 DEF C!Insertion, C!Eps
  <1>7. inserted \in Seq(S)
    <2> HIDE DEF free, R, S
    <2> QED
      BY <1>5, <1>6
  <1>8. C!Trailing(a, b) = C!When(fstA.arcs[a] = <<>>, inserted)
    BY CompOps DEF C!Trailing
  <1>9. C!Trailing(a, b) \in Seq(S)
    <2> HIDE DEF inserted, S
    <2>1. C!When(fstA.arcs[a] = <<>>, inserted) \in Seq(S)
      BY <1>7, WhenAnswers
    <2> QED
      BY <1>8, <2>1
  <1>10. C!Proposals(s) = FlattenSeq(ss) \o C!Trailing(a, b)
    <2>1. composed_states[s + 1][1] = a /\ composed_states[s + 1][2] = b
      OBVIOUS
    <2> HIDE DEF d
    <2> QED
      BY <1>2, <2>1, CompOps DEF C!Proposals
  <1> HIDE DEF ss, S
  <1>11. C!Proposals(s) \in Seq(S)
    BY <1>4, <1>9, <1>10
  <1> QED
    BY <1>11 DEF S

\* A word of the reference in standard composition.
LEMMA OfReferenceType ==
    ASSUME NEW m, Graphs(m), composition_approach = "standard",
           NEW a \in 0..(m - 1), NEW k \in DOMAIN fstA.arcs[a],
           NEW b \in 0..Len(HypTokens)
    PROVE  C!OfReference(a, fstA.arcs[a][k], b) \in Seq(Answers(m, a, b))
  <1> DEFINE arcA == fstA.arcs[a][k]
             arcsB == fstB.arcs[b]
             S == Answers(m, a, b)
             keep == {j \in DOMAIN arcsB : arcsB[j].label # C!Eps}
             words == Those(arcsB, keep)
             R == {arcsB[i] : i \in keep \cap (1..Len(arcsB))}
             eps == <<C!Proposal(C!Eps, C!Eps, 0, arcA.next, b)>>
             deletion == <<C!Proposal(arcA.label, C!Eps, C!WeightOf(arcA) + C!deletion_cost,
                                      arcA.next, b)>>
             d == Len(words)
             of(j) == C!WordAgainst(arcA, words[j])
             ss == [j \in 1..d |-> of(j)]
  <1>1. arcA \in ArcTo(m) /\ ~T!IsLabel(arcA.label)
    <2>1. RefIsText
      BY DEF RefIsText
    <2>2. arcA \in ArcTo(m) /\ arcA = LineArc(RefTokens, UsedRefMap, a + 1)
          /\ ~T!IsLabel(RefTokens[a + 1])
      BY <2>1, RefArc
    <2>3. arcA.label = RefTokens[a + 1]
      BY <2>2 DEF LineArc
    <2> QED
      BY <2>2, <2>3
  <1>2. /\ C!WeightOf(arcA) \in Nat /\ C!deletion_cost \in Nat /\ C!substitution_cost \in Nat
        /\ C!Eps = 0
    <2>1. arcA.weight \in {0, 1}
      BY <1>1 DEF ArcTo
    <2> HIDE DEF arcA
    <2> QED
      BY <2>1 DEF C!WeightOf, C!deletion_cost, C!substitution_cost, C!Eps
  <1>3. ASSUME NEW r \in R
        PROVE  C!WordAgainst(arcA, r) \in Seq(S)
    <2>1. PICK j \in keep : r = arcsB[j]
      OBVIOUS
    <2>2. j \in DOMAIN fstB.arcs[b] /\ r = fstB.arcs[b][j]
      BY <2>1
    <2>3. C!WeightOf(r) \in Nat
      <3>1. r = LineArc(HypTokens, UsedHypMap, b + 1)
        BY <2>2, HypArc
      <3>2. r.weight \in {0, 1}
        BY <3>1, WeightType DEF LineArc
      <3> QED
        BY <3>2 DEF C!WeightOf
    <2> DEFINE u == C!WeightOf(arcA) + C!WeightOf(r)
               u2 == u + C!substitution_cost
               match == <<C!Proposal(arcA.label, r.label, u, arcA.next, r.next)>>
               subst == <<C!Proposal(arcA.label, r.label, u2, arcA.next, r.next)>>
    <2>4. u \in Nat /\ u2 \in Nat
      <3> HIDE DEF arcA, R
      <3> QED
        BY <1>2, <2>3
    <2> HIDE DEF u, u2
    <2>5. C!Proposal(arcA.label, r.label, u, arcA.next, r.next) \in S
      BY <1>1, <2>2, <2>4, PairAnswer
    <2>6. C!Proposal(arcA.label, r.label, u2, arcA.next, r.next) \in S
      BY <1>1, <2>2, <2>4, PairAnswer
    <2>7. C!WordAgainst(arcA, r) = C!When(arcA.label = r.label, match) \o subst
      BY DEF C!WordAgainst, u, u2
    <2> HIDE DEF arcA, S, R
    <2>8. match \in Seq(S) /\ subst \in Seq(S)
      BY <2>5, <2>6, SingleAnswer
    <2> HIDE DEF match, subst
    <2>9. C!When(arcA.label = r.label, match) \in Seq(S)
      BY <2>8, WhenAnswers
    <2> QED
      BY <2>7, <2>8, <2>9
  <1>4. words \in Seq(R)
    <2>1. arcsB \in Seq({arcsB[i] : i \in DOMAIN arcsB})
      <3>1. arcsB = <<>> \/ \E e : arcsB = <<e>>
        BY DEF Graphs, IsLine
      <3> HIDE DEF arcsB
      <3>2. CASE arcsB = <<>>
        BY <3>2
      <3>3. ASSUME NEW e, arcsB = <<e>>
            PROVE  arcsB \in Seq({arcsB[i] : i \in DOMAIN arcsB})
        <4>1. DOMAIN arcsB = {1} /\ arcsB[1] = e
          BY <3>3
        <4>2. {arcsB[i] : i \in DOMAIN arcsB} = {e}
          BY <4>1
        <4>3. <<e>> \in Seq({e})
          OBVIOUS
        <4> QED
          BY <3>3, <4>2, <4>3
      <3> QED
        BY <3>1, <3>2, <3>3
    <2> HIDE DEF keep, arcsB
    <2> QED
      BY <2>1, ThoseFacts
  <1>5. FlattenSeq(ss) \in Seq(S)
    <2> HIDE DEF words, R, S, arcA
    <2>1. d \in Nat /\ \A j \in 1..d : of(j) \in Seq(S)
      BY <1>3, <1>4
    <2> HIDE DEF d, of
    <2>2. ss \in [1..d -> Seq(S)]
      BY <2>1
    <2> HIDE DEF ss
    <2> QED
      BY <2>1, <2>2, FlattenType
  <1>6. CASE arcA.label = C!Eps
    <2>1. C!Proposal(arcA.label, 0, 0, arcA.next, b) \in S
      BY <1>2, ZeroIsNoLabel, DeleteAnswer
    <2>2. C!OfReference(a, arcA, b) = eps
      BY <1>6 DEF C!OfReference
    <2>3. eps = <<C!Proposal(arcA.label, 0, 0, arcA.next, b)>>
      BY <1>2, <1>6
    <2> HIDE DEF eps, S, arcA
    <2>4. eps \in Seq(S)
      BY <2>1, <2>3, SingleAnswer
    <2> QED
      BY <2>2, <2>4 DEF S, arcA
  <1>7. CASE arcA.label # C!Eps
    <2> DEFINE cost == C!WeightOf(arcA) + C!deletion_cost
               rest == C!When(~C!BehindEps(b), deletion)
    <2>1. cost \in Nat
      <3> HIDE DEF arcA
      <3> QED
        BY <1>2
    <2>2. C!Proposal(arcA.label, 0, cost, arcA.next, b) \in S
      <3> HIDE DEF cost
      <3> QED
        BY <2>1, ZeroIsNoLabel, DeleteAnswer
    <2>3. C!OfReference(a, arcA, b) = FlattenSeq(ss) \o rest
      <3>1. DOMAIN words = 1..d
        <4> HIDE DEF words, R
        <4> QED
          BY <1>4
      <3> HIDE DEF d
      <3> QED
        BY <1>7, <3>1, CompOps DEF C!OfReference
    <2>4. rest \in Seq(S)
      <3> HIDE DEF arcA, S
      <3>1. deletion \in Seq(S)
        BY <1>2, <2>2, SingleAnswer
      <3> HIDE DEF deletion
      <3> QED
        BY <3>1, WhenAnswers
    <2> HIDE DEF ss, rest, S, arcA
    <2>5. FlattenSeq(ss) \o rest \in Seq(S)
      BY <1>5, <2>4
    <2> QED
      BY <2>3, <2>5 DEF S, arcA
  <1> QED
    BY <1>6, <1>7

\* The answer of the standard composition.
LEMMA StandardType ==
    ASSUME NEW m, Graphs(m), composition_approach = "standard", NEW s, NEW a \in 0..(m - 1),
           NEW b \in 0..Len(HypTokens), composed_states[s + 1] = <<a, b>>
    PROVE  C!StandardProposals(s) \in Seq(Answers(m, a, b))
  <1> DEFINE S == Answers(m, a, b)
             arcsB == fstB.arcs[b]
             d == Len(fstA.arcs[a])
             of(k) == C!OfReference(a, fstA.arcs[a][k], b)
             ss == [k \in 1..d |-> of(k)]
             f == Len(arcsB)
             one(j) == C!OfHypothesis(a, arcsB[j])
             tt == [j \in 1..f |-> one(j)]
  <1>1. d \in Nat /\ DOMAIN fstA.arcs[a] = 1..d
    <2>1. fstA.arcs[a] \in Seq(ArcTo(m))
      BY DEF Graphs, IsFst
    <2> QED
      BY <2>1
  <1>2. f \in Nat /\ DOMAIN arcsB = 1..f
    <2>1. arcsB = <<>> \/ \E e : arcsB = <<e>>
      BY DEF Graphs, IsLine
    <2> HIDE DEF arcsB
    <2> QED
      BY <2>1
  <1>3. FlattenSeq(ss) \in Seq(S)
    <2>1. \A k \in 1..d : of(k) \in Seq(S)
      BY <1>1, OfReferenceType
    <2> HIDE DEF of, S, d
    <2>2. ss \in [1..d -> Seq(S)]
      BY <2>1
    <2> HIDE DEF ss
    <2> QED
      BY <1>1, <2>2, FlattenType
  <1>4. ASSUME NEW j \in 1..f
        PROVE  one(j) \in Seq(S)
    <2>1. j \in DOMAIN fstB.arcs[b]
      BY <1>2
    <2> DEFINE arcB == fstB.arcs[b][j]
               cost == IF arcB.label = C!Eps THEN 0 ELSE C!WeightOf(arcB) + C!insertion_cost
    <2>2. cost \in Nat
      <3>1. arcB = LineArc(HypTokens, UsedHypMap, b + 1)
        BY <2>1, HypArc
      <3>2. arcB.weight \in {0, 1}
        BY <3>1, WeightType DEF LineArc
      <3> HIDE DEF arcB
      <3>3. C!WeightOf(arcB) + C!insertion_cost \in Nat
        BY <3>2 DEF C!WeightOf, C!insertion_cost
      <3> QED
        BY <3>3
    <2>3. C!Proposal(0, arcB.label, cost, a, arcB.next) \in S
      <3> HIDE DEF cost
      <3> QED
        BY <2>1, <2>2, InsertAnswer
    <2>4. one(j) = <<C!Proposal(0, arcB.label, cost, a, arcB.next)>>
      BY DEF C!OfHypothesis, C!Eps
    <2> HIDE DEF one, arcB, cost, S
    <2> QED
      BY <2>3, <2>4, SingleAnswer
  <1>5. FlattenSeq(tt) \in Seq(S)
    <2> HIDE DEF one, S, f
    <2>1. tt \in [1..f -> Seq(S)]
      BY <1>4
    <2> HIDE DEF tt
    <2> QED
      BY <1>2, <2>1, FlattenType
  <1>6. C!When(~C!OnlyEps(a), FlattenSeq(tt)) \in Seq(S)
    <2> HIDE DEF tt, S
    <2> QED
      BY <1>5, WhenAnswers
  <1>7. C!StandardProposals(s) = FlattenSeq(ss) \o C!When(~C!OnlyEps(a), FlattenSeq(tt))
    <2>1. composed_states[s + 1][1] = a /\ composed_states[s + 1][2] = b
      OBVIOUS
    <2> HIDE DEF d, f
    <2> QED
      BY <1>1, <1>2, <2>1, CompOps DEF C!StandardProposals
  <1> HIDE DEF ss, tt, S
  <1>8. C!StandardProposals(s) \in Seq(S)
    BY <1>3, <1>6, <1>7
  <1> QED
    BY <1>8 DEF S

-----------------------------------------------------------------------------
\* Chains

MyArc == [ilabel : Id, olabel : Id, weight : Nat, next : Nat]
MyNode == [state : Nat, words : Nat, errors : Nat, cost : Nat, arc : MyArc]

\* The pair that a chain has come to.
At(e) == composed_states[W!Tip(e).state + 1]

\* Arc k of a chain respects the marks of the first pass.
RespectsMarks(e, k) ==
    LET arc == e[k].arc
        upTo == SubSeq(e, 1, k)
        marked(map, read) == map # <<>> /\ map[Len(read)] > 0
    IN  /\ Read(arc, arc.olabel) # <<>> /\ marked(hypMap, HypRead(upTo))
             => arc.ilabel = arc.olabel
        /\ Plain /\ Read(arc, arc.ilabel) # <<>> /\ marked(refMap, RefRead(upTo))
             => arc.olabel \in {arc.ilabel, 0}

MarksRespected(e) ==
    useMaps /\ composition_approach = "adapted" => \A k \in 2..Len(e) : RespectsMarks(e, k)

\* A chain has read what is in front of the pair that it has come to.
EntryOK(e) ==
    /\ e \in Seq(MyNode) /\ e # <<>>
    /\ W!Tip(e).state < Len(composed_states)
    /\ HypRead(e) = Prefix(hyp, At(e)[2])
    /\ RefIsText => RefRead(e) = Prefix(ref, At(e)[1])
    /\ MarksRespected(e)

\* An arc as the proposal that it was made from.
AsProposal(arc) ==
    [ilabel |-> arc.ilabel, olabel |-> arc.olabel, weight |-> arc.weight,
     pair |-> composed_states[arc.next + 1]]

ArcOK(m, pair, arc) ==
    /\ arc \in MyArc /\ arc.next < Len(composed_states)
    /\ AsProposal(arc) \in Answers(m, pair[1], pair[2])

\* What an alignment reads.
TopOK(e) ==
    /\ e \in Seq(MyNode) /\ e # <<>>
    /\ HypRead(e) = hyp
    /\ RefIsText => RefRead(e) = ref
    /\ MarksRespected(e)

Alignments == {e \in Seq(MyNode) : TopOK(e)}

\* The maps have one mark for each word.
MapsTyped ==
    /\ refMap \in Seq(Int) /\ (refMap # <<>> => Len(refMap) = Len(ref))
    /\ hypMap \in Seq(Int) /\ (hypMap # <<>> => Len(hypMap) = Len(hyp))

LEMMA ReadType1 ==
    ASSUME NEW arc, NEW l \in Id
    PROVE  Read(arc, l) \in Seq(Id)
  BY DEF Read

LEMMA ArcsOfFacts ==
    ASSUME NEW e \in Seq(MyNode), e # <<>>, NEW nd \in MyNode
    PROVE  /\ ArcsOf(e) \in Seq(MyArc)
           /\ ArcsOf(Append(e, nd)) = Append(ArcsOf(e), nd.arc)
           /\ nd.arc \in MyArc
  <1> DEFINE d == Len(e)
             f == Append(e, nd)
  <1>1. d \in Nat \ {0} /\ Len(f) = d + 1 /\ f[d + 1] = nd
    OBVIOUS
  <1>2. \A k \in 1..d : f[k] = e[k] /\ e[k] \in MyNode
    OBVIOUS
  <1>3. nd.arc \in MyArc /\ \A k \in 1..d : e[k].arc \in MyArc
    BY <1>2 DEF MyNode
  <1> HIDE DEF d, f
  <1>4. ArcsOf(e) = [k \in 1..(d - 1) |-> e[k + 1].arc]
    BY DEF ArcsOf, d
  <1>5. ArcsOf(f) = [k \in 1..d |-> f[k + 1].arc]
    BY <1>1 DEF ArcsOf
  <1>6. ArcsOf(e) \in Seq(MyArc) /\ Len(ArcsOf(e)) = d - 1
    BY <1>1, <1>3, <1>4
  <1>7. ArcsOf(f) = Append(ArcsOf(e), nd.arc)
    <2>1. \A k \in 1..(d - 1) : f[k + 1].arc = ArcsOf(e)[k]
      BY <1>1, <1>2, <1>4
    <2>2. f[d + 1].arc = nd.arc
      BY <1>1
    <2> DEFINE s == ArcsOf(e)
               t == Append(s, nd.arc)
    <2>3. s \in Seq(MyArc) /\ Len(s) = d - 1
      BY <1>6
    <2> HIDE DEF s
    <2>4. /\ t \in Seq(MyArc) /\ Len(t) = d /\ t[d] = nd.arc
          /\ \A k \in 1..(d - 1) : t[k] = s[k]
      BY <1>1, <1>3, <2>3
    <2> HIDE DEF t
    <2>5. t = [k \in 1..d |-> t[k]]
      BY <1>1, <2>4
    <2>6. \A k \in 1..d : t[k] = f[k + 1].arc
      <3> SUFFICES ASSUME NEW k \in 1..d PROVE t[k] = f[k + 1].arc
        OBVIOUS
      <3>1. k = d \/ k \in 1..(d - 1)
        BY <1>1
      <3> QED
        BY <3>1, <2>1, <2>2, <2>4 DEF s
    <2> QED
      BY <1>5, <2>5, <2>6 DEF s, t
  <1> QED
    BY <1>3, <1>6, <1>7 DEF f

\* What a chain reads with one more arc.
LEMMA ReadAppend ==
    ASSUME NEW e \in Seq(MyNode), e # <<>>, NEW nd \in MyNode
    PROVE  /\ HypRead(Append(e, nd)) = HypRead(e) \o Read(nd.arc, nd.arc.olabel)
           /\ RefRead(Append(e, nd)) = RefRead(e) \o Read(nd.arc, nd.arc.ilabel)
  <1> DEFINE s == ArcsOf(e)
             d == Len(s)
             t == Append(s, nd.arc)
             H(arc) == Read(arc, arc.olabel)
             I(arc) == Read(arc, arc.ilabel)
  <1>1. s \in Seq(MyArc) /\ ArcsOf(Append(e, nd)) = t /\ nd.arc \in MyArc
    BY ArcsOfFacts
  <1> HIDE DEF s
  <1>2. /\ d \in Nat /\ DOMAIN s = 1..d /\ DOMAIN t = 1..(d + 1) /\ t[d + 1] = nd.arc
        /\ \A k \in 1..d : t[k] = s[k] /\ s[k] \in MyArc
    BY <1>1
  <1>3. \A arc \in MyArc : H(arc) \in Seq(Id) /\ I(arc) \in Seq(Id)
    BY ReadType1 DEF MyArc
  <1> HIDE DEF t, d, H, I
  <1>4. HypRead(Append(e, nd)) = HypRead(e) \o H(nd.arc)
    <2> DEFINE ss == [k \in 1..d |-> H(s[k])]
               tt == [k \in 1..(d + 1) |-> H(t[k])]
    <2>1. HypRead(e) = FlattenSeq(ss)
      BY <1>2 DEF HypRead, s, H
    <2>2. HypRead(Append(e, nd)) = FlattenSeq(tt)
      <3>1. DOMAIN ArcsOf(Append(e, nd)) = 1..(d + 1)
        BY <1>1, <1>2
      <3> QED
        BY <1>1, <3>1 DEF HypRead, H
    <2>3. ss \in Seq(Seq(Id)) /\ Len(ss) = d /\ H(nd.arc) \in Seq(Id)
      BY <1>1, <1>2, <1>3
    <2>4. tt = Append(ss, H(nd.arc))
      <3>1. \A k \in 1..d : tt[k] = ss[k]
        BY <1>2
      <3>2. tt[d + 1] = H(nd.arc)
        BY <1>2
      <3>3. tt \in Seq(Seq(Id)) /\ Len(tt) = d + 1
        <4>1. \A k \in 1..(d + 1) : t[k] \in MyArc
          <5>1. \A k \in 1..(d + 1) : k = d + 1 \/ k \in 1..d
            BY <1>2
          <5> QED
            BY <5>1, <1>1, <1>2
        <4>2. \A k \in 1..(d + 1) : H(t[k]) \in Seq(Id)
          BY <1>3, <4>1
        <4>3. tt \in [1..(d + 1) -> Seq(Id)] /\ d + 1 \in Nat
          BY <1>2, <4>2
        <4> HIDE DEF tt
        <4> QED
          BY <4>3, FlattenType
      <3> HIDE DEF ss, tt
      <3> QED
        BY <1>2, <2>3, <3>1, <3>2, <3>3
    <2> HIDE DEF ss, tt
    <2> QED
      BY <2>1, <2>2, <2>3, <2>4, FlattenAppend
  <1>5. RefRead(Append(e, nd)) = RefRead(e) \o I(nd.arc)
    <2> DEFINE ss == [k \in 1..d |-> I(s[k])]
               tt == [k \in 1..(d + 1) |-> I(t[k])]
    <2>1. RefRead(e) = FlattenSeq(ss)
      BY <1>2 DEF RefRead, s, I
    <2>2. RefRead(Append(e, nd)) = FlattenSeq(tt)
      <3>1. DOMAIN ArcsOf(Append(e, nd)) = 1..(d + 1)
        BY <1>1, <1>2
      <3> QED
        BY <1>1, <3>1 DEF RefRead, I
    <2>3. ss \in Seq(Seq(Id)) /\ Len(ss) = d /\ I(nd.arc) \in Seq(Id)
      BY <1>1, <1>2, <1>3
    <2>4. tt = Append(ss, I(nd.arc))
      <3>1. \A k \in 1..d : tt[k] = ss[k]
        BY <1>2
      <3>2. tt[d + 1] = I(nd.arc)
        BY <1>2
      <3>3. tt \in Seq(Seq(Id)) /\ Len(tt) = d + 1
        <4>1. \A k \in 1..(d + 1) : t[k] \in MyArc
          <5>1. \A k \in 1..(d + 1) : k = d + 1 \/ k \in 1..d
            BY <1>2
          <5> QED
            BY <5>1, <1>1, <1>2
        <4>2. \A k \in 1..(d + 1) : I(t[k]) \in Seq(Id)
          BY <1>3, <4>1
        <4>3. tt \in [1..(d + 1) -> Seq(Id)] /\ d + 1 \in Nat
          BY <1>2, <4>2
        <4> HIDE DEF tt
        <4> QED
          BY <4>3, FlattenType
      <3> HIDE DEF ss, tt
      <3> QED
        BY <1>2, <2>3, <3>1, <3>2, <3>3
    <2> HIDE DEF ss, tt
    <2> QED
      BY <2>1, <2>2, <2>3, <2>4, FlattenAppend
  <1> QED
    BY <1>4, <1>5 DEF H, I

\* What the hypothesis reads with a proposal.
LEMMA HypStep ==
    ASSUME TextsTyped, MapsTyped, NEW b \in 0..Len(HypTokens), NEW p, OnHyp(b, p)
    PROVE  /\ Prefix(hyp, p.pair[2]) = Prefix(hyp, b) \o Read(p, p.olabel)
           /\ /\ useMaps /\ composition_approach = "adapted"
              /\ Read(p, p.olabel) # <<>> /\ hypMap # <<>>
              /\ hypMap[Len(Prefix(hyp, p.pair[2]))] > 0
              => p.ilabel = p.olabel
  <1> DEFINE S == Word \ (EntityLabel \cup SynonymLabel \cup {0})
             d == Len(hyp)
  <1>1. hyp \in Seq(S) /\ 0 \notin S /\ d \in Nat /\ TokensOf(HypTokens, hyp)
    BY DEF TextsTyped, TokensOf, HypTokens, G!Eps
  <1>2. Len(HypTokens) \in Nat /\ b \in Nat
    BY <1>1 DEF TokensOf
  <1> HIDE DEF S
  <1>3. CASE p.pair[2] = b /\ (T!IsLabel(p.ilabel) \/ p.olabel = 0)
    <2>1. Read(p, p.olabel) = <<>>
      BY <1>3 DEF Read
    <2>2. Prefix(hyp, b) \in Seq(S)
      BY <1>1, <1>2, PrefixFacts
    <2>3. Prefix(hyp, b) \o <<>> = Prefix(hyp, b)
      BY <2>2
    <2> QED
      BY <1>3, <2>1, <2>3
  <1>4. CASE /\ b < Len(HypTokens) /\ p.pair[2] = b + 1
             /\ p.olabel = HypTokens[b + 1] /\ ~T!IsLabel(p.ilabel)
             /\ composition_approach = "adapted" /\ G!Weight(UsedHypMap, b + 1) = 1
                  => p.ilabel = p.olabel
    <2>1. Read(p, p.olabel) = IF HypTokens[b + 1] = 0 THEN <<>> ELSE <<HypTokens[b + 1]>>
      BY <1>4 DEF Read
    <2>2. /\ (HypTokens[b + 1] = 0) = (b = d)
          /\ b # d => b < d
          /\ Prefix(hyp, b + 1) = Prefix(hyp, b) \o (IF HypTokens[b + 1] = 0 THEN <<>>
                                                     ELSE <<HypTokens[b + 1]>>)
      BY <1>1, <1>2, <1>4, ReadsOn
    <2>3. ASSUME useMaps, composition_approach = "adapted", Read(p, p.olabel) # <<>>,
                 hypMap # <<>>, hypMap[Len(Prefix(hyp, p.pair[2]))] > 0
          PROVE  p.ilabel = p.olabel
      <3>1. b < d
        BY <2>1, <2>2, <2>3
      <3>2. b + 1 \in Nat /\ b + 1 <= d
        BY <1>1, <1>2, <3>1
      <3>3. Len(Prefix(hyp, b + 1)) = b + 1
        BY <1>1, <3>2, PrefixFacts
      <3>4. hypMap[b + 1] > 0 /\ Len(hypMap) = d
        BY <1>4, <2>3, <3>3 DEF MapsTyped
      <3>5. UsedHypMap = hypMap
        BY <2>3 DEF UsedHypMap
      <3>6. G!Weight(UsedHypMap, b + 1) = 1
        BY <3>2, <3>4, <3>5 DEF G!Weight
      <3> QED
        BY <1>4, <2>3, <3>6
    <2> QED
      BY <1>4, <2>1, <2>2, <2>3
  <1> QED
    BY <1>3, <1>4 DEF OnHyp

\* The same for the reference.
LEMMA RefStep ==
    ASSUME TextsTyped, MapsTyped, RefIsText, NEW a \in 0..Len(RefTokens), NEW p, OnRef(a, p)
    PROVE  /\ Prefix(ref, p.pair[1]) = Prefix(ref, a) \o Read(p, p.ilabel)
           /\ /\ useMaps /\ composition_approach = "adapted"
              /\ Read(p, p.ilabel) # <<>> /\ refMap # <<>>
              /\ refMap[Len(Prefix(ref, p.pair[1]))] > 0
              => p.olabel \in {p.ilabel, 0}
  <1> DEFINE S == Word \ (EntityLabel \cup SynonymLabel \cup {0})
             d == Len(ref)
  <1>1. ref \in Seq(S) /\ 0 \notin S /\ d \in Nat /\ TokensOf(RefTokens, ref)
    BY DEF TextsTyped, TokensOf, RefTokens
  <1>2. Len(RefTokens) \in Nat /\ a \in Nat
    BY <1>1 DEF TokensOf
  <1>3. \A l \in S : ~T!IsLabel(l)
    BY DEF T!IsLabel
  <1> HIDE DEF S
  <1>4. CASE p.pair[1] = a /\ p.ilabel = 0
    <2>1. Read(p, p.ilabel) = <<>>
      BY <1>4 DEF Read
    <2>2. Prefix(ref, a) \in Seq(S)
      BY <1>1, <1>2, PrefixFacts
    <2>3. Prefix(ref, a) \o <<>> = Prefix(ref, a)
      BY <2>2
    <2> QED
      BY <1>4, <2>1, <2>3
  <1>5. CASE /\ a < Len(RefTokens) /\ p.pair[1] = a + 1 /\ p.ilabel = RefTokens[a + 1]
             /\ composition_approach = "adapted" /\ G!Weight(UsedRefMap, a + 1) = 1
                  => p.olabel \in {p.ilabel, 0}
    <2>1. /\ (RefTokens[a + 1] = 0) = (a = d)
          /\ a # d => a < d /\ RefTokens[a + 1] = ref[a + 1]
          /\ Prefix(ref, a + 1) = Prefix(ref, a) \o (IF RefTokens[a + 1] = 0 THEN <<>>
                                                     ELSE <<RefTokens[a + 1]>>)
      <3>1. a < Len(RefTokens)
        BY <1>5
      <3> QED
        BY ONLY <1>1, <1>2, <3>1, ReadsOn
    <2>2. RefTokens[a + 1] # 0 => ~T!IsLabel(RefTokens[a + 1])
      <3> SUFFICES ASSUME RefTokens[a + 1] # 0 PROVE ~T!IsLabel(RefTokens[a + 1])
        OBVIOUS
      <3>1. a < d /\ RefTokens[a + 1] = ref[a + 1]
        BY <2>1
      <3>2. a + 1 \in 1..d
        BY <1>1, <1>2, <3>1
      <3>3. ref[a + 1] \in S
        BY <1>1, <3>2
      <3> QED
        BY <1>3, <3>1, <3>3
    <2>3. Read(p, p.ilabel) = IF RefTokens[a + 1] = 0 THEN <<>> ELSE <<RefTokens[a + 1]>>
      BY <1>5, <2>2 DEF Read
    <2>4. ASSUME useMaps, composition_approach = "adapted", Read(p, p.ilabel) # <<>>,
                 refMap # <<>>, refMap[Len(Prefix(ref, p.pair[1]))] > 0
          PROVE  p.olabel \in {p.ilabel, 0}
      <3>1. a < d
        BY <2>1, <2>3, <2>4
      <3>2. a + 1 \in Nat /\ a + 1 <= d
        BY <1>1, <1>2, <3>1
      <3>3. Len(Prefix(ref, a + 1)) = a + 1
        BY <1>1, <3>2, PrefixFacts
      <3>4. refMap[a + 1] > 0 /\ Len(refMap) = d
        BY <1>5, <2>4, <3>3 DEF MapsTyped
      <3>5. UsedRefMap = refMap
        BY <2>4 DEF UsedRefMap
      <3>6. G!Weight(UsedRefMap, a + 1) = 1
        BY <3>2, <3>4, <3>5 DEF G!Weight
      <3> QED
        BY <1>5, <2>4, <3>6
    <2> QED
      BY <1>5, <2>1, <2>3, <2>4
  <1> QED
    BY <1>4, <1>5 DEF OnRef

\* The pairs of states that the composed states stand for.
Pairs(m) == (0..(m - 1)) \X (0..Len(HypTokens))

\* Where the reference is a path, it has one state more than tokens.
LEMMA RefStates ==
    ASSUME NEW m, Graphs(m), RefIsText
    PROVE  0..(m - 1) = 0..Len(RefTokens)
  <1>1. DOMAIN fstA.arcs = 0..(m - 1)
    BY DEF Graphs, IsFst
  <1>2. DOMAIN fstA.arcs = 0..Len(RefTokens)
    BY DEF Graphs, IsLine
  <1> QED
    BY <1>1, <1>2

\* A chain that goes on with an arc of the answer goes on reading.
LEMMA ExtendOK ==
    ASSUME NEW m, Graphs(m), MapsTyped, composed_states \in Seq(Pairs(m)),
           NEW e, EntryOK(e), NEW arc, ArcOK(m, At(e), arc)
    PROVE  EntryOK(Append(e, W!Extend(W!Tip(e), arc)))
  <1> DEFINE nd == W!Extend(W!Tip(e), arc)
             f == Append(e, nd)
             d == Len(e)
             p == AsProposal(arc)
             a == At(e)[1]
             b == At(e)[2]
  <1>1. e \in Seq(MyNode) /\ e # <<>> /\ d \in Nat \ {0} /\ W!Tip(e) = e[d] /\ e[d] \in MyNode
    BY DEF EntryOK, W!Tip
  <1>2. /\ arc \in MyArc /\ arc.next < Len(composed_states) /\ arc.next \in Nat
        /\ arc.weight \in Nat
    BY DEF ArcOK, MyArc
  <1>3. /\ nd = [state |-> arc.next, words |-> e[d].words + 1,
                 errors |-> e[d].errors + (IF arc.weight > 0 THEN 1 ELSE 0),
                 cost |-> e[d].cost + arc.weight, arc |-> arc]
        /\ nd \in MyNode
    <2>1. e[d].words + 1 \in Nat /\ e[d].errors + 1 \in Nat /\ e[d].errors + 0 \in Nat
          /\ e[d].cost + arc.weight \in Nat
      <3> DEFINE n0 == e[d]
      <3>1. n0 \in MyNode
        BY <1>1
      <3> HIDE DEF n0
      <3>2. n0.words \in Nat /\ n0.errors \in Nat /\ n0.cost \in Nat
        BY <3>1 DEF MyNode
      <3>3. n0.words + 1 \in Nat /\ n0.errors + 1 \in Nat /\ n0.errors + 0 \in Nat
            /\ n0.cost + arc.weight \in Nat
        BY <1>2, <3>2
      <3> QED
        BY <3>3 DEF n0
    <2>2. nd = [state |-> arc.next, words |-> e[d].words + 1,
                errors |-> e[d].errors + (IF arc.weight > 0 THEN 1 ELSE 0),
                cost |-> e[d].cost + arc.weight, arc |-> arc]
      BY <1>1 DEF W!Extend
    <2> HIDE DEF nd
    <2> QED
      BY <1>2, <2>1, <2>2 DEF MyNode
  <1>4. nd.state = arc.next /\ nd.arc = arc
    BY <1>3
  <1> HIDE DEF nd
  <1>5. /\ f \in Seq(MyNode) /\ f # <<>> /\ Len(f) = d + 1 /\ f[d + 1] = nd
        /\ \A k \in 1..d : f[k] = e[k]
    BY <1>1, <1>3
  <1>6. W!Tip(f) = nd
    BY <1>5 DEF W!Tip
  <1>7. At(f) = p.pair /\ p.ilabel = arc.ilabel /\ p.olabel = arc.olabel
    BY <1>4, <1>6 DEF At, AsProposal
  <1>8. p \in Answers(m, a, b)
    BY DEF ArcOK
  <1>9. At(e) \in Pairs(m)
    <2>1. W!Tip(e).state + 1 \in 1..Len(composed_states)
      <3>1. W!Tip(e).state \in Nat
        BY <1>1 DEF MyNode
      <3>2. W!Tip(e).state < Len(composed_states)
        BY DEF EntryOK
      <3> QED
        BY <3>1, <3>2
    <2> QED
      BY <2>1 DEF At
  <1>10. a \in 0..(m - 1) /\ b \in 0..Len(HypTokens)
    BY <1>9 DEF Pairs
  <1>11. \A l : Read(p, l) = Read(arc, l)
    BY <1>7 DEF Read
  <1> HIDE DEF f, p, a, b, d
  <1>12. OnHyp(b, p) /\ (RefIsText => OnRef(a, p))
    BY <1>8 DEF Answers
  <1>13. /\ HypRead(f) = HypRead(e) \o Read(arc, arc.olabel)
         /\ RefRead(f) = RefRead(e) \o Read(arc, arc.ilabel)
    BY <1>1, <1>3, <1>4, ReadAppend DEF f
  <1>14. TextsTyped
    BY DEF Graphs
  <1>15. HypRead(f) = Prefix(hyp, p.pair[2])
    <2>1. Prefix(hyp, p.pair[2]) = Prefix(hyp, b) \o Read(p, p.olabel)
      BY <1>10, <1>12, <1>14, HypStep
    <2>2. HypRead(e) = Prefix(hyp, b)
      BY DEF EntryOK, b
    <2> QED
      BY <1>7, <1>11, <1>13, <2>1, <2>2
  <1>16. ASSUME RefIsText
         PROVE  a \in 0..Len(RefTokens) /\ RefRead(f) = Prefix(ref, p.pair[1])
    <2>1. a \in 0..Len(RefTokens)
      BY <1>10, <1>16, RefStates
    <2>2. Prefix(ref, p.pair[1]) = Prefix(ref, a) \o Read(p, p.ilabel)
      BY <1>12, <1>14, <1>16, <2>1, RefStep
    <2>3. RefRead(e) = Prefix(ref, a)
      BY <1>16 DEF EntryOK, a
    <2> QED
      BY <1>7, <1>11, <1>13, <2>1, <2>2, <2>3
  <1>17. MarksRespected(f)
    <2> SUFFICES ASSUME useMaps, composition_approach = "adapted", NEW k \in 2..(d + 1)
                 PROVE  RespectsMarks(f, k)
      BY <1>5 DEF MarksRespected
    <2>1. k \in 2..d \/ k = d + 1
      BY <1>1 DEF d
    <2>2. CASE k \in 2..d
      <3>1. RespectsMarks(e, k)
        BY <2>2 DEF EntryOK, MarksRespected, d
      <3>2. f[k] = e[k]
        BY <1>1, <1>5, <2>2 DEF d
      <3>3. SubSeq(f, 1, k) = SubSeq(e, 1, k)
        <4>1. k \in Nat /\ k <= Len(f) /\ k <= Len(e) /\ \A i \in 1..k : f[i] = e[i]
          BY <1>1, <1>5, <2>2 DEF d
        <4>2. SubSeq(f, 1, k) = [i \in 1..k |-> f[i]]
          BY <1>5, <4>1
        <4>3. SubSeq(e, 1, k) = [i \in 1..k |-> e[i]]
          BY <1>1, <4>1
        <4> QED
          BY <4>1, <4>2, <4>3
      <3> QED
        BY <3>1, <3>2, <3>3 DEF RespectsMarks
    <2>3. CASE k = d + 1
      <3>1. SubSeq(f, 1, k) = f /\ f[k].arc = arc
        BY <1>4, <1>5, <2>3
      <3>2. Read(arc, arc.olabel) # <<>> /\ hypMap # <<>> /\ hypMap[Len(HypRead(f))] > 0
               => arc.ilabel = arc.olabel
        <4>1. Read(p, p.olabel) # <<>> /\ hypMap # <<>>
              /\ hypMap[Len(Prefix(hyp, p.pair[2]))] > 0
                 => p.ilabel = p.olabel
          BY <1>10, <1>12, <1>14, HypStep
        <4> QED
          BY <1>7, <1>11, <1>15, <4>1
      <3>3. Plain /\ Read(arc, arc.ilabel) # <<>> /\ refMap # <<>> /\ refMap[Len(RefRead(f))] > 0
               => arc.olabel \in {arc.ilabel, 0}
        <4> SUFFICES ASSUME Plain
                     PROVE  Read(arc, arc.ilabel) # <<>> /\ refMap # <<>>
                            /\ refMap[Len(RefRead(f))] > 0 => arc.olabel \in {arc.ilabel, 0}
          OBVIOUS
        <4>1. RefIsText
          BY DEF RefIsText
        <4>2. a \in 0..Len(RefTokens) /\ RefRead(f) = Prefix(ref, p.pair[1])
          BY <1>16, <4>1
        <4>3. Read(p, p.ilabel) # <<>> /\ refMap # <<>>
              /\ refMap[Len(Prefix(ref, p.pair[1]))] > 0
                 => p.olabel \in {p.ilabel, 0}
          BY <1>12, <1>14, <4>1, <4>2, RefStep
        <4> QED
          BY <1>7, <1>11, <4>2, <4>3
      <3> QED
        BY <3>1, <3>2, <3>3 DEF RespectsMarks
    <2> QED
      BY <2>1, <2>2, <2>3
  <1>18. EntryOK(f)
    <2>1. W!Tip(f).state < Len(composed_states)
      BY <1>2, <1>4, <1>6
    <2> QED
      BY <1>5, <1>7, <1>15, <1>16, <1>17, <2>1 DEF EntryOK
  <1> QED
    BY <1>18 DEF f, nd

-----------------------------------------------------------------------------
\* The walk

\* What the graphs and their reading depend on.
textVars == <<ref, hyp, refMap, hypMap, useMaps, composition_approach, finalEps, rules,
              syn_opts>>

\* The composed states stay what they are; there may be more of them.
Grows ==
    /\ Len(composed_states) \in Nat
    /\ Len(composed_states) <= Len(composed_states')
    /\ \A i \in 1..Len(composed_states) : composed_states'[i] = composed_states[i]

LEMMA ReadingStays ==
    ASSUME UNCHANGED textVars
    PROVE  /\ HypTokens' = HypTokens /\ RefTokens' = RefTokens
           /\ UsedHypMap' = UsedHypMap /\ UsedRefMap' = UsedRefMap
           /\ Plain' = Plain /\ RefIsText' = RefIsText
           /\ TextsTyped' = TextsTyped /\ MapsTyped' = MapsTyped
           /\ \A e : HypRead(e)' = HypRead(e) /\ RefRead(e)' = RefRead(e)
  BY DEF textVars, HypTokens, RefTokens, UsedHypMap, UsedRefMap, Plain, RefIsText, TextsTyped,
         MapsTyped, HypRead, RefRead, ArcsOf, Read, Synonyms, Symbols

LEMMA MarksStay ==
    ASSUME UNCHANGED textVars, NEW e, MarksRespected(e)
    PROVE  MarksRespected(e)'
  BY ReadingStays DEF textVars, MarksRespected, RespectsMarks, Read

LEMMA RootOK ==
    composed_states = C!Start /\ hyp \in Seq(Word) /\ ref \in Seq(Word)
      => EntryOK(<<W!Root>>)
  <1> SUFFICES ASSUME composed_states = C!Start, hyp \in Seq(Word), ref \in Seq(Word)
               PROVE  EntryOK(<<W!Root>>)
    OBVIOUS
  <1> DEFINE e == <<W!Root>>
  <1>1. W!Root \in MyNode /\ W!Root.state = 0
    BY ZeroIsNoLabel DEF W!Root, MyNode, MyArc
  <1>2. e \in Seq(MyNode) /\ e # <<>> /\ Len(e) = 1 /\ e[1] = W!Root
    BY <1>1
  <1> HIDE DEF e
  <1>3. W!Tip(e).state = 0 /\ W!Tip(e).state < Len(composed_states) /\ At(e) = <<0, 0>>
    BY <1>1, <1>2 DEF W!Tip, At, C!Start
  <1>4. DOMAIN ArcsOf(e) = {}
    BY <1>2 DEF ArcsOf
  <1>5. HypRead(e) = <<>> /\ RefRead(e) = <<>>
    <2>1. FlattenSeq(<<>>) = <<>>
      BY DEF FlattenSeq
    <2> QED
      BY <1>4, <2>1 DEF HypRead, RefRead
  <1>6. Prefix(hyp, 0) = <<>> /\ Prefix(ref, 0) = <<>>
    BY PrefixFacts
  <1>7. MarksRespected(e)
    BY <1>2 DEF MarksRespected
  <1> QED
    BY <1>2, <1>3, <1>5, <1>6, <1>7 DEF EntryOK, e

\* A chain that has come to a final state has read the texts.
LEMMA FinalOK ==
    ASSUME NEW m, Graphs(m), NEW e, EntryOK(e), C!Final(W!Tip(e).state)
    PROVE  TopOK(e)
  <1>1. fstB.final = {Len(HypTokens)}
    BY DEF Graphs, IsLine
  <1>2. RefIsText => fstA.final = {Len(RefTokens)}
    BY DEF Graphs, IsLine
  <1>3. At(e)[2] = Len(HypTokens) /\ (RefIsText => At(e)[1] = Len(RefTokens))
    BY <1>1, <1>2 DEF C!Final, At
  <1>4. TextsTyped
    BY DEF Graphs
  <1>5. Prefix(hyp, Len(HypTokens)) = hyp
    <2> DEFINE S == Word \ (EntityLabel \cup SynonymLabel \cup {0})
    <2>1. hyp \in Seq(S)
      BY <1>4 DEF TextsTyped
    <2> HIDE DEF S
    <2>2. Len(HypTokens) \in Nat /\ Len(HypTokens) >= Len(hyp)
      BY <2>1 DEF HypTokens
    <2> QED
      BY <2>1, <2>2, PrefixFacts
  <1>6. Prefix(ref, Len(RefTokens)) = ref
    <2> DEFINE S == Word \ (SynonymLabel \cup {0})
    <2>1. ref \in Seq(S)
      BY <1>4 DEF TextsTyped
    <2> HIDE DEF S
    <2>2. Len(RefTokens) \in Nat /\ Len(RefTokens) >= Len(ref)
      BY <2>1 DEF RefTokens
    <2> QED
      BY <2>1, <2>2, PrefixFacts
  <1> QED
    BY <1>3, <1>5, <1>6 DEF EntryOK, TopOK

LEMMA EntryStays ==
    ASSUME UNCHANGED textVars, Grows, NEW e, EntryOK(e)
    PROVE  EntryOK(e)' /\ At(e)' = At(e)
  <1> DEFINE d == Len(e)
             s == W!Tip(e).state
  <1>1. e \in Seq(MyNode) /\ e # <<>> /\ d \in 1..Len(e) /\ W!Tip(e) = e[d]
    BY DEF EntryOK, W!Tip
  <1>2. s \in Nat
    <2> DEFINE n0 == e[d]
    <2>1. n0 \in MyNode
      BY <1>1
    <2> HIDE DEF n0
    <2>2. n0.state \in Nat
      BY <2>1 DEF MyNode
    <2> QED
      BY <1>1, <2>2 DEF n0
  <1>3. s < Len(composed_states) /\ At(e) = composed_states[s + 1]
    BY DEF EntryOK, At
  <1>4. W!Tip(e)' = W!Tip(e)
    BY DEF W!Tip
  <1>5. At(e)' = composed_states'[s + 1]
    BY <1>4 DEF At
  <1> HIDE DEF s, d
  <1>6. s + 1 \in 1..Len(composed_states) /\ s < Len(composed_states')
    BY <1>2, <1>3 DEF Grows
  <1>7. At(e)' = At(e)
    BY <1>3, <1>5, <1>6 DEF Grows
  <1>8. MarksRespected(e)'
    BY MarksStay DEF EntryOK
  <1>9. HypRead(e)' = Prefix(hyp, At(e)[2])'
    <2>1. HypRead(e)' = HypRead(e) /\ hyp' = hyp
      BY ReadingStays DEF textVars
    <2> QED
      BY <1>7, <2>1 DEF EntryOK, Prefix
  <1>10. (RefIsText => RefRead(e) = Prefix(ref, At(e)[1]))'
    <2>1. RefRead(e)' = RefRead(e) /\ ref' = ref /\ RefIsText' = RefIsText
      BY ReadingStays DEF textVars
    <2> QED
      BY <1>7, <2>1 DEF EntryOK, Prefix
  <1> QED
    BY <1>1, <1>4, <1>6, <1>7, <1>8, <1>9, <1>10 DEF EntryOK, s

LEMMA TopStays ==
    ASSUME UNCHANGED textVars, NEW e, TopOK(e)
    PROVE  TopOK(e)'
  <1>1. HypRead(e)' = HypRead(e) /\ RefRead(e)' = RefRead(e) /\ RefIsText' = RefIsText
        /\ hyp' = hyp /\ ref' = ref
    BY ReadingStays DEF textVars
  <1>2. MarksRespected(e)'
    BY MarksStay DEF TopOK
  <1> QED
    BY <1>1, <1>2 DEF TopOK

LEMMA AlignmentsStay ==
    ASSUME UNCHANGED textVars
    PROVE  Alignments \subseteq Alignments'
  BY TopStays DEF Alignments

LEMMA GraphsStay ==
    ASSUME UNCHANGED textVars, UNCHANGED <<fstA, fstB>>, NEW m, Graphs(m)
    PROVE  Graphs(m)' /\ Pairs(m)' = Pairs(m)
  BY ReadingStays DEF Graphs, Pairs, textVars, IsFst, IsLine, LineArc, G!Weight

LEMMA AnswersStay ==
    ASSUME UNCHANGED textVars, NEW m, NEW a, NEW b
    PROVE  Answers(m, a, b)' = Answers(m, a, b)
  BY ReadingStays DEF textVars, Answers, OnHyp, OnRef, G!Weight, T!IsLabel

LEMMA ArcStays ==
    ASSUME UNCHANGED textVars, Grows, NEW m, NEW pair, NEW arc, ArcOK(m, pair, arc)
    PROVE  ArcOK(m, pair, arc)'
  <1>1. arc \in MyArc /\ arc.next \in Nat /\ arc.next < Len(composed_states)
    BY DEF ArcOK, MyArc
  <1>2. arc.next + 1 \in 1..Len(composed_states) /\ arc.next < Len(composed_states')
    BY <1>1 DEF Grows
  <1>3. AsProposal(arc)' = AsProposal(arc)
    BY <1>2 DEF AsProposal, Grows
  <1>4. Answers(m, pair[1], pair[2])' = Answers(m, pair[1], pair[2])
    BY AnswersStay
  <1> QED
    BY <1>1, <1>2, <1>3, <1>4 DEF ArcOK

\* The composition numbers the pairs of its answer and gives it as arcs.
LEMMA AnswerOK ==
    ASSUME UNCHANGED textVars, NEW m, m \in Nat, composed_states \in Seq(Pairs(m)),
           NEW a, NEW b, NEW out \in Seq(Answers(m, a, b)),
           composed_states' = C!Created(composed_states, [j \in DOMAIN out |-> out[j].pair]),
           NEW as, as = C!ArcsTo(out, composed_states')
    PROVE  /\ Grows /\ composed_states' \in Seq(Pairs(m))
           /\ as \in Seq(MyArc)
           /\ \A i \in 1..Len(as) : ArcOK(m, <<a, b>>, as[i])'
  <1> DEFINE d == Len(out)
             S == Pairs(m)
             pairs == [j \in 1..d |-> out[j].pair]
             A == Answers(m, a, b)
  <1>1. d \in Nat /\ DOMAIN out = 1..d /\ \A j \in 1..d : out[j] \in A
    BY DEF A
  <1>2. \A p \in A : p \in [ilabel : Id, olabel : Id, weight : Nat, pair : S]
    BY DEF Answers, A, Pairs, S
  <1>3. pairs \in Seq(S) /\ Len(pairs) = d
    <2>1. \A j \in 1..d : out[j].pair \in S
      BY <1>1, <1>2
    <2> HIDE DEF S, d
    <2> QED
      BY <1>1, <2>1
  <1>4. composed_states' = C!Created(composed_states, pairs)
    BY <1>1
  <1>5. /\ composed_states' \in Seq(S) /\ Len(composed_states) <= Len(composed_states')
        /\ \A i \in 1..Len(composed_states) : composed_states'[i] = composed_states[i]
        /\ \A j \in 1..d :
             /\ C!IdOf(composed_states', pairs[j]) \in Nat
             /\ C!IdOf(composed_states', pairs[j]) < Len(composed_states')
             /\ composed_states'[C!IdOf(composed_states', pairs[j]) + 1] = pairs[j]
    <2>1. composed_states \in Seq(S)
      OBVIOUS
    <2> HIDE DEF S, pairs, d
    <2>2. composed_states' \in Seq(S) /\ Holds(composed_states', composed_states, pairs)
      BY <1>3, <1>4, <2>1, CreatedFacts
    <2> QED
      BY <1>3, <2>2 DEF Holds
  <1>6. Len(composed_states) \in Nat /\ composed_states' \in Seq(Pairs(m))
    BY <1>5 DEF S
  <1>7. Grows
    BY <1>5, <1>6 DEF Grows
  <1>8. as = [j \in 1..d |->
                [ilabel |-> out[j].ilabel, olabel |-> out[j].olabel,
                 weight |-> out[j].weight, next |-> C!IdOf(composed_states', out[j].pair)]]
    BY <1>1 DEF C!ArcsTo
  <1>9. Len(as) = d
    BY <1>1, <1>8
  <1>10. ASSUME NEW i \in 1..d
         PROVE  ArcOK(m, <<a, b>>, as[i])'
    <2>1. PICK id : id = C!IdOf(composed_states', out[i].pair)
      OBVIOUS
    <2>2. PICK p : p = out[i]
      OBVIOUS
    <2>3. p \in A /\ p \in [ilabel : Id, olabel : Id, weight : Nat, pair : S]
      BY <1>1, <1>2, <2>2
    <2>4. id \in Nat /\ id < Len(composed_states') /\ composed_states'[id + 1] = p.pair
      BY <1>5, <2>1, <2>2
    <2>5. PICK arc : arc = [ilabel |-> p.ilabel, olabel |-> p.olabel, weight |-> p.weight,
                            next |-> id]
      OBVIOUS
    <2>6. as[i] = arc
      BY <1>8, <2>1, <2>2, <2>5
    <2> HIDE DEF A, S, d, pairs
    <2>7. arc \in MyArc /\ arc.next < Len(composed_states')
      BY <2>3, <2>4, <2>5 DEF MyArc
    <2>8. AsProposal(arc)' = p
      <3>1. AsProposal(arc)' = [ilabel |-> p.ilabel, olabel |-> p.olabel,
                                weight |-> p.weight, pair |-> composed_states'[id + 1]]
        BY <2>5 DEF AsProposal
      <3> QED
        BY <2>3, <2>4, <3>1
    <2>9. Answers(m, a, b)' = A
      BY AnswersStay DEF A
    <2>10. ArcOK(m, <<a, b>>, arc)'
      BY <2>3, <2>7, <2>8, <2>9 DEF ArcOK
    <2> QED
      BY <2>6, <2>10
  <1>11. as \in Seq(MyArc)
    <2>1. \A i \in 1..d : as[i] \in MyArc
      BY <1>10 DEF ArcOK
    <2>2. as = [i \in 1..d |-> as[i]]
      BY <1>8
    <2> HIDE DEF d
    <2> QED
      BY <1>1, <2>1, <2>2
  <1> QED
    BY <1>6, <1>7, <1>9, <1>10, <1>11

-----------------------------------------------------------------------------
\* The invariant

\* Before the walk: the texts, and the maps as far as the first pass has come.
PassInv ==
    /\ TextsTyped
    /\ rules \in Seq(Rule)
    /\ MapsTyped
    /\ phase \in {"rows", "track"} =>
         /\ seqA = (IF Swapped THEN hyp ELSE ref) /\ seqB = (IF Swapped THEN ref ELSE hyp)
         /\ mapA \in Seq(Int) /\ Len(mapA) = Len(seqA)
         /\ mapB \in Seq(Int) /\ Len(mapB) = Len(seqB)

WalkStart ==
    /\ heapA = {<<W!Root>>} /\ heapB = {} /\ topEntries = <<>> /\ cur = <<>>
    /\ arcs = <<>> /\ iter = 1

\* In the walk: every chain that is open stands where it has read, and the arcs that
\* are still to be tried are those of the answer.
WalkInv(m) ==
    /\ Graphs(m) /\ composed_states \in Seq(Pairs(m))
    /\ \A e \in heapA \cup heapB : EntryOK(e)
    /\ iter \in Nat \ {0} /\ arcs \in Seq(MyArc)
    /\ cur # <<>> => /\ EntryOK(cur)
                     /\ \A i \in 1..Len(arcs) : ArcOK(m, At(cur), arcs[i])
    /\ topEntries \in Seq(Alignments)

Walks == phase \in {"walk", "returned", "thrown"}

AlignInv ==
    /\ PassInv
    /\ ~Walks => WalkStart
    /\ Walks => \E m \in Nat \ {0} : WalkInv(m)

LEMMA TextsStay ==
    ASSUME UNCHANGED <<ref, hyp, optionVars>>, TextsTyped
    PROVE  TextsTyped'
  BY DEF TextsTyped, RefIsText, Plain, Synonyms, Symbols, optionVars

LEMMA RefinedSeq ==
    ASSUME NEW S, NEW R, NEW s \in Seq(S), \A i \in DOMAIN s : s[i] \notin R
    PROVE  s \in Seq(S \ R)
  <1> DEFINE d == Len(s)
  <1>1. d \in Nat /\ DOMAIN s = 1..d /\ s = [i \in 1..d |-> s[i]] /\ \A i \in 1..d : s[i] \in S
    OBVIOUS
  <1>2. \A i \in 1..d : s[i] \in S \ R
    BY <1>1
  <1> HIDE DEF d
  <1>3. s \in [1..d -> S \ R]
    BY <1>1, <1>2
  <1> QED
    BY <1>1, <1>3

LEMMA InitOK ==
    ASSUME AlignInit
    PROVE  AlignInv
  <1>1. PICK p \in Inputs : ref = p[1] /\ hyp = p[2]
    BY DEF AlignInit, Init
  <1>2. /\ ref \in Seq(Word \ (SynonymLabel \cup {0}))
        /\ hyp \in Seq(Word \ (EntityLabel \cup SynonymLabel \cup {0}))
    BY <1>1, TextAssumption
  <1>3. ASSUME RefIsText
        PROVE  \A i \in DOMAIN ref : ref[i] \notin EntityLabel
    <2>1. CASE Plain
      BY <2>1 DEF Plain
    <2>2. CASE composition_approach = "standard"
      <3>1. <<ref, hyp>> \in StandardInputs
        BY <2>2 DEF AlignInit
      <3>2. \A q \in StandardInputs : q[1] \in Seq(Word \ EntityLabel)
        BY TextAssumption
      <3>3. ref \in Seq(Word \ EntityLabel)
        BY <3>1, <3>2
      <3> QED
        BY <3>3
    <2> QED
      BY <1>3, <2>1, <2>2 DEF RefIsText
  <1>4. ASSUME RefIsText
        PROVE  ref \in Seq(Word \ (EntityLabel \cup SynonymLabel \cup {0}))
    <2> DEFINE S == Word \ (SynonymLabel \cup {0})
    <2>1. ref \in Seq(S \ EntityLabel)
      <3> HIDE DEF S
      <3> QED
        BY <1>2, <1>3, <1>4, RefinedSeq DEF S
    <2>2. S \ EntityLabel = Word \ (EntityLabel \cup SynonymLabel \cup {0})
      OBVIOUS
    <2> HIDE DEF S
    <2> QED
      BY <2>1, <2>2
  <1>5. TextsTyped
    BY <1>2, <1>4 DEF TextsTyped, AlignInit
  <1>6. rules \in Seq(Rule)
    BY SynonymAssumption DEF AlignInit, Rule
  <1>7. MapsTyped
    BY DEF MapsTyped, AlignInit, Init
  <1>8. phase = "start" /\ WalkStart
    BY DEF AlignInit, Init, WalkStart, W!WalkInit
  <1> QED
    BY <1>5, <1>6, <1>7, <1>8 DEF AlignInv, PassInv, Walks

LEMMA MarkedSeq ==
    ASSUME NEW s \in Seq(Int), NEW i, NEW v \in Int
    PROVE  [s EXCEPT ![i] = v] \in Seq(Int) /\ Len([s EXCEPT ![i] = v]) = Len(s)
  <1> DEFINE d == Len(s)
             t == [s EXCEPT ![i] = v]
  <1>1. d \in Nat /\ DOMAIN s = 1..d /\ s \in [1..d -> Int]
    OBVIOUS
  <1> HIDE DEF d
  <1>2. t \in [1..d -> Int]
    BY <1>1
  <1> HIDE DEF t
  <1>3. t \in Seq(Int) /\ Len(t) = d
    BY <1>1, <1>2
  <1> QED
    BY <1>3 DEF t, d

\* The first pass and the options in front of the walk.
LEMMA PassOK ==
    ASSUME AlignInv, FirstPassStep \/ NoFirstPass
    PROVE  AlignInv'
  <1>1. UNCHANGED <<ref, hyp, optionVars, walkVars>>
    BY DEF FirstPassStep, NoFirstPass, Step, SkipPass, StartPass, FillRow, StartTracking,
           TrackDiagonal, TrackLeft, TrackUp, EndTracking, RelaxRef, RelaxHyp, ChooseMaps,
           inputVars
  <1>2. TextsTyped' /\ (rules \in Seq(Rule))'
    BY <1>1, TextsStay DEF AlignInv, PassInv, optionVars
  <1>3. ~Walks /\ ~Walks'
    BY DEF Walks, FirstPassStep, NoFirstPass, Step, SkipPass, StartPass, FillRow,
           StartTracking, Tracking,
           TrackDiagonal, TrackLeft, TrackUp, EndTracking, RelaxRef, RelaxHyp, ChooseMaps
  <1>4. WalkStart'
    BY <1>1, <1>3 DEF AlignInv, WalkStart, walkVars
  <1>5. PassInv'
    <2> DEFINE PassMaps ==
                 phase \in {"rows", "track"} =>
                   /\ seqA = (IF Swapped THEN hyp ELSE ref)
                   /\ seqB = (IF Swapped THEN ref ELSE hyp)
                   /\ mapA \in Seq(Int) /\ Len(mapA) = Len(seqA)
                   /\ mapB \in Seq(Int) /\ Len(mapB) = Len(seqB)
    <2>1. SUFFICES MapsTyped' /\ PassMaps'
      BY <1>2 DEF PassInv
    <2>2. MapsTyped /\ PassMaps
      BY DEF AlignInv, PassInv
    <2>3. ref' = ref /\ hyp' = hyp /\ Swapped' = Swapped
      BY <1>1 DEF Swapped
    <2>4. ref \in Seq(Word) /\ hyp \in Seq(Word)
      BY DEF AlignInv, PassInv, TextsTyped
    <2>5. CASE SkipPass \/ FillRow \/ StartTracking \/ TrackLeft \/ TrackUp \/ ChooseMaps
               \/ NoFirstPass
      <3>1. UNCHANGED <<refMap, hypMap, seqA, seqB, mapA, mapB>>
        BY <2>5 DEF SkipPass, FillRow, StartTracking, TrackLeft, TrackUp, ChooseMaps,
                    NoFirstPass, relaxVars, trackVars, inputVars
      <3>2. phase' \in {"rows", "track"} => phase \in {"rows", "track"}
        BY <2>5 DEF SkipPass, FillRow, StartTracking, TrackLeft, TrackUp, ChooseMaps,
                    NoFirstPass
      <3> QED
        BY <2>2, <2>3, <3>1, <3>2 DEF MapsTyped
    <2>6. CASE StartPass
      <3>1. UNCHANGED <<refMap, hypMap>>
        BY <2>6 DEF StartPass, relaxVars
      <3>2. /\ seqA' = (IF Swapped THEN hyp ELSE ref) /\ seqB' = (IF Swapped THEN ref ELSE hyp)
            /\ mapA' = Unmarked(seqA') /\ mapB' = Unmarked(seqB')
        BY <2>6 DEF StartPass
      <3>3. \A s \in Seq(Word) : Unmarked(s) \in Seq(Int) /\ Len(Unmarked(s)) = Len(s)
        BY DEF Unmarked
      <3>4. seqA' \in Seq(Word) /\ seqB' \in Seq(Word)
        BY <2>4, <3>2
      <3>5. /\ mapA' \in Seq(Int) /\ Len(mapA') = Len(seqA')
            /\ mapB' \in Seq(Int) /\ Len(mapB') = Len(seqB')
        BY <3>2, <3>3, <3>4
      <3> QED
        BY <2>2, <2>3, <3>1, <3>2, <3>5 DEF MapsTyped
    <2>7. CASE TrackDiagonal
      <3>1. UNCHANGED <<refMap, hypMap, seqA, seqB>> /\ phase \in {"rows", "track"}
        BY <2>7 DEF TrackDiagonal, relaxVars, inputVars, Tracking
      <3>2. mapA \in Seq(Int) /\ mapB \in Seq(Int)
        BY <2>2, <3>1
      <3>3. /\ mapA' = mapA \/ mapA' = [mapA EXCEPT ![current_pos] = 1]
            /\ mapB' = mapB \/ mapB' = [mapB EXCEPT ![seqB_track] = 1]
        BY <2>7 DEF TrackDiagonal
      <3>4. mapA' \in Seq(Int) /\ Len(mapA') = Len(mapA)
            /\ mapB' \in Seq(Int) /\ Len(mapB') = Len(mapB)
        BY <3>2, <3>3, MarkedSeq
      <3> QED
        BY <2>2, <2>3, <3>1, <3>4 DEF MapsTyped
    <2>8. CASE EndTracking
      <3>1. phase = "track" /\ phase' = "relaxRef"
        BY <2>8 DEF EndTracking
      <3>2. refMap' = (IF Swapped THEN mapB ELSE mapA) /\ hypMap' = (IF Swapped THEN mapA ELSE mapB)
        BY <2>8 DEF EndTracking
      <3>3. /\ refMap' \in Seq(Int) /\ Len(refMap') = Len(ref)
            /\ hypMap' \in Seq(Int) /\ Len(hypMap') = Len(hyp)
        BY <2>2, <3>1, <3>2
      <3> QED
        BY <2>3, <3>1, <3>3 DEF MapsTyped
    <2>9. CASE RelaxRef \/ RelaxHyp
      <3>1. phase' \notin {"rows", "track"}
        BY <2>9 DEF RelaxRef, RelaxHyp
      <3>2. \A map \in Seq(Int) : RelaxAt(map) \in Seq(Int) /\ Len(RelaxAt(map)) = Len(map)
        BY MarkedSeq DEF RelaxAt
      <3>3. /\ refMap' = refMap \/ refMap' = RelaxAt(refMap)
            /\ hypMap' = hypMap \/ hypMap' = RelaxAt(hypMap)
        BY <2>9 DEF RelaxRef, RelaxHyp
      <3>4. \A map \in Seq(Int) : RelaxAt(map) # <<>> => map # <<>>
        <4> SUFFICES ASSUME NEW map \in Seq(Int), map = <<>> PROVE RelaxAt(map) = <<>>
          OBVIOUS
        <4>1. RelaxAt(map) \in Seq(Int) /\ Len(RelaxAt(map)) = 0
          BY <3>2
        <4> QED
          BY <4>1
      <3>5. /\ refMap' \in Seq(Int) /\ Len(refMap') = Len(refMap)
            /\ hypMap' \in Seq(Int) /\ Len(hypMap') = Len(hypMap)
        BY <2>2, <3>2, <3>3 DEF MapsTyped
      <3> QED
        BY <2>2, <2>3, <3>1, <3>3, <3>4, <3>5 DEF MapsTyped
    <2> QED
      BY <2>5, <2>6, <2>7, <2>8, <2>9 DEF FirstPassStep, Step
  <1> QED
    BY <1>3, <1>4, <1>5 DEF AlignInv

\* The reference of adapted composition: its synonyms spliced in, its <eps> removed.
LEMMA AdaptedOK ==
    ASSUME TextsTyped, rules \in Seq(Rule), composition_approach = "adapted",
           AdaptedReference
    PROVE  \E m \in Nat \ {0} : /\ IsFst(fstA', m)
                                /\ RefIsText => IsLine(fstA', RefTokens, UsedRefMap)
  <1> DEFINE g == G!ConvertToFst(ref, UsedRefMap, Candidates)
             rs == E!InOrder(Synonyms)
             repl == G!Replacements(g, rs)
             spliced == G!ApplyToFst(g, repl)
             m == spliced.n
  <1>1. fstA' = G!ReferenceFst(G!RmEpsilon(spliced))
    BY DEF AdaptedReference
  <1>2. ref \in Seq(Word \cup {0}) /\ ref \in Seq(Word) /\ hyp \in Seq(Word)
    BY DEF TextsTyped
  <1>3. IsGraph(g) /\ rs \in Seq(OneRule)
    BY <1>2, ConvertType, SynonymsType
  <1>4. IsGraph(spliced)
    <2> HIDE DEF g, rs
    <2>1. repl \in Seq(Repl(g.n))
      BY <1>3, ReplacementsType
    <2> HIDE DEF repl
    <2> QED
      BY <1>3, <2>1, ApplyType
  <1>5. m \in Nat \ {0} /\ IsFst(fstA', m)
    <2> HIDE DEF spliced
    <2> QED
      BY <1>1, <1>4, ReferenceType DEF IsGraph
  <1>6. ASSUME RefIsText
        PROVE  IsLine(fstA', RefTokens, UsedRefMap)
    <2>1. Plain /\ RefTokens = ref
      BY <1>6 DEF RefIsText, RefTokens
    <2>2. rs = E!InOrder(<<>>)
      BY <2>1 DEF Plain, E!NoSynonyms
    <2>3. spliced = g
      <3> HIDE DEF g, rs
      <3> QED
        BY <1>3, <2>2, NothingReplaced
    <2>4. ref \in Seq((Word \cup {0}) \ EntityLabel) /\ ref \in Seq(Word \ {0})
      <3>1. ref \in Seq(Word \ (EntityLabel \cup SynonymLabel \cup {0}))
        BY <1>6 DEF TextsTyped
      <3> QED
        BY <3>1
    <2>5. g = LineGraph(ref, UsedRefMap)
      BY <2>4, ConvertLine
    <2>6. IsLine(G!ReferenceFst(G!RmEpsilon(LineGraph(ref, UsedRefMap))), ref, UsedRefMap)
      BY <2>4, ReferenceLine
    <2> HIDE DEF g, spliced
    <2> QED
      BY <1>1, <2>1, <2>3, <2>5, <2>6
  <1> HIDE DEF m
  <1> QED
    BY <1>5, <1>6

\* That of standard composition keeps its <eps>.
LEMMA StandardOK ==
    ASSUME TextsTyped, composition_approach = "standard", StandardReference
    PROVE  \E m \in Nat \ {0} : /\ IsFst(fstA', m)
                                /\ RefIsText => IsLine(fstA', RefTokens, UsedRefMap)
  <1> DEFINE tokens == Append(ref, G!Eps)
             g == G!ConvertToFst(tokens, UsedRefMap, Candidates)
             m == g.n
             Tok == Word \cup {0}
  <1>1. fstA' = G!LoadedFst(g) /\ tokens = RefTokens
    BY DEF StandardReference, RefTokens, G!Eps
  <1>2. tokens \in Seq(Tok) /\ tokens \in Seq(Tok \ EntityLabel)
    <2> DEFINE S == Tok \ EntityLabel
    <2>1. ref \in Seq(Tok) /\ ref \in Seq(S)
      <3>1. ref \in Seq(Word \ (EntityLabel \cup SynonymLabel \cup {0}))
        BY DEF TextsTyped, RefIsText
      <3> QED
        BY <3>1
    <2>2. G!Eps \in Tok /\ G!Eps \in S
      BY TextAssumption DEF G!Eps
    <2> HIDE DEF S, Tok
    <2>3. tokens \in Seq(Tok) /\ tokens \in Seq(S)
      BY <2>1, <2>2
    <2> QED
      BY <2>3 DEF S
  <1> HIDE DEF tokens
  <1>3. IsGraph(g) /\ g = LineGraph(tokens, UsedRefMap)
    BY <1>2, ConvertType, ConvertLine
  <1>4. IsLine(G!LoadedFst(LineGraph(tokens, UsedRefMap)), tokens, UsedRefMap)
    BY <1>2, LoadedLine
  <1> HIDE DEF g
  <1>5. m \in Nat \ {0} /\ IsFst(fstA', m)
    BY <1>1, <1>3, LoadedType DEF IsGraph
  <1>6. IsLine(fstA', RefTokens, UsedRefMap)
    BY <1>1, <1>3, <1>4
  <1> HIDE DEF m
  <1> QED
    BY <1>5, <1>6

\* The graphs are built, and the walk starts.
LEMMA BuildOK ==
    ASSUME AlignInv, BuildGraphs
    PROVE  AlignInv'
  <1>1. UNCHANGED textVars /\ UNCHANGED <<walkVars, optionVars>>
    BY DEF BuildGraphs, textVars, inputVars, optionVars, relaxVars
  <1>2. phase = "done" /\ phase' = "walk" /\ ~Walks /\ Walks'
    BY DEF BuildGraphs, Walks
  <1>3. TextsTyped /\ rules \in Seq(Rule) /\ MapsTyped /\ WalkStart
    BY <1>2 DEF AlignInv, PassInv
  <1>4. PassInv'
    <2>1. TextsTyped' /\ MapsTyped' /\ (rules \in Seq(Rule))'
      BY <1>1, <1>3, ReadingStays DEF textVars
    <2> QED
      BY <1>2, <2>1 DEF PassInv
  <1>5. PICK m \in Nat \ {0} : /\ IsFst(fstA', m)
                               /\ RefIsText => IsLine(fstA', RefTokens, UsedRefMap)
    BY <1>3, AdaptedOK, StandardOK DEF BuildGraphs
  <1>6. IsLine(fstB', HypTokens, UsedHypMap)
    <2> DEFINE Tok == Word \cup {0}
               S == Tok \ EntityLabel
    <2>1. HypTokens \in Seq(Tok) /\ HypTokens \in Seq(S)
      <3>1. hyp \in Seq(Tok) /\ hyp \in Seq(S)
        BY <1>3 DEF TextsTyped
      <3>2. G!Eps \in Tok /\ G!Eps \in S
        BY TextAssumption DEF G!Eps
      <3> HIDE DEF S, Tok
      <3> QED
        BY <3>1, <3>2 DEF HypTokens
    <2>2. fstB' = G!LoadedFst(G!ConvertToFst(HypTokens, UsedHypMap, Candidates))
      BY DEF BuildGraphs
    <2>3. G!ConvertToFst(HypTokens, UsedHypMap, Candidates) = LineGraph(HypTokens, UsedHypMap)
      BY <2>1, ConvertLine
    <2>4. IsLine(G!LoadedFst(LineGraph(HypTokens, UsedHypMap)), HypTokens, UsedHypMap)
      BY <2>1, LoadedLine
    <2> QED
      BY <2>2, <2>3, <2>4
  <1>7. Graphs(m)'
    <2>1. TextsTyped' /\ RefIsText' = RefIsText /\ RefTokens' = RefTokens
          /\ HypTokens' = HypTokens /\ UsedHypMap' = UsedHypMap /\ UsedRefMap' = UsedRefMap
      BY <1>1, <1>3, ReadingStays
    <2> QED
      BY <1>5, <1>6, <2>1 DEF Graphs, IsFst, IsLine, LineArc, G!Weight
  <1>8. composed_states' = C!Start /\ (composed_states \in Seq(Pairs(m)))'
    <2>1. composed_states' = <<<<0, 0>>>>
      BY DEF BuildGraphs, C!Start
    <2>2. Len(HypTokens') \in Nat
      <3>1. HypTokens' = HypTokens /\ hyp \in Seq(Word)
        BY <1>1, <1>3, ReadingStays DEF TextsTyped
      <3> QED
        BY <3>1 DEF HypTokens, G!Eps
    <2>3. <<0, 0>> \in Pairs(m)'
      BY <1>5, <2>2 DEF Pairs
    <2> QED
      BY <2>1, <2>3 DEF C!Start
  <1>9. EntryOK(<<W!Root>>)'
    <2>1. (hyp \in Seq(Word))' /\ (ref \in Seq(Word))'
      BY <1>4 DEF PassInv, TextsTyped
    <2>2. (composed_states = C!Start)'
      BY <1>8 DEF C!Start
    <2>3. (composed_states = C!Start /\ hyp \in Seq(Word) /\ ref \in Seq(Word)
             => EntryOK(<<W!Root>>))'
      BY RootOK, PTL
    <2> QED
      BY <2>1, <2>2, <2>3
  <1>10. WalkStart'
    BY <1>1, <1>3 DEF WalkStart, walkVars
  <1>11. WalkInv(m)'
    BY <1>7, <1>8, <1>9, <1>10 DEF WalkInv, WalkStart
  <1> QED
    BY <1>2, <1>4, <1>5, <1>11 DEF AlignInv

-----------------------------------------------------------------------------
\* The steps of the walk

\* The pair of a chain is one of the pairs that have an id.
LEMMA AtPair ==
    ASSUME NEW m, composed_states \in Seq(Pairs(m)), NEW e, EntryOK(e)
    PROVE  At(e) \in Pairs(m)
  <1> DEFINE n0 == W!Tip(e)
  <1>1. n0 \in MyNode
    <2>1. e \in Seq(MyNode) /\ e # <<>>
      BY DEF EntryOK
    <2>2. Len(e) \in 1..Len(e)
      BY <2>1
    <2> QED
      BY <2>1, <2>2 DEF W!Tip
  <1>2. n0.state < Len(composed_states) /\ At(e) = composed_states[n0.state + 1]
    BY DEF EntryOK, At
  <1> HIDE DEF n0
  <1>3. n0.state \in Nat
    BY <1>1 DEF MyNode
  <1>4. n0.state + 1 \in 1..Len(composed_states)
    BY <1>2, <1>3
  <1> QED
    BY <1>2, <1>4

\* The reports, which are made wherever a step ends an entry.
LEMMA ReportOK ==
    ASSUME UNCHANGED textVars, NEW m, WalkInv(m), cur # <<>>,
           W!Report(C!Final(W!Tip(cur).state))
    PROVE  (topEntries \in Seq(Alignments))'
  <1>1. topEntries \in Seq(Alignments) /\ topEntries \in Seq(Alignments')
    BY AlignmentsStay DEF WalkInv
  <1>2. CASE ~C!Final(W!Tip(cur).state)
    <2>1. topEntries' = topEntries
      BY <1>2 DEF W!Report
    <2> QED
      BY <1>1, <2>1
  <1>3. CASE C!Final(W!Tip(cur).state)
    <2>1. TopOK(cur)
      BY <1>3, FinalOK DEF WalkInv
    <2>2. topEntries' = Append(topEntries, cur)
      BY <1>3 DEF W!Report
    <2>3. cur \in Alignments'
      BY <2>1, AlignmentsStay DEF TopOK, Alignments
    <2> QED
      BY <1>1, <2>2, <2>3
  <1> QED
    BY <1>2, <1>3

\* Taking an entry, with the answer of either composition.
LEMMA TakeOK ==
    ASSUME UNCHANGED textVars, NEW m \in Nat \ {0}, WalkInv(m), TakeAdapted \/ TakeStandard
    PROVE  WalkInv(m)'
  <1>e. PICK e \in heapA :
          \E out, as :
            /\ \/ composition_approach = "adapted" /\ out = C!Proposals(W!Tip(e).state)
               \/ composition_approach = "standard" /\ out = C!StandardProposals(W!Tip(e).state)
            /\ composed_states' = C!Created(composed_states,
                                            [j \in DOMAIN out |-> out[j].pair])
            /\ UNCHANGED <<fstA, fstB>>
            /\ as = C!ArcsTo(out, composed_states')
            /\ W!TakeEntry(e, as)
    BY DEF TakeAdapted, TakeStandard, C!TryGetArcsAtState, C!StandardTryGetArcsAtState
  <1>1. PICK out, as :
          /\ \/ composition_approach = "adapted" /\ out = C!Proposals(W!Tip(e).state)
             \/ composition_approach = "standard" /\ out = C!StandardProposals(W!Tip(e).state)
          /\ composed_states' = C!Created(composed_states,
                                          [j \in DOMAIN out |-> out[j].pair])
          /\ UNCHANGED <<fstA, fstB>>
          /\ as = C!ArcsTo(out, composed_states')
          /\ W!TakeEntry(e, as)
    BY <1>e
  <1>2. EntryOK(e) /\ Graphs(m) /\ composed_states \in Seq(Pairs(m))
    BY DEF WalkInv
  <1>3. PICK a \in 0..(m - 1), b \in 0..Len(HypTokens) : At(e) = <<a, b>>
    <2>1. At(e) \in Pairs(m)
      BY <1>2, AtPair
    <2> QED
      BY <2>1 DEF Pairs
  <1>4. composed_states[W!Tip(e).state + 1] = <<a, b>>
    BY <1>3 DEF At
  <1>5. out \in Seq(Answers(m, a, b))
    <2>1. CASE composition_approach = "adapted"
      BY <1>1, <1>2, <1>4, <2>1, ProposalsType
    <2>2. CASE composition_approach = "standard"
      BY <1>1, <1>2, <1>4, <2>2, StandardType
    <2> QED
      BY <1>1, <2>1, <2>2
  <1>6. /\ Grows /\ composed_states' \in Seq(Pairs(m)) /\ as \in Seq(MyArc)
        /\ \A i \in 1..Len(as) : ArcOK(m, <<a, b>>, as[i])'
    BY <1>1, <1>2, <1>5, AnswerOK
  <1>7. Graphs(m)' /\ (composed_states \in Seq(Pairs(m)))'
    BY <1>1, <1>2, <1>6, GraphsStay
  <1>8. /\ cur' = e /\ heapA' = heapA \ {e} /\ arcs' = as /\ iter' = 1
        /\ UNCHANGED <<heapB, topEntries>>
    BY <1>1 DEF W!TakeEntry
  <1>9. \A f \in heapA \cup heapB : EntryOK(f)' /\ At(f)' = At(f)
    BY <1>6, EntryStays DEF WalkInv
  <1>10. (\A f \in heapA \cup heapB : EntryOK(f))'
    BY <1>8, <1>9
  <1>11. (cur # <<>> => /\ EntryOK(cur)
                        /\ \A i \in 1..Len(arcs) : ArcOK(m, At(cur), arcs[i]))'
    <2>1. EntryOK(e)' /\ At(e)' = <<a, b>>
      BY <1>3, <1>9
    <2>2. EntryOK(cur)' /\ At(cur)' = <<a, b>>
      BY <1>8, <2>1 DEF EntryOK, At, MarksRespected, RespectsMarks, HypRead, RefRead, ArcsOf,
                        W!Tip
    <2>3. \A i \in 1..Len(as) : ArcOK(m, At(cur), arcs[i])'
      BY <1>6, <1>8, <2>2 DEF ArcOK, AsProposal
    <2> QED
      BY <1>8, <2>2, <2>3
  <1>12. (topEntries \in Seq(Alignments))'
    <2>1. topEntries \in Seq(Alignments) /\ topEntries \in Seq(Alignments')
      BY AlignmentsStay DEF WalkInv
    <2> QED
      BY <1>8, <2>1
  <1>13. (iter \in Nat \ {0} /\ arcs \in Seq(MyArc))'
    <2>1. as \in Seq(MyArc)
      BY <1>6
    <2>2. arcs' = as
      BY <1>8
    <2>3. iter' \in Nat \ {0}
      BY <1>8
    <2> QED
      BY <2>1, <2>2, <2>3
  <1> QED
    BY <1>7, <1>10, <1>11, <1>12, <1>13 DEF WalkInv

\* Nothing but the heaps, the entry and what is reported changes.
LEMMA StaysOK ==
    ASSUME UNCHANGED textVars, UNCHANGED compVars, NEW m, WalkInv(m)
    PROVE  /\ Graphs(m)' /\ (composed_states \in Seq(Pairs(m)))' /\ Grows
           /\ \A e : EntryOK(e) => EntryOK(e)'
           /\ topEntries \in Seq(Alignments')
  <1>1. Graphs(m) /\ composed_states \in Seq(Pairs(m)) /\ topEntries \in Seq(Alignments)
    BY DEF WalkInv
  <1>2. composed_states' = composed_states /\ UNCHANGED <<fstA, fstB>>
    BY DEF compVars
  <1>3. Grows
    <2>1. Len(composed_states) \in Nat
      BY <1>1
    <2> QED
      BY <1>2, <2>1 DEF Grows
  <1>4. Graphs(m)' /\ (composed_states \in Seq(Pairs(m)))'
    BY <1>1, <1>2, GraphsStay
  <1>5. \A e : EntryOK(e) => EntryOK(e)'
    BY <1>3, EntryStays
  <1> QED
    BY <1>1, <1>3, <1>4, <1>5, AlignmentsStay

\* The entry that is expanded, while the steps leave it.
LEMMA CurStays ==
    ASSUME UNCHANGED textVars, Grows, NEW m, UNCHANGED <<cur, arcs>>, EntryOK(cur),
           \A i \in 1..Len(arcs) : ArcOK(m, At(cur), arcs[i])
    PROVE  (/\ EntryOK(cur)
            /\ \A i \in 1..Len(arcs) : ArcOK(m, At(cur), arcs[i]))'
  <1>1. PICK e, as : e = cur /\ as = arcs
    OBVIOUS
  <1>2. EntryOK(e)' /\ At(e)' = At(e)
    BY <1>1, EntryStays
  <1>3. PICK pair : pair = At(e)
    OBVIOUS
  <1>4. \A i \in 1..Len(as) : ArcOK(m, pair, as[i])'
    BY <1>1, <1>3, ArcStays
  <1>5. cur' = e /\ arcs' = as
    BY <1>1
  <1>6. EntryOK(cur)' /\ At(cur)' = pair
    BY <1>2, <1>3, <1>5 DEF EntryOK, At, MarksRespected, RespectsMarks, HypRead, RefRead,
                      ArcsOf, W!Tip
  <1>7. \A i \in 1..Len(as) : ArcOK(m, At(cur), arcs[i])'
    BY <1>4, <1>5, <1>6 DEF ArcOK, AsProposal
  <1> QED
    BY <1>5, <1>6, <1>7

\* The arc behind the position of the loop: taken, or left.
LEMMA ArcDoneOK ==
    ASSUME UNCHANGED textVars, UNCHANGED compVars, MapsTyped, NEW m, WalkInv(m),
           W!EnqueueArc \/ W!SkipArc
    PROVE  WalkInv(m)'
  <1>1. /\ Graphs(m)' /\ (composed_states \in Seq(Pairs(m)))' /\ Grows
        /\ \A e : EntryOK(e) => EntryOK(e)'
        /\ topEntries \in Seq(Alignments')
    BY StaysOK
  <1>2. /\ cur # <<>> /\ iter <= Len(arcs) /\ iter' = iter + 1
        /\ UNCHANGED <<heapA, topEntries, cur, arcs>>
    BY DEF W!EnqueueArc, W!SkipArc
  <1>3. /\ iter \in Nat \ {0} /\ arcs \in Seq(MyArc) /\ Len(arcs) \in Nat /\ EntryOK(cur)
        /\ \A i \in 1..Len(arcs) : ArcOK(m, At(cur), arcs[i])
    BY <1>2 DEF WalkInv
  <1>4. \A e \in heapA \cup heapB : EntryOK(e)
    BY DEF WalkInv
  <1>5. \A e \in heapB' : EntryOK(e)
    <2>1. CASE W!SkipArc
      <3>1. heapB' = heapB
        BY <2>1 DEF W!SkipArc
      <3> QED
        BY <1>4, <3>1
    <2>2. CASE W!EnqueueArc
      <3>1. PICK f : f = Append(cur, W!Extend(W!Tip(cur), arcs[iter]))
        OBVIOUS
      <3>2. heapB' \subseteq heapB \cup {f}
        BY <2>2, <3>1 DEF W!EnqueueArc, W!Insert
      <3>3. iter \in 1..Len(arcs)
        BY <1>2, <1>3
      <3>4. EntryOK(f)
        <4>1. ArcOK(m, At(cur), arcs[iter])
          BY <1>3, <3>3
        <4>2. Graphs(m) /\ composed_states \in Seq(Pairs(m))
          BY DEF WalkInv
        <4> QED
          BY <1>3, <3>1, <4>1, <4>2, ExtendOK
      <3> QED
        BY <1>4, <3>2, <3>4
    <2> QED
      BY <2>1, <2>2
  <1>6. (\A e \in heapA \cup heapB : EntryOK(e))'
    <2>1. \A e \in heapA \cup heapB' : EntryOK(e)'
      BY <1>1, <1>4, <1>5
    <2> QED
      BY <1>2, <2>1
  <1>7. (cur # <<>> => /\ EntryOK(cur)
                       /\ \A i \in 1..Len(arcs) : ArcOK(m, At(cur), arcs[i]))'
    BY <1>1, <1>2, <1>3, CurStays
  <1>8. (iter \in Nat \ {0} /\ arcs \in Seq(MyArc))'
    BY <1>2, <1>3
  <1>9. (topEntries \in Seq(Alignments))'
    BY <1>1, <1>2
  <1> QED
    BY <1>1, <1>6, <1>7, <1>8, <1>9 DEF WalkInv

\* The end of an entry, and of a level.
LEMMA EntryDoneOK ==
    ASSUME UNCHANGED textVars, UNCHANGED compVars, NEW m, WalkInv(m),
           \/ W!FinishEntry(C!Final(W!Tip(cur).state))
           \/ W!FinishLevel(C!Final(W!Tip(cur).state))
    PROVE  WalkInv(m)'
  <1>1. /\ Graphs(m)' /\ (composed_states \in Seq(Pairs(m)))'
        /\ \A e : EntryOK(e) => EntryOK(e)'
    BY StaysOK
  <1>2. /\ cur # <<>> /\ cur' = <<>> /\ arcs' = <<>> /\ iter' = 1
        /\ W!Report(C!Final(W!Tip(cur).state))
    BY DEF W!FinishEntry, W!FinishLevel
  <1>3. heapA' \cup heapB' \subseteq heapA \cup heapB
    <2>1. W!Prune(heapB) \subseteq heapB
      BY DEF W!Prune, W!Leading
    <2> QED
      BY <2>1 DEF W!FinishEntry, W!FinishLevel
  <1>4. (\A e \in heapA \cup heapB : EntryOK(e))'
    <2>1. \A e \in heapA \cup heapB : EntryOK(e)'
      BY <1>1 DEF WalkInv
    <2> QED
      BY <1>3, <2>1
  <1>5. (topEntries \in Seq(Alignments))'
    BY <1>2, ReportOK
  <1> QED
    BY <1>1, <1>2, <1>4, <1>5 DEF WalkInv

\* The walk and its end.
LEMMA WalkOK ==
    ASSUME AlignInv, WalkStep \/ Return \/ UNCHANGED allVars
    PROVE  AlignInv'
  <1>1. UNCHANGED textVars
    BY DEF WalkStep, Return, allVars, vars, inputVars, relaxVars, optionVars, textVars
  <1>2. PassInv'
    <2>1. TextsTyped' /\ MapsTyped' /\ (rules \in Seq(Rule))'
      BY <1>1, ReadingStays DEF textVars, AlignInv, PassInv
    <2>2. CASE WalkStep \/ Return
      <3>1. phase' \notin {"rows", "track"}
        BY <2>2 DEF WalkStep, Return, vars
      <3> QED
        BY <2>1, <3>1 DEF PassInv
    <2>3. CASE UNCHANGED allVars
      BY <2>1, <2>3 DEF PassInv, AlignInv, Swapped, allVars, vars, inputVars, trackVars
    <2> QED
      BY <2>2, <2>3
  <1>3. CASE WalkStep
    <2>1. phase = "walk" /\ phase' = "walk" /\ Walks /\ Walks'
      BY <1>3 DEF WalkStep, Walks, vars
    <2>2. PICK m \in Nat \ {0} : WalkInv(m)
      BY <2>1 DEF AlignInv
    <2>3. MapsTyped
      BY DEF AlignInv, PassInv
    <2>4. WalkInv(m)'
      BY <1>1, <1>3, <2>2, <2>3, TakeOK, ArcDoneOK, EntryDoneOK DEF WalkStep
    <2> QED
      BY <1>2, <2>1, <2>4 DEF AlignInv
  <1>4. CASE Return \/ UNCHANGED allVars
    <2>1. UNCHANGED <<compVars, walkVars>> /\ (Walks' = Walks)
      BY <1>4 DEF Return, allVars, vars, Walks
    <2>2. CASE ~Walks
      <3>1. WalkStart'
        BY <2>1, <2>2 DEF AlignInv, WalkStart, walkVars
      <3> QED
        BY <1>2, <2>1, <2>2, <3>1 DEF AlignInv
    <2>3. CASE Walks
      <3>1. PICK m \in Nat \ {0} : WalkInv(m)
        BY <2>3 DEF AlignInv
      <3>2. WalkInv(m)'
        <4>1. /\ Graphs(m)' /\ (composed_states \in Seq(Pairs(m)))' /\ Grows
              /\ \A e : EntryOK(e) => EntryOK(e)'
              /\ topEntries \in Seq(Alignments')
          BY <1>1, <2>1, <3>1, StaysOK
        <4>2. (\A e \in heapA \cup heapB : EntryOK(e))'
          BY <2>1, <3>1, <4>1 DEF WalkInv, walkVars
        <4>3. (iter \in Nat \ {0} /\ arcs \in Seq(MyArc) /\ topEntries \in Seq(Alignments))'
          BY <2>1, <3>1, <4>1 DEF WalkInv, walkVars
        <4>4. (cur # <<>> => /\ EntryOK(cur)
                             /\ \A i \in 1..Len(arcs) : ArcOK(m, At(cur), arcs[i]))'
          BY <1>1, <2>1, <3>1, <4>1, CurStays DEF walkVars, WalkInv
        <4> QED
          BY <4>1, <4>2, <4>3, <4>4 DEF WalkInv
      <3> QED
        BY <1>2, <2>1, <2>3, <3>2 DEF AlignInv
    <2> QED
      BY <2>2, <2>3
  <1> QED
    BY <1>3, <1>4

-----------------------------------------------------------------------------
\* The theorems

\* The texts, the graphs and the chains stay typed and in step with each other:
\* AlignInv is an inductive invariant of Fstalign.
THEOREM Aligns == AlignSpec => []AlignInv
  <1>1. AlignInit => AlignInv
    BY InitOK
  <1>2. AlignInv /\ [AlignNext]_allVars => AlignInv'
    BY PassOK, BuildOK, WalkOK DEF AlignNext, AlignStep, Done
  <1> QED
    BY <1>1, <1>2, PTL DEF AlignSpec

\* What is open stands behind the words that it has read.
LEMMA PrefixLength ==
    ASSUME NEW S, NEW s \in Seq(S), NEW tokens, TokensOf(tokens, s),
           NEW b \in 0..Len(tokens)
    PROVE  LET read == Len(Prefix(s, b))
           IN  b = read \/ (b = read + 1 /\ read = Len(s))
  <1>1. Len(s) \in Nat /\ b \in Nat /\ b <= Len(s) + 1
    BY DEF TokensOf
  <1>2. Len(Prefix(s, b)) = IF b <= Len(s) THEN b ELSE Len(s)
    BY <1>1, PrefixFacts
  <1> QED
    BY <1>1, <1>2

\* Wherever the walk stands in the composed graph, whatever has been proposed, logged
\* or pruned, its chains have read the words in front of it, each of them once: no word
\* is lost or read twice, and no two pairs of states share an id
\* (GetOrCreateComposedState of src/src/AdaptedComposition.cpp).
THEOREM EntriesStand == AlignSpec => []EntriesStandWhereTheyRead
  <1>1. AlignInv => EntriesStandWhereTheyRead
    <2> SUFFICES ASSUME AlignInv, phase = "walk", NEW e \in W!Open
                 PROVE  LET pair == composed_states[W!Tip(e).state + 1]
                            read == Len(HypRead(e))
                            refRead == Len(RefRead(e))
                        IN  /\ \/ pair[2] = read
                               \/ pair[2] = read + 1 /\ read = Len(hyp)
                            /\ \/ pair[1] = refRead
                               \/ pair[1] = refRead + 1 /\ refRead = Len(ref)
                               \/ ~Plain
      BY DEF EntriesStandWhereTheyRead
    <2>1. PICK m \in Nat \ {0} : WalkInv(m)
      BY DEF AlignInv, Walks
    <2>2. EntryOK(e)
      BY <2>1 DEF WalkInv, W!Open, W!ThisLevel, W!CurEntry
    <2>3. Graphs(m) /\ At(e) \in Pairs(m)
      BY <2>1, <2>2, AtPair DEF WalkInv
    <2>4. PICK a \in 0..(m - 1), b \in 0..Len(HypTokens) : At(e) = <<a, b>>
      BY <2>3 DEF Pairs
    <2>5. HypRead(e) = Prefix(hyp, b) /\ (RefIsText => RefRead(e) = Prefix(ref, a))
      BY <2>2, <2>4 DEF EntryOK
    <2>6. /\ ref \in Seq(Word) /\ hyp \in Seq(Word)
          /\ TokensOf(HypTokens, hyp) /\ TokensOf(RefTokens, ref)
      BY <2>3 DEF Graphs, TextsTyped, TokensOf, HypTokens, RefTokens, G!Eps
    <2>7. b = Len(HypRead(e)) \/ (b = Len(HypRead(e)) + 1 /\ Len(HypRead(e)) = Len(hyp))
      BY <2>5, <2>6, PrefixLength
    <2>8. ASSUME Plain
          PROVE  a = Len(RefRead(e)) \/ (a = Len(RefRead(e)) + 1 /\ Len(RefRead(e)) = Len(ref))
      <3>1. RefIsText /\ a \in 0..Len(RefTokens)
        BY <2>3, <2>8, RefStates DEF RefIsText
      <3> QED
        BY <2>5, <2>6, <3>1, PrefixLength
    <2> QED
      BY <2>4, <2>7, <2>8 DEF At
  <1> QED
    BY <1>1, Aligns, PTL

\* The marks of the first pass are kept: in no alignment is a marked word of the
\* hypothesis anything but matched, nor a marked word of the reference substituted.
THEOREM MarksKept == AlignSpec => []MarkedWordsMatch
  <1>1. AlignInv => MarkedWordsMatch
    <2> SUFFICES ASSUME AlignInv, Walked, useMaps, composition_approach = "adapted",
                        NEW i \in DOMAIN topEntries, NEW k \in 2..Len(topEntries[i])
                 PROVE  RespectsMarks(topEntries[i], k)
      BY DEF MarkedWordsMatch, RespectsMarks
    <2>1. PICK m \in Nat \ {0} : WalkInv(m)
      BY DEF AlignInv, Walks, Walked
    <2>2. topEntries[i] \in Alignments
      BY <2>1 DEF WalkInv
    <2> QED
      BY <2>2 DEF Alignments, TopOK, MarksRespected
  <1> QED
    BY <1>1, Aligns, PTL

\* Every alignment that is reported accounts for the whole hypothesis, and where the
\* reference is its own only reading, for the whole reference.
ReadsWhole ==
    \A i \in DOMAIN topEntries :
        /\ HypRead(topEntries[i]) = hyp
        /\ Plain \/ composition_approach = "standard" => RefRead(topEntries[i]) = ref

THEOREM AlignmentsReadWhole == AlignSpec => []ReadsWhole
  <1>1. AlignInv => ReadsWhole
    <2> SUFFICES ASSUME AlignInv, NEW i \in DOMAIN topEntries
                 PROVE  /\ HypRead(topEntries[i]) = hyp
                        /\ Plain \/ composition_approach = "standard"
                             => RefRead(topEntries[i]) = ref
      BY DEF ReadsWhole
    <2>1. CASE ~Walks
      BY <2>1 DEF AlignInv, WalkStart
    <2>2. CASE Walks
      <3>1. PICK m \in Nat \ {0} : WalkInv(m)
        BY <2>2 DEF AlignInv
      <3>2. topEntries[i] \in Alignments
        BY <3>1 DEF WalkInv
      <3> QED
        BY <3>2 DEF Alignments, TopOK, RefIsText
    <2> QED
      BY <2>1, <2>2
  <1> QED
    BY <1>1, Aligns, PTL

\* The books of the walk that AlignInv leaves out.
BookInv ==
    /\ dropped \subseteq Seq(MyNode) \ {<<>>}
    /\ logbook \in [State -> Nat \cup {W!NoCost}]
    /\ loopSinceLastPruning \in Nat
    /\ levenstein_first_pass \in BOOLEAN /\ finalEps \in BOOLEAN

\* What AlignInv says of them while the walk goes on.
LEMMA OpenType ==
    ASSUME AlignInv
    PROVE  /\ heapA \subseteq Seq(MyNode) \ {<<>>} /\ heapB \subseteq Seq(MyNode) \ {<<>>}
           /\ cur \in Seq(MyNode) /\ arcs \in Seq(MyArc) /\ iter \in Nat \ {0}
           /\ topEntries \in Seq(Seq(MyNode) \ {<<>>})
  <1>1. CASE ~Walks
    <2>1. WalkStart
      BY <1>1 DEF AlignInv
    <2>2. W!Root \in MyNode
      BY ZeroIsNoLabel DEF W!Root, MyNode, MyArc
    <2>3. <<W!Root>> \in Seq(MyNode) \ {<<>>}
      <3> HIDE DEF W!Root
      <3> QED
        BY <2>2
    <2> QED
      BY <2>1, <2>3 DEF WalkStart
  <1>2. CASE Walks
    <2>1. PICK m \in Nat \ {0} : WalkInv(m)
      BY <1>2 DEF AlignInv
    <2>2. \A e \in heapA \cup heapB : e \in Seq(MyNode) \ {<<>>}
      BY <2>1 DEF WalkInv, EntryOK
    <2>3. cur \in Seq(MyNode)
      <3>1. cur = <<>> => cur \in Seq(MyNode)
        OBVIOUS
      <3>2. cur # <<>> => EntryOK(cur)
        BY <2>1 DEF WalkInv
      <3> QED
        BY <3>1, <3>2 DEF EntryOK
    <2>4. Alignments \subseteq Seq(MyNode) \ {<<>>}
      BY DEF Alignments, TopOK
    <2>5. topEntries \in Seq(Seq(MyNode) \ {<<>>})
      BY <2>1, <2>4 DEF WalkInv
    <2> QED
      BY <2>1, <2>2, <2>3, <2>5 DEF WalkInv
  <1> QED
    BY <1>1, <1>2

LEMMA BookOK ==
    ASSUME AlignInv, AlignInv', BookInv, [AlignNext]_allVars
    PROVE  BookInv'
  <1>1. levenstein_first_pass' \in BOOLEAN /\ finalEps' \in BOOLEAN
    BY DEF AlignNext, AlignStep, FirstPassStep, NoFirstPass, BuildGraphs, WalkStep, Return,
           Done, allVars, optionVars, BookInv
  <1>2. CASE UNCHANGED <<dropped, logbook, loopSinceLastPruning>>
    BY <1>1, <1>2 DEF BookInv
  <1>3. CASE WalkStep /\ W!EnqueueArc
    <2>1. PICK new, f : /\ new = W!Extend(W!Tip(cur), arcs[iter]) /\ f = Append(cur, new)
                        /\ logbook' = [logbook EXCEPT ![new.state] = new.cost]
                        /\ cur # <<>> /\ iter <= Len(arcs)
                        /\ UNCHANGED <<dropped, loopSinceLastPruning>>
      BY <1>3 DEF W!EnqueueArc
    <2>2. /\ cur \in Seq(MyNode) /\ arcs \in Seq(MyArc) /\ iter \in Nat \ {0}
      BY OpenType
    <2>3. arcs[iter] \in MyArc /\ W!Tip(cur) \in MyNode
      BY <2>1, <2>2 DEF W!Tip
    <2>4. new.cost \in Nat
      <3>1. PICK a, n0 : a = arcs[iter] /\ n0 = W!Tip(cur)
        OBVIOUS
      <3>2. a.weight \in Nat /\ n0.cost \in Nat
        BY <2>3, <3>1 DEF MyArc, MyNode
      <3>3. new.cost = n0.cost + a.weight
        BY <2>1, <3>1 DEF W!Extend
      <3> QED
        BY <3>2, <3>3
    <2>5. logbook' \in [State -> Nat \cup {W!NoCost}]
      BY <2>1, <2>4 DEF BookInv
    <2> QED
      BY <1>1, <2>1, <2>5 DEF BookInv
  <1>4. CASE WalkStep /\ W!FinishLevel(C!Final(W!Tip(cur).state))
    <2>1. /\ dropped' = dropped \cup (heapB \ heapA') /\ logbook' = logbook
          /\ loopSinceLastPruning' \in {1, loopSinceLastPruning + 1}
      BY <1>4 DEF W!FinishLevel
    <2>2. heapB \subseteq Seq(MyNode) \ {<<>>}
      BY OpenType
    <2> QED
      BY <1>1, <2>1, <2>2 DEF BookInv
  <1>5. ASSUME ~UNCHANGED <<dropped, logbook, loopSinceLastPruning>>, AlignNext
        PROVE  WalkStep /\ (W!EnqueueArc \/ W!FinishLevel(C!Final(W!Tip(cur).state)))
    BY <1>5 DEF AlignNext, AlignStep, FirstPassStep, NoFirstPass, BuildGraphs, WalkStep,
                TakeAdapted, TakeStandard, W!TakeEntry, W!SkipArc, W!FinishEntry, Return, Done,
                allVars, walkVars
  <1>6. CASE UNCHANGED allVars
    BY <1>2, <1>6 DEF allVars, walkVars
  <1> QED
    BY <1>2, <1>3, <1>4, <1>5, <1>6

\* With ids and labels enough for every graph, the variables of the alignment have
\* their types, and the composition has an id for every state that the walk is in
\* (composed_states of src/src/AdaptedComposition.cpp is never read behind its end).
THEOREM AlignTypes ==
    ASSUME State = Nat, Id \subseteq Label
    PROVE  AlignSpec => []TypeOK
  <1>1. MyArc \subseteq W!Arc /\ MyNode \subseteq W!Node
    BY DEF MyArc, MyNode, W!Arc, W!Node
  <1>2. AlignInit => BookInv
    BY ModeAssumption DEF AlignInit, BookInv, W!WalkInit
  <1>3. AlignInv /\ AlignInv' /\ BookInv /\ [AlignNext]_allVars => BookInv'
    BY BookOK
  <1>4. AlignInv /\ BookInv => TypeOK
    <2> SUFFICES ASSUME AlignInv, BookInv
                 PROVE  TypeOK
      OBVIOUS
    <2>1. W!WalkTypeOK
      <3>1. Seq(MyNode) \subseteq Seq(W!Node) /\ Seq(MyArc) \subseteq Seq(W!Arc)
        BY <1>1
      <3>2. Seq(MyNode) \ {<<>>} \subseteq W!Entry
        BY <3>1 DEF W!Entry
      <3>3. topEntries \in Seq(W!Entry)
        BY <3>2, OpenType
      <3>4. heapA \subseteq W!Entry /\ heapB \subseteq W!Entry /\ dropped \subseteq W!Entry
        BY <3>2, OpenType DEF BookInv
      <3>5. cur \in Seq(W!Node) /\ arcs \in Seq(W!Arc) /\ iter \in Nat \ {0}
        BY <3>1, OpenType
      <3> QED
        BY <3>3, <3>4, <3>5 DEF W!WalkTypeOK, BookInv
    <2>2. ASSUME Walks, NEW e \in W!Open
          PROVE  W!Tip(e).state < Len(composed_states)
      <3>1. PICK m \in Nat \ {0} : WalkInv(m)
        BY <2>2 DEF AlignInv
      <3>2. EntryOK(e)
        BY <3>1, <2>2 DEF WalkInv, W!Open, W!ThisLevel, W!CurEntry
      <3> QED
        BY <3>2 DEF EntryOK
    <2> QED
      BY <2>1, <2>2 DEF TypeOK, BookInv, Walks
  <1> QED
    BY <1>2, <1>3, <1>4, Aligns, PTL DEF AlignSpec
=============================================================================
