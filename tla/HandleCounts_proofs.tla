------------------------- MODULE HandleCounts_proofs ------------------------
(***************************************************************************)
(* What HandleWer counts from the stitches: the unigrams and the bigrams   *)
(* of the words that were read, and the errors of every class of a word.   *)
(***************************************************************************)
EXTENDS HandleWer_proofs

-----------------------------------------------------------------------------
\* Counting

\* The positions below k where a sequence has x.
Spots(s, x, k) == {j \in 1..k : s[j] = x}

LEMMA SpotsGrow ==
    ASSUME NEW s, NEW x, NEW k \in Nat
    PROVE  /\ Cardinality(Spots(s, x, k)) \in Nat
           /\ Cardinality(Spots(s, x, 0)) = 0
           /\ Cardinality(Spots(s, x, k + 1)) = Cardinality(Spots(s, x, k)) + Z!One(s[k + 1] = x)
  <1> DEFINE p == Spots(s, x, k)
             q == Spots(s, x, k + 1)
  <1>1. IsFiniteSet(1..k) /\ p \in SUBSET (1..k)
    BY FS_Interval DEF Spots
  <1>2. IsFiniteSet(p)
    BY <1>1, FS_Subset
  <1>3. Spots(s, x, 0) = {}
    BY DEF Spots
  <1>4. k + 1 \notin p
    BY DEF Spots
  <1>5. q = IF s[k + 1] = x THEN p \cup {k + 1} ELSE p
    <2>1. 1..(k + 1) = (1..k) \cup {k + 1}
      OBVIOUS
    <2> QED
      BY <2>1 DEF Spots
  <1> HIDE DEF p, q
  <1>6. Cardinality(p) \in Nat /\ Cardinality(p \cup {k + 1}) = Cardinality(p) + 1
    BY <1>2, <1>4, FS_CardinalityType, FS_AddElement
  <1>7. Cardinality({}) = 0
    BY FS_EmptySet
  <1>8. Cardinality(q) = Cardinality(p) + Z!One(s[k + 1] = x)
    BY <1>5, <1>6 DEF Z!One
  <1> QED
    BY <1>3, <1>6, <1>7, <1>8 DEF p, q

LEMMA CountFacts ==
    ASSUME NEW elems, NEW s \in Seq(elems), NEW x
    PROVE  /\ Z!Count(s, x) = Cardinality(Spots(s, x, Len(s))) /\ Z!Count(s, x) \in Nat
           /\ Z!Count(<<>>, x) = 0
           /\ \A e \in elems : Z!Count(Append(s, e), x) = Z!Count(s, x) + Z!One(e = x)
  <1> DEFINE n == Len(s)
  <1>1. n \in Nat /\ DOMAIN s = 1..n
    OBVIOUS
  <1>2. \A r : Z!Count(r, x) = Cardinality({j \in DOMAIN r : r[j] = x})
    BY CountOps DEF Z!Count
  <1>3. Z!Count(s, x) = Cardinality(Spots(s, x, n))
    BY <1>1, <1>2 DEF Spots
  <1>4. Z!Count(<<>>, x) = 0
    <2>1. {j \in DOMAIN <<>> : <<>>[j] = x} = {}
      OBVIOUS
    <2> QED
      BY <1>2, <2>1, FS_EmptySet
  <1>5. ASSUME NEW e \in elems PROVE Z!Count(Append(s, e), x) = Z!Count(s, x) + Z!One(e = x)
    <2> DEFINE r == Append(s, e)
    <2>1. DOMAIN r = 1..(n + 1) /\ r[n + 1] = e /\ \A j \in 1..n : r[j] = s[j]
      OBVIOUS
    <2> HIDE DEF r, n
    <2>2. Z!Count(r, x) = Cardinality(Spots(r, x, n + 1))
      BY <1>2, <2>1 DEF Spots
    <2>3. Spots(r, x, n) = Spots(s, x, n)
      BY <2>1 DEF Spots
    <2>4. Cardinality(Spots(r, x, n + 1)) = Cardinality(Spots(r, x, n)) + Z!One(r[n + 1] = x)
      BY <1>1, SpotsGrow
    <2> QED
      BY <1>3, <2>1, <2>2, <2>3, <2>4 DEF r
  <1>6. Cardinality(Spots(s, x, n)) \in Nat
    BY <1>1, SpotsGrow
  <1> QED
    BY <1>3, <1>4, <1>5, <1>6

\* What is read backwards is counted as often.
LEMMA CountTurned ==
    ASSUME NEW elems, NEW r \in Seq(elems), NEW s \in Seq(elems), Turned(s, r), NEW x
    PROVE  Z!Count(s, x) = Z!Count(r, x)
  <1> DEFINE n == Len(r)
             p == Spots(r, x, n)
             q == Spots(s, x, n)
             g == [k \in p |-> n - k + 1]
  <1>1. n \in Nat /\ Len(s) = n /\ \A k \in 1..n : s[k] = r[n - k + 1]
    BY DEF Turned
  <1>2. Z!Count(s, x) = Cardinality(q) /\ Z!Count(r, x) = Cardinality(p)
    BY <1>1, CountFacts
  <1> HIDE DEF n
  <1>3. IsFiniteSet(p)
    <2>1. IsFiniteSet(1..n) /\ p \in SUBSET (1..n)
      BY <1>1, FS_Interval DEF Spots
    <2> QED
      BY <2>1, FS_Subset
  <1>4. \A k \in p : n - k + 1 \in q
    <2> TAKE k \in p
    <2>1. k \in 1..n /\ n - k + 1 \in 1..n /\ n - (n - k + 1) + 1 = k /\ r[k] = x
      BY <1>1 DEF Spots
    <2> QED
      BY <1>1, <2>1 DEF Spots
  <1>5. g \in [p -> q] /\ \A a, b \in p : g[a] = g[b] => a = b
    <2>1. \A a, b \in p : n - a + 1 = n - b + 1 => a = b
      BY <1>1 DEF Spots
    <2> HIDE DEF p, q
    <2> QED
      BY <1>4, <2>1
  <1>6. \A j \in q : \E k \in p : g[k] = j
    <2> TAKE j \in q
    <2>1. j \in 1..n /\ n - j + 1 \in 1..n /\ n - (n - j + 1) + 1 = j /\ s[j] = x
      BY <1>1 DEF Spots
    <2>2. n - j + 1 \in p
      BY <1>1, <2>1 DEF Spots
    <2> QED
      BY <2>1, <2>2
  <1> HIDE DEF p, q, g
  <1>7. g \in Bijection(p, q)
    BY <1>5, <1>6 DEF Bijection, Injection, Surjection, IsInjective
  <1> QED
    BY <1>2, <1>3, <1>7, FS_Bijection DEF ExistsBijection

\* What is picked has x as often when no x is left out.
LEMMA CountThose ==
    ASSUME NEW elems, NEW s \in Seq(elems), NEW keep, NEW x,
           \A k \in 1..Len(s) : s[k] = x => k \in keep
    PROVE  Z!Count(Those(s, keep), x) = Z!Count(s, x)
  <1> DEFINE n == Len(s)
  <1>1. n \in Nat /\ \A k \in 1..n : s[k] \in elems /\ (s[k] = x => k \in keep)
    OBVIOUS
  <1>2. PICK f : IsPick(f, s, keep, elems) /\ Those(s, keep) = f[n]
    BY ThoseRun
  <1>3. /\ f \in [0..n -> Seq(elems)] /\ f[0] = <<>>
        /\ \A i \in 1..n : f[i] = IF i \in keep THEN Append(f[i - 1], s[i]) ELSE f[i - 1]
    BY <1>2 DEF IsPick
  <1>4. Z!Count(s, x) = Cardinality(Spots(s, x, n))
    BY CountFacts
  <1> HIDE DEF n
  <1> DEFINE K == {k \in 0..n : Z!Count(f[k], x) = Cardinality(Spots(s, x, k))}
  <1>5. 0 \in K
    BY <1>1, <1>3, CountFacts, SpotsGrow
  <1>6. ASSUME NEW k \in Nat, k < n, k \in K PROVE k + 1 \in K
    <2> DEFINE e == s[k + 1]
               v == f[k]
    <2>1. k + 1 \in 1..n /\ k + 1 \in 0..n /\ (k + 1) - 1 = k /\ k \in 0..n
      BY <1>1, <1>6
    <2>2. e \in elems /\ (e = x => k + 1 \in keep) /\ v \in Seq(elems)
          /\ f[k + 1] = IF k + 1 \in keep THEN Append(v, e) ELSE v
      BY <1>1, <1>3, <2>1
    <2>3. Cardinality(Spots(s, x, k + 1)) = Cardinality(Spots(s, x, k)) + Z!One(e = x)
      BY SpotsGrow
    <2>4. Z!Count(v, x) = Cardinality(Spots(s, x, k))
      BY <1>6
    <2> HIDE DEF e, v
    <2>5. Z!Count(Append(v, e), x) = Z!Count(v, x) + Z!One(e = x) /\ Z!Count(v, x) \in Nat
      BY <2>2, CountFacts
    <2>6. e # x => Z!One(e = x) = 0
      BY DEF Z!One
    <2>7. Z!Count(f[k + 1], x) = Cardinality(Spots(s, x, k + 1))
      BY <2>2, <2>3, <2>4, <2>5, <2>6
    <2> QED
      BY <2>1, <2>7
  <1> HIDE DEF K
  <1>7. \A k \in 0..n : k \in K
    BY <1>1, <1>5, <1>6, Climb
  <1> QED
    <2>1. n \in K
      BY <1>1, <1>7
    <2> QED
      BY <1>2, <1>4, <2>1 DEF K, n

LEMMA SidesFacts ==
    ASSUME NEW elems, NEW s \in Seq(elems)
    PROVE  /\ Z!Firsts(s) \in Seq({e[1] : e \in elems}) /\ Len(Z!Firsts(s)) = Len(s)
           /\ Z!Seconds(s) \in Seq({e[2] : e \in elems}) /\ Len(Z!Seconds(s)) = Len(s)
           /\ \A k \in 1..Len(s) : Z!Firsts(s)[k] = s[k][1] /\ Z!Seconds(s)[k] = s[k][2]
           /\ Z!Firsts(<<>>) = <<>> /\ Z!Seconds(<<>>) = <<>>
           /\ \A e \in elems : /\ Z!Firsts(Append(s, e)) = Append(Z!Firsts(s), e[1])
                               /\ Z!Seconds(Append(s, e)) = Append(Z!Seconds(s), e[2])
  <1> DEFINE one == {e[1] : e \in elems}
             two == {e[2] : e \in elems}
             g == [e \in elems |-> e[1]]
             h == [e \in elems |-> e[2]]
  <1>1. \A r : r \in Seq(elems) => Z!Firsts(r) = Images(g, r) /\ Z!Seconds(r) = Images(h, r)
    <2> SUFFICES ASSUME NEW r \in Seq(elems)
                 PROVE  Z!Firsts(r) = Images(g, r) /\ Z!Seconds(r) = Images(h, r)
      OBVIOUS
    <2>1. DOMAIN r = 1..Len(r) /\ \A k \in 1..Len(r) : r[k] \in elems
      OBVIOUS
    <2> QED
      BY <2>1 DEF Z!Firsts, Z!Seconds, Images
  <1>2. /\ Z!Firsts(s) = [k \in 1..Len(s) |-> s[k][1]]
        /\ Z!Seconds(s) = [k \in 1..Len(s) |-> s[k][2]]
    BY DEF Z!Firsts, Z!Seconds
  <1>3. Len(s) \in Nat /\ \A k \in 1..Len(s) : s[k][1] \in one /\ s[k][2] \in two
    OBVIOUS
  <1> HIDE DEF one, two
  <1>4. /\ Z!Firsts(s) \in Seq(one) /\ Len(Z!Firsts(s)) = Len(s)
        /\ Z!Seconds(s) \in Seq(two) /\ Len(Z!Seconds(s)) = Len(s)
        /\ \A k \in 1..Len(s) : Z!Firsts(s)[k] = s[k][1] /\ Z!Seconds(s)[k] = s[k][2]
    BY <1>2, <1>3
  <1>5. Z!Firsts(<<>>) = <<>> /\ Z!Seconds(<<>>) = <<>>
    BY DEF Z!Firsts, Z!Seconds
  <1>6. ASSUME NEW e \in elems
        PROVE  /\ Z!Firsts(Append(s, e)) = Append(Z!Firsts(s), e[1])
               /\ Z!Seconds(Append(s, e)) = Append(Z!Seconds(s), e[2])
    <2>1. Append(s, e) \in Seq(elems) /\ g[e] = e[1] /\ h[e] = e[2]
      OBVIOUS
    <2> HIDE DEF g, h
    <2>2. /\ Images(g, Append(s, e)) = Append(Images(g, s), g[e])
          /\ Images(h, Append(s, e)) = Append(Images(h, s), h[e])
      BY ImagesGrow
    <2> QED
      BY <1>1, <2>1, <2>2
  <1> QED
    BY <1>4, <1>5, <1>6 DEF one, two

\* How the words of one side are counted when there is one pair more.
LEMMA CountSides ==
    ASSUME NEW elems, NEW s \in Seq(elems), NEW e \in elems, NEW x
    PROVE  /\ Z!Count(Z!Firsts(s), x) \in Nat /\ Z!Count(Z!Seconds(s), x) \in Nat
           /\ Z!Count(Z!Firsts(Append(s, e)), x) = Z!Count(Z!Firsts(s), x) + Z!One(e[1] = x)
           /\ Z!Count(Z!Seconds(Append(s, e)), x) = Z!Count(Z!Seconds(s), x) + Z!One(e[2] = x)
  <1> DEFINE one == {d[1] : d \in elems}
             two == {d[2] : d \in elems}
             v == Z!Firsts(s)
             w == Z!Seconds(s)
             y == e[1]
             z == e[2]
  <1>1. /\ v \in Seq(one) /\ w \in Seq(two) /\ y \in one /\ z \in two
        /\ Z!Firsts(Append(s, e)) = Append(v, y) /\ Z!Seconds(Append(s, e)) = Append(w, z)
    BY SidesFacts
  <1> HIDE DEF one, two, v, w, y, z
  <1>2. /\ Z!Count(v, x) \in Nat /\ Z!Count(Append(v, y), x) = Z!Count(v, x) + Z!One(y = x)
        /\ Z!Count(w, x) \in Nat /\ Z!Count(Append(w, z), x) = Z!Count(w, x) + Z!One(z = x)
    BY <1>1, CountFacts
  <1> QED
    BY <1>1, <1>2 DEF v, w, y, z

\* The words that are correct among what has been said.
Right(s) == LET right == Those(s, {k \in DOMAIN s : Z!IsCorrect(s[k])})
            IN  [k \in DOMAIN right |-> right[k][1]]

LEMMA CountRight ==
    ASSUME NEW s \in Seq(Spoken), NEW w \in Word
    PROVE  Z!Count(Right(s), w) = Z!Count(s, <<w, w>>)
  <1> DEFINE keep == {k \in DOMAIN s : Z!IsCorrect(s[k])}
             right == Those(s, keep)
             n == Len(right)
             r == Right(s)
  <1>1. DOMAIN s = 1..Len(s)
    OBVIOUS
  <1>2. Z!IsCorrect(<<w, w>>)
    BY Symbols DEF Z!IsCorrect, Z!IsValid, Z!IsLabel, Word
  <1>3. \A k \in 1..Len(s) : s[k] = <<w, w>> => k \in keep
    BY <1>1, <1>2
  <1>4. right \in Seq({s[k] : k \in keep \cap (1..Len(s))}) /\ right \in Seq(Spoken)
    BY ThoseFacts
  <1>5. n \in Nat /\ DOMAIN right = 1..n /\ \A k \in 1..n : Z!IsCorrect(right[k]) /\ right[k] \in Spoken
    <2> DEFINE picked == {s[k] : k \in keep \cap (1..Len(s))}
    <2>1. right \in Seq(picked) /\ \A y \in picked : Z!IsCorrect(y)
      BY <1>4
    <2> HIDE DEF picked, right
    <2>2. n \in Nat /\ DOMAIN right = 1..n /\ \A k \in 1..n : right[k] \in picked /\ right[k] \in Spoken
      BY <1>4, <2>1
    <2> QED
      BY <2>1, <2>2
  <1>6. Z!Count(right, <<w, w>>) = Z!Count(s, <<w, w>>)
    BY <1>3, CountThose
  <1>7. r = [k \in DOMAIN right |-> right[k][1]]
    BY DEF Right
  <1> HIDE DEF keep, right, n, r
  <1>8. \A k \in 1..n : right[k][1] = w <=> right[k] = <<w, w>>
    BY <1>5 DEF Z!IsCorrect, Spoken
  <1>9. {k \in DOMAIN r : r[k] = w} = {k \in DOMAIN right : right[k] = <<w, w>>}
    BY <1>5, <1>7, <1>8
  <1> QED
    BY <1>6, <1>9 DEF Z!Count, r

\* The words of the reference, and those of the hypothesis, that an alignment has as
\* errors, with those that have been said in front of it.
Missed(al1, s, w) ==
    Z!Count(al1.del_words, w) + Z!Count(Z!Firsts(al1.sub_words), w)
      + (Z!Count(Z!Firsts(s), w) - Z!Count(s, <<w, w>>))
Added(al1, s, w) ==
    Z!Count(al1.ins_words, w) + Z!Count(Z!Seconds(al1.sub_words), w)
      + (Z!Count(Z!Seconds(s), w) - Z!Count(s, <<w, w>>))

LEMMA MissedArc ==
    ASSUME NEW tk, NEW al1 \in Counts(tk), NEW al2, NEW a \in Passed, IsWordArc(a),
           Adds(al1, al2, a), NEW s \in Seq(Spoken), NEW w \in Word
    PROVE  LET s2 == Append(s, T!Token(a.ilabel, a.olabel))
           IN  Missed(al2, s, w) = Missed(al1, s2, w) /\ Added(al2, s, w) = Added(al1, s2, w)
  <1> DEFINE i == a.ilabel
             o == a.olabel
             e == T!Token(i, o)
             d == al1.del_words
             h == al1.ins_words
             b == al1.sub_words
  <1>1. /\ i \in Word \cup {0} /\ o \in Word \cup {0} /\ i \in Nat /\ o \in Nat /\ (i # 0 \/ o # 0)
        /\ e \in Spoken /\ e[1] = (IF i = 0 THEN InsLabel ELSE i) /\ e[2] = (IF o = 0 THEN DelLabel ELSE o)
        /\ e = <<e[1], e[2]>>
    BY TokenFacts
  <1>2. d \in Seq(Word) /\ h \in Seq(Word) /\ b \in Seq(Word \X Word)
    BY DEF Counts
  <1>3. w # 0 /\ w # InsLabel /\ w # DelLabel
    BY DEF Word
  <1>4. /\ al2.del_words = IF o = 0 THEN Append(d, i) ELSE d
        /\ al2.ins_words = IF i = 0 THEN Append(h, o) ELSE h
        /\ al2.sub_words = IF i # 0 /\ o # 0 /\ i # o THEN Append(b, <<i, o>>) ELSE b
    BY DEF Adds, IsSub
  <1> DEFINE s2 == Append(s, e)
             cd == Z!Count(d, w)
             ch == Z!Count(h, w)
             b1 == Z!Count(Z!Firsts(b), w)
             b2 == Z!Count(Z!Seconds(b), w)
             s1 == Z!Count(Z!Firsts(s), w)
             t1 == Z!Count(Z!Seconds(s), w)
             sp == Z!Count(s, <<w, w>>)
  <1>5. cd \in Nat /\ ch \in Nat /\ sp \in Nat
    BY <1>2, CountFacts
  <1>6. /\ s1 \in Nat /\ t1 \in Nat
        /\ Z!Count(Z!Firsts(s2), w) = s1 + Z!One(e[1] = w)
        /\ Z!Count(Z!Seconds(s2), w) = t1 + Z!One(e[2] = w)
        /\ Z!Count(s2, <<w, w>>) = sp + Z!One(e = <<w, w>>)
    <2> HIDE DEF e
    <2> QED
      BY <1>1, CountSides, CountFacts
  <1>7. b1 \in Nat /\ b2 \in Nat
    <2>1. /\ b1 = Cardinality(Spots(Z!Firsts(b), w, Len(b))) /\ b2 = Cardinality(Spots(Z!Seconds(b), w, Len(b)))
          /\ Len(b) \in Nat
      <3>1. /\ Z!Firsts(b) \in Seq({x[1] : x \in Word \X Word}) /\ Len(Z!Firsts(b)) = Len(b)
            /\ Z!Seconds(b) \in Seq({x[2] : x \in Word \X Word}) /\ Len(Z!Seconds(b)) = Len(b)
        BY <1>2, SidesFacts
      <3> QED
        BY <1>2, <3>1, CountFacts
    <2> QED
      BY <2>1, SpotsGrow
  <1>8. i # 0 => Z!Count(Append(d, i), w) = cd + Z!One(i = w)
    <2> SUFFICES ASSUME i \in Word PROVE Z!Count(Append(d, i), w) = cd + Z!One(i = w)
      BY <1>1
    <2> HIDE DEF i, d
    <2> QED
      BY <1>2, CountFacts
  <1>9. o # 0 => Z!Count(Append(h, o), w) = ch + Z!One(o = w)
    <2> SUFFICES ASSUME o \in Word PROVE Z!Count(Append(h, o), w) = ch + Z!One(o = w)
      BY <1>1
    <2> HIDE DEF o, h
    <2> QED
      BY <1>2, CountFacts
  <1>10. i # 0 /\ o # 0 => /\ Z!Count(Z!Firsts(Append(b, <<i, o>>)), w) = b1 + Z!One(i = w)
                           /\ Z!Count(Z!Seconds(Append(b, <<i, o>>)), w) = b2 + Z!One(o = w)
    <2> SUFFICES ASSUME i \in Word, o \in Word
                 PROVE  /\ Z!Count(Z!Firsts(Append(b, <<i, o>>)), w) = b1 + Z!One(i = w)
                        /\ Z!Count(Z!Seconds(Append(b, <<i, o>>)), w) = b2 + Z!One(o = w)
      BY <1>1
    <2> DEFINE x == <<i, o>>
    <2>1. x \in Word \X Word /\ x[1] = i /\ x[2] = o
      OBVIOUS
    <2> HIDE DEF x, i, o, b
    <2> QED
      BY <1>2, <2>1, CountSides
  <1>11. e = <<w, w>> <=> e[1] = w /\ e[2] = w
    BY <1>1
  <1> DEFINE e1 == e[1]
             e2 == e[2]
  <1>12. /\ Z!One(i = w) \in {0, 1} /\ Z!One(o = w) \in {0, 1} /\ Z!One(e1 = w) \in {0, 1}
         /\ Z!One(e2 = w) \in {0, 1} /\ Z!One(e = <<w, w>>) = Z!One(e1 = w /\ e2 = w)
    BY <1>11 DEF Z!One
  <1> SUFFICES Missed(al2, s, w) = Missed(al1, s2, w) /\ Added(al2, s, w) = Added(al1, s2, w)
    OBVIOUS
  <1>13. e1 = (IF i = 0 THEN InsLabel ELSE i) /\ e2 = (IF o = 0 THEN DelLabel ELSE o)
    BY <1>1
  <1>14. /\ Missed(al1, s2, w) = cd + b1 + ((s1 + Z!One(e1 = w)) - (sp + Z!One(e1 = w /\ e2 = w)))
         /\ Added(al1, s2, w) = ch + b2 + ((t1 + Z!One(e2 = w)) - (sp + Z!One(e1 = w /\ e2 = w)))
    BY <1>6, <1>12 DEF Missed, Added
  <1>15. /\ Missed(al2, s, w) = Z!Count(al2.del_words, w) + Z!Count(Z!Firsts(al2.sub_words), w) + (s1 - sp)
         /\ Added(al2, s, w) = Z!Count(al2.ins_words, w) + Z!Count(Z!Seconds(al2.sub_words), w) + (t1 - sp)
    BY DEF Missed, Added
  <1>16. /\ Z!Count(al2.del_words, w) = IF o = 0 THEN cd + Z!One(i = w) ELSE cd
         /\ Z!Count(al2.ins_words, w) = IF i = 0 THEN ch + Z!One(o = w) ELSE ch
         /\ Z!Count(Z!Firsts(al2.sub_words), w)
              = IF i # 0 /\ o # 0 /\ i # o THEN b1 + Z!One(i = w) ELSE b1
         /\ Z!Count(Z!Seconds(al2.sub_words), w)
              = IF i # 0 /\ o # 0 /\ i # o THEN b2 + Z!One(o = w) ELSE b2
    BY <1>1, <1>4, <1>8, <1>9, <1>10
  <1> HIDE DEF e, e1, e2, cd, ch, b1, b2, s1, t1, sp, s2, d, h, b
  <1>17. cd \in Int /\ ch \in Int /\ b1 \in Int /\ b2 \in Int /\ s1 \in Int /\ t1 \in Int /\ sp \in Int
    BY <1>5, <1>6, <1>7
  <1> DEFINE p == Z!Count(al2.del_words, w)
             q == Z!Count(al2.ins_words, w)
             y == Z!Count(Z!Firsts(al2.sub_words), w)
             z == Z!Count(Z!Seconds(al2.sub_words), w)
             m1 == Missed(al1, s2, w)
             m2 == Missed(al2, s, w)
             n1 == Added(al1, s2, w)
             n2 == Added(al2, s, w)
  <1> HIDE DEF p, q, y, z, m1, m2, n1, n2, i, o
  <1>20. /\ m2 = p + y + (s1 - sp) /\ n2 = q + z + (t1 - sp)
         /\ m1 = cd + b1 + ((s1 + Z!One(e1 = w)) - (sp + Z!One(e1 = w /\ e2 = w)))
         /\ n1 = ch + b2 + ((t1 + Z!One(e2 = w)) - (sp + Z!One(e1 = w /\ e2 = w)))
    BY <1>14, <1>15 DEF p, q, y, z, m1, m2, n1, n2
  <1>21. /\ p = (IF o = 0 THEN cd + Z!One(i = w) ELSE cd)
         /\ q = (IF i = 0 THEN ch + Z!One(o = w) ELSE ch)
         /\ y = (IF i # 0 /\ o # 0 /\ i # o THEN b1 + Z!One(i = w) ELSE b1)
         /\ z = (IF i # 0 /\ o # 0 /\ i # o THEN b2 + Z!One(o = w) ELSE b2)
    BY <1>16 DEF p, q, y, z
  <1>22. i # 0 \/ o # 0
    BY <1>1
  <1>23. m2 = m1
    BY <1>3, <1>13, <1>17, <1>20, <1>21, <1>22 DEF Z!One
  <1>24. n2 = n1
    BY <1>3, <1>13, <1>17, <1>20, <1>21, <1>22 DEF Z!One
  <1> QED
    BY <1>23, <1>24 DEF m1, m2, n1, n2

\* What has been said at each state of a chain.
Uttered(v) ==
    /\ v \in [0..Len(chain) -> Seq(Spoken)] /\ v[0] = <<>>
    /\ \A i \in 1..Len(chain) :
         v[i] = IF IsWordArc(chain[i])
                THEN Append(v[i - 1], T!Token(chain[i].ilabel, chain[i].olabel)) ELSE v[i - 1]

Voice == [y \in Said |-> y[2]]
Voices(f) == [i \in 0..Len(chain) |-> Images(Voice, f[i])]

LEMMA VoiceFacts ==
    /\ Images(Voice, <<>>) = <<>>
    /\ \A s \in Seq(Said) : /\ Images(Voice, s) \in Seq(Spoken) /\ Len(Images(Voice, s)) = Len(s)
                            /\ \A y \in Said : Images(Voice, Append(s, y)) = Append(Images(Voice, s), y[2])
  <1>1. Images(Voice, <<>>) = <<>>
    BY DEF Images
  <1>2. \A y \in Said : Voice[y] = y[2] /\ Voice[y] \in Spoken
    BY DEF Voice, Said
  <1>3. ASSUME NEW s \in Seq(Said)
        PROVE  /\ Images(Voice, s) \in Seq(Spoken) /\ Len(Images(Voice, s)) = Len(s)
               /\ \A y \in Said : Images(Voice, Append(s, y)) = Append(Images(Voice, s), y[2])
    <2>1. Len(s) \in Nat /\ \A k \in 1..Len(s) : Voice[s[k]] \in Spoken
      BY <1>2
    <2>2. Images(Voice, s) = [k \in 1..Len(s) |-> Voice[s[k]]]
      BY DEF Images
    <2>3. Images(Voice, s) \in Seq(Spoken) /\ Len(Images(Voice, s)) = Len(s)
      BY <2>1, <2>2
    <2>4. ASSUME NEW y \in Said
          PROVE  Images(Voice, Append(s, y)) = Append(Images(Voice, s), y[2])
      BY <1>2, ImagesGrow
    <2> QED
      BY <2>3, <2>4
  <1> QED
    BY <1>1, <1>3

LEMMA UtteredOf ==
    ASSUME NEW u, NEW f, NEW x, Story(u, f, x)
    PROVE  Uttered(Voices(f))
  <1> DEFINE n == Len(chain)
             v == Voices(f)
  <1>1. /\ n \in Nat /\ f \in [0..n -> Seq(Said)] /\ f[0] = <<>> /\ chain \in Seq(Passed)
        /\ \A i \in 1..n : Tells(u[i], u[i - 1], f[i - 1], f[i], x[i - 1], x[i], chain[i])
        /\ \A i \in 0..n : v[i] = Images(Voice, f[i])
        /\ v = [i \in 0..n |-> Images(Voice, f[i])] /\ u \in [0..n -> Trace]
    BY DEF Story, Voices
  <1> HIDE DEF n, v
  <1>2. v \in [0..n -> Seq(Spoken)] /\ v[0] = <<>>
    <2>1. \A i \in 0..n : Images(Voice, f[i]) \in Seq(Spoken)
      BY <1>1, VoiceFacts
    <2>2. 0 \in 0..n
      BY <1>1
    <2> QED
      BY <1>1, <2>1, <2>2, VoiceFacts
  <1>3. ASSUME NEW i \in 1..n
        PROVE  v[i] = IF IsWordArc(chain[i])
                      THEN Append(v[i - 1], T!Token(chain[i].ilabel, chain[i].olabel)) ELSE v[i - 1]
    <2> DEFINE a == chain[i]
               y == <<OpenLabel(u[i - 1]), T!Token(a.ilabel, a.olabel)>>
               h == f[i - 1]
    <2>1. i \in 0..n /\ i - 1 \in 0..n
      BY <1>1
    <2>2. /\ a \in Passed /\ h \in Seq(Said) /\ v[i - 1] = Images(Voice, h) /\ v[i] = Images(Voice, f[i])
          /\ Tells(u[i], u[i - 1], h, f[i], x[i - 1], x[i], a) /\ u[i - 1] \in Trace
          /\ f[i] \in Seq(Said)
      <3>1. chain[i] \in Passed
        BY <1>1 DEF n
      <3> QED
        BY <1>1, <2>1, <3>1
    <2>3. CASE IsWordArc(a)
      <3>1. ~IsLabel(a.ilabel) /\ f[i] = Append(h, y)
        BY <2>2, <2>3, TokenFacts DEF Tells, Adding, EnteringClass, LeavingClass, Idling
      <3>2. y \in Said
        <4>1. Append(h, y) \in Seq(Said)
          BY <2>2, <3>1
        <4> HIDE DEF y, h
        <4>2. Len(Append(h, y)) = Len(h) + 1 /\ Append(h, y)[Len(h) + 1] = y /\ Len(h) \in Nat
          BY <2>2
        <4> QED
          BY <4>1, <4>2
      <3> DEFINE z == y[2]
      <3>3. z = T!Token(a.ilabel, a.olabel)
        OBVIOUS
      <3> HIDE DEF y, h
      <3>4. Images(Voice, Append(h, y)) = Append(Images(Voice, h), z)
        BY <2>2, <3>2, VoiceFacts
      <3> QED
        BY <2>2, <2>3, <3>1, <3>3, <3>4
    <2>4. CASE ~IsWordArc(a)
      <3>1. f[i] = h
        BY <2>2, <2>4 DEF Tells, Adding, EnteringClass, LeavingClass, Idling
      <3> QED
        BY <2>2, <2>4, <3>1
    <2> QED
      BY <2>3, <2>4
  <1> QED
    BY <1>2, <1>3 DEF Uttered, n, v

LEMMA MissedNone ==
    ASSUME NEW s \in Seq(Spoken), NEW w \in Word, NEW l
    PROVE  /\ Missed(T!Empty(l), s, w) = Z!Count(Z!Firsts(s), w) - Z!Count(s, <<w, w>>)
           /\ Added(T!Empty(l), s, w) = Z!Count(Z!Seconds(s), w) - Z!Count(s, <<w, w>>)
           /\ \A al1 : /\ Missed(al1, <<>>, w)
                            = Z!Count(al1.del_words, w) + Z!Count(Z!Firsts(al1.sub_words), w) + 0
                       /\ Added(al1, <<>>, w)
                            = Z!Count(al1.ins_words, w) + Z!Count(Z!Seconds(al1.sub_words), w) + 0
           /\ Z!Count(Z!Firsts(s), w) \in Nat /\ Z!Count(Z!Seconds(s), w) \in Nat
           /\ Z!Count(s, <<w, w>>) \in Nat
  <1>1. <<>> \in Seq(Spoken)
    OBVIOUS
  <1>2. Z!Firsts(<<>>) = <<>> /\ Z!Seconds(<<>>) = <<>>
    BY <1>1, SidesFacts
  <1>3. Z!Count(<<>>, w) = 0 /\ Z!Count(<<>>, <<w, w>>) = 0
    BY <1>1, CountFacts
  <1>4. /\ T!Empty(l).del_words = <<>> /\ T!Empty(l).ins_words = <<>> /\ T!Empty(l).sub_words = <<>>
    BY DEF T!Empty
  <1> DEFINE one == {e[1] : e \in Spoken}
             two == {e[2] : e \in Spoken}
  <1>5. Z!Firsts(s) \in Seq(one) /\ Z!Seconds(s) \in Seq(two)
    BY SidesFacts
  <1> HIDE DEF one, two
  <1>6. /\ Z!Count(Z!Firsts(s), w) \in Nat /\ Z!Count(Z!Seconds(s), w) \in Nat
        /\ Z!Count(s, <<w, w>>) \in Nat
    BY <1>5, CountFacts
  <1> QED
    BY <1>2, <1>3, <1>4, <1>6 DEF Missed, Added

\* Every word that has been said is among the errors of the alignment or correct.
LEMMA ErrorsKept ==
    ASSUME NEW u, NEW f, NEW x, Story(u, f, x), NEW v, Uttered(v), NEW w \in Word
    PROVE  LET s == v[Len(chain)]
               al1 == u[0].al
           IN  /\ Z!Count(al1.del_words, w) + Z!Count(Z!Firsts(al1.sub_words), w) + 0
                    = Z!Count(Z!Firsts(s), w) - Z!Count(s, <<w, w>>)
               /\ Z!Count(al1.ins_words, w) + Z!Count(Z!Seconds(al1.sub_words), w) + 0
                    = Z!Count(Z!Seconds(s), w) - Z!Count(s, <<w, w>>)
  <1> DEFINE n == Len(chain)
             p(k) == Missed(u[k].al, v[k], w)
             q(k) == Added(u[k].al, v[k], w)
             K == {k \in 0..n : p(n - k) = p(n) /\ q(n - k) = q(n)}
  <1>1. /\ n \in Nat /\ u \in [0..n -> Trace] /\ u[n] = T!Unread /\ v \in [0..n -> Seq(Spoken)] /\ v[0] = <<>>
        /\ \A i \in 1..n : /\ Tells(u[i], u[i - 1], f[i - 1], f[i], x[i - 1], x[i], chain[i])
                           /\ chain[i] \in Passed
                           /\ v[i] = IF IsWordArc(chain[i])
                                     THEN Append(v[i - 1], T!Token(chain[i].ilabel, chain[i].olabel))
                                     ELSE v[i - 1]
    <2>1. /\ chain \in Seq(Passed) /\ u \in [0..n -> Trace] /\ u[n] = T!Unread
          /\ \A i \in 1..n : Tells(u[i], u[i - 1], f[i - 1], f[i], x[i - 1], x[i], chain[i])
      BY DEF Story
    <2>2. n \in Nat /\ \A i \in 1..n : chain[i] \in Passed
      BY <2>1
    <2> QED
      BY <2>1, <2>2 DEF Uttered
  <1> HIDE DEF n
  <1>2. ASSUME NEW i \in 1..n PROVE p(i - 1) = p(i) /\ q(i - 1) = q(i)
    <2> DEFINE a == chain[i]
               t == u[i]
               t2 == u[i - 1]
               s == v[i - 1]
    <2>1. /\ i \in 0..n /\ i - 1 \in 0..n
      BY <1>1
    <2>2. /\ a \in Passed /\ t \in Trace /\ t2 \in Trace /\ s \in Seq(Spoken)
          /\ Tells(t, t2, f[i - 1], f[i], x[i - 1], x[i], a)
          /\ v[i] = IF IsWordArc(a) THEN Append(s, T!Token(a.ilabel, a.olabel)) ELSE s
      BY <1>1, <2>1
    <2>3. CASE IsWordArc(a)
      <3>1. Adds(t.al, t2.al, a)
        <4>1. ~IsLabel(a.ilabel) /\ t.inClass \in BOOLEAN
          BY <2>2, <2>3, TokenFacts, TraceFacts
        <4>2. Reads(t, t2, a)
          BY <2>2, <2>3, <4>1 DEF Tells, Adding, EnteringClass, LeavingClass, Idling
        <4> QED
          BY <4>1, <4>2 DEF Reads, Gains
      <3>2. t.al \in Counts(Spoken \cup Labelling)
        BY <2>2, TraceFacts
      <3> DEFINE al1 == t.al
                 al2 == t2.al
                 tk == Spoken \cup Labelling
      <3> HIDE DEF al1, al2, tk, s, a
      <3>3. /\ Missed(al2, s, w) = Missed(al1, Append(s, T!Token(a.ilabel, a.olabel)), w)
            /\ Added(al2, s, w) = Added(al1, Append(s, T!Token(a.ilabel, a.olabel)), w)
        <4>1. al1 \in Counts(tk) /\ Adds(al1, al2, a) /\ a \in Passed /\ IsWordArc(a) /\ s \in Seq(Spoken)
          BY <2>2, <2>3, <3>1, <3>2 DEF al1, al2, tk
        <4> QED
          BY <4>1, MissedArc
      <3> QED
        BY <2>2, <2>3, <3>3 DEF al1, al2, s
    <2>4. CASE ~IsWordArc(a)
      <3>1. /\ t2.al.del_words = t.al.del_words /\ t2.al.ins_words = t.al.ins_words
            /\ t2.al.sub_words = t.al.sub_words
        BY <2>2, <2>4 DEF Tells, Adding, EnteringClass, LeavingClass, Idling, Met, Opened, Alike
      <3> QED
        BY <2>2, <2>4, <3>1 DEF Missed, Added
    <2> QED
      BY <2>3, <2>4
  <1> HIDE DEF p, q
  <1>3. 0 \in K
    BY <1>1
  <1>4. ASSUME NEW k \in Nat, k < n, k \in K PROVE k + 1 \in K
    <2>1. k + 1 \in 0..n /\ n - k \in 1..n /\ (n - k) - 1 = n - (k + 1)
      BY <1>1, <1>4
    <2>2. p(n - k) = p(n) /\ q(n - k) = q(n)
      BY <1>4
    <2>3. p((n - k) - 1) = p(n - k) /\ q((n - k) - 1) = q(n - k)
      BY <1>2, <2>1
    <2> QED
      BY <2>1, <2>2, <2>3
  <1>5. \A k \in 0..n : k \in K
    <2> HIDE DEF K
    <2> QED
      BY <1>1, <1>3, <1>4, Climb
  <1>6. p(0) = p(n) /\ q(0) = q(n)
    <2>1. n \in 0..n /\ n - n = 0
      BY <1>1
    <2>2. n \in K
      BY <1>5, <2>1
    <2> QED
      BY <2>1, <2>2
  <1>7. v[n] \in Seq(Spoken) /\ u[n].al = T!Empty(T!Global)
    BY <1>1 DEF T!Unread
  <1> QED
    BY <1>1, <1>6, <1>7, MissedNone DEF p, q, n

\* The words of the reference that some arcs of words have.
InputOf == [a \in Passed |-> a.ilabel]
WordsOf(arcs) == LET words == Images(InputOf, arcs)
                 IN  Those(words, {k \in DOMAIN words : words[k] # G!Eps})

LEMMA WordsOfFacts ==
    ASSUME NEW arcs \in Seq(Passed), NEW a \in Passed, a.ilabel \in Word \cup {0}
    PROVE  WordsOf(Append(arcs, a)) = IF a.ilabel # 0 THEN Append(WordsOf(arcs), a.ilabel)
                                      ELSE WordsOf(arcs)
  <1> DEFINE w == Images(InputOf, arcs)
             w2 == Images(InputOf, Append(arcs, a))
             n == Len(arcs)
             keep == {k \in DOMAIN w : w[k] # G!Eps}
             more == {k \in DOMAIN w2 : w2[k] # G!Eps}
             i == a.ilabel
             elems == {b.ilabel : b \in Passed}
  <1>1. w2 = Append(w, i)
    BY ImagesGrow DEF InputOf
  <1>2. n \in Nat /\ \A k \in 1..n : arcs[k] \in Passed /\ InputOf[arcs[k]] \in elems
    BY DEF InputOf
  <1>3. w = [k \in 1..n |-> InputOf[arcs[k]]] /\ i \in elems
    BY DEF Images
  <1>0. WordsOf(Append(arcs, a)) = Those(w2, more) /\ WordsOf(arcs) = Those(w, keep)
    BY DEF WordsOf
  <1> HIDE DEF w, n, w2, i, elems
  <1>4. w \in Seq(elems) /\ Len(w) = n /\ DOMAIN w = 1..n
    BY <1>2, <1>3
  <1>5. w2 \in Seq(elems) /\ DOMAIN w2 = 1..(n + 1) /\ w2[n + 1] = i /\ \A k \in 1..n : w2[k] = w[k]
    BY <1>1, <1>2, <1>3, <1>4
  <1>6. \A k \in 1..Len(w) : k \in more <=> k \in keep
    <2> TAKE k \in 1..Len(w)
    <2>1. k \in 1..n /\ k \in 1..(n + 1)
      BY <1>2, <1>4
    <2> QED
      BY <1>4, <1>5, <2>1
  <1>7. Len(w) + 1 \in more <=> i # 0
    <2>1. n + 1 \in 1..(n + 1)
      BY <1>2
    <2> QED
      BY <1>4, <1>5, <2>1 DEF G!Eps
  <1> HIDE DEF keep, more
  <1>8. Those(Append(w, i), more) = IF Len(w) + 1 \in more THEN Append(Those(w, keep), i) ELSE Those(w, keep)
    <2>1. i \in elems
      BY <1>3
    <2> HIDE DEF i, elems
    <2> QED
      BY <1>4, <1>6, <2>1, ThoseGrows
  <1> QED
    BY <1>0, <1>1, <1>7, <1>8 DEF i

LEMMA CountRefWords ==
    ASSUME chain \in Seq(Passed), NEW v, Uttered(v), NEW w \in Word
    PROVE  Z!Count(RefWords, w) = Z!Count(Z!Firsts(v[Len(chain)]), w) /\ RefWords \in Seq(Word)
  <1> DEFINE n == Len(chain)
             keep == {k \in DOMAIN chain : IsWordArc(chain[k])}
  <1>1. /\ n \in Nat /\ DOMAIN chain = 1..n /\ v \in [0..n -> Seq(Spoken)] /\ v[0] = <<>>
        /\ \A i \in 1..n : /\ chain[i] \in Passed
                           /\ v[i] = IF IsWordArc(chain[i])
                                     THEN Append(v[i - 1], T!Token(chain[i].ilabel, chain[i].olabel))
                                     ELSE v[i - 1]
    BY DEF Uttered
  <1>2. PICK h : IsPick(h, chain, keep, Passed) /\ Those(chain, keep) = h[n]
    BY ThoseRun
  <1>3. /\ h \in [0..n -> Seq(Passed)] /\ h[0] = <<>>
        /\ \A i \in 1..n : h[i] = IF i \in keep THEN Append(h[i - 1], chain[i]) ELSE h[i - 1]
        /\ \A i \in 1..n : i \in keep <=> IsWordArc(chain[i])
    BY <1>1, <1>2 DEF IsPick
  <1> HIDE DEF n
  <1> DEFINE K == {k \in 0..n : /\ WordsOf(h[k]) \in Seq(Word)
                                /\ Z!Count(WordsOf(h[k]), w) = Z!Count(Z!Firsts(v[k]), w)}
  <1>4. 0 \in K
    <2>1. Images(InputOf, <<>>) = <<>> /\ <<>> \in Seq(Word)
      BY DEF Images
    <2> DEFINE none == {k \in DOMAIN <<>> : <<>>[k] # G!Eps}
    <2>2. none = {}
      OBVIOUS
    <2>3. WordsOf(<<>>) = Those(<<>>, none)
      BY <2>1 DEF WordsOf
    <2> HIDE DEF none
    <2>4. Those(<<>>, none) = <<>>
      <3>1. none \cap (1..Len(<<>>)) = {}
        BY <2>2
      <3> QED
        BY <2>1, <3>1, ThoseNone
    <2>5. Z!Firsts(<<>>) = <<>>
      BY DEF Z!Firsts
    <2> QED
      BY <1>1, <1>3, <2>1, <2>3, <2>4, <2>5
  <1>5. ASSUME NEW k \in Nat, k < n, k \in K PROVE k + 1 \in K
    <2> DEFINE a == chain[k + 1]
               e == T!Token(a.ilabel, a.olabel)
               s == v[k]
               g == h[k]
               r == WordsOf(g)
    <2>1. k + 1 \in 1..n /\ k + 1 \in 0..n /\ (k + 1) - 1 = k /\ k \in 0..n
      BY <1>1, <1>5
    <2>2. /\ a \in Passed /\ s \in Seq(Spoken) /\ g \in Seq(Passed) /\ r \in Seq(Word)
          /\ Z!Count(r, w) = Z!Count(Z!Firsts(s), w)
          /\ v[k + 1] = IF IsWordArc(a) THEN Append(s, e) ELSE s
          /\ h[k + 1] = IF IsWordArc(a) THEN Append(g, a) ELSE g
      <3>1. v[k + 1] = IF IsWordArc(a) THEN Append(s, e) ELSE s
        BY <1>1, <2>1
      <3>2. h[k + 1] = IF IsWordArc(a) THEN Append(g, a) ELSE g
        BY <1>3, <2>1
      <3> QED
        BY <1>1, <1>3, <1>5, <2>1, <3>1, <3>2
    <2>3. CASE ~IsWordArc(a)
      BY <2>1, <2>2, <2>3
    <2>4. CASE IsWordArc(a)
      <3>1. /\ a.ilabel \in Word \cup {0} /\ e \in Spoken /\ e[1] = IF a.ilabel = 0 THEN InsLabel ELSE a.ilabel
        BY <2>2, <2>4, TokenFacts
      <3> DEFINE i == a.ilabel
                 e1 == e[1]
      <3>2. WordsOf(Append(g, a)) = IF i # 0 THEN Append(r, i) ELSE r
        <4> HIDE DEF g, a
        <4> QED
          BY <2>2, <3>1, WordsOfFacts DEF g, a
      <3> HIDE DEF r
      <3>3. /\ WordsOf(Append(g, a)) \in Seq(Word)
            /\ Z!Count(WordsOf(Append(g, a)), w)
                 = IF i # 0 THEN Z!Count(r, w) + Z!One(i = w) ELSE Z!Count(r, w)
        <4>1. CASE i = 0
          BY <2>2, <3>2, <4>1
        <4>2. CASE i # 0
          <5>1. i \in Word
            BY <3>1, <4>2
          <5> HIDE DEF i, g, a
          <5>2. Append(r, i) \in Seq(Word) /\ Z!Count(Append(r, i), w) = Z!Count(r, w) + Z!One(i = w)
            BY <2>2, <5>1, CountFacts
          <5> QED
            BY <3>2, <4>2, <5>2
        <4> QED
          BY <4>1, <4>2
      <3>4. Z!Count(Z!Firsts(Append(s, e)), w) = Z!Count(Z!Firsts(s), w) + Z!One(e1 = w)
            /\ Z!Count(Z!Firsts(s), w) \in Nat
        <4> HIDE DEF e, s
        <4> QED
          BY <2>2, <3>1, CountSides
      <3>5. Z!One(e1 = w) = IF i # 0 THEN Z!One(i = w) ELSE 0
        BY <3>1 DEF Z!One, Word
      <3> DEFINE g2 == Append(g, a)
                 s2 == Append(s, e)
                 y == Z!One(i = w)
      <3>6. /\ h[k + 1] = g2 /\ v[k + 1] = s2 /\ Z!Count(r, w) = Z!Count(Z!Firsts(s), w)
            /\ WordsOf(g2) \in Seq(Word)
        BY <2>2, <2>4, <3>3
      <3> HIDE DEF e1, i, e, g, s, r, g2, s2, y
      <3>7. Z!Count(WordsOf(g2), w) = Z!Count(Z!Firsts(s2), w)
        BY <3>3, <3>4, <3>5, <3>6 DEF g2, s2, y
      <3> QED
        BY <2>1, <3>6, <3>7
    <2> QED
      BY <2>3, <2>4
  <1>6. \A k \in 0..n : k \in K
    <2> HIDE DEF K
    <2> QED
      BY <1>1, <1>4, <1>5, Climb
  <1>7. n \in K
    <2>1. n \in 0..n
      BY <1>1
    <2> QED
      BY <1>6, <2>1
  <1>8. RefWords = WordsOf(h[n])
    <2>1. WordArcs = h[n] /\ h[n] \in Seq(Passed)
      <3>1. n \in 0..n
        BY <1>1
      <3> QED
        BY <1>2, <1>3, <3>1 DEF WordArcs
    <2> DEFINE ws == WordArcs
    <2>2. ws \in Seq(Passed) /\ DOMAIN ws = 1..Len(ws) /\ \A k \in 1..Len(ws) : ws[k] \in Passed
      BY <2>1, SeqFacts
    <2> HIDE DEF ws
    <2>3. Images(InputOf, ws) = [k \in DOMAIN ws |-> ws[k].ilabel]
      <3>1. \A k \in 1..Len(ws) : InputOf[ws[k]] = ws[k].ilabel
        BY <2>2 DEF InputOf
      <3> QED
        BY <2>2, <3>1 DEF Images
    <2> QED
      BY <2>1, <2>3 DEF RefWords, WordsOf, ws
  <1> QED
    BY <1>7, <1>8 DEF K, n

LEMMA CountHyp ==
    ASSUME NEW u, NEW f, NEW x, Story(u, f, x), NEW v, Uttered(v), NEW w \in Word
    PROVE  Z!Count(input.hyp, w) = Z!Count(Z!Seconds(v[Len(chain)]), w)
  <1> DEFINE n == Len(chain)
             hyp == input.hyp
             K == {k \in 0..n : Cardinality(Spots(hyp, w, x[k])) = Z!Count(Z!Seconds(v[k]), w)}
  <1>1. /\ n \in Nat /\ x \in [0..n -> 0..Len(hyp)] /\ x[0] = 0 /\ x[n] = Len(hyp)
        /\ hyp \in Seq(Word) /\ v \in [0..n -> Seq(Spoken)] /\ v[0] = <<>>
        /\ \A i \in 1..n : /\ Tells(u[i], u[i - 1], f[i - 1], f[i], x[i - 1], x[i], chain[i])
                           /\ chain[i] \in Passed
                           /\ v[i] = IF IsWordArc(chain[i])
                                     THEN Append(v[i - 1], T!Token(chain[i].ilabel, chain[i].olabel))
                                     ELSE v[i - 1]
    <2>1. /\ chain \in Seq(Passed) /\ x \in [0..n -> 0..Len(hyp)] /\ x[0] = 0 /\ x[n] = Len(hyp)
          /\ hyp \in Seq(Word)
          /\ \A i \in 1..n : Tells(u[i], u[i - 1], f[i - 1], f[i], x[i - 1], x[i], chain[i])
      BY DEF Story
    <2>2. n \in Nat /\ \A i \in 1..n : chain[i] \in Passed
      BY <2>1
    <2> QED
      BY <2>1, <2>2 DEF Uttered
  <1>2. Z!Count(hyp, w) = Cardinality(Spots(hyp, w, Len(hyp)))
    BY <1>1, CountFacts
  <1> HIDE DEF n, hyp
  <1>3. 0 \in K
    <2>1. Z!Seconds(<<>>) = <<>> /\ <<>> \in Seq(Word)
      BY DEF Z!Seconds
    <2> QED
      BY <1>1, <2>1, CountFacts, SpotsGrow
  <1>4. ASSUME NEW k \in Nat, k < n, k \in K PROVE k + 1 \in K
    <2> DEFINE a == chain[k + 1]
               e == T!Token(a.ilabel, a.olabel)
               s == v[k]
               y == x[k]
               y2 == x[k + 1]
    <2>1. k + 1 \in 1..n /\ k + 1 \in 0..n /\ (k + 1) - 1 = k /\ k \in 0..n
      BY <1>1, <1>4
    <2>2. /\ a \in Passed /\ s \in Seq(Spoken) /\ y \in 0..Len(hyp)
          /\ Cardinality(Spots(hyp, w, y)) = Z!Count(Z!Seconds(s), w)
          /\ v[k + 1] = (IF IsWordArc(a) THEN Append(s, e) ELSE s)
          /\ Tells(u[k + 1], u[k], f[k], f[k + 1], y, y2, a)
      <3>1. v[k + 1] = IF IsWordArc(a) THEN Append(s, e) ELSE s
        BY <1>1, <2>1
      <3>2. Tells(u[k + 1], u[k], f[k], f[k + 1], y, y2, a)
        BY <1>1, <2>1
      <3> QED
        BY <1>1, <1>4, <2>1, <3>1, <3>2
    <2> HIDE DEF y, y2
    <2>3. CASE ~IsWordArc(a)
      <3>1. y2 = y
        BY <2>2, <2>3 DEF Tells, Adding, EnteringClass, LeavingClass, Idling
      <3> QED
        BY <2>1, <2>2, <2>3, <3>1 DEF y2
    <2>4. CASE IsWordArc(a)
      <3> DEFINE o == a.olabel
                 e2 == e[2]
      <3>1. /\ o \in Word \cup {0} /\ e \in Spoken /\ e2 = (IF o = 0 THEN DelLabel ELSE o)
            /\ ~IsLabel(a.ilabel)
        BY <2>2, <2>4, TokenFacts
      <3>2. /\ o = 0 => y2 = y
            /\ o # 0 => y < Len(hyp) /\ hyp[y + 1] = o /\ y2 = y + 1
        BY <2>2, <2>4, <3>1 DEF Tells, Adding, EnteringClass, LeavingClass, Idling, hyp
      <3>3. Z!Count(Z!Seconds(Append(s, e)), w) = Z!Count(Z!Seconds(s), w) + Z!One(e2 = w)
            /\ Z!Count(Z!Seconds(s), w) \in Nat
        <4> HIDE DEF e, s
        <4> QED
          BY <2>2, <3>1, CountSides
      <3> HIDE DEF e2, o, e, s
      <3>4. Cardinality(Spots(hyp, w, y2)) = Cardinality(Spots(hyp, w, y)) + Z!One(e2 = w)
        <4>1. CASE o = 0
          <5>1. e2 # w
            BY <3>1, <4>1 DEF Word
          <5>2. Z!One(e2 = w) = 0 /\ Cardinality(Spots(hyp, w, y)) \in Nat
            BY <2>2, <3>3, <5>1 DEF Z!One
          <5> QED
            BY <3>2, <4>1, <5>2
        <4>2. CASE o # 0
          <5>1. e2 = o /\ y \in Nat
            BY <1>1, <2>2, <3>1, <4>2
          <5>2. Cardinality(Spots(hyp, w, y + 1)) = Cardinality(Spots(hyp, w, y)) + Z!One(hyp[y + 1] = w)
            BY <5>1, SpotsGrow
          <5> QED
            BY <3>2, <4>2, <5>1, <5>2
        <4> QED
          BY <4>1, <4>2
      <3> QED
        BY <2>1, <2>2, <2>4, <3>3, <3>4 DEF y2
    <2> QED
      BY <2>3, <2>4
  <1>5. n \in K
    <2> HIDE DEF K
    <2>1. \A k \in 0..n : k \in K
      BY <1>1, <1>3, <1>4, Climb
    <2>2. n \in 0..n
      BY <1>1
    <2> QED
      BY <2>1, <2>2
  <1> QED
    BY <1>1, <1>2, <1>5 DEF n, hyp

-----------------------------------------------------------------------------
\* The alignment with the tokens of its classes in their places

\* What stands at each position of the alignment: a word, or all words of a class.
Pieces ==
    [k \in DOMAIN S!tokens |->
       IF IsLabel(S!tokens[k][1])
       THEN FlattenSeq([j \in DOMAIN Z!EachOf(alignment, S!tokens[k][1]) |->
                          Z!EachOf(alignment, S!tokens[k][1])[j].tokens])
       ELSE <<S!tokens[k]>>]

Pieced ==
    /\ Pieces \in Seq(Seq(Spoken)) /\ Len(Pieces) = Len(S!tokens)
    /\ \A k \in 1..Len(S!tokens) : S!tokens[k] \in Spoken => Pieces[k] = <<S!tokens[k]>>
    /\ \A c \in 1..Len(S!classes) : \A k \in 1..Len(S!tokens) :
         S!tokens[k][1] = S!classes[c].classLabel => Pieces[k] = S!classes[c].tokens

LEMMA PiecesFacts ==
    ASSUME NEW t0 \in Trace, alignment = Details(t0), Tidy
    PROVE  Pieced /\ Z!Flattened(alignment) = FlattenSeq(Pieces)
  <1> DEFINE toks == S!tokens
             cs == S!classes
             n == Len(toks)
             m == Len(cs)
             both == Spoken \cup Labelling
             keep(l) == {k \in DOMAIN cs : cs[k].classLabel = l}
             of(l) == Those(cs, keep(l))
             inside(l) == FlattenSeq([j \in DOMAIN of(l) |-> of(l)[j].tokens])
  <1>1. toks \in Seq(both) /\ cs \in Seq(Counts(Spoken))
    BY DetailsFacts DEF S!tokens, S!classes
  <1>2. /\ n \in Nat /\ DOMAIN toks = 1..n /\ \A k \in 1..n : toks[k] \in both
        /\ m \in Nat /\ DOMAIN cs = 1..m /\ \A c \in 1..m : cs[c] \in Counts(Spoken)
    <2> HIDE DEF toks, cs, both
    <2> QED
      BY <1>1
  <1>3. \A l : Z!EachOf(alignment, l) = of(l)
    BY CountOps DEF Z!EachOf, S!classes
  <1>4. \A c \in Counts(Spoken) : c.tokens \in Seq(Spoken)
    BY DEF Counts
  <1>5. \A c \in 1..m : cs[c].classLabel \in AnyLabel /\ \A j \in 1..m : cs[j].classLabel = cs[c].classLabel => j = c
    BY <1>2 DEF Tidy
  <1>6. \A l \in Labelling : l[1] \in AnyLabel
    BY DEF Labelling
  <1>7. \A l : IsLabel(l) <=> l \in AnyLabel
    BY DEF IsLabel, T!IsLabel, AnyLabel
  <1>8. Pieces = [k \in 1..n |-> IF IsLabel(toks[k][1]) THEN inside(toks[k][1]) ELSE <<toks[k]>>]
    BY <1>2, <1>3 DEF Pieces
  <1>9. Z!Flattened(alignment)
          = FlattenSeq([k \in 1..n |-> IF IsLabel(toks[k][1]) THEN inside(toks[k][1]) ELSE <<toks[k]>>])
    <2>1. \A l : Z!IsLabel(l) <=> IsLabel(l)
      BY DEF Z!IsLabel, IsLabel, T!IsLabel
    <2>2. alignment.alignment.tokens = toks
      BY DEF S!tokens
    <2>3. Z!Flattened(alignment)
            = Z!FlattenSeq([k \in DOMAIN toks |->
                 IF Z!IsLabel(toks[k][1])
                 THEN Z!FlattenSeq([j \in DOMAIN Z!EachOf(alignment, toks[k][1]) |->
                                      Z!EachOf(alignment, toks[k][1])[j].tokens])
                 ELSE <<toks[k]>>])
      BY <2>2 DEF Z!Flattened
    <2> HIDE DEF toks, cs, of
    <2> QED
      BY <1>2, <1>3, <2>1, <2>3, CountOps
  <1>10. \A l : of(l) \in Seq(Counts(Spoken))
    <2> HIDE DEF cs, keep
    <2> QED
      BY <1>1, ThoseFacts
  <1> HIDE DEF toks, cs, both, of
  <1>11. \A l : inside(l) \in Seq(Spoken)
    <2> TAKE l
    <2> DEFINE o == of(l)
               k == Len(o)
               ss == [j \in 1..k |-> o[j].tokens]
    <2>1. o \in Seq(Counts(Spoken))
      BY <1>10
    <2> HIDE DEF o
    <2>2. k \in Nat /\ DOMAIN o = 1..k /\ \A j \in 1..k : o[j].tokens \in Seq(Spoken)
      BY <1>4, <2>1
    <2> HIDE DEF k
    <2>3. ss \in [1..k -> Seq(Spoken)]
      BY <2>2
    <2>4. FlattenSeq(ss) \in Seq(Spoken)
      <3> HIDE DEF ss
      <3> QED
        BY <2>2, <2>3, FlattenType
    <2> QED
      BY <2>2, <2>4 DEF o
  <1>12. ASSUME NEW c \in 1..m PROVE inside(cs[c].classLabel) = cs[c].tokens
    <2> DEFINE l == cs[c].classLabel
               w == cs[c].tokens
    <2>1. keep(l) \cap (1..Len(cs)) = {c}
      BY <1>2, <1>5
    <2>2. of(l) = <<cs[c]>>
      <3> HIDE DEF keep
      <3> QED
        BY <1>1, <2>1, ThoseOne DEF of
    <2>3. inside(l) = FlattenSeq(<<w>>)
      <3>1. [j \in DOMAIN of(l) |-> of(l)[j].tokens] = <<w>>
        BY <2>2
      <3> QED
        BY <3>1
    <2>4. w \in Seq(Spoken)
      BY <1>2, <1>4
    <2> HIDE DEF w, l
    <2>5. <<w>> \in Seq(Seq(Spoken)) /\ Len(<<w>>) = 1 /\ <<w>>[1] = w
      BY <2>4
    <2>6. FlattenSeq(<<w>>) = <<w>>[1]
      <3> DEFINE ss == <<w>>
      <3>1. ss \in Seq(Seq(Spoken)) /\ 1 \in 1..Len(ss) /\ \A i \in 1..Len(ss) : i # 1 => ss[i] = <<>>
        BY <2>5
      <3> HIDE DEF ss
      <3> QED
        BY <3>1, FlattenOne DEF ss
    <2> QED
      BY <2>3, <2>5, <2>6 DEF l, w
  <1> DEFINE piece(k) == IF IsLabel(toks[k][1]) THEN inside(toks[k][1]) ELSE <<toks[k]>>
  <1>13. Pieces = [k \in 1..n |-> piece(k)] /\ Z!Flattened(alignment) = FlattenSeq([k \in 1..n |-> piece(k)])
    BY <1>8, <1>9
  <1>14. \A k \in 1..n : piece(k) \in Seq(Spoken)
    <2> TAKE k \in 1..n
    <2>1. ~IsLabel(toks[k][1]) => toks[k] \in Spoken
      BY <1>2, <1>6, <1>7 DEF both
    <2> HIDE DEF inside
    <2>2. \A y \in Spoken : <<y>> \in Seq(Spoken)
      OBVIOUS
    <2> QED
      BY <1>11, <2>1, <2>2
  <1>15. \A k \in 1..n : toks[k] \in Spoken => piece(k) = <<toks[k]>>
    BY <1>7, SpokenFacts
  <1>16. \A c \in 1..m : \A k \in 1..n : toks[k][1] = cs[c].classLabel => piece(k) = cs[c].tokens
    <2> HIDE DEF inside
    <2> QED
      BY <1>5, <1>7, <1>12
  <1> HIDE DEF piece, inside, n, m
  <1>17. Pieces \in Seq(Seq(Spoken)) /\ Len(Pieces) = n /\ \A k \in 1..n : Pieces[k] = piece(k)
    BY <1>2, <1>13, <1>14
  <1> QED
    BY <1>13, <1>15, <1>16, <1>17 DEF n, m, toks, cs, Pieced

\* With each label given to one class, the first class with it is all of them, and
\* what is visited for the unigrams is what is flattened for the bigrams.
LEMMA VisitedAll ==
    ASSUME NEW t0 \in Trace, alignment = Details(t0), Tidy
    PROVE  Z!Visited(alignment) = Z!Flattened(alignment)
  <1> DEFINE cs == S!classes
             keep(l) == {k \in DOMAIN cs : cs[k].classLabel = l}
             first(l) == {k \in DOMAIN cs : /\ cs[k].classLabel = l
                                            /\ \A j \in 1..(k - 1) : cs[j].classLabel # l}
  <1>1. DOMAIN cs = 1..Len(cs) /\ Len(cs) \in Nat
    <2>1. cs \in Seq(Counts(Spoken))
      BY DetailsFacts DEF S!classes
    <2> QED
      BY <2>1
  <1>2. \A l : keep(l) = first(l)
    <2> SUFFICES ASSUME NEW l, NEW k \in DOMAIN cs, cs[k].classLabel = l, NEW j \in 1..(k - 1)
                 PROVE  cs[j].classLabel # l
      OBVIOUS
    <2>1. j \in DOMAIN cs /\ j # k
      BY <1>1
    <2> QED
      BY <2>1 DEF Tidy
  <1>3. \A l : Z!FirstOf(alignment, l) = Z!EachOf(alignment, l)
    <2>1. \A l : Z!EachOf(alignment, l) = Z!Those(cs, keep(l))
      BY DEF Z!EachOf, S!classes
    <2>2. \A l : Z!FirstOf(alignment, l) = Z!Those(cs, first(l))
      BY DEF Z!FirstOf, S!classes
    <2> HIDE DEF keep, first, cs
    <2> QED
      BY <1>2, <2>1, <2>2
  <1> QED
    BY <1>3 DEF Z!Visited, Z!Flattened

\* What has been said when t lies behind: the pieces in front of it and, inside of a
\* class, the words of the class up to there.
SaidInside(t, part) ==
    LET c == Len(t.classes)
        size == Len(S!classes[c].tokens)
    IN  /\ part \in Seq(Spoken) /\ Len(part) = size - Len(t.classes[c].tokens)
        /\ \A k \in 1..Len(part) : part[k] = S!classes[c].tokens[k]

SaidOf(g, t, s) ==
    LET done == Len(S!tokens) - Len(t.al.tokens)
    IN  /\ ~t.inClass => s = g[done]
        /\ t.inClass => \E part : SaidInside(t, part) /\ s = g[done] \o part

Joins(s, r, e) == Append(s \o r, e) = s \o Append(r, e)

LEMMA JoinAppend ==
    ASSUME NEW elems, NEW s \in Seq(elems), NEW r \in Seq(elems), NEW e \in elems
    PROVE  Joins(s, r, e)
  <1>1. <<e>> \in Seq(elems) /\ s \o r \in Seq(elems)
    OBVIOUS
  <1>2. Associates(s, r, <<e>>)
    BY <1>1, ConcatAssociates
  <1>3. \A q \in Seq(elems) : Append(q, e) = q \o <<e>>
    OBVIOUS
  <1>4. Append(s \o r, e) = (s \o r) \o <<e>> /\ Append(r, e) = r \o <<e>>
    BY <1>1, <1>3
  <1> QED
    BY <1>2, <1>4 DEF Associates, Joins

LEMMA JoinFacts ==
    ASSUME NEW elems, NEW s \in Seq(elems)
    PROVE  (\A e \in elems : s \o <<e>> = Append(s, e)) /\ s \o <<>> = s
  OBVIOUS

\* One step, for each arc that is not idle.
LEMMA SaidOutside ==
    ASSUME Pieced, NEW g, IsConcat(g, Pieces, Spoken), NEW s \in Seq(Spoken),
           NEW t \in Trace, NEW t2 \in Trace, NEW a \in Passed, IsWordArc(a), Reads(t, t2, a),
           ~t2.inClass, Facing(t2), SaidOf(g, t2, s)
    PROVE  SaidOf(g, t, Append(s, T!Token(a.ilabel, a.olabel)))
  <1> DEFINE e == T!Token(a.ilabel, a.olabel)
             left == Len(t.al.tokens)
             left2 == Len(t2.al.tokens)
             all == Len(S!tokens)
             k == all - left
             piece == Pieces[k]
  <1>1. ~t.inClass /\ t2.al.tokens = Append(t.al.tokens, e)
    BY DEF Reads, Gains
  <1>2. e \in Spoken
    BY TokenFacts
  <1>3. left \in Nat /\ left2 = left + 1 /\ t2.al.tokens[left2] = e
    <2>1. t.al.tokens \in Seq(Spoken \cup Labelling)
      BY TraceFacts
    <2> HIDE DEF e
    <2> QED
      BY <1>1, <2>1
  <1>4. all \in Nat /\ left2 <= all /\ S!tokens[all - left2 + 1] = e
    BY <1>3 DEF Facing
  <1>5. k \in 1..all /\ k - 1 = all - left2 /\ S!tokens[k] = e
    <2> HIDE DEF left, left2, all
    <2>1. k = all - left2 + 1
      BY <1>3, <1>4
    <2> QED
      BY <1>3, <1>4, <2>1
  <1>6. s = g[k - 1]
    BY <1>5 DEF SaidOf
  <1>7. piece = <<e>> /\ g[k] = g[k - 1] \o piece
    BY <1>2, <1>5 DEF Pieced, IsConcat
  <1> HIDE DEF e, piece
  <1>8. g[k] = Append(s, e)
    <2> HIDE DEF k
    <2> QED
      BY <1>2, <1>6, <1>7, JoinFacts
  <1> QED
    BY <1>1, <1>8 DEF SaidOf, e

LEMMA SaidInner ==
    ASSUME NEW g, NEW s \in Seq(Spoken), \A k \in 0..Len(S!tokens) : g[k] \in Seq(Spoken),
           NEW t \in Trace, NEW t2 \in Trace, NEW a \in Passed, IsWordArc(a), Reads(t, t2, a),
           t2.inClass, Facing(t2), SaidOf(g, t2, s)
    PROVE  SaidOf(g, t, Append(s, T!Token(a.ilabel, a.olabel)))
  <1> DEFINE e == T!Token(a.ilabel, a.olabel)
             c == Len(t.classes)
             rest == Len(t.classes[c].tokens)
             rest2 == Len(t2.classes[c].tokens)
             size == Len(S!classes[c].tokens)
             done == Len(S!tokens) - Len(t.al.tokens)
  <1>1. /\ t.inClass /\ c > 0 /\ Len(t2.classes) = c /\ t2.al.tokens = t.al.tokens
        /\ t2.classes[c].tokens = Append(t.classes[c].tokens, e)
    BY DEF Reads, Gains
  <1>2. e \in Spoken
    BY TokenFacts
  <1> DEFINE w == t.classes[c].tokens
             w2 == t2.classes[c].tokens
  <1>3. c \in 1..c /\ rest \in Nat /\ rest2 = rest + 1 /\ w2[rest2] = e
    <2>1. c \in Nat /\ \A k \in 1..c : t.classes[k].tokens \in Seq(Spoken)
      BY TraceFacts
    <2>2. c \in 1..c
      BY <1>1, <2>1
    <2>3. w \in Seq(Spoken) /\ w2 = Append(w, e) /\ rest = Len(w) /\ rest2 = Len(w2)
      BY <1>1, <2>1, <2>2
    <2> HIDE DEF e, c, w, w2, rest, rest2
    <2> QED
      BY <2>2, <2>3
  <1>4. size \in Nat /\ rest2 <= size /\ S!classes[c].tokens[size - rest2 + 1] = e
    <2>1. FacingClass(t2, c)
      BY <1>1, <1>3 DEF Facing
    <2> DEFINE y == S!classes[c].tokens
    <2>2. /\ size \in Nat /\ rest2 <= size
          /\ rest2 > 0 => y[size - rest2 + 1] = w2[rest2]
      <3> HIDE DEF c
      <3> QED
        BY <2>1 DEF FacingClass
    <2> HIDE DEF size, rest2, y, w2
    <2> QED
      BY <1>3, <2>2 DEF y
  <1>5. PICK part : SaidInside(t2, part) /\ s = g[Len(S!tokens) - Len(t2.al.tokens)] \o part
    BY DEF SaidOf
  <1>6. g[done] \in Seq(Spoken) /\ s = g[done] \o part
    <2>1. Len(t.al.tokens) \in Nat /\ Len(t2.al.tokens) <= Len(S!tokens) /\ Len(S!tokens) \in Nat
      BY TraceFacts DEF Facing
    <2>2. done \in 0..Len(S!tokens)
      BY <1>1, <2>1
    <2> QED
      BY <1>1, <1>5, <2>2
  <1>7. /\ part \in Seq(Spoken) /\ Len(part) = size - rest2
        /\ \A k \in 1..Len(part) : part[k] = S!classes[c].tokens[k]
    BY <1>1, <1>5 DEF SaidInside
  <1> DEFINE new == Append(part, e)
             cls == S!classes[c].tokens
  <1> HIDE DEF e, c, rest, rest2, size, done, cls
  <1>8. /\ new \in Seq(Spoken) /\ Len(new) = size - rest
        /\ \A k \in 1..Len(new) : new[k] = cls[k]
    <2>1. /\ new \in Seq(Spoken) /\ Len(new) = Len(part) + 1 /\ new[Len(part) + 1] = e
          /\ \A k \in 1..Len(part) : new[k] = part[k]
      BY <1>2, <1>7
    <2> HIDE DEF new
    <2>2. Len(new) = size - rest /\ Len(part) + 1 = size - rest2 + 1 /\ Len(part) \in Nat
      BY <1>3, <1>4, <1>7, <2>1
    <2>3. ASSUME NEW k \in 1..Len(new) PROVE new[k] = cls[k]
      <3>1. k \in 1..Len(part) \/ k = Len(part) + 1
        BY <2>1, <2>2
      <3> QED
        BY <1>4, <1>7, <2>1, <2>2, <3>1 DEF cls
    <2> QED
      BY <2>1, <2>2, <2>3
  <1>9. SaidInside(t, new)
    BY <1>8 DEF SaidInside, c, rest, size, cls
  <1> DEFINE front == g[done]
  <1> HIDE DEF front
  <1>10. Append(s, e) = front \o new
    <2>1. front \in Seq(Spoken) /\ s = front \o part
      BY <1>6 DEF front
    <2>2. Joins(front, part, e)
      <3>1. front \in Seq(Spoken) /\ part \in Seq(Spoken) /\ e \in Spoken
        BY <1>2, <1>7, <2>1
      <3> QED
        BY <3>1, JoinAppend
    <2> QED
      BY <2>1, <2>2 DEF Joins
  <1> HIDE DEF new
  <1> QED
    BY <1>1, <1>9, <1>10 DEF SaidOf, done, front, e

LEMMA SaidEnter ==
    ASSUME NEW g, NEW s \in Seq(Spoken), NEW t \in Trace, NEW t2 \in Trace, NEW a, Met(t, t2, a),
           ~t2.inClass, Facing(t2), SaidOf(g, t2, s)
    PROVE  SaidOf(g, t, s)
  <1> DEFINE c == Len(t.classes)
  <1>1. t.inClass /\ t2.al = t.al /\ t2.classes = t.classes /\ c > 0 /\ c \in Nat
    BY TraceFacts DEF Met
  <1>2. Len(S!classes[c].tokens) = Len(t.classes[c].tokens) /\ Len(S!classes[c].tokens) \in Nat
    <2>1. c \in 1..Len(t2.classes)
      BY <1>1
    <2>2. FacingClass(t2, c)
      BY <2>1 DEF Facing
    <2> QED
      BY <1>1, <2>2 DEF FacingClass, Shut
  <1>3. SaidInside(t, <<>>)
    <2>1. Len(S!classes[c].tokens) - Len(t.classes[c].tokens) = 0
      BY <1>2
    <2> HIDE DEF c
    <2>2. <<>> \in Seq(Spoken) /\ Len(<<>>) = 0 /\ 1..0 = {}
      OBVIOUS
    <2> QED
      BY <2>1, <2>2 DEF SaidInside, c
  <1>4. s = g[Len(S!tokens) - Len(t.al.tokens)]
    BY <1>1 DEF SaidOf
  <1>5. s \o <<>> = s
    BY JoinFacts
  <1> QED
    BY <1>1, <1>3, <1>4, <1>5 DEF SaidOf

LEMMA SaidLeave ==
    ASSUME Pieced, NEW g, IsConcat(g, Pieces, Spoken), NEW s \in Seq(Spoken),
           NEW t \in Trace, NEW t2 \in Trace, NEW a, Opened(t, t2, a), Facing(t2), SaidOf(g, t2, s),
           \A k \in 1..Len(S!classes) : S!classes[k].tokens \in Seq(Spoken)
    PROVE  SaidOf(g, t, s)
  <1> DEFINE l == a.ilabel
             e == <<l, DelLabel>>
             c == Len(t2.classes)
             left == Len(t.al.tokens)
             left2 == Len(t2.al.tokens)
             all == Len(S!tokens)
             k == all - left
             w == S!classes[c].tokens
  <1>1. /\ ~t.inClass /\ t2.inClass /\ t2.al.tokens = Append(t.al.tokens, e)
        /\ t2.classes = Append(t.classes, T!Empty(l))
    BY DEF Opened
  <1>2. c \in Nat \ {0} /\ t2.classes[c].tokens = <<>> /\ t2.classes[c].classLabel = l
    <2>1. t.classes \in Seq(Counts(Spoken))
      BY TraceFacts
    <2> DEFINE cls == T!Empty(l)
    <2> HIDE DEF cls
    <2>2. c = Len(t.classes) + 1 /\ t2.classes[c] = cls /\ Len(t.classes) \in Nat
      BY <1>1, <2>1 DEF cls
    <2>3. cls.tokens = <<>> /\ cls.classLabel = l
      BY DEF T!Empty, cls
    <2> QED
      BY <2>2, <2>3
  <1>3. left \in Nat /\ left2 = left + 1 /\ t2.al.tokens[left2] = e
    <2>1. t.al.tokens \in Seq(Spoken \cup Labelling)
      BY TraceFacts
    <2> HIDE DEF e
    <2> QED
      BY <1>1, <2>1
  <1>4. /\ all \in Nat /\ left2 <= all /\ S!tokens[all - left2 + 1] = e
        /\ c \in 1..Len(S!classes) /\ S!classes[c].classLabel = l
    <2>1. c \in 1..Len(t2.classes) /\ Len(S!classes) \in Nat /\ Len(t2.classes) <= Len(S!classes)
      BY <1>2 DEF Facing
    <2>2. FacingClass(t2, c)
      BY <2>1 DEF Facing
    <2>3. S!classes[c].classLabel = l
      BY <1>2, <2>2 DEF FacingClass
    <2> QED
      BY <1>2, <1>3, <2>1, <2>3 DEF Facing
  <1>5. k \in 1..all /\ k - 1 = all - left2 /\ S!tokens[k] = e
    <2> HIDE DEF left, left2, all
    <2>1. k = all - left2 + 1
      BY <1>3, <1>4
    <2> QED
      BY <1>3, <1>4, <2>1
  <1>6. PICK part : SaidInside(t2, part) /\ s = g[k - 1] \o part
    BY <1>1, <1>5 DEF SaidOf
  <1>7. w \in Seq(Spoken)
    BY <1>4
  <1>8. part = w
    <2>1. /\ part \in Seq(Spoken) /\ Len(part) = Len(w) - Len(<<>>)
          /\ \A j \in 1..Len(part) : part[j] = w[j]
      BY <1>2, <1>6 DEF SaidInside
    <2> HIDE DEF w
    <2> QED
      BY <1>7, <2>1
  <1>9. Pieces[k] = w /\ g[k] = g[k - 1] \o Pieces[k]
    <2>1. S!tokens[k][1] = S!classes[c].classLabel
      BY <1>4, <1>5
    <2> HIDE DEF k, c
    <2> QED
      BY <1>4, <1>5, <2>1 DEF Pieced, IsConcat
  <1> QED
    BY <1>1, <1>6, <1>8, <1>9 DEF SaidOf

LEMMA RefWordsTyped ==
    ASSUME chain \in Seq(Passed)
    PROVE  RefWords \in Seq(Word)
  <1> DEFINE keep == {k \in DOMAIN chain : IsWordArc(chain[k])}
             picked == {chain[k] : k \in keep \cap (1..Len(chain))}
             ws == WordArcs
             words == [k \in DOMAIN ws |-> ws[k].ilabel]
             some == {k \in DOMAIN words : words[k] # G!Eps}
             left == {words[k] : k \in some \cap (1..Len(words))}
  <1>1. ws \in Seq(picked)
    BY ThoseFacts DEF WordArcs
  <1>2. ASSUME NEW a \in picked PROVE a.ilabel \in Word \cup {0}
    <2>1. a \in Passed /\ IsWordArc(a)
      OBVIOUS
    <2> QED
      BY <2>1, TokenFacts
  <1> HIDE DEF keep, picked, ws
  <1>3. DOMAIN ws = 1..Len(ws) /\ Len(ws) \in Nat /\ \A k \in 1..Len(ws) : ws[k] \in picked
    BY <1>1
  <1>4. words \in Seq(Word \cup {0}) /\ Len(words) \in Nat /\ DOMAIN words = 1..Len(words)
    BY <1>2, <1>3
  <1>5. RefWords = Those(words, some)
    BY DEF RefWords, ws
  <1> HIDE DEF words
  <1>6. RefWords \in Seq(left)
    BY <1>4, <1>5, ThoseFacts
  <1>7. \A y \in left : y \in Word
    BY <1>4 DEF G!Eps
  <1> HIDE DEF left
  <1> QED
    BY <1>6, <1>7

\* The alignment, with the tokens of its classes in their places, is what has been said
\* along the chain.
LEMMA FlattenedSaid ==
    ASSUME NEW u, NEW f, NEW x, Story(u, f, x), NEW v, Uttered(v)
    PROVE  Z!Flattened(alignment) = v[Len(chain)] /\ v[Len(chain)] \in Seq(Spoken)
  <1> DEFINE n == Len(chain)
             all == Len(S!tokens)
  <1>1. /\ n \in Nat /\ u \in [0..n -> Trace] /\ u[n] = T!Unread /\ ~u[0].inClass
        /\ alignment = Details(u[0]) /\ v \in [0..n -> Seq(Spoken)] /\ v[0] = <<>>
        /\ \A i \in 1..n : /\ Tells(u[i], u[i - 1], f[i - 1], f[i], x[i - 1], x[i], chain[i])
                           /\ chain[i] \in Passed
                           /\ v[i] = IF IsWordArc(chain[i])
                                     THEN Append(v[i - 1], T!Token(chain[i].ilabel, chain[i].olabel))
                                     ELSE v[i - 1]
    <2>1. /\ chain \in Seq(Passed) /\ u \in [0..n -> Trace] /\ u[n] = T!Unread /\ ~u[0].inClass
          /\ alignment = Details(u[0])
          /\ \A i \in 1..n : Tells(u[i], u[i - 1], f[i - 1], f[i], x[i - 1], x[i], chain[i])
      BY DEF Story
    <2>2. n \in Nat /\ \A i \in 1..n : chain[i] \in Passed
      BY <2>1
    <2> QED
      BY <2>1, <2>2 DEF Uttered
  <1>2. Tidy /\ \A i \in 0..n : Facing(u[i])
    BY StoryFacts
  <1>3. 0 \in 0..n /\ n \in 0..n /\ u[0] \in Trace
    BY <1>1
  <1>4. Pieced /\ Z!Flattened(alignment) = FlattenSeq(Pieces)
    BY <1>1, <1>2, <1>3, PiecesFacts
  <1>5. PICK g : IsConcat(g, Pieces, Spoken) /\ FlattenSeq(Pieces) = g[Len(Pieces)]
    BY <1>4, FlattenRun DEF Pieced
  <1>6. /\ all \in Nat /\ g[0] = <<>> /\ (\A k \in 0..all : g[k] \in Seq(Spoken))
        /\ Z!Flattened(alignment) = g[all]
    BY <1>2, <1>3, <1>4, <1>5 DEF IsConcat, Pieced, Facing
  <1>7. /\ Len(S!tokens) = Len(u[0].al.tokens)
        /\ \A k \in 1..Len(S!classes) : S!classes[k].tokens \in Seq(Spoken)
    <2> DEFINE d == Details(u[0])
               t == u[0]
    <2>1. /\ Turned(d.alignment.tokens, t.al.tokens) /\ d.label_alignments \in Seq(Counts(Spoken))
          /\ Len(d.label_alignments) = Len(t.classes)
          /\ \A k \in 1..Len(t.classes) : d.label_alignments[k].tokens \in Seq(Spoken)
      <3> HIDE DEF t
      <3> QED
        BY <1>3, DetailsFacts DEF t
    <2>2. S!tokens = d.alignment.tokens /\ S!classes = d.label_alignments
      BY <1>1 DEF S!tokens, S!classes
    <2> HIDE DEF d, t
    <2> QED
      BY <2>1, <2>2 DEF Turned, t
  <1> HIDE DEF n, all
  <1> DEFINE K == {k \in 0..n : SaidOf(g, u[k], v[k])}
  <1>8. 0 \in K
    <2> DEFINE t == u[0]
    <2>1. Len(S!tokens) - Len(t.al.tokens) = 0
      BY <1>6, <1>7 DEF all
    <2>2. SaidOf(g, t, <<>>)
      <3> HIDE DEF t
      <3> QED
        BY <1>1, <1>6, <2>1 DEF SaidOf, t
    <2> QED
      BY <1>1, <1>3, <2>2
  <1>9. ASSUME NEW k \in Nat, k < n, k \in K PROVE k + 1 \in K
    <2> DEFINE a == chain[k + 1]
               e == T!Token(a.ilabel, a.olabel)
               s == v[k]
               t == u[k + 1]
               t2 == u[k]
    <2>1. k + 1 \in 1..n /\ k + 1 \in 0..n /\ (k + 1) - 1 = k /\ k \in 0..n
      BY <1>1, <1>9
    <2>2. /\ a \in Passed /\ s \in Seq(Spoken) /\ t \in Trace /\ t2 \in Trace /\ Facing(t2)
          /\ SaidOf(g, t2, s)
          /\ v[k + 1] = (IF IsWordArc(a) THEN Append(s, e) ELSE s)
          /\ Tells(t, t2, f[k], f[k + 1], x[k], x[k + 1], a)
      <3>1. v[k + 1] = IF IsWordArc(a) THEN Append(s, e) ELSE s
        BY <1>1, <2>1
      <3>2. Tells(t, t2, f[k], f[k + 1], x[k], x[k + 1], a)
        BY <1>1, <2>1
      <3>3. SaidOf(g, t2, s)
        BY <1>9
      <3> QED
        BY <1>1, <1>2, <2>1, <3>1, <3>2, <3>3
    <2> HIDE DEF a, s, t, t2
    <2>3. CASE Adding(t, t2, f[k], f[k + 1], x[k], x[k + 1], a)
      <3>1. IsWordArc(a) /\ Reads(t, t2, a) /\ v[k + 1] = Append(s, e) /\ t2.inClass \in BOOLEAN
        BY <2>2, <2>3, TraceFacts DEF Adding
      <3>2. CASE ~t2.inClass
        <4>1. SaidOf(g, t, Append(s, e))
          BY <1>4, <1>5, <2>2, <3>1, <3>2, SaidOutside
        <4> QED
          BY <2>1, <3>1, <4>1 DEF t
      <3>3. CASE t2.inClass
        <4>1. SaidOf(g, t, Append(s, e))
          BY <1>6, <2>2, <3>1, <3>3, SaidInner DEF all
        <4> QED
          BY <2>1, <3>1, <4>1 DEF t
      <3> QED
        BY <3>1, <3>2, <3>3
    <2>4. CASE EnteringClass(t, t2, f[k], f[k + 1], x[k], x[k + 1], a)
      <3>1. Met(t, t2, a) /\ ~t2.inClass /\ ~IsWordArc(a)
        BY <2>2, <2>4, TokenFacts DEF EnteringClass
      <3>2. SaidOf(g, t, s)
        BY <2>2, <3>1, SaidEnter
      <3> QED
        BY <2>1, <2>2, <3>1, <3>2 DEF t
    <2>5. CASE LeavingClass(t, t2, f[k], f[k + 1], x[k], x[k + 1], a)
      <3>1. Opened(t, t2, a) /\ ~IsWordArc(a)
        BY <2>2, <2>5, TokenFacts DEF LeavingClass
      <3>2. SaidOf(g, t, s)
        BY <1>4, <1>5, <1>7, <2>2, <3>1, SaidLeave
      <3> QED
        BY <2>1, <2>2, <3>1, <3>2 DEF t
    <2>6. CASE Idling(t, t2, f[k], f[k + 1], x[k], x[k + 1], a)
      <3>1. t2 = t /\ ~IsWordArc(a)
        BY <2>6 DEF Idling
      <3> QED
        BY <2>1, <2>2, <3>1 DEF t
    <2> QED
      BY <2>2, <2>3, <2>4, <2>5, <2>6 DEF Tells
  <1>10. n \in K
    <2> HIDE DEF K
    <2>1. \A k \in 0..n : k \in K
      BY <1>1, <1>8, <1>9, Climb
    <2> QED
      BY <1>3, <2>1
  <1>11. v[n] = g[all]
    <2> DEFINE t == T!Unread
    <2>1. ~t.inClass /\ Len(t.al.tokens) = 0
      BY DEF T!Unread, T!Empty
    <2>2. SaidOf(g, t, v[n])
      BY <1>1, <1>10
    <2> HIDE DEF t
    <2>3. v[n] = g[Len(S!tokens) - 0]
      BY <2>1, <2>2 DEF SaidOf
    <2>4. Len(S!tokens) - 0 = all
      BY <1>6 DEF all
    <2> QED
      BY <2>3, <2>4
  <1> QED
    BY <1>1, <1>3, <1>6, <1>11 DEF n

\* The same for what is visited.
LEMMA VisitedSaid ==
    ASSUME NEW u, NEW f, NEW x, Story(u, f, x), NEW v, Uttered(v)
    PROVE  Z!Visited(alignment) = v[Len(chain)]
  <1> DEFINE t == u[0]
  <1>1. t \in Trace /\ alignment = Details(t)
    <2>1. chain \in Seq(Passed) /\ alignment = Details(u[0]) /\ u \in [0..Len(chain) -> Trace]
      BY DEF Story
    <2>2. 0 \in 0..Len(chain)
      BY <2>1
    <2> QED
      BY <2>1, <2>2
  <1> HIDE DEF t
  <1>2. Tidy
    BY StoryFacts
  <1>3. Z!Visited(alignment) = Z!Flattened(alignment)
    BY <1>1, <1>2, VisitedAll
  <1> QED
    BY <1>3, FlattenedSaid

\* The counts of every word are those of the texts.
LEMMA UnigramsStory ==
    ASSUME NEW u, NEW f, NEW x, Story(u, f, x), NEW w \in Word
    PROVE  LET c == Z!Unigram(alignment, w)
           IN  /\ c.correct + c.del + c.subst_fn = Z!Count(RefWords, w)
               /\ c.correct + c.ins + c.subst_fp = Z!Count(input.hyp, w)
  <1> DEFINE v == Voices(f)
             s == v[Len(chain)]
             al1 == u[0].al
             c == Z!Unigram(alignment, w)
             a == alignment.alignment
  <1>1. Uttered(v)
    BY UtteredOf
  <1>2. chain \in Seq(Passed) /\ alignment = Details(u[0]) /\ u[0] \in Trace
    <2>1. chain \in Seq(Passed) /\ alignment = Details(u[0]) /\ u \in [0..Len(chain) -> Trace]
      BY DEF Story
    <2>2. 0 \in 0..Len(chain)
      BY <2>1
    <2> QED
      BY <2>1, <2>2
  <1> HIDE DEF v
  <1>3. /\ Z!Count(al1.del_words, w) + Z!Count(Z!Firsts(al1.sub_words), w) + 0
             = Z!Count(Z!Firsts(s), w) - Z!Count(s, <<w, w>>)
        /\ Z!Count(al1.ins_words, w) + Z!Count(Z!Seconds(al1.sub_words), w) + 0
             = Z!Count(Z!Seconds(s), w) - Z!Count(s, <<w, w>>)
    BY <1>1, ErrorsKept
  <1>4. Z!Count(RefWords, w) = Z!Count(Z!Firsts(s), w) /\ Z!Count(input.hyp, w) = Z!Count(Z!Seconds(s), w)
    BY <1>1, <1>2, CountRefWords, CountHyp
  <1>5. Z!Visited(alignment) = s /\ s \in Seq(Spoken)
    BY <1>1, FlattenedSaid, VisitedSaid
  <1> HIDE DEF s
  <1>6. Z!Count(Z!Correct(alignment), w) = Z!Count(s, <<w, w>>)
    <2>1. Z!Correct(alignment) = Right(s)
      BY <1>5, CountOps DEF Z!Correct, Right
    <2> QED
      BY <1>5, <2>1, CountRight
  <1>7. /\ al1.del_words \in Seq(Word) /\ al1.ins_words \in Seq(Word) /\ al1.sub_words \in Seq(Word \X Word)
        /\ a = T!Reversed(al1) /\ al1 \in Counts(Spoken \cup Labelling)
    <2> DEFINE t == u[0]
    <2>0. t \in Trace /\ alignment = Details(t)
      BY <1>2
    <2> HIDE DEF t
    <2>1. t.al \in Counts(Spoken \cup Labelling) /\ a = T!Reversed(t.al)
      BY <2>0, TraceFacts, DetailsFacts
    <2> QED
      BY <2>1 DEF Counts, t
  <1> HIDE DEF al1
  <1> DEFINE d == al1.del_words
             h == al1.ins_words
             b == al1.sub_words
  <1>8. a.del_words = T!Reverse(d) /\ a.ins_words = T!Reverse(h) /\ a.sub_words = T!Reverse(b)
    BY <1>7, ReversedFacts
  <1> HIDE DEF a, d, h, b
  <1>9. /\ Turned(T!Reverse(d), d) /\ T!Reverse(d) \in Seq(Word)
        /\ Turned(T!Reverse(h), h) /\ T!Reverse(h) \in Seq(Word)
        /\ Turned(T!Reverse(b), b) /\ T!Reverse(b) \in Seq(Word \X Word)
    BY <1>7, ReverseFacts DEF d, h, b
  <1>10. Z!Count(T!Reverse(d), w) = Z!Count(d, w) /\ Z!Count(T!Reverse(h), w) = Z!Count(h, w)
    <2>1. d \in Seq(Word) /\ h \in Seq(Word)
      BY <1>7 DEF d, h
    <2> QED
      BY <1>9, <2>1, CountTurned
  <1>11. /\ Z!Count(Z!Firsts(T!Reverse(b)), w) = Z!Count(Z!Firsts(b), w)
         /\ Z!Count(Z!Seconds(T!Reverse(b)), w) = Z!Count(Z!Seconds(b), w)
    <2> DEFINE r == T!Reverse(b)
               one == {e[1] : e \in Word \X Word}
               two == {e[2] : e \in Word \X Word}
               r1 == Z!Firsts(r)
               b1 == Z!Firsts(b)
               r2 == Z!Seconds(r)
               b2 == Z!Seconds(b)
    <2>1. r \in Seq(Word \X Word) /\ b \in Seq(Word \X Word) /\ Turned(r, b)
      BY <1>7, <1>9 DEF b
    <2> HIDE DEF r
    <2>2. /\ r1 \in Seq(one) /\ b1 \in Seq(one) /\ Len(r1) = Len(r) /\ Len(b1) = Len(b)
          /\ r2 \in Seq(two) /\ b2 \in Seq(two) /\ Len(r2) = Len(r) /\ Len(b2) = Len(b)
          /\ \A k \in 1..Len(r) : r1[k] = r[k][1] /\ r2[k] = r[k][2]
          /\ \A k \in 1..Len(b) : b1[k] = b[k][1] /\ b2[k] = b[k][2]
      BY <2>1, SidesFacts
    <2> HIDE DEF one, two, r1, b1, r2, b2
    <2>3. Turned(r1, b1) /\ Turned(r2, b2)
      <3>1. Len(r) = Len(b) /\ Len(b) \in Nat /\ \A k \in 1..Len(b) : r[k] = b[Len(b) - k + 1]
        BY <2>1 DEF Turned
      <3>2. \A k \in 1..Len(b) : Len(b) - k + 1 \in 1..Len(b)
        BY <3>1
      <3>3. ASSUME NEW k \in 1..Len(b)
            PROVE  r1[k] = b1[Len(b) - k + 1] /\ r2[k] = b2[Len(b) - k + 1]
        <4> DEFINE j == Len(b) - k + 1
        <4>1. k \in 1..Len(r) /\ j \in 1..Len(b) /\ r[k] = b[j]
          BY <3>1, <3>2
        <4> HIDE DEF j
        <4>2. r1[k] = r[k][1] /\ r2[k] = r[k][2] /\ b1[j] = b[j][1] /\ b2[j] = b[j][2]
          BY <2>2, <4>1
        <4>3. r1[k] = b1[j] /\ r2[k] = b2[j]
          BY <4>1, <4>2
        <4> QED
          BY <4>3 DEF j
      <3> QED
        BY <2>2, <3>1, <3>3 DEF Turned
    <2>4. Z!Count(r1, w) = Z!Count(b1, w) /\ Z!Count(r2, w) = Z!Count(b2, w)
      BY <2>2, <2>3, CountTurned
    <2> QED
      BY <2>4 DEF r1, b1, r2, b2, r
  <1>12. /\ c.correct = Z!Count(s, <<w, w>>) /\ c.del = Z!Count(d, w) /\ c.ins = Z!Count(h, w)
         /\ c.subst_fn = Z!Count(Z!Firsts(b), w) /\ c.subst_fp = Z!Count(Z!Seconds(b), w)
    BY <1>6, <1>8, <1>10, <1>11 DEF Z!Unigram, a
  <1> DEFINE cd == Z!Count(d, w)
             ch == Z!Count(h, w)
             b1 == Z!Count(Z!Firsts(b), w)
             b2 == Z!Count(Z!Seconds(b), w)
             s1 == Z!Count(Z!Firsts(s), w)
             s2 == Z!Count(Z!Seconds(s), w)
             sp == Z!Count(s, <<w, w>>)
  <1>13. cd \in Nat /\ ch \in Nat /\ sp \in Nat /\ s1 \in Nat /\ s2 \in Nat
    <2>1. d \in Seq(Word) /\ h \in Seq(Word)
      BY <1>7 DEF d, h
    <2> QED
      BY <1>5, <2>1, CountFacts, MissedNone
  <1>14. b1 \in Nat /\ b2 \in Nat
    <2>1. b \in Seq(Word \X Word)
      BY <1>7 DEF b
    <2>2. Z!Firsts(b) \in Seq({e[1] : e \in Word \X Word}) /\ Z!Seconds(b) \in Seq({e[2] : e \in Word \X Word})
      BY <2>1, SidesFacts
    <2> QED
      BY <2>2, CountFacts
  <1>15. cd + b1 + 0 = s1 - sp /\ ch + b2 + 0 = s2 - sp
    BY <1>3 DEF d, h, b
  <1> HIDE DEF cd, ch, b1, b2, s1, s2, sp, c
  <1>16. sp + cd + b1 = s1 /\ sp + ch + b2 = s2
    BY <1>13, <1>14, <1>15
  <1> QED
    BY <1>4, <1>12, <1>16 DEF cd, ch, b1, b2, s1, s2, sp, c

\* The counts of every word are those of the texts: what is correct, deleted or
\* substituted are its occurrences in what was read of the reference, what is correct,
\* inserted or substituted those in the hypothesis (CalculatePrecisionRecall).
THEOREM UnigramsCounted == Spec => []UnigramsAccount
  <1>1. ASSUME ChainInv PROVE UnigramsAccount
    <2> SUFFICES ASSUME phase = "stitch", NEW w \in ToSet(RefWords) \cup ToSet(input.hyp)
                 PROVE  LET c == Z!Unigram(alignment, w)
                        IN  /\ c.correct + c.del + c.subst_fn = Z!Count(RefWords, w)
                            /\ c.correct + c.ins + c.subst_fp = Z!Count(input.hyp, w)
      BY DEF UnigramsAccount
    <2>1. PICK m, lay, p, q : Told(m, lay, p, q)
      BY <1>1 DEF ChainInv
    <2>2. PICK u, f, x : Story(u, f, x)
      BY <2>1, StoryOf
    <2>3. w \in Word
      <3>1. chain \in Seq(Passed) /\ input.hyp \in Seq(Word)
        BY <2>2 DEF Story
      <3>2. RefWords \in Seq(Word)
        BY <3>1, RefWordsTyped
      <3> DEFINE read == RefWords
                 said == input.hyp
      <3>3. \A y \in ToSet(read) \cup ToSet(said) : y \in Word
        <4>1. read \in Seq(Word) /\ said \in Seq(Word)
          BY <3>1, <3>2
        <4> HIDE DEF read, said
        <4> QED
          BY <4>1 DEF ToSet
      <3> QED
        BY <3>3
    <2> QED
      BY <2>2, <2>3, UnigramsStory
  <1> QED
    BY <1>1, ChainTold, PTL

\* Neighbours among what has been said, as their two sides.
Paired == {<<<<d[1], e[1]>>, <<d[2], e[2]>>>> : d \in Spoken, e \in Spoken}

LEMMA PairedFacts ==
    ASSUME NEW p \in Paired
    PROVE  /\ Z!IsValidBigram(p[1]) => (Z!Holds(p[2], DelLabel) <=> ~Z!IsValidBigram(p[2]))
           /\ Z!IsValidBigram(p[2]) => (Z!Holds(p[1], InsLabel) <=> ~Z!IsValidBigram(p[1]))
  <1>1. PICK d \in Spoken, e \in Spoken : p = <<<<d[1], e[1]>>, <<d[2], e[2]>>>>
    BY DEF Paired
  <1> DEFINE x1 == d[1]
             x2 == d[2]
             y1 == e[1]
             y2 == e[2]
  <1>2. /\ x1 \in Word \cup {InsLabel} /\ y1 \in Word \cup {InsLabel}
        /\ x2 \in Word \cup {DelLabel} /\ y2 \in Word \cup {DelLabel}
        /\ p = <<<<x1, y1>>, <<x2, y2>>>>
    BY <1>1, SpokenFacts
  <1>3. /\ \A w \in Word : Z!IsValid(w) /\ w # InsLabel /\ w # DelLabel
        /\ ~Z!IsValid(InsLabel) /\ ~Z!IsValid(DelLabel)
    BY Symbols DEF Z!IsValid, Z!IsLabel, AnyLabel
  <1> HIDE DEF x1, x2, y1, y2
  <1> QED
    BY <1>2, <1>3 DEF Z!IsValidBigram, Z!Holds

LEMMA BigramTokensFacts ==
    ASSUME Z!Flattened(alignment) \in Seq(Spoken)
    PROVE  Z!BigramTokens(alignment) \in Seq(Paired)
  <1> DEFINE s == Z!Flattened(alignment)
             n == Len(s) - 1
  <1>1. \A k \in 1..n : s[k] \in Spoken /\ s[k + 1] \in Spoken
    <2> HIDE DEF s
    <2>1. s \in Seq(Spoken)
      BY DEF s
    <2> QED
      BY <2>1
  <1>2. Len(s) \in Nat
    OBVIOUS
  <1> DEFINE P == [k \in 1..n |-> <<<<s[k][1], s[k + 1][1]>>, <<s[k][2], s[k + 1][2]>>>>]
  <1>3. Z!BigramTokens(alignment) = P
    BY DEF Z!BigramTokens
  <1> HIDE DEF s
  <1>4. \A k \in 1..n : P[k] \in Paired
    BY <1>1 DEF Paired
  <1>5. P \in Seq(Paired)
    <2>1. CASE Len(s) = 0
      <3>1. P = <<>>
        BY <2>1
      <3> HIDE DEF P
      <3> QED
        BY <3>1
    <2>2. CASE Len(s) > 0
      <3>1. n \in Nat /\ DOMAIN P = 1..n
        BY <1>2, <2>2
      <3> HIDE DEF n
      <3> QED
        BY <1>4, <3>1
    <2> QED
      BY <1>2, <2>1, <2>2
  <1> QED
    BY <1>3, <1>5

\* A side of the pairs has a valid bigram as often when only those are kept.
LEMMA CountValid ==
    ASSUME NEW elems, NEW s \in Seq(elems), NEW b
    PROVE  /\ Z!IsValidBigram(b) =>
                Z!Count(Z!Valid(s), b) = Cardinality({k \in 1..Len(s) : s[k] = b})
           /\ b \in ToSet(Z!Valid(s)) => Z!IsValidBigram(b)
  <1> DEFINE keep == {k \in DOMAIN s : Z!IsValidBigram(s[k])}
             picked == {s[k] : k \in keep \cap (1..Len(s))}
             v == Those(s, keep)
  <1>1. Z!Valid(s) = v
    BY CountOps DEF Z!Valid
  <1>2. DOMAIN s = 1..Len(s)
    OBVIOUS
  <1>3. ASSUME Z!IsValidBigram(b)
        PROVE  Z!Count(v, b) = Cardinality({k \in 1..Len(s) : s[k] = b})
    <2>1. \A k \in 1..Len(s) : s[k] = b => k \in keep
      BY <1>2, <1>3
    <2> HIDE DEF keep
    <2>2. Z!Count(v, b) = Z!Count(s, b)
      BY <2>1, CountThose
    <2> QED
      BY <1>2, <2>2, CountOps DEF Z!Count
  <1>4. ASSUME b \in ToSet(v) PROVE Z!IsValidBigram(b)
    <2>1. v \in Seq(picked) /\ \A y \in picked : Z!IsValidBigram(y)
      BY ThoseFacts
    <2> HIDE DEF picked, v
    <2> QED
      BY <1>4, <2>1 DEF ToSet
  <1> QED
    BY <1>1, <1>3, <1>4

\* Three sets without a common element that make up a fourth one.
LEMMA ThreeParts ==
    ASSUME NEW all, IsFiniteSet(all), NEW one, NEW two, NEW three,
           all = one \cup two \cup three,
           one \cap two = {}, one \cap three = {}, two \cap three = {}
    PROVE  Cardinality(one) + Cardinality(two) + Cardinality(three) = Cardinality(all)
  <1>2. one \in SUBSET all /\ two \in SUBSET all /\ three \in SUBSET all
    OBVIOUS
  <1>3. IsFiniteSet(one) /\ IsFiniteSet(two) /\ IsFiniteSet(three)
    BY <1>2, FS_Subset
  <1> DEFINE some == one \cup two
  <1>4. /\ IsFiniteSet(some)
        /\ Cardinality(some) = Cardinality(one) + Cardinality(two) - Cardinality(one \cap two)
    BY <1>3, FS_Union
  <1>5. some \cap three = {} /\ some \cup three = all
    OBVIOUS
  <1> HIDE DEF some
  <1>6. Cardinality(some \cup three)
          = Cardinality(some) + Cardinality(three) - Cardinality(some \cap three)
    BY <1>3, <1>4, FS_Union
  <1>7. /\ Cardinality(one) \in Nat /\ Cardinality(two) \in Nat /\ Cardinality(three) \in Nat
        /\ Cardinality({}) = 0
    BY <1>3, FS_CardinalityType, FS_EmptySet
  <1>8. Cardinality(one \cap two) = 0 /\ Cardinality(some \cap three) = 0
    BY <1>5, <1>7
  <1>9. Cardinality(some) \in Nat
    BY <1>4, FS_CardinalityType
  <1>10. Cardinality(all) = Cardinality(some) + Cardinality(three)
    <2>1. Cardinality(some \cup three) = Cardinality(all)
      BY <1>5
    <2> QED
      BY <1>6, <1>7, <1>8, <1>9, <2>1
  <1>11. Cardinality(some) = Cardinality(one) + Cardinality(two)
    BY <1>4, <1>7, <1>8
  <1> QED
    BY <1>10, <1>11

\* The counts of a valid bigram are those of the two sides.
LEMMA BigramAdds ==
    ASSUME Z!Flattened(alignment) \in Seq(Spoken), NEW b, Z!IsValidBigram(b)
    PROVE  LET c == Z!Bigram(alignment, b)
           IN  /\ c.correct + c.del + c.subst_fn = Z!Count(Z!RefBigrams(alignment), b)
               /\ c.correct + c.ins + c.subst_fp = Z!Count(Z!HypBigrams(alignment), b)
  <1> DEFINE c == Z!Bigram(alignment, b)
             P == Z!BigramTokens(alignment)
             n == Len(P)
             right == {k \in DOMAIN P : P[k][1] = P[k][2] /\ P[k][1] = b}
             sub1 == {k \in DOMAIN P : /\ P[k][1] # P[k][2] /\ Z!IsValidBigram(P[k][1])
                                       /\ Z!IsValidBigram(P[k][2]) /\ P[k][1] = b}
             sub2 == {k \in DOMAIN P : /\ P[k][1] # P[k][2] /\ Z!IsValidBigram(P[k][1])
                                       /\ Z!IsValidBigram(P[k][2]) /\ P[k][2] = b}
             del == {k \in DOMAIN P : Z!Holds(P[k][2], DelLabel) /\ P[k][1] = b}
             ins == {k \in DOMAIN P : Z!Holds(P[k][1], InsLabel) /\ P[k][2] = b}
             all1 == {k \in 1..n : P[k][1] = b}
             all2 == {k \in 1..n : P[k][2] = b}
  <1>1. P \in Seq(Paired)
    BY BigramTokensFacts
  <1>2. /\ c.correct = Cardinality(right) /\ c.subst_fn = Cardinality(sub1)
        /\ c.subst_fp = Cardinality(sub2) /\ c.del = Cardinality(del) /\ c.ins = Cardinality(ins)
    BY CountOps DEF Z!Bigram
  <1>3. /\ Z!Count(Z!RefBigrams(alignment), b) = Cardinality(all1)
        /\ Z!Count(Z!HypBigrams(alignment), b) = Cardinality(all2)
    <2> DEFINE one == {e[1] : e \in Paired}
               two == {e[2] : e \in Paired}
               r1 == Z!Firsts(P)
               r2 == Z!Seconds(P)
    <2> HIDE DEF P
    <2>1. /\ r1 \in Seq(one) /\ Len(r1) = n /\ r2 \in Seq(two) /\ Len(r2) = n
          /\ \A k \in 1..n : r1[k] = P[k][1] /\ r2[k] = P[k][2]
      BY <1>1, SidesFacts
    <2>2. Z!RefBigrams(alignment) = Z!Valid(r1) /\ Z!HypBigrams(alignment) = Z!Valid(r2)
      BY DEF Z!RefBigrams, Z!HypBigrams, P
    <2> HIDE DEF one, two, r1, r2, n
    <2>3. /\ Z!Count(Z!Valid(r1), b) = Cardinality({k \in 1..n : r1[k] = b})
          /\ Z!Count(Z!Valid(r2), b) = Cardinality({k \in 1..n : r2[k] = b})
      BY <2>1, CountValid
    <2>4. {k \in 1..n : r1[k] = b} = all1 /\ {k \in 1..n : r2[k] = b} = all2
      BY <2>1
    <2> QED
      BY <2>2, <2>3, <2>4
  <1> HIDE DEF P
  <1>4. n \in Nat /\ DOMAIN P = 1..n /\ \A k \in 1..n : P[k] \in Paired
    BY <1>1
  <1> HIDE DEF n
  <1>5. /\ all1 = right \cup del \cup sub1
        /\ right \cap del = {} /\ right \cap sub1 = {} /\ del \cap sub1 = {}
    BY <1>4, PairedFacts
  <1>6. /\ all2 = right \cup ins \cup sub2
        /\ right \cap ins = {} /\ right \cap sub2 = {} /\ ins \cap sub2 = {}
    BY <1>4, PairedFacts
  <1>7. IsFiniteSet(all1) /\ IsFiniteSet(all2)
    <2>1. IsFiniteSet(1..n) /\ all1 \in SUBSET (1..n) /\ all2 \in SUBSET (1..n)
      BY <1>4, FS_Interval
    <2> HIDE DEF all1, all2
    <2> QED
      BY <2>1, FS_Subset
  <1> HIDE DEF all1, all2, right, del, ins, sub1, sub2, c
  <1>8. Cardinality(right) + Cardinality(del) + Cardinality(sub1) = Cardinality(all1)
    BY <1>5, <1>7, ThreeParts
  <1>9. Cardinality(right) + Cardinality(ins) + Cardinality(sub2) = Cardinality(all2)
    BY <1>6, <1>7, ThreeParts
  <1> QED
    BY <1>2, <1>3, <1>8, <1>9 DEF c

\* The same for pairs of neighbours, which do not include those that are torn apart by
\* an insertion or a deletion; a bigram next to a marker is counted once.
THEOREM BigramsCounted == Spec => []BigramsAccount
  <1>1. ASSUME ChainInv PROVE BigramsAccount
    <2> DEFINE r1 == Z!RefBigrams(alignment)
               r2 == Z!HypBigrams(alignment)
    <2> SUFFICES ASSUME phase = "stitch", NEW b \in ToSet(r1) \cup ToSet(r2)
                 PROVE  LET c == Z!Bigram(alignment, b)
                        IN  /\ c.correct + c.del + c.subst_fn = Z!Count(r1, b)
                            /\ c.correct + c.ins + c.subst_fp = Z!Count(r2, b)
      BY DEF BigramsAccount
    <2>1. PICK m, lay, p, q : Told(m, lay, p, q)
      BY <1>1 DEF ChainInv
    <2>2. PICK u, f, x : Story(u, f, x)
      BY <2>1, StoryOf
    <2>3. Z!Flattened(alignment) \in Seq(Spoken)
      BY <2>2, UtteredOf, FlattenedSaid
    <2>4. Z!IsValidBigram(b)
      <3> DEFINE P == Z!BigramTokens(alignment)
                 s1 == Z!Firsts(P)
                 s2 == Z!Seconds(P)
      <3>1. P \in Seq(Paired)
        BY <2>3, BigramTokensFacts
      <3>2. r1 = Z!Valid(s1) /\ r2 = Z!Valid(s2)
        BY DEF Z!RefBigrams, Z!HypBigrams
      <3> HIDE DEF P, r1, r2
      <3>3. s1 \in Seq({e[1] : e \in Paired}) /\ s2 \in Seq({e[2] : e \in Paired})
        BY <3>1, SidesFacts
      <3> HIDE DEF s1, s2
      <3> QED
        BY <3>2, <3>3, CountValid
    <2> QED
      BY <2>3, <2>4, BigramAdds
  <1> QED
    BY <1>1, ChainTold, PTL

-----------------------------------------------------------------------------
\* Results, field by field

Result == [insertions : Nat, deletions : Nat, substitutions : Nat, numWordsInReference : Nat]
Fields == 1..4
Field(x, r) == CASE x = 1 -> r.insertions
                 [] x = 2 -> r.deletions
                 [] x = 3 -> r.substitutions
                 [] x = 4 -> r.numWordsInReference

LEMMA FieldOf ==
    ASSUME NEW r
    PROVE  /\ Field(1, r) = r.insertions /\ Field(2, r) = r.deletions
           /\ Field(3, r) = r.substitutions /\ Field(4, r) = r.numWordsInReference
  BY DEF Field

LEMMA FieldFacts ==
    /\ \A r \in Result, x \in Fields : Field(x, r) \in Nat
    /\ Z!Zero \in Result /\ \A x \in Fields : Field(x, Z!Zero) = 0
    /\ \A r \in Result, s \in Result :
         /\ Z!Plus(r, s) \in Result
         /\ \A x \in Fields : Field(x, Z!Plus(r, s)) = Field(x, r) + Field(x, s)
         /\ (\A x \in Fields : Field(x, r) = Field(x, s)) => r = s
  <1>0. \A x \in Fields : x = 1 \/ x = 2 \/ x = 3 \/ x = 4
    BY DEF Fields
  <1>1. ASSUME NEW r \in Result, NEW x \in Fields PROVE Field(x, r) \in Nat
    BY <1>0, FieldOf DEF Result
  <1>2. Z!Zero \in Result /\ \A x \in Fields : Field(x, Z!Zero) = 0
    BY <1>0, FieldOf DEF Result, Z!Zero
  <1>3. ASSUME NEW r \in Result, NEW s \in Result
        PROVE  /\ Z!Plus(r, s) \in Result
               /\ \A x \in Fields : Field(x, Z!Plus(r, s)) = Field(x, r) + Field(x, s)
    <2> DEFINE p == Z!Plus(r, s)
    <2>1. p = [insertions |-> r.insertions + s.insertions,
               deletions |-> r.deletions + s.deletions,
               substitutions |-> r.substitutions + s.substitutions,
               numWordsInReference |-> r.numWordsInReference + s.numWordsInReference]
      BY DEF Z!Plus
    <2>2. /\ r.insertions \in Nat /\ r.deletions \in Nat /\ r.substitutions \in Nat
          /\ r.numWordsInReference \in Nat /\ s.insertions \in Nat /\ s.deletions \in Nat
          /\ s.substitutions \in Nat /\ s.numWordsInReference \in Nat
      BY DEF Result
    <2> HIDE DEF p
    <2>3. p \in Result
      BY <2>1, <2>2 DEF Result
    <2>4. /\ p.insertions = r.insertions + s.insertions /\ p.deletions = r.deletions + s.deletions
          /\ p.substitutions = r.substitutions + s.substitutions
          /\ p.numWordsInReference = r.numWordsInReference + s.numWordsInReference
      BY <2>1
    <2>5. \A x \in Fields : Field(x, p) = Field(x, r) + Field(x, s)
      BY <1>0, <2>4, FieldOf
    <2> QED
      BY <2>3, <2>5 DEF p
  <1>4. ASSUME NEW r \in Result, NEW s \in Result, \A x \in Fields : Field(x, r) = Field(x, s)
        PROVE  r = s
    <2>1. 1 \in Fields /\ 2 \in Fields /\ 3 \in Fields /\ 4 \in Fields
      BY DEF Fields
    <2>2. /\ r.insertions = s.insertions /\ r.deletions = s.deletions
          /\ r.substitutions = s.substitutions /\ r.numWordsInReference = s.numWordsInReference
      BY <1>4, <2>1, FieldOf
    <2> QED
      BY <2>2 DEF Result
  <1> QED
    BY <1>1, <1>2, <1>3, <1>4

\* The sum of results is the sum of each field.
LEMMA SumFields ==
    ASSUME NEW rs \in Seq(Result)
    PROVE  /\ Z!Sum(rs) \in Result
           /\ \A x \in Fields :
                Field(x, Z!Sum(rs)) = SumTo([k \in 1..Len(rs) |-> Field(x, rs[k])], Len(rs))
  <1> DEFINE k == Len(rs)
             V == Result
             states == Z!Zero
             On(h, e) == Z!Plus(h, e)
             step == [i \in 1..k |-> [v \in V |-> On(v, rs[i])]]
             Eq(h) == h = [s \in SUBSET (DOMAIN rs) |->
                             IF s = {} THEN states
                             ELSE On(h[s \ {Z!Max(s)}], rs[Z!Max(s)])]
             it == CHOOSE h : Eq(h)
  <1>0. k \in Nat /\ DOMAIN rs = 1..k /\ (\A s : Z!Max(s) = Max(s))
        /\ \A i \in 1..k : rs[i] \in Result
    BY CountOps
  <1>1. \A v \in V, e \in Result : On(v, e) \in V
    BY FieldFacts
  <1>a. states \in V
    BY FieldFacts
  <1> HIDE DEF On
  <1>2. AreSteps(step, k, V) /\ states \in V
    <2> HIDE DEF k, V
    <2> QED
      BY <1>0, <1>1, <1>a DEF AreSteps
  <1>3. \E h : Eq(h)
    <2>1. PICK h \in [SUBSET (1..k) -> V] : IsFold(h, step, k, states)
      <3> HIDE DEF step, k, V
      <3> QED
        BY <1>0, <1>2, FoldExists
    <2>2. \A s \in SUBSET (1..k) : s # {} =>
             step[Max(s)][h[s \ {Max(s)}]] = On(h[s \ {Max(s)}], rs[Max(s)])
      <3> SUFFICES ASSUME NEW s \in SUBSET (1..k), s # {}
                   PROVE  step[Max(s)][h[s \ {Max(s)}]] = On(h[s \ {Max(s)}], rs[Max(s)])
        OBVIOUS
      <3> HIDE DEF k, V
      <3>1. Max(s) \in 1..k
        BY <1>0, LastPosition
      <3>2. h[s \ {Max(s)}] \in V
        BY <2>1
      <3> QED
        BY <3>1, <3>2
    <2>3. Eq(h)
      <3> HIDE DEF step, k, V
      <3> QED
        BY <1>0, <2>1, <2>2 DEF IsFold
    <2> HIDE DEF Eq
    <2> QED
      BY <2>3
  <1>4. Eq(it)
    <2> HIDE DEF Eq
    <2> QED
      BY <1>3
  <1>5. Z!Sum(rs) = it[1..k]
    <2>1. Z!Sum(rs) = it[DOMAIN rs]
      BY DEF Z!Sum, Z!FoldLeft, Z!MapThenFoldSet, On
    <2> HIDE DEF it, k
    <2> QED
      BY <1>0, <2>1
  <1> HIDE DEF it
  <1>6. it[{}] = states
    <2> HIDE DEF k, states
    <2> QED
      BY <1>0, <1>4
  <1>7. \A i \in 1..k : it[1..(i - 1)] \in V => it[1..i] = step[i][it[1..(i - 1)]]
    <2> SUFFICES ASSUME NEW i \in 1..k, it[1..(i - 1)] \in V
                 PROVE  it[1..i] = step[i][it[1..(i - 1)]]
      OBVIOUS
    <2>1. Max(1..i) = i /\ (1..i) \ {i} = 1..(i - 1)
      <3>1. i \in Nat \ {0}
        OBVIOUS
      <3> QED
        BY <3>1, MaxOfPrefix
    <2>2. (1..i) \in SUBSET (1..k) /\ 1..i # {}
      <3>1. i \in 1..i /\ \A y \in 1..i : y \in 1..k
        BY <1>0
      <3> QED
        BY <3>1
    <2> DEFINE s == 1..i
    <2>3. it[s] = On(it[s \ {Max(s)}], rs[Max(s)])
      <3> HIDE DEF s, k
      <3> QED
        BY <1>0, <1>4, <2>2 DEF s
    <2>4. step[i][it[1..(i - 1)]] = On(it[1..(i - 1)], rs[i])
      <3> HIDE DEF k, V
      <3> QED
        OBVIOUS
    <2> HIDE DEF step, k, V
    <2> QED
      BY <2>1, <2>3, <2>4
  <1> HIDE DEF k, V, Eq, states
  <1>8. PICK f : IsRun(f, step, k, V, states) /\ it[1..k] = f[k]
    <2> HIDE DEF step
    <2> QED
      BY <1>0, <1>2, <1>6, <1>7, FoldRuns
  <1>9. \A i \in 1..k : f[i] = On(f[i - 1], rs[i])
    <2> SUFFICES ASSUME NEW i \in 1..k PROVE f[i] = On(f[i - 1], rs[i])
      OBVIOUS
    <2>1. i - 1 \in 0..k
      BY <1>0
    <2> QED
      BY <1>8, <2>1 DEF IsRun
  <1>10. \A i \in 1..k : f[i] = Z!Plus(f[i - 1], rs[i])
    BY <1>9 DEF On
  <1>11. f[0] = Z!Zero /\ f \in [0..k -> Result] /\ Z!Sum(rs) = f[k] /\ k = Len(rs)
    BY <1>5, <1>8 DEF IsRun, V, k, states
  <1>12. ASSUME NEW x \in Fields
         PROVE  Field(x, f[k]) = SumTo([i \in 1..k |-> Field(x, rs[i])], k)
    <2> DEFINE a == [i \in 1..k |-> Field(x, rs[i])]
               K == {i \in 0..k : Field(x, f[i]) = SumTo(a, i)}
    <2>1. a \in Seq(Nat) /\ Len(a) = k
      BY <1>0, FieldFacts
    <2>2. \A i \in 1..k : a[i] = Field(x, rs[i])
      OBVIOUS
    <2> HIDE DEF a
    <2>3. SumTo(a, 0) = 0 /\ \A i \in 1..k : SumTo(a, i) = SumTo(a, i - 1) + a[i]
      BY <2>1, SumFacts
    <2>4. 0 \in K
      BY <1>0, <1>11, <2>3, FieldFacts
    <2>5. ASSUME NEW i \in Nat, i < k, i \in K PROVE i + 1 \in K
      <3>1. i + 1 \in 1..k /\ i + 1 \in 0..k /\ (i + 1) - 1 = i /\ i \in 0..k
        BY <1>0, <2>5
      <3>2. f[i + 1] = Z!Plus(f[i], rs[i + 1]) /\ f[i] \in Result /\ rs[i + 1] \in Result
        BY <1>0, <1>10, <1>11, <3>1
      <3>3. Field(x, f[i + 1]) = Field(x, f[i]) + Field(x, rs[i + 1])
        BY <3>2, FieldFacts
      <3>4. SumTo(a, i + 1) = SumTo(a, i) + Field(x, rs[i + 1])
        BY <2>2, <2>3, <3>1
      <3> QED
        BY <2>5, <3>1, <3>3, <3>4
    <2> HIDE DEF K
    <2>6. \A i \in 0..k : i \in K
      BY <1>0, <2>4, <2>5, Climb
    <2>7. k \in K
      BY <1>0, <2>6
    <2> QED
      BY <2>7 DEF K, a
  <1>13. Z!Sum(rs) \in Result
    BY <1>0, <1>11
  <1> QED
    BY <1>11, <1>12, <1>13

-----------------------------------------------------------------------------
\* The classes and what is outside of them

\* What a pair of tokens outside of classes counts for.
Tallied(p) == [insertions |-> Z!One(p[1] = InsLabel), deletions |-> Z!One(p[2] = DelLabel),
               substitutions |-> Z!One(p[1] # InsLabel /\ p[2] # DelLabel /\ p[1] # p[2]),
               numWordsInReference |-> Z!One(p[1] # InsLabel)]

AnyToken == Spoken \cup Labelling
Fronts == {p[1] : p \in AnyToken}
TokenWeight(x) == [p \in AnyToken |-> Field(x, Tallied(p))]
ClassWeight(x) == [c \in Counts(Spoken) |-> Field(x, c)]

LEMMA WeightFacts ==
    ASSUME NEW x \in Fields
    PROVE  /\ \A p : Tallied(p) \in Result /\ Field(x, Tallied(p)) \in Nat
           /\ \A tk : \A c \in Counts(tk) : Z!ResultOf(c) \in Result /\ Field(x, c) \in Nat
                                            /\ Field(x, Z!ResultOf(c)) = Field(x, c)
           /\ \A p \in AnyToken : TokenWeight(x)[p] = Field(x, Tallied(p)) /\ TokenWeight(x)[p] \in Nat
           /\ \A c \in Counts(Spoken) : ClassWeight(x)[c] = Field(x, c) /\ ClassWeight(x)[c] \in Nat
           /\ \A l : Field(x, T!Empty(l)) = 0
  <1>0. x = 1 \/ x = 2 \/ x = 3 \/ x = 4
    BY DEF Fields
  <1>1. ASSUME NEW p PROVE Tallied(p) \in Result /\ Field(x, Tallied(p)) \in Nat
    <2>1. Tallied(p) \in Result
      BY DEF Tallied, Result, Z!One
    <2> QED
      BY <2>1, FieldFacts
  <1>2. ASSUME NEW tk, NEW c \in Counts(tk)
        PROVE  Z!ResultOf(c) \in Result /\ Field(x, c) \in Nat /\ Field(x, Z!ResultOf(c)) = Field(x, c)
    <2> DEFINE r == Z!ResultOf(c)
    <2>1. r = [insertions |-> c.insertions, deletions |-> c.deletions,
               substitutions |-> c.substitutions, numWordsInReference |-> c.numWordsInReference]
      BY DEF Z!ResultOf
    <2>2. /\ c.insertions \in Nat /\ c.deletions \in Nat /\ c.substitutions \in Nat
          /\ c.numWordsInReference \in Nat
      BY DEF Counts
    <2> HIDE DEF r
    <2>3. /\ r \in Result /\ r.insertions = c.insertions /\ r.deletions = c.deletions
          /\ r.substitutions = c.substitutions /\ r.numWordsInReference = c.numWordsInReference
      BY <2>1, <2>2 DEF Result
    <2> QED
      BY <1>0, <2>2, <2>3, FieldOf DEF r
  <1>3. \A p \in AnyToken : TokenWeight(x)[p] = Field(x, Tallied(p)) /\ TokenWeight(x)[p] \in Nat
    BY <1>1 DEF TokenWeight
  <1>4. \A c \in Counts(Spoken) : ClassWeight(x)[c] = Field(x, c) /\ ClassWeight(x)[c] \in Nat
    BY <1>2 DEF ClassWeight
  <1>5. ASSUME NEW l PROVE Field(x, T!Empty(l)) = 0
    BY <1>0, FieldOf DEF T!Empty
  <1> QED
    BY <1>1, <1>2, <1>3, <1>4, <1>5

\* A word counts for what its pair of tokens counts for.
LEMMA AddsFields ==
    ASSUME NEW tk, NEW al1 \in Counts(tk), NEW al2, NEW a \in Passed, IsWordArc(a),
           Adds(al1, al2, a), NEW x \in Fields
    PROVE  Field(x, al2) = Field(x, al1) + Field(x, Tallied(T!Token(a.ilabel, a.olabel)))
  <1> DEFINE i == a.ilabel
             o == a.olabel
             p == T!Token(i, o)
             r == Tallied(p)
  <1>0. x = 1 \/ x = 2 \/ x = 3 \/ x = 4
    BY DEF Fields
  <1>1. /\ i \in Word \cup {0} /\ o \in Word \cup {0}
        /\ p = <<IF i = 0 THEN InsLabel ELSE i, IF o = 0 THEN DelLabel ELSE o>>
    BY TokenFacts
  <1>2. InsLabel \notin Word /\ DelLabel \notin Word
    BY DEF Word
  <1> HIDE DEF p
  <1>3. /\ p[1] = InsLabel <=> i = 0
        /\ p[2] = DelLabel <=> o = 0
        /\ p[1] # InsLabel /\ p[2] # DelLabel /\ p[1] # p[2] <=> IsSub(a)
    BY <1>1, <1>2 DEF IsSub
  <1>4. /\ r.insertions = Z!One(i = 0) /\ r.deletions = Z!One(o = 0)
        /\ r.substitutions = Z!One(IsSub(a)) /\ r.numWordsInReference = Z!One(i # 0)
    BY <1>3 DEF Tallied, Z!One
  <1> HIDE DEF r
  <1>5. /\ al2.insertions = al1.insertions + r.insertions
        /\ al2.deletions = al1.deletions + r.deletions
        /\ al2.substitutions = al1.substitutions + r.substitutions
        /\ al2.numWordsInReference = al1.numWordsInReference + r.numWordsInReference
    BY <1>4 DEF Adds
  <1>6. Field(x, al2) = Field(x, al1) + Field(x, r)
    BY <1>0, <1>5, FieldOf
  <1> QED
    BY <1>6 DEF r, p

\* The tokens that are outside of classes, and the labels among the others, up to each
\* of them.
Splits(g, h) ==
    LET all == Len(S!tokens)
    IN  /\ all \in Nat /\ \A k \in 1..all : S!tokens[k] \in AnyToken
        /\ S!classes \in Seq(Counts(Spoken)) /\ alignment.alignment \in Counts(AnyToken)
        /\ g \in [0..all -> Seq(AnyToken)] /\ g[0] = <<>>
        /\ h \in [0..all -> Seq(Fronts)] /\ h[0] = <<>>
        /\ \A k \in 1..all :
             /\ g[k] = IF IsLabel(S!tokens[k][1]) THEN g[k - 1] ELSE Append(g[k - 1], S!tokens[k])
             /\ h[k] = IF IsLabel(S!tokens[k][1]) THEN Append(h[k - 1], S!tokens[k][1]) ELSE h[k - 1]

\* When t lies behind, the labels of the classes in front have been met, from the last
\* class on, and what was outside of classes and the classes in front of t are what the
\* alignment has more than t.
MetSoFar(t, part) ==
    LET all == Len(S!classes)
    IN  /\ Len(part) = all - Len(t.classes)
        /\ \A j \in 1..Len(part) : part[j] = S!classes[all - j + 1].classLabel

CountedSoFar(t, part) ==
    \A x \in Fields :
      Field(x, t.al) + Summed(TokenWeight(x), part) + Summed(ClassWeight(x), S!classes)
        = Field(x, alignment.alignment) + Summed(ClassWeight(x), t.classes)

Apart(g, h, t) ==
    LET done == Len(S!tokens) - Len(t.al.tokens)
    IN  MetSoFar(t, h[done]) /\ CountedSoFar(t, g[done])

\* What an arc may change.
Changes(t, t2, a) ==
    \/ t2.al = t.al /\ t2.classes = t.classes
    \/ IsWordArc(a) /\ Reads(t, t2, a)
    \/ IsLabel(a.ilabel) /\ Opened(t, t2, a)

NextIs(t, t2, e) == t2.al.tokens = Append(t.al.tokens, e)

\* The token e is passed.
Passes(g, h, t, t2, e) ==
    LET done == Len(S!tokens) - Len(t.al.tokens)
        done2 == Len(S!tokens) - Len(t2.al.tokens)
    IN  /\ done \in 1..Len(S!tokens) /\ done2 = done - 1 /\ e \in AnyToken
        /\ g[done2] \in Seq(AnyToken) /\ h[done2] \in Seq(Fronts)
        /\ IsLabel(e[1]) => g[done] = g[done2] /\ h[done] = Append(h[done2], e[1])
        /\ ~IsLabel(e[1]) => g[done] = Append(g[done2], e) /\ h[done] = h[done2]

\* The next token is the last one of those that lie behind.
LEMMA NextToken ==
    ASSUME NEW g, NEW h, Splits(g, h), NEW t \in Trace, NEW t2 \in Trace, Facing(t2), NEW e,
           NextIs(t, t2, e)
    PROVE  Passes(g, h, t, t2, e)
  <1> DEFINE all == Len(S!tokens)
             r == t.al.tokens
             r2 == t2.al.tokens
             done == all - Len(r)
             done2 == all - Len(r2)
  <1>1. r \in Seq(AnyToken) /\ r2 \in Seq(AnyToken) /\ all \in Nat /\ r2 = Append(r, e)
    BY TraceFacts DEF Splits, AnyToken, NextIs
  <1>2. Len(r2) <= all /\ (Len(r2) > 0 => S!tokens[all - Len(r2) + 1] = r2[Len(r2)])
    BY DEF Facing
  <1> HIDE DEF all, r, r2
  <1>3. Len(r) \in Nat /\ Len(r2) = Len(r) + 1 /\ r2[Len(r2)] = e
    BY <1>1
  <1>4. done \in 1..all /\ done2 = done - 1 /\ all - Len(r2) + 1 = done /\ done2 \in 0..all
    BY <1>1, <1>2, <1>3
  <1>5. S!tokens[done] = e
    BY <1>2, <1>3, <1>4
  <1> HIDE DEF done, done2
  <1>6. /\ g[done2] \in Seq(AnyToken) /\ h[done2] \in Seq(Fronts) /\ e \in AnyToken
        /\ g[done] = IF IsLabel(e[1]) THEN g[done2] ELSE Append(g[done2], e)
    BY <1>4, <1>5 DEF Splits, all
  <1>7. h[done] = IF IsLabel(e[1]) THEN Append(h[done2], e[1]) ELSE h[done2]
    BY <1>4, <1>5 DEF Splits, all
  <1> QED
    BY <1>4, <1>6, <1>7 DEF all, r, r2, done, done2, Passes

\* A word outside of classes
LEMMA ApartOutside ==
    ASSUME NEW g, NEW h, Splits(g, h), NEW t \in Trace, NEW t2 \in Trace, Facing(t2),
           NEW a \in Passed, IsWordArc(a), Reads(t, t2, a), ~t.inClass, Apart(g, h, t2)
    PROVE  Apart(g, h, t)
  <1> DEFINE e == T!Token(a.ilabel, a.olabel)
             d == Len(S!tokens) - Len(t.al.tokens)
             d2 == Len(S!tokens) - Len(t2.al.tokens)
             s == g[d2]
  <1>1. Adds(t.al, t2.al, a) /\ t2.al.tokens = Append(t.al.tokens, e) /\ t2.classes = t.classes
    BY DEF Reads, Gains
  <1>2. e \in Spoken /\ ~IsLabel(e[1])
    <2>1. e \in Spoken
      BY TokenFacts
    <2> HIDE DEF e
    <2> QED
      BY <2>1, SpokenFacts, Symbols
  <1> HIDE DEF e
  <1>3. e \in AnyToken /\ s \in Seq(AnyToken) /\ g[d] = Append(s, e) /\ h[d] = h[d2]
    <2>0. NextIs(t, t2, e)
      BY <1>1 DEF NextIs
    <2>1. Passes(g, h, t, t2, e)
      BY <2>0, NextToken
    <2> QED
      BY <1>2, <2>1 DEF Passes
  <1>4. MetSoFar(t2, h[d2]) /\ CountedSoFar(t2, s)
    BY DEF Apart
  <1> HIDE DEF d, d2, s
  <1>5. MetSoFar(t, h[d])
    BY <1>1, <1>3, <1>4 DEF MetSoFar
  <1>6. ASSUME NEW x \in Fields
        PROVE  Field(x, t.al) + Summed(TokenWeight(x), g[d]) + Summed(ClassWeight(x), S!classes)
                 = Field(x, alignment.alignment) + Summed(ClassWeight(x), t.classes)
    <2> DEFINE w == TokenWeight(x)
               y == Field(x, Tallied(e))
               old == Summed(w, s)
    <2>1. \A p \in AnyToken : w[p] \in Nat
      BY WeightFacts
    <2>2. w[e] = y /\ y \in Nat
      BY <1>3, WeightFacts
    <2> HIDE DEF w, y
    <2>3. old \in Nat /\ Summed(w, Append(s, e)) = old + y
      BY <1>3, <2>1, <2>2, SummedFacts
    <2>4. t.al \in Counts(Spoken \cup Labelling)
      BY TraceFacts
    <2>5. Field(x, t.al) \in Nat
      BY <2>4, WeightFacts
    <2>6. Field(x, t2.al) = Field(x, t.al) + y
      BY <1>1, <2>4, AddsFields DEF y, e
    <2> DEFINE f == Field(x, t.al)
               f2 == Field(x, t2.al)
               k == Summed(ClassWeight(x), S!classes)
               right == Field(x, alignment.alignment) + Summed(ClassWeight(x), t.classes)
    <2>7. f2 + old + k = right
      BY <1>1, <1>4 DEF CountedSoFar, w
    <2>8. (f + y) + old = f + (old + y)
      BY <2>2, <2>3, <2>5
    <2>9. f2 + old = f + Summed(w, g[d])
      BY <1>3, <2>3, <2>6, <2>8
    <2> HIDE DEF old, f, f2, k, right
    <2> QED
      BY <2>7, <2>9 DEF w, f, f2, k, right
  <1> QED
    BY <1>5, <1>6 DEF Apart, CountedSoFar, d

\* A word of a class
LEMMA ApartInside ==
    ASSUME NEW g, NEW h, Splits(g, h), NEW t \in Trace, NEW t2 \in Trace, Facing(t),
           NEW a \in Passed, IsWordArc(a), Reads(t, t2, a), t.inClass, Apart(g, h, t2)
    PROVE  Apart(g, h, t)
  <1> DEFINE e == T!Token(a.ilabel, a.olabel)
             d == Len(S!tokens) - Len(t.al.tokens)
             len == Len(t.classes)
             c == t.classes[len]
             c2 == t2.classes[len]
  <1>1. /\ Adds(t.al, t2.al, a) /\ t2.al.tokens = t.al.tokens /\ len > 0 /\ Len(t2.classes) = len
        /\ (\A k \in 1..(len - 1) : t2.classes[k] = t.classes[k]) /\ Adds(c, c2, a)
    BY DEF Reads, Gains
  <1>2. /\ t.classes \in Seq(Counts(Spoken)) /\ t2.classes \in Seq(Counts(Spoken)) /\ len \in Nat
        /\ t.al \in Counts(Spoken \cup Labelling)
    BY TraceFacts
  <1>3. c \in Counts(Spoken) /\ c2 \in Counts(Spoken)
    <2>1. len \in 1..len
      BY <1>1, <1>2
    <2>2. \A k \in 1..Len(t.classes) : t.classes[k] \in Counts(Spoken)
      BY TraceFacts
    <2>3. \A k \in 1..Len(t2.classes) : t2.classes[k] \in Counts(Spoken)
      BY TraceFacts
    <2> QED
      BY <1>1, <2>1, <2>2, <2>3
  <1>a. /\ g[d] \in Seq(AnyToken) /\ S!classes \in Seq(Counts(Spoken))
        /\ alignment.alignment \in Counts(AnyToken)
    <2>1. t.al.tokens \in Seq(Spoken \cup Labelling)
      BY TraceFacts
    <2>2. Len(t.al.tokens) \in Nat /\ Len(t.al.tokens) <= Len(S!tokens) /\ Len(S!tokens) \in Nat
      BY <2>1 DEF Facing
    <2>3. d \in 0..Len(S!tokens)
      BY <2>2
    <2> HIDE DEF d
    <2> QED
      BY <2>3 DEF Splits
  <1>4. MetSoFar(t2, h[d]) /\ CountedSoFar(t2, g[d])
    BY <1>1 DEF Apart
  <1>5. MetSoFar(t, h[d])
    BY <1>1, <1>4 DEF MetSoFar
  <1> HIDE DEF e, d, len, c, c2
  <1>6. ASSUME NEW x \in Fields
        PROVE  Field(x, t.al) + Summed(TokenWeight(x), g[d]) + Summed(ClassWeight(x), S!classes)
                 = Field(x, alignment.alignment) + Summed(ClassWeight(x), t.classes)
    <2> DEFINE w == ClassWeight(x)
               y == Field(x, Tallied(e))
               s == t.classes
               s2 == t2.classes
               cs == Counts(Spoken)
    <2>1. /\ \A b \in cs : w[b] \in Nat
          /\ w[c] = Field(x, c) /\ w[c2] = Field(x, c2) /\ Field(x, c) \in Nat /\ y \in Nat
          /\ Field(x, t.al) \in Nat
      BY <1>2, <1>3, WeightFacts
    <2>2. Field(x, c2) = Field(x, c) + y
      BY <1>1, <1>3, AddsFields DEF e
    <2>3. Field(x, t2.al) = Field(x, t.al) + y
      BY <1>1, <1>2, AddsFields DEF e
    <2>4. s \in Seq(cs) /\ s2 \in Seq(cs) /\ Len(s) > 0 /\ Len(s2) = Len(s)
          /\ \A k \in 1..(Len(s) - 1) : s2[k] = s[k]
      BY <1>1, <1>2 DEF len
    <2>5. c = s[Len(s)] /\ c2 = s2[Len(s)]
      BY DEF c, c2, len
    <2> HIDE DEF w, y, s, s2, cs
    <2>6. Summed(w, s2) + w[c] = Summed(w, s) + w[c2]
      BY <2>1, <2>4, <2>5, SummedLast
    <2>7. Summed(w, s) \in Nat /\ Summed(w, s2) \in Nat
      BY <2>1, <2>4, SummedFacts
    <2> DEFINE f == Field(x, t.al)
               f2 == Field(x, t2.al)
               old == Summed(TokenWeight(x), g[d])
               k == Summed(w, S!classes)
               al0 == Field(x, alignment.alignment)
               n == Summed(w, s)
               n2 == Summed(w, s2)
    <2>8. f2 + old + k = al0 + n2
      BY <1>4 DEF CountedSoFar, w, s2
    <2>9. n2 = n + y
      BY <2>1, <2>2, <2>6, <2>7
    <2>10. old \in Nat /\ k \in Nat /\ al0 \in Nat
      <3> DEFINE v == TokenWeight(x)
                 part == g[d]
                 cs0 == S!classes
      <3>1. part \in Seq(AnyToken) /\ \A p \in AnyToken : v[p] \in Nat
        BY <1>a, WeightFacts
      <3>2. cs0 \in Seq(cs)
        BY <1>a DEF cs
      <3>3. al0 \in Nat
        BY <1>a, WeightFacts
      <3> HIDE DEF v, part, cs0
      <3>4. Summed(v, part) \in Nat
        BY <3>1, SummedFacts
      <3>5. Summed(w, cs0) \in Nat
        BY <2>1, <3>2, SummedFacts
      <3> QED
        BY <3>3, <3>4, <3>5 DEF v, part, cs0
    <2> HIDE DEF f, f2, old, k, al0, n, n2
    <2>11. f2 = f + y /\ f \in Nat /\ y \in Nat /\ n \in Nat
      BY <2>1, <2>3, <2>7 DEF f, f2, n
    <2>12. f + old + k = al0 + n
      BY <2>8, <2>9, <2>10, <2>11
    <2> QED
      BY <2>12 DEF f, old, k, al0, n, w, s
  <1> QED
    BY <1>5, <1>6 DEF Apart, CountedSoFar, d

\* The label behind a class, where the traceback opens it
LEMMA ApartOpened ==
    ASSUME NEW g, NEW h, Splits(g, h), NEW t \in Trace, NEW t2 \in Trace, Facing(t2),
           NEW a \in Passed, IsLabel(a.ilabel), Opened(t, t2, a), Apart(g, h, t2)
    PROVE  Apart(g, h, t)
  <1> DEFINE l == a.ilabel
             e == <<l, DelLabel>>
             d == Len(S!tokens) - Len(t.al.tokens)
             d2 == Len(S!tokens) - Len(t2.al.tokens)
             all == Len(S!classes)
             len == Len(t.classes)
             part == h[d2]
             part2 == h[d]
  <1>1. /\ Alike(t.al, t2.al) /\ NextIs(t, t2, e) /\ t2.classes = Append(t.classes, T!Empty(l))
    BY DEF Opened, NextIs
  <1>2. l \in Nat /\ IsLabel(e[1]) /\ e[1] = l
    <2>1. a.ilabel \in Nat
      BY TokenFacts, Symbols DEF Passed, Arc, Symbol
    <2> QED
      BY <2>1
  <1> HIDE DEF e
  <1>3. /\ g[d] = g[d2] /\ h[d] = Append(part, l) /\ part \in Seq(Fronts) /\ l \in Fronts
    <2>1. Passes(g, h, t, t2, e)
      BY <1>1, NextToken
    <2>2. e \in AnyToken
      BY <2>1 DEF Passes
    <2>3. e[1] \in Fronts
      BY <2>2 DEF Fronts
    <2> QED
      BY <1>2, <2>1, <2>3 DEF Passes
  <1>4. MetSoFar(t2, part) /\ CountedSoFar(t2, g[d2])
    BY DEF Apart
  <1>5. /\ t.classes \in Seq(Counts(Spoken)) /\ T!Empty(l) \in Counts(Spoken)
        /\ T!Empty(l).classLabel = l /\ len \in Nat
        /\ t.al \in Counts(Spoken \cup Labelling) /\ t2.al \in Counts(Spoken \cup Labelling)
    BY <1>2, TraceFacts, EmptyFacts
  <1>6. Len(t2.classes) = len + 1 /\ t2.classes[len + 1] = T!Empty(l)
    BY <1>1, <1>5
  <1>7. all \in Nat /\ len + 1 <= all /\ S!classes[len + 1].classLabel = l
    <2>1. Len(t2.classes) <= all /\ all \in Nat /\ \A k \in 1..Len(t2.classes) : FacingClass(t2, k)
      BY DEF Facing
    <2>2. len + 1 \in 1..Len(t2.classes)
      BY <1>5, <1>6
    <2>3. FacingClass(t2, len + 1)
      BY <2>1, <2>2
    <2> QED
      BY <1>5, <1>6, <2>1, <2>3 DEF FacingClass
  <1> HIDE DEF l, len, all, part, part2
  <1>8. MetSoFar(t, part2)
    <2>1. Len(part) = all - (len + 1) /\ \A j \in 1..Len(part) : part[j] = S!classes[all - j + 1].classLabel
      BY <1>4, <1>6 DEF MetSoFar, all
    <2>2. /\ part2 = Append(part, l) /\ Len(part2) = Len(part) + 1 /\ part2[Len(part) + 1] = l
          /\ \A j \in 1..Len(part) : part2[j] = part[j]
      BY <1>3 DEF part2
    <2>3. Len(part2) = all - len
      BY <1>5, <1>7, <2>1, <2>2
    <2>4. ASSUME NEW j \in 1..Len(part2) PROVE part2[j] = S!classes[all - j + 1].classLabel
      <3>1. CASE j \in 1..Len(part)
        BY <2>1, <2>2, <3>1
      <3>2. CASE j = Len(part) + 1
        <4>1. all - j + 1 = len + 1
          BY <1>5, <1>7, <2>1, <3>2
        <4> QED
          BY <1>7, <2>2, <3>2, <4>1
      <3> QED
        BY <1>5, <1>7, <2>1, <2>2, <3>1, <3>2
    <2> QED
      BY <2>3, <2>4 DEF MetSoFar, all, len
  <1> HIDE DEF d, d2
  <1>9. ASSUME NEW x \in Fields
        PROVE  Field(x, t.al) + Summed(TokenWeight(x), g[d]) + Summed(ClassWeight(x), S!classes)
                 = Field(x, alignment.alignment) + Summed(ClassWeight(x), t.classes)
    <2> DEFINE w == ClassWeight(x)
               s == t.classes
               cs == Counts(Spoken)
               y == T!Empty(l)
    <2>0. x = 1 \/ x = 2 \/ x = 3 \/ x = 4
      BY DEF Fields
    <2>1. Field(x, t2.al) = Field(x, t.al)
      BY <1>1, <2>0, FieldOf DEF Alike
    <2>2. /\ \A b \in cs : w[b] \in Nat
          /\ w[y] = 0
      BY <1>5, WeightFacts
    <2>3. s \in Seq(cs) /\ y \in cs
      BY <1>5
    <2>4. t2.classes = Append(s, y)
      BY <1>1
    <2> HIDE DEF w, s, cs, y
    <2>5. Summed(w, Append(s, y)) = Summed(w, s) + w[y] /\ Summed(w, s) \in Nat
      BY <2>2, <2>3, SummedFacts
    <2>6. Summed(w, t2.classes) = Summed(w, s)
      BY <2>2, <2>4, <2>5
    <2>7. Field(x, t2.al) + Summed(TokenWeight(x), g[d2]) + Summed(w, S!classes)
            = Field(x, alignment.alignment) + Summed(w, t2.classes)
      BY <1>4 DEF CountedSoFar, w
    <2> QED
      BY <1>3, <2>1, <2>6, <2>7 DEF w, s
  <1> QED
    BY <1>8, <1>9 DEF Apart, CountedSoFar, d, part2

\* One arc
LEMMA ApartStep ==
    ASSUME NEW g, NEW h, Splits(g, h), NEW t \in Trace, NEW t2 \in Trace, Facing(t), Facing(t2),
           NEW a \in Passed, Changes(t, t2, a), Apart(g, h, t2)
    PROVE  Apart(g, h, t)
  <1>1. CASE t2.al = t.al /\ t2.classes = t.classes
    BY <1>1 DEF Apart, MetSoFar, CountedSoFar
  <1>2. CASE IsWordArc(a) /\ Reads(t, t2, a)
    <2>1. CASE t.inClass
      BY <1>2, <2>1, ApartInside
    <2>2. CASE ~t.inClass
      BY <1>2, <2>2, ApartOutside
    <2> QED
      BY <2>1, <2>2
  <1>3. CASE IsLabel(a.ilabel) /\ Opened(t, t2, a)
    BY <1>3, ApartOpened
  <1> QED
    BY <1>1, <1>2, <1>3 DEF Changes

\* What is collected from the end of a chain to its start.
Trail(n, u) ==
    /\ n \in Nat /\ u \in [0..n -> Trace] /\ u[n] = T!Unread /\ alignment = Details(u[0])
    /\ \A i \in 0..n : Facing(u[i])
    /\ \A i \in 1..n : \E a \in Passed : Changes(u[i], u[i - 1], a)

LEMMA ApartStart ==
    ASSUME NEW g, NEW h, Splits(g, h), NEW t \in Trace, alignment = Details(t)
    PROVE  Apart(g, h, t)
  <1> DEFINE d == Details(t)
             n == Len(t.classes)
             cs == Counts(Spoken)
             al0 == alignment.alignment
  <1>1. /\ Turned(d.alignment.tokens, t.al.tokens) /\ d.alignment = T!Reversed(t.al)
        /\ d.label_alignments \in Seq(cs) /\ Len(d.label_alignments) = n
        /\ \A k \in 1..n : d.label_alignments[k] = T!Reversed(t.classes[k])
    BY DetailsFacts
  <1>2. /\ S!tokens = d.alignment.tokens /\ S!classes = d.label_alignments /\ al0 = d.alignment
    BY DEF S!tokens, S!classes
  <1>3. /\ t.classes \in Seq(cs) /\ n \in Nat /\ t.al \in Counts(Spoken \cup Labelling)
        /\ t.al.tokens \in Seq(Spoken \cup Labelling) /\ Len(t.al.tokens) \in Nat
        /\ \A k \in 1..n : t.classes[k] \in cs
    <2>1. t.al.tokens \in Seq(Spoken \cup Labelling)
      BY TraceFacts
    <2> QED
      BY <2>1, TraceFacts
  <1> HIDE DEF d, n, cs, al0
  <1>4. Len(S!tokens) - Len(t.al.tokens) = 0
    BY <1>1, <1>2, <1>3 DEF Turned
  <1>5. S!classes \in Seq(cs) /\ Len(S!classes) = n
        /\ \A k \in 1..n : S!classes[k] = T!Reversed(t.classes[k])
    BY <1>1, <1>2
  <1>6. MetSoFar(t, <<>>)
    BY <1>3, <1>5 DEF MetSoFar, n
  <1>7. CountedSoFar(t, <<>>)
    <2> SUFFICES ASSUME NEW x \in Fields
                 PROVE  Field(x, t.al) + Summed(TokenWeight(x), <<>>) + Summed(ClassWeight(x), S!classes)
                          = Field(x, alignment.alignment) + Summed(ClassWeight(x), t.classes)
      BY DEF CountedSoFar
    <2>0. x = 1 \/ x = 2 \/ x = 3 \/ x = 4
      BY DEF Fields
    <2>a. ASSUME NEW tk, NEW b \in Counts(tk) PROVE Field(x, T!Reversed(b)) = Field(x, b)
      <3> DEFINE c == T!Reversed(b)
      <3>1. /\ c.insertions = b.insertions /\ c.deletions = b.deletions
            /\ c.substitutions = b.substitutions /\ c.numWordsInReference = b.numWordsInReference
        BY ReversedFacts
      <3> HIDE DEF c
      <3>2. Field(x, c) = Field(x, b)
        BY <2>0, <3>1, FieldOf
      <3> QED
        BY <3>2 DEF c
    <2>1. Field(x, alignment.alignment) = Field(x, t.al)
      BY <1>1, <1>2, <1>3, <2>a DEF al0
    <2> DEFINE w == ClassWeight(x)
               s == t.classes
               r == S!classes
               f == Field(x, t.al)
    <2>2. \A b \in cs : w[b] = Field(x, b)
      BY WeightFacts DEF cs
    <2>3. \A k \in 1..n : w[r[k]] = w[s[k]]
      <3> SUFFICES ASSUME NEW k \in 1..n PROVE w[r[k]] = w[s[k]]
        OBVIOUS
      <3>1. s[k] \in cs /\ r[k] = T!Reversed(s[k]) /\ r[k] \in cs
        <4>1. S!classes[k] \in cs
          BY <1>5
        <4> QED
          BY <1>3, <1>5, <4>1
      <3>2. Field(x, r[k]) = Field(x, s[k])
        BY <2>a, <3>1 DEF cs
      <3> HIDE DEF w, s, r
      <3> QED
        BY <2>2, <3>1, <3>2
    <2>4. s \in Seq(cs) /\ Len(s) = n /\ r \in Seq(cs) /\ Len(r) = n
      BY <1>3, <1>5 DEF n
    <2> HIDE DEF w, s, r
    <2>5. Summed(w, r) = Summed(w, s)
      <3>1. Images(w, r) = [k \in 1..n |-> w[r[k]]] /\ Images(w, s) = [k \in 1..n |-> w[s[k]]]
        BY <2>4 DEF Images
      <3>2. Images(w, r) = Images(w, s)
        BY <2>3, <3>1
      <3> QED
        BY <2>4, <3>2 DEF Summed
    <2>6. Summed(TokenWeight(x), <<>>) = 0
      <3> DEFINE v == TokenWeight(x)
      <3>1. (\A p \in AnyToken : v[p] \in Nat) /\ <<>> \in Seq(AnyToken)
        BY WeightFacts
      <3> HIDE DEF v
      <3>2. Summed(v, <<>>) = 0
        BY <3>1, SummedFacts
      <3> QED
        BY <3>2 DEF v
    <2>7. f \in Nat
      BY <1>3, WeightFacts
    <2> HIDE DEF f
    <2>8. f + 0 + Summed(w, r) = f + Summed(w, s)
      BY <2>5, <2>7
    <2> QED
      BY <2>1, <2>6, <2>8 DEF w, s, r, f
  <1> QED
    BY <1>4, <1>6, <1>7 DEF Splits, Apart

LEMMA ApartAll ==
    ASSUME NEW n, NEW u, Trail(n, u), NEW g, NEW h, Splits(g, h)
    PROVE  /\ Turned(h[Len(S!tokens)], [k \in DOMAIN S!classes |-> S!classes[k].classLabel])
           /\ \A x \in Fields :
                Summed(TokenWeight(x), g[Len(S!tokens)]) + Summed(ClassWeight(x), S!classes)
                  = Field(x, alignment.alignment)
  <1> DEFINE all == Len(S!tokens)
             K == {i \in 0..n : Apart(g, h, u[i])}
  <1>1. /\ n \in Nat /\ u \in [0..n -> Trace] /\ u[n] = T!Unread /\ alignment = Details(u[0])
        /\ \A i \in 0..n : Facing(u[i])
        /\ \A i \in 1..n : \E a \in Passed : Changes(u[i], u[i - 1], a)
    BY DEF Trail
  <1>2. 0 \in K
    <2>1. 0 \in 0..n /\ u[0] \in Trace
      BY <1>1
    <2>2. Apart(g, h, u[0])
      BY <1>1, <2>1, ApartStart
    <2> QED
      BY <2>1, <2>2
  <1>3. ASSUME NEW k \in Nat, k < n, k \in K PROVE k + 1 \in K
    <2> DEFINE t == u[k + 1]
               t2 == u[k]
    <2>1. k + 1 \in 1..n /\ k + 1 \in 0..n /\ (k + 1) - 1 = k /\ k \in 0..n
      BY <1>1, <1>3
    <2>2. t \in Trace /\ t2 \in Trace /\ Facing(t) /\ Facing(t2) /\ Apart(g, h, t2)
      BY <1>1, <1>3, <2>1
    <2>3. PICK a \in Passed : Changes(t, t2, a)
      BY <1>1, <2>1
    <2> HIDE DEF t, t2
    <2>4. Apart(g, h, t)
      BY <2>2, <2>3, ApartStep
    <2> QED
      BY <2>1, <2>4 DEF t
  <1> HIDE DEF K
  <1>4. n \in K
    <2>1. \A k \in 0..n : k \in K
      BY <1>1, <1>2, <1>3, Climb
    <2> QED
      BY <1>1, <2>1
  <1> DEFINE t == T!Unread
             part == h[all]
             old == g[all]
  <1>5. Apart(g, h, t)
    BY <1>1, <1>4 DEF K
  <1>6. t.al = T!Empty(T!Global) /\ Len(t.al.tokens) = 0 /\ t.classes = <<>>
    BY DEF T!Unread, T!Empty
  <1> HIDE DEF t
  <1>7. all \in Nat /\ all - 0 = all /\ S!classes \in Seq(Counts(Spoken))
        /\ alignment.alignment \in Counts(AnyToken) /\ old \in Seq(AnyToken) /\ part \in Seq(Fronts)
    <2>1. all \in Nat
      BY DEF Splits
    <2>2. all \in 0..all
      BY <2>1
    <2> QED
      BY <2>1, <2>2 DEF Splits
  <1>8. MetSoFar(t, part) /\ CountedSoFar(t, old)
    BY <1>5, <1>6, <1>7 DEF Apart
  <1> HIDE DEF all, part, old
  <1>9. Turned(part, [k \in DOMAIN S!classes |-> S!classes[k].classLabel])
    <2> DEFINE m == Len(S!classes)
               r == [k \in DOMAIN S!classes |-> S!classes[k].classLabel]
    <2>1. m \in Nat /\ DOMAIN S!classes = 1..m
      BY <1>7
    <2>2. Len(part) = m - 0 /\ \A j \in 1..Len(part) : part[j] = S!classes[m - j + 1].classLabel
      BY <1>6, <1>8 DEF MetSoFar
    <2> HIDE DEF m
    <2>3. Len(r) = m /\ \A j \in 1..m : r[j] = S!classes[j].classLabel
      BY <2>1
    <2> HIDE DEF r
    <2>4. \A j \in 1..m : m - j + 1 \in 1..m
      BY <2>1
    <2>5. Turned(part, r)
      BY <2>1, <2>2, <2>3, <2>4 DEF Turned
    <2> QED
      BY <2>5 DEF r
  <1>10. ASSUME NEW x \in Fields
         PROVE  Summed(TokenWeight(x), old) + Summed(ClassWeight(x), S!classes)
                  = Field(x, alignment.alignment)
    <2> DEFINE w == ClassWeight(x)
               v == TokenWeight(x)
               r == S!classes
               y == Field(x, alignment.alignment)
    <2>1. /\ (\A p \in AnyToken : v[p] \in Nat) /\ (\A c \in Counts(Spoken) : w[c] \in Nat)
          /\ y \in Nat /\ Field(x, t.al) = 0 /\ r \in Seq(Counts(Spoken))
          /\ <<>> \in Seq(Counts(Spoken))
      BY <1>6, <1>7, WeightFacts
    <2>2. Field(x, t.al) + Summed(v, old) + Summed(w, r) = y + Summed(w, t.classes)
      BY <1>8 DEF CountedSoFar
    <2> HIDE DEF w, v, r, y
    <2>3. Summed(v, old) \in Nat /\ Summed(w, r) \in Nat /\ Summed(w, <<>>) = 0
      BY <1>7, <2>1, SummedFacts
    <2>4. Summed(v, old) + Summed(w, r) = y
      BY <1>6, <2>1, <2>2, <2>3
    <2> QED
      BY <2>4 DEF w, v, r, y
  <1> QED
    BY <1>9, <1>10 DEF part, old, all

\* A finite set as a sequence without repetitions
LEMMA ListedOnce ==
    ASSUME NEW elems, IsFiniteSet(elems)
    PROVE  LET s == SetToSeq(elems)
           IN  /\ s \in Seq(elems)
               /\ \A j, k \in 1..Len(s) : s[j] = s[k] => j = k
               /\ \A e \in elems : \E j \in 1..Len(s) : e = s[j]
  <1> DEFINE n == Cardinality(elems)
             s == SetToSeq(elems)
  <1>1. n \in Nat /\ ExistsBijection(1..n, elems)
    BY FS_CardinalityType
  <1> HIDE DEF n
  <1>2. \E f \in [1..n -> elems] : IsInjective(f)
    BY <1>1 DEF ExistsBijection, Bijection, Injection, IsInjective
  <1>3. s \in [1..n -> elems] /\ IsInjective(s)
    BY <1>2 DEF SetToSeq, n
  <1> HIDE DEF s
  <1>4. s \in Seq(elems) /\ Len(s) = n
    BY <1>1, <1>3
  <1>5. s \in Surjection(1..n, elems)
    <2>1. s \in Injection(1..n, elems)
      BY <1>3 DEF Injection
    <2>2. IsFiniteSet(1..n) /\ Cardinality(1..n) = n
      BY <1>1, FS_Interval
    <2> QED
      BY <2>1, <2>2, FS_Injection DEF n
  <1>6. \A e \in elems : \E j \in 1..n : e = s[j]
    BY <1>5 DEF Surjection
  <1> QED
    BY <1>1, <1>3, <1>4, <1>6 DEF IsInjective, s

\* What pairs of tokens count for together
LEMMA TalliedSum ==
    ASSUME NEW s \in Seq(AnyToken)
    PROVE  LET r == Z!Sum([k \in DOMAIN s |-> Tallied(s[k])])
           IN  /\ r \in Result
               /\ \A x \in Fields : Field(x, r) = Summed(TokenWeight(x), s)
  <1> DEFINE rs == [k \in DOMAIN s |-> Tallied(s[k])]
             n == Len(s)
  <1>0. n \in Nat /\ DOMAIN s = 1..n /\ \A k \in 1..n : s[k] \in AnyToken
    OBVIOUS
  <1>1. \A p : Tallied(p) \in Result
    <2>1. 1 \in Fields
      BY DEF Fields
    <2> QED
      BY <2>1, WeightFacts
  <1> HIDE DEF n
  <1>2. rs \in Seq(Result) /\ Len(rs) = n /\ \A k \in 1..n : rs[k] = Tallied(s[k])
    BY <1>0, <1>1
  <1> HIDE DEF rs
  <1>3. /\ Z!Sum(rs) \in Result
        /\ \A x \in Fields : Field(x, Z!Sum(rs)) = SumTo([k \in 1..n |-> Field(x, rs[k])], n)
    <2>1. /\ Z!Sum(rs) \in Result
          /\ \A x \in Fields :
               Field(x, Z!Sum(rs)) = SumTo([k \in 1..Len(rs) |-> Field(x, rs[k])], Len(rs))
      BY <1>2, SumFields
    <2> QED
      BY <1>2, <2>1
  <1>4. ASSUME NEW x \in Fields
        PROVE  [k \in 1..n |-> Field(x, rs[k])] = Images(TokenWeight(x), s)
    <2> DEFINE w == TokenWeight(x)
    <2>1. \A p \in AnyToken : w[p] = Field(x, Tallied(p))
      BY WeightFacts
    <2> HIDE DEF w
    <2>2. \A k \in 1..n : Field(x, rs[k]) = w[s[k]]
      BY <1>0, <1>2, <2>1
    <2>3. Images(w, s) = [k \in 1..n |-> w[s[k]]]
      BY DEF Images, n
    <2> QED
      BY <2>2, <2>3 DEF w
  <1>5. \A x \in Fields : Field(x, Z!Sum(rs)) = Summed(TokenWeight(x), s)
    BY <1>3, <1>4 DEF Summed, n
  <1> QED
    BY <1>3, <1>5 DEF rs

\* What the classes count for together, by their names
LEMMA NamedSum ==
    ASSUME S!classes \in Seq(Counts(Spoken))
    PROVE  LET names == SetToSeq(DOMAIN Classes)
               r == Z!Sum([k \in DOMAIN names |-> Classes[names[k]]])
           IN  /\ r \in Result
               /\ \A x \in Fields : Field(x, r) = Summed(ClassWeight(x), S!classes)
  <1> DEFINE cs == S!classes
             m == Len(cs)
             name == ClassNames
             found == DOMAIN Classes
             names == SetToSeq(found)
             len == Len(names)
             row(y) == [k \in 1..m |-> IF name[k] = y THEN Z!ResultOf(cs[k]) ELSE Z!Zero]
             rs == [k \in DOMAIN names |-> Classes[names[k]]]
  <1>1. m \in Nat /\ DOMAIN cs = 1..m /\ \A k \in 1..m : cs[k] \in Counts(Spoken)
    OBVIOUS
  <1>2. /\ cs = alignment.label_alignments /\ DOMAIN name = 1..m
        /\ found = {name[k] : k \in 1..m}
        /\ \A y \in found : Classes[y] = Z!Sum(row(y))
    <2>1. cs = alignment.label_alignments
      BY DEF S!classes
    <2>2. DOMAIN name = DOMAIN alignment.label_alignments
      BY DEF ClassNames
    <2> HIDE DEF name, cs
    <2>3. Classes = [y \in Z!ToSet(name) |->
                       Z!Sum([k \in DOMAIN cs |-> IF name[k] = y THEN Z!ResultOf(cs[k]) ELSE Z!Zero])]
      BY <2>1 DEF Classes, Z!ClassWer, name
    <2>4. found = Z!ToSet(name)
      BY <2>3
    <2>5. Z!ToSet(name) = {name[k] : k \in 1..m}
      BY <1>1, <2>1, <2>2 DEF Z!ToSet
    <2>6. \A y \in found : Classes[y] = Z!Sum(row(y))
      BY <1>1, <2>3, <2>4
    <2> QED
      BY <1>1, <2>1, <2>2, <2>4, <2>5, <2>6
  <1> HIDE DEF cs, m, name, found
  <1>3. IsFiniteSet(found)
    <2> DEFINE f == [k \in 1..m |-> name[k]]
    <2>1. f \in Surjection(1..m, found)
      BY <1>2 DEF Surjection
    <2>2. IsFiniteSet(1..m)
      BY <1>1, FS_Interval
    <2> HIDE DEF f
    <2> QED
      BY <2>1, <2>2, FS_Surjection
  <1>4. /\ names \in Seq(found) /\ (\A j, k \in 1..len : names[j] = names[k] => j = k)
        /\ \A e \in found : \E j \in 1..len : e = names[j]
    BY <1>3, ListedOnce
  <1> HIDE DEF names
  <1>5. len \in Nat /\ DOMAIN names = 1..len /\ \A j \in 1..len : names[j] \in found
    BY <1>4
  <1> HIDE DEF len
  <1>6. ASSUME NEW y PROVE row(y) \in Seq(Result) /\ Len(row(y)) = m
    <2>1. \A k \in 1..m : Z!ResultOf(cs[k]) \in Result
      <3>1. 1 \in Fields
        BY DEF Fields
      <3> QED
        BY <1>1, <3>1, WeightFacts
    <2>2. Z!Zero \in Result
      BY FieldFacts
    <2> QED
      BY <1>1, <2>1, <2>2
  <1>7. \A y \in found : Classes[y] \in Result
    <2> SUFFICES ASSUME NEW y \in found PROVE Classes[y] \in Result
      OBVIOUS
    <2> DEFINE r == row(y)
    <2>1. r \in Seq(Result) /\ Classes[y] = Z!Sum(r)
      BY <1>2, <1>6
    <2> HIDE DEF r
    <2> QED
      BY <2>1, SumFields
  <1>8. rs \in Seq(Result) /\ Len(rs) = len /\ \A k \in 1..len : rs[k] = Classes[names[k]]
    BY <1>5, <1>7
  <1> HIDE DEF rs
  <1>9. Z!Sum(rs) \in Result
    BY <1>8, SumFields
  <1>10. ASSUME NEW x \in Fields
         PROVE  Field(x, Z!Sum(rs)) = Summed(ClassWeight(x), cs)
    <2> DEFINE w == ClassWeight(x)
               v == Images(w, cs)
               totals == [j \in 1..len |-> Field(x, rs[j])]
               rows == [j \in 1..len |-> [i \in 1..m |-> IF name[i] = names[j] THEN v[i] ELSE 0]]
    <2>1. \A c \in Counts(Spoken) : w[c] = Field(x, Z!ResultOf(c)) /\ w[c] \in Nat
      BY WeightFacts
    <2>2. v = [k \in 1..m |-> w[cs[k]]]
      BY DEF Images, m
    <2> HIDE DEF w
    <2>3. v \in Seq(Nat) /\ Len(v) = m /\ \A k \in 1..m : v[k] = Field(x, Z!ResultOf(cs[k]))
      <3>1. \A k \in 1..m : w[cs[k]] \in Nat /\ w[cs[k]] = Field(x, Z!ResultOf(cs[k]))
        BY <1>1, <2>1
      <3> HIDE DEF v
      <3> QED
        BY <1>1, <2>2, <3>1
    <2>4. totals \in Seq(Nat) /\ Len(totals) = len
      <3>1. \A j \in 1..len : rs[j] \in Result
        BY <1>5, <1>7, <1>8
      <3>2. \A j \in 1..len : Field(x, rs[j]) \in Nat
        BY <3>1, FieldFacts
      <3> QED
        BY <1>5, <3>2
    <2> HIDE DEF v
    <2>5. ASSUME NEW j \in 1..len
          PROVE  totals[j] = SumTo(rows[j], m)
      <3> DEFINE y == names[j]
                 r == row(y)
      <3>1. r \in Seq(Result) /\ Len(r) = m /\ rs[j] = Z!Sum(r)
        BY <1>2, <1>5, <1>6, <1>8
      <3>2. \A i \in 1..m : Field(x, r[i]) = IF name[i] = y THEN v[i] ELSE 0
        <4>1. \A i \in 1..m : r[i] = IF name[i] = y THEN Z!ResultOf(cs[i]) ELSE Z!Zero
          OBVIOUS
        <4> HIDE DEF r, y
        <4> QED
          BY <2>3, <4>1, FieldFacts
      <3>3. rows[j] = [i \in 1..m |-> IF name[i] = y THEN v[i] ELSE 0]
        OBVIOUS
      <3> HIDE DEF r, y, rows
      <3>4. rows[j] = [i \in 1..m |-> Field(x, r[i])]
        BY <3>2, <3>3
      <3>5. Field(x, Z!Sum(r)) = SumTo([i \in 1..Len(r) |-> Field(x, r[i])], Len(r))
        BY <3>1, SumFields
      <3>6. Field(x, Z!Sum(r)) = SumTo(rows[j], m)
        BY <3>1, <3>4, <3>5
      <3>7. totals[j] = Field(x, rs[j])
        OBVIOUS
      <3> QED
        BY <3>1, <3>6, <3>7
    <2>6. Field(x, Z!Sum(rs)) = SumTo(totals, len)
      <3>1. Field(x, Z!Sum(rs)) = SumTo([k \in 1..Len(rs) |-> Field(x, rs[k])], Len(rs))
        BY <1>8, SumFields
      <3> QED
        BY <1>8, <3>1
    <2>7. \A j \in 1..len : rows[j] = [i \in 1..m |-> IF name[i] = names[j] THEN v[i] ELSE 0]
      OBVIOUS
    <2> HIDE DEF totals, rows
    <2>8. \A i \in 1..m : \E j \in 1..len : name[i] = names[j]
      BY <1>2, <1>4
    <2>9. SumTo(totals, len) = SumTo(v, m)
      <3>1. ByName(v, name, len, names, totals, rows)
        BY <1>4, <1>5, <2>3, <2>4, <2>5, <2>7, <2>8 DEF ByName
      <3> QED
        BY <2>3, <3>1, SumsByName
    <2> QED
      BY <2>6, <2>9 DEF Summed, v, w, m
  <1> QED
    BY <1>9, <1>10 DEF rs, names, found, cs

\* What stands outside of classes and the labels among the tokens, as they are picked.
Inside == {k \in DOMAIN S!tokens : IsLabel(S!tokens[k][1])}
Labels == Those(Z!Firsts(S!tokens), Inside)
Outer == Those(S!tokens, DOMAIN S!tokens \ Inside)

LEMMA SplitsOf ==
    ASSUME NEW t \in Trace, alignment = Details(t)
    PROVE  \E g, h : /\ Splits(g, h) /\ g[Len(S!tokens)] = Outer /\ h[Len(S!tokens)] = Labels
                     /\ Outer \in Seq(AnyToken) /\ Labels \in Seq(Fronts)
  <1> DEFINE s == S!tokens
             all == Len(s)
             r == Z!Firsts(s)
             rest == DOMAIN s \ Inside
             in == Inside
  <1>1. /\ s \in Seq(AnyToken) /\ S!classes \in Seq(Counts(Spoken))
        /\ alignment.alignment \in Counts(AnyToken)
    <2> DEFINE d == Details(t)
    <2>1. /\ d.alignment \in Counts(Spoken \cup Labelling)
          /\ d.alignment.tokens \in Seq(Spoken \cup Labelling)
          /\ d.label_alignments \in Seq(Counts(Spoken))
      BY DetailsFacts
    <2> HIDE DEF d
    <2>2. d = alignment
      BY DEF d
    <2> QED
      BY <2>1, <2>2 DEF S!tokens, S!classes, AnyToken
  <1>2. all \in Nat /\ DOMAIN s = 1..all /\ \A k \in 1..all : s[k] \in AnyToken
    BY <1>1
  <1>3. in = {k \in 1..all : IsLabel(s[k][1])}
    BY <1>2 DEF Inside
  <1> HIDE DEF s, all, r, in
  <1>4. r \in Seq(Fronts) /\ Len(r) = all /\ \A k \in 1..all : r[k] = s[k][1]
    BY <1>1, SidesFacts DEF Fronts, r, all
  <1>5. PICK g : IsPick(g, s, rest, AnyToken) /\ Those(s, rest) = g[Len(s)]
    BY <1>1, ThoseRun
  <1>6. PICK h : IsPick(h, r, in, Fronts) /\ Those(r, in) = h[Len(r)]
    BY <1>4, ThoseRun
  <1>7. /\ g \in [0..all -> Seq(AnyToken)] /\ g[0] = <<>>
        /\ \A k \in 1..all : g[k] = IF IsLabel(s[k][1]) THEN g[k - 1] ELSE Append(g[k - 1], s[k])
    <2>1. \A k \in 1..all : k \in rest <=> ~IsLabel(s[k][1])
      BY <1>2, <1>3 DEF in
    <2> HIDE DEF rest
    <2>2. /\ g \in [0..all -> Seq(AnyToken)] /\ g[0] = <<>>
          /\ \A k \in 1..all : g[k] = IF k \in rest THEN Append(g[k - 1], s[k]) ELSE g[k - 1]
      BY <1>5 DEF IsPick, all
    <2>3. ASSUME NEW k \in 1..all
          PROVE  g[k] = IF IsLabel(s[k][1]) THEN g[k - 1] ELSE Append(g[k - 1], s[k])
      <3>1. g[k] = IF k \in rest THEN Append(g[k - 1], s[k]) ELSE g[k - 1]
        BY <2>2
      <3>2. k \in rest <=> ~IsLabel(s[k][1])
        BY <2>1
      <3> DEFINE lower == g[k - 1]
                 upper == Append(g[k - 1], s[k])
      <3> HIDE DEF lower, upper
      <3>3. g[k] = IF k \in rest THEN upper ELSE lower
        BY <3>1 DEF lower, upper
      <3>4. g[k] = IF IsLabel(s[k][1]) THEN lower ELSE upper
        BY <3>2, <3>3
      <3> QED
        BY <3>4 DEF lower, upper
    <2> QED
      BY <2>2, <2>3
  <1>8. /\ h \in [0..all -> Seq(Fronts)] /\ h[0] = <<>>
        /\ \A k \in 1..all : h[k] = IF IsLabel(s[k][1]) THEN Append(h[k - 1], s[k][1]) ELSE h[k - 1]
    BY <1>3, <1>4, <1>6 DEF IsPick
  <1>9. Splits(g, h)
    BY <1>1, <1>2, <1>7, <1>8 DEF Splits, s, all
  <1>10. g[all] = Outer /\ h[all] = Labels
    BY <1>4, <1>5, <1>6 DEF Outer, Labels, s, r, in, all
  <1>11. all \in 0..all
    BY <1>2
  <1>12. Outer \in Seq(AnyToken) /\ Labels \in Seq(Fronts)
    BY <1>7, <1>8, <1>10, <1>11
  <1> QED
    BY <1>9, <1>10, <1>12 DEF s, all

LEMMA Partitioned ==
    ASSUME NEW n, NEW u, Trail(n, u)
    PROVE  ClassesPartition
  <1> DEFINE r == [k \in DOMAIN S!classes |-> S!classes[k].classLabel]
             names == SetToSeq(DOMAIN Classes)
             one == Z!Sum([k \in DOMAIN Outer |-> Tallied(Outer[k])])
             two == Z!Sum([k \in DOMAIN names |-> Classes[names[k]]])
             all == Len(S!tokens)
  <1>1. u[0] \in Trace /\ alignment = Details(u[0])
    <2>1. n \in Nat /\ u \in [0..n -> Trace] /\ alignment = Details(u[0])
      BY DEF Trail
    <2>2. 0 \in 0..n
      BY <2>1
    <2> QED
      BY <2>1, <2>2
  <1>2. PICK g, h : /\ Splits(g, h) /\ g[all] = Outer /\ h[all] = Labels
                    /\ Outer \in Seq(AnyToken) /\ Labels \in Seq(Fronts)
    <2> DEFINE t == u[0]
    <2>1. t \in Trace /\ alignment = Details(t)
      BY <1>1
    <2> HIDE DEF t
    <2> QED
      BY <2>1, SplitsOf
  <1>3. /\ S!classes \in Seq(Counts(Spoken)) /\ alignment.alignment \in Counts(AnyToken)
    BY <1>2 DEF Splits
  <1>4. /\ Turned(Labels, r)
        /\ \A x \in Fields : Summed(TokenWeight(x), Outer) + Summed(ClassWeight(x), S!classes)
                               = Field(x, alignment.alignment)
    BY <1>2, ApartAll
  <1>5. Labels = Reverse(r)
    <2> DEFINE m == Len(r)
               s == Labels
    <2>0. m \in Nat
      <3>1. DOMAIN S!classes = 1..Len(S!classes) /\ Len(S!classes) \in Nat
        BY <1>3
      <3> QED
        BY <3>1
    <2>1. s \in Seq(Fronts) /\ Len(s) = m /\ \A k \in 1..m : s[k] = r[m - k + 1]
      BY <1>2, <1>4 DEF Turned
    <2>2. Reverse(r) = [k \in 1..m |-> r[(m - k) + 1]]
      BY DEF Reverse
    <2> HIDE DEF r, m, s
    <2>3. s = [k \in 1..m |-> s[k]]
      BY <2>1
    <2> QED
      BY <2>1, <2>2, <2>3 DEF s
  <1>6. /\ one \in Result /\ \A x \in Fields : Field(x, one) = Summed(TokenWeight(x), Outer)
    BY <1>2, TalliedSum
  <1>7. /\ two \in Result /\ \A x \in Fields : Field(x, two) = Summed(ClassWeight(x), S!classes)
    BY <1>3, NamedSum
  <1>8. Total \in Result /\ \A x \in Fields : Field(x, Total) = Field(x, alignment.alignment)
    <2>1. 1 \in Fields
      BY DEF Fields
    <2>2. Total = Z!ResultOf(alignment.alignment)
      BY DEF Total, al
    <2> QED
      BY <1>3, <2>1, <2>2, WeightFacts
  <1> HIDE DEF one, two
  <1>9. Total = Z!Plus(one, two)
    <2> DEFINE both == Z!Plus(one, two)
    <2>1. both \in Result /\ \A x \in Fields : Field(x, both) = Field(x, one) + Field(x, two)
      BY <1>6, <1>7, FieldFacts
    <2>2. \A x \in Fields : Field(x, Total) = Field(x, both)
      BY <1>4, <1>6, <1>7, <1>8, <2>1
    <2> HIDE DEF both
    <2>3. Total = both
      BY <1>8, <2>1, <2>2, FieldFacts
    <2> QED
      BY <2>3 DEF both
  <1>10. al.tokens = S!tokens /\ alignment.label_alignments = S!classes
    BY DEF al, S!tokens, S!classes
  <1> QED
    BY <1>5, <1>9, <1>10 DEF ClassesPartition, one, two, Outer, Labels, Inside, Tallied

\* While nothing has been loaded, nothing is collected.
NothingRead == phase = "load" => alignment = T!GetDetails(<<>>)

LEMMA NothingReadYet == Spec => []NothingRead
  <1>1. Init => NothingRead
    BY DEF Init, NothingRead
  <1>2. NothingRead /\ [Next]_vars => NothingRead'
    <2> SUFFICES ASSUME NothingRead, [Next]_vars PROVE NothingRead'
      OBVIOUS
    <2>1. CASE UNCHANGED vars
      BY <2>1 DEF vars, NothingRead
    <2>2. CASE Step
      BY <2>2 DEF Step, Load, Walk, ReadBack, MakeStitches, AlignStitchesToNlp, NothingRead
    <2> QED
      BY <2>1, <2>2 DEF Next, Done
  <1> QED
    BY <1>1, <1>2, PTL DEF Spec

LEMMA TrailOfNothing ==
    ASSUME alignment = T!GetDetails(<<>>)
    PROVE  \E n, u : Trail(n, u)
  <1> DEFINE arcs == <<>>
             u == [i \in 0..0 |-> T!Unread]
             t == T!Unread
  <1>1. arcs \in Seq(Passed) /\ Len(arcs) = 0
    OBVIOUS
  <1> HIDE DEF arcs
  <1>2. PICK v : Traces(v, arcs) /\ T!GetDetails(arcs) = Details(v[0])
    BY <1>1, TraceRun
  <1>3. v[0] = t /\ t \in Trace
    <2>1. v \in [0..0 -> Trace] /\ v[0] = t
      BY <1>1, <1>2 DEF Traces
    <2> QED
      BY <2>1
  <1>4. alignment = Details(t)
    BY <1>2, <1>3 DEF arcs
  <1>5. Extends(t, t)
    <2>1. t.al.tokens = <<>> /\ t.classes = <<>>
      BY DEF T!Unread, T!Empty
    <2> HIDE DEF t
    <2> QED
      BY <2>1 DEF Extends, Begins
  <1> HIDE DEF t
  <1>6. Facing(t)
    BY <1>3, <1>4, <1>5, FacingFacts
  <1>7. u \in [0..0 -> Trace] /\ u[0] = t /\ \A i \in 0..0 : u[i] = t
    BY <1>3 DEF t
  <1> HIDE DEF u
  <1>8. Trail(0, u)
    BY <1>4, <1>6, <1>7 DEF Trail, t
  <1> QED
    BY <1>8

LEMMA TrailOfStory ==
    ASSUME NEW u, NEW f, NEW x, Story(u, f, x)
    PROVE  Trail(Len(chain), u)
  <1> DEFINE n == Len(chain)
  <1>1. /\ n \in Nat /\ u \in [0..n -> Trace] /\ u[n] = T!Unread /\ alignment = Details(u[0])
        /\ \A i \in 1..n : /\ chain[i] \in Passed
                           /\ Tells(u[i], u[i - 1], f[i - 1], f[i], x[i - 1], x[i], chain[i])
    BY DEF Story
  <1>2. \A i \in 0..n : Facing(u[i])
    BY StoryFacts
  <1>3. \A i \in 1..n : Changes(u[i], u[i - 1], chain[i])
    BY <1>1 DEF Changes, Tells, Adding, EnteringClass, LeavingClass, Idling, Met
  <1> QED
    BY <1>1, <1>2, <1>3 DEF Trail

\* The counts of the classes, by their names, and of the words outside of them add up to
\* those of the alignment, and the labels among its tokens are those of its classes
\* (GetDetailsFromTopCandidates, RecordWer).
THEOREM ClassesAddUp == Spec => []ClassesPartition
  <1>1. ASSUME ChainInv, NothingRead PROVE ClassesPartition
    <2>1. CASE phase = "walk"
      BY <2>1 DEF ClassesPartition
    <2>2. CASE phase = "load"
      BY <1>1, <2>2, TrailOfNothing, Partitioned DEF NothingRead
    <2>3. CASE phase \notin {"load", "walk"}
      <3>1. PICK m, lay, p, q : Told(m, lay, p, q)
        BY <1>1, <2>3 DEF ChainInv
      <3>2. PICK u, f, x : Story(u, f, x)
        BY <3>1, StoryOf
      <3>3. Trail(Len(chain), u)
        BY <3>2, TrailOfStory
      <3> QED
        BY <3>3, Partitioned
    <2> QED
      BY <2>1, <2>2, <2>3
  <1> QED
    BY <1>1, ChainTold, NothingReadYet, PTL
=============================================================================
