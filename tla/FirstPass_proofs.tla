-------------------------- MODULE FirstPass_proofs --------------------------
(***************************************************************************)
(* Proofs about the first pass, for texts of every length.                 *)
(***************************************************************************)
EXTENDS FirstPass, Selections_proofs

Columns == 0..Len(seqA)
Row == [Columns -> Nat]

-----------------------------------------------------------------------------
\* The recursive functions of the module

\* The minimum of three numbers is one of them, and none is below it.
LEMMA MinFacts ==
    ASSUME NEW a \in Nat, NEW b \in Nat, NEW c \in Nat
    PROVE  /\ min(a, b, c) \in Nat
           /\ min(a, b, c) \in {a, b, c}
           /\ min(a, b, c) <= a /\ min(a, b, c) <= b /\ min(a, b, c) <= c
  BY DEF min

\* What a row of the distances holds, from left to right.
IsNextRow(new, row, word) ==
    /\ new[0] = row[0] + 1
    /\ \A i \in 1..Len(seqA) :
         new[i] = IF seqA[i] = word THEN row[i - 1]
                  ELSE min(new[i - 1], row[i], row[i - 1]) + 1

\* NextRow is what its equation says, and is a row again.
LEMMA NextRowDef ==
    ASSUME seqA \in Seq(Word), NEW row \in Row, NEW word
    PROVE  NextRow(row, word) \in Row /\ IsNextRow(NextRow(row, word), row, word)
  <1> DEFINE len == Len(seqA)
             Cell(v, i) == IF seqA[i] = word THEN row[i - 1]
                           ELSE min(v, row[i], row[i - 1]) + 1
             g == [i \in 1..len |-> [v \in Nat |-> Cell(v, i)]]
             Eq(new) == new = [i \in 0..len |->
                                 IF i = 0 THEN row[0] + 1
                                 ELSE IF seqA[i] = word THEN row[i - 1]
                                 ELSE min(new[i - 1], row[i], row[i - 1]) + 1]
  <1>1. len \in Nat /\ row \in [0..len -> Nat] /\ row[0] + 1 \in Nat
    BY DEF Row, Columns
  <1>2. ASSUME NEW i \in 1..len, NEW v \in Nat
        PROVE  Cell(v, i) \in Nat
    <2>1. row[i] \in Nat /\ row[i - 1] \in Nat
      BY <1>1, <1>2
    <2>2. min(v, row[i], row[i - 1]) \in Nat
      BY <2>1, <1>2, MinFacts
    <2> QED
      BY <2>1, <2>2
  <1>3. g \in [1..len -> [Nat -> Nat]]
    <2> HIDE DEF Cell
    <2> QED
      BY <1>2
  <1>4. PICK f \in [0..len -> Nat] :
          f[0] = row[0] + 1 /\ \A i \in 1..len : f[i] = g[i][f[i - 1]]
    <2> DEFINE c == row[0] + 1
    <2>1. c \in Nat
      BY <1>1
    <2> HIDE DEF g, len, c
    <2>2. AreSteps(g, len, Nat)
      BY <1>3 DEF AreSteps
    <2>3. PICK f : IsRun(f, g, len, Nat, c)
      BY <1>1, <2>1, <2>2, Iterate
    <2> QED
      BY <2>3 DEF IsRun, c
  <1>5. \A i \in 1..len : f[i] = Cell(f[i - 1], i)
    <2> HIDE DEF Cell
    <2>1. \A i \in 1..len : f[i - 1] \in Nat
      BY <1>1
    <2> QED
      BY <1>4, <2>1
  <1>6. Eq(f)
    BY <1>4, <1>5
  <1> DEFINE nr == NextRow(row, word)
  <1>7. Eq(nr)
    <2>1. nr = CHOOSE new : Eq(new)
      BY DEF NextRow
    <2> HIDE DEF Eq, nr
    <2> QED
      BY <1>6, <2>1
  <1> HIDE DEF nr
  <1>8. /\ nr = [i \in 0..len |-> nr[i]]
        /\ nr[0] = row[0] + 1
        /\ \A i \in 1..len : nr[i] = Cell(nr[i - 1], i)
    BY <1>1, <1>7
  <1>9. \A k \in 0..len : k \in {i \in 0..len : nr[i] \in Nat}
    <2> DEFINE S == {i \in 0..len : nr[i] \in Nat}
    <2> HIDE DEF Cell
    <2>1. 0 \in S
      BY <1>1, <1>8
    <2>2. ASSUME NEW k \in Nat, k < len, k \in S
          PROVE  k + 1 \in S
      <3>1. k + 1 \in 1..len /\ (k + 1) - 1 = k /\ nr[k] \in Nat
        BY <1>1, <2>2
      <3>2. nr[k + 1] = Cell(nr[k], k + 1)
        BY <1>8, <3>1
      <3>3. nr[k + 1] \in Nat
        BY <1>2, <3>1, <3>2
      <3>4. k + 1 \in 0..len
        BY <1>1, <3>1
      <3> QED
        BY <3>3, <3>4
    <2> HIDE DEF S
    <2>3. \A k \in 0..len : k \in S
      BY <1>1, <2>1, <2>2, Climb
    <2> QED
      BY <2>3 DEF S
  <1>10. nr \in Row
    BY <1>8, <1>9 DEF Row, Columns
  <1> QED
    BY <1>8, <1>10 DEF IsNextRow, nr

\* Neighbours in a row differ by one at most.
Smooth(row) ==
    \A i \in 1..Len(seqA) : row[i] <= row[i - 1] + 1 /\ row[i - 1] <= row[i] + 1

\* What the row of a textbook table holds: the diagonal competes with the two
\* other directions even when the words are equal.
IsTextbookRow(new, row, word) ==
    \A i \in 1..Len(seqA) :
        new[i] = min(new[i - 1] + 1, row[i] + 1,
                     row[i - 1] + (IF seqA[i] = word THEN 0 ELSE 1))

\* The next row after a smooth one is smooth, and taking the diagonal whenever the
\* words are equal gives the textbook row.
LEMMA NextRowSmooth ==
    ASSUME seqA \in Seq(Word), NEW row \in Row, NEW word, Smooth(row)
    PROVE  /\ Smooth(NextRow(row, word))
           /\ IsTextbookRow(NextRow(row, word), row, word)
  <1> DEFINE len == Len(seqA)
             new == NextRow(row, word)
             Near(i) == /\ row[i] <= new[i] + 1 /\ new[i] <= row[i] + 1
                        /\ i > 0 => new[i] <= new[i - 1] + 1 /\ new[i - 1] <= new[i] + 1
             S == {i \in 0..len : Near(i)}
  <1>1. new \in Row /\ IsNextRow(new, row, word) /\ len \in Nat
    BY NextRowDef
  <1> HIDE DEF new
  <1>2. \A i \in 0..len : row[i] \in Nat /\ new[i] \in Nat
    BY <1>1 DEF Row, Columns
  <1>3. 0 \in S
    BY <1>1, <1>2 DEF IsNextRow
  <1>4. ASSUME NEW k \in Nat, k < len, k \in S
        PROVE  k + 1 \in S
    <2>1. k + 1 \in 1..len /\ k + 1 \in 0..len /\ k \in 0..len /\ (k + 1) - 1 = k
      BY <1>1, <1>4
    <2>2. /\ row[k] \in Nat /\ row[k + 1] \in Nat
          /\ new[k] \in Nat /\ new[k + 1] \in Nat
          /\ row[k] <= new[k] + 1 /\ new[k] <= row[k] + 1
      BY <1>2, <1>4, <2>1
    <2>3. row[k + 1] <= row[k] + 1 /\ row[k] <= row[k + 1] + 1
      BY <2>1 DEF Smooth
    <2>4. new[k + 1] = IF seqA[k + 1] = word THEN row[k]
                       ELSE min(new[k], row[k + 1], row[k]) + 1
      BY <1>1, <2>1 DEF IsNextRow
    <2>5. Near(k + 1)
      <3>1. CASE seqA[k + 1] = word
        BY <2>1, <2>2, <2>3, <2>4, <3>1
      <3>2. CASE seqA[k + 1] # word
        <4>1. new[k + 1] = min(new[k], row[k + 1], row[k]) + 1
          BY <2>4, <3>2
        <4> DEFINE a == row[k]
                   b == row[k + 1]
                   p == new[k]
                   q == new[k + 1]
        <4>2. /\ a \in Nat /\ b \in Nat /\ p \in Nat /\ q \in Nat
              /\ q = min(p, b, a) + 1 /\ b <= a + 1 /\ a <= b + 1
              /\ a <= p + 1 /\ p <= a + 1
          BY <2>2, <2>3, <4>1
        <4> HIDE DEF a, b, p, q
        <4>3. b <= q + 1 /\ q <= b + 1 /\ q <= p + 1 /\ p <= q + 1
          BY <4>2 DEF min
        <4>4. /\ row[k + 1] <= new[k + 1] + 1 /\ new[k + 1] <= row[k + 1] + 1
              /\ new[k + 1] <= new[k] + 1 /\ new[k] <= new[k + 1] + 1
          BY <4>3 DEF a, b, p, q
        <4> QED
          BY <2>1, <4>4
      <3> QED
        BY <3>1, <3>2
    <2> QED
      BY <2>1, <2>5
  <1>5. \A k \in 0..len : k \in S
    <2> HIDE DEF S
    <2> QED
      BY <1>1, <1>3, <1>4, Climb
  <1>6. \A i \in 1..len : /\ i \in 0..len /\ i - 1 \in 0..len /\ i > 0
                          /\ Near(i) /\ Near(i - 1)
    <2>1. \A i \in 1..len : i \in 0..len /\ i - 1 \in 0..len /\ i > 0
      BY <1>1
    <2> QED
      BY <1>5, <2>1
  <1>7. Smooth(new)
    BY <1>6 DEF Smooth
  <1>8. IsTextbookRow(new, row, word)
    <2> SUFFICES ASSUME NEW i \in 1..len
                 PROVE  new[i] = min(new[i - 1] + 1, row[i] + 1,
                               row[i - 1] + (IF seqA[i] = word THEN 0 ELSE 1))
      BY DEF IsTextbookRow
    <2>1. /\ row[i] \in Nat /\ row[i - 1] \in Nat
          /\ new[i] \in Nat /\ new[i - 1] \in Nat
          /\ row[i - 1] <= new[i - 1] + 1 /\ row[i - 1] <= row[i] + 1
      BY <1>2, <1>6 DEF Smooth
    <2>2. new[i] = IF seqA[i] = word THEN row[i - 1]
                   ELSE min(new[i - 1], row[i], row[i - 1]) + 1
      BY <1>1 DEF IsNextRow
    <2>3. CASE seqA[i] = word
      BY <2>1, <2>2, <2>3 DEF min
    <2>4. CASE seqA[i] # word
      BY <2>1, <2>2, <2>4 DEF min
    <2> QED
      BY <2>3, <2>4
  <1> QED
    BY <1>7, <1>8 DEF new

\* The equation of the textbook distance, for every pair of prefixes.
IsDistance(d) ==
    \A i \in 0..Len(seqA), j \in 0..Len(seqB) :
        d[<<i, j>>] = IF i = 0 THEN j
                  ELSE IF j = 0 THEN i
                  ELSE min(d[<<i - 1, j>>] + 1, d[<<i, j - 1>>] + 1,
                           d[<<i - 1, j - 1>>] + (IF seqA[i] = seqB[j] THEN 0 ELSE 1))

\* EditDistance is what its equation says: the rows of the code, run to the end,
\* solve it.
LEMMA EditDistanceDef ==
    ASSUME seqA \in Seq(Word), seqB \in Seq(Word)
    PROVE  IsDistance(EditDistance(seqA, seqB))
  <1> DEFINE lenA == Len(seqA)
             lenB == Len(seqB)
             V == {r \in Row : Smooth(r)}
             c == [i \in 0..lenA |-> i]
             g == [j \in 1..lenB |-> [r \in V |-> NextRow(r, seqB[j])]]
             Eq(tab) == tab = [p \in (0..lenA) \X (0..lenB) |->
                            IF p[1] = 0 THEN p[2]
                            ELSE IF p[2] = 0 THEN p[1]
                            ELSE min(tab[<<p[1] - 1, p[2]>>] + 1, tab[<<p[1], p[2] - 1>>] + 1,
                                     tab[<<p[1] - 1, p[2] - 1>>]
                                       + (IF seqA[p[1]] = seqB[p[2]] THEN 0 ELSE 1))]
             dist == EditDistance(seqA, seqB)
  <1>1. lenA \in Nat /\ lenB \in Nat
    OBVIOUS
  <1>2. c \in V
    BY <1>1 DEF Row, Columns, Smooth
  <1>3. AreSteps(g, lenB, V)
    <2>1. ASSUME NEW j \in 1..lenB, NEW r \in V
          PROVE  NextRow(r, seqB[j]) \in V
      BY NextRowDef, NextRowSmooth
    <2> HIDE DEF V, lenB
    <2> QED
      BY <2>1 DEF AreSteps
  <1>4. PICK rows : IsRun(rows, g, lenB, V, c)
    <2> HIDE DEF V, lenB, g, c
    <2> QED
      BY <1>1, <1>2, <1>3, Iterate
  <1>5. /\ rows[0] = c
        /\ \A j \in 0..lenB : rows[j] \in V
        /\ \A j \in 1..lenB : rows[j] = NextRow(rows[j - 1], seqB[j])
    <2>1. rows[0] = c /\ rows \in [0..lenB -> V]
      BY <1>4 DEF IsRun
    <2>2. \A j \in 1..lenB : rows[j] = g[j][rows[j - 1]]
      BY <1>4 DEF IsRun
    <2>3. \A j \in 1..lenB : j - 1 \in 0..lenB
      BY <1>1
    <2>4. \A j \in 1..lenB, r \in V : g[j][r] = NextRow(r, seqB[j])
      OBVIOUS
    <2> HIDE DEF V, lenB, g, c
    <2> QED
      BY <2>1, <2>2, <2>3, <2>4
  <1> DEFINE cells == (0..lenA) \X (0..lenB)
  <1>6. \A k \in 0..lenB : k \in {j \in 0..lenB : rows[j][0] = j}
    <2> DEFINE S == {j \in 0..lenB : rows[j][0] = j}
    <2>1. 0 \in S
      BY <1>1, <1>5
    <2>2. ASSUME NEW k \in Nat, k < lenB, k \in S
          PROVE  k + 1 \in S
      <3>1. k + 1 \in 1..lenB /\ k + 1 \in 0..lenB /\ k \in 0..lenB /\ (k + 1) - 1 = k
        BY <1>1, <2>2
      <3>2. rows[k] \in Row /\ rows[k + 1] = NextRow(rows[k], seqB[k + 1])
        BY <1>5, <3>1
      <3>3. rows[k + 1][0] = rows[k][0] + 1
        BY <3>2, NextRowDef DEF IsNextRow
      <3> QED
        BY <2>2, <3>1, <3>3
    <2> HIDE DEF S
    <2>3. \A k \in 0..lenB : k \in S
      BY <1>1, <2>1, <2>2, Climb
    <2> QED
      BY <2>3 DEF S
  <1>7. ASSUME NEW i \in 1..lenA, NEW j \in 1..lenB
        PROVE  rows[j][i] = min(rows[j][i - 1] + 1, rows[j - 1][i] + 1,
                       rows[j - 1][i - 1] + (IF seqA[i] = seqB[j] THEN 0 ELSE 1))
    <2>1. j - 1 \in 0..lenB
      BY <1>1
    <2>2. rows[j - 1] \in Row /\ Smooth(rows[j - 1]) /\ rows[j] = NextRow(rows[j - 1], seqB[j])
      BY <1>5, <2>1
    <2>3. IsTextbookRow(rows[j], rows[j - 1], seqB[j])
      BY <2>2, NextRowSmooth
    <2> QED
      BY <2>3 DEF IsTextbookRow
  <1>8. PICK e : e = [p \in cells |-> rows[p[2]][p[1]]]
    OBVIOUS
  <1>9. Eq(e)
    <2>1. \A i \in 0..lenA, j \in 0..lenB : e[<<i, j>>] = rows[j][i]
      BY <1>8
    <2>2. \A i \in 0..lenA : rows[0][i] = i
      BY <1>5
    <2>3. ASSUME NEW i \in 0..lenA, NEW j \in 0..lenB
          PROVE  rows[j][i] = IF i = 0 THEN j
                              ELSE IF j = 0 THEN i
                              ELSE min(e[<<i - 1, j>>] + 1, e[<<i, j - 1>>] + 1,
                                       e[<<i - 1, j - 1>>]
                                         + (IF seqA[i] = seqB[j] THEN 0 ELSE 1))
      <3>1. CASE i = 0
        BY <1>6, <3>1
      <3>2. CASE i # 0 /\ j = 0
        BY <2>2, <3>2
      <3>3. CASE i # 0 /\ j # 0
        <4>1. /\ i \in 1..lenA /\ i - 1 \in 0..lenA
              /\ j \in 1..lenB /\ j - 1 \in 0..lenB
          BY <1>1, <3>3
        <4>2. /\ e[<<i - 1, j>>] = rows[j][i - 1] /\ e[<<i, j - 1>>] = rows[j - 1][i]
              /\ e[<<i - 1, j - 1>>] = rows[j - 1][i - 1]
          BY <2>1, <4>1
        <4> QED
          BY <1>7, <3>3, <4>1, <4>2
      <3> QED
        BY <3>1, <3>2, <3>3
    <2>4. \A p \in cells : p[1] \in 0..lenA /\ p[2] \in 0..lenB
      OBVIOUS
    <2> QED
      BY <1>8, <2>3, <2>4
  <1>10. Eq(dist)
    <2>1. dist = CHOOSE tab : Eq(tab)
      BY DEF EditDistance
    <2> HIDE DEF Eq, dist
    <2> QED
      BY <1>9, <2>1
  <1>11. IsDistance(dist)
    <2> HIDE DEF dist
    <2> QED
      BY <1>10 DEF IsDistance
  <1> QED
    BY <1>11

-----------------------------------------------------------------------------
\* Types

Map == Seq({-1, 1})
Phase == {"start", "rows", "track", "relaxRef", "relaxHyp", "choose", "done"}

TypeOK ==
    /\ phase \in Phase
    /\ ref \in Seq(Word) /\ hyp \in Seq(Word)
    /\ seqA \in Seq(Word) /\ seqB \in Seq(Word)
    /\ all_distances \in Seq(Row)
    /\ phase \in {"rows", "track"} => distance \in Row /\ distancePrev \in Row
    /\ mapA \in Map /\ Len(mapA) = Len(seqA)
    /\ mapB \in Map /\ Len(mapB) = Len(seqB)
    /\ current_pos \in 0..Len(seqA) /\ seqB_track \in 0..Len(seqB)
    /\ refMap \in Map /\ hypMap \in Map
    /\ x \in Nat /\ edits \in Nat /\ lefts \in Nat /\ useMaps \in BOOLEAN

\* Before the pass is entered nothing of it exists; from then on the arguments of
\* the inner call are the two texts, the shorter one first, and neither is empty.
Arguments ==
    /\ phase = "start" => seqA = <<>> /\ seqB = <<>> /\ all_distances = <<>>
                          /\ edits = 0 /\ lefts = 0
    /\ phase \in {"rows", "track"} =>
         /\ seqA = IF Swapped THEN hyp ELSE ref
         /\ seqB = IF Swapped THEN ref ELSE hyp
         /\ Len(seqA) > 0 /\ Len(seqB) > 0

\* A map that marks nothing.
LEMMA UnmarkedType ==
    ASSUME NEW s \in Seq(Word)
    PROVE  /\ Unmarked(s) \in Map /\ Len(Unmarked(s)) = Len(s)
           /\ \A i \in 1..Len(s) : Unmarked(s)[i] = -1
  BY DEF Unmarked, Map

\* Marking an element of a map.
LEMMA MarkType ==
    ASSUME NEW map \in Map, NEW i \in 1..Len(map), NEW v \in {-1, 1}
    PROVE  /\ [map EXCEPT ![i] = v] \in Map
           /\ Len([map EXCEPT ![i] = v]) = Len(map)
           /\ \A j \in 1..Len(map) :
                [map EXCEPT ![i] = v][j] = IF j = i THEN v ELSE map[j]
  BY DEF Map

\* Where the tables and maps stand: the rows are filled from the top and read from
\* the bottom, and no word that is still to be looked at is marked.
Tables ==
    /\ phase = "rows" =>
         /\ Len(all_distances) <= Len(seqB)
         /\ Len(all_distances) > 0 => distancePrev = all_distances[Len(all_distances)]
         /\ \A i \in 1..Len(seqA) : mapA[i] = -1
         /\ \A j \in 1..Len(seqB) : mapB[j] = -1
    /\ phase = "track" =>
         /\ Len(all_distances) = Len(seqB) + 1
         /\ seqB_track > 0 => distancePrev = all_distances[seqB_track]
         /\ \A i \in 1..current_pos : mapA[i] = -1
         /\ \A j \in 1..seqB_track : mapB[j] = -1

Shape == TypeOK /\ Arguments /\ Tables

LEMMA InitShape == Init => Shape
  <1> SUFFICES ASSUME Init
               PROVE  Shape
    OBVIOUS
  <1>1. ref \in Seq(Word) /\ hyp \in Seq(Word)
    BY PassAssumption DEF Init
  <1>2. Arguments /\ Tables
    BY DEF Init, Arguments, Tables
  <1>3. all_distances \in Seq(Row)
    BY DEF Init
  <1>4. <<>> \in Map /\ <<>> \in Seq(Word) /\ Len(<<>>) = 0 /\ 0 \in 0..0
    BY DEF Map
  <1>5. TypeOK
    BY <1>1, <1>3, <1>4 DEF Init, TypeOK, Phase
  <1> QED
    BY <1>2, <1>5 DEF Shape

LEMMA StartShape ==
    ASSUME Shape, StartPass
    PROVE  Shape'
  <1>1. /\ seqA' \in Seq(Word) /\ seqB' \in Seq(Word)
        /\ Len(seqA') > 0 /\ Len(seqB') > 0
    BY PassAssumption DEF Shape, TypeOK, StartPass
  <1>2. /\ mapA' \in Map /\ Len(mapA') = Len(seqA')
        /\ \A i \in 1..Len(seqA') : mapA'[i] = -1
        /\ mapB' \in Map /\ Len(mapB') = Len(seqB')
        /\ \A i \in 1..Len(seqB') : mapB'[i] = -1
    BY <1>1, UnmarkedType DEF StartPass
  <1>3. distance' \in Row' /\ distancePrev' \in Row'
    BY <1>1 DEF StartPass, Row, Columns
  <1>4. all_distances' = <<>>
    BY DEF Shape, Arguments, StartPass
  <1>5. current_pos' \in 0..Len(seqA') /\ seqB_track' \in 0..Len(seqB')
    BY <1>1 DEF Shape, TypeOK, Arguments, StartPass, trackVars
  <1>6. TypeOK'
    BY <1>1, <1>2, <1>3, <1>4, <1>5 DEF Shape, TypeOK, StartPass, relaxVars, Phase
  <1>7. Arguments'
    BY <1>1 DEF StartPass, Arguments, Swapped
  <1>8. Tables'
    BY <1>1, <1>2, <1>4 DEF StartPass, Tables
  <1> QED
    BY <1>6, <1>7, <1>8 DEF Shape

LEMMA FillShape ==
    ASSUME Shape, FillRow
    PROVE  Shape'
  <1> USE DEF Shape
  <1>1. /\ distance \in Row /\ all_distances \in Seq(Row)
        /\ Row' = Row /\ phase' = phase /\ UNCHANGED inputVars
    BY DEF TypeOK, FillRow, Row, Columns, inputVars
  <1>2. distance' \in Row
    BY <1>1, NextRowDef DEF TypeOK, FillRow
  <1>3. /\ all_distances' \in Seq(Row)
        /\ Len(all_distances') = Len(all_distances) + 1
        /\ Len(all_distances') \in Nat
        /\ all_distances'[Len(all_distances')] = distance
    BY <1>1 DEF FillRow
  <1>4. TypeOK'
    BY <1>1, <1>2, <1>3 DEF TypeOK, FillRow, trackVars, relaxVars, inputVars
  <1>5. Arguments'
    BY <1>1 DEF Arguments, FillRow, Swapped, inputVars
  <1>6. Tables'
    BY <1>1, <1>3 DEF TypeOK, Tables, FillRow, trackVars, inputVars
  <1> QED
    BY <1>4, <1>5, <1>6

LEMMA TurnShape ==
    ASSUME Shape, StartTracking
    PROVE  Shape'
  <1> USE DEF Shape
  <1>1. /\ distance \in Row /\ distancePrev \in Row /\ all_distances \in Seq(Row)
        /\ Len(seqA) \in Nat /\ Len(seqB) \in Nat /\ Len(seqB) > 0
        /\ Row' = Row /\ phase' = "track" /\ UNCHANGED inputVars
    BY DEF TypeOK, Arguments, StartTracking, Row, Columns, inputVars
  <1>2. /\ all_distances' \in Seq(Row)
        /\ Len(all_distances') = Len(seqB) + 1
        /\ all_distances'[Len(seqB)] = all_distances[Len(seqB)]
    BY <1>1 DEF StartTracking
  <1>3. TypeOK'
    BY <1>1, <1>2 DEF TypeOK, StartTracking, relaxVars, inputVars, Phase
  <1>4. Arguments'
    BY <1>1 DEF Arguments, StartTracking, Swapped, inputVars
  <1>5. Tables'
    BY <1>1, <1>2 DEF Tables, StartTracking, inputVars
  <1> QED
    BY <1>3, <1>4, <1>5

\* A step of the backtracking, whichever way it goes.
Track == TrackDiagonal \/ TrackLeft \/ TrackUp

\* What the three ways have in common.
LEMMA TrackFacts ==
    ASSUME Shape, Track
    PROVE  /\ Tracking /\ phase = "track" /\ phase' = "track"
           /\ current_pos \in 1..Len(seqA) /\ seqB_track \in 1..Len(seqB)
           /\ current_pos' \in {current_pos, current_pos - 1}
           /\ seqB_track' \in {seqB_track, seqB_track - 1}
           /\ current_pos' \in 0..Len(seqA) /\ seqB_track' \in 0..Len(seqB)
           /\ ShiftRows
           /\ UNCHANGED <<inputVars, all_distances, relaxVars>>
           /\ Row' = Row
  <1>1. /\ Tracking /\ phase = "track" /\ phase' = "track" /\ ShiftRows
        /\ current_pos' \in {current_pos, current_pos - 1}
        /\ seqB_track' \in {seqB_track, seqB_track - 1}
        /\ UNCHANGED <<inputVars, all_distances, relaxVars>>
    BY DEF Track, Tracking, TrackDiagonal, TrackLeft, TrackUp
  <1>2. /\ current_pos \in 1..Len(seqA) /\ seqB_track \in 1..Len(seqB)
        /\ Len(seqA) \in Nat /\ Len(seqB) \in Nat
    BY <1>1 DEF Shape, TypeOK, Tracking
  <1>3. current_pos' \in 0..Len(seqA) /\ seqB_track' \in 0..Len(seqB)
    BY <1>1, <1>2
  <1> QED
    BY <1>1, <1>2, <1>3 DEF Row, Columns, inputVars

\* The maps after a step: nothing that is still to be looked at gets marked.
LEMMA TrackMaps ==
    ASSUME Shape, Track
    PROVE  /\ mapA' \in Map /\ Len(mapA') = Len(mapA)
           /\ mapB' \in Map /\ Len(mapB') = Len(mapB)
           /\ \A i \in 1..current_pos' : mapA'[i] = -1
           /\ \A j \in 1..seqB_track' : mapB'[j] = -1
           /\ edits' \in Nat /\ lefts' \in Nat
  <1> USE DEF Shape
  <1>1. /\ current_pos \in 1..Len(mapA) /\ seqB_track \in 1..Len(mapB)
        /\ mapA \in Map /\ mapB \in Map /\ edits \in Nat /\ lefts \in Nat
        /\ \A i \in 1..current_pos : mapA[i] = -1
        /\ \A j \in 1..seqB_track : mapB[j] = -1
        /\ 1 \in {-1, 1} /\ Len(mapA) \in Nat /\ Len(mapB) \in Nat
    BY TrackFacts DEF TypeOK, Tables, Map
  <1>2. CASE TrackDiagonal
    <2>1. current_pos' = current_pos - 1 /\ seqB_track' = seqB_track - 1
      BY <1>2 DEF TrackDiagonal
    <2>2. CASE seqA[current_pos] = seqB[seqB_track]
      <3>1. /\ mapA' = [mapA EXCEPT ![current_pos] = 1]
            /\ mapB' = [mapB EXCEPT ![seqB_track] = 1]
            /\ edits' = edits /\ lefts' = lefts
        BY <1>2, <2>2 DEF TrackDiagonal
      <3>2. /\ mapA' \in Map /\ Len(mapA') = Len(mapA)
            /\ \A i \in 1..Len(mapA) : mapA'[i] = IF i = current_pos THEN 1 ELSE mapA[i]
        BY <1>1, <3>1, MarkType
      <3>3. /\ mapB' \in Map /\ Len(mapB') = Len(mapB)
            /\ \A j \in 1..Len(mapB) : mapB'[j] = IF j = seqB_track THEN 1 ELSE mapB[j]
        BY <1>1, <3>1, MarkType
      <3> QED
        BY <1>1, <2>1, <3>1, <3>2, <3>3
    <2>3. CASE seqA[current_pos] # seqB[seqB_track]
      BY <1>1, <1>2, <2>1, <2>3 DEF TrackDiagonal
    <2> QED
      BY <2>2, <2>3
  <1>3. CASE TrackLeft
    BY <1>1, <1>3 DEF TrackLeft
  <1>4. CASE TrackUp
    BY <1>1, <1>4 DEF TrackUp
  <1> QED
    BY <1>2, <1>3, <1>4 DEF Track

LEMMA TrackShape ==
    ASSUME Shape, Track
    PROVE  Shape'
  <1> USE DEF Shape
  <1>1. Len(all_distances) = Len(seqB) + 1
    BY TrackFacts DEF Tables
  <1>2. distance' \in Row /\ distancePrev' \in Row
    <2>1. CASE seqB_track' = 0
      BY <2>1, TrackFacts DEF ShiftRows, TypeOK
    <2>2. CASE seqB_track' # 0
      <3>1. seqB_track' \in 1..Len(all_distances)
        BY <1>1, <2>2, TrackFacts DEF TypeOK
      <3> QED
        BY <2>2, <3>1, TrackFacts DEF ShiftRows, TypeOK
    <2> QED
      BY <2>1, <2>2
  <1>3. TypeOK'
    BY <1>2, TrackFacts, TrackMaps DEF TypeOK, inputVars, relaxVars
  <1>4. Arguments'
    BY TrackFacts DEF Arguments, Swapped, inputVars
  <1>5. Tables'
    <2>1. seqB_track' > 0 => distancePrev' = all_distances'[seqB_track']
      BY TrackFacts DEF ShiftRows
    <2> QED
      BY <1>1, <2>1, TrackFacts, TrackMaps DEF Tables, inputVars
  <1> QED
    BY <1>3, <1>4, <1>5

\* Outside the inner call its variables only keep their types.
LEMMA RestShape ==
    ASSUME Shape, SkipPass \/ EndTracking \/ RelaxRef \/ RelaxHyp \/ ChooseMaps
    PROVE  Shape'
  <1> USE DEF Shape
  <1>1. /\ UNCHANGED <<inputVars, rowVars, current_pos, seqB_track, mapA, mapB>>
        /\ phase' \in Phase \ {"start", "rows", "track"}
    BY DEF SkipPass, EndTracking, RelaxRef, RelaxHyp, ChooseMaps, TypeOK, Phase,
           trackVars, inputVars, rowVars
  <1>2. \A map \in Map : x < Len(map) - 1 => RelaxAt(map) \in Map
    <2> SUFFICES ASSUME NEW map \in Map, x < Len(map) - 1
                 PROVE  RelaxAt(map) \in Map
      OBVIOUS
    <2>1. x + 1 \in 1..Len(map)
      BY DEF TypeOK, Map
    <2> QED
      BY <2>1, MarkType DEF RelaxAt
  <1>3. refMap \in Map /\ hypMap \in Map /\ mapA \in Map /\ mapB \in Map
    BY DEF TypeOK
  <1>4. refMap' \in Map /\ hypMap' \in Map
    <2>1. CASE RelaxRef
      BY <2>1, <1>2, <1>3 DEF RelaxRef
    <2>2. CASE RelaxHyp
      <3>1. x < Len(hypMap) - 2 => x < Len(hypMap) - 1
        BY DEF TypeOK, Map
      <3> QED
        BY <2>2, <3>1, <1>2, <1>3 DEF RelaxHyp
    <2>3. CASE SkipPass \/ EndTracking \/ ChooseMaps
      BY <2>3, <1>3 DEF SkipPass, EndTracking, ChooseMaps, relaxVars
    <2> QED
      BY <2>1, <2>2, <2>3
  <1>5. x' \in Nat /\ edits' \in Nat /\ lefts' \in Nat
    <2>1. /\ x \in Nat /\ edits \in Nat /\ lefts \in Nat
          /\ current_pos \in Nat /\ seqB_track \in Nat
      BY DEF TypeOK
    <2>2. x' = x \/ x' = 1 \/ x' = x + 1
      BY DEF SkipPass, EndTracking, RelaxRef, RelaxHyp, ChooseMaps, relaxVars
    <2>3. /\ edits' = edits \/ edits' = edits + current_pos + seqB_track
          /\ lefts' = lefts
      BY DEF SkipPass, EndTracking, RelaxRef, RelaxHyp, ChooseMaps, trackVars
    <2> QED
      BY <2>1, <2>2, <2>3
  <1>6. useMaps' \in BOOLEAN
    <2>1. CASE ChooseMaps
      BY <2>1, Zenon DEF ChooseMaps
    <2>2. CASE ~ChooseMaps
      <3>1. useMaps' = useMaps
        BY <2>2 DEF SkipPass, EndTracking, RelaxRef, RelaxHyp, relaxVars
      <3> QED
        BY <3>1 DEF TypeOK
    <2> QED
      BY <2>1, <2>2
  <1>7. TypeOK'
    BY <1>1, <1>4, <1>5, <1>6 DEF TypeOK, inputVars, rowVars, Row, Columns, Phase
  <1> QED
    BY <1>1, <1>7 DEF Arguments, Tables, Phase

\* One step more than the module's, for the proofs: the three ways of the
\* backtracking are one.
LEMMA StepCases ==
    ASSUME [Next]_vars
    PROVE  \/ StartPass \/ FillRow \/ StartTracking \/ Track
           \/ SkipPass \/ EndTracking \/ RelaxRef \/ RelaxHyp \/ ChooseMaps
           \/ UNCHANGED vars
  BY DEF Next, Step, Track, Finished

LEMMA ShapeStep ==
    ASSUME Shape, [Next]_vars
    PROVE  Shape'
  <1>1. CASE UNCHANGED vars
    BY <1>1 DEF vars, inputVars, rowVars, trackVars, relaxVars, Shape, TypeOK,
                Arguments, Tables, Row, Columns, Swapped
  <1> QED
    BY <1>1, StepCases, StartShape, FillShape, TurnShape, TrackShape, RestShape

\* The types are right whatever the texts are.
THEOREM TypeCorrect == Spec => []TypeOK
  <1>1. Spec => []Shape
    BY InitShape, ShapeStep, PTL DEF Spec
  <1> QED
    BY <1>1, PTL DEF Shape

-----------------------------------------------------------------------------
\* The rows are the distances

Dist == EditDistance(seqA, seqB)

\* The equation of the distances, before a step and after it.
LEMMA DistEquation == seqA \in Seq(Word) /\ seqB \in Seq(Word) => IsDistance(Dist)
  BY EditDistanceDef DEF Dist

LEMMA DistEquationNext ==
    (seqA \in Seq(Word) /\ seqB \in Seq(Word))' => IsDistance(Dist)'
  BY DistEquation, PTL

\* The row that is being filled and those above it.
Rows ==
    /\ phase = "rows" =>
         /\ Smooth(distance)
         /\ \A i \in Columns : distance[i] = Dist[<<i, Len(all_distances)>>]
    /\ phase \in {"rows", "track"} =>
         \A k \in 1..Len(all_distances) :
            \A i \in Columns : all_distances[k][i] = Dist[<<i, k - 1>>]

\* The row for one more word of seqB holds the distances to one more word.
LEMMA NextRowDistances ==
    ASSUME seqA \in Seq(Word), seqB \in Seq(Word), NEW row \in Row, Smooth(row),
           NEW k \in 0..(Len(seqB) - 1),
           \A i \in Columns : row[i] = Dist[<<i, k>>]
    PROVE  \A i \in Columns : NextRow(row, seqB[k + 1])[i] = Dist[<<i, k + 1>>]
  <1> DEFINE new == NextRow(row, seqB[k + 1])
             len == Len(seqA)
             S == {i \in 0..len : new[i] = Dist[<<i, k + 1>>]}
  <1>1. /\ len \in Nat /\ k \in Nat /\ k \in 0..Len(seqB) /\ k + 1 \in 0..Len(seqB)
        /\ k + 1 # 0 /\ (k + 1) - 1 = k
    OBVIOUS
  <1>2. /\ IsNextRow(new, row, seqB[k + 1])
        /\ IsTextbookRow(new, row, seqB[k + 1])
    BY NextRowDef, NextRowSmooth
  <1>3. \A i \in 0..len, j \in 0..Len(seqB) :
          Dist[<<i, j>>] = IF i = 0 THEN j
                       ELSE IF j = 0 THEN i
                       ELSE min(Dist[<<i - 1, j>>] + 1, Dist[<<i, j - 1>>] + 1,
                                Dist[<<i - 1, j - 1>>]
                                  + (IF seqA[i] = seqB[j] THEN 0 ELSE 1))
    BY EditDistanceDef DEF IsDistance, Dist
  <1> HIDE DEF new, Dist
  <1>4. 0 \in S
    <2>1. 0 \in 0..len
      BY <1>1
    <2>2. row[0] = k
      BY <1>1, <1>3, <2>1 DEF Columns
    <2>3. Dist[<<0, k + 1>>] = k + 1
      BY <1>1, <1>3, <2>1
    <2> QED
      BY <1>2, <2>1, <2>2, <2>3 DEF IsNextRow
  <1>5. ASSUME NEW i \in Nat, i < len, i \in S
        PROVE  i + 1 \in S
    <2>1. /\ i + 1 \in 1..len /\ i + 1 \in 0..len /\ i \in 0..len
          /\ (i + 1) - 1 = i /\ i + 1 # 0
      BY <1>1, <1>5
    <2> DEFINE p == IF seqA[i + 1] = seqB[k + 1] THEN 0 ELSE 1
    <2>2. new[i + 1] = min(new[i] + 1, row[i + 1] + 1, row[i] + p)
      BY <1>2, <2>1 DEF IsTextbookRow
    <2>3. Dist[<<i + 1, k + 1>>] = min(Dist[<<i, k + 1>>] + 1, Dist[<<i + 1, k>>] + 1, Dist[<<i, k>>] + p)
      BY <1>1, <1>3, <2>1
    <2>4. row[i] = Dist[<<i, k>>] /\ row[i + 1] = Dist[<<i + 1, k>>]
      BY <2>1 DEF Columns
    <2>5. new[i] = Dist[<<i, k + 1>>]
      BY <1>5
    <2> QED
      BY <2>1, <2>2, <2>3, <2>4, <2>5
  <1>6. \A i \in 0..len : i \in S
    <2> HIDE DEF S
    <2> QED
      BY <1>1, <1>4, <1>5, Climb
  <1> QED
    BY <1>6 DEF Columns, new

LEMMA RowsStep ==
    ASSUME Shape, Rows, [Next]_vars
    PROVE  Rows'
  <1>1. CASE StartPass
    <2>1. /\ seqA' \in Seq(Word) /\ seqB' \in Seq(Word) /\ all_distances' = <<>>
          /\ phase' = "rows" /\ distance' = [i \in 0..Len(seqA') |-> i]
      BY <1>1 DEF Shape, TypeOK, Arguments, StartPass
    <2>2. \A i \in 0..Len(seqA') : Dist'[<<i, 0>>] = i
      <3>1. IsDistance(Dist)'
        BY <2>1, DistEquationNext
      <3>2. 0 \in 0..Len(seqB')
        BY <2>1
      <3> QED
        BY <3>1, <3>2 DEF IsDistance
    <2>3. \A i \in 0..Len(seqA') : distance'[i] = i
      BY <2>1
    <2>4. Smooth(distance)'
      BY <2>1 DEF Smooth
    <2> QED
      BY <2>1, <2>2, <2>3, <2>4 DEF Rows, Columns
  <1>2. CASE FillRow
    <2> DEFINE k == Len(all_distances)
    <2>1. /\ phase = "rows" /\ phase' = "rows" /\ UNCHANGED inputVars
          /\ seqA \in Seq(Word) /\ seqB \in Seq(Word) /\ distance \in Row
          /\ k \in 0..(Len(seqB) - 1) /\ k \in Nat
          /\ Smooth(distance) /\ \A i \in Columns : distance[i] = Dist[<<i, k>>]
          /\ distance' = NextRow(distance, seqB[k + 1])
      BY <1>2 DEF Shape, TypeOK, FillRow, Rows
    <2>2. /\ Len(all_distances') = k + 1
          /\ \A j \in 1..(k + 1) :
               all_distances'[j] = IF j = k + 1 THEN distance ELSE all_distances[j]
      BY <1>2 DEF Shape, TypeOK, FillRow
    <2>3. \A i \in Columns : distance'[i] = Dist[<<i, k + 1>>]
      BY <2>1, NextRowDistances
    <2>4. Smooth(distance')
      BY <2>1, NextRowSmooth
    <2>5. Columns' = Columns /\ Dist' = Dist /\ Smooth(distance)'
      BY <2>1, <2>4 DEF Columns, Dist, inputVars, Smooth
    <2>6. \A j \in 1..(k + 1) : \A i \in Columns : all_distances'[j][i] = Dist[<<i, j - 1>>]
      <3>1. ASSUME NEW j \in 1..(k + 1)
            PROVE  \A i \in Columns : all_distances'[j][i] = Dist[<<i, j - 1>>]
        <4>1. CASE j = k + 1
          <5>1. all_distances'[j] = distance /\ j - 1 = k
            BY <2>1, <2>2, <4>1
          <5> QED
            BY <2>1, <5>1 DEF Rows
        <4>2. CASE j # k + 1
          <5>1. j \in 1..k /\ all_distances'[j] = all_distances[j]
            BY <2>1, <2>2, <4>2
          <5> QED
            BY <2>1, <5>1 DEF Rows
        <4> QED
          BY <4>1, <4>2
      <3> QED
        BY <3>1
    <2> QED
      BY <2>1, <2>2, <2>3, <2>5, <2>6 DEF Rows
  <1>3. CASE StartTracking
    <2> DEFINE k == Len(all_distances)
    <2>1. /\ phase = "rows" /\ phase' = "track" /\ UNCHANGED inputVars /\ k \in Nat
      BY <1>3 DEF Shape, TypeOK, StartTracking
    <2>2. /\ Len(all_distances') = k + 1
          /\ \A j \in 1..(k + 1) :
               all_distances'[j] = IF j = k + 1 THEN distance ELSE all_distances[j]
      BY <1>3 DEF Shape, TypeOK, StartTracking
    <2>3. Columns' = Columns /\ Dist' = Dist
      BY <2>1 DEF Columns, Dist, inputVars
    <2>4. \A j \in 1..(k + 1) : \A i \in Columns : all_distances'[j][i] = Dist[<<i, j - 1>>]
      <3>1. ASSUME NEW j \in 1..(k + 1)
            PROVE  \A i \in Columns : all_distances'[j][i] = Dist[<<i, j - 1>>]
        <4>1. CASE j = k + 1
          <5>1. all_distances'[j] = distance /\ j - 1 = k
            BY <2>1, <2>2, <4>1
          <5> QED
            BY <2>1, <5>1 DEF Rows
        <4>2. CASE j # k + 1
          <5>1. j \in 1..k /\ all_distances'[j] = all_distances[j]
            BY <2>1, <2>2, <4>2
          <5> QED
            BY <2>1, <5>1 DEF Rows
        <4> QED
          BY <4>1, <4>2
      <3> QED
        BY <3>1
    <2> QED
      BY <2>1, <2>2, <2>3, <2>4 DEF Rows
  <1>4. CASE Track
    BY <1>4, TrackFacts DEF Rows, Columns, Dist, inputVars
  <1>5. CASE SkipPass \/ EndTracking \/ RelaxRef \/ RelaxHyp \/ ChooseMaps
    BY <1>5 DEF SkipPass, EndTracking, RelaxRef, RelaxHyp, ChooseMaps, Rows
  <1>6. CASE UNCHANGED vars
    BY <1>6 DEF vars, inputVars, rowVars, Rows, Columns, Dist, Smooth
  <1> QED
    BY <1>1, <1>2, <1>3, <1>4, <1>5, <1>6, StepCases

\* Every row, computed in place and with the diagonal taken whenever the words
\* are equal, holds the edit distances between prefixes.
THEOREM RowsHoldDistances == Spec => []RowsAreDistances
  <1>1. Init => Rows
    BY DEF Init, Rows
  <1>2. Rows => RowsAreDistances
    BY DEF Rows, RowsAreDistances, Columns, Dist
  <1> QED
    BY <1>1, <1>2, InitShape, ShapeStep, RowsStep, PTL DEF Spec

-----------------------------------------------------------------------------
\* The edits of the backtracking

\* The edits gone through and those that the table still asks for, together.
Total == edits + Dist[<<current_pos, seqB_track>>]
Shortest == Dist[<<Len(seqA), Len(seqB)>>]

\* They are never fewer than the distance, and more by the steps to the left at
\* most.  Where distance is the row above already, one of these is still to be paid.
EditsSoFar ==
    /\ phase = "rows" => edits = 0 /\ lefts = 0
    /\ phase = "track" =>
         /\ Shortest <= Total /\ Total <= Shortest + lefts
         /\ seqB_track > 0 => \/ distance = all_distances[seqB_track + 1]
                              \/ /\ distance = all_distances[seqB_track]
                                 /\ Total < Shortest + lefts
    /\ EditsNearDistance

\* While backtracking, the whole table of distances is there.
LEMMA TableComplete ==
    ASSUME Shape, Rows, phase = "track"
    PROVE  \A i \in 0..Len(seqA), j \in 0..Len(seqB) :
             /\ Dist[<<i, j>>] \in Nat
             /\ Dist[<<i, j>>] = all_distances[j + 1][i]
             /\ Dist[<<i, j>>] = IF i = 0 THEN j
                                 ELSE IF j = 0 THEN i
                                 ELSE min(Dist[<<i - 1, j>>] + 1, Dist[<<i, j - 1>>] + 1,
                                          Dist[<<i - 1, j - 1>>]
                                            + (IF seqA[i] = seqB[j] THEN 0 ELSE 1))
  <1> SUFFICES ASSUME NEW i \in 0..Len(seqA), NEW j \in 0..Len(seqB)
               PROVE  /\ Dist[<<i, j>>] \in Nat
                      /\ Dist[<<i, j>>] = all_distances[j + 1][i]
    BY DistEquation DEF Shape, TypeOK, IsDistance
  <1>1. j + 1 \in 1..Len(all_distances) /\ (j + 1) - 1 = j
    BY DEF Shape, TypeOK, Tables
  <1>2. all_distances[j + 1][i] = Dist[<<i, j>>]
    BY <1>1 DEF Rows, Columns
  <1>3. all_distances[j + 1] \in Row
    BY <1>1 DEF Shape, TypeOK
  <1> QED
    BY <1>2, <1>3 DEF Row, Columns

\* A distance is never behind that to one word less by more than one.
LEMMA TableSmooth ==
    ASSUME Shape, Rows, phase = "track", NEW j \in 1..Len(seqB)
    PROVE  \A i \in 0..Len(seqA) : Dist[<<i, j - 1>>] <= Dist[<<i, j>>] + 1
  <1> DEFINE len == Len(seqA)
             at(i) == Dist[<<i, j>>]
             up(i) == Dist[<<i, j - 1>>]
             S == {i \in 0..len : up(i) <= at(i) + 1}
  <1>1. len \in Nat /\ j \in 0..Len(seqB) /\ j - 1 \in 0..Len(seqB) /\ j # 0
    BY DEF Shape, TypeOK
  <1>2. \A i \in 0..len : at(i) \in Nat /\ up(i) \in Nat
    BY <1>1, TableComplete
  <1>3. at(0) = j /\ up(0) = j - 1
    <2>1. 0 \in 0..len
      BY <1>1
    <2> QED
      BY <1>1, <2>1, TableComplete
  <1>4. ASSUME NEW i \in 1..len
        PROVE  /\ up(i) <= up(i - 1) + 1
               /\ at(i) = min(at(i - 1) + 1, up(i) + 1,
                             up(i - 1) + (IF seqA[i] = seqB[j] THEN 0 ELSE 1))
    <2>0. i \in 0..len /\ i - 1 \in 0..len /\ i # 0
      BY <1>1
    <2>1. /\ i \in 0..len /\ i - 1 \in 0..len /\ i # 0
          /\ up(i) \in Nat /\ up(i - 1) \in Nat
      BY <1>2, <2>0
    <2>2. /\ at(i) = min(at(i - 1) + 1, up(i) + 1,
                        up(i - 1) + (IF seqA[i] = seqB[j] THEN 0 ELSE 1))
      BY <1>1, <2>1, TableComplete
    <2>3. CASE j - 1 = 0
      <3>1. \A k \in 0..len : Dist[<<k, 0>>] = k
        <4>1. 0 \in 0..Len(seqB)
          BY <1>1
        <4> QED
          BY <4>1, TableComplete
      <3>2. up(i) = i /\ up(i - 1) = i - 1
        BY <2>1, <2>3, <3>1
      <3> QED
        BY <2>1, <2>2, <3>2
    <2>4. CASE j - 1 # 0
      <3> DEFINE d == Dist[<<i, (j - 1) - 1>>]
                 e == Dist[<<i - 1, (j - 1) - 1>>]
                 s == IF seqA[i] = seqB[j - 1] THEN 0 ELSE 1
      <3>1. (j - 1) - 1 \in 0..Len(seqB)
        BY <1>1, <2>4
      <3>2. up(i) = min(up(i - 1) + 1, d + 1, e + s)
        BY <1>1, <2>1, <2>4, TableComplete
      <3>3. d \in Nat /\ e \in Nat /\ s \in Nat
        BY <2>1, <3>1, TableComplete
      <3> DEFINE u == up(i)
                 v == up(i - 1)
      <3> HIDE DEF d, e, s, u, v
      <3>4. u = min(v + 1, d + 1, e + s) /\ v \in Nat
        BY <2>1, <3>2 DEF u, v
      <3>5. u <= v + 1
        BY <3>3, <3>4 DEF min
      <3>6. up(i) <= up(i - 1) + 1
        BY <3>5 DEF u, v
      <3> QED
        BY <2>2, <3>6
    <2> QED
      BY <2>3, <2>4
  <1> HIDE DEF at, up
  <1>5. 0 \in S
    BY <1>1, <1>3
  <1>6. ASSUME NEW k \in Nat, k < len, k \in S
        PROVE  k + 1 \in S
    <2>1. k + 1 \in 1..len /\ k + 1 \in 0..len /\ k \in 0..len /\ (k + 1) - 1 = k
      BY <1>1, <1>6
    <2> DEFINE s == IF seqA[k + 1] = seqB[j] THEN 0 ELSE 1
               c == at(k + 1)
               u == up(k + 1)
               v == up(k)
               h == at(k)
    <2>2. u <= v + 1 /\ c = min(h + 1, u + 1, v + s)
      BY <1>4, <2>1
    <2>3. c \in Nat /\ u \in Nat /\ v \in Nat /\ h \in Nat /\ s \in Nat /\ v <= h + 1
      BY <1>2, <1>6, <2>1
    <2> HIDE DEF s, c, u, v, h
    <2>4. u <= c + 1
      BY <2>2, <2>3 DEF min
    <2> QED
      BY <2>1, <2>4 DEF c, u
  <1>7. \A k \in 0..len : k \in S
    <2> HIDE DEF S
    <2> QED
      BY <1>1, <1>5, <1>6, Climb
  <1> QED
    BY <1>7 DEF at, up

LEMMA EditsStart ==
    ASSUME Shape, Rows, EditsSoFar, StartTracking
    PROVE  EditsSoFar'
  <1>1. Len(seqA) \in Nat /\ Len(seqB) \in Nat /\ Len(seqB) > 0
    BY DEF Shape, TypeOK, Arguments, StartTracking
  <1>2. /\ phase = "rows" /\ phase' = "track" /\ edits' = 0 /\ lefts' = 0
        /\ current_pos' = Len(seqA') /\ seqB_track' = Len(seqB')
        /\ UNCHANGED inputVars /\ distance' = distance
    BY DEF StartTracking, inputVars, EditsSoFar
  <1>3. Shape' /\ Rows'
    BY ShapeStep, RowsStep DEF Next, Step
  <1>4. /\ Len(all_distances') = Len(seqB) + 1
        /\ all_distances'[Len(seqB) + 1] = distance /\ distance \in Row
    BY DEF Shape, TypeOK, StartTracking
  <1>5. Dist'[<<Len(seqA'), Len(seqB')>>] \in Nat
    <2>1. distance[Len(seqA)] \in Nat /\ Len(seqA) \in Columns
      BY <1>1, <1>4 DEF Row, Columns
    <2>2. all_distances'[Len(seqB) + 1][Len(seqA)] = Dist'[<<Len(seqA), Len(seqB)>>]
      BY <1>1, <1>2, <1>3, <1>4, <2>1 DEF Rows, Columns, inputVars
    <2> QED
      BY <1>2, <1>4, <2>1, <2>2 DEF inputVars
  <1>6. Total' = Shortest' /\ Shortest' \in Nat
    BY <1>2, <1>5 DEF Total, Shortest
  <1>7. distance' = all_distances'[seqB_track' + 1]
    BY <1>2, <1>4 DEF inputVars
  <1>8. Shortest' <= Total' /\ Total' <= Shortest' + lefts'
    <2> DEFINE d == Shortest'
    <2>1. d \in Nat /\ Total' = d /\ lefts' = 0
      BY <1>2, <1>6
    <2> HIDE DEF d
    <2>2. d <= d /\ d <= d + 0
      BY <2>1
    <2> QED
      BY <2>1, <2>2 DEF d
  <1>9. phase' # "rows" /\ EditsNearDistance'
    BY <1>2 DEF EditsNearDistance
  <1> QED
    BY <1>7, <1>8, <1>9 DEF EditsSoFar

LEMMA EditsTrack ==
    ASSUME Shape, Rows, EditsSoFar, Track
    PROVE  EditsSoFar'
  <1> DEFINE a == current_pos
             b == seqB_track
             here == Dist[<<a, b>>]
             nwest == Dist[<<a - 1, b - 1>>]
             north == Dist[<<a, b - 1>>]
             left == Dist[<<a - 1, b>>]
             s == IF seqA[a] = seqB[b] THEN 0 ELSE 1
             next == Dist[<<current_pos', seqB_track'>>]
  <1>1. /\ phase = "track" /\ phase' = "track"
        /\ a \in 1..Len(seqA) /\ b \in 1..Len(seqB)
        /\ UNCHANGED <<inputVars, all_distances, relaxVars>> /\ ShiftRows
        /\ Len(seqA) \in Nat /\ Len(seqB) \in Nat /\ edits \in Nat /\ lefts \in Nat
    BY TrackFacts DEF Shape, TypeOK
  <1>2. /\ a \in 0..Len(seqA) /\ a - 1 \in 0..Len(seqA) /\ a # 0
        /\ b \in 0..Len(seqB) /\ b - 1 \in 0..Len(seqB) /\ b # 0
        /\ Len(seqA) \in 0..Len(seqA) /\ Len(seqB) \in 0..Len(seqB)
    BY <1>1
  <1>3. /\ Shortest \in Nat /\ here \in Nat /\ left \in Nat /\ north \in Nat /\ nwest \in Nat
        /\ here = min(left + 1, north + 1, nwest + s)
    <2>1. here = min(left + 1, north + 1, nwest + s)
      BY <1>1, <1>2, TableComplete
    <2>2. /\ here \in Nat /\ left \in Nat /\ north \in Nat /\ nwest \in Nat
          /\ Dist[<<Len(seqA), Len(seqB)>>] \in Nat
      BY <1>1, <1>2, TableComplete
    <2> QED
      BY <2>1, <2>2 DEF Shortest
  <1>4. nwest <= left + 1
    BY <1>1, <1>2, TableSmooth
  <1>5. nw = nwest /\ n = north
    <2>1. distancePrev = all_distances[b]
      BY <1>1 DEF Shape, Tables
    <2>2. (b - 1) + 1 = b
      BY <1>1
    <2>3. /\ Dist[<<a, b - 1>>] = all_distances[(b - 1) + 1][a]
          /\ Dist[<<a - 1, b - 1>>] = all_distances[(b - 1) + 1][a - 1]
      BY <1>1, <1>2, TableComplete
    <2> QED
      BY <2>1, <2>2, <2>3 DEF nw, n
  <1>6. /\ Shortest <= edits + here /\ edits + here <= Shortest + lefts
        /\ \/ w = left
           \/ w = nwest /\ edits + here < Shortest + lefts
    <2>1. /\ Dist[<<a - 1, b>>] = all_distances[b + 1][a - 1]
          /\ Dist[<<a - 1, b - 1>>] = all_distances[(b - 1) + 1][a - 1]
      BY <1>1, <1>2, TableComplete
    <2>2. (b - 1) + 1 = b
      BY <1>1
    <2> QED
      BY <1>1, <2>1, <2>2 DEF EditsSoFar, Total, w
  <1>7. /\ s \in {0, 1} /\ w \in {left, nwest}
    BY <1>6
  <1>8. distance' = all_distances[b] \/ seqB_track' = 0
    BY <1>1 DEF ShiftRows, Shape, Tables
  <1> DEFINE late == IF w = left THEN 0 ELSE 1
             best == min(nw, n, w)
  <1>9. /\ best = nw => here <= nwest + s /\ nwest + s <= here + late
        /\ best # nw /\ best = w => left + 1 = here
        /\ best # nw /\ best # w => here <= north + 1 /\ north + 1 <= here + late
    <2> DEFINE west == w
    <2>1. west \in {left, nwest}
      BY <1>7
    <2> HIDE DEF here, nwest, north, left, s, west
    <2>2. LET bst == min(nwest, north, west)
              lte == IF west = left THEN 0 ELSE 1
          IN  /\ bst = nwest => here <= nwest + s /\ nwest + s <= here + lte
              /\ bst # nwest /\ bst = west => west = left /\ left + 1 = here
              /\ bst # nwest /\ bst # west => here <= north + 1 /\ north + 1 <= here + lte
      BY <1>3, <1>4, <1>7, <2>1 DEF min
    <2> QED
      BY <1>5, <2>2 DEF west
  <1> DEFINE good == /\ Shortest <= edits' + next /\ edits' + next <= Shortest + lefts'
                     /\ seqB_track' > 0 =>
                          \/ distance' = all_distances[seqB_track' + 1]
                          \/ /\ distance' = all_distances[seqB_track']
                             /\ edits' + next < Shortest + lefts'
  <1>10. ASSUME TrackDiagonal PROVE good
    <2>1. /\ current_pos' = a - 1 /\ seqB_track' = b - 1
          /\ edits' = edits + s /\ lefts' = lefts /\ min(nw, n, w) = nw
      BY <1>1, <1>10 DEF TrackDiagonal
    <2>2. next = nwest /\ seqB_track' + 1 = b
      BY <1>1, <2>1
    <2>3. here <= nwest + s /\ nwest + s <= here + late
      <3> HIDE DEF here, nwest, north, left, s
      <3> QED
        BY <1>9, <2>1
    <2>4. distance' = all_distances[seqB_track' + 1] \/ seqB_track' = 0
      BY <1>8, <2>2
    <2> HIDE DEF here, nwest, north, left, s, next, a, b
    <2>5. Shortest <= edits' + next /\ edits' + next <= Shortest + lefts'
      BY <1>1, <1>3, <1>6, <1>7, <2>1, <2>2, <2>3
    <2> QED
      BY <2>4, <2>5
  <1>11. ASSUME TrackLeft PROVE good
    <2>1. /\ current_pos' = a - 1 /\ seqB_track' = b
          /\ edits' = edits + 1 /\ lefts' = lefts + 1
          /\ min(nw, n, w) # nw /\ min(nw, n, w) = w
      BY <1>11 DEF TrackLeft
    <2>2. next = left
      BY <2>1
    <2>3. left + 1 = here
      <3> HIDE DEF here, nwest, north, left, s
      <3> QED
        BY <1>9, <2>1
    <2>4. distance' = all_distances[seqB_track'] \/ seqB_track' = 0
      BY <1>8, <2>1
    <2> HIDE DEF here, nwest, north, left, s, next, a, b
    <2>5. Shortest <= edits' + next /\ edits' + next < Shortest + lefts'
      BY <1>1, <1>3, <1>6, <2>1, <2>2, <2>3
    <2>6. edits' + next <= Shortest + lefts'
      BY <1>1, <1>3, <2>1, <2>2, <2>5
    <2> QED
      BY <2>4, <2>5, <2>6
  <1>12. ASSUME TrackUp PROVE good
    <2>1. /\ current_pos' = a /\ seqB_track' = b - 1
          /\ edits' = edits + 1 /\ lefts' = lefts
          /\ min(nw, n, w) # nw /\ min(nw, n, w) # w
      BY <1>12 DEF TrackUp
    <2>2. next = north /\ seqB_track' + 1 = b
      BY <1>1, <2>1
    <2>3. here <= north + 1 /\ north + 1 <= here + late
      <3> HIDE DEF here, nwest, north, left, s
      <3> QED
        BY <1>9, <2>1
    <2>4. distance' = all_distances[seqB_track' + 1] \/ seqB_track' = 0
      BY <1>8, <2>2
    <2> HIDE DEF here, nwest, north, left, s, next, a, b
    <2>5. Shortest <= edits' + next /\ edits' + next <= Shortest + lefts'
      BY <1>1, <1>3, <1>6, <2>1, <2>2, <2>3
    <2> QED
      BY <2>4, <2>5
  <1>13. good
    BY <1>10, <1>11, <1>12 DEF Track
  <1>14. Total' = edits' + next /\ Shortest' = Shortest /\ all_distances' = all_distances
    BY <1>1 DEF Total, Shortest, Dist, inputVars
  <1> HIDE DEF next
  <1> QED
    BY <1>1, <1>13, <1>14 DEF EditsSoFar, EditsNearDistance

LEMMA EditsEnd ==
    ASSUME Shape, Rows, EditsSoFar, EndTracking
    PROVE  EditsSoFar'
  <1>1. /\ phase = "track" /\ phase' = "relaxRef"
        /\ current_pos \in 0..Len(seqA) /\ seqB_track \in 0..Len(seqB)
        /\ edits \in Nat /\ lefts \in Nat /\ Len(seqA) \in Nat /\ Len(seqB) \in Nat
    BY DEF EndTracking, Shape, TypeOK
  <1>2. /\ edits' = edits + current_pos + seqB_track
        /\ UNCHANGED <<inputVars, all_distances, lefts>>
    BY DEF EndTracking, rowVars
  <1>3. current_pos = 0 \/ seqB_track = 0
    BY <1>1 DEF EndTracking, Tracking
  <1> DEFINE here == Dist[<<current_pos, seqB_track>>]
  <1>4. here = IF current_pos = 0 THEN seqB_track ELSE current_pos
    BY <1>1, <1>3, TableComplete
  <1>5. Len(seqA) \in 0..Len(seqA) /\ Len(seqB) \in 0..Len(seqB)
    BY <1>1
  <1>6. Shortest \in Nat /\ Shortest = all_distances[Len(seqB) + 1][Len(seqA)]
    BY <1>1, <1>5, TableComplete DEF Shortest
  <1>7. Shortest <= edits + here /\ edits + here <= Shortest + lefts
    BY <1>1 DEF EditsSoFar, Total
  <1> HIDE DEF here
  <1>8. edits' = edits + here
    BY <1>1, <1>2, <1>3, <1>4
  <1> QED
    BY <1>1, <1>2, <1>6, <1>7, <1>8 DEF EditsSoFar, EditsNearDistance, inputVars

LEMMA EditsStep ==
    ASSUME Shape, Rows, EditsSoFar, [Next]_vars
    PROVE  EditsSoFar'
  <1>1. CASE StartPass \/ FillRow
    BY <1>1 DEF StartPass, FillRow, Shape, Arguments, EditsSoFar, EditsNearDistance, trackVars
  <1>2. CASE SkipPass \/ RelaxRef \/ RelaxHyp \/ ChooseMaps
    BY <1>2 DEF SkipPass, RelaxRef, RelaxHyp, ChooseMaps, EditsSoFar, EditsNearDistance,
                inputVars, rowVars, trackVars
  <1>3. CASE UNCHANGED vars
    BY <1>3 DEF vars, inputVars, rowVars, trackVars, EditsSoFar, EditsNearDistance, Total,
                Shortest, Dist
  <1> QED
    BY <1>1, <1>2, <1>3, EditsStart, EditsTrack, EditsEnd, StepCases

\* The edits that the backtracking goes through are those of a shortest path, and
\* one more at most for each step to the left: that is what reading the wrong row
\* behind such a step can cost.
THEOREM BacktrackingNearShortest == Spec => []EditsNearDistance
  <1>1. Init => Rows /\ EditsSoFar
    BY DEF Init, Rows, EditsSoFar, EditsNearDistance
  <1>2. EditsSoFar => EditsNearDistance
    BY DEF EditsSoFar
  <1> QED
    BY <1>1, <1>2, InitShape, ShapeStep, RowsStep, EditsStep, PTL DEF Spec

-----------------------------------------------------------------------------
\* The relaxed map

\* The loops have relaxed the positions they have passed, of the maps that the
\* backtracking has left.
Passed ==
    /\ phase = "start" => refMap = <<>> /\ hypMap = <<>>
    /\ phase = "relaxRef" =>
         /\ x > 0 /\ (x = 1 \/ x <= Len(RefMarks) - 1)
         /\ refMap = Relaxed(RefMarks, x) /\ hypMap = HypMarks
    /\ phase = "relaxHyp" =>
         /\ x > 0 /\ (x = 1 \/ x <= Len(HypMarks) - 2)
         /\ refMap = Relaxed(RefMarks, Len(RefMarks) - 1) /\ hypMap = Relaxed(HypMarks, x)
    /\ phase \in {"choose", "done"} =>
         /\ refMap = Relaxed(RefMarks, Len(RefMarks) - 1)
         /\ hypMap = Relaxed(HypMarks, Len(HypMarks) - 2)

\* A relaxed map is a map, and with nothing to relax it is the same.
LEMMA RelaxedType ==
    ASSUME NEW map \in Map, NEW last \in Int
    PROVE  /\ Relaxed(map, last) \in Map /\ Len(Relaxed(map, last)) = Len(map)
           /\ \A i \in 1..Len(map) :
                Relaxed(map, last)[i] = IF i \in 2..last /\ map[i - 1] < 0 /\ map[i + 1] < 0
                                        THEN -1 ELSE map[i]
  BY DEF Relaxed, Map

LEMMA NoneRelaxed ==
    ASSUME NEW map \in Map, NEW last \in Int, last < 2
    PROVE  Relaxed(map, last) = map
  BY RelaxedType DEF Map

\* One iteration, which reads a neighbour that it may have relaxed before: that one
\* was behind an error, so that there is nothing left to take away.
LEMMA RelaxOne ==
    ASSUME NEW map \in Map, x \in Nat, x > 0, x < Len(map) - 1
    PROVE  /\ (IF Relaxed(map, x)[x] < 0 /\ Relaxed(map, x)[x + 2] < 0
               THEN [Relaxed(map, x) EXCEPT ![x + 1] = -1] ELSE Relaxed(map, x))
                 = Relaxed(map, x + 1)
  <1> DEFINE r == Relaxed(map, x)
             q == Relaxed(map, x + 1)
             n1 == IF r[x] < 0 /\ r[x + 2] < 0 THEN [r EXCEPT ![x + 1] = -1] ELSE r
  <1>1. /\ Len(map) \in Nat /\ x \in 1..Len(map) /\ x + 1 \in 1..Len(map)
        /\ x + 2 \in 1..Len(map) /\ x + 1 \in 2..(x + 1) /\ (x + 1) - 1 = x
        /\ (x + 1) + 1 = x + 2 /\ x + 1 \notin 2..x /\ x + 2 \notin 2..x
    BY DEF Map
  <1>2. \A i \in 1..Len(map) : map[i] \in {-1, 1}
    BY DEF Map
  <1>3. /\ r \in Map /\ Len(r) = Len(map)
        /\ \A i \in 1..Len(map) :
             r[i] = IF i \in 2..x /\ map[i - 1] < 0 /\ map[i + 1] < 0 THEN -1 ELSE map[i]
    BY RelaxedType
  <1>4. /\ q \in Map /\ Len(q) = Len(map)
        /\ \A i \in 1..Len(map) :
             q[i] = IF i \in 2..(x + 1) /\ map[i - 1] < 0 /\ map[i + 1] < 0
                    THEN -1 ELSE map[i]
    BY RelaxedType
  <1> HIDE DEF r, q
  <1>5. /\ n1 \in Map /\ Len(n1) = Len(map)
        /\ \A i \in 1..Len(map) :
             n1[i] = IF i = x + 1 /\ r[x] < 0 /\ r[x + 2] < 0 THEN -1 ELSE r[i]
    <2>1. CASE r[x] < 0 /\ r[x + 2] < 0
      <3>1. n1 = [r EXCEPT ![x + 1] = -1] /\ x + 1 \in 1..Len(r) /\ -1 \in {-1, 1}
        BY <1>1, <1>3, <2>1
      <3> HIDE DEF n1
      <3>2. /\ n1 \in Map /\ Len(n1) = Len(map)
            /\ \A i \in 1..Len(map) : n1[i] = IF i = x + 1 THEN -1 ELSE r[i]
        <4> DEFINE k == x + 1
        <4>1. k \in 1..Len(r) /\ n1 = [r EXCEPT ![k] = -1]
          BY <3>1
        <4> HIDE DEF k
        <4>2. /\ n1 \in Map /\ Len(n1) = Len(r)
              /\ \A i \in 1..Len(r) : n1[i] = IF i = k THEN -1 ELSE r[i]
          BY <1>3, <4>1 DEF Map
        <4> QED
          BY <1>3, <4>2 DEF k
      <3> QED
        BY <2>1, <3>1, <3>2
    <2>2. CASE ~(r[x] < 0 /\ r[x + 2] < 0)
      BY <1>3, <2>2
    <2> QED
      BY <2>1, <2>2
  <1> HIDE DEF n1
  <1>6. n1[x + 1] = q[x + 1]
    <2>1. r[x + 1] = map[x + 1] /\ r[x + 2] = map[x + 2]
      BY <1>1, <1>3
    <2>2. q[x + 1] = IF map[x] < 0 /\ map[x + 2] < 0 THEN -1 ELSE map[x + 1]
      BY <1>1, <1>4
    <2>3. n1[x + 1] = IF r[x] < 0 /\ map[x + 2] < 0 THEN -1 ELSE map[x + 1]
      BY <1>1, <1>5, <2>1
    <2>4. CASE r[x] = map[x]
      BY <2>2, <2>3, <2>4
    <2>5. CASE r[x] # map[x]
      <3>1. map[x + 1] < 0
        BY <1>1, <1>3, <2>5
      <3>2. map[x + 1] = -1
        BY <1>1, <1>2, <3>1
      <3> QED
        BY <2>2, <2>3, <3>2
    <2> QED
      BY <2>4, <2>5
  <1>7. ASSUME NEW i \in 1..Len(map), i # x + 1
        PROVE  n1[i] = q[i]
    <2>1. n1[i] = r[i]
      BY <1>5, <1>7
    <2>2. i \in 2..x <=> i \in 2..(x + 1)
      BY <1>7
    <2> QED
      BY <1>3, <1>4, <2>1, <2>2
  <1>8. n1 = q
    BY <1>4, <1>5, <1>6, <1>7 DEF Map
  <1> QED
    BY <1>8 DEF n1, r, q

\* When a loop ends it has passed all it is to pass.
LEMMA RelaxAll ==
    ASSUME NEW map \in Map, NEW last \in Int, x \in Nat,
           x = 1 \/ x <= last, ~(x < last)
    PROVE  Relaxed(map, x) = Relaxed(map, last)
  <1>1. CASE x = last
    BY <1>1
  <1>2. CASE x # last
    <2>1. x < 2 /\ last < 2
      BY <1>2
    <2> QED
      BY <2>1, NoneRelaxed
  <1> QED
    BY <1>1, <1>2

LEMMA MarksType ==
    ASSUME Shape
    PROVE  RefMarks \in Map /\ HypMarks \in Map
  BY DEF Shape, TypeOK, RefMarks, HypMarks

LEMMA RelaxPasses ==
    ASSUME Shape, Passed, RelaxRef \/ RelaxHyp
    PROVE  Passed'
  <1> DEFINE rm == RefMarks
             hm == HypMarks
  <1>1. /\ rm \in Map /\ hm \in Map /\ x \in Nat
        /\ Len(rm) \in Nat /\ Len(hm) \in Nat
    BY MarksType DEF Shape, TypeOK, Map
  <1>2. rm' = rm /\ hm' = hm
    BY DEF RelaxRef, RelaxHyp, RefMarks, HypMarks, Swapped, inputVars, trackVars
  <1> HIDE DEF rm, hm
  <1>3. CASE RelaxRef
    <2>1. /\ phase = "relaxRef" /\ x > 0 /\ (x = 1 \/ x <= Len(rm) - 1)
          /\ refMap = Relaxed(rm, x) /\ hypMap = hm /\ hypMap' = hypMap
          /\ Len(refMap) = Len(rm)
      BY <1>1, <1>3, RelaxedType DEF RelaxRef, Passed, rm, hm
    <2>2. CASE x < Len(refMap) - 1
      <3>1. refMap' = Relaxed(rm, x + 1)
        BY <1>1, <1>3, <2>1, <2>2, RelaxOne DEF RelaxRef, RelaxAt
      <3>2. phase' = "relaxRef" /\ x' = x + 1
        BY <1>3, <2>2 DEF RelaxRef
      <3>3. x' > 0 /\ x' <= Len(rm) - 1
        BY <1>1, <2>1, <2>2, <3>2
      <3> QED
        BY <1>2, <2>1, <3>1, <3>2, <3>3 DEF Passed, rm, hm
    <2>3. CASE ~(x < Len(refMap) - 1)
      <3>1. phase' = "relaxHyp" /\ x' = 1 /\ refMap' = refMap
        BY <1>3, <2>3 DEF RelaxRef
      <3>2. refMap = Relaxed(rm, Len(rm) - 1)
        BY <1>1, <2>1, <2>3, RelaxAll
      <3>3. hypMap = Relaxed(hm, 1)
        BY <1>1, <2>1, NoneRelaxed
      <3> QED
        BY <1>2, <2>1, <3>1, <3>2, <3>3 DEF Passed, rm, hm
    <2> QED
      BY <2>2, <2>3
  <1>4. CASE RelaxHyp
    <2>1. /\ phase = "relaxHyp" /\ x > 0 /\ (x = 1 \/ x <= Len(hm) - 2)
          /\ hypMap = Relaxed(hm, x) /\ refMap = Relaxed(rm, Len(rm) - 1) /\ refMap' = refMap
          /\ Len(hypMap) = Len(hm)
      BY <1>1, <1>4, RelaxedType DEF RelaxHyp, Passed, rm, hm
    <2>2. CASE x < Len(hypMap) - 2
      <3>0. x < Len(hm) - 1
        BY <1>1, <2>1, <2>2
      <3>1. hypMap' = Relaxed(hm, x + 1)
        BY <1>1, <1>4, <2>1, <2>2, <3>0, RelaxOne DEF RelaxHyp, RelaxAt
      <3>2. phase' = "relaxHyp" /\ x' = x + 1
        BY <1>4, <2>2 DEF RelaxHyp
      <3>3. x' > 0 /\ x' <= Len(hm) - 2
        BY <1>1, <2>1, <2>2, <3>2
      <3> QED
        BY <1>2, <2>1, <3>1, <3>2, <3>3 DEF Passed, rm, hm
    <2>3. CASE ~(x < Len(hypMap) - 2)
      <3>1. phase' = "choose" /\ hypMap' = hypMap
        BY <1>4, <2>3 DEF RelaxHyp
      <3>2. hypMap = Relaxed(hm, Len(hm) - 2)
        BY <1>1, <2>1, <2>3, RelaxAll
      <3> QED
        BY <1>2, <2>1, <3>1, <3>2 DEF Passed, rm, hm
    <2> QED
      BY <2>2, <2>3
  <1> QED
    BY <1>3, <1>4

LEMMA PassedStep ==
    ASSUME Shape, Passed, [Next]_vars
    PROVE  Passed'
  <1>1. CASE RelaxRef \/ RelaxHyp
    BY <1>1, RelaxPasses
  <1>2. CASE EndTracking
    <2>1. /\ phase' = "relaxRef" /\ x' = 1 /\ refMap' = RefMarks /\ hypMap' = HypMarks
          /\ RefMarks' = RefMarks /\ HypMarks' = HypMarks
      BY <1>2 DEF EndTracking, RefMarks, HypMarks, Swapped, inputVars
    <2>2. Relaxed(RefMarks, 1) = RefMarks
      BY MarksType, NoneRelaxed
    <2> QED
      BY <2>1, <2>2 DEF Passed
  <1>3. CASE SkipPass
    <2>1. /\ phase = "start" /\ phase' = "choose" /\ refMap' = <<>> /\ hypMap' = <<>>
          /\ RefMarks' = RefMarks /\ HypMarks' = HypMarks
      BY <1>3 DEF SkipPass, Passed, relaxVars, RefMarks, HypMarks, Swapped, inputVars, trackVars
    <2>2. RefMarks = <<>> /\ HypMarks = <<>>
      <3>1. \A map \in Map : Len(map) = 0 => map = <<>>
        BY DEF Map
      <3>2. /\ seqA = <<>> /\ seqB = <<>> /\ mapA \in Map /\ mapB \in Map
            /\ Len(mapA) = Len(seqA) /\ Len(mapB) = Len(seqB)
        BY <2>1 DEF Shape, TypeOK, Arguments
      <3> QED
        BY <3>1, <3>2 DEF RefMarks, HypMarks
    <2>3. <<>> \in Map /\ Len(<<>>) = 0
      BY DEF Map
    <2>4. Relaxed(<<>>, 0 - 1) = <<>> /\ Relaxed(<<>>, 0 - 2) = <<>>
      BY <2>3, NoneRelaxed
    <2> QED
      BY <2>1, <2>2, <2>3, <2>4 DEF Passed
  <1>4. CASE ChooseMaps
    BY <1>4 DEF ChooseMaps, Passed, RefMarks, HypMarks, Swapped, inputVars, trackVars
  <1>5. CASE StartPass \/ FillRow \/ StartTracking \/ Track
    <2>1. phase' \in {"rows", "track"}
      BY <1>5, TrackFacts DEF StartPass, FillRow, StartTracking
    <2> QED
      BY <2>1 DEF Passed
  <1>6. CASE UNCHANGED vars
    BY <1>6 DEF vars, relaxVars, trackVars, inputVars, Passed, RefMarks, HypMarks, Swapped
  <1> QED
    BY <1>1, <1>2, <1>3, <1>4, <1>5, <1>6, StepCases

\* The loops over both maps, which write to what they read, take away the matches
\* between two errors of the map they were given, and no others.
THEOREM IsolatedMatchesAreRelaxed == Spec => []RelaxedAtOnce
  <1>1. Init => Passed
    BY DEF Init, Passed
  <1>2. Shape /\ Passed => RelaxedAtOnce
    <2> SUFFICES ASSUME Shape, Passed, phase = "done"
                 PROVE  /\ refMap = Relaxed(RefMarks, Len(refMap) - 1)
                        /\ hypMap = Relaxed(HypMarks, Len(hypMap) - 2)
      BY DEF RelaxedAtOnce
    <2>1. /\ RefMarks \in Map /\ Len(RefMarks) - 1 \in Int
          /\ HypMarks \in Map /\ Len(HypMarks) - 2 \in Int
      BY MarksType DEF Map
    <2>2. Len(refMap) = Len(RefMarks) /\ Len(hypMap) = Len(HypMarks)
      BY <2>1, RelaxedType DEF Passed
    <2> QED
      BY <2>2 DEF Passed
  <1> QED
    BY <1>1, <1>2, InitShape, ShapeStep, PassedStep, PTL DEF Spec

-----------------------------------------------------------------------------
\* The two maps mark the same words

\* m[i] holds the words marked among the first i.
IsMarked(m, s, map) ==
    /\ m \in [0..Len(s) -> Seq(Word)]
    /\ m[0] = <<>>
    /\ \A i \in 1..Len(s) :
         m[i] = IF map[i] > 0 THEN Append(m[i - 1], s[i]) ELSE m[i - 1]

LEMMA MarkedDef ==
    ASSUME NEW s \in Seq(Word), NEW map
    PROVE  \E m : IsMarked(m, s, map) /\ Marked(s, map) = m[Len(s)]
  <1> DEFINE len == Len(s)
             Longer(v, i) == IF map[i] > 0 THEN Append(v, s[i]) ELSE v
             V == Seq(Word)
             g == [i \in 1..len |-> [v \in V |-> Longer(v, i)]]
             Eq(m) == m = [i \in 0..len |->
                             IF i = 0 THEN <<>> ELSE Longer(m[i - 1], i)]
             me == CHOOSE m : Eq(m)
  <1>1. len \in Nat /\ <<>> \in V
    OBVIOUS
  <1>2. ASSUME NEW i \in 1..len, NEW v \in V
        PROVE  Longer(v, i) \in V
    OBVIOUS
  <1>3. AreSteps(g, len, V)
    <2> HIDE DEF Longer, V, len
    <2> QED
      BY <1>2 DEF AreSteps
  <1>4. PICK f : IsRun(f, g, len, V, <<>>)
    <2> HIDE DEF g, V, len
    <2> QED
      BY <1>1, <1>3, Iterate
  <1>5. /\ f \in [0..len -> V] /\ f[0] = <<>>
        /\ \A i \in 1..len : f[i - 1] \in V /\ f[i] = Longer(f[i - 1], i)
    <2>1. /\ f \in [0..len -> V] /\ f[0] = <<>>
          /\ \A i \in 1..len : f[i] = g[i][f[i - 1]]
      BY <1>4 DEF IsRun
    <2>2. \A i \in 1..len : i - 1 \in 0..len
      BY <1>1
    <2> HIDE DEF Longer, V, len
    <2> QED
      BY <2>1, <2>2
  <1>6. Eq(f)
    <2> HIDE DEF Longer, V, len
    <2> QED
      BY <1>5
  <1>7. Eq(me)
    <2> HIDE DEF Eq
    <2> QED
      BY <1>6
  <1>8. Marked(s, map) = me[len]
    BY DEF Marked
  <1> HIDE DEF me
  <1>9. /\ me = [i \in 0..len |-> me[i]] /\ me[0] = <<>>
        /\ \A i \in 1..len : me[i] = Longer(me[i - 1], i)
    <2>1. 0 \in 0..len /\ \A i \in 1..len : i \in 0..len /\ i # 0
      BY <1>1
    <2> HIDE DEF Longer, len
    <2> QED
      BY <1>7, <2>1
  <1>10. \A k \in 0..len : k \in {i \in 0..len : me[i] \in V}
    <2> DEFINE S == {i \in 0..len : me[i] \in V}
    <2> HIDE DEF Longer, V
    <2>1. 0 \in S
      BY <1>1, <1>9
    <2>2. ASSUME NEW k \in Nat, k < len, k \in S
          PROVE  k + 1 \in S
      <3>1. k + 1 \in 1..len /\ k + 1 \in 0..len /\ (k + 1) - 1 = k /\ me[k] \in V
        BY <1>1, <2>2
      <3> QED
        BY <1>2, <1>9, <3>1
    <2> HIDE DEF S
    <2>3. \A k \in 0..len : k \in S
      BY <1>1, <2>1, <2>2, Climb
    <2> QED
      BY <2>3 DEF S
  <1>11. IsMarked(me, s, map)
    BY <1>9, <1>10 DEF IsMarked
  <1> QED
    BY <1>8, <1>11

\* M pairs the marked positions of s with those of t, in order and word by word.
Pairing(M, s, ms, t, mt) ==
    /\ \A e \in M : /\ e = <<e[1], e[2]>>
                    /\ e[1] \in 1..Len(s) /\ ms[e[1]] > 0
                    /\ e[2] \in 1..Len(t) /\ mt[e[2]] > 0
                    /\ s[e[1]] = t[e[2]]
    /\ \A i \in 1..Len(s) : ms[i] > 0 => \E j \in 1..Len(t) : <<i, j>> \in M
    /\ \A j \in 1..Len(t) : mt[j] > 0 => \E i \in 1..Len(s) : <<i, j>> \in M
    /\ \A e, o \in M : e[1] < o[1] <=> e[2] < o[2]

\* Positions that can be paired mark the same words.
LEMMA PairedMarksAgree ==
    ASSUME NEW s \in Seq(Word), NEW t \in Seq(Word), NEW ms, NEW mt,
           NEW M, Pairing(M, s, ms, t, mt)
    PROVE  Marked(s, ms) = Marked(t, mt)
  <1>1. PICK m : IsMarked(m, s, ms) /\ Marked(s, ms) = m[Len(s)]
    BY MarkedDef
  <1>2. PICK k : IsMarked(k, t, mt) /\ Marked(t, mt) = k[Len(t)]
    BY MarkedDef
  <1> DEFINE A == 0..Len(s)
             B == 0..Len(t)
             total == Len(s) + Len(t)
             Closed(a, b) == \A e \in M : e[1] <= a <=> e[2] <= b
             S == {c \in 0..total :
                     \A a \in A, b \in B : a + b <= c /\ Closed(a, b) => m[a] = k[b]}
  <1>3. Len(s) \in Nat /\ Len(t) \in Nat /\ total \in Nat
    OBVIOUS
  <1>4. \A e \in M : e[1] \in 1..Len(s) /\ e[2] \in 1..Len(t)
    BY DEF Pairing
  <1>5. 0 \in S
    <2>1. \A a \in A, b \in B : a + b <= 0 => a = 0 /\ b = 0
      BY <1>3
    <2>2. m[0] = k[0]
      BY <1>1, <1>2 DEF IsMarked
    <2> QED
      BY <1>3, <2>1, <2>2
  <1>6. ASSUME NEW c \in Nat, c < total, c \in S
        PROVE  c + 1 \in S
    <2>1. \A a \in A, b \in B : a + b <= c /\ Closed(a, b) => m[a] = k[b]
      BY <1>6
    <2> SUFFICES ASSUME NEW a \in A, NEW b \in B, a + b <= c + 1, Closed(a, b)
                 PROVE  m[a] = k[b]
      BY <1>3, <1>6
    <2>2. CASE a > 0 /\ ~(ms[a] > 0)
      <3>1. a - 1 \in A /\ a \in 1..Len(s) /\ (a - 1) + b <= c
        BY <1>3, <2>2
      <3>2. \A e \in M : e[1] # a
        BY <2>2 DEF Pairing
      <3>3. Closed(a - 1, b)
        BY <1>3, <1>4, <3>1, <3>2
      <3>4. m[a] = m[a - 1]
        BY <1>1, <2>2, <3>1 DEF IsMarked
      <3> QED
        BY <2>1, <3>1, <3>3, <3>4
    <2>3. CASE b > 0 /\ ~(mt[b] > 0)
      <3>1. b - 1 \in B /\ b \in 1..Len(t) /\ a + (b - 1) <= c
        BY <1>3, <2>3
      <3>2. \A e \in M : e[2] # b
        BY <2>3 DEF Pairing
      <3>3. Closed(a, b - 1)
        BY <1>3, <1>4, <3>1, <3>2
      <3>4. k[b] = k[b - 1]
        BY <1>2, <2>3, <3>1 DEF IsMarked
      <3> QED
        BY <2>1, <3>1, <3>3, <3>4
    <2>4. CASE a > 0 /\ ms[a] > 0 /\ b > 0 /\ mt[b] > 0
      <3>1. /\ a \in 1..Len(s) /\ a - 1 \in A /\ b \in 1..Len(t) /\ b - 1 \in B
            /\ (a - 1) + (b - 1) <= c
        BY <1>3, <1>6, <2>4
      <3>2. PICK j \in 1..Len(t) : <<a, j>> \in M
        BY <2>4, <3>1 DEF Pairing
      <3>3. PICK i \in 1..Len(s) : <<i, b>> \in M
        BY <2>4, <3>1 DEF Pairing
      <3>4. j <= b /\ i <= a
        BY <3>1, <3>2, <3>3
      <3>5. a < i <=> j < b
        BY <3>2, <3>3 DEF Pairing
      <3>6. j = b
        BY <3>1, <3>4, <3>5
      <3>7. Closed(a - 1, b - 1)
        <4> SUFFICES ASSUME NEW e \in M
                     PROVE  e[1] <= a - 1 <=> e[2] <= b - 1
          OBVIOUS
        <4>1. e[1] < a <=> e[2] < b
          BY <3>2, <3>6 DEF Pairing
        <4> QED
          BY <1>4, <3>1, <4>1
      <3>8. s[a] = t[b]
        BY <3>2, <3>6 DEF Pairing
      <3>9. m[a - 1] = k[b - 1]
        BY <2>1, <3>1, <3>7
      <3>10. m[a] = Append(m[a - 1], s[a]) /\ k[b] = Append(k[b - 1], t[b])
        BY <1>1, <1>2, <2>4, <3>1 DEF IsMarked
      <3> QED
        BY <3>8, <3>9, <3>10
    <2>5. CASE a = 0 /\ b > 0 /\ mt[b] > 0
      <3>1. PICK i \in 1..Len(s) : <<i, b>> \in M
        <4>1. b \in 1..Len(t)
          BY <1>3, <2>5
        <4> QED
          BY <2>5, <4>1 DEF Pairing
      <3> QED
        BY <2>5, <3>1
    <2>6. CASE b = 0 /\ a > 0 /\ ms[a] > 0
      <3>1. PICK j \in 1..Len(t) : <<a, j>> \in M
        <4>1. a \in 1..Len(s)
          BY <1>3, <2>6
        <4> QED
          BY <2>6, <4>1 DEF Pairing
      <3> QED
        BY <2>6, <3>1
    <2>7. CASE a = 0 /\ b = 0
      BY <1>1, <1>2, <2>7 DEF IsMarked
    <2>8. /\ a = 0 \/ a > 0
          /\ b = 0 \/ b > 0
      BY <1>3
    <2> QED
      BY <2>2, <2>3, <2>4, <2>5, <2>6, <2>7, <2>8
  <1>7. \A c \in 0..total : c \in S
    <2> HIDE DEF S, total
    <2> QED
      BY <1>3, <1>5, <1>6, Climb
  <1>8. total \in S
    BY <1>3, <1>7
  <1>9. Closed(Len(s), Len(t))
    BY <1>4
  <1>10. m[Len(s)] = k[Len(t)]
    BY <1>3, <1>8, <1>9
  <1> QED
    BY <1>1, <1>2, <1>10

\* The marks can be paired as long as the backtracking sets them, which makes the
\* maps agree when it is done.
Paired ==
    /\ phase = "track" => \E M : Pairing(M, seqA, mapA, seqB, mapB)
    /\ MarksAgree

\* A match is marked before all the others.
LEMMA MatchPaired ==
    ASSUME Shape, NEW M, Pairing(M, seqA, mapA, seqB, mapB),
           TrackDiagonal, seqA[current_pos] = seqB[seqB_track]
    PROVE  Pairing(M \cup {<<current_pos, seqB_track>>}, seqA, mapA', seqB, mapB')
  <1> DEFINE a == current_pos
             b == seqB_track
             N == M \cup {<<a, b>>}
  <1>1. /\ a \in 1..Len(seqA) /\ b \in 1..Len(seqB)
        /\ mapA \in Map /\ Len(mapA) = Len(seqA) /\ mapB \in Map /\ Len(mapB) = Len(seqB)
        /\ Len(seqA) \in Nat /\ Len(seqB) \in Nat
        /\ \A i \in 1..a : mapA[i] = -1
        /\ \A j \in 1..b : mapB[j] = -1
    BY TrackFacts DEF Track, Shape, TypeOK, Tables
  <1>2. \A i \in 1..Len(seqA) : mapA'[i] = IF i = a THEN 1 ELSE mapA[i]
    <2>1. mapA' = [mapA EXCEPT ![a] = 1]
      BY DEF TrackDiagonal
    <2> QED
      BY <1>1, <2>1, MarkType
  <1>3. \A j \in 1..Len(seqB) : mapB'[j] = IF j = b THEN 1 ELSE mapB[j]
    <2>1. mapB' = [mapB EXCEPT ![b] = 1]
      BY DEF TrackDiagonal
    <2> QED
      BY <1>1, <2>1, MarkType
  <1>4. \A e \in M : /\ e[1] \in 1..Len(seqA) /\ e[2] \in 1..Len(seqB)
                     /\ a < e[1] /\ b < e[2]
    BY <1>1 DEF Pairing
  <1> HIDE DEF a, b
  <1>5. \A e \in N : /\ e = <<e[1], e[2]>>
                     /\ e[1] \in 1..Len(seqA) /\ mapA'[e[1]] > 0
                     /\ e[2] \in 1..Len(seqB) /\ mapB'[e[2]] > 0
                     /\ seqA[e[1]] = seqB[e[2]]
    <2>1. ASSUME NEW e \in M
          PROVE  /\ e = <<e[1], e[2]>>
                 /\ e[1] \in 1..Len(seqA) /\ mapA'[e[1]] > 0
                 /\ e[2] \in 1..Len(seqB) /\ mapB'[e[2]] > 0
                 /\ seqA[e[1]] = seqB[e[2]]
      BY <1>1, <1>2, <1>3, <1>4 DEF Pairing
    <2>2. seqA[a] = seqB[b]
      BY DEF a, b
    <2> QED
      BY <1>1, <1>2, <1>3, <2>1, <2>2
  <1>6. ASSUME NEW i \in 1..Len(seqA), mapA'[i] > 0
        PROVE  \E j \in 1..Len(seqB) : <<i, j>> \in N
    BY <1>1, <1>2, <1>6 DEF Pairing
  <1>7. ASSUME NEW j \in 1..Len(seqB), mapB'[j] > 0
        PROVE  \E i \in 1..Len(seqA) : <<i, j>> \in N
    BY <1>1, <1>3, <1>7 DEF Pairing
  <1>8. ASSUME NEW e \in N, NEW o \in N
        PROVE  e[1] < o[1] <=> e[2] < o[2]
    <2>1. CASE e \in M /\ o \in M
      BY <2>1 DEF Pairing
    <2>2. CASE e = <<a, b>> /\ o \in M
      BY <1>4, <2>2
    <2>3. CASE e \in M /\ o = <<a, b>>
      BY <1>1, <1>4, <2>3
    <2>4. CASE e = <<a, b>> /\ o = <<a, b>>
      BY <1>1, <2>4
    <2> QED
      BY <2>1, <2>2, <2>3, <2>4
  <1> HIDE DEF N
  <1>9. Pairing(N, seqA, mapA', seqB, mapB')
    BY <1>5, <1>6, <1>7, <1>8 DEF Pairing
  <1> QED
    BY <1>9 DEF N, a, b

LEMMA PairedStep ==
    ASSUME Shape, Passed, Paired, [Next]_vars
    PROVE  Paired'
  <1>1. CASE StartTracking
    <2>1. /\ phase' = "track"
          /\ UNCHANGED <<seqA, seqB, mapA, mapB>>
          /\ \A i \in 1..Len(seqA) : mapA[i] = -1
          /\ \A j \in 1..Len(seqB) : mapB[j] = -1
      BY <1>1 DEF StartTracking, Shape, Tables, inputVars
    <2>2. Pairing({}, seqA, mapA, seqB, mapB)
      BY <2>1 DEF Pairing
    <2> QED
      BY <2>1, <2>2 DEF Paired, MarksAgree
  <1>2. CASE Track
    <2>1. phase = "track" /\ phase' = "track" /\ UNCHANGED <<seqA, seqB>>
      BY <1>2, TrackFacts DEF inputVars
    <2>2. PICK M : Pairing(M, seqA, mapA, seqB, mapB)
      BY <2>1 DEF Paired
    <2>3. CASE TrackDiagonal /\ seqA[current_pos] = seqB[seqB_track]
      BY <2>1, <2>2, <2>3, MatchPaired DEF Paired, MarksAgree
    <2>4. CASE ~(TrackDiagonal /\ seqA[current_pos] = seqB[seqB_track])
      <3>1. UNCHANGED <<mapA, mapB>>
        BY <1>2, <2>4 DEF Track, TrackDiagonal, TrackLeft, TrackUp
      <3> QED
        BY <2>1, <2>2, <3>1 DEF Paired, MarksAgree
    <2> QED
      BY <2>3, <2>4
  <1>3. CASE EndTracking
    <2>1. /\ phase = "track" /\ phase' = "relaxRef" /\ UNCHANGED inputVars
          /\ refMap' = IF Swapped THEN mapB ELSE mapA
          /\ hypMap' = IF Swapped THEN mapA ELSE mapB
      BY <1>3 DEF EndTracking
    <2>2. /\ seqA = IF Swapped THEN hyp ELSE ref
          /\ seqB = IF Swapped THEN ref ELSE hyp
          /\ seqA \in Seq(Word) /\ seqB \in Seq(Word)
      BY <2>1 DEF Shape, Arguments, TypeOK
    <2>3. Marked(seqA, mapA) = Marked(seqB, mapB)
      BY <2>1, <2>2, PairedMarksAgree DEF Paired
    <2>4. Marked(ref, refMap') = Marked(hyp, hypMap')
      BY <2>1, <2>2, <2>3
    <2> QED
      BY <2>1, <2>4 DEF Paired, MarksAgree, inputVars
  <1>4. CASE RelaxRef
    <2>1. x > 0 /\ x \in Nat /\ (phase' # "relaxRef" \/ x' = x + 1)
      BY <1>4 DEF RelaxRef, Passed, Shape, TypeOK
    <2>2. phase' # "track"
      BY <1>4 DEF RelaxRef
    <2> QED
      BY <2>1, <2>2 DEF Paired, MarksAgree
  <1>5. CASE StartPass \/ FillRow \/ SkipPass \/ RelaxHyp \/ ChooseMaps
    <2>1. phase' \notin {"track", "relaxRef"}
      BY <1>5 DEF StartPass, FillRow, SkipPass, RelaxHyp, ChooseMaps
    <2> QED
      BY <2>1 DEF Paired, MarksAgree
  <1>6. CASE UNCHANGED vars
    BY <1>6 DEF vars, inputVars, trackVars, relaxVars, Paired, MarksAgree
  <1> QED
    BY <1>1, <1>2, <1>3, <1>4, <1>5, <1>6, StepCases

\* The words marked in the two maps are the same words in the same order, in maps
\* that the swap of the arguments has not exchanged.
THEOREM MarkedWordsAgree == Spec => []MarksAgree
  <1>1. Init => Passed /\ Paired
    BY DEF Init, Passed, Paired, MarksAgree
  <1>2. Paired => MarksAgree
    BY DEF Paired
  <1> QED
    BY <1>1, <1>2, InitShape, ShapeStep, PassedStep, PairedStep, PTL DEF Spec
=============================================================================
