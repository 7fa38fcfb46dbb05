------------------------- MODULE Relaxation_proofs -------------------------
(***************************************************************************)
(* A search that relaxes every pair it does not lose is complete.          *)
(***************************************************************************)
EXTENDS Relaxation, TLAPS

Pair == State \X Nat

TypeOK ==
    /\ IsGraph
    /\ open \subseteq Pair
    /\ dist \in [State -> Nat \cup {Unknown}]
    /\ answers \in Seq(Pair)

Answered(p) ==
    p[1] \in graph.final => \E i \in DOMAIN answers : answers[i] = p

\* What must hold of a pair that was entered, at every moment: it is open, or was
\* given up, or the arcs that leave it are relaxed and it is among the answers.
Settled(p) == p \in open \/ p \in lost \/ (Relaxed(p) /\ Answered(p))

\* Complete speaks of the end of a search only; this is its inductive form.
IInv ==
    /\ Settled(<<0, 0>>)
    /\ \A s \in State : dist[s] # Unknown => Settled(<<s, dist[s]>>)

-----------------------------------------------------------------------------
LEMMA InitEstablishes == Init => TypeOK /\ IInv
  BY DEF Init, IsGraph, TypeOK, IInv, Settled, Pair, Unknown

\* The pair an arc leads to is one of the graph, at a cost that is a number.
LEMMA ArcTyped ==
    ASSUME TypeOK, NEW p \in Pair, NEW j \in DOMAIN graph.arcs[p[1]]
    PROVE  /\ graph.arcs[p[1]][j].next \in State
           /\ graph.arcs[p[1]][j].weight \in Nat
           /\ p[2] + graph.arcs[p[1]][j].weight \in Nat
<1>1. p[1] \in State /\ p[2] \in Nat
  BY DEF Pair
<1>2. graph.arcs[p[1]][j].next \in State /\ graph.arcs[p[1]][j].weight \in Nat
  BY <1>1 DEF TypeOK, IsGraph
<1> QED
  BY <1>1, <1>2

\* Entering a state more cheaply unsettles no other pair.
LEMMA RelaxPreserves ==
    ASSUME TypeOK, IInv, NEW p \in open, Relax(p)
    PROVE  TypeOK' /\ IInv'
<1>0. p \in Pair
  BY DEF TypeOK
<1>1. PICK j \in DOMAIN graph.arcs[p[1]] :
        LET a == graph.arcs[p[1]][j]
        IN  /\ Within(a.next, p[2] + a.weight)
            /\ dist' = [dist EXCEPT ![a.next] = p[2] + a.weight]
            /\ open' = open \cup {<<a.next, p[2] + a.weight>>}
            /\ UNCHANGED <<graph, lost, answers>>
  BY DEF Relax
<1> DEFINE t == graph.arcs[p[1]][j].next
           c == p[2] + graph.arcs[p[1]][j].weight
<1>2. t \in State /\ c \in Nat
  BY <1>0, ArcTyped
<1>3. /\ Within(t, c)
      /\ dist' = [dist EXCEPT ![t] = c]
      /\ open' = open \cup {<<t, c>>}
      /\ UNCHANGED <<graph, lost, answers>>
  BY <1>1
<1> HIDE DEF t, c
<1>4. TypeOK'
  <2>1. open' \subseteq Pair
    BY <1>2, <1>3 DEF TypeOK, Pair
  <2>2. dist' \in [State -> Nat \cup {Unknown}]
    BY <1>2, <1>3 DEF TypeOK
  <2> QED
    BY <2>1, <2>2, <1>3 DEF TypeOK, IsGraph
<1>5. ASSUME NEW s \in State, dist[s] # Unknown
      PROVE  dist'[s] # Unknown /\ dist'[s] \in Nat /\ dist[s] \in Nat /\ dist'[s] <= dist[s]
  BY <1>2, <1>3, <1>5 DEF TypeOK, Within, Unknown
<1>6. ASSUME NEW q \in Pair, Settled(q)
      PROVE  Settled(q)'
  <2>1. CASE q \in open \/ q \in lost
    BY <2>1, <1>3 DEF Settled
  <2>2. CASE Relaxed(q) /\ Answered(q)
    <3>1. Answered(q)'
      BY <2>2, <1>3 DEF Answered
    <3>2. ASSUME NEW k \in DOMAIN graph.arcs[q[1]],
                 graph.arcs[q[1]][k].next # q[1]
          PROVE  /\ dist'[graph.arcs[q[1]][k].next] # Unknown
                 /\ dist'[graph.arcs[q[1]][k].next] <= q[2] + graph.arcs[q[1]][k].weight
      <4> DEFINE u == graph.arcs[q[1]][k].next
                 d == q[2] + graph.arcs[q[1]][k].weight
      <4>1. u \in State /\ d \in Nat
        BY ArcTyped
      <4>2. dist[u] # Unknown /\ dist[u] <= d
        BY <2>2, <3>2 DEF Relaxed
      <4> HIDE DEF u, d
      <4>3. dist'[u] # Unknown /\ dist'[u] <= d
        <5>1. dist'[u] # Unknown /\ dist'[u] \in Nat /\ dist[u] \in Nat /\ dist'[u] <= dist[u]
          BY <4>1, <4>2, <1>5
        <5> QED
          BY <5>1, <4>1, <4>2
      <4> QED
        BY <4>3 DEF u, d
    <3>3. Relaxed(q)'
      BY <3>2, <1>3 DEF Relaxed
    <3> QED
      BY <3>1, <3>3 DEF Settled
  <2> QED
    BY <1>6, <2>1, <2>2 DEF Settled
<1>7. Settled(<<0, 0>>)'
  <2>1. <<0, 0>> \in Pair
    BY DEF TypeOK, IsGraph, Pair
  <2> QED
    BY <2>1, <1>6 DEF IInv
<1>8. ASSUME NEW s \in State, dist'[s] # Unknown
      PROVE  Settled(<<s, dist[s]>>)'
  <2>1. CASE s = t
    <3>1. dist'[s] = c
      BY <2>1, <1>2, <1>3 DEF TypeOK
    <3> QED
      BY <3>1, <2>1, <1>3 DEF Settled
  <2>2. CASE s # t
    <3>1. dist'[s] = dist[s]
      BY <2>2, <1>2, <1>3 DEF TypeOK
    <3>2. dist[s] \in Nat
      BY <3>1, <1>8 DEF TypeOK
    <3>3. Settled(<<s, dist[s]>>) /\ <<s, dist[s]>> \in Pair
      BY <3>1, <3>2, <1>8 DEF IInv, Pair
    <3> QED
      BY <3>1, <3>3, <1>6 DEF Settled, Relaxed, Answered
  <2> QED
    BY <2>1, <2>2
<1> QED
  BY <1>4, <1>7, <1>8 DEF IInv

\* A pair that is no longer open was lost, or is the one that is done.
LEMMA ClosePreserves ==
    ASSUME TypeOK, IInv, NEW p \in open, Close(p)
    PROVE  TypeOK' /\ IInv'
<1>0. p \in Pair
  BY DEF TypeOK
<1>1. answers' \in Seq(Pair)
  BY <1>0 DEF Close, TypeOK
<1>2. TypeOK'
  BY <1>1 DEF Close, TypeOK, IsGraph
<1>3. ASSUME NEW q, Answered(q)
      PROVE  Answered(q)'
  <2>1. CASE q[1] \notin graph.final
    BY <2>1 DEF Close, Answered
  <2>2. CASE q[1] \in graph.final
    <3>1. PICK i \in DOMAIN answers : answers[i] = q
      BY <1>3, <2>2 DEF Answered
    <3>2. i \in DOMAIN answers' /\ answers'[i] = q
      BY <3>1, <1>0 DEF Close, TypeOK
    <3> QED
      BY <3>2 DEF Answered
  <2> QED
    BY <2>1, <2>2
<1>4. Answered(p)'
  <2>1. CASE p[1] \notin graph.final
    BY <2>1 DEF Close, Answered
  <2>2. CASE p[1] \in graph.final
    <3>1. answers' = Append(answers, p)
      BY <2>2 DEF Close
    <3>2. Len(answers) + 1 \in DOMAIN answers' /\ answers'[Len(answers) + 1] = p
      BY <3>1, <1>0 DEF TypeOK
    <3> QED
      BY <3>2 DEF Answered
  <2> QED
    BY <2>1, <2>2
<1>5. ASSUME NEW q, Settled(q)
      PROVE  Settled(q)'
  <2>1. CASE q = p
    BY <2>1, <1>4 DEF Close, Settled, Relaxed
  <2>2. CASE q \in open /\ q # p
    BY <2>2 DEF Close, Settled
  <2>3. CASE q \in lost
    BY <2>3 DEF Close, Settled
  <2>4. CASE Relaxed(q) /\ Answered(q)
    BY <2>4, <1>3 DEF Close, Settled, Relaxed
  <2> QED
    BY <1>5, <2>1, <2>2, <2>3, <2>4 DEF Settled
<1>6. Settled(<<0, 0>>)'
  BY <1>5 DEF IInv
<1>7. ASSUME NEW s \in State, dist'[s] # Unknown
      PROVE  Settled(<<s, dist[s]>>)'
  <2>1. dist' = dist
    BY DEF Close
  <2>2. Settled(<<s, dist[s]>>)
    BY <2>1, <1>7 DEF IInv
  <2> QED
    BY <2>1, <2>2, <1>5
<1> QED
  BY <1>2, <1>6, <1>7 DEF IInv

\* A search for the cheapest ways that gave up no pair knows, when nothing is open
\* any more, a cost for everything its graph can reach: the costs are closed under
\* all arcs, and the pair of each final state it entered is among the answers.  This
\* is what the walk of Walker.cpp inherits: WalkRelaxes of module Walker.
THEOREM SearchIsComplete == Spec => []Complete
<1>1. Init => TypeOK /\ IInv
  BY InitEstablishes
<1>2. TypeOK /\ IInv /\ [Next]_vars => (TypeOK /\ IInv)'
  <2>1. CASE UNCHANGED vars
    BY <2>1 DEF vars, TypeOK, IsGraph, IInv, Settled, Relaxed, Answered
  <2>2. ASSUME TypeOK, IInv, NEW p \in open, Relax(p)
        PROVE  (TypeOK /\ IInv)'
    BY <2>2, RelaxPreserves
  <2>3. ASSUME TypeOK, IInv, NEW p \in open, Close(p)
        PROVE  (TypeOK /\ IInv)'
    BY <2>3, ClosePreserves
  <2> QED
    BY <2>1, <2>2, <2>3 DEF Next
<1>3. TypeOK /\ IInv => Complete
  BY DEF IInv, Settled, Answered, Complete
<1> QED
  BY <1>1, <1>2, <1>3, PTL DEF Spec
=============================================================================
