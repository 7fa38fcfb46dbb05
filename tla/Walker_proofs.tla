--------------------------- MODULE Walker_proofs ---------------------------
(***************************************************************************)
(* Proofs about Walker, for every composed graph and every value of the    *)
(* walk's parameters: what is expanded, reported and given up, and that    *)
(* what is reported is what the paths of the graph cost.                   *)
(***************************************************************************)
EXTENDS Walker, Selections_proofs, FiniteSetTheorems

-----------------------------------------------------------------------------
\* Entries and heaps

\* The tip of an entry is a node.
LEMMA TipType ==
    ASSUME NEW e \in Entry
    PROVE  e \in Seq(Node) /\ Len(e) \in Nat \ {0} /\ Tip(e) \in Node
  BY DEF Entry, Tip

\* The walk starts with an entry.
LEMMA RootType == Root \in Node /\ <<Root>> \in Entry /\ Tip(<<Root>>) = Root
  <1>1. Root \in Node
    BY StateAssumption DEF Root, Node, Arc
  <1> QED
    BY <1>1 DEF Entry, Tip

\* An arc extends a node to a node.
LEMMA ExtendType ==
    ASSUME NEW n \in Node, NEW a \in Arc
    PROVE  Extend(n, a) \in Node
  BY DEF Extend, Node, Arc

\* A node behind a chain makes an entry, whose tip it is.
LEMMA AppendEntry ==
    ASSUME NEW e \in Seq(Node), NEW n \in Node
    PROVE  /\ Append(e, n) \in Entry
           /\ Tip(Append(e, n)) = n
           /\ Len(Append(e, n)) = Len(e) + 1
  BY DEF Entry, Tip

\* A heap after insert: nothing but the new entry was added, and an entry with
\* the key of the new one is there.
LEMMA InsertFacts ==
    ASSUME NEW heap, NEW e
    PROVE  /\ heap \subseteq Insert(heap, e)
           /\ Insert(heap, e) \subseteq heap \cup {e}
           /\ e \in Insert(heap, e)
                \/ \E f \in Insert(heap, e) : SameKey(Tip(f), Tip(e))
  BY DEF Insert

\* Entries that the heap cannot tell apart stand in the same state with the same
\* counters: this is why dropping one of them loses nothing.
LEMMA SameKeyEqual ==
    ASSUME NEW m \in Node, NEW n \in Node, SameKey(m, n)
    PROVE  /\ m.words = n.words /\ m.errors = n.errors
           /\ m.cost = n.cost /\ m.state = n.state
  <1>1. /\ m.words \in Nat /\ m.errors \in Nat /\ m.cost \in Nat /\ m.state \in Nat
        /\ n.words \in Nat /\ n.errors \in Nat /\ n.cost \in Nat /\ n.state \in Nat
    BY StateAssumption DEF Node
  <1> QED
    BY <1>1 DEF SameKey, Precedes

\* prune only erases.
LEMMA PruneSubset ==
    ASSUME NEW heap
    PROVE  Prune(heap) \subseteq heap
  BY DEF Prune, Leading

\* What EnqueueArc does, in terms of the entry it creates.
LEMMA Enqueued ==
    ASSUME TypeOK, EnqueueArc
    PROVE  \E e \in Entry :
             /\ cur \in Entry /\ cur \in ThisLevel
             /\ iter \in DOMAIN arcs /\ arcs[iter] \in Arc
             /\ e = Append(cur, Tip(e))
             /\ Tip(e) = Extend(Tip(cur), arcs[iter])
             /\ Len(e) = Len(cur) + 1
             /\ logbook' = [logbook EXCEPT ![Tip(e).state] = Tip(e).cost]
             /\ heapB \subseteq heapB' /\ heapB' \subseteq heapB \cup {e}
             /\ \E f \in heapB' : /\ Tip(f).state = Tip(e).state
                                  /\ Tip(f).cost = Tip(e).cost
             /\ ThisLevel' = ThisLevel
             /\ Open \subseteq Open' /\ Open' \subseteq Open \cup {e}
  <1> DEFINE new == Extend(Tip(cur), arcs[iter])
             e == Append(cur, new)
  <1>1. /\ cur \in Entry /\ cur \in ThisLevel
        /\ iter \in DOMAIN arcs /\ arcs[iter] \in Arc
    BY DEF EnqueueArc, TypeOK, WalkTypeOK, Entry, ThisLevel, CurEntry
  <1>2. new \in Node
    BY <1>1, TipType, ExtendType
  <1>3. heapB' = Insert(heapB, e) /\ logbook' = [logbook EXCEPT ![new.state] = new.cost]
    BY DEF EnqueueArc
  <1>4. e \in Entry /\ Tip(e) = new /\ Len(e) = Len(cur) + 1 /\ e = Append(cur, Tip(e))
    BY <1>1, <1>2, TipType, AppendEntry
  <1>5. ThisLevel' = ThisLevel
    BY DEF EnqueueArc, ThisLevel, CurEntry
  <1> HIDE DEF new, e
  <1>6. /\ heapB \subseteq heapB' /\ heapB' \subseteq heapB \cup {e}
        /\ \/ e \in heapB'
           \/ \E f \in heapB' : SameKey(Tip(f), Tip(e))
    BY <1>3, InsertFacts
  <1>7. \E f \in heapB' : Tip(f).state = Tip(e).state /\ Tip(f).cost = Tip(e).cost
    <2>1. CASE e \in heapB'
      BY <2>1
    <2>2. CASE \E f \in heapB' : SameKey(Tip(f), Tip(e))
      <3>1. PICK f \in heapB' : SameKey(Tip(f), Tip(e))
        BY <2>2
      <3>2. Tip(f) \in Node /\ Tip(e) \in Node
        BY <1>4, <1>6, TipType DEF TypeOK, WalkTypeOK
      <3> QED
        BY <3>1, <3>2, SameKeyEqual
    <2> QED
      BY <1>6, <2>1, <2>2
  <1>8. Open \subseteq Open' /\ Open' \subseteq Open \cup {e}
    BY <1>5, <1>6 DEF Open
  <1> QED
    BY <1>1, <1>3, <1>4, <1>5, <1>6, <1>7, <1>8 DEF new

-----------------------------------------------------------------------------
\* Type correctness

\* The initial states have the types.
LEMMA TypeInit == Init => TypeOK
  <1> SUFFICES ASSUME Init PROVE TypeOK
    OBVIOUS
  <1>1. fst \in Composition
    BY CompositionAssumption DEF Init, WalkInit
  <1>2. logbook \in [State -> Nat \cup {NoCost}]
    BY DEF Init, WalkInit
  <1> QED
    BY <1>1, <1>2, RootType DEF Init, WalkInit, TypeOK, WalkTypeOK

\* The composed graph is the same throughout a walk.
LEMMA GraphFixed ==
    ASSUME [Next]_vars
    PROVE  fst' = fst
  BY DEF Next, Step, Stop, vars

\* Every step keeps the types.
LEMMA TypeStep == TypeOK /\ [Next]_vars => TypeOK'
  <1> SUFFICES ASSUME TypeOK, [Next]_vars PROVE TypeOK'
    OBVIOUS
  <1> USE DEF TypeOK, WalkTypeOK
  <1>0. fst' = fst
    BY GraphFixed
  <1>1. CASE Take
    <2>1. PICK e \in heapA : /\ cur' = e
                             /\ heapA' = heapA \ {e}
                             /\ arcs' = fst.arcs[Tip(e).state]
      BY <1>1 DEF TakeEntry, Take
    <2>2. e \in Entry /\ cur' \in Seq(Node)
      BY <2>1, TipType
    <2>3. arcs' \in Seq(Arc)
      BY <2>1, <2>2, TipType DEF Composition, Node
    <2> QED
      BY <1>0, <1>1, <2>1, <2>2, <2>3 DEF TakeEntry, Take
  <1>2. CASE EnqueueArc
    <2> DEFINE new == Extend(Tip(cur), arcs[iter])
    <2>1. cur \in Entry /\ arcs[iter] \in Arc
      BY <1>2 DEF EnqueueArc, Entry
    <2>2. new \in Node
      BY <2>1, TipType, ExtendType
    <2>3. heapB' \subseteq Entry
      <3>1. heapB' = Insert(heapB, Append(cur, new))
        BY <1>2 DEF EnqueueArc
      <3>2. Append(cur, new) \in Entry
        BY <2>1, <2>2, TipType, AppendEntry
      <3> QED
        BY <3>1, <3>2, InsertFacts
    <2>4. logbook' \in [State -> Nat \cup {NoCost}]
      <3>1. logbook' = [logbook EXCEPT ![new.state] = new.cost]
        BY <1>2 DEF EnqueueArc
      <3>2. new.cost \in Nat
        BY <2>2 DEF Node
      <3> QED
        BY <3>1, <3>2
    <2> QED
      BY <1>0, <1>2, <2>3, <2>4 DEF EnqueueArc
  <1>3. CASE SkipArc
    BY <1>0, <1>3 DEF SkipArc
  <1>4. ASSUME cur # <<>>, Report(IsFinal) PROVE topEntries' \in Seq(Entry)
    BY <1>4 DEF Report, IsFinal, Entry
  <1>5. CASE FinishEntry(IsFinal)
    BY <1>0, <1>4, <1>5 DEF FinishEntry
  <1>6. CASE FinishLevel(IsFinal)
    <2>1. heapA' \subseteq heapB
      BY <1>6, PruneSubset DEF FinishLevel
    <2>2. loopSinceLastPruning' \in Nat
      BY <1>6 DEF FinishLevel
    <2>3. heapB' = heapA
      BY <1>6 DEF FinishLevel
    <2>4. dropped' = dropped \cup (heapB \ heapA')
      BY <1>6 DEF FinishLevel
    <2>5. topEntries' \in Seq(Entry)
      BY <1>4, <1>6 DEF FinishLevel
    <2>6. cur' = <<>> /\ arcs' = <<>> /\ iter' = 1 /\ fst' = fst /\ logbook' = logbook
      BY <1>0, <1>6 DEF FinishLevel
    <2> QED
      BY <2>1, <2>2, <2>3, <2>4, <2>5, <2>6
  <1>7. CASE UNCHANGED vars
    BY <1>7 DEF vars, walkVars
  <1> QED
    BY <1>1, <1>2, <1>3, <1>5, <1>6, <1>7 DEF Next, Step, Stop

\* The variables of every walk keep their types.
THEOREM TypeCorrect == Spec => []TypeOK
  BY TypeInit, TypeStep, PTL DEF Spec
-----------------------------------------------------------------------------
\* Levels

\* Initially the heaps hold one level.
LEMMA LevelInit == Init => LevelDiscipline
  BY RootType DEF Init, WalkInit, LevelDiscipline, Open, ThisLevel, CurEntry, Root, Tip

\* Every step keeps the levels apart.
LEMMA LevelStep ==
    TypeOK /\ LevelDiscipline /\ [Next]_vars => LevelDiscipline'
  <1> SUFFICES ASSUME TypeOK, LevelDiscipline, [Next]_vars
               PROVE  LevelDiscipline'
    OBVIOUS
  <1> USE DEF LevelDiscipline
  <1>1. CASE Take
    <2>1. PICK e \in heapA : cur' = e /\ heapA' = heapA \ {e}
      BY <1>1 DEF TakeEntry, Take
    <2>2. e # <<>> /\ cur = <<>> /\ heapB' = heapB
      BY <1>1, <2>1 DEF TypeOK, WalkTypeOK, Entry, TakeEntry, Take, AtLoopHead
    <2>3. ThisLevel' = ThisLevel /\ Open' = Open
      BY <2>1, <2>2 DEF ThisLevel, CurEntry, Open
    <2> QED
      BY <2>2, <2>3
  <1>2. CASE EnqueueArc
    <2>1. PICK e \in Entry :
            /\ cur \in Entry /\ cur \in ThisLevel /\ arcs[iter] \in Arc
            /\ Tip(e) = Extend(Tip(cur), arcs[iter])
            /\ Len(e) = Len(cur) + 1
            /\ heapB' \subseteq heapB \cup {e}
            /\ ThisLevel' = ThisLevel
            /\ Open' \subseteq Open \cup {e}
      BY <1>2, Enqueued
    <2>2. Tip(e).words = Tip(cur).words + 1
      BY <2>1 DEF Extend
    <2>3. Tip(cur).words = Len(cur) - 1 /\ Len(cur) \in Nat /\ Len(e) \in Nat
      BY <2>1, TipType DEF Open
    <2>4. \A f \in Open' : Tip(f).words = Len(f) - 1
      BY <2>1, <2>2, <2>3
    <2>5. \A f \in heapB' : \A g \in ThisLevel' : Len(f) = Len(g) + 1
      BY <2>1
    <2> QED
      BY <2>1, <2>4, <2>5
  <1>3. CASE SkipArc
    BY <1>3 DEF SkipArc, Open, ThisLevel, CurEntry
  <1>4. CASE FinishEntry(IsFinal)
    <2>1. ThisLevel' = heapA /\ heapB' = heapB /\ heapA # {}
      BY <1>4 DEF FinishEntry, ThisLevel, CurEntry
    <2>2. ThisLevel' \subseteq ThisLevel /\ Open' \subseteq Open
      BY <2>1 DEF ThisLevel, Open
    <2> QED
      BY <2>1, <2>2
  <1>5. CASE FinishLevel(IsFinal)
    <2>1. heapA' \subseteq heapB /\ heapB' = {} /\ cur' = <<>>
      BY <1>5, PruneSubset DEF FinishLevel
    <2>2. ThisLevel' \subseteq heapB /\ Open' \subseteq heapB
      BY <2>1 DEF ThisLevel, CurEntry, Open
    <2>3. cur \in ThisLevel
      BY <1>5 DEF FinishLevel, ThisLevel, CurEntry
    <2>4. \A f \in heapB : Len(f) = Len(cur) + 1
      BY <2>3
    <2> QED
      BY <2>1, <2>2, <2>4 DEF Open
  <1>6. CASE UNCHANGED vars
    BY <1>6 DEF vars, walkVars, Open, ThisLevel, CurEntry
  <1> QED
    BY <1>1, <1>2, <1>3, <1>4, <1>5, <1>6 DEF Next, Step, Stop

\* The heaps never mix levels, and no level is left behind.
THEOREM LevelsKeptApart == Spec => []LevelDiscipline
  <1>1. Init => TypeOK /\ LevelDiscipline
    BY TypeInit, LevelInit
  <1>2. TypeOK /\ LevelDiscipline /\ [Next]_vars => (TypeOK /\ LevelDiscipline)'
    BY TypeStep, LevelStep
  <1> QED
    BY <1>1, <1>2, PTL DEF Spec

-----------------------------------------------------------------------------
\* Chains

\* The arcs being relaxed are those of the state of cur.
ArcsOfCur == cur # <<>> => arcs = fst.arcs[Tip(cur).state]

\* Initially no entry is being expanded.
LEMMA ArcsInit == Init => ArcsOfCur
  BY DEF Init, WalkInit, ArcsOfCur

\* Every step keeps arcs the arcs of the entry being expanded.
LEMMA ArcsStep == ArcsOfCur /\ [Next]_vars => ArcsOfCur'
  <1> SUFFICES ASSUME ArcsOfCur, [Next]_vars PROVE ArcsOfCur'
    OBVIOUS
  <1> USE DEF ArcsOfCur
  <1>0. fst' = fst
    BY GraphFixed
  <1>1. CASE Take
    BY <1>0, <1>1 DEF TakeEntry, Take
  <1>2. CASE EnqueueArc
    BY <1>0, <1>2 DEF EnqueueArc
  <1>3. CASE SkipArc
    BY <1>0, <1>3 DEF SkipArc
  <1>4. CASE FinishEntry(IsFinal)
    BY <1>4 DEF FinishEntry
  <1>5. CASE FinishLevel(IsFinal)
    BY <1>5 DEF FinishLevel
  <1>6. CASE UNCHANGED vars
    BY <1>6 DEF vars, walkVars
  <1> QED
    BY <1>1, <1>2, <1>3, <1>4, <1>5, <1>6 DEF Next, Step, Stop

\* An extension along an arc of the graph is a step of a walk.
LEMMA ExtendFollows ==
    ASSUME TypeOK, NEW m \in Node,
           NEW j \in DOMAIN fst.arcs[m.state]
    PROVE  Follows(m, Extend(m, fst.arcs[m.state][j]))
  <1> DEFINE a == fst.arcs[m.state][j]
  <1>1. a \in Arc
    BY DEF TypeOK, WalkTypeOK, Composition, Node
  <1>2. a.weight \in Nat
    BY <1>1 DEF Arc
  <1>3. IF a.weight > 0 THEN a.weight # 0 ELSE a.weight = 0
    BY <1>2
  <1>4. (IF a.weight > 0 THEN 1 ELSE 0) = (IF a.weight = 0 THEN 0 ELSE 1)
    BY <1>3
  <1> QED
    BY <1>4 DEF Follows, Extend

\* A walk that is extended by such a step is a walk.
LEMMA AppendWalk ==
    ASSUME NEW e \in Entry, NEW n \in Node, IsWalk(e), Follows(Tip(e), n)
    PROVE  IsWalk(Append(e, n))
  <1> DEFINE f == Append(e, n)
  <1>1. e \in Seq(Node) /\ Len(e) \in Nat \ {0}
    BY TipType
  <1>2. f \in Seq(Node) /\ Len(f) = Len(e) + 1
    BY <1>1
  <1>3. \A i \in 1..Len(e) : f[i] = e[i]
    BY <1>1
  <1>4. f[Len(e) + 1] = n
    BY <1>1
  <1>5. f[1] = Root
    BY <1>1, <1>3 DEF IsWalk
  <1>6. ASSUME NEW i \in 1..(Len(f) - 1) PROVE Follows(f[i], f[i + 1])
    <2>1. CASE i = Len(e)
      BY <1>1, <1>3, <1>4, <2>1 DEF Tip
    <2>2. CASE i # Len(e)
      <3>1. i \in 1..(Len(e) - 1) /\ i + 1 \in 1..Len(e) /\ i \in 1..Len(e)
        BY <1>1, <1>2, <2>2
      <3>2. f[i] = e[i] /\ f[i + 1] = e[i + 1]
        BY <1>3, <3>1
      <3> QED
        BY <3>1, <3>2 DEF IsWalk
    <2> QED
      BY <2>1, <2>2
  <1> QED
    BY <1>5, <1>6 DEF IsWalk

\* The first entry is a walk.
LEMMA WalksInit == Init => ChainsAreWalks
  <1> SUFFICES ASSUME Init PROVE ChainsAreWalks
    OBVIOUS
  <1>1. Open = {<<Root>>} /\ topEntries = <<>>
    BY DEF Init, WalkInit, Open, ThisLevel, CurEntry
  <1>2. IsWalk(<<Root>>)
    BY DEF IsWalk
  <1> QED
    BY <1>1, <1>2 DEF ChainsAreWalks

\* Every step keeps the chains walks of the graph.
LEMMA WalksStep ==
    TypeOK /\ ArcsOfCur /\ ChainsAreWalks /\ [Next]_vars => ChainsAreWalks'
  <1> SUFFICES ASSUME TypeOK, ArcsOfCur, ChainsAreWalks, [Next]_vars
               PROVE  ChainsAreWalks'
    OBVIOUS
  <1>1. fst' = fst
    BY DEF Next, Step, Stop, TakeEntry, Take, EnqueueArc, SkipArc, FinishEntry,
           FinishLevel, vars, walkVars
  <1>2. ASSUME NEW e, IsWalk(e) PROVE IsWalk(e)'
    BY <1>1, <1>2 DEF IsWalk, Follows
  <1>3. SUFFICES
          /\ \A e \in Open' : IsWalk(e)
          /\ \A i \in DOMAIN topEntries' :
                IsWalk(topEntries'[i]) /\ Tip(topEntries'[i]).state \in fst.final
    BY <1>1, <1>2 DEF ChainsAreWalks, Tip
  <1> USE DEF ChainsAreWalks
  <1>4. CASE Take
    <2>1. Open' = Open
      <3>1. PICK e \in heapA : cur' = e /\ heapA' = heapA \ {e}
        BY <1>4 DEF TakeEntry, Take
      <3> QED
        BY <1>4, <3>1 DEF TakeEntry, Take, AtLoopHead, TypeOK, WalkTypeOK, Entry,
                          Open, ThisLevel, CurEntry
    <2> QED
      BY <1>4, <2>1 DEF TakeEntry, Take
  <1>5. CASE EnqueueArc
    <2>1. PICK e \in Entry :
            /\ cur \in Entry /\ cur \in ThisLevel /\ iter \in DOMAIN arcs
            /\ e = Append(cur, Tip(e))
            /\ Tip(e) = Extend(Tip(cur), arcs[iter])
            /\ Open' \subseteq Open \cup {e}
      BY <1>5, Enqueued
    <2>2. Tip(cur) \in Node /\ Tip(e) \in Node /\ arcs = fst.arcs[Tip(cur).state]
      BY <1>5, <2>1, TipType DEF EnqueueArc, ArcsOfCur
    <2>3. Follows(Tip(cur), Tip(e))
      BY <2>1, <2>2, ExtendFollows
    <2>4. IsWalk(e)
      <3>1. IsWalk(cur)
        BY <2>1 DEF Open
      <3>2. IsWalk(Append(cur, Tip(e)))
        BY <2>1, <2>2, <2>3, <3>1, AppendWalk
      <3> QED
        BY <2>1, <3>2
    <2> QED
      BY <1>5, <2>1, <2>4 DEF EnqueueArc
  <1>6. CASE SkipArc
    BY <1>6 DEF SkipArc, Open, ThisLevel, CurEntry
  <1>7. ASSUME cur # <<>>, Report(IsFinal)
        PROVE  \A i \in DOMAIN topEntries' :
                 IsWalk(topEntries'[i]) /\ Tip(topEntries'[i]).state \in fst.final
    <2>1. IsWalk(cur) /\ topEntries \in Seq(Entry)
      BY <1>7 DEF Open, ThisLevel, CurEntry, TypeOK, WalkTypeOK
    <2>2. CASE Tip(cur).state \in fst.final
      BY <1>7, <2>1, <2>2 DEF Report, IsFinal
    <2>3. CASE Tip(cur).state \notin fst.final
      BY <1>7, <2>3 DEF Report, IsFinal
    <2> QED
      BY <2>2, <2>3
  <1>8. CASE FinishEntry(IsFinal)
    <2>1. Open' \subseteq Open
      BY <1>8 DEF FinishEntry, Open, ThisLevel, CurEntry
    <2> QED
      BY <1>7, <1>8, <2>1 DEF FinishEntry
  <1>9. CASE FinishLevel(IsFinal)
    <2>1. heapA' \subseteq heapB /\ heapB' = heapA /\ cur' = <<>>
      BY <1>9, PruneSubset DEF FinishLevel
    <2>2. Open' \subseteq Open
      BY <2>1 DEF Open, ThisLevel, CurEntry
    <2> QED
      BY <1>7, <1>9, <2>2 DEF FinishLevel
  <1>10. CASE UNCHANGED vars
    BY <1>10 DEF vars, walkVars, Open, ThisLevel, CurEntry
  <1> QED
    BY <1>4, <1>5, <1>6, <1>8, <1>9, <1>10 DEF Next, Step, Stop

\* Every reported alignment is a walk of the composed graph with the right sums.
THEOREM ReportsAreWalks == Spec => []ChainsAreWalks
  <1>1. Init => TypeOK /\ ArcsOfCur /\ ChainsAreWalks
    BY TypeInit, ArcsInit, WalksInit
  <1>2. TypeOK /\ ArcsOfCur /\ ChainsAreWalks /\ [Next]_vars
          => (TypeOK /\ ArcsOfCur /\ ChainsAreWalks)'
    BY TypeStep, ArcsStep, WalksStep
  <1> QED
    BY <1>1, <1>2, PTL DEF Spec
-----------------------------------------------------------------------------
\* No improvement is lost

\* A cost in the logbook is a number, and a natural one where something is logged.
LEMMA LogbookType ==
    ASSUME TypeOK, NEW s \in State
    PROVE  logbook[s] \in Int /\ (logbook[s] # NoCost => logbook[s] \in Nat)
  BY DEF TypeOK, WalkTypeOK, NoCost

\* So it is behind a step.
LEMMA LogbookTypeNext ==
    ASSUME TypeOK, [Next]_vars, NEW s \in State
    PROVE  logbook'[s] \in Int
  <1>1. TypeOK'
    BY TypeStep
  <1> QED
    BY <1>1 DEF TypeOK, WalkTypeOK, NoCost

\* The cost under which EnqueueArc logs the target of the arc.
LEMMA EnqueueLogs ==
    ASSUME TypeOK, EnqueueArc
    PROVE  LET a == arcs[iter]
               n == Tip(cur)
           IN  /\ a \in Arc /\ n \in Node
               /\ logbook' = [logbook EXCEPT ![a.next] = n.cost + a.weight]
               /\ \/ logbook[a.next] = NoCost
                  \/ logbook[a.next] >= n.cost + a.weight
  <1>1. cur \in Entry /\ arcs[iter] \in Arc
    BY DEF EnqueueArc, TypeOK, WalkTypeOK, Entry
  <1> QED
    BY <1>1, TipType DEF EnqueueArc, Enqueues, Extend

\* Costs in the logbook never rise.
LEMMA LogbookImproves ==
    ASSUME TypeOK, [Next]_vars, NEW s \in State, logbook[s] # NoCost
    PROVE  /\ logbook'[s] # NoCost /\ logbook'[s] <= logbook[s]
           /\ fst' = fst
  <1>1. CASE EnqueueArc
    <2> DEFINE a == arcs[iter]
               n == Tip(cur)
    <2>1. /\ a \in Arc /\ n \in Node
          /\ logbook' = [logbook EXCEPT ![a.next] = n.cost + a.weight]
          /\ logbook[a.next] = NoCost \/ logbook[a.next] >= n.cost + a.weight
      BY <1>1, EnqueueLogs
    <2>2. a.weight \in Nat /\ n.cost \in Nat /\ logbook[s] \in Nat
      BY <2>1 DEF Arc, Node, TypeOK, WalkTypeOK
    <2> HIDE DEF a, n
    <2>3. logbook'[s] = IF s = a.next THEN n.cost + a.weight ELSE logbook[s]
      BY <2>1 DEF TypeOK, WalkTypeOK
    <2>4. fst' = fst
      BY GraphFixed
    <2> QED
      BY <2>1, <2>2, <2>3, <2>4 DEF NoCost
  <1>2. CASE ~EnqueueArc
    <2>1. logbook' = logbook /\ fst' = fst
      BY <1>2 DEF Next, Step, Stop, TakeEntry, Take, SkipArc, FinishEntry,
                  FinishLevel, vars, walkVars
    <2>2. logbook[s] \in Nat
      BY DEF TypeOK, WalkTypeOK
    <2> QED
      BY <2>1, <2>2
  <1> QED
    BY <1>1, <1>2

\* Arcs that are relaxed stay relaxed.
LEMMA RelaxedStays ==
    ASSUME TypeOK, [Next]_vars, NEW s \in State, NEW c \in Nat,
           NEW k \in 0..Len(fst.arcs[s]), fst' = fst, Relaxed(s, c, k)
    PROVE  Relaxed(s, c, k)'
  <1> SUFFICES ASSUME NEW j \in 1..k,
                      fst.arcs[s][j].next # s
               PROVE  LET a == fst.arcs[s][j]
                      IN  logbook'[a.next] # NoCost /\ logbook'[a.next] <= c + a.weight
    BY DEF Relaxed
  <1> DEFINE a == fst.arcs[s][j]
  <1>1. fst.arcs[s] \in Seq(Arc)
    BY DEF TypeOK, WalkTypeOK, Composition
  <1>2. a \in Arc
    BY <1>1
  <1>3. a.next \in State /\ a.weight \in Nat
    BY <1>2 DEF Arc
  <1>4. logbook[a.next] # NoCost /\ logbook[a.next] <= c + a.weight
    BY DEF Relaxed
  <1>5. logbook'[a.next] # NoCost /\ logbook'[a.next] <= logbook[a.next]
    BY <1>3, <1>4, LogbookImproves
  <1>6. logbook[a.next] \in Int /\ logbook'[a.next] \in Int
    BY <1>3, LogbookType, LogbookTypeNext
  <1> QED
    BY <1>3, <1>4, <1>5, <1>6

\* An entry stays pending until it is expanded and reported.
LEMMA PendingStep ==
    ASSUME TypeOK, [Next]_vars, NEW s, NEW c, Pending(s, c)
    PROVE  \/ Pending(s, c)'
           \/ /\ FinishEntry(IsFinal) \/ FinishLevel(IsFinal)
              /\ Tip(cur).state = s /\ Tip(cur).cost = c
  <1>1. PICK e \in Open \cup dropped : Tip(e).state = s /\ Tip(e).cost = c
    BY DEF Pending
  <1>2. SUFFICES ASSUME e # cur \/ ~(FinishEntry(IsFinal) \/ FinishLevel(IsFinal))
                 PROVE  e \in (Open \cup dropped)'
    BY <1>1 DEF Pending, Tip
  <1>3. CASE Take
    <2>1. PICK f \in heapA : cur' = f /\ heapA' = heapA \ {f}
      BY <1>3 DEF TakeEntry, Take
    <2> QED
      BY <1>3, <2>1 DEF TakeEntry, Take, AtLoopHead, TypeOK, WalkTypeOK, Entry,
                        Open, ThisLevel, CurEntry
  <1>4. CASE EnqueueArc
    <2>1. Open \subseteq Open'
      BY <1>4, Enqueued
    <2> QED
      BY <1>4, <2>1 DEF EnqueueArc
  <1>5. CASE SkipArc
    BY <1>5 DEF SkipArc, Open, ThisLevel, CurEntry
  <1>6. CASE FinishEntry(IsFinal)
    BY <1>2, <1>6 DEF FinishEntry, Open, ThisLevel, CurEntry
  <1>7. CASE FinishLevel(IsFinal)
    <2>1. /\ heapA = {} /\ cur' = <<>> /\ heapB' = heapA
          /\ dropped' = dropped \cup (heapB \ heapA')
      BY <1>7 DEF FinishLevel
    <2> QED
      BY <1>2, <1>7, <2>1 DEF Open, ThisLevel, CurEntry
  <1>8. CASE UNCHANGED vars
    BY <1>8 DEF vars, walkVars, Open, ThisLevel, CurEntry
  <1> QED
    BY <1>3, <1>4, <1>5, <1>6, <1>7, <1>8 DEF Next, Step, Stop

\* A cost that is new in the logbook belongs to an entry that is open.
LEMMA NewCostPending ==
    ASSUME TypeOK, [Next]_vars, NEW s \in State, logbook'[s] # logbook[s]
    PROVE  Pending(s, logbook[s])'
  <1>1. EnqueueArc
    BY DEF Next, Step, Stop, TakeEntry, Take, SkipArc, FinishEntry, FinishLevel,
           vars, walkVars
  <1>2. PICK e \in Entry :
          /\ logbook' = [logbook EXCEPT ![Tip(e).state] = Tip(e).cost]
          /\ \E f \in heapB' : Tip(f).state = Tip(e).state /\ Tip(f).cost = Tip(e).cost
    BY <1>1, Enqueued
  <1>3. PICK f \in heapB' : Tip(f).state = Tip(e).state /\ Tip(f).cost = Tip(e).cost
    BY <1>2
  <1>4. s = Tip(e).state /\ logbook'[s] = Tip(e).cost
    BY <1>2 DEF TypeOK, WalkTypeOK
  <1>5. f \in Open'
    BY <1>3 DEF Open
  <1> QED
    BY <1>3, <1>4, <1>5 DEF Pending, Tip

\* Initially the start is pending and nothing is logged.
LEMMA SettledInit == Init => Settled
  <1> SUFFICES ASSUME Init PROVE Settled
    OBVIOUS
  <1>1. Open = {<<Root>>}
    BY DEF Init, WalkInit, Open, ThisLevel, CurEntry
  <1>2. Pending(0, 0)
    BY <1>1, RootType DEF Pending, Root
  <1> QED
    BY <1>2 DEF Init, WalkInit, Settled, CostSettled

\* A settled cost stays settled.
LEMMA CostSettledStep ==
    ASSUME TypeOK, ArcsOfCur, Settled, [Next]_vars,
           NEW s \in State, NEW c \in Nat, fst' = fst, CostSettled(s, c)
    PROVE  CostSettled(s, c)'
  <1>0. fst.arcs[s] \in Seq(Arc)
    BY DEF TypeOK, WalkTypeOK, Composition
  <1>1. CASE Relaxed(s, c, Len(fst.arcs[s]))
    <2>1. Len(fst.arcs[s]) \in 0..Len(fst.arcs[s])
      BY <1>0
    <2>2. Relaxed(s, c, Len(fst.arcs[s]))'
      BY <1>1, <2>1, RelaxedStays
    <2> QED
      BY <2>2 DEF CostSettled
  <1>2. CASE Pending(s, c) /\ ~Pending(s, c)'
    <2>1. /\ FinishEntry(IsFinal) \/ FinishLevel(IsFinal)
          /\ Tip(cur).state = s /\ Tip(cur).cost = c
      BY <1>2, PendingStep
    <2>2. cur # <<>> /\ iter > Len(arcs) /\ arcs = fst.arcs[s]
      BY <2>1 DEF FinishEntry, FinishLevel, ArcsOfCur
    <2>3. Relaxed(s, c, iter - 1) /\ logbook' = logbook
      BY <2>1, <2>2 DEF Settled, FinishEntry, FinishLevel
    <2>4. Len(fst.arcs[s]) <= iter - 1 /\ iter \in Nat /\ Len(fst.arcs[s]) \in Nat
      BY <1>0, <2>2 DEF TypeOK, WalkTypeOK
    <2>5. Relaxed(s, c, Len(fst.arcs[s]))
      BY <2>3, <2>4 DEF Relaxed
    <2>6. Relaxed(s, c, Len(fst.arcs[s]))'
      BY <2>3, <2>5 DEF Relaxed
    <2> QED
      BY <2>6 DEF CostSettled
  <1>3. CASE Pending(s, c)'
    BY <1>3 DEF CostSettled
  <1> QED
    BY <1>1, <1>2, <1>3 DEF CostSettled

\* Every step keeps the logged costs settled.
LEMMA SettledStep ==
    TypeOK /\ ArcsOfCur /\ Settled /\ [Next]_vars => Settled'
  <1> SUFFICES ASSUME TypeOK, ArcsOfCur, Settled, [Next]_vars PROVE Settled'
    OBVIOUS
  <1>1. fst' = fst
    BY DEF Next, Step, Stop, TakeEntry, Take, EnqueueArc, SkipArc, FinishEntry,
           FinishLevel, vars, walkVars
  <1>2. CostSettled(0, 0)'
    BY <1>1, CostSettledStep, StateAssumption DEF Settled
  <1>3. ASSUME NEW s \in State, logbook'[s] # NoCost
        PROVE  CostSettled(s, logbook[s])'
    <2>1. CASE logbook'[s] # logbook[s]
      BY <2>1, NewCostPending DEF CostSettled
    <2>2. CASE logbook'[s] = logbook[s]
      <3> DEFINE c == logbook[s]
      <3>1. CostSettled(s, c) /\ c \in Nat
        BY <1>3, <2>2 DEF Settled, TypeOK, WalkTypeOK
      <3> SUFFICES ASSUME NEW d \in Nat, d = logbook[s], CostSettled(s, d)
                   PROVE  CostSettled(s, logbook[s])'
        BY <3>1
      <3>2. CostSettled(s, d)'
        BY <1>1, CostSettledStep
      <3> QED
        BY <2>2, <3>2 DEF CostSettled, Pending, Relaxed
    <2> QED
      BY <2>1, <2>2
  <1>4. ASSUME cur' # <<>>
        PROVE  Relaxed(Tip(cur).state, Tip(cur).cost, iter - 1)'
    <2>1. CASE Take
      BY <2>1 DEF TakeEntry, Take, Relaxed
    <2>2. CASE EnqueueArc \/ SkipArc
      <3> DEFINE s == Tip(cur).state
                 c == Tip(cur).cost
                 a == arcs[iter]
      <3>1. /\ cur' = cur /\ cur \in Entry /\ iter' = iter + 1
            /\ iter \in 1..Len(arcs)
            /\ arcs = fst.arcs[s] /\ arcs \in Seq(Arc)
        BY <2>2 DEF EnqueueArc, SkipArc, TypeOK, WalkTypeOK, Entry, ArcsOfCur
      <3>2. s \in State /\ c \in Nat /\ a \in Arc
        BY <3>1, TipType DEF Node
      <3> Relaxed(s, c, iter - 1)
        BY <3>1 DEF Settled, Entry
      <3>3. ASSUME NEW j \in 1..iter, fst.arcs[s][j].next # s
            PROVE  LET b == fst.arcs[s][j]
                   IN  /\ logbook'[b.next] # NoCost
                       /\ logbook'[b.next] <= c + b.weight
        <4> DEFINE b == arcs[j]
        <4> SUFFICES logbook'[b.next] # NoCost /\ logbook'[b.next] <= c + b.weight
          BY <3>1
        <4> HIDE DEF s, c
        <4>0. b \in Arc
          <5>1. j \in 1..Len(arcs) /\ arcs \in Seq(Arc)
            BY <3>1
          <5> QED
            BY <5>1
        <4>1. b.next \in State /\ b.weight \in Nat
          BY <4>0 DEF Arc
        <4> b.next # s
          BY <3>1, <3>3
        <4> HIDE DEF b
        <4>2. CASE j # iter
          <5>1. logbook[b.next] # NoCost /\ logbook[b.next] <= c + b.weight
            <6>1. j \in 1..(iter - 1) /\ b = fst.arcs[s][j]
              BY <3>1, <4>2 DEF b
            <6> QED
              BY <6>1 DEF Relaxed
          <5>2. logbook'[b.next] # NoCost /\ logbook'[b.next] <= logbook[b.next]
            BY <4>1, <5>1, LogbookImproves
          <5>3. logbook[b.next] \in Int /\ logbook'[b.next] \in Int
            BY <4>1, LogbookType, LogbookTypeNext
          <5> QED
            BY <3>2, <4>1, <5>1, <5>2, <5>3
        <4>3. CASE j = iter /\ EnqueueArc
          <5>1. logbook' = [logbook EXCEPT ![b.next] = c + b.weight]
            BY <4>3, EnqueueLogs DEF b, c
          <5>2. logbook'[b.next] = c + b.weight
            BY <4>1, <5>1 DEF TypeOK, WalkTypeOK
          <5> QED
            BY <3>2, <4>1, <5>2 DEF NoCost
        <4>4. CASE j = iter /\ SkipArc
          <5>1. logbook' = logbook /\ ~Enqueues(Tip(cur), b)
            BY <4>4 DEF SkipArc, b
          <5>2. logbook[b.next] # NoCost /\ ~(logbook[b.next] >= c + b.weight)
            BY <5>1 DEF Enqueues, s, c
          <5>3. logbook[b.next] \in Nat
            BY <4>1, <5>2, LogbookType
          <5> QED
            BY <3>2, <4>1, <5>1, <5>2, <5>3
        <4> QED
          BY <2>2, <4>2, <4>3, <4>4
      <3>4. iter' - 1 = iter
        BY <3>1
      <3> QED
        BY <1>1, <3>1, <3>3, <3>4 DEF Relaxed, Tip
    <2>3. CASE FinishEntry(IsFinal) \/ FinishLevel(IsFinal)
      BY <1>4, <2>3 DEF FinishEntry, FinishLevel
    <2>4. CASE UNCHANGED vars
      BY <1>4, <2>4 DEF vars, walkVars, Settled, Relaxed, Tip
    <2> QED
      BY <2>1, <2>2, <2>3, <2>4 DEF Next, Step, Stop
  <1> QED
    BY <1>2, <1>3, <1>4 DEF Settled

\* Every cost the logbook holds is pending or has been passed on along all arcs.
THEOREM NoImprovementLost == Spec => []Settled
  <1>1. Init => TypeOK /\ ArcsOfCur /\ Settled
    BY TypeInit, ArcsInit, SettledInit
  <1>2. TypeOK /\ ArcsOfCur /\ Settled /\ [Next]_vars
          => (TypeOK /\ ArcsOfCur /\ Settled)'
    BY TypeStep, ArcsStep, SettledStep
  <1> QED
    BY <1>1, <1>2, PTL DEF Spec
-----------------------------------------------------------------------------
\* Reports

\* What is reported stays reported.
LEMMA ReportedStays ==
    ASSUME TypeOK, [Next]_vars, NEW s, NEW c, Reported(s, c)
    PROVE  Reported(s, c)'
  <1>1. PICK i \in DOMAIN topEntries :
          Tip(topEntries[i]).state = s /\ Tip(topEntries[i]).cost = c
    BY DEF Reported
  <1>2. CASE topEntries' = topEntries
    BY <1>1, <1>2 DEF Reported, Tip
  <1>3. CASE FinishEntry(IsFinal) \/ FinishLevel(IsFinal)
    <2>1. cur \in Entry /\ topEntries \in Seq(Entry)
      BY <1>3 DEF FinishEntry, FinishLevel, TypeOK, WalkTypeOK, Entry
    <2>2. topEntries' = topEntries \/ topEntries' = Append(topEntries, cur)
      BY <1>3 DEF FinishEntry, FinishLevel, Report, IsFinal
    <2>3. i \in DOMAIN topEntries' /\ topEntries'[i] = topEntries[i]
      BY <1>1, <2>1, <2>2
    <2> QED
      BY <1>1, <2>3 DEF Reported, Tip
  <1> QED
    BY <1>2, <1>3 DEF Next, Step, Stop, TakeEntry, Take, EnqueueArc, SkipArc, vars,
                      walkVars

\* An expanded entry of a final state is reported.
LEMMA FinishReports ==
    ASSUME TypeOK, FinishEntry(IsFinal) \/ FinishLevel(IsFinal),
           NEW s \in fst.final, NEW c, s = Tip(cur).state, c = Tip(cur).cost
    PROVE  Reported(s, c)'
  <1>1. cur \in Entry /\ topEntries \in Seq(Entry)
    BY DEF FinishEntry, FinishLevel, TypeOK, WalkTypeOK, Entry
  <1>2. topEntries' = Append(topEntries, cur)
    BY DEF FinishEntry, FinishLevel, Report, IsFinal
  <1>3. /\ Len(topEntries) + 1 \in DOMAIN topEntries'
        /\ topEntries'[Len(topEntries) + 1] = cur
    BY <1>1, <1>2
  <1> QED
    BY <1>3 DEF Reported, Tip

\* Initially the start is pending.
LEMMA ReportedInit == Init => FinalsReported
  <1> SUFFICES ASSUME Init PROVE FinalsReported
    OBVIOUS
  <1>1. Open = {<<Root>>}
    BY DEF Init, WalkInit, Open, ThisLevel, CurEntry
  <1>2. Pending(0, 0)
    BY <1>1, RootType DEF Pending, Root
  <1>3. fst.final \subseteq State
    BY CompositionAssumption DEF Init, WalkInit, Composition
  <1> QED
    BY <1>2, <1>3 DEF Init, WalkInit, FinalsReported

\* A cost of a final state stays pending until it is reported.
LEMMA FinalCostStep ==
    ASSUME TypeOK, [Next]_vars, NEW f \in fst.final, NEW c,
           Pending(f, c) \/ Reported(f, c)
    PROVE  (Pending(f, c) \/ Reported(f, c))'
  BY ReportedStays, PendingStep, FinishReports

\* Every step keeps the cheapest way into a final state pending or reported.
LEMMA ReportedStep ==
    TypeOK /\ FinalsReported /\ [Next]_vars => FinalsReported'
  <1> SUFFICES ASSUME TypeOK, FinalsReported, [Next]_vars PROVE FinalsReported'
    OBVIOUS
  <1>1. fst' = fst /\ fst.final \subseteq State
    BY DEF Next, Step, Stop, TakeEntry, Take, EnqueueArc, SkipArc, FinishEntry,
           FinishLevel, vars, walkVars, TypeOK, WalkTypeOK, Composition
  <1>2. ASSUME 0 \in fst.final PROVE (Pending(0, 0) \/ Reported(0, 0))'
    BY <1>2, FinalCostStep DEF FinalsReported
  <1>3. ASSUME NEW f \in fst.final, logbook'[f] # NoCost
        PROVE  (Pending(f, logbook[f]) \/ Reported(f, logbook[f]))'
    <2>1. CASE logbook'[f] # logbook[f]
      BY <1>1, <2>1, NewCostPending
    <2>2. CASE logbook'[f] = logbook[f]
      <3> SUFFICES ASSUME NEW c, c = logbook[f]
                   PROVE  (Pending(f, logbook[f]) \/ Reported(f, logbook[f]))'
        OBVIOUS
      <3>1. (Pending(f, c) \/ Reported(f, c))'
        BY <1>3, <2>2, FinalCostStep DEF FinalsReported
      <3> QED
        BY <2>2, <3>1 DEF Pending, Reported
    <2> QED
      BY <2>1, <2>2
  <1> QED
    BY <1>1, <1>2, <1>3 DEF FinalsReported

\* The cheapest way into a final state is never forgotten.
THEOREM FinalsAreReported == Spec => []FinalsReported
  <1>1. Init => TypeOK /\ FinalsReported
    BY TypeInit, ReportedInit
  <1>2. TypeOK /\ FinalsReported /\ [Next]_vars => (TypeOK /\ FinalsReported)'
    BY TypeStep, ReportedStep
  <1> QED
    BY <1>1, <1>2, PTL DEF Spec

-----------------------------------------------------------------------------
\* Optimality

\* When every logged cost has been passed on along all arcs, the logbook is a
\* lower bound for every walk of the composed graph.
AllRelaxed ==
    /\ Relaxed(0, 0, Len(fst.arcs[0]))
    /\ \A s \in State :
         logbook[s] # NoCost => Relaxed(s, logbook[s], Len(fst.arcs[s]))

Bounded(n) ==
    n.state = 0 \/ (logbook[n.state] # NoCost /\ logbook[n.state] <= n.cost)

\* The bound passes from a node to the next one of a walk.
LEMMA BoundedFollows ==
    ASSUME TypeOK, AllRelaxed,
           NEW m \in Node, NEW n \in Node, Bounded(m), Follows(m, n)
    PROVE  Bounded(n)
  <1>1. PICK j \in DOMAIN fst.arcs[m.state] :
          /\ n.state = fst.arcs[m.state][j].next
          /\ n.cost = m.cost + fst.arcs[m.state][j].weight
    BY DEF Follows
  <1> DEFINE a == fst.arcs[m.state][j]
  <1>2. /\ m.state \in State /\ m.cost \in Nat /\ n.state \in State
        /\ fst.arcs[m.state] \in Seq(Arc)
    BY DEF Node, TypeOK, WalkTypeOK, Composition
  <1>3. j \in 1..Len(fst.arcs[m.state]) /\ a \in Arc
    BY <1>2
  <1>4. a.weight \in Nat
    BY <1>3 DEF Arc
  <1>5. CASE n.state = m.state
    <2>1. logbook[m.state] \in Int
      BY <1>2, LogbookType
    <2> QED
      BY <1>1, <1>2, <1>4, <1>5, <2>1 DEF Bounded
  <1>6. CASE n.state # m.state /\ m.state = 0
    <2>1. logbook[n.state] # NoCost /\ logbook[n.state] <= 0 + a.weight
      BY <1>1, <1>3, <1>6 DEF AllRelaxed, Relaxed
    <2>2. logbook[n.state] \in Int
      BY <1>2, LogbookType
    <2> QED
      BY <1>1, <1>2, <1>4, <2>1, <2>2 DEF Bounded
  <1>7. CASE n.state # m.state /\ m.state # 0
    <2>1. logbook[m.state] # NoCost /\ logbook[m.state] <= m.cost
      BY <1>7 DEF Bounded
    <2>2. Relaxed(m.state, logbook[m.state], Len(fst.arcs[m.state]))
      BY <1>2, <2>1 DEF AllRelaxed
    <2>3. /\ logbook[n.state] # NoCost
          /\ logbook[n.state] <= logbook[m.state] + a.weight
      BY <1>1, <1>3, <1>7, <2>2 DEF Relaxed
    <2>4. logbook[n.state] \in Int /\ logbook[m.state] \in Int
      BY <1>2, LogbookType
    <2> HIDE DEF a
    <2>5. n.cost = m.cost + a.weight
      BY <1>1 DEF a
    <2> QED
      BY <1>2, <1>4, <2>1, <2>3, <2>4, <2>5 DEF Bounded
  <1> QED
    BY <1>5, <1>6, <1>7

\* No walk is cheaper than the costs in the logbook: the first node of a walk that
\* breaks the bound would follow one that keeps it.
LEMMA WalksBounded ==
    ASSUME TypeOK, AllRelaxed, NEW e \in Entry, IsWalk(e)
    PROVE  Bounded(Tip(e))
  <1>1. e \in Seq(Node) /\ Len(e) \in Nat \ {0}
    BY TipType
  <1> DEFINE Bad == {i \in 1..Len(e) : ~Bounded(e[i])}
  <1>2. SUFFICES ASSUME Bad # {} PROVE FALSE
    <2>1. Len(e) \notin Bad
      BY <1>2
    <2> QED
      BY <1>1, <2>1 DEF Tip
  <1>3. PICK i \in Bad : \A k \in Bad : i <= k
    <2>1. Bad \in SUBSET Nat
      BY <1>1
    <2> QED
      BY <1>2, <2>1, LeastNat
  <1>4. i # 1
    BY <1>3 DEF IsWalk, Bounded, Root
  <1>5. /\ i - 1 \in 1..(Len(e) - 1) /\ i - 1 \in 1..Len(e) /\ i \in 1..Len(e)
        /\ (i - 1) + 1 = i /\ ~(i <= i - 1)
    BY <1>1, <1>3, <1>4
  <1>6. e[i - 1] \in Node /\ e[i] \in Node /\ Bounded(e[i - 1])
    BY <1>1, <1>3, <1>5
  <1>7. Follows(e[i - 1], e[i])
    BY <1>5 DEF IsWalk
  <1>8. Bounded(e[i])
    BY <1>6, <1>7, BoundedFollows
  <1> QED
    BY <1>3, <1>8

\* A walk that ran out of entries and pruned none has reported, for every path of
\* the composed graph to a final state, an alignment that costs no more.
NoPathBeatsReports ==
    Finished /\ heapA = {} /\ dropped = {} =>
        \A e \in Entry :
            IsWalk(e) /\ Tip(e).state \in fst.final =>
                \E i \in DOMAIN topEntries :
                    /\ Tip(topEntries[i]).state = Tip(e).state
                    /\ Tip(topEntries[i]).cost <= Tip(e).cost

\* The invariants, and that nothing is pending, leave no path that beats the reports.
LEMMA SettledOptimal ==
    TypeOK /\ LevelDiscipline /\ Settled /\ FinalsReported => NoPathBeatsReports
  <1> SUFFICES ASSUME TypeOK, LevelDiscipline, Settled, FinalsReported,
                      Finished, heapA = {}, dropped = {},
                      NEW e \in Entry, IsWalk(e), Tip(e).state \in fst.final
               PROVE  \E i \in DOMAIN topEntries :
                        /\ Tip(topEntries[i]).state = Tip(e).state
                        /\ Tip(topEntries[i]).cost <= Tip(e).cost
    BY DEF NoPathBeatsReports
  <1>1. \A s, c : ~Pending(s, c)
    BY DEF Finished, AtLoopHead, LevelDiscipline, ThisLevel, CurEntry, Open, Pending
  <1>2. AllRelaxed
    BY <1>1 DEF Settled, CostSettled, AllRelaxed
  <1>3. Bounded(Tip(e)) /\ Tip(e) \in Node
    BY <1>2, WalksBounded, TipType
  <1>4. CASE Tip(e).state = 0
    <2>1. Reported(0, 0)
      BY <1>1, <1>4 DEF FinalsReported
    <2>2. 0 <= Tip(e).cost
      BY <1>3 DEF Node
    <2> QED
      BY <1>4, <2>1, <2>2 DEF Reported
  <1>5. CASE Tip(e).state # 0
    <2>1. logbook[Tip(e).state] # NoCost /\ logbook[Tip(e).state] <= Tip(e).cost
      BY <1>3, <1>5 DEF Bounded
    <2>2. Reported(Tip(e).state, logbook[Tip(e).state])
      BY <1>1, <2>1 DEF FinalsReported
    <2> QED
      BY <2>1, <2>2 DEF Reported
  <1> QED
    BY <1>4, <1>5

\* Without pruning an exhaustive walk is a shortest-path search.
THEOREM ExhaustiveWalkOptimal == Spec => []NoPathBeatsReports
  <1>1. TypeOK /\ LevelDiscipline /\ Settled /\ FinalsReported => NoPathBeatsReports
    BY SettledOptimal
  <1> QED
    BY <1>1, TypeCorrect, LevelsKeptApart, NoImprovementLost, FinalsAreReported, PTL
-----------------------------------------------------------------------------
\* The order of the reports

\* m is logged at no more than its own cost; the start is not logged.
LoggedBelow(book, m) ==
    m.state # 0 => book[m.state] # NoCost /\ book[m.state] <= m.cost

\* n enters the state of m at no higher cost.
Improves(n, m) == m.state = n.state /\ m.state # 0 => n.cost <= m.cost

\* What makes ReportOrder inductive: every entry was once the cheapest known way
\* into its state, so that the entries of a level improve on the earlier ones.
LevelsImprove ==
    /\ \A e \in Open : LoggedBelow(logbook, Tip(e))
    /\ \A i \in DOMAIN topEntries : LoggedBelow(logbook, Tip(topEntries[i]))
    /\ \A e \in heapB : \A f \in ThisLevel : Improves(Tip(e), Tip(f))
    /\ \A i \in DOMAIN topEntries : \A e \in Open :
         /\ Tip(topEntries[i]).words <= Tip(e).words
         /\ Tip(topEntries[i]).words < Tip(e).words
              => Improves(Tip(e), Tip(topEntries[i]))

\* Initially only the start is open, and it is not logged.
LEMMA ImproveInit == Init => LevelsImprove /\ ReportOrder
  <1> SUFFICES ASSUME Init PROVE LevelsImprove /\ ReportOrder
    OBVIOUS
  <1>1. Open = {<<Root>>} /\ heapB = {} /\ topEntries = <<>>
    BY DEF Init, WalkInit, Open, ThisLevel, CurEntry
  <1>2. LoggedBelow(logbook, Tip(<<Root>>))
    BY RootType DEF LoggedBelow, Root
  <1> QED
    BY <1>1, <1>2 DEF LevelsImprove, ReportOrder

\* Costs in the logbook never rise above a node.
LEMMA LoggedBelowStays ==
    ASSUME TypeOK, [Next]_vars, NEW m \in Node, LoggedBelow(logbook, m)
    PROVE  LoggedBelow(logbook', m)
  <1>1. CASE m.state = 0
    BY <1>1 DEF LoggedBelow
  <1>2. CASE m.state # 0
    <2>1. m.state \in State /\ m.cost \in Nat
      BY DEF Node
    <2>2. logbook[m.state] # NoCost /\ logbook[m.state] <= m.cost
      BY <1>2 DEF LoggedBelow
    <2>3. logbook'[m.state] # NoCost /\ logbook'[m.state] <= logbook[m.state]
      BY <2>1, <2>2, LogbookImproves
    <2>4. logbook[m.state] \in Int /\ logbook'[m.state] \in Int
      BY <2>1, LogbookType, LogbookTypeNext
    <2> QED
      BY <2>1, <2>2, <2>3, <2>4 DEF LoggedBelow
  <1> QED
    BY <1>1, <1>2

\* The new entry of EnqueueArc improves on every logged one.
LEMMA EnqueuedImproves ==
    ASSUME TypeOK, EnqueueArc, NEW n, n = Extend(Tip(cur), arcs[iter])
    PROVE  /\ LoggedBelow(logbook', n)
           /\ \A m \in Node : LoggedBelow(logbook, m) => Improves(n, m)
  <1> DEFINE a == arcs[iter]
             c == Tip(cur)
  <1>1. /\ a \in Arc /\ c \in Node
        /\ logbook' = [logbook EXCEPT ![a.next] = c.cost + a.weight]
        /\ logbook[a.next] = NoCost \/ logbook[a.next] >= c.cost + a.weight
    BY EnqueueLogs
  <1>2. n.state = a.next /\ n.cost = c.cost + a.weight
    BY DEF Extend
  <1> HIDE DEF c, a
  <1>3. a.next \in State /\ a.weight \in Nat /\ c.cost \in Nat
    BY <1>1 DEF Arc, Node
  <1>4. ASSUME NEW m \in Node, LoggedBelow(logbook, m) PROVE Improves(n, m)
    <2>1. logbook[a.next] \in Int /\ m.cost \in Nat
      BY <1>3, LogbookType DEF Node
    <2> QED
      BY <1>1, <1>2, <1>3, <1>4, <2>1 DEF Improves, LoggedBelow
  <1>5. logbook'[n.state] = n.cost /\ n.cost # NoCost /\ n.cost \in Nat
    BY <1>1, <1>2, <1>3 DEF TypeOK, WalkTypeOK, NoCost
  <1> QED
    BY <1>4, <1>5 DEF LoggedBelow

\* Reporting cur keeps the reports in order.
LEMMA ReportKeepsOrder ==
    ASSUME TypeOK, LevelsImprove, ReportOrder, cur # <<>>, Report(IsFinal),
           NEW i \in DOMAIN topEntries', NEW j \in DOMAIN topEntries', i < j
    PROVE  LET m == Tip(topEntries'[i])
               n == Tip(topEntries'[j])
           IN  /\ m.words <= n.words
               /\ m.words < n.words /\ m.state = n.state /\ m.state # 0
                    => n.cost <= m.cost
  <1>1. topEntries \in Seq(Entry) /\ cur \in Open
    BY DEF TypeOK, WalkTypeOK, Open, ThisLevel, CurEntry
  <1>2. CASE topEntries' = topEntries
    BY <1>2 DEF ReportOrder
  <1>3. CASE topEntries' = Append(topEntries, cur) /\ j = Len(topEntries) + 1
    <2>1. i \in DOMAIN topEntries /\ topEntries'[i] = topEntries[i]
      BY <1>1, <1>3
    <2>2. topEntries'[j] = cur
      BY <1>1, <1>3
    <2> QED
      BY <1>1, <2>1, <2>2 DEF LevelsImprove, Improves
  <1>4. CASE topEntries' = Append(topEntries, cur) /\ j # Len(topEntries) + 1
    <2>1. /\ i \in DOMAIN topEntries /\ topEntries'[i] = topEntries[i]
          /\ j \in DOMAIN topEntries /\ topEntries'[j] = topEntries[j]
      BY <1>1, <1>4
    <2> QED
      BY <2>1 DEF ReportOrder
  <1> QED
    BY <1>2, <1>3, <1>4 DEF Report, IsFinal

\* Every reported entry is an old one or cur.
LEMMA ReportIsCur ==
    ASSUME TypeOK, Report(IsFinal), cur # <<>>, NEW i \in DOMAIN topEntries'
    PROVE  \/ topEntries'[i] = cur
           \/ i \in DOMAIN topEntries /\ topEntries'[i] = topEntries[i]
  BY DEF Report, IsFinal, TypeOK, WalkTypeOK, Entry

\* Every step keeps the levels improving and the reports in order.
LEMMA ImproveStep ==
    TypeOK /\ LevelDiscipline /\ LevelsImprove /\ ReportOrder /\ [Next]_vars
        => LevelsImprove' /\ ReportOrder'
  <1> SUFFICES ASSUME TypeOK, LevelDiscipline, LevelsImprove, ReportOrder, [Next]_vars
               PROVE  LevelsImprove' /\ ReportOrder'
    OBVIOUS
  <1>1. ASSUME NEW e \in Entry, LoggedBelow(logbook, Tip(e))
        PROVE  LoggedBelow(logbook', Tip(e))
    BY <1>1, TipType, LoggedBelowStays
  <1>2. Open \subseteq Entry /\ \A i \in DOMAIN topEntries : topEntries[i] \in Entry
    BY DEF TypeOK, WalkTypeOK, Entry, Open, ThisLevel, CurEntry
  <1>3. CASE Take \/ SkipArc \/ UNCHANGED vars
    <2>1. /\ ThisLevel' = ThisLevel /\ heapB' = heapB
          /\ topEntries' = topEntries /\ logbook' = logbook
      <3>1. CASE Take
        <4>1. PICK f \in heapA : cur' = f /\ heapA' = heapA \ {f}
          BY <3>1 DEF TakeEntry, Take
        <4> QED
          BY <3>1, <4>1 DEF TakeEntry, Take, AtLoopHead, TypeOK, WalkTypeOK, Entry,
                            ThisLevel, CurEntry
      <3> QED
        BY <1>3, <3>1 DEF SkipArc, vars, walkVars, ThisLevel, CurEntry
    <2>2. Open' = Open
      BY <2>1 DEF Open
    <2> QED
      BY <2>1, <2>2 DEF LevelsImprove, ReportOrder
  <1>4. CASE EnqueueArc
    <2>1. PICK e \in Entry :
            /\ cur \in Entry /\ cur \in ThisLevel
            /\ Tip(e) = Extend(Tip(cur), arcs[iter])
            /\ Len(e) = Len(cur) + 1
            /\ heapB' \subseteq heapB \cup {e}
            /\ ThisLevel' = ThisLevel
            /\ Open' \subseteq Open \cup {e}
      BY <1>4, Enqueued
    <2>2. /\ LoggedBelow(logbook', Tip(e))
          /\ \A m \in Node : LoggedBelow(logbook, m) => Improves(Tip(e), m)
      BY <1>4, <2>1, EnqueuedImproves
    <2>3. topEntries' = topEntries
      BY <1>4 DEF EnqueueArc
    <2>4. \A f \in Open' : LoggedBelow(logbook', Tip(f))
      BY <1>1, <1>2, <2>1, <2>2 DEF LevelsImprove
    <2>5. \A i \in DOMAIN topEntries' : LoggedBelow(logbook', Tip(topEntries'[i]))
      BY <1>1, <1>2, <2>3 DEF LevelsImprove
    <2>6. \A f \in heapB' : \A g \in ThisLevel' : Improves(Tip(f), Tip(g))
      <3>1. \A g \in ThisLevel : Tip(g) \in Node /\ LoggedBelow(logbook, Tip(g))
        BY <1>2, TipType DEF Open, LevelsImprove
      <3> QED
        BY <2>1, <2>2, <3>1 DEF LevelsImprove
    <2>7. ASSUME NEW i \in DOMAIN topEntries', NEW f \in Open'
          PROVE  /\ Tip(topEntries'[i]).words <= Tip(f).words
                 /\ Tip(topEntries'[i]).words < Tip(f).words
                      => Improves(Tip(f), Tip(topEntries'[i]))
      <3>1. CASE f \in Open
        BY <2>3, <3>1 DEF LevelsImprove
      <3>2. CASE f = e
        <4> DEFINE t == Tip(topEntries[i])
        <4>1. t \in Node /\ LoggedBelow(logbook, t)
          BY <1>2, <2>3, TipType DEF LevelsImprove
        <4>2. t.words <= Tip(cur).words
          BY <2>1, <2>3 DEF LevelsImprove, Open
        <4>3. Tip(e).words = Tip(cur).words + 1
          BY <2>1 DEF Extend
        <4>4. t.words \in Nat /\ Tip(cur).words \in Nat
          BY <2>1, <4>1, TipType DEF Node
        <4> QED
          BY <2>2, <2>3, <3>2, <4>1, <4>2, <4>3, <4>4
      <3> QED
        BY <2>1, <3>1, <3>2
    <2> QED
      BY <2>3, <2>4, <2>5, <2>6, <2>7 DEF LevelsImprove, ReportOrder
  <1>5. CASE FinishEntry(IsFinal) \/ FinishLevel(IsFinal)
    <2>1. cur # <<>> /\ Report(IsFinal) /\ logbook' = logbook
      BY <1>5 DEF FinishEntry, FinishLevel
    <2>2. cur \in ThisLevel /\ cur \in Open
      BY <2>1 DEF Open, ThisLevel, CurEntry
    <2>3. ReportOrder'
      BY <2>1, ReportKeepsOrder DEF ReportOrder
    <2>4. /\ Open' \subseteq Open
          /\ \A f \in heapB' : \A g \in ThisLevel' : f \in heapB /\ g \in ThisLevel
          /\ \A f \in Open' : f \in ThisLevel \/ f \in heapB
      <3>1. CASE FinishEntry(IsFinal)
        BY <3>1 DEF FinishEntry, Open, ThisLevel, CurEntry
      <3>2. CASE FinishLevel(IsFinal)
        <4>1. heapA' \subseteq heapB /\ heapB' = {} /\ cur' = <<>>
          BY <3>2, PruneSubset DEF FinishLevel
        <4> QED
          BY <4>1 DEF Open, ThisLevel, CurEntry
      <3> QED
        BY <1>5, <3>1, <3>2
    <2>5. \A i \in DOMAIN topEntries' : LoggedBelow(logbook', Tip(topEntries'[i]))
      BY <2>1, <2>2, ReportIsCur DEF LevelsImprove
    <2>6. ASSUME NEW i \in DOMAIN topEntries', NEW f \in Open'
          PROVE  /\ Tip(topEntries'[i]).words <= Tip(f).words
                 /\ Tip(topEntries'[i]).words < Tip(f).words
                      => Improves(Tip(f), Tip(topEntries'[i]))
      <3>1. CASE i \in DOMAIN topEntries /\ topEntries'[i] = topEntries[i]
        BY <2>4, <3>1 DEF LevelsImprove
      <3>2. CASE topEntries'[i] = cur
        <4>1. /\ Tip(f).words = Len(f) - 1 /\ Tip(cur).words = Len(cur) - 1
              /\ f \in Entry /\ cur \in Entry
          BY <1>2, <2>2, <2>4 DEF LevelDiscipline
        <4>2. Len(f) \in Nat /\ Len(cur) \in Nat
          BY <4>1, TipType
        <4>3. CASE f \in ThisLevel
          <5>1. Len(f) = Len(cur)
            BY <2>2, <4>3 DEF LevelDiscipline
          <5> QED
            BY <3>2, <4>1, <4>2, <5>1
        <4>4. CASE f \in heapB
          <5>1. Len(f) = Len(cur) + 1 /\ Improves(Tip(f), Tip(cur))
            BY <2>2, <4>4 DEF LevelDiscipline, LevelsImprove
          <5> QED
            BY <3>2, <4>1, <4>2, <5>1
        <4> QED
          BY <2>4, <4>3, <4>4
      <3> QED
        BY <2>1, <3>1, <3>2, ReportIsCur
    <2> QED
      BY <2>1, <2>3, <2>4, <2>5, <2>6 DEF LevelsImprove
  <1> QED
    BY <1>3, <1>4, <1>5 DEF Next, Step, Stop

\* Alignments come out by number of arcs, and later levels never cost more.
THEOREM ReportsInOrder == Spec => []ReportOrder
  <1> DEFINE IInv == TypeOK /\ LevelDiscipline /\ LevelsImprove /\ ReportOrder
  <1>1. Init => IInv
    BY TypeInit, LevelInit, ImproveInit
  <1>2. IInv /\ [Next]_vars => IInv'
    BY TypeStep, LevelStep, ImproveStep
  <1>3. IInv => ReportOrder
    OBVIOUS
  <1> QED
    BY <1>1, <1>2, <1>3, PTL DEF Spec

-----------------------------------------------------------------------------
\* The walk implements the search of Relaxation, for every composed graph and every
\* value of the walk's parameters.

\* An entry is expanded only while there are answers to be found.
StillSought == cur # <<>> => Len(topEntries) < NumBests

LEMMA SoughtInit == Init => StillSought
  BY DEF Init, WalkInit, StillSought

LEMMA SoughtStep == StillSought /\ [Next]_vars => StillSought'
  BY DEF StillSought, Next, Step, Stop, Take, TakeEntry, Continues, EnqueueArc, SkipArc,
         FinishEntry, FinishLevel, vars, walkVars

\* What a step of the refinement proof may use.
Inv == TypeOK /\ ArcsOfCur /\ Settled /\ StillSought

-----------------------------------------------------------------------------
\* The answers of the search, as the walk has them.
Answers == [i \in DOMAIN topEntries |-> PairOf(topEntries[i])]

\* The walk starts as the search does.
LEMMA InitMaps == Init => R!Init
  <1> SUFFICES ASSUME Init PROVE R!Init
    OBVIOUS
  <1>1. R!IsGraph
    <2>1. fst \in Composition /\ 0 \in State
      BY CompositionAssumption, StateAssumption DEF Init
    <2>2. ASSUME NEW s \in State, NEW j \in DOMAIN fst.arcs[s]
          PROVE  fst.arcs[s][j] \in Arc
      <3>1. fst.arcs \in [State -> Seq(Arc)]
        BY <2>1 DEF Composition
      <3>2. fst.arcs[s] \in Seq(Arc)
        BY <3>1
      <3> QED
        BY <3>2, <2>2
    <2> QED
      BY <2>1, <2>2 DEF R!IsGraph, Arc
  <1>2. {PairOf(e) : e \in Open} = {<<0, 0>>}
    <2>1. Open = {<<Root>>}
      BY DEF Init, WalkInit, Open, ThisLevel, CurEntry
    <2>2. PairOf(<<Root>>) = <<0, 0>>
      BY DEF PairOf, Tip, Root
    <2> QED
      BY <2>1, <2>2
  <1>3. {PairOf(e) : e \in dropped} = {}
    BY DEF Init, WalkInit
  <1>4. logbook = [s \in State |-> R!Unknown]
    BY DEF Init, WalkInit, R!Unknown, NoCost
  <1>5. [i \in DOMAIN topEntries |-> PairOf(topEntries[i])] = <<>>
    BY DEF Init, WalkInit
  <1> QED
    BY <1>1, <1>2, <1>3, <1>4, <1>5 DEF R!Init

\* Taking an entry out of its heap to expand it leaves it open.
LEMMA TakeMaps ==
    ASSUME Inv, Take, UNCHANGED fst
    PROVE  UNCHANGED R!vars
  <1>0. PICK e \in heapA : TakeEntry(e, fst.arcs[Tip(e).state])
    BY DEF Take
  <1>1. Open' = Open
    <2>1. ThisLevel = heapA /\ e \in heapA
      BY <1>0 DEF TakeEntry, AtLoopHead, ThisLevel, CurEntry
    <2>2. cur' # <<>>
      BY <1>0, <2>1 DEF TakeEntry, Inv, TypeOK, WalkTypeOK, Entry
    <2>3. ThisLevel' = (heapA \ {e}) \cup {e} /\ heapB' = heapB
      BY <1>0, <2>2 DEF TakeEntry, ThisLevel, CurEntry
    <2> QED
      BY <2>1, <2>3 DEF Open
  <1>2. UNCHANGED <<dropped, logbook, topEntries>>
    BY <1>0 DEF TakeEntry
  <1> QED
    BY <1>1, <1>2 DEF R!vars

\* An arc that the logbook refuses changes nothing of the search.
LEMMA SkipMaps ==
    ASSUME SkipArc, UNCHANGED fst
    PROVE  UNCHANGED R!vars
  <1>1. Open' = Open
    BY DEF SkipArc, Open, ThisLevel, CurEntry
  <1> QED
    BY <1>1 DEF SkipArc, R!vars

\* An arc that is enqueued is relaxed, even when the heap drops the new entry: it
\* then holds another one in the same state at the same cost.
LEMMA EnqueueMaps ==
    ASSUME Inv, EnqueueArc, UNCHANGED fst
    PROVE  \E p \in {PairOf(e) : e \in Open} : R!Relax(p)
  <1> DEFINE p == PairOf(cur)
  <1>1. PICK e \in Entry :
             /\ cur \in Entry /\ cur \in ThisLevel
             /\ iter \in DOMAIN arcs /\ arcs[iter] \in Arc
             /\ Tip(e) = Extend(Tip(cur), arcs[iter])
             /\ logbook' = [logbook EXCEPT ![Tip(e).state] = Tip(e).cost]
             /\ \E f \in heapB' : /\ Tip(f).state = Tip(e).state
                                  /\ Tip(f).cost = Tip(e).cost
             /\ Open \subseteq Open' /\ Open' \subseteq Open \cup {e}
    BY Enqueued DEF Inv
  <1> DEFINE a == arcs[iter]
             j == iter
  <1>2. /\ Tip(e).state = a.next
        /\ Tip(e).cost = Tip(cur).cost + a.weight
        /\ p = <<Tip(cur).state, Tip(cur).cost>>
    BY <1>1 DEF Extend, PairOf
  <1>3. j \in DOMAIN fst.arcs[p[1]] /\ fst.arcs[p[1]][j] = a
    BY <1>1, <1>2 DEF Inv, ArcsOfCur, EnqueueArc
  <1>4. PairOf(e) = <<a.next, p[2] + a.weight>>
    BY <1>2 DEF PairOf
  <1>5. {PairOf(f) : f \in Open'} = {PairOf(f) : f \in Open} \cup {PairOf(e)}
    <2>1. PICK f \in heapB' : Tip(f).state = Tip(e).state /\ Tip(f).cost = Tip(e).cost
      BY <1>1
    <2>2. f \in Open' /\ PairOf(f) = PairOf(e)
      BY <2>1 DEF Open, PairOf
    <2> QED
      BY <2>2, <1>1
  <1>6. a.next # p[1] /\ R!Within(a.next, p[2] + a.weight)
    <2>1. Enqueues(Tip(cur), a)
      BY DEF EnqueueArc
    <2>2. /\ Tip(cur) \in Node /\ a.next \in State /\ a.weight \in Nat
          /\ logbook[a.next] \in Nat \cup {NoCost}
      BY <1>1, TipType DEF Inv, TypeOK, WalkTypeOK, Arc
    <2> QED
      BY <2>1, <2>2, <1>2 DEF Enqueues, R!Within, R!Unknown, NoCost, Node
  <1>7. logbook' = [logbook EXCEPT ![a.next] = p[2] + a.weight]
    BY <1>1, <1>2
  <1>8. UNCHANGED <<fst, dropped, topEntries>>
    BY DEF EnqueueArc
  <1>9. p \in {PairOf(f) : f \in Open}
    BY <1>1 DEF Open
  <1> HIDE DEF p, a, j
  <1>10. R!Relax(p)
    BY <1>3, <1>4, <1>5, <1>6, <1>7, <1>8 DEF R!Relax
  <1> QED
    BY <1>9, <1>10

\* At the end of an iteration every arc of the entry has been relaxed.
LEMMA CurRelaxed ==
    ASSUME Inv, cur # <<>>, iter > Len(arcs)
    PROVE  R!Relaxed(PairOf(cur))
  <1>1. /\ Relaxed(Tip(cur).state, Tip(cur).cost, iter - 1)
        /\ arcs = fst.arcs[Tip(cur).state] /\ arcs \in Seq(Arc) /\ iter \in Nat
    BY DEF Inv, Settled, ArcsOfCur, TypeOK, WalkTypeOK
  <1>2. \A j \in DOMAIN fst.arcs[Tip(cur).state] : j \in 1..(iter - 1)
    BY <1>1
  <1> QED
    BY <1>1, <1>2 DEF Relaxed, R!Relaxed, PairOf, R!Unknown, NoCost

\* The entry of this iteration is done; what a prune erases is lost.
LEMMA FinishMaps ==
    ASSUME Inv, FinishEntry(IsFinal) \/ FinishLevel(IsFinal), UNCHANGED fst
    PROVE  \E p \in {PairOf(e) : e \in Open} : R!Close(p)
  <1> DEFINE p == PairOf(cur)
             open == {PairOf(e) : e \in Open}
             lost == {PairOf(e) : e \in dropped}
  <1>1. cur # <<>> /\ iter > Len(arcs) /\ cur' = <<>> /\ Report(IsFinal)
    BY DEF FinishEntry, FinishLevel
  <1>2. cur \in Open
    BY <1>1 DEF Open, ThisLevel, CurEntry
  <1>3. R!Relaxed(p) /\ Len(topEntries) < NumBests
    BY <1>1, CurRelaxed DEF Inv, StillSought
  <1>4. /\ Open' \subseteq Open
        /\ dropped \subseteq dropped' /\ dropped' \subseteq dropped \cup Open
        /\ Open \ {cur} \subseteq Open' \cup dropped'
    <2>1. CASE FinishEntry(IsFinal)
      BY <2>1 DEF FinishEntry, Open, ThisLevel, CurEntry
    <2>2. CASE FinishLevel(IsFinal)
      <3>1. heapA' \subseteq heapB
        BY <2>2, PruneSubset DEF FinishLevel
      <3> QED
        BY <2>2, <3>1 DEF FinishLevel, Open, ThisLevel, CurEntry
    <2> QED
      BY <2>1, <2>2
  <1>5. open' \subseteq open /\ lost' \subseteq lost \cup open
    BY <1>4
  <1>6. lost \cup (open \ (open' \cup {p})) \subseteq lost'
    BY <1>4
  <1>7. UNCHANGED <<fst, logbook>>
    BY DEF FinishEntry, FinishLevel
  <1>8. Len(Answers) < NumBests
    BY <1>3 DEF Answers, Inv, TypeOK, WalkTypeOK
  <1>9. Answers' = IF p[1] \in fst.final THEN Append(Answers, p) ELSE Answers
    <2>1. topEntries \in Seq(Entry) /\ p[1] = Tip(cur).state
      BY DEF Inv, TypeOK, WalkTypeOK, PairOf
    <2>2. CASE p[1] \in fst.final
      <3>1. topEntries' = Append(topEntries, cur)
        BY <1>1, <2>1, <2>2 DEF Report, IsFinal
      <3>2. /\ Len(topEntries') = Len(topEntries) + 1
            /\ \A i \in 1..(Len(topEntries) + 1) : topEntries'[i] =
                  IF i = Len(topEntries) + 1 THEN cur ELSE topEntries[i]
        BY <3>1, <2>1
      <3> QED
        BY <3>1, <3>2, <2>1, <2>2 DEF Answers
    <2>3. CASE p[1] \notin fst.final
      BY <1>1, <2>1, <2>3 DEF Report, IsFinal, Answers
    <2> QED
      BY <2>2, <2>3
  <1> HIDE DEF p
  <1>10. R!Close(p)
    BY <1>3, <1>5, <1>6, <1>7, <1>8, <1>9 DEF R!Close, Answers
  <1> QED
    BY <1>2, <1>10 DEF p

\* Every step of the walk is a step of the search or leaves the search alone.
LEMMA StepMaps == Inv /\ [Next]_vars => [R!Next]_(R!vars)
  <1> SUFFICES ASSUME Inv, [Next]_vars PROVE R!Next \/ UNCHANGED R!vars
    OBVIOUS
  <1>1. CASE UNCHANGED vars
    <2>1. Open' = Open
      BY <1>1 DEF vars, walkVars, Open, ThisLevel, CurEntry
    <2> QED
      BY <1>1, <2>1 DEF vars, walkVars, R!vars
  <1>2. CASE Take /\ UNCHANGED fst
    BY <1>2, TakeMaps
  <1>3. CASE EnqueueArc /\ UNCHANGED fst
    BY <1>3, EnqueueMaps DEF R!Next
  <1>4. CASE SkipArc /\ UNCHANGED fst
    BY <1>4, SkipMaps
  <1>5. CASE (FinishEntry(IsFinal) \/ FinishLevel(IsFinal)) /\ UNCHANGED fst
    BY <1>5, FinishMaps DEF R!Next
  <1> QED
    BY <1>1, <1>2, <1>3, <1>4, <1>5 DEF Next, Step, Stop

\* The walk of Walker.cpp is a relaxing search: the levels, the order within the
\* heaps, the entries its sets drop and those the logbook refuses make no difference
\* to the pairs that are found, and nothing but prune loses one.
THEOREM WalkImplementsSearch == Spec => WalkRelaxes
  <1>1. Init => Inv
    BY TypeInit, ArcsInit, SettledInit, SoughtInit DEF Inv
  <1>2. Spec => []Inv
    <2>1. Spec => []TypeOK /\ []Settled
      BY TypeCorrect, NoImprovementLost, PTL
    <2>2. Spec => []ArcsOfCur
      BY ArcsInit, ArcsStep, PTL DEF Spec
    <2>3. Spec => []StillSought
      BY SoughtInit, SoughtStep, PTL DEF Spec
    <2> QED
      BY <2>1, <2>2, <2>3, PTL DEF Inv
  <1> QED
    BY <1>2, InitMaps, StepMaps, PTL DEF Spec, WalkRelaxes, R!Spec

-----------------------------------------------------------------------------
\* The states that a walk of k arcs leads to

\* The states that one arc leads to from a state of S.
Targets(S) == {t \in State : \E s \in S :
                 \E j \in DOMAIN fst.arcs[s] : fst.arcs[s][j].next = t}

\* ReachedWith is what its recursion says: the recursion has a solution.
LEMMA ReachedDef ==
    /\ ReachedWith[0] = {0}
    /\ \A k \in Nat : ReachedWith[k + 1] = Targets(ReachedWith[k])
  <1> DEFINE Eq(f) == f = [k \in Nat |->
                             IF k = 0 THEN {0}
                             ELSE {t \in State : \E s \in f[k - 1] :
                                     \E j \in DOMAIN fst.arcs[s] :
                                       fst.arcs[s][j].next = t}]
             g == [S \in SUBSET State |-> Targets(S)]
  <1>1. \E f : Eq(f)
    <2>1. g \in [SUBSET State -> SUBSET State] /\ {0} \in SUBSET State
      BY StateAssumption DEF Targets
    <2>2. PICK f \in [Nat -> SUBSET State] : f[0] = {0} /\ \A k \in Nat : f[k + 1] = g[f[k]]
      <3> HIDE DEF g
      <3>1. PICK f : IsOrbit(f, g, SUBSET State, {0})
        BY <2>1, IterateAll DEF IsStep
      <3> QED
        BY <3>1 DEF IsOrbit
    <2>3. ASSUME NEW k \in Nat, k # 0
          PROVE  f[k] = Targets(f[k - 1])
      <3>1. k - 1 \in Nat /\ (k - 1) + 1 = k
        BY <2>3
      <3> QED
        BY <2>2, <3>1
    <2>4. f = [k \in Nat |-> IF k = 0 THEN {0} ELSE Targets(f[k - 1])]
      BY <2>2, <2>3
    <2> QED
      BY <2>4 DEF Targets
  <1>2. ReachedWith = CHOOSE f : Eq(f)
    BY DEF ReachedWith
  <1>3. Eq(ReachedWith)
    <2> HIDE DEF Eq
    <2> QED
      BY <1>1, <1>2, Zenon
  <1>4. ReachedWith = [k \in Nat |-> IF k = 0 THEN {0} ELSE Targets(ReachedWith[k - 1])]
    BY <1>3 DEF Targets
  <1> HIDE DEF Eq
  <1>5. ReachedWith[0] = {0}
    BY <1>4
  <1>6. ASSUME NEW k \in Nat
        PROVE  ReachedWith[k + 1] = Targets(ReachedWith[k])
    <2>1. k + 1 \in Nat /\ k + 1 # 0 /\ (k + 1) - 1 = k
      OBVIOUS
    <2> QED
      BY <1>4, <2>1
  <1> QED
    BY <1>5, <1>6

\* Arcs lead to states.
LEMMA ReachedStates == \A k \in Nat : ReachedWith[k] \subseteq State
  <1>1. ASSUME NEW k \in Nat, k # 0 PROVE ReachedWith[k] \subseteq State
    <2>1. k - 1 \in Nat /\ (k - 1) + 1 = k
      BY <1>1
    <2> QED
      BY <2>1, ReachedDef DEF Targets
  <1> QED
    BY <1>1, ReachedDef, StateAssumption

-----------------------------------------------------------------------------
\* The costs of the walks of k arcs

\* What one arc makes of the pairs in P.
Moves(P) == UNION {{<<fst.arcs[p[1]][j].next, p[2] + fst.arcs[p[1]][j].weight>> :
                      j \in DOMAIN fst.arcs[p[1]]} : p \in P}

\* One arc makes pairs of pairs.
LEMMA MovesType ==
    ASSUME fst \in Composition, NEW P \in SUBSET (State \X Nat)
    PROVE  Moves(P) \in SUBSET (State \X Nat)
  <1> SUFFICES ASSUME NEW p \in State \X Nat, NEW j \in DOMAIN fst.arcs[p[1]]
               PROVE  <<fst.arcs[p[1]][j].next, p[2] + fst.arcs[p[1]][j].weight>>
                        \in State \X Nat
    BY DEF Moves
  <1>1. fst.arcs[p[1]] \in Seq(Arc)
    BY DEF Composition
  <1>2. fst.arcs[p[1]][j] \in Arc
    BY <1>1
  <1> QED
    BY <1>2 DEF Arc

\* CostsWith is what its recursion says.
LEMMA CostsDef ==
    ASSUME fst \in Composition
    PROVE  /\ CostsWith[0] = {<<0, 0>>}
           /\ \A k \in Nat : CostsWith[k + 1] = Moves(CostsWith[k])
           /\ \A k \in Nat : CostsWith[k] \in SUBSET (State \X Nat)
  <1> DEFINE Eq(f) == f = [k \in Nat |->
                             IF k = 0 THEN {<<0, 0>>}
                             ELSE UNION {{<<fst.arcs[p[1]][j].next,
                                            p[2] + fst.arcs[p[1]][j].weight>> :
                                            j \in DOMAIN fst.arcs[p[1]]} : p \in f[k - 1]}]
             V == SUBSET (State \X Nat)
             g == [P \in V |-> Moves(P)]
             c == {<<0, 0>>}
  <1>0. c \in V
    BY StateAssumption
  <1>1. PICK f \in [Nat -> V] : f[0] = c /\ \A k \in Nat : f[k + 1] = Moves(f[k])
    <2>1. g \in [V -> V]
      BY MovesType
    <2> HIDE DEF V
    <2>2. \A P \in V : g[P] = Moves(P)
      OBVIOUS
    <2> HIDE DEF g, c
    <2>3. PICK f : IsOrbit(f, g, V, c)
      BY <1>0, <2>1, IterateAll DEF IsStep
    <2> QED
      BY <2>2, <2>3 DEF IsOrbit
  <1> HIDE DEF V, c
  <1>2. Eq(f)
    <2>1. ASSUME NEW k \in Nat, k # 0
          PROVE  f[k] = Moves(f[k - 1])
      <3>1. k - 1 \in Nat /\ (k - 1) + 1 = k
        BY <2>1
      <3> QED
        BY <1>1, <3>1
    <2>2. f = [k \in Nat |-> IF k = 0 THEN c ELSE Moves(f[k - 1])]
      BY <1>1, <2>1
    <2> QED
      BY <2>2 DEF Moves, c
  <1>3. CostsWith = CHOOSE h : Eq(h)
    BY DEF CostsWith
  <1>4. Eq(CostsWith)
    <2> HIDE DEF Eq
    <2> QED
      BY <1>2, <1>3, Zenon
  <1>5. CostsWith = [k \in Nat |-> IF k = 0 THEN c ELSE Moves(CostsWith[k - 1])]
    BY <1>4 DEF Moves, c
  <1> HIDE DEF Eq
  <1>6. CostsWith[0] = c
    BY <1>5
  <1>7. ASSUME NEW k \in Nat
        PROVE  CostsWith[k + 1] = Moves(CostsWith[k])
    <2>1. k + 1 \in Nat /\ k + 1 # 0 /\ (k + 1) - 1 = k
      OBVIOUS
    <2> QED
      BY <1>5, <2>1
  <1>8. ASSUME NEW k \in Nat
        PROVE  CostsWith[k] \in V
    <2> DEFINE S == {i \in Nat : CostsWith[i] \in V}
    <2>1. 0 \in S
      BY <1>0, <1>6
    <2>2. ASSUME NEW i \in Nat, i < k, i \in S PROVE i + 1 \in S
      BY <1>7, <2>2, MovesType DEF V
    <2> HIDE DEF S
    <2>3. \A i \in 0..k : i \in S
      BY <2>1, <2>2, Climb
    <2> QED
      BY <2>3 DEF S
  <1> QED
    BY <1>6, <1>7, <1>8 DEF V, c

\* Every pair of CostsWith is that of a chain of entries.
LEMMA CostsAreOfWalks ==
    ASSUME TypeOK, NEW k \in Nat, NEW p \in CostsWith[k]
    PROVE  \E e \in Entry : IsWalk(e) /\ PairOf(e) = p
  <1> DEFINE S == {i \in Nat : \A q \in CostsWith[i] :
                     \E e \in Entry : IsWalk(e) /\ PairOf(e) = q}
  <1>0. fst \in Composition
    BY DEF TypeOK
  <1>1. 0 \in S
    <2>1. <<Root>> \in Entry /\ IsWalk(<<Root>>)
      <3>1. Len(<<Root>>) = 1 /\ <<Root>>[1] = Root
        OBVIOUS
      <3> QED
        BY <3>1, RootType DEF IsWalk
    <2>2. PairOf(<<Root>>) = <<0, 0>>
      BY DEF PairOf, Tip, Root
    <2> QED
      BY <1>0, <2>1, <2>2, CostsDef
  <1>2. ASSUME NEW i \in Nat, i < k, i \in S
        PROVE  i + 1 \in S
    <2> SUFFICES ASSUME NEW q \in CostsWith[i + 1]
                 PROVE  \E e \in Entry : IsWalk(e) /\ PairOf(e) = q
      OBVIOUS
    <2>1. PICK o \in CostsWith[i] : \E j \in DOMAIN fst.arcs[o[1]] :
            q = <<fst.arcs[o[1]][j].next, o[2] + fst.arcs[o[1]][j].weight>>
      <3>1. q \in Moves(CostsWith[i])
        BY <1>0, CostsDef
      <3> QED
        BY <3>1 DEF Moves
    <2>2. PICK e \in Entry : IsWalk(e) /\ PairOf(e) = o
      BY <1>2
    <2>3. o[1] = Tip(e).state /\ o[2] = Tip(e).cost
      BY <2>2 DEF PairOf
    <2>4. PICK j \in DOMAIN fst.arcs[Tip(e).state] :
            q = <<fst.arcs[Tip(e).state][j].next,
                  Tip(e).cost + fst.arcs[Tip(e).state][j].weight>>
      BY <2>1, <2>3
    <2> DEFINE a == fst.arcs[Tip(e).state][j]
               n == Extend(Tip(e), a)
    <2>5. e \in Seq(Node) /\ Tip(e) \in Node
      BY TipType
    <2>6. a \in Arc
      <3>1. fst.arcs[Tip(e).state] \in Seq(Arc)
        BY <1>0, <2>5 DEF Composition, Node
      <3> QED
        BY <3>1
    <2>7. Follows(Tip(e), n)
      BY <2>5, ExtendFollows
    <2>8. n.state = a.next /\ n.cost = Tip(e).cost + a.weight
      BY DEF Extend
    <2> HIDE DEF n
    <2>9. n \in Node
      BY <2>5, <2>6, ExtendType DEF n
    <2>10. Append(e, n) \in Entry /\ Tip(Append(e, n)) = n
      BY <2>5, <2>9, AppendEntry
    <2>11. IsWalk(Append(e, n))
      BY <2>2, <2>7, <2>9, AppendWalk
    <2>12. PairOf(Append(e, n)) = q
      BY <2>4, <2>8, <2>10 DEF PairOf
    <2> QED
      BY <2>10, <2>11, <2>12
  <1> HIDE DEF S
  <1>3. \A i \in 0..k : i \in S
    BY <1>1, <1>2, Climb
  <1> QED
    BY <1>3 DEF S

\* Every chain of entries that is a walk has its pair in CostsWith.
LEMMA WalksAreInCosts ==
    ASSUME TypeOK, NEW e \in Entry, IsWalk(e)
    PROVE  PairOf(e) \in CostsWith[Len(e) - 1]
  <1> DEFINE n == Len(e) - 1
             S == {i \in Nat : <<e[i + 1].state, e[i + 1].cost>> \in CostsWith[i]}
  <1>0. fst \in Composition /\ e \in Seq(Node) /\ n \in Nat /\ n + 1 = Len(e)
    BY DEF TypeOK, Entry
  <1>1. 0 \in S
    BY <1>0, CostsDef DEF IsWalk, Root
  <1>2. ASSUME NEW i \in Nat, i < n, i \in S
        PROVE  i + 1 \in S
    <2>1. i + 1 \in 1..(Len(e) - 1)
      BY <1>0, <1>2
    <2>2. Follows(e[i + 1], e[(i + 1) + 1])
      BY <2>1 DEF IsWalk
    <2> DEFINE q == <<e[i + 1].state, e[i + 1].cost>>
               r == <<e[(i + 1) + 1].state, e[(i + 1) + 1].cost>>
    <2>3. q[1] = e[i + 1].state /\ q[2] = e[i + 1].cost /\ q \in CostsWith[i]
      BY <1>2
    <2>4. \E j \in DOMAIN fst.arcs[q[1]] :
            r = <<fst.arcs[q[1]][j].next, q[2] + fst.arcs[q[1]][j].weight>>
      BY <2>2 DEF Follows
    <2> HIDE DEF q, r
    <2>5. r \in Moves(CostsWith[i])
      BY <2>3, <2>4 DEF Moves
    <2>6. r \in CostsWith[i + 1]
      BY <1>0, <2>5, CostsDef
    <2> QED
      BY <2>6 DEF r
  <1> HIDE DEF S
  <1>3. n \in S
    <2>1. \A i \in 0..n : i \in S
      BY <1>0, <1>1, <1>2, Climb
    <2> QED
      BY <1>0, <2>1
  <1> QED
    BY <1>0, <1>3 DEF S, PairOf, Tip

\* Without pruning an exhaustive walk is a shortest-path search: what it reports is
\* what the walks of the graph, computed from its arcs, cost at least.
THEOREM ExhaustiveWalkIsShortestPath == Spec => []ExhaustiveWalkIsOptimal
  <1>1. TypeOK /\ ChainsAreWalks /\ NoPathBeatsReports => ExhaustiveWalkIsOptimal
    <2> SUFFICES ASSUME TypeOK, ChainsAreWalks, NoPathBeatsReports,
                        Finished, heapA = {}, dropped = {}
                 PROVE  /\ \A k \in 0..Cardinality(State) : \A p \in CostsWith[k] :
                             p[1] \in fst.final =>
                               \E i \in DOMAIN topEntries :
                                 /\ Tip(topEntries[i]).state = p[1]
                                 /\ Tip(topEntries[i]).cost <= p[2]
                        /\ \A i \in DOMAIN topEntries :
                             PairOf(topEntries[i]) \in CostsWith[Len(topEntries[i]) - 1]
      BY DEF ExhaustiveWalkIsOptimal
    <2>1. ASSUME NEW k \in 0..Cardinality(State), NEW p \in CostsWith[k], p[1] \in fst.final
          PROVE  \E i \in DOMAIN topEntries :
                   Tip(topEntries[i]).state = p[1] /\ Tip(topEntries[i]).cost <= p[2]
      <3>1. k \in Nat
        BY FiniteStates, FS_CardinalityType
      <3>2. PICK e \in Entry : IsWalk(e) /\ PairOf(e) = p
        BY <3>1, CostsAreOfWalks
      <3> QED
        BY <2>1, <3>2 DEF PairOf, NoPathBeatsReports
    <2>2. ASSUME NEW i \in DOMAIN topEntries
          PROVE  PairOf(topEntries[i]) \in CostsWith[Len(topEntries[i]) - 1]
      <3>1. topEntries[i] \in Entry
        BY DEF TypeOK, WalkTypeOK
      <3> QED
        BY <3>1, WalksAreInCosts DEF ChainsAreWalks
    <2> QED
      BY <2>1, <2>2
  <1> QED
    BY <1>1, TypeCorrect, ReportsAreWalks, ExhaustiveWalkOptimal, PTL

-----------------------------------------------------------------------------
\* The first report

\* s has been entered; the start is never logged.
Seen(s) == s = 0 \/ logbook[s] # NoCost

\* s is not final, and every state an arc of s leads to has been entered.
Done(s) ==
    /\ s \notin fst.final
    /\ \A j \in DOMAIN fst.arcs[s] :
        fst.arcs[s][j].next = s \/ Seen(fst.arcs[s][j].next)

\* What makes FirstHasFewestArcs inductive.  As long as nothing is reported or
\* pruned, the states of the earlier levels are done, and those of this level are
\* done or still in one of its entries.
LevelsDone ==
    topEntries = <<>> /\ dropped = {} =>
        \A e \in ThisLevel :
            /\ \A k \in 0..(Len(e) - 2) : \A s \in ReachedWith[k] : Done(s)
            /\ \A s \in ReachedWith[Len(e) - 1] :
                 Done(s) \/ \E f \in ThisLevel : Tip(f).state = s

\* A state that was entered is done or waits in an entry: the logbook may refuse
\* the arc that leads to it on this level, as an earlier level led there.
SeenSettled ==
    topEntries = <<>> /\ dropped = {} =>
        \A s \in State : Seen(s) => Done(s) \/ \E f \in Open : Tip(f).state = s

\* That follows from what was proved of the costs in the logbook.
LEMMA SeenAreSettled == TypeOK /\ Settled /\ FinalsReported => SeenSettled
  <1> SUFFICES ASSUME TypeOK, Settled, FinalsReported, topEntries = <<>>, dropped = {},
                      NEW s \in State, Seen(s),
                      ~\E f \in Open : Tip(f).state = s
               PROVE  Done(s)
    BY DEF SeenSettled
  <1>1. ASSUME NEW c PROVE ~Pending(s, c) /\ ~Reported(s, c)
    BY DEF Pending, Reported
  <1>2. s \notin fst.final
    BY <1>1 DEF FinalsReported, Seen
  <1>3. PICK c : Relaxed(s, c, Len(fst.arcs[s]))
    <2>1. \E c : CostSettled(s, c)
      BY DEF Settled, Seen
    <2> QED
      BY <2>1, <1>1 DEF CostSettled
  <1>4. DOMAIN fst.arcs[s] = 1..Len(fst.arcs[s])
    BY DEF TypeOK, WalkTypeOK, Composition
  <1> QED
    BY <1>2, <1>3, <1>4 DEF Done, Seen, Relaxed

\* A state that is done stays done.
LEMMA DoneStays ==
    ASSUME TypeOK, [Next]_vars, NEW s \in State, Done(s)
    PROVE  Done(s)'
  <1>1. fst' = fst
    BY GraphFixed
  <1>2. ASSUME NEW j \in DOMAIN fst.arcs[s]
        PROVE  fst.arcs[s][j].next \in State
    <2>1. fst.arcs[s] \in Seq(Arc)
      BY DEF TypeOK, Composition
    <2>2. fst.arcs[s][j] \in Arc
      BY <2>1
    <2> QED
      BY <2>2 DEF Arc
  <1>3. ASSUME NEW t \in State, Seen(t)
        PROVE  Seen(t)'
    BY <1>3, LogbookImproves DEF Seen
  <1> QED
    BY <1>1, <1>2, <1>3 DEF Done

\* After a report there is one.
LEMMA AppendNotEmpty ==
    ASSUME NEW S, NEW seq \in Seq(S), NEW e \in S
    PROVE  Append(seq, e) # <<>>
  <1>1. Len(Append(seq, e)) = Len(seq) + 1 /\ Len(seq) \in Nat
    OBVIOUS
  <1> QED
    BY <1>1

\* The state of an entry that was expanded and not reported is done.
LEMMA FinishedDone ==
    ASSUME TypeOK, ArcsOfCur, Settled, topEntries' = <<>>, UNCHANGED <<fst, logbook>>,
           cur # <<>>, iter > Len(arcs), Report(IsFinal), NEW s, s = Tip(cur).state
    PROVE  Done(s)'
  <1>1. s \notin fst.final
    <2>1. topEntries \in Seq(Entry) /\ cur \in Entry
      BY DEF TypeOK, WalkTypeOK, Entry
    <2>2. Append(topEntries, cur) # <<>>
      BY <2>1, AppendNotEmpty
    <2> QED
      BY <2>2 DEF Report, IsFinal
  <1>2. /\ Relaxed(s, Tip(cur).cost, iter - 1) /\ arcs = fst.arcs[s]
        /\ arcs \in Seq(Arc) /\ iter \in Nat
    BY DEF Settled, ArcsOfCur, TypeOK, WalkTypeOK
  <1>3. \A j \in DOMAIN fst.arcs[s] : j \in 1..(iter - 1)
    BY <1>2
  <1> QED
    BY <1>1, <1>2, <1>3 DEF Done, Seen, Relaxed

\* Initially the start is the only entry, and the only state of its level.
LEMMA LevelsInit == Init => LevelsDone /\ FirstHasFewestArcs
  <1> SUFFICES ASSUME Init PROVE LevelsDone /\ FirstHasFewestArcs
    OBVIOUS
  <1>1. ThisLevel = {<<Root>>} /\ topEntries = <<>>
    BY DEF Init, WalkInit, ThisLevel, CurEntry
  <1>2. Len(<<Root>>) = 1 /\ Tip(<<Root>>).state = 0
    BY DEF Tip, Root
  <1>3. ReachedWith[0] = {0}
    BY ReachedDef
  <1> QED
    BY <1>1, <1>2, <1>3 DEF LevelsDone, FirstHasFewestArcs

\* The reached states depend on the graph alone.
LEMMA ReachedFixed == ASSUME fst' = fst PROVE ReachedWith' = ReachedWith
  BY DEF ReachedWith

\* What a step of this proof may use.
LevelsInv == TypeOK /\ LevelDiscipline /\ ArcsOfCur /\ Settled /\ FinalsReported

\* The states of a level are done when its last entry is, and then the entries of
\* the next level are all that the arcs of its states can still lead to.
LEMMA NextLevelDone ==
    ASSUME LevelsInv, LevelsDone, FinishLevel(IsFinal), UNCHANGED fst, SeenSettled',
           topEntries' = <<>>, dropped' = {}
    PROVE  LevelsDone'
  <1>1. topEntries = <<>> /\ dropped = {}
    <2>1. topEntries \in Seq(Entry) /\ cur \in Entry
      BY DEF LevelsInv, TypeOK, WalkTypeOK, FinishLevel, Entry
    <2>2. Append(topEntries, cur) # <<>>
      BY <2>1, AppendNotEmpty
    <2> QED
      BY <2>2 DEF FinishLevel, Report
  <1>2. /\ cur # <<>> /\ ThisLevel = {cur} /\ cur' = <<>>
        /\ heapA' = heapB /\ heapB' = {} /\ ThisLevel' = heapB /\ Open' = ThisLevel'
    <2>1. heapA' \subseteq heapB /\ heapB \ heapA' = {}
      BY PruneSubset DEF FinishLevel
    <2> QED
      BY <2>1 DEF FinishLevel, ThisLevel, CurEntry, Open
  <1>3. ReachedWith' = ReachedWith
    BY ReachedFixed
  <1>4. [Next]_vars
    BY DEF Next, Step
  <1>5. ASSUME NEW s, s = Tip(cur).state PROVE Done(s)'
    BY <1>5, FinishedDone DEF LevelsInv, FinishLevel
  <1>6. Len(cur) \in Nat \ {0}
    BY <1>2 DEF LevelsInv, TypeOK, WalkTypeOK
  <1>7. ASSUME NEW k \in 0..(Len(cur) - 1), NEW s \in ReachedWith[k], s \in State
        PROVE  Done(s)'
    <2>1. Done(s) \/ s = Tip(cur).state
      <3>1. CASE k = Len(cur) - 1
        BY <3>1, <1>1, <1>2 DEF LevelsDone
      <3>2. CASE k \in 0..(Len(cur) - 2)
        BY <3>2, <1>1, <1>2 DEF LevelsDone
      <3> QED
        BY <3>1, <3>2, <1>6
    <2> QED
      BY <2>1, <1>4, <1>5, <1>7, DoneStays DEF LevelsInv
  <1>8. \A k \in Nat : ReachedWith[k] \subseteq State
    BY ReachedStates
  <1>9. ASSUME NEW s \in ReachedWith[Len(cur)]
        PROVE  Done(s)' \/ \E f \in ThisLevel' : Tip(f).state = s
    <2>1. s \in Targets(ReachedWith[Len(cur) - 1])
      <3>1. Len(cur) - 1 \in Nat /\ (Len(cur) - 1) + 1 = Len(cur)
        BY <1>6
      <3> QED
        BY <3>1, ReachedDef
    <2>2. PICK p \in ReachedWith[Len(cur) - 1] :
            \E j \in DOMAIN fst.arcs[p] : fst.arcs[p][j].next = s
      BY <2>1 DEF Targets
    <2>3. s \in State /\ p \in State /\ Len(cur) - 1 \in 0..(Len(cur) - 1)
      BY <2>1, <1>6, <1>8 DEF Targets
    <2>4. Done(p)'
      BY <2>3, <1>7
    <2>5. p = s \/ Seen(s)'
      BY <2>2, <2>4 DEF Done, FinishLevel
    <2>6. CASE Seen(s)'
      <3>1. Done(s)' \/ \E f \in Open' : Tip(f).state = s
        BY <2>3, <2>6 DEF SeenSettled
      <3> QED
        BY <3>1, <1>2
    <2> QED
      BY <2>4, <2>5, <2>6
  <1>10. ASSUME NEW e \in ThisLevel'
         PROVE  Len(e) = Len(cur) + 1
    BY <1>2, <1>10 DEF LevelsInv, LevelDiscipline
  <1>11. ASSUME NEW e \in ThisLevel'
         PROVE  /\ \A k \in 0..(Len(e) - 2) : \A s \in ReachedWith[k] : Done(s)'
                /\ \A s \in ReachedWith[Len(e) - 1] :
                     Done(s)' \/ \E f \in ThisLevel' : Tip(f).state = s
    <2>1. Len(e) = Len(cur) + 1
      BY <1>10
    <2>2. Len(e) - 2 = Len(cur) - 1 /\ Len(e) - 1 = Len(cur)
      BY <2>1, <1>6
    <2>3. \A k \in 0..(Len(e) - 2) : k \in Nat
      OBVIOUS
    <2> QED
      BY <2>2, <2>3, <1>7, <1>8, <1>9
  <1> QED
    BY <1>3, <1>11 DEF LevelsDone

\* It is so behind a step as well.
LEMMA SeenNext == TypeOK' /\ Settled' /\ FinalsReported' => SeenSettled'
  BY SeenAreSettled, PTL

\* An iteration that ends within a level is done with the state of its entry.
LEMMA NextEntryDone ==
    ASSUME LevelsInv, LevelsDone, FinishEntry(IsFinal), UNCHANGED fst, topEntries' = <<>>,
           dropped' = {}
    PROVE  LevelsDone'
  <1>1. topEntries = <<>> /\ dropped = {}
    <2>1. topEntries \in Seq(Entry) /\ cur \in Entry
      BY DEF LevelsInv, TypeOK, WalkTypeOK, FinishEntry, Entry
    <2>2. Append(topEntries, cur) # <<>>
      BY <2>1, AppendNotEmpty
    <2> QED
      BY <2>2 DEF FinishEntry, Report
  <1>2. cur # <<>> /\ ThisLevel = heapA \cup {cur} /\ ThisLevel' = heapA
    BY DEF FinishEntry, ThisLevel, CurEntry
  <1>3. ReachedWith' = ReachedWith /\ [Next]_vars
    BY ReachedFixed DEF Next, Step
  <1>4. ASSUME NEW s, s = Tip(cur).state PROVE Done(s)'
    BY <1>4, FinishedDone DEF LevelsInv, FinishEntry
  <1>5. ASSUME NEW e \in heapA
        PROVE  /\ \A k \in 0..(Len(e) - 2) : \A s \in ReachedWith[k] : Done(s)'
               /\ \A s \in ReachedWith[Len(e) - 1] :
                    Done(s)' \/ \E f \in heapA : Tip(f).state = s
    <2>1. Len(e) \in Nat \ {0} /\ e \in ThisLevel
      BY <1>2 DEF LevelsInv, TypeOK, WalkTypeOK, Entry
    <2>2. \A k \in 0..(Len(e) - 2) : k \in Nat
      OBVIOUS
    <2>3. Len(e) - 1 \in Nat
      BY <2>1
    <2>4. \A k \in Nat : \A s \in ReachedWith[k] : Done(s) => Done(s)'
      BY <1>3, ReachedStates, DoneStays DEF LevelsInv
    <2>5. ASSUME NEW s \in ReachedWith[Len(e) - 1]
          PROVE  Done(s)' \/ \E f \in heapA : Tip(f).state = s
      <3>1. Done(s) \/ \E f \in heapA \cup {cur} : Tip(f).state = s
        BY <1>1, <1>2, <2>1 DEF LevelsDone
      <3> QED
        BY <3>1, <2>3, <2>4, <1>4
    <2> QED
      BY <1>1, <2>1, <2>2, <2>4, <2>5 DEF LevelsDone
  <1> QED
    BY <1>2, <1>3, <1>5 DEF LevelsDone

\* The steps within an iteration leave the level as it is.
LEMMA SameLevelDone ==
    ASSUME LevelsInv, LevelsDone, [Next]_vars, UNCHANGED <<topEntries, dropped>>,
           ThisLevel' = ThisLevel
    PROVE  LevelsDone'
  <1>1. ReachedWith' = ReachedWith
    BY GraphFixed, ReachedFixed
  <1>2. \A k \in Nat : \A s \in ReachedWith[k] : Done(s) => Done(s)'
    BY ReachedStates, DoneStays DEF LevelsInv
  <1>3. ASSUME NEW e \in ThisLevel
        PROVE  Len(e) - 1 \in Nat /\ \A k \in 0..(Len(e) - 2) : k \in Nat
    BY DEF LevelsInv, TypeOK, WalkTypeOK, ThisLevel, CurEntry, Entry
  <1> QED
    BY <1>1, <1>2, <1>3 DEF LevelsDone

\* Every step keeps the levels done and the first report one with the fewest arcs.
LEMMA LevelsStep ==
    LevelsInv /\ SeenSettled' /\ LevelsDone /\ FirstHasFewestArcs /\ [Next]_vars
        => LevelsDone' /\ FirstHasFewestArcs'
  <1> SUFFICES ASSUME LevelsInv, SeenSettled', LevelsDone, FirstHasFewestArcs, [Next]_vars
               PROVE  LevelsDone' /\ FirstHasFewestArcs'
    OBVIOUS
  <1>0. fst' = fst /\ ReachedWith' = ReachedWith
    BY GraphFixed, ReachedFixed
  <1>1. CASE UNCHANGED <<topEntries, dropped>> /\ ThisLevel' = ThisLevel
    BY <1>0, <1>1, SameLevelDone DEF FirstHasFewestArcs
  <1>2. CASE FinishEntry(IsFinal) \/ FinishLevel(IsFinal)
    <2>1. cur # <<>> /\ Report(IsFinal) /\ dropped \subseteq dropped'
      BY <1>2 DEF FinishEntry, FinishLevel
    <2>2. /\ topEntries \in Seq(Entry) /\ cur \in Entry
          /\ topEntries' = topEntries \/ topEntries' = Append(topEntries, cur)
      BY <2>1 DEF LevelsInv, TypeOK, WalkTypeOK, Report, Entry
    <2>3. LevelsDone'
      <3>1. CASE topEntries' = <<>> /\ dropped' = {}
        BY <1>0, <1>2, <3>1, NextEntryDone, NextLevelDone
      <3>2. CASE ~(topEntries' = <<>> /\ dropped' = {})
        BY <3>2 DEF LevelsDone
      <3> QED
        BY <3>1, <3>2
    <2>4. FirstHasFewestArcs'
      <3>1. CASE topEntries # <<>>
        <4>1. topEntries' # <<>> /\ topEntries'[1] = topEntries[1]
          BY <2>2, <3>1
        <4> QED
          BY <1>0, <2>1, <3>1, <4>1 DEF FirstHasFewestArcs
      <3>2. CASE topEntries = <<>>
        <4>1. topEntries' # <<>> => topEntries'[1] = cur
          BY <2>2, <3>2
        <4>2. dropped = {} =>
                \A k \in 0..(Len(cur) - 2) : ReachedWith[k] \cap fst.final = {}
          BY <2>1, <3>2 DEF LevelsDone, ThisLevel, CurEntry, Done
        <4> QED
          BY <1>0, <2>1, <4>1, <4>2 DEF FirstHasFewestArcs
      <3> QED
        BY <3>1, <3>2
    <2> QED
      BY <2>3, <2>4
  <1>3. CASE Take
    <2>1. PICK e \in heapA : TakeEntry(e, fst.arcs[Tip(e).state])
      BY <1>3 DEF Take
    <2>2. e # <<>>
      BY DEF LevelsInv, TypeOK, WalkTypeOK, Entry
    <2>3. ThisLevel' = ThisLevel
      BY <2>1, <2>2 DEF TakeEntry, AtLoopHead, ThisLevel, CurEntry
    <2> QED
      BY <1>1, <2>1, <2>3 DEF TakeEntry
  <1>4. CASE EnqueueArc
    BY <1>1, <1>4 DEF EnqueueArc, ThisLevel, CurEntry
  <1>5. CASE SkipArc
    BY <1>1, <1>5 DEF SkipArc, ThisLevel, CurEntry
  <1>6. CASE UNCHANGED vars
    BY <1>1, <1>6 DEF vars, walkVars, ThisLevel, CurEntry
  <1> QED
    BY <1>2, <1>3, <1>4, <1>5, <1>6 DEF Next, Step, Stop

\* Unless something was pruned, no path to a final state has fewer arcs than the
\* first alignment that walkComposed reports.
THEOREM FirstReportIsShortest == Spec => []FirstHasFewestArcs
  <1>1. Spec => []LevelsInv
    <2>1. Spec => []TypeOK /\ []LevelDiscipline
      BY TypeCorrect, LevelsKeptApart, PTL
    <2>2. Spec => []Settled /\ []FinalsReported
      BY NoImprovementLost, FinalsAreReported, PTL
    <2>3. Spec => []ArcsOfCur
      BY ArcsInit, ArcsStep, PTL DEF Spec
    <2> QED
      BY <2>1, <2>2, <2>3, PTL DEF LevelsInv
  <1>2. LevelsInv' => SeenSettled'
    BY SeenNext DEF LevelsInv
  <1> QED
    BY <1>1, <1>2, LevelsInit, LevelsStep, PTL DEF Spec

-----------------------------------------------------------------------------
\* What prune gives up

\* The entries of a heap before e.
Before(heap, e) == {f \in heap : Precedes(Tip(f), Tip(e))}

\* shortlistComparatorSharedPtr orders the nodes strictly.
LEMMA PrecedesOrder ==
    ASSUME NEW l \in Node, NEW m \in Node, NEW n \in Node
    PROVE  /\ ~Precedes(m, m)
           /\ Precedes(l, m) /\ Precedes(m, n) => Precedes(l, n)
  <1>1. \A x \in Node : /\ x.words \in Int /\ x.errors \in Int
                        /\ x.cost \in Int /\ x.state \in Int
    <2>1. ASSUME NEW x \in Node
          PROVE  x.words \in Nat /\ x.errors \in Nat /\ x.cost \in Nat /\ x.state \in State
      BY DEF Node
    <2>2. \A s \in State : s \in Int
      BY StateAssumption
    <2> QED
      BY <2>1, <2>2
  <1>2. /\ l.words \in Int /\ l.errors \in Int /\ l.cost \in Int /\ l.state \in Int
        /\ m.words \in Int /\ m.errors \in Int /\ m.cost \in Int /\ m.state \in Int
        /\ n.words \in Int /\ n.errors \in Int /\ n.cost \in Int /\ n.state \in Int
    BY <1>1
  <1> QED
    BY <1>2 DEF Precedes

\* What is before f is fewer than what is before a later entry.
LEMMA FewerBefore ==
    ASSUME NEW heap \in SUBSET Entry, IsFiniteSet(heap),
           NEW e \in heap, NEW f \in heap, Precedes(Tip(f), Tip(e))
    PROVE  /\ Cardinality(Before(heap, f)) < Cardinality(Before(heap, e))
           /\ Cardinality(Before(heap, f)) \in Nat
           /\ Cardinality(Before(heap, e)) \in Nat
  <1> DEFINE A == Before(heap, f)
             B == Before(heap, e)
  <1>0. \A g \in heap : Tip(g) \in Node
    BY TipType
  <1>1. A \subseteq B
    BY <1>0, PrecedesOrder DEF Before
  <1>2. f \in B /\ f \notin A
    BY <1>0, PrecedesOrder DEF Before
  <1>3. B \in SUBSET heap
    BY DEF Before
  <1> HIDE DEF A, B
  <1>4. IsFiniteSet(B)
    BY <1>3, FS_Subset
  <1>5. A \in SUBSET B
    BY <1>1
  <1>6. IsFiniteSet(A) /\ Cardinality(A) <= Cardinality(B) /\ Cardinality(A) # Cardinality(B)
    BY <1>2, <1>4, <1>5, FS_Subset
  <1>7. Cardinality(A) \in Nat /\ Cardinality(B) \in Nat
    BY <1>4, <1>6, FS_CardinalityType
  <1> QED
    BY <1>6, <1>7 DEF A, B

\* Where an entry is not among the leading ones, there are PruneTarget that are.
LEMMA LeadingMany ==
    ASSUME NEW heap \in SUBSET Entry, IsFiniteSet(heap), NEW d \in heap \ Leading(heap)
    PROVE  Cardinality(Leading(heap)) >= PruneTarget
  <1> DEFINE Rank(e) == Cardinality(Before(heap, e))
             S == {Rank(e) : e \in heap \ Leading(heap)}
  <1>1. \A e \in heap : Rank(e) \in Nat /\ IsFiniteSet(Before(heap, e))
    <2>1. ASSUME NEW e \in heap PROVE Rank(e) \in Nat /\ IsFiniteSet(Before(heap, e))
      <3>1. Before(heap, e) \in SUBSET heap
        BY DEF Before
      <3> QED
        BY <3>1, FS_Subset, FS_CardinalityType
    <2> QED
      BY <2>1
  <1>2. \A e \in heap : e \in Leading(heap) <=> Rank(e) < PruneTarget
    BY DEF Leading, Before
  <1> HIDE DEF Rank
  <1>3. S \in SUBSET Nat /\ S # {}
    BY <1>1
  <1>4. PICK e \in heap \ Leading(heap) : \A f \in heap \ Leading(heap) : Rank(e) <= Rank(f)
    <2>1. PICK m \in S : \A k \in S : m <= k
      BY <1>3, LeastNat
    <2> QED
      BY <2>1
  <1>5. Before(heap, e) \in SUBSET Leading(heap)
    <2>1. ASSUME NEW f \in Before(heap, e), f \notin Leading(heap)
          PROVE  FALSE
      <3>1. f \in heap /\ Precedes(Tip(f), Tip(e))
        BY DEF Before
      <3>2. Rank(f) < Rank(e) /\ Rank(f) \in Nat /\ Rank(e) \in Nat
        BY <3>1, FewerBefore DEF Rank
      <3> QED
        BY <1>4, <2>1, <3>1, <3>2
    <2> QED
      BY <2>1
  <1>6. Leading(heap) \in SUBSET heap
    BY DEF Leading
  <1>7. IsFiniteSet(Leading(heap)) /\ Cardinality(Leading(heap)) \in Nat
    BY <1>6, FS_Subset, FS_CardinalityType
  <1>8. Rank(e) <= Cardinality(Leading(heap))
    BY <1>5, <1>7, FS_Subset DEF Rank
  <1>9. Rank(e) \in Nat /\ ~(Rank(e) < PruneTarget)
    BY <1>1, <1>2
  <1> QED
    BY <1>7, <1>8, <1>9, ParameterAssumption

\* The leading entries of a heap have a last one.
LEMMA LeadingLast ==
    ASSUME NEW heap \in SUBSET Entry, IsFiniteSet(heap), Leading(heap) # {}
    PROVE  \E e \in Leading(heap) : \A f \in Leading(heap) : ~Precedes(Tip(e), Tip(f))
  <1> DEFINE Rank(e) == Cardinality(Before(heap, e))
             S == {PruneTarget - Rank(e) : e \in Leading(heap)}
  <1>1. \A e \in Leading(heap) : e \in heap /\ Rank(e) < PruneTarget
    BY DEF Leading, Before
  <1>2. \A e \in Leading(heap) : Rank(e) \in Nat
    <2>1. ASSUME NEW e \in Leading(heap) PROVE Rank(e) \in Nat
      <3>1. Before(heap, e) \in SUBSET heap
        BY DEF Before
      <3> QED
        BY <3>1, FS_Subset, FS_CardinalityType
    <2> QED
      BY <2>1
  <1>3. \A e, f \in Leading(heap) : Precedes(Tip(e), Tip(f)) => Rank(e) < Rank(f)
    BY <1>1, FewerBefore
  <1> HIDE DEF Rank
  <1>4. S \in SUBSET Nat /\ S # {}
    BY <1>1, <1>2, ParameterAssumption
  <1>5. PICK m \in S : \A k \in S : m <= k
    BY <1>4, LeastNat
  <1>6. PICK e \in Leading(heap) : m = PruneTarget - Rank(e)
    OBVIOUS
  <1>7. ASSUME NEW f \in Leading(heap) PROVE ~(Rank(e) < Rank(f))
    <2>1. m <= PruneTarget - Rank(f)
      BY <1>5
    <2> QED
      BY <1>2, <1>6, <2>1, ParameterAssumption
  <1> QED
    BY <1>3, <1>6, <1>7

\* Of a heap with one level, prune erases only entries that have more than
\* ErrorOffset errors above PruneTarget others.
LEMMA PruneErases ==
    ASSUME NEW heap \in SUBSET Entry, IsFiniteSet(heap),
           NEW n \in Nat, \A e \in heap : Len(e) = n /\ Tip(e).words = Len(e) - 1,
           NEW d \in heap \ Prune(heap)
    PROVE  Cardinality({e \in Prune(heap) :
                          /\ Len(e) = Len(d)
                          /\ Tip(e).errors + ErrorOffset < Tip(d).errors})
             >= PruneTarget
  <1> DEFINE lead == Leading(heap)
             IsLast(e) == \A f \in lead : ~Precedes(Tip(e), Tip(f))
             last == CHOOSE e \in lead : IsLast(e)
             spared == {e \in Prune(heap) :
                          /\ Len(e) = Len(d)
                          /\ Tip(e).errors + ErrorOffset < Tip(d).errors}
  <1>1. Prune(heap) = lead \cup
            {e \in heap : ~(Tip(last).errors + ErrorOffset < Tip(e).errors)}
    BY DEF Prune
  <1>2. lead \subseteq heap /\ d \in heap \ lead
    BY <1>1 DEF Leading
  <1>3. Cardinality(lead) >= PruneTarget
    BY <1>2, LeadingMany
  <1>4. lead # {}
    <2> HIDE DEF lead
    <2>1. lead = {} => Cardinality(lead) = 0
      BY FS_EmptySet
    <2> QED
      BY <1>3, <2>1, ParameterAssumption
  <1>5. last \in lead /\ IsLast(last)
    BY <1>4, LeadingLast
  <1>6. Tip(last).errors + ErrorOffset < Tip(d).errors
    BY <1>1
  <1> HIDE DEF last
  <1>7. lead \in SUBSET spared
    <2>1. ASSUME NEW e \in lead
          PROVE  e \in spared
      <3>1. /\ Tip(e) \in Node /\ Tip(last) \in Node /\ Tip(d) \in Node
            /\ Tip(e).words = Tip(last).words /\ Len(e) = Len(d)
        BY <1>2, <1>5, TipType
      <3>2. ~Precedes(Tip(last), Tip(e))
        BY <1>5
      <3>3. Tip(e).errors <= Tip(last).errors
        BY <3>1, <3>2 DEF Precedes, Node
      <3>4. Tip(e).errors + ErrorOffset < Tip(d).errors
        BY <1>6, <3>1, <3>3, ParameterAssumption DEF Node
      <3> QED
        BY <1>1, <3>1, <3>4
    <2> QED
      BY <2>1
  <1>8. spared \in SUBSET heap
    BY PruneSubset
  <1> HIDE DEF spared, lead
  <1>9. IsFiniteSet(spared) /\ IsFiniteSet(lead)
    BY <1>7, <1>8, FS_Subset
  <1>10. Cardinality(lead) <= Cardinality(spared)
    BY <1>7, <1>9, FS_Subset
  <1>11. Cardinality(lead) \in Nat /\ Cardinality(spared) \in Nat
    BY <1>9, FS_CardinalityType
  <1> QED
    BY <1>3, <1>10, <1>11, ParameterAssumption DEF spared

\* A heap is a std::set: it holds finitely many entries.
FiniteHeaps == IsFiniteSet(heapA) /\ IsFiniteSet(heapB)

\* Initially the heaps hold at most one entry.
LEMMA FiniteInit == Init => FiniteHeaps
  BY FS_Singleton, FS_EmptySet DEF Init, WalkInit, FiniteHeaps

\* Every step keeps the heaps finite.
LEMMA FiniteStep == FiniteHeaps /\ [Next]_vars => FiniteHeaps'
  <1> SUFFICES ASSUME FiniteHeaps, [Next]_vars PROVE FiniteHeaps'
    OBVIOUS
  <1> USE DEF FiniteHeaps
  <1>1. CASE Take
    <2>1. PICK e \in heapA : heapA' = heapA \ {e} /\ heapB' = heapB
      BY <1>1 DEF Take, TakeEntry
    <2> QED
      BY <2>1, FS_RemoveElement
  <1>2. CASE EnqueueArc
    <2>1. PICK e : heapB' = heapB \/ heapB' = heapB \cup {e}
      BY <1>2 DEF EnqueueArc, Insert
    <2>2. heapA' = heapA
      BY <1>2 DEF EnqueueArc
    <2> QED
      BY <2>1, <2>2, FS_AddElement
  <1>3. CASE SkipArc \/ FinishEntry(IsFinal) \/ UNCHANGED vars
    BY <1>3 DEF SkipArc, FinishEntry, vars, walkVars
  <1>4. CASE FinishLevel(IsFinal)
    <2>1. heapA' \in SUBSET heapB /\ heapB' = heapA
      BY <1>4, PruneSubset DEF FinishLevel
    <2> QED
      BY <2>1, FS_Subset
  <1> QED
    BY <1>1, <1>2, <1>3, <1>4 DEF Next, Step, Stop

\* Only the end of a level erases entries, and it does so by pruneHeap.
LEMMA SparesStep ==
    ASSUME TypeOK, LevelDiscipline, FiniteHeaps, [Next]_vars, NEW d \in dropped' \ dropped
    PROVE  Cardinality({e \in heapA' : /\ Len(e) = Len(d)
                                       /\ Tip(e).errors + ErrorOffset < Tip(d).errors})
             >= PruneTarget
  <1>1. FinishLevel(IsFinal)
    BY DEF Next, Step, Stop, Take, TakeEntry, EnqueueArc, SkipArc, FinishEntry, vars,
           walkVars
  <1>2. heapA' = Prune(heapB) /\ d \in heapB \ Prune(heapB)
    BY <1>1 DEF FinishLevel
  <1>3. heapB \in SUBSET Entry /\ cur \in ThisLevel /\ Len(cur) \in Nat
    BY <1>1 DEF TypeOK, WalkTypeOK, FinishLevel, ThisLevel, CurEntry
  <1>4. \A e \in heapB : Len(e) = Len(cur) + 1 /\ Tip(e).words = Len(e) - 1
    BY <1>3 DEF LevelDiscipline, Open
  <1>5. Len(cur) + 1 \in Nat
    BY <1>3
  <1> QED
    BY <1>2, <1>3, <1>4, <1>5, PruneErases DEF FiniteHeaps

\* Whatever the beam gives up had at least PruneTarget better rivals on its level.
THEOREM PruneSparesBest == Spec => PruneSpares
  <1>1. TypeOK /\ LevelDiscipline /\ FiniteHeaps /\ [Next]_vars
          => [\A d \in dropped' \ dropped :
                Cardinality({e \in heapA' :
                               /\ Len(e) = Len(d)
                               /\ Tip(e).errors + ErrorOffset < Tip(d).errors})
                  >= PruneTarget]_walkVars
    BY SparesStep
  <1>2. Spec => []FiniteHeaps
    BY FiniteInit, FiniteStep, PTL DEF Spec
  <1> QED
    BY <1>1, <1>2, TypeCorrect, LevelsKeptApart, PTL DEF Spec, PruneSpares
=============================================================================
