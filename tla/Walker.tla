------------------------------- MODULE Walker -------------------------------
(***************************************************************************)
(* A walk over a composed graph that is fixed beforehand, as the one of    *)
(* StandardCompositionFst (src/src/StandardComposition.cpp).               *)
(***************************************************************************)
EXTENDS WalkerSteps

CONSTANT Compositions   \* the composed graphs a walk may be given

\* What IComposition promises to the walker: the arcs that leave a state, in
\* the order TryGetArcsAtState returns them, and the states with Final.
Composition == [arcs : [State -> Seq(Arc)], final : SUBSET State]

ASSUME CompositionAssumption == Compositions \subseteq Composition

\* The ids of composed states are ints.
ASSUME FiniteStates == IsFiniteSet(State)

VARIABLE fst            \* the composed graph of this walk

vars == <<fst, walkVars>>

Init == fst \in Compositions /\ WalkInit

IsFinal == Tip(cur).state \in fst.final

Take == \E e \in heapA : TakeEntry(e, fst.arcs[Tip(e).state])

Step ==
    /\ \/ Take
       \/ EnqueueArc
       \/ SkipArc
       \/ FinishEntry(IsFinal)
       \/ FinishLevel(IsFinal)
    /\ UNCHANGED fst

Stop == Finished /\ UNCHANGED vars

Next == Step \/ Stop

Spec == Init /\ [][Next]_vars

\* walkComposed runs on one thread and every call it makes returns.
FairSpec == Spec /\ WF_vars(Step)

-----------------------------------------------------------------------------
\* Properties

\* The composed graph and the variables of the walk keep their types.
TypeOK == fst \in Composition /\ WalkTypeOK

\* n is what one arc of the composed graph makes of m.
Follows(m, n) ==
    \E j \in DOMAIN fst.arcs[m.state] :
        LET a == fst.arcs[m.state][j]
        IN  /\ n.arc = a
            /\ n.state = a.next
            /\ n.words = m.words + 1
            /\ n.cost = m.cost + a.weight
            /\ n.errors = m.errors + (IF a.weight = 0 THEN 0 ELSE 1)

IsWalk(e) ==
    /\ e[1] = Root
    /\ \A i \in 1..(Len(e) - 1) : Follows(e[i], e[i + 1])

\* The chain of linkToHere pointers of every entry, reported ones included, is
\* a walk of the composed graph from its start, and the counters of each entry
\* are the sums over that walk: what the traceback relies on.
ChainsAreWalks ==
    /\ \A e \in Open : IsWalk(e)
    /\ \A i \in DOMAIN topEntries :
        IsWalk(topEntries[i]) /\ Tip(topEntries[i]).state \in fst.final

Pending(s, c) ==
    \E e \in Open \cup dropped : Tip(e).state = s /\ Tip(e).cost = c

\* The first k arcs of s lead to states that are logged at no more than c plus
\* the weight of the arc.
Relaxed(s, c, k) ==
    \A j \in 1..k :
        LET a == fst.arcs[s][j]
        IN  \/ a.next = s
            \/ logbook[a.next] # NoCost /\ logbook[a.next] <= c + a.weight

CostSettled(s, c) == Pending(s, c) \/ Relaxed(s, c, Len(fst.arcs[s]))

\* No improvement is lost: a cost in the logbook is either still to be expanded
\* (or was pruned), or all its arcs are relaxed.  An entry that the heap drops
\* because of an equal key, or that the logbook refuses, must not break this.
Settled ==
    /\ CostSettled(0, 0)
    /\ \A s \in State : logbook[s] # NoCost => CostSettled(s, logbook[s])
    /\ cur # <<>> => Relaxed(Tip(cur).state, Tip(cur).cost, iter - 1)

Reported(s, c) ==
    \E i \in DOMAIN topEntries :
        Tip(topEntries[i]).state = s /\ Tip(topEntries[i]).cost = c

\* The cheapest known way into a final state is pending, pruned or reported.
FinalsReported ==
    /\ 0 \in fst.final => Pending(0, 0) \/ Reported(0, 0)
    /\ \A f \in fst.final : logbook[f] # NoCost =>
            Pending(f, logbook[f]) \/ Reported(f, logbook[f])

\* Where an entry stands and at what cost.
PairOf(e) == <<Tip(e).state, Tip(e).cost>>

\* The same pair of every walk with exactly k arcs, from the graph alone.
CostsWith ==
    LET w[k \in Nat] ==
          IF k = 0 THEN {<<0, 0>>}
          ELSE UNION {{<<fst.arcs[p[1]][j].next, p[2] + fst.arcs[p[1]][j].weight>> :
                         j \in DOMAIN fst.arcs[p[1]]} : p \in w[k - 1]}
    IN  w

\* A walk that ran out of entries and pruned none has reported, for every path of
\* the composed graph to a final state, an alignment that costs no more, and no
\* alignment that is not such a path.  Paths that visit no state twice decide it.
ExhaustiveWalkIsOptimal ==
    Finished /\ heapA = {} /\ dropped = {} =>
        /\ \A k \in 0..Cardinality(State) : \A p \in CostsWith[k] :
             p[1] \in fst.final =>
                \E i \in DOMAIN topEntries :
                    Tip(topEntries[i]).state = p[1] /\ Tip(topEntries[i]).cost <= p[2]
        /\ \A i \in DOMAIN topEntries :
             PairOf(topEntries[i]) \in CostsWith[Len(topEntries[i]) - 1]

\* The states that a walk of exactly k arcs leads to.
ReachedWith ==
    LET r[k \in Nat] ==
          IF k = 0 THEN {0}
          ELSE {t \in State : \E s \in r[k - 1] :
                  \E j \in DOMAIN fst.arcs[s] : fst.arcs[s][j].next = t}
    IN  r

\* Unless entries were pruned, the first alignment reported is one with the
\* fewest arcs, whatever the logbook has refused on the way.
FirstHasFewestArcs ==
    topEntries # <<>> /\ dropped = {} =>
        \A k \in 0..(Len(topEntries[1]) - 2) : ReachedWith[k] \cap fst.final = {}

-----------------------------------------------------------------------------
\* The abstract search that the walk implements.
R == INSTANCE Relaxation WITH
        graph <- fst,
        open <- {PairOf(e) : e \in Open},
        lost <- {PairOf(e) : e \in dropped},
        dist <- logbook,
        answers <- [i \in DOMAIN topEntries |-> PairOf(topEntries[i])]

\* The walk is a search that relaxes every arc of every pair it has met: levels, the
\* order in the heaps, entries dropped under an equal key and entries refused by the
\* logbook make no difference to what is found, and only prune loses a pair.
WalkRelaxes == R!Spec

\* Every walk ends.
Terminates == <>Finished
=============================================================================
