---------------------------- MODULE WalkerSteps ----------------------------
(***************************************************************************)
(* The beam search of src/src/Walker.cpp with its two heaps                *)
(* (src/src/PathHeap.cpp), one action per part of the loop of              *)
(* walkComposed.  What the walk asks of the composed graph                 *)
(* (src/src/IComposition.h) are parameters of the actions: Walker closes   *)
(* them with a fixed graph, AlignSystem with the graph that                *)
(* AdaptedComposition builds while it is walked.                           *)
(*                                                                         *)
(* walkComposed explores the graph level by level: heapA holds the entries *)
(* reached with n arcs, heapB those reached with n + 1.  A "logbook" keeps *)
(* the last cost at which every state was entered and refuses costlier     *)
(* entries.  Costs are the code's floats times two (1 -> 2, 1.5 -> 3), so  *)
(* that they are exact integers.                                           *)
(*                                                                         *)
(* A ShortlistEntry is represented by the chain of entries that its        *)
(* linkToHere pointers reach, the root first and the entry itself last.    *)
(***************************************************************************)
EXTENDS Integers, Sequences, FiniteSets

CONSTANTS
    State,               \* ids of composed states; the walk starts in 0
    Label,               \* symbol ids carried by the arcs; 0 is <eps>
    NumBests,            \* numBests: the walk stops after that many finals
    LoopsBeforePruning,  \* numberOfLoopsBeforePruning
    PruneTarget,         \* pruningHeapSizeTarget
    ErrorOffset          \* the "+ 20" of PathHeap::prune

\* An arc of the composed graph, as copied into MyArc.
Arc == [ilabel : Label, olabel : Label, weight : Nat, next : State]

ASSUME StateAssumption == State \subseteq Nat /\ 0 \in State /\ 0 \in Label
ASSUME ParameterAssumption ==
    /\ NumBests \in Nat
    /\ LoopsBeforePruning \in Nat
    /\ PruneTarget \in Nat \ {0}
    /\ ErrorOffset \in Nat

VARIABLES
    heapA, heapB,          \* the current level and the next one
    logbook,               \* state -> cost, NoCost where nothing is logged
    topEntries,            \* the entries that reached a final state
    loopSinceLastPruning,
    cur,                   \* currentState_ptr, <<>> at the head of the loop
    arcs,                  \* arcs_leaving_state of cur
    iter,                  \* position in arcs
    dropped                \* history: the entries erased by prune

walkVars == <<heapA, heapB, logbook, topEntries, loopSinceLastPruning,
              cur, arcs, iter, dropped>>

-----------------------------------------------------------------------------
\* Entries and heaps

NoCost == -1

Node == [state : State, words : Nat, errors : Nat, cost : Nat, arc : Arc]

\* firstEntry, with the default-constructed MyArc.
Root_Unset ==               \* mutant: the cost starts at the marker value
    [state |-> 0, words |-> 0, errors |-> 0, cost |-> NoCost,
     arc |-> [ilabel |-> 0, olabel |-> 0, weight |-> 0, next |-> 0]]

Root == [state |-> 0, words |-> 0, errors |-> 0, cost |-> 0,
         arc |-> [ilabel |-> 0, olabel |-> 0, weight |-> 0, next |-> 0]]

Tip(e) == e[Len(e)]

\* The node that enqueueIfNeeded builds from node n and arc a.  numInsert is
\* left out: it is not inherited along a path and only the log reads it.
Extend_LostCost(n, a) ==    \* mutant: the cost of the path so far is lost
    [state |-> a.next, words |-> n.words + 1,
     errors |-> n.errors + (IF a.weight > 0 THEN 1 ELSE 0),
     cost |-> a.weight, arc |-> a]

Extend(n, a) ==
    [state |-> a.next, words |-> n.words + 1,
     errors |-> n.errors + (IF a.weight > 0 THEN 1 ELSE 0),
     cost |-> n.cost + a.weight, arc |-> a]

\* shortlistComparatorSharedPtr: number of arcs, errors, cost, state.
Precedes(m, n) ==
    \/ m.words < n.words
    \/ /\ m.words = n.words
       /\ \/ m.errors < n.errors
          \/ /\ m.errors = n.errors
             /\ \/ m.cost < n.cost
                \/ m.cost = n.cost /\ m.state < n.state

SameKey_NoState(m, n) ==    \* mutant: the key leaves out the state
    m.words = n.words /\ m.errors = n.errors /\ m.cost = n.cost

SameKey(m, n) == ~Precedes(m, n) /\ ~Precedes(n, m)

\* std::set::insert keeps the element it already has under an equal key.
Insert(heap, e) ==
    IF \E f \in heap : SameKey(Tip(f), Tip(e)) THEN heap ELSE heap \cup {e}

IsFirst(heap, e) == e \in heap /\ \A f \in heap : ~Precedes(Tip(f), Tip(e))

\* PathHeap::prune keeps the first PruneTarget entries, and of the others
\* those with at most ErrorOffset errors more than the last one kept.
Leading(heap) ==
    {e \in heap :
        Cardinality({f \in heap : Precedes(Tip(f), Tip(e))}) < PruneTarget}

Prune_TooMuch(heap) ==      \* mutant: an offset of ErrorOffset is pruned, too
    LET lead == Leading(heap)
        last == CHOOSE e \in lead : \A f \in lead : ~Precedes(Tip(e), Tip(f))
    IN  lead \cup {e \in heap : Tip(e).errors < Tip(last).errors + ErrorOffset}

Prune(heap) ==
    LET lead == Leading(heap)
        last == CHOOSE e \in lead : \A f \in lead : ~Precedes(Tip(e), Tip(f))
    IN  lead \cup {e \in heap : ~(Tip(last).errors + ErrorOffset < Tip(e).errors)}

-----------------------------------------------------------------------------
\* The walk

WalkInit ==
    /\ heapA = {<<Root>>}
    /\ heapB = {}
    /\ logbook = [s \in State |-> NoCost]
    /\ topEntries = <<>>
    /\ loopSinceLastPruning = 0
    /\ cur = <<>>
    /\ arcs = <<>>
    /\ iter = 1
    /\ dropped = {}

\* The condition of the while loop, between two entries.
AtLoopHead == cur = <<>>
Continues == heapA # {} /\ Len(topEntries) < NumBests
Finished == AtLoopHead /\ ~Continues

\* removeFirst takes entry e, and TryGetArcsAtState answers with out.  It returns
\* true for every state that a composition has handed out, so that the branch of
\* walkComposed for "no arcs leaving state" is never taken.
TakeEntry_Keeps(e, out) ==  \* mutant: the entry stays in the heap
    /\ AtLoopHead
    /\ Continues
    /\ IsFirst(heapA, e)
    /\ cur' = e
    /\ arcs' = out
    /\ iter' = 1
    /\ UNCHANGED <<heapA, heapB, logbook, topEntries, loopSinceLastPruning, dropped>>

TakeEntry(e, out) ==
    /\ AtLoopHead
    /\ Continues
    /\ IsFirst(heapA, e)
    /\ cur' = e
    /\ heapA' = heapA \ {e}
    /\ arcs' = out
    /\ iter' = 1
    /\ UNCHANGED <<heapB, logbook, topEntries, loopSinceLastPruning, dropped>>

\* The test of enqueueIfNeeded for an arc that leaves node n.
Enqueues_Anything(n, a) ==  \* mutant: the logbook refuses nothing
    a.next # n.state

Enqueues_FirstOnly(n, a) == \* mutant: a state is entered only once
    /\ a.next # n.state
    /\ logbook[a.next] = NoCost

Enqueues_NoWeight(n, a) ==  \* mutant: the weight of the arc is left out
    /\ a.next # n.state
    /\ logbook[a.next] = NoCost \/ logbook[a.next] >= n.cost

Enqueues(n, a) ==
    /\ a.next # n.state
    /\ logbook[a.next] = NoCost \/ logbook[a.next] >= n.cost + a.weight

\* enqueueIfNeeded accepts the arc: log its cost, insert it into heapB.
EnqueueArc ==
    /\ cur # <<>>
    /\ iter <= Len(arcs)
    /\ Enqueues(Tip(cur), arcs[iter])
    /\ LET new == Extend(Tip(cur), arcs[iter])
       IN  /\ logbook' = [logbook EXCEPT ![new.state] = new.cost]
           /\ heapB' = Insert(heapB, Append(cur, new))
    /\ iter' = iter + 1
    /\ UNCHANGED <<heapA, topEntries, loopSinceLastPruning, cur, arcs, dropped>>

\* A self loop, or an arc that enqueueIfNeeded refuses.
SkipArc ==
    /\ cur # <<>>
    /\ iter <= Len(arcs)
    /\ ~Enqueues(Tip(cur), arcs[iter])
    /\ iter' = iter + 1
    /\ UNCHANGED <<heapA, heapB, logbook, topEntries, loopSinceLastPruning, cur,
                   arcs, dropped>>

\* An expanded entry is reported when its state is final.
Report_Once(isFinal) ==     \* mutant: only the first entry of a final state
    topEntries' =
        IF isFinal /\ ~\E i \in DOMAIN topEntries :
                          Tip(topEntries[i]).state = Tip(cur).state
        THEN Append(topEntries, cur) ELSE topEntries

Report(isFinal) ==
    topEntries' = IF isFinal THEN Append(topEntries, cur) ELSE topEntries

\* The end of an iteration when the current level has more entries.
FinishEntry(isFinal) ==
    /\ cur # <<>>
    /\ iter > Len(arcs)
    /\ heapA # {}
    /\ Report(isFinal)
    /\ cur' = <<>>
    /\ arcs' = <<>>
    /\ iter' = 1
    /\ UNCHANGED <<heapA, heapB, logbook, loopSinceLastPruning, dropped>>

PrunesNow == heapB # {} /\ loopSinceLastPruning >= LoopsBeforePruning

\* The end of the level: prune heapB if it is time to, and swap the heaps.
FinishLevel_Early(isFinal) ==   \* mutant: swaps before the level is done
    /\ cur # <<>>
    /\ iter > Len(arcs)
    /\ Report(isFinal)
    /\ cur' = <<>>
    /\ arcs' = <<>>
    /\ iter' = 1
    /\ heapA' = IF PrunesNow THEN Prune(heapB) ELSE heapB
    /\ heapB' = heapA
    /\ dropped' = dropped \cup (heapB \ heapA')
    /\ loopSinceLastPruning' = IF PrunesNow THEN 1 ELSE loopSinceLastPruning + 1
    /\ UNCHANGED logbook

FinishLevel(isFinal) ==
    /\ cur # <<>>
    /\ iter > Len(arcs)
    /\ heapA = {}
    /\ Report(isFinal)
    /\ cur' = <<>>
    /\ arcs' = <<>>
    /\ iter' = 1
    /\ heapA' = IF PrunesNow THEN Prune(heapB) ELSE heapB
    /\ heapB' = heapA
    /\ dropped' = dropped \cup (heapB \ heapA')
    /\ loopSinceLastPruning' = IF PrunesNow THEN 1 ELSE loopSinceLastPruning + 1
    /\ UNCHANGED logbook

-----------------------------------------------------------------------------
\* Properties

Entry == {e \in Seq(Node) : e # <<>>}

\* The values that the variables of the walk take.
WalkTypeOK ==
    /\ heapA \subseteq Entry /\ heapB \subseteq Entry /\ dropped \subseteq Entry
    /\ logbook \in [State -> Nat \cup {NoCost}]
    /\ topEntries \in Seq(Entry)
    /\ loopSinceLastPruning \in Nat
    /\ cur \in Seq(Node)
    /\ arcs \in Seq(Arc)
    /\ iter \in Nat \ {0}

CurEntry == IF cur = <<>> THEN {} ELSE {cur}
ThisLevel == heapA \cup CurEntry
Open == ThisLevel \cup heapB

\* The two heaps never mix levels: everything in heapA, and the entry being
\* expanded, was reached with the same number of arcs, everything in heapB with
\* one arc more, and the loop never ends while heapB holds entries.
LevelDiscipline ==
    /\ \A e \in Open : Tip(e).words = Len(e) - 1
    /\ \A e, f \in ThisLevel : Len(e) = Len(f)
    /\ \A e \in heapB : \A f \in ThisLevel : Len(e) = Len(f) + 1
    /\ heapB # {} => ThisLevel # {}

\* Alignments are reported by number of arcs, and a later level reports a final
\* state only at a cost that is no higher than the earlier levels did.  The start
\* is the exception: the first entry is not logged, so that a cycle can enter it
\* once more at any cost.
ReportOrder ==
    \A i, j \in DOMAIN topEntries :
        i < j =>
            LET m == Tip(topEntries[i])
                n == Tip(topEntries[j])
            IN  /\ m.words <= n.words
                /\ m.words < n.words /\ m.state = n.state /\ m.state # 0
                      => n.cost <= m.cost

\* prune gives up an entry only when PruneTarget entries of the same level that
\* stay in the heap have more than ErrorOffset errors less.
PruneSpares ==
    [][\A d \in dropped' \ dropped :
        Cardinality({e \in heapA' : /\ Len(e) = Len(d)
                                    /\ Tip(e).errors + ErrorOffset < Tip(d).errors})
            >= PruneTarget]_walkVars
=============================================================================
