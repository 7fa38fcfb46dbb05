------------------------ MODULE StandardComposition ------------------------
(***************************************************************************)
(* StandardCompositionFst (src/src/StandardComposition.cpp): OpenFst       *)
(* composes the reference graph with the edits of its words, the edits     *)
(* with the hypothesis graph, and the two results lazily with each other.  *)
(* The graphs are those of texts: Determinize leaves them as they are, and *)
(* the only <eps> arcs are those at their ends.                            *)
(*                                                                         *)
(* A composed state is a pair of states as in AdaptedComposition, whose    *)
(* numbering serves here, too.  The order of the arcs of a state, which    *)
(* OpenFst chooses, is the order of the reference graph.                   *)
(***************************************************************************)
EXTENDS AdaptedComposition

\* The weight that a loader gives to a marked word is the float 1.
WeightOf(arc) == 2 * arc.weight

\* SequenceComposeFilter: where the first graph has nothing but <eps>, the second
\* one waits for it; a deletion is an <eps> of the edits, which do not go on once
\* the hypothesis has taken its own.
OnlyEps(a) == fstA.arcs[a] # <<>> /\ \A j \in DOMAIN fstA.arcs[a] : fstA.arcs[a][j].label = Eps
BehindEps(b) == \E p \in DOMAIN fstB.arcs : \E j \in DOMAIN fstB.arcs[p] :
                   fstB.arcs[p][j].next = b /\ fstB.arcs[p][j].label = Eps

\* What halfEdit1 and halfEdit2 make of a word of each side: a match, and one half
\* of the cost of a substitution from each, whatever the words.
WordAgainst_Half(arcA, arcB) ==    \* mutant: the hypothesis pays for no substitution
    LET weight == WeightOf(arcA) + WeightOf(arcB)
    IN  When(arcA.label = arcB.label,
             <<Proposal(arcA.label, arcB.label, weight, arcA.next, arcB.next)>>)
        \o <<Proposal(arcA.label, arcB.label, weight + (substitution_cost \div 2),
                      arcA.next, arcB.next)>>

WordAgainst(arcA, arcB) ==
    LET weight == WeightOf(arcA) + WeightOf(arcB)
    IN  When(arcA.label = arcB.label,
             <<Proposal(arcA.label, arcB.label, weight, arcA.next, arcB.next)>>)
        \o <<Proposal(arcA.label, arcB.label, weight + substitution_cost,
                      arcA.next, arcB.next)>>

\* A deletion is made of the two halves of <del>, an insertion of those of <ins>.
OfReference(a, arcA, b) ==
    LET arcsB == fstB.arcs[b]
        words == Those(arcsB, {m \in DOMAIN arcsB : arcsB[m].label # Eps})
    IN  IF arcA.label = Eps THEN <<Proposal(Eps, Eps, 0, arcA.next, b)>>
        ELSE FlattenSeq([m \in DOMAIN words |-> WordAgainst(arcA, words[m])])
             \o When(~BehindEps(b),
                     <<Proposal(arcA.label, Eps, WeightOf(arcA) + deletion_cost,
                                arcA.next, b)>>)

OfHypothesis(a, arcB) ==
    <<Proposal(Eps, arcB.label,
               IF arcB.label = Eps THEN 0 ELSE WeightOf(arcB) + insertion_cost,
               a, arcB.next)>>

StandardProposals(s) ==
    LET a == composed_states[s + 1][1]
        b == composed_states[s + 1][2]
    IN  FlattenSeq([k \in DOMAIN fstA.arcs[a] |-> OfReference(a, fstA.arcs[a][k], b)])
        \o When(~OnlyEps(a), FlattenSeq([m \in DOMAIN fstB.arcs[b] |->
                                           OfHypothesis(a, fstB.arcs[b][m])]))

\* The lazy composition numbers the pairs as it expands a state.
StandardTryGetArcsAtState(s, out) ==
    /\ composed_states' = Created(composed_states, [j \in DOMAIN out |-> out[j].pair])
    /\ UNCHANGED <<fstA, fstB, entity_exit_states>>
=============================================================================
