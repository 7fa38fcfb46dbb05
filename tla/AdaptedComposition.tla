------------------------ MODULE AdaptedComposition -------------------------
(***************************************************************************)
(* AdaptedCompositionFst (src/src/AdaptedComposition.cpp): the composition *)
(* of a reference graph fstA with a hypothesis graph fstB, built state by  *)
(* state while it is walked.  A composed state stands for a pair of states *)
(* of the two graphs; the arcs that leave it are the ways to match, skip,  *)
(* insert or substitute the next words.                                    *)
(*                                                                         *)
(* A graph is a record: arcs gives the arcs that leave each state, in the  *)
(* order of the FST, and final the final states.  Both start in state 0.   *)
(* Costs are those of IComposition.h times two, as in WalkerSteps.         *)
(***************************************************************************)
EXTENDS Integers, FiniteSets, Sequences, SequencesExt, Selections

CONSTANTS
    EntityLabel,    \* ids of the class labels of the reference, ___1_MONEY___
    SynonymLabel,   \* ids of the synonym labels, ___100000_SYN_1-2___
    DelLabel        \* del_label_id_, the output of a class label

VARIABLES
    fstA, fstB,          \* the graphs of the reference and the hypothesis
    composed_states,     \* the pair of the composed state i is at index i + 1
    entity_exit_states   \* pairs of a state of fstA and a label that leaves there

compVars == <<fstA, fstB, composed_states, entity_exit_states>>

insertion_cost == 2
deletion_cost == 2
substitution_cost == 3

Eps == 0

-----------------------------------------------------------------------------
\* GetOrCreateComposedState, for the pairs of a sequence one after the other: a
\* pair gets the next id the first time it is asked for.  composed_states and
\* reversed_composed_states are one sequence here.
Created(states, pairs) ==
    states \o Those(pairs, {j \in DOMAIN pairs : /\ pairs[j] \notin ToSet(states)
                                                /\ \A i \in 1..(j - 1) : pairs[i] # pairs[j]})

IdOf(states, pair) == (CHOOSE i \in DOMAIN states : states[i] = pair) - 1

\* Start() of a fresh composition: the pair of the two start states.
Start == <<<<0, 0>>>>

Final(s) ==
    /\ composed_states[s + 1][1] \in fstA.final
    /\ composed_states[s + 1][2] \in fstB.final

-----------------------------------------------------------------------------
\* IsEntityReacheable: the states of fstA that an arc labelled target leaves and
\* that can be reached from a by reading the words of fstB from b, without an
\* error, in the order of the depth-first search.  The search stops at the first.
Exits(target, a, b) ==
    LET exits[p \in DOMAIN fstA.arcs, q \in DOMAIN fstB.arcs] ==
          FlattenSeq([j \in DOMAIN fstA.arcs[p] |->
            LET arcA == fstA.arcs[p][j]
                matching == SelectSeq(fstB.arcs[q],
                                      LAMBDA arcB : arcB.label = arcA.label)
            IN  IF arcA.label = target THEN <<p>>
                ELSE IF arcA.label = Eps THEN exits[arcA.next, q]
                ELSE FlattenSeq([k \in DOMAIN matching |->
                                   exits[arcA.next, matching[k].next]])])
    IN  exits[a, b]

-----------------------------------------------------------------------------
\* TryGetArcsAtState.  A proposal is an arc whose target is still a pair.
Proposal(i, o, cost, a, b) ==
    [ilabel |-> i, olabel |-> o, weight |-> cost, pair |-> <<a, b>>]

Insertion_Swapped(a, arcB) ==    \* mutant: input and output label exchanged
    Proposal(arcB.label, Eps, insertion_cost, a, arcB.next)

Insertion(a, arcB) == Proposal(Eps, arcB.label, insertion_cost, a, arcB.next)

\* The inner loop: the word of arcA against the word of arcB.  A word with a
\* weight must match: it is neither inserted nor substituted.
Against_InsertsMarked(a, arcA, arcB) ==  \* mutant: a marked word is inserted
    When(arcA.label = arcB.label,
         <<Proposal(arcA.label, arcB.label, 0, arcA.next, arcB.next)>>)
    \o <<Insertion(a, arcB)>>
    \o When(arcA.weight <= 0 /\ arcB.weight <= 0,
            <<Proposal(arcA.label, arcB.label, substitution_cost,
                       arcA.next, arcB.next)>>)

Against(a, arcA, arcB) ==
    When(arcA.label = arcB.label,
         <<Proposal(arcA.label, arcB.label, 0, arcA.next, arcB.next)>>)
    \o When(arcB.weight <= 0, <<Insertion(a, arcB)>>)
    \o When(arcA.weight <= 0 /\ arcB.weight <= 0,
            <<Proposal(arcA.label, arcB.label, substitution_cost,
                       arcA.next, arcB.next)>>)

IsWord(arcA) == arcA.label # Eps /\ arcA.label \notin EntityLabel \cup SynonymLabel

\* Whether a class label may be entered or left.  For synonyms the exit must be at
\* hand, or be known to be here because a search has found it before.
Enters_AtHand(a, arcA, b) ==     \* mutant: the exits found are not remembered
    \/ arcA.label \notin SynonymLabel
    \/ Exits(arcA.label, arcA.next, b) # <<>>

Enters(a, arcA, b) ==
    \/ <<a, arcA.label>> \in entity_exit_states
    \/ arcA.label \notin SynonymLabel
    \/ Exits(arcA.label, arcA.next, b) # <<>>

\* num_match behind the first k arcs of state a.  It is not reset between the arcs,
\* so that a match of an earlier arc suppresses the deletions of the later ones.
NumMatch(a, b, k) ==
    LET A == fstA.arcs[a]
        taken == {j \in 1..k : A[j].next # a}
    IN  Cardinality({j \in taken : /\ A[j].label # Eps
                                   /\ ~IsWord(A[j])
                                   /\ Enters(a, A[j], b)})
        + Cardinality({p \in taken \X DOMAIN fstB.arcs[b] :
                         /\ IsWord(A[p[1]])
                         /\ A[p[1]].label = fstB.arcs[b][p[2]].label})

\* What arc k of state a contributes.
ProposalsOf(a, b, k) ==
    LET arcA == fstA.arcs[a][k]
        word == FlattenSeq([m \in DOMAIN fstB.arcs[b] |->
                              Against(a, arcA, fstB.arcs[b][m])])
    IN  CASE arcA.next = a -> <<>>
          [] arcA.next # a /\ arcA.label = Eps ->
               <<Proposal(Eps, Eps, 0, arcA.next, b)>>
          [] arcA.next # a /\ arcA.label # Eps /\ ~IsWord(arcA) ->
               When(Enters(a, arcA, b),
                    <<Proposal(arcA.label, DelLabel, 0, arcA.next, b)>>)
          [] OTHER ->
               word \o When(NumMatch(a, b, k) = 0 \/ arcA.weight < 0,
                            <<Proposal(arcA.label, Eps, deletion_cost,
                                       arcA.next, b)>>)

\* Behind the last word of the reference, the hypothesis can only be inserted.
Trailing_Ignored(a, b) == <<>>   \* mutant: the rest of the hypothesis is dropped

Trailing(a, b) ==
    LET arcsB == fstB.arcs[b]
        free == Those(arcsB, {m \in DOMAIN arcsB : arcsB[m].weight <= 0})
    IN  When(fstA.arcs[a] = <<>>, [m \in DOMAIN free |-> Insertion(a, free[m])])

\* The answer for the composed state s.
Proposals(s) ==
    LET a == composed_states[s + 1][1]
        b == composed_states[s + 1][2]
    IN  FlattenSeq([k \in DOMAIN fstA.arcs[a] |-> ProposalsOf(a, b, k)])
          \o Trailing(a, b)

\* The exits that the searches of this call have found.
ExitsFound(s) ==
    LET a == composed_states[s + 1][1]
        b == composed_states[s + 1][2]
        searched == {k \in DOMAIN fstA.arcs[a] :
                       LET arcA == fstA.arcs[a][k]
                       IN  /\ arcA.next # a
                           /\ arcA.label \in SynonymLabel
                           /\ <<a, arcA.label>> \notin entity_exit_states
                           /\ Exits(arcA.label, arcA.next, b) # <<>>}
        found(arcA) == <<Head(Exits(arcA.label, arcA.next, b)), arcA.label>>
    IN  {found(fstA.arcs[a][k]) : k \in searched}

\* The proposals as arcs between composed states.
ArcsTo(out, states) ==
    [j \in DOMAIN out |->
       [ilabel |-> out[j].ilabel, olabel |-> out[j].olabel,
        weight |-> out[j].weight, next |-> IdOf(states, out[j].pair)]]

\* TryGetArcsAtState records the pairs and the exits that it meets on the way to
\* its answer out, which is Proposals(s); the graphs stay.
TryGetArcsAtState(s, out) ==
    /\ composed_states' = Created(composed_states, [j \in DOMAIN out |-> out[j].pair])
    /\ entity_exit_states' = entity_exit_states \cup ExitsFound(s)
    /\ UNCHANGED <<fstA, fstB>>

=============================================================================
