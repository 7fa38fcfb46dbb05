------------------------------ MODULE MCWalker ------------------------------
(***************************************************************************)
(* Small composed graphs for Walker.                                       *)
(***************************************************************************)
EXTENDS Walker

\* The arcs that the compositions make: a match, an insertion, a deletion and
\* a substitution, at twice the costs of IComposition.h.
MCLabel == 0..2
cor(t) == [ilabel |-> 1, olabel |-> 1, weight |-> 0, next |-> t]
ins(t) == [ilabel |-> 0, olabel |-> 1, weight |-> 2, next |-> t]
del(t) == [ilabel |-> 1, olabel |-> 0, weight |-> 2, next |-> t]
sub(t) == [ilabel |-> 1, olabel |-> 2, weight |-> 3, next |-> t]

Maybe(t) == {<<>>, <<cor(t)>>, <<ins(t)>>, <<sub(t)>>}

\* All graphs on 0..3 whose arcs lead to higher states, at most one per pair;
\* both orders of the arcs of state 0.
MCState == 0..4
Layered ==
    {[arcs |-> [s \in MCState |->
                  CASE s = 0 -> a1 \o a2 \o a3
                    [] s = 1 -> b3 \o b2
                    [] s = 2 -> c3
                    [] OTHER -> <<>>],
      final |-> F] :
        a1 \in Maybe(1), a2 \in Maybe(2), a3 \in Maybe(3),
        b2 \in Maybe(2), b3 \in Maybe(3), c3 \in Maybe(3),
        F \in {{3}, {2, 3}}}

\* Graphs with parallel arcs, self loops, arcs back to the start and cycles
\* that cost something, as a reference or hypothesis graph from a file may have.
Odd ==
    {[arcs |-> [s \in MCState |->
                  CASE s = 0 -> x \o <<ins(2), cor(1)>>
                    [] s = 1 -> y \o <<sub(3), del(3)>>
                    [] s = 2 -> z \o <<cor(3), ins(0)>>
                    [] s = 3 -> w
                    [] OTHER -> <<del(1)>>],
      final |-> F] :
        x \in {<<>>, <<sub(1)>>, <<cor(0)>>, <<ins(4)>>},
        y \in {<<>>, <<ins(2)>>, <<sub(2), ins(2)>>, <<cor(4)>>},
        z \in {<<>>, <<ins(1)>>, <<cor(4)>>, <<del(1), del(1)>>},
        w \in {<<>>, <<ins(1)>>, <<cor(4)>>, <<cor(3), sub(0)>>},
        F \in {{3}, {4}, {1, 3}, {0, 4}}}

MCCompositions == Layered \cup Odd
=============================================================================
