----------------------------- MODULE Relaxation -----------------------------
(***************************************************************************)
(* What the walk of src/src/Walker.cpp promises, without its heaps, levels *)
(* and chains of entries: a search for the cheapest ways from state 0 to   *)
(* the final states of a graph.  A pair of a state and a cost is open      *)
(* until every arc that leaves the state is relaxed at that cost; pairs    *)
(* may be taken in any order and arcs be relaxed in any order.  A pair may *)
(* also be given up, which the search has to own up to.                    *)
(***************************************************************************)
EXTENDS Integers, Sequences

CONSTANTS
    State,      \* the states of the graph; the search starts in 0
    NumBests    \* the search stops after that many answers

VARIABLES
    graph,      \* [arcs |-> the arcs that leave each state, final |-> a set]
    open,       \* the pairs <<state, cost>> that are still to be relaxed
    lost,       \* those that were given up
    dist,       \* the cost at which each state was last entered
    answers     \* pairs of final states, in the order they are found

vars == <<graph, open, lost, dist, answers>>

Unknown == -1

IsGraph ==
    /\ 0 \in State
    /\ \A s \in State : \A j \in DOMAIN graph.arcs[s] :
            graph.arcs[s][j].next \in State /\ graph.arcs[s][j].weight \in Nat

Init ==
    /\ IsGraph
    /\ open = {<<0, 0>>}
    /\ lost = {}
    /\ dist = [s \in State |-> Unknown]
    /\ answers = <<>>

\* A cost is never entered above one that is known.
Within(t, c) == dist[t] = Unknown \/ c <= dist[t]

Relaxed(p) ==
    \A j \in DOMAIN graph.arcs[p[1]] :
        LET a == graph.arcs[p[1]][j]
        IN  a.next = p[1] \/ (dist[a.next] # Unknown /\ dist[a.next] <= p[2] + a.weight)

Relax(p) ==
    \E j \in DOMAIN graph.arcs[p[1]] :
        LET a == graph.arcs[p[1]][j]
        IN  /\ a.next # p[1]
            /\ Within(a.next, p[2] + a.weight)
            /\ dist' = [dist EXCEPT ![a.next] = p[2] + a.weight]
            /\ open' = open \cup {<<a.next, p[2] + a.weight>>}
            /\ UNCHANGED <<graph, lost, answers>>

\* A pair is done and is an answer if its state is final.  It stays open when there
\* are more ways to it.  What else is no longer open is lost.
Close(p) ==
    /\ Relaxed(p)
    /\ Len(answers) < NumBests
    /\ answers' = IF p[1] \in graph.final THEN Append(answers, p) ELSE answers
    /\ open' \subseteq open
    /\ lost' \subseteq lost \cup open
    /\ lost \cup (open \ (open' \cup {p})) \subseteq lost'
    /\ UNCHANGED <<graph, dist>>

Next == \E p \in open : Relax(p) \/ Close(p)

Spec == Init /\ [][Next]_vars

-----------------------------------------------------------------------------
\* A search that has nothing open and has lost nothing knows the cost of every
\* state it can reach: dist is closed under the arcs, and holds for the answers.
Complete ==
    open = {} /\ lost = {} =>
        /\ Relaxed(<<0, 0>>)
        /\ \A s \in State : dist[s] # Unknown =>
             /\ Relaxed(<<s, dist[s]>>)
             /\ s \in graph.final =>
                  \E i \in DOMAIN answers : answers[i] = <<s, dist[s]>>
=============================================================================
