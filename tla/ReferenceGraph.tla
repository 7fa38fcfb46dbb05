-------------------------- MODULE ReferenceGraph ---------------------------
(***************************************************************************)
(* From the rows of an NLP reference (src/src/Nlp.cpp) to the graph that   *)
(* is composed with the hypothesis: rows become tokens, rows of one entity *)
(* become a class label with alternatives, tokens become a graph, and      *)
(* SynonymEngine (src/src/SynonymEngine.cpp) splices synonyms into it.     *)
(*                                                                         *)
(* A graph under construction is a record: edges, a sequence in the order  *)
(* of the AddArc calls, n, the number of states, and last, the state where *)
(* the next token starts.  A finished graph is that of AdaptedComposition. *)
(***************************************************************************)
EXTENDS Integers, FiniteSets, Sequences, SequencesExt, Selections

CONSTANTS
    EntityLabel,    \* symbol ids of class labels, ___1_MONEY___
    SynonymLabel    \* symbol ids of synonym labels, in the order they are given

Eps == 0
NoLabel == 0        \* the empty best_label of a row
NoPunctuation == 0

-----------------------------------------------------------------------------
\* The constructor of NlpFstLoader.  A row has at least the fields token, label
\* (the symbol of its class or NoLabel) and punctuation.  The alternatives of a
\* label are mJsonNorm[id].candidates: those of the normalization file first.

PunctuationRow(row) ==    \* punc_row; its token is left empty as its punctuation
    [row EXCEPT !.token = NoPunctuation, !.label = NoLabel,
                !.punctuation = NoPunctuation, !.tags = {}]

\* One row: a row of the class of the row before adds its word to the last
\* alternative, which is the text of the rows themselves.
LoadWord(l, row) ==
    CASE row.label = NoLabel ->
           [l EXCEPT !.mToken = Append(@, row.token)]
      [] row.label # NoLabel /\ row.label # l.last_label ->
           [l EXCEPT !.mToken = Append(@, row.label),
                     !.candidates[row.label] = Append(@, <<row.token>>)]
      [] OTHER ->
           [l EXCEPT !.candidates[row.label] =
                        Append(Front(@), Append(Last(@), row.token))]

LoadRow(l, row, use_punctuation) ==
    LET word == LoadWord(l, row)
        split == use_punctuation /\ row.punctuation # NoPunctuation
    IN  [word EXCEPT
           !.mToken = IF split THEN Append(@, row.punctuation) ELSE @,
           !.mNlpRows = @ \o <<row>> \o (IF split THEN <<PunctuationRow(row)>>
                                         ELSE <<>>),
           !.last_label = row.label]

\* The loader of the given rows, with the alternatives of the normalization file.
NlpFstLoader(records, normalization, use_punctuation) ==
    FoldLeft(LAMBDA l, row : LoadRow(l, row, use_punctuation),
             [mToken |-> <<>>, mNlpRows |-> <<>>, candidates |-> normalization,
              last_label |-> NoLabel],
             records)

-----------------------------------------------------------------------------
\* convertToFst

Edge(p, l, w, q) == [from |-> p, label |-> l, weight |-> w, next |-> q]

\* The words as a path of the fresh states n, n + 1, ... that starts in p.
Spell(p, words, n) ==
    [i \in DOMAIN words |->
       Edge(IF i = 1 THEN p ELSE n + i - 2, words[i], 0, n + i - 1)]

EndOf(p, words, n) == IF words = <<>> THEN p ELSE n + Len(words) - 1

\* A class between p and n + 2: its label leads in to n, the alternatives lead from
\* there to n + 1, and its label leads out.
ClassEdges(p, label, weight, n, alternatives) ==
    LET lengths == [k \in DOMAIN alternatives |-> Len(alternatives[k])]
        fresh(k) == n + 3 + SumTo(lengths, k - 1)
    IN  <<Edge(p, label, weight, n), Edge(n + 1, label, 0, n + 2)>>
        \o FlattenSeq([k \in DOMAIN alternatives |->
              Append(Spell(n, alternatives[k], fresh(k)),
                     Edge(EndOf(n, alternatives[k], fresh(k)), Eps, 0, n + 1))])

\* A token that the first pass has marked gets the weight that makes it match.
Weight(map, i) == IF i <= Len(map) /\ map[i] > 0 THEN 1 ELSE 0

\* The graph of the tokens; a token is a word, a class label or the <eps> that the
\* loaders of OneBest and NLP files put at the end.
ConvertToFst(tokens, map, candidates) ==
    LET isClass(i) == tokens[i] \in EntityLabel
        sizes == [i \in DOMAIN tokens |->
                    IF isClass(i)
                    THEN 3 + Len(FlattenSeq(candidates[tokens[i]])) ELSE 1]
        fresh(i) == 1 + SumTo(sizes, i - 1)
        end(i) == IF i = 0 THEN 0 ELSE fresh(i) + (IF isClass(i) THEN 2 ELSE 0)
    IN  [edges |-> FlattenSeq([i \in DOMAIN tokens |->
                     IF isClass(i)
                     THEN ClassEdges(end(i - 1), tokens[i], Weight(map, i), fresh(i),
                                     candidates[tokens[i]])
                     ELSE <<Edge(end(i - 1), tokens[i], Weight(map, i), fresh(i))>>]),
         n |-> 1 + SumTo(sizes, Len(sizes)),
         last |-> end(Len(tokens))]

-----------------------------------------------------------------------------
\* SynonymEngine::ApplyToFst.  A rule has a lhs and one alternative rhs for it.

EdgesFrom(g, s) == Those(g.edges, {j \in DOMAIN g.edges : g.edges[j].from = s})

\* The states that each state leads to with a word.
Behind(g, word) ==
    [s \in 0..(g.n - 1) |->
       LET read == Those(g.edges, {k \in DOMAIN g.edges :
                                     g.edges[k].from = s /\ g.edges[k].label = word})
       IN  [k \in DOMAIN read |-> read[k].next]]

\* The states where the words are read to the end from one of the states.
Read(g, states, words) ==
    FoldLeft(LAMBDA ends, word : FlattenSeq([j \in DOMAIN ends |-> Behind(g, word)[ends[j]]]),
             states, words)

SeekForward_FirstWord(g, lhs, s) ==   \* mutant: only the first word is compared
    Read(g, <<s>>, <<Head(lhs)>>)

\* SeekForward: the states where the words of lhs end, read from s.
SeekForward(g, lhs, s) == Read(g, <<s>>, lhs)

\* The replacements, in the order in which they get their labels.
Replacements(g, rules) ==
    FlattenSeq([i \in 1..g.n |->
      LET out == EdgesFrom(g, i - 1)
      IN  FlattenSeq([j \in DOMAIN out |->
            LET tried == [r \in DOMAIN rules |->
                           [from |-> i - 1, words |-> rules[r].rhs,
                            replaced |-> Len(rules[r].lhs),
                            ends |-> When(Head(rules[r].lhs) = out[j].label,
                                          SeekForward(g, rules[r].lhs, i - 1))]]
            IN  Those(tried, {r \in DOMAIN tried : tried[r].ends # <<>>})])])

LabelOf(k) == CHOOSE l \in SynonymLabel :
                 Cardinality({m \in SynonymLabel : m < l}) = k - 1

\* A replacement between the fresh states n, n + 1, ...: its label leads in, its
\* words follow, its label leads to every state where the words replaced may end.
ReplacementEdges(f, label, n) ==
    LET last == EndOf(n, f.words, n + 1)
    IN  <<Edge(f.from, label, 0, n)>> \o Spell(n, f.words, n + 1)
        \o [k \in DOMAIN f.ends |-> Edge(last, label, 0, f.ends[k])]

\* The graph with the replacements repl, which are Replacements(g, rules).
ApplyToFst(g, repl) ==
    LET sizes == [k \in DOMAIN repl |-> 1 + Len(repl[k].words)]
    IN  [g EXCEPT
           !.edges = @ \o FlattenSeq([k \in DOMAIN repl |->
                        ReplacementEdges(repl[k], LabelOf(k), g.n + SumTo(sizes, k - 1))]),
           !.n = @ + SumTo(sizes, Len(sizes))]

-----------------------------------------------------------------------------
\* RmEpsilon and ArcSort of OpenFst, on a graph whose <eps> arcs never follow each
\* other: what an <eps> arc leads to is moved to where it starts, and the arcs are
\* sorted by descending labels.
RmEpsilon(g) ==
    [out |-> [s \in 0..(g.n - 1) |->
                LET edges == EdgesFrom(g, s)
                IN  FlattenSeq([j \in DOMAIN edges |->
                      IF edges[j].label = Eps THEN EdgesFrom(g, edges[j].next)
                      ELSE <<edges[j]>>])],
     last |-> g.last]

Sorted(edges) ==
    FoldLeft(LAMBDA s, e :
               InsertAt(s, 1 + Cardinality({j \in DOMAIN s : s[j].label >= e.label}), e),
             <<>>, edges)

ToArcs(edges) ==
    [j \in DOMAIN edges |-> [label |-> edges[j].label, weight |-> edges[j].weight,
                             next |-> edges[j].next]]

\* The graph of the reference as the composition gets it, of RmEpsilon(g).  The <eps> at its end is
\* removed, which makes the state before it final.
ReferenceFst(removed) ==
    [arcs |-> [s \in DOMAIN removed.out |-> ToArcs(Sorted(removed.out[s]))],
     final |-> {removed.last}]

\* The graph as the loader leaves it, with its <eps> arc.
LoadedFst(g) ==
    [arcs |-> [s \in 0..(g.n - 1) |-> ToArcs(EdgesFrom(g, s))],
     final |-> {g.last}]
=============================================================================
