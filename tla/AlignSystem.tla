---------------------------- MODULE AlignSystem ----------------------------
(***************************************************************************)
(* Fstalign (src/src/fstalign.cpp) from the two texts to the alignment it  *)
(* returns: the optional first pass, the graphs that the loaders build     *)
(* from the texts and its maps, the synonyms spliced into the reference,   *)
(* and the walk over the composed graph that grows under the walk.         *)
(***************************************************************************)
EXTENDS FirstPass, SequencesExt

CONSTANTS
    RuleSets,        \* the synonym files an alignment may be given, see rules below
    SynonymOptions,  \* the values of syn_opts
    StemOf, PartsOf, \* the words with hyphens, see SynonymRules
    StandardInputs,  \* inputs, of plain words, that standard composition is used for
    FirstPassModes,  \* the values of levenstein_first_pass
    EpsModes,        \* the values of finalEps
    State, Label,    \* composed states and symbol ids, see WalkerSteps
    NumBests, LoopsBeforePruning, PruneTarget, ErrorOffset,
    InsLabel, DelLabel,   \* the symbol ids of <ins> and <del>
    EntityLabel,     \* the class labels that a reference may hold
    Candidates,      \* for each of them the sequence of its alternatives
    SynonymLabel     \* the symbol ids of the synonym labels, above all words

\* No word of a text is spelled like a label, and standard composition is used for
\* texts without classes.
ASSUME TextAssumption ==
    /\ EntityLabel \cap SynonymLabel = {}
    /\ 0 \notin EntityLabel \cup SynonymLabel
    /\ \A p \in Inputs :
         /\ p[1] \in Seq(Word \ (SynonymLabel \cup {0}))
         /\ p[2] \in Seq(Word \ (EntityLabel \cup SynonymLabel \cup {0}))
    /\ \A p \in StandardInputs : p[1] \in Seq(Word \ EntityLabel)

\* The alternatives of classes and synonyms are made of words.
ASSUME SynonymAssumption ==
    /\ Candidates \in [EntityLabel -> Seq(Seq(Word))]
    /\ RuleSets \subseteq Seq([lhs : Seq(Word), alternatives : Seq(Seq(Word))])
    /\ StemOf \in [DOMAIN StemOf -> Word]
    /\ PartsOf \in [DOMAIN PartsOf -> Seq(Word)]

ASSUME ModeAssumption == FirstPassModes \subseteq BOOLEAN /\ EpsModes \subseteq BOOLEAN

VARIABLES
    composition_approach,
    levenstein_first_pass,
    finalEps,        \* whether the hypothesis graph ends in an <eps> arc
    rules,           \* the lines of the synonyms file: [lhs, alternatives]
    syn_opts,        \* [disable_cutoffs, disable_hyphen_ignore]
    best,            \* the chain of the alignment returned
    fstA, fstB, composed_states, entity_exit_states,
    heapA, heapB, logbook, topEntries, loopSinceLastPruning, cur, arcs, iter,
    dropped

C == INSTANCE StandardComposition
G == INSTANCE ReferenceGraph
T == INSTANCE Traceback
W == INSTANCE WalkerSteps
E == INSTANCE SynonymRules

compVars == <<fstA, fstB, composed_states, entity_exit_states>>
walkVars == <<heapA, heapB, logbook, topEntries, loopSinceLastPruning, cur, arcs,
              iter, dropped>>
optionVars == <<composition_approach, levenstein_first_pass, finalEps, rules, syn_opts>>
allVars == <<vars, optionVars, best, compVars, walkVars>>

-----------------------------------------------------------------------------
\* The graphs

UsedRefMap == IF useMaps THEN refMap ELSE <<>>
UsedHypMap == IF useMaps THEN hypMap ELSE <<>>

HypTokens == IF finalEps THEN Append(hyp, G!Eps) ELSE hyp

\* The words of the symbol table: addToSymbolTable of the reference, which has the
\* words of the alternatives of its classes, and of the hypothesis.
Symbols ==
    FlattenSeq([i \in DOMAIN ref |-> IF ref[i] \in EntityLabel
                                     THEN FlattenSeq(Candidates[ref[i]]) ELSE <<ref[i]>>])
    \o hyp

Synonyms == E!GenerateSynFromSymbolTable(E!ParseStrings(rules), Symbols, syn_opts)

-----------------------------------------------------------------------------
\* wer_alignment::WER of the alignments that the traceback reads off two chains,
\* errors per word of the reference that was read.
ArcsOf(e) == [k \in 1..(Len(e) - 1) |-> e[k + 1].arc]
Details(e) == T!GetDetails(ArcsOf(e)).alignment

LowerWER_Reversed(d, f) ==       \* mutant: the worst alignment comes first
    T!NumErrors(d) * f.numWordsInReference > T!NumErrors(f) * d.numWordsInReference

LowerWER(d, f) ==
    T!NumErrors(d) * f.numWordsInReference < T!NumErrors(f) * d.numWordsInReference

-----------------------------------------------------------------------------
\* Fstalign

AlignInit ==
    /\ Init
    /\ levenstein_first_pass \in FirstPassModes
    /\ finalEps \in EpsModes
    /\ rules \in RuleSets
    /\ syn_opts \in SynonymOptions
    /\ \/ composition_approach = "adapted"
       \/ /\ composition_approach = "standard"
          /\ <<ref, hyp>> \in StandardInputs /\ rules = <<>>
    /\ best = <<>>
    /\ fstA = <<>> /\ fstB = <<>>
    /\ composed_states = <<>> /\ entity_exit_states = {}
    /\ W!WalkInit

FirstPassStep ==
    /\ levenstein_first_pass
    /\ Step
    /\ UNCHANGED <<optionVars, best, compVars, walkVars>>

\* Without the first pass the maps stay empty, which has no error streak.
NoFirstPass ==
    /\ ~levenstein_first_pass
    /\ phase = "start"
    /\ phase' = "done"
    /\ useMaps' = TRUE
    /\ UNCHANGED <<inputVars, rowVars, trackVars, refMap, hypMap, x, optionVars, best,
                   compVars, walkVars>>

\* The graphs are built and the walk starts with the composed state (0, 0).  For
\* adapted composition the <eps> arc is removed from the reference with its synonyms.
AdaptedReference ==
    \E g \in {G!ConvertToFst(ref, UsedRefMap, Candidates)} :
    \E repl \in {G!Replacements(g, E!InOrder(Synonyms))} :
    \E spliced \in {G!ApplyToFst(g, repl)} :
    \E removed \in {G!RmEpsilon(spliced)} : fstA' = G!ReferenceFst(removed)

StandardReference ==
    \E g \in {G!ConvertToFst(Append(ref, G!Eps), UsedRefMap, Candidates)} :
        fstA' = G!LoadedFst(g)

BuildGraphs ==
    /\ phase = "done"
    /\ \/ composition_approach = "adapted" /\ AdaptedReference
       \/ composition_approach = "standard" /\ StandardReference
    /\ \E g \in {G!ConvertToFst(HypTokens, UsedHypMap, Candidates)} :
          fstB' = G!LoadedFst(g)
    /\ composed_states' = C!Start
    /\ phase' = "walk"
    /\ UNCHANGED <<inputVars, rowVars, trackVars, relaxVars, optionVars, best,
                   entity_exit_states, walkVars>>

\* The composition answers for the state of the entry taken, and grows.
TakeAdapted ==
    /\ composition_approach = "adapted"
    /\ \E e \in heapA : \E out \in {C!Proposals(W!Tip(e).state)} :
          /\ C!TryGetArcsAtState(W!Tip(e).state, out)
          /\ W!TakeEntry(e, C!ArcsTo(out, composed_states'))

TakeStandard ==
    /\ composition_approach = "standard"
    /\ \E e \in heapA : \E out \in {C!StandardProposals(W!Tip(e).state)} :
          /\ C!StandardTryGetArcsAtState(W!Tip(e).state, out)
          /\ W!TakeEntry(e, C!ArcsTo(out, composed_states'))

WalkStep ==
    /\ phase = "walk"
    /\ \/ TakeAdapted
       \/ TakeStandard
       \/ /\ \/ W!EnqueueArc
             \/ W!SkipArc
             \/ W!FinishEntry(C!Final(W!Tip(cur).state))
             \/ W!FinishLevel(C!Final(W!Tip(cur).state))
          /\ UNCHANGED compVars
    /\ UNCHANGED <<vars, optionVars, best>>

\* The alignments are sorted by WER and the first one is returned; sort is not
\* stable, so that any of those with the lowest WER may come first.  Without one
\* the call ends with the exception "no alignment produced".
Return ==
    /\ phase = "walk"
    /\ W!Finished
    /\ IF topEntries = <<>>
       THEN phase' = "thrown" /\ UNCHANGED best
       ELSE /\ \E details \in {[i \in DOMAIN topEntries |-> Details(topEntries[i])]} :
               \E i \in DOMAIN topEntries :
                 /\ \A j \in DOMAIN topEntries : ~LowerWER(details[j], details[i])
                 /\ best' = topEntries[i]
            /\ phase' = "returned"
    /\ UNCHANGED <<inputVars, rowVars, trackVars, relaxVars, optionVars, compVars,
                   walkVars>>

AlignStep ==
    \/ FirstPassStep \/ NoFirstPass \/ BuildGraphs
    \/ WalkStep
    \/ Return

Done == phase \in {"returned", "thrown"} /\ UNCHANGED allVars

AlignNext == AlignStep \/ Done

\* One thread runs from the first pass to the end.
AlignSpec == AlignInit /\ [][AlignNext]_allVars /\ WF_allVars(AlignStep)
-----------------------------------------------------------------------------
\* Properties

\* The types, and that the walk only meets composed states that have an id.
TypeOK ==
    /\ W!WalkTypeOK
    /\ phase \in {"walk", "returned", "thrown"} =>
            \A e \in W!Open : W!Tip(e).state < Len(composed_states)
    /\ levenstein_first_pass \in BOOLEAN /\ finalEps \in BOOLEAN

\* What chains read: the words of the reference and of the hypothesis.
Read(arc, l) == IF T!IsLabel(arc.ilabel) \/ l = 0 THEN <<>> ELSE <<l>>
RefRead(e) == FlattenSeq([k \in DOMAIN ArcsOf(e) |-> Read(ArcsOf(e)[k], ArcsOf(e)[k].ilabel)])
HypRead(e) == FlattenSeq([k \in DOMAIN ArcsOf(e) |-> Read(ArcsOf(e)[k], ArcsOf(e)[k].olabel)])

\* Neither classes nor synonyms: the words read are those of the texts.
Plain == Synonyms = E!NoSynonyms /\ \A i \in DOMAIN ref : ref[i] \notin EntityLabel

\* What a text reads when the words of a rule may be replaced where they stand and
\* a class label stands for any of its alternatives.
Occurs(lhs, text, i) ==
    /\ i + Len(lhs) <= Len(text)
    /\ \A k \in DOMAIN lhs : text[i + k] = lhs[k]

Concatenated(R, S) == {r \o s : r \in R, s \in S}

\* The pairs of words and what they may be replaced by: the first line of the file
\* for these words, or without one a cutoff word without its hyphen, a compound word
\* in parts or parts put together to a word that is in one of the texts.
Replaceable ==
    LET first == {i \in DOMAIN rules : \A k \in 1..(i - 1) : rules[k].lhs # rules[i].lhs}
        inFile(lhs) == \E i \in DOMAIN rules : rules[i].lhs = lhs
        words == ToSet(Symbols)
        cutoffs == IF syn_opts.disable_cutoffs THEN {} ELSE words \cap DOMAIN StemOf
        compounds == IF syn_opts.disable_hyphen_ignore THEN {}
                     ELSE words \cap DOMAIN PartsOf
        made == {<<<<word>>, <<StemOf[word]>>>> : word \in cutoffs}
                \cup {<<<<word>>, PartsOf[word]>> : word \in compounds}
                \cup {<<PartsOf[word], <<word>>>> : word \in compounds}
    IN  UNION {{<<rules[i].lhs, rhs>> : rhs \in ToSet(rules[i].alternatives)} : i \in first}
        \cup {p \in made : ~inFile(p[1])}

WordReadings(text) ==
    LET from[i \in 0..Len(text)] ==
          IF i = Len(text) THEN {<<>>}
          ELSE Concatenated({<<text[i + 1]>>}, from[i + 1])
               \cup UNION {Concatenated({p[2]}, from[i + Len(p[1])]) :
                             p \in {q \in Replaceable : Occurs(q[1], text, i)}}
    IN  from[0]

ClassReadings(label) ==
    UNION {WordReadings(Candidates[label][k]) : k \in DOMAIN Candidates[label]}

Readings(text) ==
    LET before[i \in 1..(Len(text) + 1)] ==   \* the words that end in front of i
          IF i > 1 /\ text[i - 1] \notin EntityLabel THEN before[i - 1] ELSE i
        upto[i \in 0..Len(text)] ==
          IF i = 0 THEN {<<>>}
          ELSE IF text[i] \in EntityLabel
          THEN Concatenated(upto[i - 1], ClassReadings(text[i]))
          ELSE Concatenated(upto[before[i] - 1],
                            WordReadings(SubSeq(text, before[i], i)))
    IN  upto[Len(text)]

Unreachable == 1000   \* above the cost of every alignment of the texts checked

\* The least cost of an alignment, over all alignments that leave the words marked
\* in the hypothesis to a match and substitute no word marked in the reference.
LeastCost(text, tmap, hypWords, omap) ==
    LET marked(map, i) == i <= Len(map) /\ map[i] > 0
        indices(s) == [k \in DOMAIN s |-> k]
        \* row[j + 1]: the cost of a prefix of text and the first j of hypWords
        row0 == FoldLeft(LAMBDA row, j :
                           Append(row, IF marked(omap, j) THEN Unreachable
                                       ELSE row[j] + C!insertion_cost),
                         <<0>>, indices(hypWords))
        next(prev, i) ==
          FoldLeft(LAMBDA row, j :
                     Append(row, Min({prev[j + 1] + C!deletion_cost}
                       \cup (IF marked(omap, j) THEN {}
                             ELSE {row[j] + C!insertion_cost})
                       \cup (IF text[i] = hypWords[j] THEN {prev[j]} ELSE {})
                       \cup (IF marked(tmap, i) \/ marked(omap, j) THEN {}
                             ELSE {prev[j] + C!substitution_cost}))),
                   <<prev[1] + C!deletion_cost>>, indices(hypWords))
    IN  Last(FoldLeft(next, row0, indices(text)))

\* What the compositions make of the texts.  Adapted composition takes the <eps> arc
\* of a loader for one more word that matches nothing; in standard composition it
\* is free, and every path pays for all words that are marked.
Marks(map) == Cardinality({i \in DOMAIN map : map[i] > 0})

LeastOfTexts ==
    IF composition_approach = "adapted"
    THEN LeastCost(ref, UsedRefMap, HypTokens, UsedHypMap)
    ELSE LeastCost(ref, <<>>, hyp, <<>>) + 2 * (Marks(UsedRefMap) + Marks(UsedHypMap))

Walked == phase \in {"returned", "thrown"}
Costs == {W!Tip(topEntries[i]).cost : i \in DOMAIN topEntries}

\* Two texts always have an alignment: neither the words that must match nor a
\* deletion that the composition leaves out in favour of a match is a dead end.
AlignmentProduced == phase # "thrown"

\* Every alignment accounts for each word of the hypothesis and for each word of
\* one reading of the reference, in their order.
ReadsTexts ==
    Walked => \A i \in DOMAIN topEntries :
        /\ HypRead(topEntries[i]) = hyp
        /\ RefRead(topEntries[i]) \in Readings(ref)

\* The composed state of an entry stands behind the words that its chain has read.
EntriesStandWhereTheyRead ==
    \A e \in W!Open :
        phase = "walk" =>
          LET pair == composed_states[W!Tip(e).state + 1]
              read == Len(HypRead(e))
              refRead == Len(RefRead(e))
          IN  /\ \/ pair[2] = read
                 \/ pair[2] = read + 1 /\ read = Len(hyp)
              /\ \/ pair[1] = refRead
                 \/ pair[1] = refRead + 1 /\ refRead = Len(ref)
                 \/ ~Plain

\* A word of the hypothesis that the first pass has marked is matched in every
\* alignment, and a marked word of the reference is never substituted.
MarkedWordsMatch ==
    Walked /\ useMaps /\ composition_approach = "adapted" =>
        \A i \in DOMAIN topEntries : \A k \in 2..Len(topEntries[i]) :
            LET arc == topEntries[i][k].arc
                upTo == SubSeq(topEntries[i], 1, k)
                marked(map, read) == map # <<>> /\ map[Len(read)] > 0
            IN  /\ Read(arc, arc.olabel) # <<>> /\ marked(hypMap, HypRead(upTo))
                     => arc.ilabel = arc.olabel
                /\ Plain /\ Read(arc, arc.ilabel) # <<>> /\ marked(refMap, RefRead(upTo))
                     => arc.olabel \in {arc.ilabel, 0}

\* The cheapest alignment there is has been reported: neither the greedy expansion
\* of the adapted composition nor the logbook and the levels of the walk lose it.
CheapestReported ==
    Walked =>
        LET least == LeastOfTexts
        IN  least \in Costs /\ \A c \in Costs : least <= c

\* A hypothesis that is the reference up to synonyms has no error.
SynonymsAreFree ==
    phase = "returned" /\ hyp \in Readings(ref) => T!NumErrors(Details(best)) = 0

\* The alignment returned has as few errors as two texts can have
\* (src/src/AdaptedComposition.h:37: "Calculates edit distance between two FSTs
\* through manual single-step composition"; src/src/main.cpp:86 on numBests: "The
\* maximum number of minimum error paths through the alignment graph").
ReturnedIsEditDistance ==
    phase = "returned" =>
        T!NumErrors(Details(best)) = EditDistance(ref, hyp)[Len(ref), Len(hyp)]

\* So it has when the hypothesis graph ends behind its last word, although costs and
\* errors weigh substitutions differently and the first pass forces matches, and in
\* standard composition always, although marked words cost something there.
EditDistanceReturned ==
    ~finalEps \/ composition_approach = "standard" => ReturnedIsEditDistance

\* Synonyms are additional paths of the reference graph, so that the edit distance
\* between the graphs (src/src/AdaptedComposition.h:37) can only become smaller.
SynonymsNeverHurt ==
    Walked => \E c \in Costs : c <= LeastOfTexts

\* Every call of Fstalign returns an alignment: the composed graph stays finite, has
\* no cycle that the walk could follow for ever and no dead end that it cannot leave.
Concludes == <>(phase = "returned")
=============================================================================
