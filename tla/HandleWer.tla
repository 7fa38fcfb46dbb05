----------------------------- MODULE HandleWer -----------------------------
(***************************************************************************)
(* HandleWer (src/src/fstalign.cpp) with a reference of NLP rows, from the *)
(* rows to the statistics: the loader turns the rows into the reference    *)
(* graph, an alignment is read back from a chain of arcs, made into        *)
(* stitches, given the rows of the reference and counted.                  *)
(*                                                                         *)
(* The chain is any path of the composed graph from its start to a final   *)
(* state.  Walker shows that what the walk reports are such paths; which   *)
(* of them it reports is the question of AlignSystem and not asked here.   *)
(* An exit of a synonym has been found when the chain entered the synonym, *)
(* so that expanding other states would add no path.                       *)
(***************************************************************************)
EXTENDS Integers, Sequences, FiniteSets, SequencesExt, Selections

CONSTANTS
    Inputs,          \* [records, normalization, use_punctuation, rules, hyp, finalEps]:
                     \* finalEps tells if the graph of hyp ends in an <eps> arc
    EntityLabel, SynonymLabel, FallbackLabel, InsLabel, DelLabel,
    LabelName,       \* the name of every class label
    Speaker, Tag, EosPunctuation,
    ContextSize      \* speaker_switch_context_size

\* Words are told from labels and markers by their symbol ids; 0 is <eps> or no word.
ASSUME LabelAssumption ==
    /\ EntityLabel \cup SynonymLabel \cup {InsLabel, DelLabel} \subseteq Nat \ {0}
    /\ EntityLabel \cap SynonymLabel = {}
    /\ FallbackLabel \subseteq EntityLabel
    /\ InsLabel # DelLabel
    /\ {InsLabel, DelLabel} \cap (EntityLabel \cup SynonymLabel) = {}

Word == Nat \ ({0, InsLabel, DelLabel} \cup EntityLabel \cup SynonymLabel)
Words == Seq(Word) \ {<<>>}

ASSUME SpeakerAssumption == IsFiniteSet(Speaker) /\ Speaker \subseteq Nat \ {0}

Record == [token : Word, label : EntityLabel \cup {0}, punctuation : Word \cup {0},
           speaker : Speaker, tags : SUBSET Tag]

\* The id in a class label is that of one entity, whose rows stand together; only
\* what a FALLBACK class stands for may be read as nothing.
ASSUME InputAssumption ==
    \A i \in Inputs :
      /\ i.records \in Seq(Record)
      /\ \A j, k \in DOMAIN i.records :
           /\ j < k
           /\ i.records[j].label = i.records[k].label /\ i.records[k].label # 0
           => \A m \in j..k : i.records[m].label = i.records[k].label
      /\ i.normalization \in [EntityLabel -> Seq(Seq(Word))]
      /\ \A l \in EntityLabel \ FallbackLabel : i.normalization[l] \in Seq(Words)
      /\ i.hyp \in Seq(Word)
      /\ i.rules \in Seq([lhs : Words, rhs : Words])
      /\ i.use_punctuation \in BOOLEAN /\ i.finalEps \in BOOLEAN

VARIABLES
    phase,
    input,
    mToken, mNlpRows, synonyms,
    fstA, fstB, composed_states, entity_exit_states,
    at, chain,       \* the composed state reached and the arcs that lead to it
    alignment, currentPosInRoot, currentPosInSubclass, currentSubclass,
    stitches, hypRowIndex, alignedTokensIndex, prev_tk_classLabel,
    aligned, nlpRowIndex

C == INSTANCE AdaptedComposition
G == INSTANCE ReferenceGraph
T == INSTANCE Traceback
S == INSTANCE Stitches WITH hypRows <- input.hyp
N == INSTANCE NlpRows
Z == INSTANCE WerStats

\* The synonyms of a reference get their labels one after the other, and those are
\* enough.
ASSUME SynonymLabelsSuffice ==
    \A i \in Inputs :
      \E l \in {G!NlpFstLoader(i.records, i.normalization, i.use_punctuation)} :
      \E g \in {G!ConvertToFst(l.mToken, <<>>, l.candidates)} :
        \A k \in DOMAIN G!Replacements(g, i.rules) :
          \E label \in SynonymLabel :
             Cardinality({m \in SynonymLabel : m < label}) = k - 1

loadVars == <<mToken, mNlpRows, synonyms, fstA, fstB>>
compVars == <<composed_states, entity_exit_states, at, chain>>
visitorVars == <<currentPosInRoot, currentPosInSubclass, currentSubclass>>
makeVars == <<hypRowIndex, alignedTokensIndex, prev_tk_classLabel>>
rowVars == <<aligned, nlpRowIndex>>
vars == <<phase, input, loadVars, compVars, alignment, visitorVars, makeVars,
          rowVars, stitches>>

Init ==
    /\ phase = "load"
    /\ input \in Inputs
    /\ mToken = <<>> /\ mNlpRows = <<>> /\ synonyms = <<>>
    /\ fstA = <<>> /\ fstB = <<>>
    /\ composed_states = <<>> /\ entity_exit_states = {}
    /\ at = 0 /\ chain = <<>>
    /\ alignment = T!GetDetails(<<>>)
    /\ S!VisitInit
    /\ N!RowsInit

\* The loaders read their files and Fstalign builds the graphs.
Load ==
    /\ phase = "load"
    /\ \E l \in {G!NlpFstLoader(input.records, input.normalization,
                                input.use_punctuation)} :
       \E g \in {G!ConvertToFst(l.mToken, <<>>, l.candidates)} :
       \E repl \in {G!Replacements(g, input.rules)} :
       \E spliced \in {G!ApplyToFst(g, repl)} :
       \E removed \in {G!RmEpsilon(spliced)} :
          /\ mToken' = l.mToken
          /\ mNlpRows' = l.mNlpRows
          /\ synonyms' = [label \in {G!LabelOf(k) : k \in DOMAIN repl} |->
                LET r == repl[CHOOSE k \in DOMAIN repl : G!LabelOf(k) = label]
                IN  <<r.replaced, Len(r.words)>>]
          /\ fstA' = G!ReferenceFst(removed)
    /\ \E g \in {G!ConvertToFst(IF input.finalEps THEN Append(input.hyp, G!Eps)
                                ELSE input.hyp, <<>>, <<>>)} :
          fstB' = G!LoadedFst(g)
    /\ composed_states' = C!Start
    /\ phase' = "walk"
    /\ UNCHANGED <<input, entity_exit_states, at, chain, alignment, visitorVars,
                   makeVars, rowVars, stitches>>

\* One more arc of the composed graph.
Walk ==
    /\ phase = "walk"
    /\ \E out \in {C!Proposals(at)} :
          /\ C!TryGetArcsAtState(at, out)
          /\ \E arc \in ToSet(C!ArcsTo(out, composed_states')) :
                /\ chain' = Append(chain, arc)
                /\ at' = arc.next
    /\ UNCHANGED <<phase, input, mToken, mNlpRows, synonyms, alignment, visitorVars,
                   makeVars, rowVars, stitches>>

\* A final state is reached: the chain is read back.
ReadBack ==
    /\ phase = "walk"
    /\ C!Final(at)
    /\ alignment' = T!GetDetails(chain)
    /\ phase' = "stitch"
    /\ UNCHANGED <<input, loadVars, compVars, visitorVars, makeVars, rowVars,
                   stitches>>

MakeStitches ==
    /\ phase = "stitch"
    /\ \/ S!Visit /\ UNCHANGED phase
       \/ /\ S!Visited
          /\ phase' = "rows"
          /\ UNCHANGED <<visitorVars, makeVars, stitches>>
    /\ UNCHANGED <<input, loadVars, compVars, alignment, rowVars>>

AlignStitchesToNlp ==
    /\ phase = "rows"
    /\ \/ N!AlignRow /\ UNCHANGED phase
       \/ /\ N!RowsAligned
          /\ phase' = "done"
          /\ UNCHANGED <<rowVars, stitches>>
    /\ UNCHANGED <<input, loadVars, compVars, alignment, visitorVars, makeVars>>

Step == Load \/ Walk \/ ReadBack \/ MakeStitches \/ AlignStitchesToNlp

Done == phase = "done" /\ UNCHANGED vars

Next == Step \/ Done

\* One thread; an entry that has an arc is expanded.
Spec == Init /\ [][Next]_vars /\ WF_vars(Step)
-----------------------------------------------------------------------------
\* Properties

IsLabel(l) == T!IsLabel(l)
al == alignment.alignment
Stitched == phase \in {"rows", "done"}
Recorded == phase = "done"

\* What HandleWer records and writes then.
NameOf(label) == IF label \in SynonymLabel THEN <<"SYN", synonyms[label]>>
                 ELSE <<LabelName[label]>>
ClassNames == LET classes == alignment.label_alignments
              IN  [k \in DOMAIN classes |-> NameOf(classes[k].classLabel)]

Classes   == Z!ClassWer(alignment.label_alignments, ClassNames)
Speakers  == Z!SpeakerWer(stitches)
Sentences == Z!SentenceWer(stitches)
Switches  == Z!SwitchWer(stitches, ContextSize)
Groups    == Z!ErrorGroups(stitches)
Lines     == N!Written(FALSE)

\* The arcs of the chain that carry a word on some side.
IsWordArc(a) == ~IsLabel(a.ilabel) /\ ~(a.ilabel = G!Eps /\ a.olabel = G!Eps)
WordArcs == Those(chain, {k \in DOMAIN chain : IsWordArc(chain[k])})

IsNoop(s) == s.reftk = S!NOOP
WordStitches == Those(stitches, {k \in DOMAIN stitches : ~IsNoop(stitches[k])})
Total == Z!ResultOf(al)

\* The types, and that no index leaves the sequence that it points into.
TypeOK ==
    /\ phase \in {"load", "walk", "stitch", "rows", "done"}
    /\ currentSubclass \in 0..Len(alignment.label_alignments)
    /\ currentPosInRoot \in -1..(Len(al.tokens) - 1)
    /\ hypRowIndex \in 0..Len(input.hyp)
    /\ aligned \in 0..Len(stitches)
    /\ nlpRowIndex \in 0..Len(mNlpRows)

\* The counts of the classes, by their names, and of the words outside of them add up
\* to those of the alignment, and the labels among its tokens are those of its classes.
ClassesPartition ==
    phase # "walk" =>
      LET tokens == al.tokens
          inClass == {k \in DOMAIN tokens : IsLabel(tokens[k][1])}
          labels == Those(Z!Firsts(tokens), inClass)
          outside == Those(tokens, DOMAIN tokens \ inClass)
          tally(p) == [insertions |-> Z!One(p[1] = InsLabel),
                       deletions |-> Z!One(p[2] = DelLabel),
                       substitutions |-> Z!One(p[1] # InsLabel /\ p[2] # DelLabel
                                                /\ p[1] # p[2]),
                       numWordsInReference |-> Z!One(p[1] # InsLabel)]
          classes == alignment.label_alignments
          names == SetToSeq(DOMAIN Classes)
      IN  /\ labels = Reverse([k \in DOMAIN classes |-> classes[k].classLabel])
          /\ Total = Z!Plus(Z!Sum([k \in DOMAIN outside |-> tally(outside[k])]),
                            Z!Sum([k \in DOMAIN names |-> Classes[names[k]]]))

\* The stitches are the words of the chain in their order, each with the outermost
\* label that is open where it stands, read forwards; the traceback finds the
\* labels backwards and the traversal looks the classes up by name.
StitchesReadChain ==
    Stitched =>
      LET read(f, a) ==
            IF IsLabel(a.ilabel)
            THEN [f EXCEPT !.open = IF @ = 0 THEN a.ilabel
                                    ELSE IF @ = a.ilabel THEN 0 ELSE @]
            ELSE IF ~IsWordArc(a) THEN f
            ELSE [f EXCEPT !.words = Append(@, <<f.open, T!Token(a.ilabel, a.olabel)>>)]
          words == FoldLeft(read, [open |-> 0, words |-> <<>>], chain).words
      IN  [k \in DOMAIN WordStitches |->
             <<WordStitches[k].classLabel,
               <<WordStitches[k].reftk, WordStitches[k].hyptk>>>>] = words

\* The rows of the hypothesis stay in step with the stitches: each one that is no
\* deletion gets the row with its word, no row is left, and the count of tokens
\* arrives at its end, too (the warnings at src/src/fstalign.cpp:285, 333 and 347).
HypRowsInStep ==
    Stitched =>
      /\ \A k \in DOMAIN stitches : S!TakesHypRow(stitches[k].reftk, stitches[k].hyptk)
                                     => stitches[k].hyp_orig = stitches[k].hyptk
      /\ hypRowIndex = Len(input.hyp)
      /\ alignedTokensIndex = Len(al.tokens)

\* A class of which nothing was read but insertions were made: no stitch of it
\* takes its rows.  Only a class with an empty alternative may come to that.
OnlyInsertions ==
    \E k \in DOMAIN alignment.label_alignments :
        LET a == alignment.label_alignments[k]
        IN  a.tokens # <<>> /\ \A j \in DOMAIN a.tokens : a.tokens[j][1] = InsLabel

\* The runs of stitches that are paired with rows, as the indices of their last
\* stitches: a word outside of classes and synonyms is a run of its own.
Outside(s) == s.classLabel = S!TK_GLOBAL_CLASS
RunEnds ==
    SelectSeq([k \in DOMAIN stitches |-> k],
              LAMBDA k : IF Outside(stitches[k]) THEN stitches[k].comment # "ins"
                         ELSE \/ k = Len(stitches)
                              \/ stitches[k + 1].classLabel # stitches[k].classLabel)

\* The rows that a stitch's run stands for, and those of all runs up to the j-th.
RowsOf(s) ==
    CASE Outside(s) -> 1
      [] s.classLabel \in SynonymLabel -> synonyms[s.classLabel][1]
      [] OTHER -> Cardinality({k \in DOMAIN mNlpRows : mNlpRows[k].label = s.classLabel})

RowsUpTo(j) == G!SumTo([i \in DOMAIN RunEnds |-> RowsOf(stitches[RunEnds[i]])], j)

\* The rows of the reference stay in step with the stitches: classes meet the rows
\* of their own label (the warning at src/src/fstalign.cpp:402), a word outside of
\* classes and synonyms gets its own row, the last word of a run the last row of the
\* run or, when it is the only one, the first, and all rows are used.
RowsPaired ==
    ~OnlyInsertions =>
      /\ phase = "rows" /\ N!AtRow => N!labelsMatch
      /\ Recorded =>
           /\ nlpRowIndex = Len(mNlpRows)
           /\ RowsUpTo(Len(RunEnds)) = Len(mNlpRows)
           /\ \A j \in DOMAIN RunEnds :
                LET s == stitches[RunEnds[j]]
                    row == mNlpRows[RowsUpTo(j)]
                    first == mNlpRows[RowsUpTo(j - 1) + 1]
                IN  IF Outside(s)
                    THEN s.nlpRow = row /\ row.token \in {s.reftk, G!NoPunctuation}
                    ELSE \/ <<s.nlpRow.token, s.nlpRow.speaker>> = <<row.token, row.speaker>>
                         \/ s.nlpRow = [first EXCEPT !.punctuation = row.punctuation]

\* What sums of stitches leave out or have twice: a NOOP counts as a word of the
\* reference, which it is not.
Noops == [Z!Zero EXCEPT !.numWordsInReference = Len(stitches) - Len(WordStitches)]

\* The stitches behind the last one that ends a sentence.
Rest == SelectSeq([k \in DOMAIN stitches |-> k],
          LAMBDA k : \A j \in k..Len(stitches) :
                        stitches[j].nlpRow.punctuation \notin EosPunctuation)

\* The sentences account for every error and every word of the reference, except
\* for insertions behind the last sentence, and no sentence is without a word.
SentencesAddUp ==
    Recorded =>
      LET rest == Z!Sum([j \in DOMAIN Rest |->
                           Z!Tally(stitches[Rest[j]], stitches[Rest[j]].comment # "ins")])
          dropped == IF rest.numWordsInReference = 0 THEN rest ELSE Z!Zero
      IN  /\ Z!Plus(Z!Sum(Sentences), dropped) = Z!Plus(Total, Noops)
          /\ ~OnlyInsertions => \A k \in DOMAIN Sentences :
                                   Sentences[k].numWordsInReference > 0

\* What the speakers are charged with adds up to the errors of the alignment: no
\* insertion between two segments is lost or charged twice.
SpeakerSum == LET ids == SetToSeq(Speaker \cup {Z!NoSpeaker})
              IN  Z!Sum([k \in DOMAIN ids |-> Speakers[ids[k]]])

SpeakersAddUp ==
    Recorded => /\ SpeakerSum.insertions = al.insertions
                /\ SpeakerSum.deletions = al.deletions
                /\ SpeakerSum.substitutions = al.substitutions

\* "Breakdown of WER by speaker ID" (docs/Usage.md:279): the words of the reference
\* are charged to the speakers, already when one word too many was said.
SpeakerWordsAddUp ==
    Recorded /\ T!NumErrors(al) = 1 =>
      SpeakerSum.numWordsInReference = al.numWordsInReference

\* The stitch at index k stands behind this many words of the reference.
RowAt(k) == Cardinality({j \in 1..(k - 1) : stitches[j].comment # "ins"})

\* Each tag is charged with the words of the reference in whose rows it stands, in a
\* class also with those that were given no row of the class.
TagsFollowRows ==
    Recorded /\ ~OnlyInsertions =>
      \A tag \in Tag :
        LET tagged == {j \in DOMAIN RunEnds : tag \in mNlpRows[RowsUpTo(j)].tags}
            first(j) == IF j = 1 THEN 1 ELSE RunEnds[j - 1] + 1
            words == {k \in DOMAIN stitches :
                        /\ stitches[k].comment # "ins"
                        /\ \E j \in tagged : k \in first(j)..RunEnds[j]}
        IN  Z!TagWer(stitches, tag).numWordsInReference = Cardinality(words)

\* The words of the reference where another speaker starts than spoke before.
SwitchPositions ==
    {RowAt(k) : k \in {m \in DOMAIN stitches :
        /\ stitches[m].nlpRow.speaker # Z!NoSpeaker
        /\ \E j \in 1..(m - 1) :
             /\ stitches[j].nlpRow.speaker \notin {Z!NoSpeaker, stitches[m].nlpRow.speaker}
             /\ \A i \in (j + 1)..(m - 1) : stitches[i].nlpRow.speaker = Z!NoSpeaker}}

\* The pass over the stitches that goes from one switch to the next counts what is
\* inside of any window, each once, when windows overlap, too.
SwitchWindows ==
    Recorded =>
      LET inside(k) ==
            \E p \in SwitchPositions :
               /\ RowAt(k) < p + ContextSize
               /\ \/ RowAt(k) > p - ContextSize
                  \/ RowAt(k) = p - ContextSize /\ stitches[k].comment # "ins"
      IN  Switches = Z!Sum([k \in DOMAIN stitches |->
             IF inside(k) THEN Z!Tally(stitches[k], stitches[k].comment # "ins")
             ELSE Z!Zero])

RefWords == LET words == [k \in DOMAIN WordArcs |-> WordArcs[k].ilabel]
            IN  Those(words, {k \in DOMAIN words : words[k] # G!Eps})

\* The counts of every word are those of the texts: what is correct, deleted or
\* substituted are its occurrences in what was read of the reference, what is
\* correct, inserted or substituted those in the hypothesis.
UnigramsAccount ==
    phase = "stitch" =>
      \A w \in ToSet(RefWords) \cup ToSet(input.hyp) :
        LET u == Z!Unigram(alignment, w)
        IN  /\ u.correct + u.del + u.subst_fn = Z!Count(RefWords, w)
            /\ u.correct + u.ins + u.subst_fp = Z!Count(input.hyp, w)

\* The same for pairs of neighbours, which do not include those that are torn apart
\* by an insertion or a deletion; a bigram next to a marker is counted once.
BigramsAccount ==
    phase = "stitch" =>
      \A b \in ToSet(Z!RefBigrams(alignment)) \cup ToSet(Z!HypBigrams(alignment)) :
        LET c == Z!Bigram(alignment, b)
        IN  /\ c.correct + c.del + c.subst_fn = Z!Count(Z!RefBigrams(alignment), b)
            /\ c.correct + c.ins + c.subst_fp = Z!Count(Z!HypBigrams(alignment), b)

\* The groups of the side-by-side file are the longest runs of errors: each starts
\* behind a correct word or at the start, and together they hold all errors.
ErrorGroupsCover ==
    Recorded =>
      LET wrong(k) == WordStitches[k].reftk # WordStitches[k].hyptk
          starts == Those([k \in DOMAIN WordStitches |-> k],
                          {k \in DOMAIN WordStitches :
                             wrong(k) /\ (k = 1 \/ ~wrong(k - 1))})
          errors == Those(WordStitches, {k \in DOMAIN WordStitches : wrong(k)})
          side(seq, marker) == Those(seq, {k \in DOMAIN seq : seq[k] # marker})
      IN  /\ [k \in DOMAIN Groups |-> Groups[k].line]
                 = [k \in DOMAIN starts |-> starts[k] + 1]
          /\ FlattenSeq([k \in DOMAIN Groups |-> Groups[k].ref])
                 = side([k \in DOMAIN errors |-> errors[k].reftk], InsLabel)
          /\ FlattenSeq([k \in DOMAIN Groups |-> Groups[k].hyp])
                 = side([k \in DOMAIN errors |-> errors[k].hyptk], DelLabel)

\* The aligned file reads what was read of the reference, with nothing of the
\* hypothesis, and the punctuation behind a word, a class or a synonym stands in the
\* line of its last word; that of a class that was left out has no line.
FileKeepsText ==
    Recorded =>
      LET line(k) == Len(SelectSeq(SubSeq(stitches, 1, k),
                                   LAMBDA s : s.comment # "ins" /\ ~IsNoop(s)))
      IN  /\ [k \in DOMAIN Lines |-> Lines[k].token] = RefWords
          /\ ~OnlyInsertions =>
               \A j \in DOMAIN RunEnds :
                 \/ IsNoop(stitches[RunEnds[j]])
                 \/ /\ stitches[RunEnds[j]].comment # "ins"
                    /\ Lines[line(RunEnds[j])].punctuation
                         = mNlpRows[RowsUpTo(j)].punctuation

\* "Whether to treat punctuation from NLP files as individual tokens"
\* (docs/Usage.md:150): the tokens of the reference, a class read as it is written,
\* are the tokens of the rows with their punctuation behind them.
PunctuationIsToken ==
    phase = "walk" /\ chain = <<>> /\ input.use_punctuation =>
      LET rows == input.records
          written == FlattenSeq([k \in DOMAIN rows |->
                       <<rows[k].token>> \o (IF rows[k].punctuation = G!NoPunctuation
                                             THEN <<>> ELSE <<rows[k].punctuation>>)])
          ofClass(label) == LET own == SelectSeq(rows, LAMBDA r : r.label = label)
                            IN  [k \in DOMAIN own |-> own[k].token]
      IN  written = FlattenSeq([k \in DOMAIN mToken |->
                      IF mToken[k] \in EntityLabel THEN ofClass(mToken[k])
                      ELSE <<mToken[k]>>])

\* Every path can be completed, and is read back and recorded.
Ends == <>Recorded
=============================================================================
