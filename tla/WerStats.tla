------------------------------ MODULE WerStats ------------------------------
(***************************************************************************)
(* The statistics of src/src/wer.cpp, as functions of the alignment (see   *)
(* Traceback) and of the stitches that carry NLP rows (see NlpRows).       *)
(***************************************************************************)
EXTENDS Integers, Sequences, FiniteSets, SequencesExt, Selections

CONSTANTS
    EntityLabel, SynonymLabel, InsLabel, DelLabel,
    Speaker,             \* the ids of the speakers, greater than 0
    EosPunctuation       \* ".", "?" and "!"

IsLabel(l) == l \in EntityLabel \cup SynonymLabel
NOOP == -1

-----------------------------------------------------------------------------
\* WerResult

Zero == [insertions |-> 0, deletions |-> 0, substitutions |-> 0,
         numWordsInReference |-> 0]

Plus(r, s) == [insertions |-> r.insertions + s.insertions,
               deletions |-> r.deletions + s.deletions,
               substitutions |-> r.substitutions + s.substitutions,
               numWordsInReference |-> r.numWordsInReference + s.numWordsInReference]

Sum(results) == FoldLeft(Plus, Zero, results)

One(cond) == IF cond THEN 1 ELSE 0

ResultOf(al) == [insertions |-> al.insertions, deletions |-> al.deletions,
                 substitutions |-> al.substitutions,
                 numWordsInReference |-> al.numWordsInReference]

\* What a stitch adds, when word tells whether it counts as a reference word.
Tally(stitch, word) == [insertions |-> One(stitch.comment = "ins"),
                        deletions |-> One(stitch.comment = "del"),
                        substitutions |-> One(stitch.comment = "sub"),
                        numWordsInReference |-> One(word)]

IsIns(stitch) == stitch.comment = "ins"

-----------------------------------------------------------------------------
\* RecordWer: the counts by name of the class, where names[k] is that of the k-th.
ClassWer_Last(classes, names) ==      \* mutant: a class replaces those of its name
    [name \in ToSet(names) |->
       ResultOf(classes[CHOOSE k \in DOMAIN classes :
                          /\ names[k] = name
                          /\ \A l \in DOMAIN classes : names[l] = name => l <= k])]

ClassWer(classes, names) ==
    [name \in ToSet(names) |->
       Sum([k \in DOMAIN classes |-> IF names[k] = name THEN ResultOf(classes[k])
                                     ELSE Zero])]

\* RecordSentenceWer: a stitch whose punctuation ends a sentence closes it.  What
\* is left at the end is a sentence if it has a word of the reference.
SentenceWer_Last(stitches) ==   \* mutant: what is left at the end is given up
    FoldLeft(LAMBDA f, s :
               IF s.nlpRow.punctuation \in EosPunctuation
               THEN [sentences |-> Append(f.sentences, Plus(f.curr, Tally(s, ~IsIns(s)))),
                     curr |-> Zero]
               ELSE [f EXCEPT !.curr = Plus(@, Tally(s, ~IsIns(s)))],
             [sentences |-> <<>>, curr |-> Zero], stitches).sentences

SentenceWer(stitches) ==
    LET f == FoldLeft(LAMBDA f, s :
               IF s.nlpRow.punctuation \in EosPunctuation
               THEN [sentences |-> Append(f.sentences, Plus(f.curr, Tally(s, ~IsIns(s)))),
                     curr |-> Zero]
               ELSE [f EXCEPT !.curr = Plus(@, Tally(s, ~IsIns(s)))],
             [sentences |-> <<>>, curr |-> Zero], stitches)
    IN  IF f.curr.numWordsInReference > 0 THEN Append(f.sentences, f.curr)
        ELSE f.sentences

\* RecordSpeakerWer: the counts of a segment go to its speaker when the next
\* segment starts.  Insertions have no speaker of their own.
NoSpeaker == 0

SpeakerWer_Open(stitches) ==      \* mutant: a segment keeps what was charged before
    LET starts(f, s) == s.nlpRow.speaker # NoSpeaker /\ s.nlpRow.speaker # f.last
        closed(f) == [f.wers EXCEPT ![f.last] = Plus(@, f.segment)]
        next(f, s) ==
          [wers |-> IF starts(f, s) /\ f.last # NoSpeaker THEN closed(f) ELSE f.wers,
           segment |-> Plus(f.segment, Tally(s, s.nlpRow.speaker # NoSpeaker)),
           last |-> IF starts(f, s) THEN s.nlpRow.speaker ELSE f.last]
    IN  closed(FoldLeft(next, [wers |-> [id \in Speaker \cup {NoSpeaker} |-> Zero],
                               segment |-> Zero, last |-> NoSpeaker], stitches))

SpeakerWer(stitches) ==
    LET starts(f, s) == s.nlpRow.speaker # NoSpeaker /\ s.nlpRow.speaker # f.last
        closed(f) == [f.wers EXCEPT ![f.last] = Plus(@, f.segment)]
        add(f, s) == Plus(f, Tally(s, s.nlpRow.speaker # NoSpeaker))
        next(f, s) ==
          IF ~starts(f, s) THEN [f EXCEPT !.segment = add(@, s)]
          ELSE IF f.last = NoSpeaker
          THEN [f EXCEPT !.segment = add(@, s), !.last = s.nlpRow.speaker]
          ELSE [wers |-> closed(f), segment |-> add(Zero, s), last |-> s.nlpRow.speaker]
        end == FoldLeft(next, [wers |-> [id \in Speaker \cup {NoSpeaker} |-> Zero],
                               segment |-> Zero, last |-> NoSpeaker], stitches)
    IN  closed(end)

\* RecordTagWer
TagWer(stitches, tag) ==
    Sum([k \in DOMAIN stitches |->
           IF tag \in stitches[k].nlpRow.tags
           THEN Tally(stitches[k], ~IsIns(stitches[k])) ELSE Zero])

-----------------------------------------------------------------------------
\* GetSpeakerSwitchIndices: for each change of the speaker the number of words of
\* the reference before it.
SpeakerSwitches(stitches) ==
    FoldLeft(LAMBDA f, s :
               LET new == s.nlpRow.speaker # NoSpeaker /\ s.nlpRow.speaker # f.last
               IN  [switches |-> IF new /\ f.last # NoSpeaker
                                 THEN Append(f.switches, f.row) ELSE f.switches,
                    last |-> IF new THEN s.nlpRow.speaker ELSE f.last,
                    row |-> f.row + One(~IsIns(s))],
             [switches |-> <<>>, last |-> NoSpeaker, row |-> 0], stitches).switches

\* RecordSpeakerSwitchWer: the errors at most size words away from a switch.  An
\* insertion in front of the first word of a window is not in it.
SwitchWer_OneWindow(stitches, size) ==   \* mutant: the next switch is never reached
    LET switches == SpeakerSwitches(stitches)
        next(f, s) ==
          IF f.num > Len(switches) THEN f
          ELSE LET switch == switches[f.num]
                   inside == switch - size <= f.row /\ f.row < switch + size
                   counts == inside /\ (IsIns(s) => f.row # switch - size)
               IN  [wer |-> IF counts THEN Plus(f.wer, Tally(s, ~IsIns(s))) ELSE f.wer,
                    row |-> f.row + One(~IsIns(s)), num |-> f.num]
    IN  FoldLeft(next, [wer |-> Zero, row |-> 0, num |-> 1], stitches).wer

SwitchWer(stitches, size) ==
    LET switches == SpeakerSwitches(stitches)
        next(f, s) ==
          IF f.num > Len(switches) THEN f
          ELSE LET switch == switches[f.num]
                   inside == switch - size <= f.row /\ f.row < switch + size
                   counts == inside /\ (IsIns(s) => f.row # switch - size)
                   row == f.row + One(~IsIns(s))
               IN  [wer |-> IF counts THEN Plus(f.wer, Tally(s, ~IsIns(s))) ELSE f.wer,
                    row |-> row,
                    num |-> f.num + One(row >= switch + size)]
    IN  FoldLeft(next, [wer |-> Zero, row |-> 0, num |-> 1], stitches).wer

-----------------------------------------------------------------------------
\* CalculatePrecisionRecall

Count(seq, x) == Cardinality({k \in DOMAIN seq : seq[k] = x})

\* isValidNgram, on the tokens that an n-gram is joined from.
IsValid(token) == token \notin {InsLabel, DelLabel} /\ ~IsLabel(token)

\* get_bigrams: the pairs of tokens, those of all classes with the label in the place
\* of a label.
EachOf(al, label) ==
    LET classes == al.label_alignments
    IN  Those(classes, {k \in DOMAIN classes : classes[k].classLabel = label})

Flattened(al) ==
    LET pairs == al.alignment.tokens
    IN  FlattenSeq([k \in DOMAIN pairs |->
          IF IsLabel(pairs[k][1])
          THEN FlattenSeq([j \in DOMAIN EachOf(al, pairs[k][1]) |->
                             EachOf(al, pairs[k][1])[j].tokens])
          ELSE <<pairs[k]>>])

\* UpdateHypCorrectAndAllwords: the pairs of tokens it visits; it leaves the search for
\* a label with the first class that has it.
FirstOf(al, label) ==
    LET classes == al.label_alignments
    IN  Those(classes, {k \in DOMAIN classes :
                          /\ classes[k].classLabel = label
                          /\ \A j \in 1..(k - 1) : classes[j].classLabel # label})

Visited(al) ==
    LET pairs == al.alignment.tokens
    IN  FlattenSeq([k \in DOMAIN pairs |->
          IF IsLabel(pairs[k][1])
          THEN FlattenSeq([j \in DOMAIN FirstOf(al, pairs[k][1]) |->
                             FirstOf(al, pairs[k][1])[j].tokens])
          ELSE <<pairs[k]>>])

IsCorrect(p) == p[1] = p[2] /\ IsValid(p[2])

\* The words that are correct.
Correct_Root(al) ==      \* mutant: words of classes are left out
    LET pairs == al.alignment.tokens
        right == Those(pairs, {k \in DOMAIN pairs : IsCorrect(pairs[k])})
    IN  [k \in DOMAIN right |-> right[k][1]]

Correct(al) ==
    LET pairs == Visited(al)
        right == Those(pairs, {k \in DOMAIN pairs : IsCorrect(pairs[k])})
    IN  [k \in DOMAIN right |-> right[k][1]]

Firsts(pairs) == [k \in DOMAIN pairs |-> pairs[k][1]]
Seconds(pairs) == [k \in DOMAIN pairs |-> pairs[k][2]]

Unigram(al, word) ==
    [correct |-> Count(Correct(al), word),
     del |-> Count(al.alignment.del_words, word),
     ins |-> Count(al.alignment.ins_words, word),
     subst_fn |-> Count(Firsts(al.alignment.sub_words), word),
     subst_fp |-> Count(Seconds(al.alignment.sub_words), word)]

\* Neighbours in the flattened tokens, markers of errors included.
\* Without any token the loop starts behind the end of the vector; a text without
\* any word is not modelled.
BigramTokens(al) ==
    LET pairs == Flattened(al)
    IN  [k \in 1..(Len(pairs) - 1) |->
           <<<<pairs[k][1], pairs[k + 1][1]>>, <<pairs[k][2], pairs[k + 1][2]>>>>]

IsValidBigram(b) == IsValid(b[1]) /\ IsValid(b[2])
Holds(b, marker) == marker \in {b[1], b[2]}

Valid(bigrams) == Those(bigrams, {k \in DOMAIN bigrams : IsValidBigram(bigrams[k])})
RefBigrams(al) == Valid(Firsts(BigramTokens(al)))
HypBigrams(al) == Valid(Seconds(BigramTokens(al)))

Bigram_SubAlways(al, b) ==    \* mutant: next to a marker it is substituted as well
    LET pairs == BigramTokens(al)
        where(P(_)) == Cardinality({k \in DOMAIN pairs : P(pairs[k])})
    IN  [correct |-> where(LAMBDA p : p[1] = p[2] /\ p[1] = b),
         subst_fn |-> where(LAMBDA p : p[1] # p[2] /\ p[1] = b),
         subst_fp |-> where(LAMBDA p : p[1] # p[2] /\ p[2] = b),
         del |-> where(LAMBDA p : Holds(p[2], DelLabel) /\ p[1] = b),
         ins |-> where(LAMBDA p : Holds(p[1], InsLabel) /\ p[2] = b)]

Bigram(al, b) ==
    LET pairs == BigramTokens(al)
        where(P(_)) == Cardinality({k \in DOMAIN pairs : P(pairs[k])})
        substituted(p) == p[1] # p[2] /\ IsValidBigram(p[1]) /\ IsValidBigram(p[2])
    IN  [correct |-> where(LAMBDA p : p[1] = p[2] /\ p[1] = b),
         subst_fn |-> where(LAMBDA p : substituted(p) /\ p[1] = b),
         subst_fp |-> where(LAMBDA p : substituted(p) /\ p[2] = b),
         del |-> where(LAMBDA p : Holds(p[2], DelLabel) /\ p[1] = b),
         ins |-> where(LAMBDA p : Holds(p[1], InsLabel) /\ p[2] = b)]

-----------------------------------------------------------------------------
\* WriteSbs: neighbouring errors form a group, which is written with the line of its
\* first error and the words of both sides.
NoGroup == [line |-> 0, ref |-> <<>>, hyp |-> <<>>]

ErrorGroups_Merged(stitches) ==     \* mutant: a correct word does not close a group
    LET next(f, s) ==
          IF s.reftk = NOOP THEN f
          ELSE [f EXCEPT !.offset = @ + 1,
                  !.group = IF s.reftk = s.hyptk THEN @
                            ELSE [line |-> IF @.line = 0 THEN f.offset ELSE @.line,
                                  ref |-> @.ref \o (IF s.reftk = InsLabel THEN <<>>
                                                    ELSE <<s.reftk>>),
                                  hyp |-> @.hyp \o (IF s.hyptk = DelLabel THEN <<>>
                                                    ELSE <<s.hyptk>>)]]
        end == FoldLeft(next, [groups |-> <<>>, group |-> NoGroup, offset |-> 2], stitches)
    IN  IF end.group.line > 0 THEN Append(end.groups, end.group) ELSE end.groups

ErrorGroups(stitches) ==
    LET error(f, s) ==
          [f EXCEPT !.group = [line |-> IF @.line = 0 THEN f.offset ELSE @.line,
                               ref |-> @.ref \o (IF s.reftk = InsLabel THEN <<>>
                                                 ELSE <<s.reftk>>),
                               hyp |-> @.hyp \o (IF s.hyptk = DelLabel THEN <<>>
                                                 ELSE <<s.hyptk>>)]]
        correct(f) == IF f.group.line = 0 THEN f
                      ELSE [f EXCEPT !.groups = Append(@, f.group), !.group = NoGroup]
        next(f, s) ==
          IF s.reftk = NOOP THEN f
          ELSE [(IF s.reftk # s.hyptk THEN error(f, s) ELSE correct(f))
                  EXCEPT !.offset = @ + 1]
        end == FoldLeft(next, [groups |-> <<>>, group |-> NoGroup, offset |-> 2], stitches)
    IN  correct(end).groups
=============================================================================
