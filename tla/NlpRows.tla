------------------------------ MODULE NlpRows -------------------------------
(***************************************************************************)
(* align_stitches_to_nlp (src/src/fstalign.cpp): the stitches are given    *)
(* the rows of the NLP reference, which carry speaker, punctuation and     *)
(* tags.  Outside of classes and synonyms a row goes with a word; runs of  *)
(* stitches and of rows of one class are counted and paired as a whole.    *)
(* Also write_stitches_to_nlp, which writes the aligned NLP file.          *)
(***************************************************************************)
EXTENDS Integers, Sequences, FiniteSets, SequencesExt

CONSTANTS
    SynonymLabel

VARIABLES
    stitches,
    mNlpRows,        \* the rows of the reference, see ReferenceGraph
    synonyms,        \* for each synonym label its <<words replaced, words put in>>
    aligned,         \* alignedTokensIndex
    nlpRowIndex

LOCAL Global == 0
LOCAL NOOP == -1
LOCAL NoPunctuation == 0

rowVars == <<stitches, aligned, nlpRowIndex>>

RowsInit == aligned = 0 /\ nlpRowIndex = 0

-----------------------------------------------------------------------------
stitch == stitches[aligned + 1]
nlpPart == mNlpRows[nlpRowIndex + 1]
nlp_classLabel == nlpPart.label       \* GetClassLabel(nlpPart.best_label)

IsInsertion(s) == s.comment = "ins"

inSynonymPath == stitch.classLabel \in SynonymLabel
inClassLabel == ~inSynonymPath /\ (stitch.classLabel # Global \/ nlp_classLabel # 0)

\* What the warning "NLP stitching problem" tells.
labelsMatch == ~inSynonymPath => stitch.classLabel = nlp_classLabel

\* The last index of the run of equal elements that goes on from index first of a
\* sequence of labels; all up to first belong to it.
EndOfRun(labels, label, first) ==
    CHOOSE k \in first..Len(labels) :
        /\ \A j \in (first + 1)..k : labels[j] = label
        /\ k < Len(labels) => labels[k + 1] # label

StitchLabels == [k \in DOMAIN stitches |-> stitches[k].classLabel]
RowLabels == [k \in DOMAIN mNlpRows |-> mNlpRows[k].label]

\* The rows and the stitches that are paired.  A synonym tells its lengths by its
\* name; its stitches may be more when words have been inserted.
classLabelRowsInNlp ==
    IF inSynonymPath THEN synonyms[stitch.classLabel][1]
    ELSE EndOfRun(RowLabels, nlp_classLabel, nlpRowIndex + 1) - nlpRowIndex

classLabelRowsInStitches_Name ==    \* mutant: insertions in a synonym are forgotten
    IF inSynonymPath THEN synonyms[stitch.classLabel][2]
    ELSE EndOfRun(StitchLabels, stitch.classLabel, aligned + 1) - aligned

classLabelRowsInStitches ==
    EndOfRun(StitchLabels, stitch.classLabel,
             aligned + (IF inSynonymPath THEN synonyms[stitch.classLabel][2] ELSE 1))
      - aligned

-----------------------------------------------------------------------------
\* The stitches of a run get the rows given for them.
Attach(rows, comment) ==
    stitches' = [k \in DOMAIN stitches |->
                   IF k - aligned \in DOMAIN rows
                   THEN [stitches[k] EXCEPT !.nlpRow = rows[k - aligned],
                                            !.how = comment]
                   ELSE stitches[k]]

Advance(inStitches, inNlp) ==
    /\ aligned' = aligned + inStitches
    /\ nlpRowIndex' = nlpRowIndex + inNlp

AtStitch == aligned < Len(stitches) /\ ~IsInsertion(stitch)

SkipInsertion_Stays ==      \* mutant: the insertion is seen again
    /\ aligned < Len(stitches) /\ IsInsertion(stitch)
    /\ Advance(0, 0)
    /\ UNCHANGED stitches

SkipInsertion ==
    /\ aligned < Len(stitches) /\ IsInsertion(stitch)
    /\ Advance(1, 0)
    /\ UNCHANGED stitches

AtRow == AtStitch /\ nlpRowIndex < Len(mNlpRows)

\* Neither a class nor a synonym, or one row for one word.
AttachRow ==
    /\ AtRow
    /\ \/ ~inClassLabel /\ ~inSynonymPath
       \/ /\ inClassLabel \/ inSynonymPath
          /\ classLabelRowsInNlp = 1 /\ classLabelRowsInStitches = 1
    /\ Attach(<<nlpPart>>, "")
    /\ Advance(1, 1)

InRun(n, m) ==
    /\ inClassLabel \/ inSynonymPath
    /\ n = classLabelRowsInNlp /\ m = classLabelRowsInStitches
    /\ <<n, m>> # <<1, 1>>

\* As many rows as words: one after the other.
AttachDirect ==
    AtRow /\ \E n, m \in {classLabelRowsInNlp} :
        /\ InRun(n, m)
        /\ Attach([i \in 1..m |-> mNlpRows[nlpRowIndex + i]], "direct")
        /\ Advance(m, n)

\* One row for many words: its punctuation goes to the last one.
AttachPushLast_First ==     \* mutant: the punctuation goes to the first word
    AtRow /\ \E m \in {classLabelRowsInStitches} :
        /\ InRun(1, m)
        /\ Attach([i \in 1..m |-> IF i = 1 THEN nlpPart
                               ELSE [nlpPart EXCEPT !.punctuation = NoPunctuation]],
                  "push_last")
        /\ Advance(m, 1)

AttachPushLast ==
    AtRow /\ \E m \in {classLabelRowsInStitches} :
        /\ InRun(1, m)
        /\ Attach([i \in 1..m |-> IF i = m THEN nlpPart
                               ELSE [nlpPart EXCEPT !.punctuation = NoPunctuation]],
                  "push_last")
        /\ Advance(m, 1)

\* Many rows for another number of words: the first row for the first word, the
\* last one for the last word, and a new row with the first one's speaker and tags
\* for each word between them.
Between_Untagged(row) ==    \* mutant: the new row has a speaker only
    [row EXCEPT !.token = 0, !.label = 0, !.punctuation = NoPunctuation, !.tags = {}]

Between(row) == [row EXCEPT !.token = 0, !.label = 0, !.punctuation = NoPunctuation]

AttachSplitWorst ==
    AtRow /\ \E n \in {classLabelRowsInNlp} : \E m \in {classLabelRowsInStitches} :
      LET last == mNlpRows[nlpRowIndex + n]
      IN  /\ InRun(n, m) /\ n > 1 /\ n # m
          /\ IF m = 1
             THEN Attach(<<[nlpPart EXCEPT !.punctuation = last.punctuation]>>, "split_worst")
             ELSE Attach([i \in 1..m |-> IF i = 1 THEN nlpPart
                                      ELSE IF i = m THEN last ELSE Between(nlpPart)],
                         "split_worst")
          /\ Advance(m, n)

AlignRow == SkipInsertion \/ AttachRow \/ AttachDirect \/ AttachPushLast \/ AttachSplitWorst

\* The loop ends behind the last stitch, or when it has run out of rows.
RanOut == AtStitch /\ nlpRowIndex >= Len(mNlpRows)
RowsAligned == aligned >= Len(stitches) \/ RanOut

-----------------------------------------------------------------------------
\* write_stitches_to_nlp: a line for each stitch that is written.  The token of a
\* line is the word of the reference, of an insertion it is empty.
Written(add_inserts) ==
    LET written == SelectSeq(stitches, LAMBDA s :
                       (IsInsertion(s) => add_inserts) /\ s.reftk # NOOP)
    IN  [k \in DOMAIN written |->
           [token |-> IF IsInsertion(written[k]) THEN 0 ELSE written[k].reftk,
            speaker |-> written[k].nlpRow.speaker,
            punctuation |-> written[k].nlpRow.punctuation]]
=============================================================================
