------------------------------ MODULE Stitches ------------------------------
(***************************************************************************)
(* make_stitches (src/src/fstalign.cpp) with the AlignmentTraversor that   *)
(* it reads the alignment with (src/src/AlignmentTraversor.cpp): the pairs *)
(* of tokens of the alignment, those of a class in the place of its label, *)
(* become stitches, and the rows of the hypothesis are handed out to them. *)
(***************************************************************************)
EXTENDS Integers, Sequences, FiniteSets

CONSTANTS
    EntityLabel, SynonymLabel, InsLabel, DelLabel,   \* see Traceback
    FallbackLabel    \* the class labels whose name contains FALLBACK

VARIABLES
    alignment,             \* root: [alignment, label_alignments] of Traceback
    hypRows,               \* the words of the rows of the hypothesis
    currentPosInRoot, currentPosInSubclass,
    currentSubclass,       \* index into label_alignments, 0 for nullptr
    stitches,
    hypRowIndex,
    alignedTokensIndex, prev_tk_classLabel

visitorVars == <<currentPosInRoot, currentPosInSubclass, currentSubclass>>
stitchVars == <<stitches, hypRowIndex, alignedTokensIndex, prev_tk_classLabel>>

TK_GLOBAL_CLASS == 0
NOOP == -1
NoWord == 0            \* the empty string

\* RawNlpRecord(), which a stitch has until it is aligned with the NLP rows.
NoRow == [token |-> NoWord, label |-> 0, punctuation |-> 0, speaker |-> 0,
          tags |-> {}]

tokens == alignment.alignment.tokens
classes == alignment.label_alignments
NotAClass == [classLabel |-> 0, tokens |-> <<>>]
subclass == IF currentSubclass = 0 THEN NotAClass ELSE classes[currentSubclass]

VisitInit ==
    /\ currentPosInRoot = -1 /\ currentPosInSubclass = -1
    /\ currentSubclass = 0
    /\ stitches = <<>>
    /\ hypRowIndex = 0
    /\ alignedTokensIndex = 0
    /\ prev_tk_classLabel = NoWord

-----------------------------------------------------------------------------
\* The body of the loop of make_stitches, for one triple.

\* Whether the stitch is given a row of the hypothesis.
TakesHypRow_Noop(ref_tk, hyp_tk) == hyp_tk # DelLabel   \* mutant: NOOP takes a row
TakesHypRow(ref_tk, hyp_tk) == hyp_tk # DelLabel /\ ref_tk # NOOP

Comment(ref_tk, hyp_tk) ==
    CASE hyp_tk = DelLabel -> "del"
      [] hyp_tk # DelLabel /\ ref_tk = InsLabel -> "ins"
      [] hyp_tk # DelLabel /\ ref_tk # InsLabel /\ hyp_tk # ref_tk -> "sub"
      [] OTHER -> ""

BehindTheEnd == -2     \* what is read at an index behind the last row

HypOrig(ref_tk, hyp_tk) ==
    CASE ~TakesHypRow(ref_tk, hyp_tk) -> NoWord
      [] TakesHypRow(ref_tk, hyp_tk) /\ hypRowIndex < Len(hypRows) ->
           hypRows[hypRowIndex + 1]
      [] OTHER -> BehindTheEnd

Emit(ref_tk, hyp_tk, label) ==
    /\ stitches' = Append(stitches,
         [classLabel |-> label, reftk |-> ref_tk, hyptk |-> hyp_tk,
          comment |-> Comment(ref_tk, hyp_tk), how |-> "",
          hyp_orig |-> HypOrig(ref_tk, hyp_tk), nlpRow |-> NoRow])
    /\ hypRowIndex' = hypRowIndex + (IF TakesHypRow(ref_tk, hyp_tk) THEN 1 ELSE 0)
    /\ alignedTokensIndex' = alignedTokensIndex
         + (IF label = TK_GLOBAL_CLASS \/ label # prev_tk_classLabel THEN 1 ELSE 0)
    /\ prev_tk_classLabel' = label

-----------------------------------------------------------------------------
\* NextTriple.  Its calls of itself are steps of their own.

AtRoot == currentSubclass = 0
NextInRoot == tokens[currentPosInRoot + 2]
RootHasNext == currentPosInRoot + 1 < Len(tokens)

GlobalTriple ==
    /\ AtRoot /\ RootHasNext
    /\ NextInRoot[1] \notin EntityLabel \cup SynonymLabel
    /\ currentPosInRoot' = currentPosInRoot + 1
    /\ Emit(NextInRoot[1], NextInRoot[2], TK_GLOBAL_CLASS)
    /\ UNCHANGED <<currentPosInSubclass, currentSubclass>>

\* The first class with the label; a label without a class is passed over.
EnterClass ==
    LET found == {k \in DOMAIN classes : classes[k].classLabel = NextInRoot[1]}
    IN  /\ AtRoot /\ RootHasNext
        /\ NextInRoot[1] \in EntityLabel \cup SynonymLabel
        /\ currentPosInRoot' = currentPosInRoot + 1
        /\ currentPosInSubclass' = -1
        /\ currentSubclass' = IF found = {} THEN 0
                              ELSE CHOOSE k \in found : \A l \in found : k <= l
        /\ UNCHANGED stitchVars

IsNoop == /\ subclass.classLabel \in FallbackLabel
          /\ subclass.tokens = <<>>
          /\ currentPosInSubclass = -1

ClassTriple ==
    /\ ~AtRoot
    /\ currentPosInSubclass + 1 < Len(subclass.tokens)
    /\ currentPosInSubclass' = currentPosInSubclass + 1
    /\ \E token \in {subclass.tokens[currentPosInSubclass + 2]} :
          Emit(token[1], token[2], subclass.classLabel)
    /\ UNCHANGED <<currentPosInRoot, currentSubclass>>

\* A FALLBACK class without any token.
NoopTriple ==
    /\ ~AtRoot /\ IsNoop
    /\ currentPosInSubclass' = currentPosInSubclass + 1
    /\ Emit(NOOP, NOOP, subclass.classLabel)
    /\ UNCHANGED <<currentPosInRoot, currentSubclass>>

LeaveClass ==
    /\ ~AtRoot /\ ~IsNoop
    /\ currentPosInSubclass + 1 >= Len(subclass.tokens)
    /\ currentSubclass' = 0
    /\ currentPosInSubclass' = -1
    /\ UNCHANGED <<currentPosInRoot, stitchVars>>

Visit == GlobalTriple \/ EnterClass \/ ClassTriple \/ NoopTriple \/ LeaveClass

\* NextTriple returns false.
Visited == AtRoot /\ ~RootHasNext
=============================================================================
