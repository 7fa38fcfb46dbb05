----------------------------- MODULE Traceback -----------------------------
(***************************************************************************)
(* GetDetailsFromTopCandidates (src/src/Walker.cpp): the wer_alignment     *)
(* that is read off the chain of arcs of an alignment, from its end to its *)
(* start.  A label that is met outside of a class opens a class, and the   *)
(* same label closes it; the words between the two are counted twice, for  *)
(* the whole alignment and for the class.  Everything is collected         *)
(* backwards and reversed at the end.                                      *)
(***************************************************************************)
EXTENDS Integers, Sequences, SequencesExt

CONSTANTS
    EntityLabel, SynonymLabel,   \* symbol ids of the labels, see AdaptedComposition
    InsLabel, DelLabel           \* symbol ids of <ins> and <del>

Eps == 0

IsLabel(l) == l \in EntityLabel \cup SynonymLabel      \* isEntityLabel

\* eps_idx, ins_idx, del_idx; no arc carries one of the others.
Special == {Eps, InsLabel, DelLabel}

\* A wer_alignment.  ref_words and hyp_words are left out: nothing reads them.
Empty(label) ==
    [classLabel |-> label, insertions |-> 0, deletions |-> 0, substitutions |-> 0,
     numWordsInReference |-> 0, numWordsInHypothesis |-> 0, del_words |-> <<>>,
     ins_words |-> <<>>, sub_words |-> <<>>, tokens |-> <<>>]

Global == 0    \* the class label of the words outside of all classes

NumErrors(al) == al.insertions + al.substitutions + al.deletions

\* The counters of al with one more word.
Counted(al, i, o) ==
    CASE i = o ->
           [al EXCEPT !.numWordsInReference = @ + 1, !.numWordsInHypothesis = @ + 1]
      [] i # o /\ i = Eps ->
           [al EXCEPT !.insertions = @ + 1, !.numWordsInHypothesis = @ + 1,
                      !.ins_words = Append(@, o)]
      [] i # o /\ i # Eps /\ o = Eps ->
           [al EXCEPT !.deletions = @ + 1, !.numWordsInReference = @ + 1,
                      !.del_words = Append(@, i)]
      [] OTHER ->
           [al EXCEPT !.substitutions = @ + 1, !.numWordsInReference = @ + 1,
                      !.numWordsInHypothesis = @ + 1,
                      !.sub_words = Append(@, <<i, o>>)]

Token(i, o) == <<IF i = Eps /\ o # Eps THEN InsLabel ELSE i,
                 IF o = Eps /\ i # Eps THEN DelLabel ELSE o>>

WithToken(al, token) == [al EXCEPT !.tokens = Append(@, token)]

\* While the traceback goes on: al is the global alignment, classes are its
\* label_alignments, and inClass tells whether the last of them is open, that is,
\* whether class_label_wer_info points to it.
Labelled_Nested(t, i, o) ==      \* mutant: any label closes the class
    IF ~t.inClass
    THEN [al |-> WithToken(t.al, <<i, o>>), classes |-> Append(t.classes, Empty(i)),
          inClass |-> TRUE]
    ELSE [t EXCEPT !.inClass = FALSE]

Labelled(t, i, o) ==
    IF ~t.inClass
    THEN [al |-> WithToken(t.al, <<i, o>>), classes |-> Append(t.classes, Empty(i)),
          inClass |-> TRUE]
    ELSE [t EXCEPT !.inClass = i # Last(t.classes).classLabel]

Worded(t, i, o) ==
    IF t.inClass
    THEN [t EXCEPT !.al = Counted(@, i, o),
                   !.classes = Append(Front(@),
                                      WithToken(Counted(Last(@), i, o), Token(i, o)))]
    ELSE [t EXCEPT !.al = WithToken(Counted(@, i, o), Token(i, o))]

\* F(x), with x evaluated once.
Strictly(F(_), x) == CHOOSE y \in {F(v) : v \in {x}} : TRUE

ReadArc(t, arc) ==
    IF IsLabel(arc.ilabel) THEN Labelled(t, arc.ilabel, arc.olabel)
    ELSE IF arc.ilabel = arc.olabel /\ arc.ilabel \in Special THEN t
    ELSE Worded(t, arc.ilabel, arc.olabel)

\* wer_alignment::Reverse.  The classes themselves stay in backward order.
Reversed(al) ==
    [al EXCEPT !.del_words = Reverse(@), !.ins_words = Reverse(@),
               !.sub_words = Reverse(@), !.tokens = Reverse(@)]

\* Before any arc is read.
Unread == [al |-> Empty(Global), classes |-> <<>>, inClass |-> FALSE]

\* The alignment of a sequence of arcs, with its classes as label_alignments.
GetDetails(arcs) ==
    LET t == FoldLeft(LAMBDA u, arc : Strictly(LAMBDA v : ReadArc(v, arc), u), Unread,
                      Reverse(arcs))
    IN  [alignment |-> Reversed(t.al),
         label_alignments |-> [k \in DOMAIN t.classes |-> Reversed(t.classes[k])]]
=============================================================================
