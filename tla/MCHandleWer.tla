---------------------------- MODULE MCHandleWer ----------------------------
(***************************************************************************)
(* References and hypotheses for HandleWer.  1 to 3 are words, 4 is a      *)
(* comma and 5 a full stop, 6, 8 and 9 are classes.                        *)
(***************************************************************************)
EXTENDS HandleWer, TLC

MCEntityLabel == {6, 8, 9}
MCSynonymLabel == 11..14
MCLabelName == 6 :> "FALLBACK" @@ 8 :> "MONEY" @@ 9 :> "MONEY"

Row(t, l, p, s) == [token |-> t, label |-> l, punctuation |-> p, speaker |-> s,
                    tags |-> IF l = 0 THEN {} ELSE {1}]

\* The normalization file: 8 may be read as two words, 9 as 3 or as 3 1, and 6 may
\* be left out.
Normalization == 6 :> <<<<>>>> @@ 8 :> <<<<2, 3>>>> @@ 9 :> <<<<3>>, <<3, 1>>>>

\* Two sentences, two speakers; a speaker who is interrupted.
Plain == <<Row(1, 0, 5, 1), Row(2, 0, 0, 2), Row(1, 0, 5, 2)>>
Turns == <<Row(1, 0, 0, 1), Row(2, 0, 5, 2), Row(1, 0, 5, 1)>>
\* A class of one row, read as two words; a class of two rows, read as one; a class
\* of three rows; a class at both ends; a class that may be left out.
OneRow == <<Row(2, 0, 0, 1), Row(1, 8, 5, 1), Row(3, 0, 0, 2)>>
TwoRows == <<Row(1, 9, 0, 1), Row(2, 9, 5, 1), Row(1, 0, 4, 2)>>
ThreeRows == <<Row(1, 9, 0, 1), Row(2, 9, 0, 1), Row(1, 9, 5, 1)>>
TwoClasses == <<Row(1, 9, 0, 1), Row(2, 9, 4, 1), Row(3, 8, 5, 2)>>
LeftOut == <<Row(1, 0, 0, 1), Row(2, 6, 5, 1), Row(3, 0, 0, 2)>>

Texts(V, len) == UNION {[1..k -> V] : k \in 0..len}
Hyps == Texts({1, 2, 3}, 1) \cup Texts({1, 2}, 2) \cup {<<1, 3, 2>>, <<3, 1, 2>>, <<2, 2, 3>>}

Input(rows, h, r, punctuation) ==
    [records |-> rows, normalization |-> Normalization, hyp |-> h, rules |-> r,
     use_punctuation |-> punctuation, finalEps |-> FALSE]

Syn(l, r) == [lhs |-> l, rhs |-> r]
OneToTwo == <<Syn(<<1>>, <<3, 2>>)>>
TwoToOne == <<Syn(<<1, 2>>, <<3>>)>>
Swap == <<Syn(<<2, 1>>, <<1, 2>>)>>

MCInputs ==
    {Input(rows, h, <<>>, FALSE) :
        rows \in {Plain, Turns, OneRow, TwoRows, ThreeRows, TwoClasses, LeftOut},
        h \in Hyps}
    \cup {Input(Plain, h, r, FALSE) : h \in Hyps, r \in {OneToTwo, TwoToOne, Swap}}
    \cup {Input(TwoRows, h, OneToTwo, FALSE) : h \in Hyps}
    \cup {Input(TwoRows, h, <<>>, TRUE) : h \in {<<1, 5>>, <<3, 5, 1>>}}
    \cup {[Input(rows, h, <<>>, FALSE) EXCEPT !.finalEps = TRUE] :
            rows \in {Plain, OneRow}, h \in {<<1>>, <<2, 1>>}}

\* A class of two rows between whose words one more was said.
SpokenInputs == {Input(TwoRows, <<1, 3, 2, 1>>, <<>>, FALSE)}

\* A date with a comma in it: "first, quarter."
CommaInputs == {Input(<<Row(1, 9, 4, 1), Row(2, 9, 5, 1)>>, <<1, 4, 2, 5>>, <<>>, TRUE)}
=============================================================================
