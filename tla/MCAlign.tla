------------------------------ MODULE MCAlign ------------------------------
(***************************************************************************)
(* Pairs of texts for AlignSystem.  Words are the symbol ids from 1 on.    *)
(***************************************************************************)
EXTENDS AlignSystem

MCState == 0..80
MCLabel == 0..20
MCSynonymLabel == 11..20

Texts(V, len) == UNION {[1..k -> V] : k \in 0..len}

MCInputs == Texts({1, 2}, 3) \X Texts({1, 2}, 4)
NoRules == {<<>>}
NoSynonymOptions == {[disable_cutoffs |-> TRUE, disable_hyphen_ignore |-> TRUE]}
NoHyphens == <<>>
MCStandardInputs == (Texts({1, 2}, 2) \X Texts({1, 2}, 2))
                    \cup {<<<<1, 2>>, <<2, 1, 2>>>>, <<<<1, 2, 1>>, <<2, 1>>>>}

NoLabels == {}
NoCandidates == <<>>

\* Two classes: one that was spoken as 3 or as 1 2, and one of a single word.
MCEntityLabel == {8, 9}
MCCandidates == 8 :> <<<<2>>>> @@ 9 :> <<<<3>>, <<1, 2>>>>
ClassTexts == {<<9>>, <<2, 9>>, <<9, 1>>, <<9, 8>>}

\* 4 is the compound word 1-2, 5 the cutoff word 1-.
MCStemOf == 5 :> 1
MCPartsOf == 4 :> <<1, 2>>
HyphenTexts == {<<4>>, <<5, 2>>, <<1, 2>>, <<4, 1>>, <<5, 4>>}
HyphenHyps == {<<4>>, <<1, 2>>, <<5, 2>>, <<1, 2, 1>>, <<1, 4>>, <<1, 1, 2>>, <<3, 2>>}

Syn(l, r) == [lhs |-> l, alternatives |-> r]
LabelHyps == Texts({1, 2, 3}, 2) \cup {<<3, 2, 2>>, <<2, 3, 2>>, <<3, 2, 1>>, <<1, 2, 1>>,
                                         <<2, 3, 2, 2>>}
LabelInputs == ((Texts({1, 2}, 2) \cup {<<1, 2, 1>>, <<2, 1, 2>>} \cup ClassTexts) \X LabelHyps)
               \cup (HyphenTexts \X HyphenHyps)

\* The last file says twice what may stand for 1, and something else for 1-.
MCRules == {<<Syn(<<1, 2>>, <<<<3>>>>)>>,
            <<Syn(<<1>>, <<<<3, 2>>>>), Syn(<<2, 1>>, <<<<1>>>>)>>,
            <<Syn(<<1>>, <<<<3>>, <<2, 2>>>>), Syn(<<1>>, <<<<2>>>>), Syn(<<5>>, <<<<3>>>>)>>}
MCSynonymOptions == {[disable_cutoffs |-> FALSE, disable_hyphen_ignore |-> FALSE],
                     [disable_cutoffs |-> TRUE, disable_hyphen_ignore |-> FALSE],
                     [disable_cutoffs |-> FALSE, disable_hyphen_ignore |-> TRUE]}

\* The synonym 1 -> 3 2 reads the start of the hypothesis, which the reference
\* repeats behind the word 1.
DetourInputs == {<<<<1, 3, 2, 4>>, <<3, 2, 4>>>>} \cup (Texts({1, 2}, 2) \X Texts({2, 3}, 2))
DetourRules == {<<Syn(<<1>>, <<<<3, 2>>>>)>>}
=============================================================================
