---------------------------- MODULE MCFirstPass ----------------------------
(***************************************************************************)
(* All texts of up to five words over a vocabulary of two, and up to four  *)
(* over three, and two of six words.                                       *)
(***************************************************************************)
EXTENDS FirstPass

Texts(W, len) == UNION {[1..k -> W] : k \in 0..len}

\* Two texts of six words, of which the backtracking goes left with a word more to
\* go left for.
Detour == <<<<"m", "x", "y", "a", "b", "c">>, <<"m", "a", "b", "c", "z", "w">>>>

MCInputs ==
    (Texts({"a", "b"}, 5) \X Texts({"a", "b"}, 5))
        \cup (Texts({"a", "b", "c"}, 4) \X Texts({"a", "b", "c"}, 4))
        \cup {Detour}

MCLongInputs == Texts({"a", "b"}, 2) \X Texts({"a", "b"}, 2) \cup {Detour}
=============================================================================
