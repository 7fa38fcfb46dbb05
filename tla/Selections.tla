----------------------------- MODULE Selections -----------------------------
(***************************************************************************)
(* Operators on sequences that several modules need: the elements that are *)
(* picked by their indices, in their order, and sums.                      *)
(***************************************************************************)
EXTENDS Integers, Sequences, SequencesExt

Those(seq, keep) ==
    LET those[i \in 0..Len(seq)] ==
          IF i = 0 THEN <<>>
          ELSE IF i \in keep THEN Append(those[i - 1], seq[i]) ELSE those[i - 1]
    IN  those[Len(seq)]

\* The sum of the first k numbers of a sequence.
SumTo(numbers, k) == FoldLeft(LAMBDA sum, i : sum + numbers[i], 0, [i \in 1..k |-> i])

When(cond, s) == IF cond THEN s ELSE <<>>
=============================================================================
