----------------------------- MODULE FirstPass -----------------------------
(***************************************************************************)
(* The optional Levenshtein pass that runs before the alignment            *)
(* (src/src/fstalign.cpp, src/src/fast-d.cpp).                             *)
(*                                                                         *)
(* GetEditDistance fills the rows of edit distances between the reference  *)
(* and the hypothesis, walks back through them and marks the words it      *)
(* matches (1) in one map per text, all others staying -1.  Fstalign then  *)
(* relaxes isolated matches, and uses the maps as "must match" weights     *)
(* unless MapContainsErrorStreaks finds a long run of errors.              *)
(***************************************************************************)
EXTENDS Integers, Sequences

CONSTANTS
    Word,          \* the symbol ids of convertToIntVector
    Inputs,        \* the pairs <<reference, hypothesis>> of word sequences
    MinLength,     \* the "> 10" of Fstalign: shorter texts skip the pass
    StreakCutoff   \* levenstein_maximum_error_streak

ASSUME PassAssumption ==
    /\ Inputs \subseteq Seq(Word) \X Seq(Word)
    /\ MinLength \in Nat
    /\ StreakCutoff \in Nat

VARIABLES
    ref, hyp,            \* vA and vB of Fstalign
    phase,
    seqA, seqB,          \* the arguments of the inner call: seqA is the shorter
    all_distances,       \* row k + 1: distances to the first k words of seqB
    distance, distancePrev,
    current_pos, seqB_track,
    mapA, mapB,          \* the maps of the inner call
    refMap, hypMap,      \* mapA and mapB of Fstalign
    x,                   \* index of the relaxing loops
    useMaps,             \* whether convertToFst is given the maps
    edits,               \* history: the edits that the backtracking went through
    lefts                \* history: its steps to the left

inputVars == <<ref, hyp, seqA, seqB>>
rowVars == <<all_distances, distance, distancePrev>>
trackVars == <<current_pos, seqB_track, mapA, mapB, edits, lefts>>
relaxVars == <<refMap, hypMap, x, useMaps>>
vars == <<inputVars, rowVars, trackVars, relaxVars, phase>>

Unmarked(s) == [i \in 1..Len(s) |-> -1]

-----------------------------------------------------------------------------
\* GetEditDistance

min(a, b, c) ==
    IF a < b THEN (IF a < c THEN a ELSE c) ELSE IF b < c THEN b ELSE c

\* One pass of the inner loop: the row for one more word of seqB.
NextRow_Sub2(row, word) ==   \* mutant: a substitution counts twice
    LET new[i \in 0..Len(seqA)] ==
          IF i = 0 THEN row[0] + 1
          ELSE IF seqA[i] = word THEN row[i - 1]
          ELSE min(new[i - 1], row[i], row[i - 1] + 1) + 1
    IN  new

NextRow(row, word) ==
    LET new[i \in 0..Len(seqA)] ==
          IF i = 0 THEN row[0] + 1
          ELSE IF seqA[i] = word THEN row[i - 1]
          ELSE min(new[i - 1], row[i], row[i - 1]) + 1
    IN  new

Init ==
    /\ \E p \in Inputs : ref = p[1] /\ hyp = p[2]
    /\ phase = "start"
    /\ seqA = <<>> /\ seqB = <<>>
    /\ all_distances = <<>> /\ distance = <<>> /\ distancePrev = <<>>
    /\ current_pos = 0 /\ seqB_track = 0
    /\ mapA = <<>> /\ mapB = <<>>
    /\ refMap = <<>> /\ hypMap = <<>>
    /\ x = 0
    /\ useMaps = FALSE
    /\ edits = 0 /\ lefts = 0

\* Either text is really small: the maps stay empty.
SkipPass ==
    /\ phase = "start"
    /\ Len(ref) <= MinLength \/ Len(hyp) <= MinLength
    /\ phase' = "choose"
    /\ UNCHANGED <<inputVars, rowVars, trackVars, relaxVars>>

Swapped == Len(ref) > Len(hyp)

\* The call of GetEditDistance, which swaps its arguments to have seqA shorter.
StartPass ==
    /\ phase = "start"
    /\ Len(ref) > MinLength /\ Len(hyp) > MinLength
    /\ phase' = "rows"
    /\ seqA' = IF Swapped THEN hyp ELSE ref
    /\ seqB' = IF Swapped THEN ref ELSE hyp
    /\ mapA' = Unmarked(seqA')
    /\ mapB' = Unmarked(seqB')
    /\ distance' = [i \in 0..Len(seqA') |-> i]
    /\ distancePrev' = distance'
    /\ UNCHANGED <<ref, hyp, all_distances, current_pos, seqB_track, edits, lefts,
                   relaxVars>>

FillRow ==
    /\ phase = "rows"
    /\ Len(all_distances) < Len(seqB)
    /\ all_distances' = Append(all_distances, distance)
    /\ distancePrev' = distance
    /\ distance' = NextRow(distance, seqB[Len(all_distances) + 1])
    /\ UNCHANGED <<inputVars, trackVars, relaxVars, phase>>

StartTracking ==
    /\ phase = "rows"
    /\ Len(all_distances) = Len(seqB)
    /\ all_distances' = Append(all_distances, distance)
    /\ phase' = "track"
    /\ current_pos' = Len(seqA)
    /\ seqB_track' = Len(seqB)
    /\ UNCHANGED <<inputVars, distance, distancePrev, mapA, mapB, edits, lefts,
                   relaxVars>>

Tracking == phase = "track" /\ current_pos > 0 /\ seqB_track > 0

nw == distancePrev[current_pos - 1]
n  == distancePrev[current_pos]
w  == distance[current_pos - 1]

\* The end of an iteration: distancePrev becomes distance, and the row above
\* seqB_track is read again; not when seqB_track has reached 0.
ShiftRows ==
    IF seqB_track' = 0
    THEN UNCHANGED <<distance, distancePrev>>
    ELSE /\ distance' = distancePrev
         /\ distancePrev' = all_distances[seqB_track']

\* The upper-left diagonal is the best: a match or a substitution.
TrackDiagonal_MarksSubs ==  \* mutant: substitutions are marked as well
    /\ Tracking
    /\ min(nw, n, w) = nw
    /\ mapA' = [mapA EXCEPT ![current_pos] = 1]
    /\ mapB' = [mapB EXCEPT ![seqB_track] = 1]
    /\ UNCHANGED edits
    /\ current_pos' = current_pos - 1
    /\ seqB_track' = seqB_track - 1
    /\ ShiftRows
    /\ UNCHANGED <<inputVars, all_distances, lefts, relaxVars, phase>>

TrackDiagonal ==
    /\ Tracking
    /\ min(nw, n, w) = nw
    /\ IF seqA[current_pos] = seqB[seqB_track]
       THEN /\ mapA' = [mapA EXCEPT ![current_pos] = 1]
            /\ mapB' = [mapB EXCEPT ![seqB_track] = 1]
            /\ UNCHANGED edits
       ELSE /\ edits' = edits + 1
            /\ UNCHANGED <<mapA, mapB>>
    /\ current_pos' = current_pos - 1
    /\ seqB_track' = seqB_track - 1
    /\ ShiftRows
    /\ UNCHANGED <<inputVars, all_distances, lefts, relaxVars, phase>>

\* Going left: a word of seqA without counterpart.
TrackLeft ==
    /\ Tracking
    /\ min(nw, n, w) # nw
    /\ min(nw, n, w) = w
    /\ current_pos' = current_pos - 1
    /\ UNCHANGED seqB_track
    /\ edits' = edits + 1
    /\ lefts' = lefts + 1
    /\ ShiftRows
    /\ UNCHANGED <<inputVars, all_distances, mapA, mapB, relaxVars, phase>>

\* Going up: a word of seqB without counterpart.
TrackUp_KeepsRows ==        \* mutant: the rows are not shifted
    /\ Tracking
    /\ min(nw, n, w) # nw
    /\ min(nw, n, w) # w
    /\ seqB_track' = seqB_track - 1
    /\ edits' = edits + 1
    /\ UNCHANGED <<inputVars, rowVars, current_pos, mapA, mapB, lefts, relaxVars,
                   phase>>

TrackUp ==
    /\ Tracking
    /\ min(nw, n, w) # nw
    /\ min(nw, n, w) # w
    /\ seqB_track' = seqB_track - 1
    /\ edits' = edits + 1
    /\ ShiftRows
    /\ UNCHANGED <<inputVars, all_distances, current_pos, mapA, mapB, lefts,
                   relaxVars, phase>>

\* What is left on either side are insertions or deletions; GetEditDistance
\* returns and the maps get their original roles back.
EndTracking ==
    /\ phase = "track"
    /\ ~Tracking
    /\ edits' = edits + current_pos + seqB_track
    /\ refMap' = IF Swapped THEN mapB ELSE mapA
    /\ hypMap' = IF Swapped THEN mapA ELSE mapB
    /\ phase' = "relaxRef"
    /\ x' = 1
    /\ UNCHANGED <<inputVars, rowVars, current_pos, seqB_track, mapA, mapB, lefts,
                   useMaps>>

-----------------------------------------------------------------------------
\* Fstalign.  x is a position of the code's vectors, which start at 0; the
\* element x of a vector is the element x + 1 of the sequence.

RelaxAt(map) ==
    IF map[x] < 0 /\ map[x + 2] < 0 THEN [map EXCEPT ![x + 1] = -1] ELSE map

RelaxRef_SkipsLast ==        \* mutant: the bound of the other loop
    /\ phase = "relaxRef"
    /\ IF x < Len(refMap) - 2
       THEN /\ refMap' = RelaxAt(refMap)
            /\ x' = x + 1
            /\ UNCHANGED phase
       ELSE /\ phase' = "relaxHyp"
            /\ x' = 1
            /\ UNCHANGED refMap
    /\ UNCHANGED <<inputVars, rowVars, trackVars, hypMap, useMaps>>

RelaxRef ==
    /\ phase = "relaxRef"
    /\ IF x < Len(refMap) - 1
       THEN /\ refMap' = RelaxAt(refMap)
            /\ x' = x + 1
            /\ UNCHANGED phase
       ELSE /\ phase' = "relaxHyp"
            /\ x' = 1
            /\ UNCHANGED refMap
    /\ UNCHANGED <<inputVars, rowVars, trackVars, hypMap, useMaps>>

RelaxHyp_Stays ==           \* mutant: the loop does not advance
    /\ phase = "relaxHyp"
    /\ IF x < Len(hypMap) - 2
       THEN hypMap' = RelaxAt(hypMap) /\ UNCHANGED <<x, phase>>
       ELSE phase' = "choose" /\ UNCHANGED <<hypMap, x>>
    /\ UNCHANGED <<inputVars, rowVars, trackVars, refMap, useMaps>>

RelaxHyp ==
    /\ phase = "relaxHyp"
    /\ IF x < Len(hypMap) - 2
       THEN /\ hypMap' = RelaxAt(hypMap)
            /\ x' = x + 1
            /\ UNCHANGED phase
       ELSE /\ phase' = "choose"
            /\ UNCHANGED <<hypMap, x>>
    /\ UNCHANGED <<inputVars, rowVars, trackVars, refMap, useMaps>>

\* A match after more than cutoff words in a row that are none.
MapContainsErrorStreaks(map, cutoff) ==
    \E i \in (cutoff + 2)..Len(map) :
        /\ map[i] > 0
        /\ \A k \in (i - cutoff - 1)..(i - 1) : map[k] <= 0

\* Only the hypothesis map decides whether the maps are used.
ChooseMaps ==
    /\ phase = "choose"
    /\ useMaps' = ~MapContainsErrorStreaks(hypMap, StreakCutoff)
    /\ phase' = "done"
    /\ UNCHANGED <<inputVars, rowVars, trackVars, refMap, hypMap, x>>

Finished == phase = "done" /\ UNCHANGED vars

Step ==
    \/ SkipPass \/ StartPass
    \/ FillRow \/ StartTracking
    \/ TrackDiagonal \/ TrackLeft \/ TrackUp \/ EndTracking
    \/ RelaxRef \/ RelaxHyp
    \/ ChooseMaps

Next == Step \/ Finished

Spec == Init /\ [][Next]_vars /\ WF_vars(Step)
-----------------------------------------------------------------------------
\* Properties

\* The textbook edit distance between the first i words of s and the first j
\* words of t: the reference for the rows.
EditDistance(s, t) ==
    LET d[p \in (0..Len(s)) \X (0..Len(t))] ==
          LET i == p[1]
              j == p[2]
          IN  IF i = 0 THEN j
              ELSE IF j = 0 THEN i
              ELSE min(d[<<i - 1, j>>] + 1, d[<<i, j - 1>>] + 1,
                       d[<<i - 1, j - 1>>] + (IF s[i] = t[j] THEN 0 ELSE 1))
    IN  d

\* Every row, computed in place and with the diagonal taken whenever the words
\* are equal, holds the edit distances between prefixes.
RowsAreDistances ==
    phase = "track" /\ current_pos = Len(seqA) /\ seqB_track = Len(seqB) =>
        LET d == EditDistance(seqA, seqB)
        IN  \A k \in 1..Len(all_distances) :
               \A i \in 0..Len(seqA) : all_distances[k][i] = d[<<i, k - 1>>]

Marked(s, map) ==
    LET m[i \in 0..Len(s)] ==
          IF i = 0 THEN <<>>
          ELSE IF map[i] > 0 THEN Append(m[i - 1], s[i]) ELSE m[i - 1]
    IN  m[Len(s)]

\* The words marked in the two maps are the same words in the same order: every
\* match has its counterpart, in a map that the swap has not exchanged.
MarksAgree ==
    phase = "relaxRef" /\ x = 1 => Marked(ref, refMap) = Marked(hyp, hypMap)

\* The backtracking goes through as many edits as the distance or more, by one at
\* most for each step to the left, behind which it reads w from the wrong row
\* (src/src/fast-d.cpp:202): without such a step the path is a shortest one.
EditsNearDistance ==
    phase = "relaxRef" =>
        LET dist == all_distances[Len(seqB) + 1][Len(seqA)]
        IN  dist <= edits /\ edits <= dist + lefts

\* A map in which the words up to last lose their mark that stand between two
\* words without one, all at once.
Relaxed(map, last) ==
    [i \in DOMAIN map |->
       IF i \in 2..last /\ map[i - 1] < 0 /\ map[i + 1] < 0 THEN -1 ELSE map[i]]

RefMarks == IF Swapped THEN mapB ELSE mapA
HypMarks == IF Swapped THEN mapA ELSE mapB

\* The loops that relax isolated matches, which write to the map that they read,
\* do so as if they read what the backtracking has left: they take away no match
\* because of another one taken away, and keep no isolated one
\* (src/src/fstalign.cpp:81: "if one word is marked to be forcefully aligned but the
\* words before and after are possible errors, we'll let this word be possibly an
\* error as well").  The loop over the hypothesis stops one word earlier.
RelaxedAtOnce ==
    phase = "done" =>
        /\ refMap = Relaxed(RefMarks, Len(refMap) - 1)
        /\ hypMap = Relaxed(HypMarks, Len(hypMap) - 2)

\* The maps that are used have no streak of more than StreakCutoff errors
\* (src/src/fast-d.h:29: "Returns whether map contains long error streaks.").
UsedMapHasNoStreak ==
    phase = "done" /\ useMaps =>
        ~\E i \in 1..(Len(hypMap) - StreakCutoff) :
            \A k \in i..(i + StreakCutoff) : hypMap[k] <= 0

\* The edits that the backtracking goes through are as many as the distance
\* (src/src/fast-d.cpp:67: "dig all the way to the end to get the distance, then
\* let's try to backtrack and get the edits from there"); no path has fewer.
BacktrackIsShortest ==
    phase = "relaxRef" => edits = all_distances[Len(seqB) + 1][Len(seqA)]

\* The pass comes to an end: the backtracking and both relaxing loops advance.
Ends == <>(phase = "done")
=============================================================================
