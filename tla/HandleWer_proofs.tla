-------------------------- MODULE HandleWer_proofs --------------------------
(***************************************************************************)
(* What HandleWer makes of any chain of arcs that leads through the graph  *)
(* of the reference and that of the hypothesis: the groups of errors, the  *)
(* tokens and the counts that the traceback tells, and the stitches that   *)
(* the visit of its answer leaves.                                         *)
(***************************************************************************)
EXTENDS HandleGraphs_proofs

\* The operators on sequences that the statistics are built with.
LEMMA CountOps ==
    /\ \A seqs : Z!FlattenSeq(seqs) = FlattenSeq(seqs)
    /\ \A seq, keep : Z!Those(seq, keep) = Those(seq, keep)
    /\ \A s : Z!Max(s) = Max(s)
    /\ \A s : Z!Cardinality(s) = Cardinality(s)
  BY DEF Z!Cardinality, Cardinality, Z!FlattenSeq, FlattenSeq, Z!Those, Those, Z!Max, Max,
         Z!FoldLeft, FoldLeft, Z!MapThenFoldSet, MapThenFoldSet

-----------------------------------------------------------------------------
\* The groups of errors

\* The stitches are a sequence.
AreStitched == \E elems : stitches \in Seq(elems)

LEMMA StitchesAreSequence == Spec => []AreStitched
  <1>1. Init => AreStitched
    <2> SUFFICES ASSUME Init PROVE AreStitched
      OBVIOUS
    <2>1. stitches \in Seq({})
      BY DEF Init, S!VisitInit
    <2> QED
      BY <2>1 DEF AreStitched
  <1>2. AreStitched /\ [Next]_vars => AreStitched'
    <2> SUFFICES ASSUME AreStitched, [Next]_vars PROVE AreStitched'
      OBVIOUS
    <2>1. PICK elems : stitches \in Seq(elems)
      BY DEF AreStitched
    <2>2. CASE UNCHANGED stitches
      BY <2>1, <2>2 DEF AreStitched
    <2>3. ASSUME NEW s, stitches' = Append(stitches, s) PROVE AreStitched'
      <3>1. Append(stitches, s) \in Seq(elems \cup {s})
        BY <2>1
      <3>2. stitches' \in Seq(elems \cup {s})
        BY <2>3, <3>1
      <3> QED
        BY <3>2 DEF AreStitched
    <2>4. ASSUME NEW rows, NEW comment, N!Attach(rows, comment) PROVE AreStitched'
      <3> DEFINE e(k) == IF k - aligned \in DOMAIN rows
                         THEN [stitches[k] EXCEPT !.nlpRow = rows[k - aligned],
                                                  !.how = comment]
                         ELSE stitches[k]
                 m == Len(stitches)
                 made == {e(k) : k \in 1..m}
      <3>1. DOMAIN stitches = 1..m /\ m \in Nat
        BY <2>1
      <3>2. stitches' = [k \in DOMAIN stitches |-> e(k)]
        BY <2>4 DEF N!Attach
      <3> HIDE DEF e, m
      <3>3. [k \in 1..m |-> e(k)] \in Seq(made)
        BY <3>1
      <3>4. stitches' \in Seq(made)
        BY <3>1, <3>2, <3>3
      <3> QED
        BY <3>4 DEF AreStitched
    <2>5. CASE Load \/ Walk \/ ReadBack \/ Done \/ UNCHANGED vars
      <3>1. UNCHANGED stitches
        BY <2>5 DEF Load, Walk, ReadBack, Done, vars
      <3> QED
        BY <2>2, <3>1
    <2>6. CASE MakeStitches
      <3>1. CASE UNCHANGED stitches
        BY <2>2, <3>1
      <3>2. ASSUME NEW r, NEW h, NEW l, S!Emit(r, h, l) PROVE AreStitched'
        BY <2>3, <3>2 DEF S!Emit
      <3> QED
        BY <2>6, <3>1, <3>2 DEF MakeStitches, makeVars, S!Visit, S!GlobalTriple, S!EnterClass, S!ClassTriple,
             S!NoopTriple, S!LeaveClass, S!stitchVars
    <2>7. CASE AlignStitchesToNlp
      <3>1. CASE UNCHANGED stitches
        BY <2>2, <3>1
      <3>2. \/ UNCHANGED stitches
            \/ \E rows, comment : N!Attach(rows, comment)
        BY <2>7 DEF AlignStitchesToNlp, rowVars, N!AlignRow, N!SkipInsertion, N!AttachRow,
             N!AttachDirect, N!AttachPushLast, N!AttachSplitWorst
      <3> QED
        BY <2>4, <3>1, <3>2
    <2> QED
      BY <2>5, <2>6, <2>7 DEF Next, Step
  <1> QED
    BY <1>1, <1>2, PTL DEF Spec

\* The state of the pass over the stitches of words from tk, and one step of it.
Tokens(elems) == {e.reftk : e \in elems} \cup {e.hyptk : e \in elems}
GroupsOf(tk) == [line : Nat, ref : Seq(tk), hyp : Seq(tk)]
Grouping(tk) == [groups : Seq(GroupsOf(tk)), group : GroupsOf(tk), offset : Nat]
Ungrouped == [groups |-> <<>>, group |-> Z!NoGroup, offset |-> 2]

WithError(f, s) ==
    [f EXCEPT !.group = [line |-> IF @.line = 0 THEN f.offset ELSE @.line,
                         ref |-> @.ref \o (IF s.reftk = InsLabel THEN <<>>
                                           ELSE <<s.reftk>>),
                         hyp |-> @.hyp \o (IF s.hyptk = DelLabel THEN <<>>
                                           ELSE <<s.hyptk>>)]]
Close(f) == IF f.group.line = 0 THEN f
            ELSE [f EXCEPT !.groups = Append(@, f.group), !.group = Z!NoGroup]
Group(f, s) ==
    IF s.reftk = Z!NOOP THEN f
    ELSE [(IF s.reftk # s.hyptk THEN WithError(f, s) ELSE Close(f)) EXCEPT !.offset = @ + 1]

IsGrouping(f, seq, tk) ==
    /\ f \in [0..Len(seq) -> Grouping(tk)] /\ f[0] = Ungrouped
    /\ \A i \in 1..Len(seq) : f[i] = Group(f[i - 1], seq[i])

LEMMA GroupType ==
    ASSUME NEW elems, NEW f \in Grouping(Tokens(elems)), NEW s \in elems
    PROVE  /\ WithError(f, s) \in Grouping(Tokens(elems))
           /\ Close(f) \in Grouping(Tokens(elems))
           /\ Group(f, s) \in Grouping(Tokens(elems))
  <1> DEFINE tk == Tokens(elems)
             r == IF s.reftk = InsLabel THEN <<>> ELSE <<s.reftk>>
             h == IF s.hyptk = DelLabel THEN <<>> ELSE <<s.hyptk>>
             g == f.group
  <1>1. s.reftk \in tk /\ s.hyptk \in tk
    BY DEF Tokens
  <1>2. /\ f.groups \in Seq(GroupsOf(tk)) /\ g \in GroupsOf(tk) /\ f.offset \in Nat
        /\ g.line \in Nat /\ g.ref \in Seq(tk) /\ g.hyp \in Seq(tk)
    BY DEF Grouping, GroupsOf
  <1>3. r \in Seq(tk) /\ h \in Seq(tk)
    BY <1>1
  <1>4. Z!NoGroup \in GroupsOf(tk)
    BY DEF Z!NoGroup, GroupsOf
  <1> HIDE DEF r, h, tk
  <1>5. WithError(f, s) \in Grouping(tk)
    <2> DEFINE new == [line |-> IF g.line = 0 THEN f.offset ELSE g.line,
                       ref |-> g.ref \o r, hyp |-> g.hyp \o h]
    <2>1. new \in GroupsOf(tk)
      BY <1>2, <1>3 DEF GroupsOf
    <2>2. WithError(f, s) = [f EXCEPT !.group = new]
      BY DEF WithError, r, h
    <2> HIDE DEF new
    <2> QED
      BY <2>1, <2>2 DEF Grouping, tk
  <1>6. Close(f) \in Grouping(tk)
    <2> DEFINE more == Append(f.groups, g)
    <2>1. more \in Seq(GroupsOf(tk))
      BY <1>2
    <2>2. Close(f) = IF g.line = 0 THEN f ELSE [f EXCEPT !.groups = more, !.group = Z!NoGroup]
      BY DEF Close
    <2> HIDE DEF more, g
    <2>3. f \in Grouping(tk)
      BY DEF tk
    <2> QED
      BY <1>4, <2>1, <2>2, <2>3 DEF Grouping
  <1>7. \A v \in Grouping(tk) : [v EXCEPT !.offset = @ + 1] \in Grouping(tk)
    BY DEF Grouping
  <1> QED
    BY <1>5, <1>6, <1>7 DEF Group, tk

LEMMA GroupRun ==
    ASSUME NEW elems, NEW seq \in Seq(elems)
    PROVE  \E f : /\ IsGrouping(f, seq, Tokens(elems))
                  /\ Z!ErrorGroups(seq) = Close(f[Len(seq)]).groups
  <1> DEFINE k == Len(seq)
             V == Grouping(Tokens(elems))
             states == Ungrouped
             On(h, e) == Group(h, e)
             step == [i \in 1..k |-> [v \in V |-> On(v, seq[i])]]
             Eq(h) == h = [s \in SUBSET (DOMAIN seq) |->
                             IF s = {} THEN states
                             ELSE On(h[s \ {Z!Max(s)}], seq[Z!Max(s)])]
             it == CHOOSE h : Eq(h)
  <1>0. k \in Nat /\ DOMAIN seq = 1..k /\ (\A s : Z!Max(s) = Max(s))
        /\ \A i \in 1..k : seq[i] \in elems
    BY CountOps
  <1>1. \A v \in V, e \in elems : On(v, e) \in V
    BY GroupType
  <1>a. states \in V
    BY DEF Ungrouped, Grouping, GroupsOf, Z!NoGroup
  <1> HIDE DEF On
  <1>2. AreSteps(step, k, V) /\ states \in V
    <2> HIDE DEF k, V
    <2> QED
      BY <1>0, <1>1, <1>a DEF AreSteps
  <1>3. \E h : Eq(h)
    <2>1. PICK h \in [SUBSET (1..k) -> V] : IsFold(h, step, k, states)
      <3> HIDE DEF step, k, V
      <3> QED
        BY <1>0, <1>2, FoldExists
    <2>2. \A s \in SUBSET (1..k) : s # {} =>
             step[Max(s)][h[s \ {Max(s)}]] = On(h[s \ {Max(s)}], seq[Max(s)])
      <3> SUFFICES ASSUME NEW s \in SUBSET (1..k), s # {}
                   PROVE  step[Max(s)][h[s \ {Max(s)}]] = On(h[s \ {Max(s)}], seq[Max(s)])
        OBVIOUS
      <3> HIDE DEF k, V
      <3>1. Max(s) \in 1..k
        BY <1>0, LastPosition
      <3>2. h[s \ {Max(s)}] \in V
        BY <2>1
      <3> QED
        BY <3>1, <3>2
    <2>3. Eq(h)
      <3> HIDE DEF step, k, V
      <3> QED
        BY <1>0, <2>1, <2>2 DEF IsFold
    <2> HIDE DEF Eq
    <2> QED
      BY <2>3
  <1>4. Eq(it)
    <2> HIDE DEF Eq
    <2> QED
      BY <1>3
  <1>5. Z!ErrorGroups(seq) = Close(it[1..k]).groups
    <2>1. Z!ErrorGroups(seq) = Close(it[DOMAIN seq]).groups
      BY DEF Z!ErrorGroups, Group, Close, WithError, Ungrouped, Z!FoldLeft, Z!MapThenFoldSet, On
    <2> HIDE DEF it, k
    <2> QED
      BY <1>0, <2>1
  <1> HIDE DEF it
  <1>6. it[{}] = states
    <2> HIDE DEF k, states
    <2> QED
      BY <1>0, <1>4
  <1>7. \A i \in 1..k : it[1..(i - 1)] \in V => it[1..i] = step[i][it[1..(i - 1)]]
    <2> SUFFICES ASSUME NEW i \in 1..k, it[1..(i - 1)] \in V
                 PROVE  it[1..i] = step[i][it[1..(i - 1)]]
      OBVIOUS
    <2>1. Max(1..i) = i /\ (1..i) \ {i} = 1..(i - 1)
      <3>1. i \in Nat \ {0}
        OBVIOUS
      <3> QED
        BY <3>1, MaxOfPrefix
    <2>2. (1..i) \in SUBSET (1..k) /\ 1..i # {}
      <3>1. i \in 1..i /\ \A y \in 1..i : y \in 1..k
        BY <1>0
      <3> QED
        BY <3>1
    <2> DEFINE s == 1..i
    <2>3. it[s] = On(it[s \ {Max(s)}], seq[Max(s)])
      <3> HIDE DEF s, k
      <3> QED
        BY <1>0, <1>4, <2>2 DEF s
    <2>4. step[i][it[1..(i - 1)]] = On(it[1..(i - 1)], seq[i])
      <3> HIDE DEF k, V
      <3> QED
        OBVIOUS
    <2> HIDE DEF step, k, V
    <2> QED
      BY <2>1, <2>3, <2>4
  <1> HIDE DEF k, V, Eq, states
  <1>8. PICK f : IsRun(f, step, k, V, states) /\ it[1..k] = f[k]
    <2> HIDE DEF step
    <2> QED
      BY <1>0, <1>2, <1>6, <1>7, FoldRuns
  <1>9. \A i \in 1..k : f[i] = On(f[i - 1], seq[i])
    <2> SUFFICES ASSUME NEW i \in 1..k PROVE f[i] = On(f[i - 1], seq[i])
      OBVIOUS
    <2>1. i - 1 \in 0..k
      BY <1>0
    <2> QED
      BY <1>8, <2>1 DEF IsRun
  <1> QED
    BY <1>5, <1>8, <1>9 DEF IsRun, IsGrouping, V, k, states, On

\* What is said of the groups: the errors among some stitches, and where a run of
\* them starts.
Wrong(s) == s.reftk # s.hyptk
Starts(ws) == Those([k \in DOMAIN ws |-> k],
                    {k \in DOMAIN ws : Wrong(ws[k]) /\ (k = 1 \/ ~Wrong(ws[k - 1]))})
Errors(ws) == Those(ws, {k \in DOMAIN ws : Wrong(ws[k])})
Without(seq, marker) == Those(seq, {k \in DOMAIN seq : seq[k] # marker})
RefSide(ws) == [k \in DOMAIN ws |-> ws[k].reftk]
HypSide(ws) == [k \in DOMAIN ws |-> ws[k].hyptk]

LEMMA StartsGrow ==
    ASSUME NEW elems, NEW ws \in Seq(elems), NEW s \in elems
    PROVE  Starts(Append(ws, s))
             = IF Wrong(s) /\ ~(ws # <<>> /\ Wrong(ws[Len(ws)]))
               THEN Append(Starts(ws), Len(ws) + 1) ELSE Starts(ws)
  <1> DEFINE m == Len(ws)
             tt == Append(ws, s)
             At(seq) == {k \in DOMAIN seq : Wrong(seq[k]) /\ (k = 1 \/ ~Wrong(seq[k - 1]))}
             id == [k \in 1..m |-> k]
  <1>1. /\ m \in Nat /\ DOMAIN ws = 1..m /\ DOMAIN tt = 1..(m + 1) /\ tt[m + 1] = s
        /\ \A k \in 1..m : tt[k] = ws[k]
        /\ ws = <<>> <=> m = 0
    OBVIOUS
  <1> HIDE DEF tt, m
  <1>2. id \in Seq(Nat) /\ Len(id) = m /\ [k \in 1..(m + 1) |-> k] = Append(id, m + 1)
    BY <1>1
  <1>3. \A i \in 1..m : i \in At(tt) <=> i \in At(ws)
    <2> SUFFICES ASSUME NEW i \in 1..m PROVE i \in At(tt) <=> i \in At(ws)
      OBVIOUS
    <2>1. i # 1 => i - 1 \in 1..m
      BY <1>1
    <2>2. i \in 1..(m + 1)
      BY <1>1
    <2> QED
      BY <1>1, <2>1, <2>2
  <1>4. m + 1 \in At(tt) <=> Wrong(s) /\ ~(ws # <<>> /\ Wrong(ws[m]))
    <2>1. m + 1 \in 1..(m + 1) /\ (m + 1) - 1 = m /\ (m + 1 = 1 <=> m = 0)
      BY <1>1
    <2>2. m # 0 => m \in 1..m
      BY <1>1
    <2> QED
      BY <1>1, <2>1, <2>2
  <1> HIDE DEF At
  <1>5. Those(Append(id, m + 1), At(tt))
          = IF m + 1 \in At(tt) THEN Append(Those(id, At(ws)), m + 1) ELSE Those(id, At(ws))
    <2> HIDE DEF id
    <2>1. m + 1 \in Nat /\ id \in Seq(Nat) /\ \A i \in 1..Len(id) : i \in At(tt) <=> i \in At(ws)
      BY <1>1, <1>2, <1>3
    <2> DEFINE x == m + 1
               more == At(tt)
               keep == At(ws)
    <2>2. x \in Nat /\ Len(id) + 1 = x /\ \A i \in 1..Len(id) : i \in more <=> i \in keep
      BY <1>1, <1>2, <2>1
    <2> HIDE DEF x, more, keep
    <2>3. Those(Append(id, x), more)
            = IF Len(id) + 1 \in more THEN Append(Those(id, keep), x) ELSE Those(id, keep)
      BY <2>1, <2>2, ThoseGrows
    <2> QED
      BY <2>2, <2>3 DEF x, more, keep
  <1>6. Starts(tt) = Those(Append(id, m + 1), At(tt)) /\ Starts(ws) = Those(id, At(ws))
    <2>1. Starts(tt) = Those([k \in DOMAIN tt |-> k], At(tt))
      BY DEF Starts, At
    <2>2. Starts(ws) = Those([k \in DOMAIN ws |-> k], At(ws))
      BY DEF Starts, At
    <2> QED
      BY <1>1, <1>2, <2>1, <2>2
  <1> QED
    BY <1>4, <1>5, <1>6 DEF tt, m

LEMMA ErrorsGrow ==
    ASSUME NEW elems, NEW ws \in Seq(elems), NEW s \in elems
    PROVE  /\ Errors(ws) \in Seq(elems)
           /\ Errors(Append(ws, s)) = IF Wrong(s) THEN Append(Errors(ws), s) ELSE Errors(ws)
  <1> DEFINE m == Len(ws)
             tt == Append(ws, s)
             At(seq) == {k \in DOMAIN seq : Wrong(seq[k])}
  <1>1. /\ m \in Nat /\ DOMAIN ws = 1..m /\ DOMAIN tt = 1..(m + 1) /\ tt[m + 1] = s
        /\ \A k \in 1..m : tt[k] = ws[k]
    OBVIOUS
  <1> HIDE DEF tt, m
  <1>2. \A i \in 1..m : i \in At(tt) <=> i \in At(ws)
    BY <1>1
  <1>3. m + 1 \in At(tt) <=> Wrong(s)
    BY <1>1
  <1> HIDE DEF At
  <1>4. Those(Append(ws, s), At(tt))
          = IF m + 1 \in At(tt) THEN Append(Those(ws, At(ws)), s) ELSE Those(ws, At(ws))
    BY <1>2, ThoseGrows DEF m
  <1>5. Those(ws, At(ws)) \in Seq(elems)
    BY ThoseFacts
  <1> QED
    BY <1>3, <1>4, <1>5 DEF Errors, At, tt, m

LEMMA WithoutGrows ==
    ASSUME NEW elems, NEW seq \in Seq(elems), NEW x \in elems, NEW marker
    PROVE  /\ Without(seq, marker) \in Seq(elems)
           /\ Without(Append(seq, x), marker)
                = Without(seq, marker) \o (IF x = marker THEN <<>> ELSE <<x>>)
  <1> DEFINE m == Len(seq)
             tt == Append(seq, x)
             At(s) == {k \in DOMAIN s : s[k] # marker}
  <1>1. /\ m \in Nat /\ DOMAIN seq = 1..m /\ DOMAIN tt = 1..(m + 1) /\ tt[m + 1] = x
        /\ \A k \in 1..m : tt[k] = seq[k]
    OBVIOUS
  <1> HIDE DEF tt, m
  <1>2. \A i \in 1..m : i \in At(tt) <=> i \in At(seq)
    BY <1>1
  <1>3. m + 1 \in At(tt) <=> x # marker
    BY <1>1
  <1> HIDE DEF At
  <1>4. Those(Append(seq, x), At(tt))
          = IF m + 1 \in At(tt) THEN Append(Those(seq, At(seq)), x) ELSE Those(seq, At(seq))
    BY <1>2, ThoseGrows DEF m
  <1>5. Those(seq, At(seq)) \in Seq(elems)
    BY ThoseFacts
  <1> DEFINE u == Those(seq, At(seq))
  <1>6. Append(u, x) = u \o <<x>> /\ u = u \o <<>>
    BY <1>5
  <1> HIDE DEF u
  <1>7. Without(tt, marker) = u \o (IF x = marker THEN <<>> ELSE <<x>>)
    BY <1>3, <1>4, <1>6 DEF Without, At, tt, m, u
  <1> QED
    BY <1>5, <1>7 DEF Without, At, tt, u

\* The lines and the words of some groups.
LinesOf(groups) == [k \in DOMAIN groups |-> groups[k].line]
RefsOf(groups) == FlattenSeq([k \in DOMAIN groups |-> groups[k].ref])
HypsOf(groups) == FlattenSeq([k \in DOMAIN groups |-> groups[k].hyp])
OneOn(starts) == [k \in DOMAIN starts |-> starts[k] + 1]

LEMMA GroupsGrow ==
    ASSUME NEW tk, NEW groups \in Seq(GroupsOf(tk)), NEW g \in GroupsOf(tk)
    PROVE  /\ LinesOf(Append(groups, g)) = Append(LinesOf(groups), g.line)
           /\ RefsOf(Append(groups, g)) = RefsOf(groups) \o g.ref
           /\ HypsOf(Append(groups, g)) = HypsOf(groups) \o g.hyp
           /\ LinesOf(groups) \in Seq(Nat) /\ RefsOf(groups) \in Seq(tk) /\ HypsOf(groups) \in Seq(tk)
  <1> DEFINE m == Len(groups)
             refs == [k \in 1..m |-> groups[k].ref]
             hyps == [k \in 1..m |-> groups[k].hyp]
             lines == [k \in 1..m |-> groups[k].line]
             tt == Append(groups, g)
  <1>1. /\ m \in Nat /\ DOMAIN groups = 1..m /\ DOMAIN tt = 1..(m + 1) /\ tt[m + 1] = g
        /\ \A k \in 1..m : tt[k] = groups[k] /\ groups[k] \in GroupsOf(tk)
    OBVIOUS
  <1> HIDE DEF tt, m
  <1>2. refs \in Seq(Seq(tk)) /\ hyps \in Seq(Seq(tk)) /\ lines \in Seq(Nat)
        /\ Len(refs) = m /\ Len(hyps) = m /\ Len(lines) = m
    <2>1. \A k \in 1..m : /\ groups[k].ref \in Seq(tk) /\ groups[k].hyp \in Seq(tk)
                          /\ groups[k].line \in Nat
      BY <1>1 DEF GroupsOf
    <2>2. refs \in [1..m -> Seq(tk)] /\ hyps \in [1..m -> Seq(tk)] /\ lines \in [1..m -> Nat]
      BY <2>1
    <2> HIDE DEF refs, hyps, lines
    <2>3. lines \in Seq(Nat) /\ Len(lines) = m
      BY <1>1, <2>2
    <2> QED
      BY <1>1, <2>2, <2>3, FlattenType
  <1>3. g.ref \in Seq(tk) /\ g.hyp \in Seq(tk) /\ g.line \in Nat
    BY DEF GroupsOf
  <1>4. [k \in 1..(m + 1) |-> tt[k].ref] = Append(refs, g.ref)
    BY <1>1, <1>2, <1>3
  <1>5. [k \in 1..(m + 1) |-> tt[k].hyp] = Append(hyps, g.hyp)
    BY <1>1, <1>2, <1>3
  <1>6. [k \in 1..(m + 1) |-> tt[k].line] = Append(lines, g.line)
    BY <1>1, <1>2, <1>3
  <1>7. LinesOf(groups) = lines /\ RefsOf(groups) = FlattenSeq(refs) /\ HypsOf(groups) = FlattenSeq(hyps)
    BY <1>1 DEF LinesOf, RefsOf, HypsOf
  <1>8. /\ LinesOf(tt) = Append(lines, g.line) /\ RefsOf(tt) = FlattenSeq(Append(refs, g.ref))
        /\ HypsOf(tt) = FlattenSeq(Append(hyps, g.hyp))
    BY <1>1, <1>4, <1>5, <1>6 DEF LinesOf, RefsOf, HypsOf
  <1> HIDE DEF refs, hyps, lines
  <1>9. /\ FlattenSeq(Append(refs, g.ref)) = FlattenSeq(refs) \o g.ref
        /\ FlattenSeq(Append(hyps, g.hyp)) = FlattenSeq(hyps) \o g.hyp
    BY <1>2, <1>3, FlattenAppend
  <1>10. FlattenSeq(refs) \in Seq(tk) /\ FlattenSeq(hyps) \in Seq(tk)
    BY <1>2, FlattenFacts
  <1> QED
    BY <1>2, <1>7, <1>8, <1>9, <1>10 DEF tt

\* What is known of the pass over the stitches behind the words ws: the groups, with
\* the one that is open, hold the errors among them.
Covers(f, ws) ==
    /\ f.offset = 2 + Len(ws)
    /\ f.group.line = 0 => f.group = Z!NoGroup
    /\ f.group.line # 0 <=> ws # <<>> /\ Wrong(ws[Len(ws)])
    /\ LinesOf(Close(f).groups) = OneOn(Starts(ws))
    /\ RefsOf(Close(f).groups) = Without(RefSide(Errors(ws)), InsLabel)
    /\ HypsOf(Close(f).groups) = Without(HypSide(Errors(ws)), DelLabel)

LEMMA TokensOf ==
    ASSUME NEW elems, NEW ws \in Seq(elems)
    PROVE  RefSide(ws) \in Seq(Tokens(elems)) /\ HypSide(ws) \in Seq(Tokens(elems))
  <1>1. \A e \in elems : e.reftk \in Tokens(elems) /\ e.hyptk \in Tokens(elems)
    BY DEF Tokens
  <1>2. DOMAIN ws = 1..Len(ws) /\ Len(ws) \in Nat /\ \A k \in 1..Len(ws) : ws[k] \in elems
    OBVIOUS
  <1>3. /\ \A k \in 1..Len(ws) : ws[k].reftk \in Tokens(elems)
        /\ \A k \in 1..Len(ws) : ws[k].hyptk \in Tokens(elems)
    BY <1>1, <1>2
  <1> QED
    BY <1>2, <1>3 DEF RefSide, HypSide

LEMMA TokensGrow ==
    ASSUME NEW elems, NEW ws \in Seq(elems), NEW s \in elems
    PROVE  /\ RefSide(Append(ws, s)) = Append(RefSide(ws), s.reftk)
           /\ HypSide(Append(ws, s)) = Append(HypSide(ws), s.hyptk)
  <1> DEFINE tt == Append(ws, s)
             m == Len(ws)
  <1>1. /\ m \in Nat /\ DOMAIN ws = 1..m /\ DOMAIN tt = 1..(m + 1) /\ tt[m + 1] = s
        /\ \A k \in 1..m : tt[k] = ws[k]
    OBVIOUS
  <1> HIDE DEF tt, m
  <1>2. /\ RefSide(ws) = [k \in 1..m |-> ws[k].reftk]
        /\ HypSide(ws) = [k \in 1..m |-> ws[k].hyptk]
        /\ RefSide(tt) = [k \in 1..(m + 1) |-> tt[k].reftk]
        /\ HypSide(tt) = [k \in 1..(m + 1) |-> tt[k].hyptk]
    BY <1>1 DEF RefSide, HypSide
  <1>3. RefSide(ws) \in Seq(Tokens(elems)) /\ HypSide(ws) \in Seq(Tokens(elems))
    BY TokensOf
  <1>4. [k \in 1..(m + 1) |-> tt[k].reftk] = Append([k \in 1..m |-> ws[k].reftk], s.reftk)
    BY <1>1, <1>2, <1>3
  <1>5. [k \in 1..(m + 1) |-> tt[k].hyptk] = Append([k \in 1..m |-> ws[k].hyptk], s.hyptk)
    BY <1>1, <1>2, <1>3
  <1> QED
    BY <1>2, <1>4, <1>5 DEF tt

\* Sequences may be joined in any order.
Associates(a, b, c) == a \o (b \o c) = (a \o b) \o c

LEMMA ConcatAssociates ==
    ASSUME NEW elems, NEW a \in Seq(elems), NEW b \in Seq(elems), NEW c \in Seq(elems)
    PROVE  Associates(a, b, c)
  BY DEF Associates

\* A word of the hypothesis or of the reference more.
LEMMA GroupCovers ==
    ASSUME NEW elems, NEW ws \in Seq(elems), NEW s \in elems,
           NEW f \in Grouping(Tokens(elems)), Covers(f, ws), s.reftk # Z!NOOP
    PROVE  Covers(Group(f, s), Append(ws, s))
  <1> DEFINE tk == Tokens(elems)
             g == f.group
             r == IF s.reftk = InsLabel THEN <<>> ELSE <<s.reftk>>
             h == IF s.hyptk = DelLabel THEN <<>> ELSE <<s.hyptk>>
             tt == Append(ws, s)
             m == Len(ws)
             new == [line |-> IF g.line = 0 THEN f.offset ELSE g.line,
                     ref |-> g.ref \o r, hyp |-> g.hyp \o h]
             after == Group(f, s)
  <1>1. /\ f.groups \in Seq(GroupsOf(tk)) /\ g \in GroupsOf(tk) /\ f.offset \in Nat
        /\ g.line \in Nat /\ g.ref \in Seq(tk) /\ g.hyp \in Seq(tk)
    BY DEF Grouping, GroupsOf
  <1>2. s.reftk \in tk /\ s.hyptk \in tk /\ r \in Seq(tk) /\ h \in Seq(tk)
    <2>1. s.reftk \in tk /\ s.hyptk \in tk
      BY DEF Tokens
    <2> HIDE DEF tk
    <2> QED
      BY <2>1
  <1>3. m \in Nat /\ Len(tt) = m + 1 /\ tt # <<>> /\ tt[m + 1] = s
    OBVIOUS
  <1>4. Errors(ws) \in Seq(elems)
    BY ErrorsGrow
  <1>5. RefSide(Errors(ws)) \in Seq(tk) /\ HypSide(Errors(ws)) \in Seq(tk)
    BY <1>4, TokensOf
  <1> DEFINE re == Without(RefSide(Errors(ws)), InsLabel)
             he == Without(HypSide(Errors(ws)), DelLabel)
  <1>6. re \in Seq(tk) /\ he \in Seq(tk)
    BY <1>2, <1>5, WithoutGrows
  <1>7. /\ Starts(tt) = IF Wrong(s) /\ g.line = 0 THEN Append(Starts(ws), m + 1) ELSE Starts(ws)
    BY StartsGrow DEF Covers
  <1>8. Starts(ws) \in Seq(Nat)
    <2>1. [k \in DOMAIN ws |-> k] \in Seq(Nat)
      BY <1>3
    <2> QED
      BY <2>1, ThoseFacts DEF Starts
  <1>9. /\ ~Wrong(s) => Errors(tt) = Errors(ws)
        /\ Wrong(s) => /\ Without(RefSide(Errors(tt)), InsLabel) = re \o r
                       /\ Without(HypSide(Errors(tt)), DelLabel) = he \o h
    <2>1. CASE ~Wrong(s)
      BY <2>1, ErrorsGrow
    <2>2. CASE Wrong(s)
      <3>1. Errors(tt) = Append(Errors(ws), s)
        BY <2>2, ErrorsGrow
      <3>2. /\ RefSide(Errors(tt)) = Append(RefSide(Errors(ws)), s.reftk)
            /\ HypSide(Errors(tt)) = Append(HypSide(Errors(ws)), s.hyptk)
        BY <1>4, <3>1, TokensGrow
      <3> DEFINE er == RefSide(Errors(ws))
                 eh == HypSide(Errors(ws))
      <3> HIDE DEF er, eh
      <3>3. er \in Seq(tk) /\ eh \in Seq(tk)
        BY <1>5 DEF er, eh
      <3> HIDE DEF tk
      <3>4. /\ Without(Append(er, s.reftk), InsLabel) = Without(er, InsLabel) \o r
            /\ Without(Append(eh, s.hyptk), DelLabel) = Without(eh, DelLabel) \o h
        BY <1>2, <3>3, WithoutGrows
      <3> QED
        BY <2>2, <3>2, <3>4 DEF er, eh
    <2> QED
      BY <2>1, <2>2
  <1>10. /\ g.line = 0 => Close(f).groups = f.groups /\ g.ref = <<>> /\ g.hyp = <<>>
         /\ g.line # 0 => Close(f).groups = Append(f.groups, g)
         /\ Close(f).group.line = 0 /\ Close(f).group = Z!NoGroup /\ Close(f).offset = f.offset
    <2>1. CASE g.line = 0
      <3>1. g = Z!NoGroup
        BY <2>1 DEF Covers
      <3> QED
        BY <2>1, <3>1 DEF Close, Z!NoGroup
    <2>2. CASE g.line # 0
      <3> DEFINE more == Append(f.groups, g)
      <3>1. Close(f) = [f EXCEPT !.groups = more, !.group = Z!NoGroup]
        BY <2>2 DEF Close
      <3> HIDE DEF more
      <3>2. /\ Close(f).groups = more /\ Close(f).group = Z!NoGroup /\ Close(f).offset = f.offset
        BY <3>1 DEF Grouping
      <3> QED
        BY <2>2, <3>2 DEF more, Z!NoGroup
    <2> QED
      BY <2>1, <2>2
  <1>11. /\ RefsOf(f.groups) \o g.ref = re /\ HypsOf(f.groups) \o g.hyp = he
         /\ g.line # 0 => Append(LinesOf(f.groups), g.line) = OneOn(Starts(ws))
         /\ g.line = 0 => LinesOf(f.groups) = OneOn(Starts(ws))
         /\ RefsOf(f.groups) \in Seq(tk) /\ HypsOf(f.groups) \in Seq(tk)
    <2> HIDE DEF tk, g
    <2>1. /\ LinesOf(Append(f.groups, g)) = Append(LinesOf(f.groups), g.line)
          /\ RefsOf(Append(f.groups, g)) = RefsOf(f.groups) \o g.ref
          /\ HypsOf(Append(f.groups, g)) = HypsOf(f.groups) \o g.hyp
          /\ RefsOf(f.groups) \in Seq(tk) /\ HypsOf(f.groups) \in Seq(tk)
      BY <1>1, GroupsGrow
    <2>2. RefsOf(f.groups) \o <<>> = RefsOf(f.groups) /\ HypsOf(f.groups) \o <<>> = HypsOf(f.groups)
      BY <2>1
    <2>3. /\ LinesOf(Close(f).groups) = OneOn(Starts(ws))
          /\ RefsOf(Close(f).groups) = re /\ HypsOf(Close(f).groups) = he
      BY DEF Covers
    <2> HIDE DEF re, he
    <2> QED
      BY <1>10, <2>1, <2>2, <2>3
  <1> HIDE DEF re, he, tk
  <1>12. CASE ~Wrong(s)
    <2> DEFINE c == Close(f)
    <2>1. after = [c EXCEPT !.offset = c.offset + 1]
      BY <1>12 DEF Group, Wrong
    <2>2. c \in Grouping(tk)
      BY GroupType DEF tk
    <2> HIDE DEF c, after
    <2>3. after.groups = c.groups /\ after.group = c.group /\ after.offset = c.offset + 1
      BY <2>1, <2>2 DEF Grouping
    <2>4. Close(after).groups = c.groups
      BY <1>10, <2>3 DEF Close, c
    <2>5. after.offset = 2 + Len(tt)
      BY <1>1, <1>3, <1>10, <2>3 DEF Covers, c
    <2>6. after.group.line = 0 /\ after.group = Z!NoGroup
      BY <1>10, <2>3 DEF c
    <2>7. /\ LinesOf(c.groups) = OneOn(Starts(ws))
          /\ RefsOf(c.groups) = Without(RefSide(Errors(ws)), InsLabel)
          /\ HypsOf(c.groups) = Without(HypSide(Errors(ws)), DelLabel)
      BY DEF Covers, c
    <2> HIDE DEF tt
    <2>8. ~(tt # <<>> /\ Wrong(tt[Len(tt)]))
      BY <1>3, <1>12
    <2> QED
      BY <1>7, <1>9, <1>12, <2>4, <2>5, <2>6, <2>7, <2>8 DEF Covers, tt, after
  <1>13. CASE Wrong(s)
    <2>1. after = [[f EXCEPT !.group = new] EXCEPT !.offset = f.offset + 1]
      <3> DEFINE v == WithError(f, s)
      <3>1. v = [f EXCEPT !.group = new]
        BY DEF WithError
      <3>2. after = [v EXCEPT !.offset = v.offset + 1]
        BY <1>13 DEF Group, Wrong
      <3> HIDE DEF v, new, after
      <3>3. v.offset = f.offset
        BY <3>1 DEF Grouping
      <3> QED
        BY <3>1, <3>2, <3>3
    <2>2. new \in GroupsOf(tk) /\ new.line # 0 /\ new.ref = g.ref \o r /\ new.hyp = g.hyp \o h
      <3>1. f.offset = 2 + m
        BY DEF Covers
      <3>2. (IF g.line = 0 THEN f.offset ELSE g.line) \in Nat
        BY <1>1
      <3>3. (IF g.line = 0 THEN f.offset ELSE g.line) # 0
        BY <1>3, <3>1
      <3>4. g.ref \o r \in Seq(tk) /\ g.hyp \o h \in Seq(tk)
        BY <1>1, <1>2
      <3> QED
        BY <3>2, <3>3, <3>4 DEF GroupsOf
    <2>3. new.line = IF g.line = 0 THEN m + 2 ELSE g.line
      <3>1. f.offset = 2 + m
        BY DEF Covers
      <3> QED
        BY <1>3, <3>1
    <2> HIDE DEF new, after, r, h
    <2>4. after.groups = f.groups /\ after.group = new /\ after.offset = f.offset + 1
      BY <2>1 DEF Grouping
    <2>5. Close(after).groups = Append(f.groups, new)
      <3> DEFINE more == Append(f.groups, new)
      <3>1. Close(after) = [after EXCEPT !.groups = more, !.group = Z!NoGroup]
        BY <2>2, <2>4 DEF Close
      <3>2. "groups" \in DOMAIN after
        BY <2>1 DEF Grouping
      <3> HIDE DEF more
      <3> QED
        BY <3>1, <3>2 DEF more
    <2>6. /\ LinesOf(Append(f.groups, new)) = Append(LinesOf(f.groups), new.line)
          /\ RefsOf(Append(f.groups, new)) = RefsOf(f.groups) \o new.ref
          /\ HypsOf(Append(f.groups, new)) = HypsOf(f.groups) \o new.hyp
          /\ LinesOf(f.groups) \in Seq(Nat)
      BY <1>1, <2>2, GroupsGrow
    <2>7. RefsOf(f.groups) \o new.ref = re \o r /\ HypsOf(f.groups) \o new.hyp = he \o h
      <3> DEFINE u == RefsOf(f.groups)
                 v == HypsOf(f.groups)
      <3>1. /\ u \in Seq(tk) /\ v \in Seq(tk) /\ g.ref \in Seq(tk) /\ g.hyp \in Seq(tk)
            /\ r \in Seq(tk) /\ h \in Seq(tk)
        BY <1>1, <1>2, <1>11
      <3>2. u \o g.ref = re /\ v \o g.hyp = he
        BY <1>11
      <3> HIDE DEF u, v, g
      <3>3. Associates(u, g.ref, r)
        BY <3>1, ConcatAssociates
      <3>4. Associates(v, g.hyp, h)
        BY <3>1, ConcatAssociates
      <3> QED
        BY <2>2, <3>2, <3>3, <3>4 DEF u, v, Associates
    <2>8. Append(LinesOf(f.groups), new.line) = OneOn(Starts(tt))
      <3>1. CASE g.line # 0
        BY <1>7, <1>11, <2>3, <3>1
      <3>2. CASE g.line = 0
        <4>1. Starts(tt) = Append(Starts(ws), m + 1) /\ LinesOf(f.groups) = OneOn(Starts(ws))
          BY <1>7, <1>11, <1>13, <3>2
        <4> DEFINE st == Starts(ws)
                   x == m + 1
        <4> HIDE DEF st
        <4>2. OneOn(Append(st, x)) = Append(OneOn(st), x + 1)
          <5>1. st \in Seq(Nat) /\ x \in Nat
            BY <1>3, <1>8 DEF st
          <5> HIDE DEF x
          <5> QED
            BY <5>1 DEF OneOn
        <4>3. x + 1 = m + 2
          BY <1>3
        <4> HIDE DEF x
        <4> QED
          BY <2>3, <3>2, <4>1, <4>2, <4>3 DEF st, x
      <3> QED
        BY <3>1, <3>2
    <2>9. after.offset = 2 + Len(tt)
      BY <1>1, <1>3, <2>4 DEF Covers
    <2> HIDE DEF tt
    <2>10. tt # <<>> /\ Wrong(tt[Len(tt)])
      BY <1>3, <1>13
    <2> QED
      BY <1>9, <1>13, <2>2, <2>4, <2>5, <2>6, <2>7, <2>8, <2>9, <2>10 DEF Covers, tt, after
  <1> QED
    BY <1>12, <1>13

LEMMA CoversStart == Covers(Ungrouped, <<>>)
  <1>1. <<>> \in Seq({}) /\ DOMAIN <<>> = {} /\ Len(<<>>) = 0
    OBVIOUS
  <1>2. [k \in {} |-> k] = <<>> /\ \A keep : Those(<<>>, keep) = <<>>
    <2>1. ASSUME NEW keep PROVE Those(<<>>, keep) = <<>>
      <3>1. PICK p : IsPick(p, <<>>, keep, {}) /\ Those(<<>>, keep) = p[Len(<<>>)]
        BY <1>1, ThoseRun
      <3> QED
        BY <1>1, <3>1 DEF IsPick
    <2> QED
      BY <2>1
  <1>3. Starts(<<>>) = <<>> /\ Errors(<<>>) = <<>>
    <2>1. Starts(<<>>) = Those([k \in DOMAIN <<>> |-> k], {k \in DOMAIN <<>> : Wrong(<<>>[k]) /\ (k = 1 \/ ~Wrong(<<>>[k - 1]))})
      BY DEF Starts
    <2>2. [k \in DOMAIN <<>> |-> k] = <<>>
      OBVIOUS
    <2> QED
      BY <1>2, <2>1, <2>2 DEF Errors
  <1>4. RefSide(<<>>) = <<>> /\ HypSide(<<>>) = <<>> /\ OneOn(<<>>) = <<>> /\ LinesOf(<<>>) = <<>>
    BY DEF RefSide, HypSide, OneOn, LinesOf
  <1>5. Without(<<>>, InsLabel) = <<>> /\ Without(<<>>, DelLabel) = <<>>
    BY <1>2 DEF Without
  <1>6. RefsOf(<<>>) = <<>> /\ HypsOf(<<>>) = <<>>
    <2>1. FlattenSeq(<<>>) = <<>>
      <3>1. <<>> \in Seq(Seq({})) /\ Len(<<>>) = 0
        OBVIOUS
      <3>2. PICK f : IsConcat(f, <<>>, {}) /\ FlattenSeq(<<>>) = f[Len(<<>>)]
        BY <3>1, FlattenRun
      <3> QED
        BY <3>1, <3>2 DEF IsConcat
    <2> QED
      BY <2>1 DEF RefsOf, HypsOf
  <1>7. Ungrouped.offset = 2 /\ Ungrouped.group = Z!NoGroup /\ Ungrouped.group.line = 0
        /\ Close(Ungrouped).groups = <<>>
    BY DEF Ungrouped, Z!NoGroup, Close
  <1> QED
    BY <1>1, <1>3, <1>4, <1>5, <1>6, <1>7 DEF Covers

LEMMA GroupsCover ==
    ASSUME NEW elems, NEW seq \in Seq(elems),
           NEW ws, ws = Those(seq, {k \in DOMAIN seq : ~IsNoop(seq[k])})
    PROVE  /\ LinesOf(Z!ErrorGroups(seq)) = OneOn(Starts(ws))
           /\ RefsOf(Z!ErrorGroups(seq)) = Without(RefSide(Errors(ws)), InsLabel)
           /\ HypsOf(Z!ErrorGroups(seq)) = Without(HypSide(Errors(ws)), DelLabel)
  <1> DEFINE m == Len(seq)
             keep == {k \in DOMAIN seq : ~IsNoop(seq[k])}
  <1>1. m \in Nat /\ DOMAIN seq = 1..m /\ \A i \in 1..m : seq[i] \in elems
    OBVIOUS
  <1>2. PICK f : /\ IsGrouping(f, seq, Tokens(elems))
                 /\ Z!ErrorGroups(seq) = Close(f[m]).groups
    BY GroupRun
  <1> HIDE DEF keep
  <1>3. PICK p : IsPick(p, seq, keep, elems) /\ Those(seq, keep) = p[m]
    BY ThoseRun
  <1>4. \A i \in 1..m : i \in keep <=> seq[i].reftk # Z!NOOP
    BY <1>1 DEF keep, IsNoop, S!NOOP, Z!NOOP
  <1> HIDE DEF m
  <1> DEFINE K == {i \in 0..m : Covers(f[i], p[i])}
  <1>5. 0 \in K
    BY <1>1, <1>2, <1>3, CoversStart DEF IsGrouping, IsPick
  <1>6. ASSUME NEW i \in Nat, i < m, i \in K PROVE i + 1 \in K
    <2>1. i + 1 \in 1..m /\ i + 1 \in 0..m /\ i \in 0..m /\ (i + 1) - 1 = i
      BY <1>1, <1>6
    <2>2. f[i + 1] = Group(f[i], seq[i + 1]) /\ f[i] \in Grouping(Tokens(elems))
      BY <1>2, <2>1 DEF IsGrouping, m
    <2>3. p[i + 1] = (IF i + 1 \in keep THEN Append(p[i], seq[i + 1]) ELSE p[i]) /\ p[i] \in Seq(elems)
      BY <1>3, <2>1 DEF IsPick, m
    <2>4. Covers(f[i], p[i]) /\ seq[i + 1] \in elems
      BY <1>1, <1>6, <2>1
    <2>5. CASE i + 1 \in keep
      <3>1. Covers(Group(f[i], seq[i + 1]), Append(p[i], seq[i + 1]))
        BY <1>4, <2>1, <2>2, <2>3, <2>4, <2>5, GroupCovers
      <3> QED
        BY <2>1, <2>2, <2>3, <2>5, <3>1
    <2>6. CASE i + 1 \notin keep
      <3>1. Group(f[i], seq[i + 1]) = f[i]
        BY <1>4, <2>1, <2>6 DEF Group
      <3> QED
        BY <2>1, <2>2, <2>3, <2>4, <2>6, <3>1
    <2> QED
      BY <2>5, <2>6
  <1> HIDE DEF K
  <1>7. \A i \in 0..m : i \in K
    BY <1>1, <1>5, <1>6, Climb
  <1>8. Covers(f[m], p[m])
    BY <1>1, <1>7 DEF K
  <1> QED
    BY <1>2, <1>3, <1>8 DEF Covers, m, keep

\* The groups of the side-by-side file are the longest runs of errors, with the line
\* of their first one, and together they hold the words of all errors (WriteSbs).
THEOREM GroupsHoldErrors == Spec => []ErrorGroupsCover
  <1>1. AreStitched => ErrorGroupsCover
    <2> SUFFICES ASSUME AreStitched PROVE ErrorGroupsCover
      OBVIOUS
    <2>1. PICK elems : stitches \in Seq(elems)
      BY DEF AreStitched
    <2> DEFINE ws == WordStitches
    <2>2. ws = Those(stitches, {k \in DOMAIN stitches : ~IsNoop(stitches[k])})
      BY DEF WordStitches
    <2> HIDE DEF ws
    <2>3. /\ LinesOf(Groups) = OneOn(Starts(ws))
          /\ RefsOf(Groups) = Without(RefSide(Errors(ws)), InsLabel)
          /\ HypsOf(Groups) = Without(HypSide(Errors(ws)), DelLabel)
      BY <2>1, <2>2, GroupsCover DEF Groups
    <2> QED
      BY <2>3 DEF ErrorGroupsCover, LinesOf, RefsOf, HypsOf, OneOn, Starts, Errors, Without,
           RefSide, HypSide, Wrong, ws
  <1> QED
    BY <1>1, StitchesAreSequence, PTL

-----------------------------------------------------------------------------
\* The traceback

\* The pairs of tokens that words become, of which one may be a marker.
Spoken == {x \in (Word \cup {InsLabel}) \X (Word \cup {DelLabel}) : x # <<InsLabel, DelLabel>>}

\* The arcs of chains: a label has the output of labels, and others have a word or
\* nothing on either side.
Passed == {a \in Arc : IF IsLabel(a.ilabel) THEN a.olabel = DelLabel
                       ELSE a.olabel \in Word \cup {0}}

LEMMA ChainPassed ==
    ASSUME NEW m, NEW lay, NEW tokens \in Seq(Word \cup {0}), NEW p, NEW q, NEW arcs,
           Follows(m, lay, tokens, p, q, arcs)
    PROVE  arcs \in Seq(Passed)
  <1>1. arcs \in Seq(Arc) /\ \A i \in 1..Len(arcs) : arcs[i] \in Arc /\ i - 1 \in 0..Len(arcs)
    BY DEF Follows
  <1>2. ASSUME NEW i \in 1..Len(arcs) PROVE arcs[i] \in Passed
    <2> DEFINE a == arcs[i]
               b == q[i - 1]
    <2>1. OnHypothesis(tokens, b, a, q[i]) /\ a \in Arc /\ b \in 0..Len(tokens)
      BY <1>1 DEF Follows
    <2> HIDE DEF a, b
    <2>2. b < Len(tokens) => tokens[b + 1] \in Word \cup {0}
      BY <2>1
    <2>3. a \in Passed
      BY <2>1, <2>2 DEF OnHypothesis, Passed
    <2> QED
      BY <2>3 DEF a
  <1> QED
    BY <1>1, <1>2

LEMMA TokenFacts ==
    ASSUME NEW a \in Passed
    PROVE  /\ IsLabel(a.ilabel) <=> a.ilabel \in AnyLabel
           /\ IsLabel(a.ilabel) => a.olabel = DelLabel
           /\ ~IsLabel(a.ilabel) =>
                /\ a.ilabel \in Word \cup {0} /\ a.olabel \in Word \cup {0}
                /\ a.ilabel \in Nat /\ a.olabel \in Nat
                /\ ~IsWordArc(a) => a.ilabel = 0 /\ a.olabel = 0
           /\ IsWordArc(a) =>
                /\ ~IsLabel(a.ilabel) /\ (a.ilabel # 0 \/ a.olabel # 0)
                /\ T!Token(a.ilabel, a.olabel) \in Spoken
                /\ T!Token(a.ilabel, a.olabel)
                     = <<IF a.ilabel = 0 THEN InsLabel ELSE a.ilabel,
                         IF a.olabel = 0 THEN DelLabel ELSE a.olabel>>
  <1>1. a.ilabel \in Symbol /\ (IsLabel(a.ilabel) => a.olabel = DelLabel)
    BY DEF Passed, Arc
  <1>2. ASSUME ~IsLabel(a.ilabel)
        PROVE  /\ a.ilabel \in Word \cup {0} /\ a.olabel \in Word \cup {0}
               /\ a.ilabel \in Nat /\ a.olabel \in Nat
    BY <1>1, <1>2, Symbols DEF Passed, Symbol
  <1> DEFINE i == a.ilabel
             o == a.olabel
  <1>3. ASSUME IsWordArc(a)
        PROVE  /\ ~IsLabel(i) /\ (i # 0 \/ o # 0)
               /\ T!Token(i, o) = <<IF i = 0 THEN InsLabel ELSE i, IF o = 0 THEN DelLabel ELSE o>>
    BY <1>3 DEF IsWordArc, T!Token, T!Eps, G!Eps
  <1>4. ASSUME IsWordArc(a)
        PROVE  T!Token(i, o) \in Spoken
    <2>1. i \in Word \cup {0} /\ o \in Word \cup {0}
      BY <1>2, <1>3, <1>4
    <2> HIDE DEF i, o
    <2>2. InsLabel \notin Word /\ DelLabel \notin Word
      BY DEF Word
    <2> QED
      BY <1>3, <1>4, <2>1, <2>2 DEF Spoken
  <1>5. ~IsLabel(i) /\ ~IsWordArc(a) => i = 0 /\ o = 0
    BY DEF IsWordArc, G!Eps
  <1> QED
    BY <1>1, <1>2, <1>3, <1>4, <1>5, Symbols
Counts(tk) ==
    [classLabel : Nat, insertions : Nat, deletions : Nat, substitutions : Nat,
     numWordsInReference : Nat, numWordsInHypothesis : Nat, del_words : Seq(Word),
     ins_words : Seq(Word), sub_words : Seq(Word \X Word), tokens : Seq(tk)]

Labelling == AnyLabel \X {DelLabel}
Trace == {t \in [al : Counts(Spoken \cup Labelling), classes : Seq(Counts(Spoken)),
                 inClass : BOOLEAN] : t.inClass => t.classes # <<>>}

IsSub(a) == a.ilabel # 0 /\ a.olabel # 0 /\ a.ilabel # a.olabel

\* What a word adds to the counts of an alignment.
Adds(al1, al2, a) ==
    /\ al2.classLabel = al1.classLabel
    /\ al2.insertions = al1.insertions + Z!One(a.ilabel = 0)
    /\ al2.deletions = al1.deletions + Z!One(a.olabel = 0)
    /\ al2.substitutions = al1.substitutions + Z!One(IsSub(a))
    /\ al2.numWordsInReference = al1.numWordsInReference + Z!One(a.ilabel # 0)
    /\ al2.del_words = IF a.olabel = 0 THEN Append(al1.del_words, a.ilabel)
                       ELSE al1.del_words
    /\ al2.ins_words = IF a.ilabel = 0 THEN Append(al1.ins_words, a.olabel)
                       ELSE al1.ins_words
    /\ al2.sub_words = IF IsSub(a) THEN Append(al1.sub_words, <<a.ilabel, a.olabel>>)
                       ELSE al1.sub_words

LEMMA CountedFacts ==
    ASSUME NEW tk, NEW al1 \in Counts(tk), NEW a \in Passed, IsWordArc(a)
    PROVE  LET al2 == T!Counted(al1, a.ilabel, a.olabel)
           IN  al2 \in Counts(tk) /\ Adds(al1, al2, a) /\ al2.tokens = al1.tokens
  <1> DEFINE i == a.ilabel
             o == a.olabel
             al2 == T!Counted(al1, i, o)
  <1>1. /\ i \in Word \cup {0} /\ o \in Word \cup {0} /\ i \in Nat /\ o \in Nat
        /\ i # 0 \/ o # 0
    BY TokenFacts
  <1>6. /\ al1.insertions \in Nat /\ al1.deletions \in Nat /\ al1.substitutions \in Nat
        /\ al1.numWordsInReference \in Nat /\ al1.numWordsInHypothesis \in Nat
    BY DEF Counts
  <1> SUFFICES al2 \in Counts(tk) /\ Adds(al1, al2, a) /\ al2.tokens = al1.tokens
    OBVIOUS
  <1>2. CASE i = o
    <2> DEFINE x == al1.numWordsInReference + 1
               y == al1.numWordsInHypothesis + 1
    <2>1. al2 = [al1 EXCEPT !.numWordsInReference = x,
                            !.numWordsInHypothesis = y]
      BY <1>2 DEF T!Counted
    <2>2. x \in Nat /\ y \in Nat
      BY <1>6
    <2>4. i # 0 /\ o # 0 /\ ~IsSub(a)
      BY <1>1, <1>2 DEF IsSub
    <2> HIDE DEF al2, x, y
    <2>5. /\ al2 \in Counts(tk)
          /\ al2.tokens = al1.tokens
          /\ al2.classLabel = al1.classLabel
          /\ al2.insertions = al1.insertions
          /\ al2.deletions = al1.deletions
          /\ al2.substitutions = al1.substitutions
          /\ al2.numWordsInReference = x
          /\ al2.del_words = al1.del_words
          /\ al2.ins_words = al1.ins_words
          /\ al2.sub_words = al1.sub_words
      BY <2>1, <2>2 DEF Counts
    <2> QED
      BY <1>2, <2>4, <2>5, <1>6 DEF Adds, Z!One, x, y
  <1>3. CASE i # o /\ i = 0
    <2> DEFINE x == al1.insertions + 1
               y == al1.numWordsInHypothesis + 1
               w == Append(al1.ins_words, o)
    <2>1. al2 = [al1 EXCEPT !.insertions = x,
                            !.numWordsInHypothesis = y,
                            !.ins_words = w]
      BY <1>3 DEF T!Counted, T!Eps
    <2>2. x \in Nat /\ y \in Nat
      BY <1>6
    <2>3. w \in Seq(Word)
      BY <1>1, <1>3 DEF Counts
    <2>4. o # 0 /\ ~IsSub(a)
      BY <1>1, <1>3 DEF IsSub
    <2> HIDE DEF al2, x, y, w
    <2>5. /\ al2 \in Counts(tk)
          /\ al2.tokens = al1.tokens
          /\ al2.classLabel = al1.classLabel
          /\ al2.insertions = x
          /\ al2.deletions = al1.deletions
          /\ al2.substitutions = al1.substitutions
          /\ al2.numWordsInReference = al1.numWordsInReference
          /\ al2.del_words = al1.del_words
          /\ al2.ins_words = w
          /\ al2.sub_words = al1.sub_words
      BY <2>1, <2>2, <2>3 DEF Counts
    <2> QED
      BY <1>3, <2>4, <2>5, <1>6 DEF Adds, Z!One, x, y, w
  <1>4. CASE i # o /\ i # 0 /\ o = 0
    <2> DEFINE x == al1.deletions + 1
               y == al1.numWordsInReference + 1
               w == Append(al1.del_words, i)
    <2>1. al2 = [al1 EXCEPT !.deletions = x,
                            !.numWordsInReference = y,
                            !.del_words = w]
      BY <1>4 DEF T!Counted, T!Eps
    <2>2. x \in Nat /\ y \in Nat
      BY <1>6
    <2>3. w \in Seq(Word)
      BY <1>1, <1>4 DEF Counts
    <2>4. ~IsSub(a)
      BY <1>1, <1>4 DEF IsSub
    <2> HIDE DEF al2, x, y, w
    <2>5. /\ al2 \in Counts(tk)
          /\ al2.tokens = al1.tokens
          /\ al2.classLabel = al1.classLabel
          /\ al2.insertions = al1.insertions
          /\ al2.deletions = x
          /\ al2.substitutions = al1.substitutions
          /\ al2.numWordsInReference = y
          /\ al2.del_words = w
          /\ al2.ins_words = al1.ins_words
          /\ al2.sub_words = al1.sub_words
      BY <2>1, <2>2, <2>3 DEF Counts
    <2> QED
      BY <1>4, <2>4, <2>5, <1>6 DEF Adds, Z!One, x, y, w
  <1>5. CASE i # o /\ i # 0 /\ o # 0
    <2> DEFINE x == al1.substitutions + 1
               y == al1.numWordsInReference + 1
               z == al1.numWordsInHypothesis + 1
               w == Append(al1.sub_words, <<i, o>>)
    <2>1. al2 = [al1 EXCEPT !.substitutions = x,
                            !.numWordsInReference = y,
                            !.numWordsInHypothesis = z,
                            !.sub_words = w]
      BY <1>5 DEF T!Counted, T!Eps
    <2>2. x \in Nat /\ y \in Nat /\ z \in Nat
      BY <1>6
    <2>3. w \in Seq(Word \X Word)
      <3> DEFINE v == <<i, o>>
      <3>1. v \in Word \X Word
        BY <1>1, <1>5
      <3> HIDE DEF v
      <3>2. Append(al1.sub_words, v) \in Seq(Word \X Word)
        BY <3>1 DEF Counts
      <3> QED
        BY <3>2 DEF v
    <2>4. IsSub(a)
      BY <1>1, <1>5 DEF IsSub
    <2> HIDE DEF al2, x, y, z, w
    <2>5. /\ al2 \in Counts(tk)
          /\ al2.tokens = al1.tokens
          /\ al2.classLabel = al1.classLabel
          /\ al2.insertions = al1.insertions
          /\ al2.deletions = al1.deletions
          /\ al2.substitutions = x
          /\ al2.numWordsInReference = y
          /\ al2.del_words = al1.del_words
          /\ al2.ins_words = al1.ins_words
          /\ al2.sub_words = w
      BY <2>1, <2>2, <2>3 DEF Counts
    <2> QED
      BY <1>5, <2>4, <2>5, <1>6 DEF Adds, Z!One, x, y, z, w
  <1> QED
    BY <1>2, <1>3, <1>4, <1>5

\* The alignment with the word and its pair of tokens.
Gains(al1, al2, a) ==
    Adds(al1, al2, a) /\ al2.tokens = Append(al1.tokens, T!Token(a.ilabel, a.olabel))

LEMMA WithTokenFacts ==
    ASSUME NEW tk, NEW al1 \in Counts(tk), NEW a \in Passed, IsWordArc(a), Spoken \subseteq tk
    PROVE  LET al2 == T!WithToken(T!Counted(al1, a.ilabel, a.olabel), T!Token(a.ilabel, a.olabel))
           IN  al2 \in Counts(tk) /\ Gains(al1, al2, a)
  <1> DEFINE al3 == T!Counted(al1, a.ilabel, a.olabel)
             token == T!Token(a.ilabel, a.olabel)
             al2 == T!WithToken(al3, token)
  <1>1. al3 \in Counts(tk) /\ Adds(al1, al3, a) /\ al3.tokens = al1.tokens
    BY CountedFacts
  <1>2. token \in tk
    BY TokenFacts
  <1> HIDE DEF al3, token
  <1>3. al2 = [al3 EXCEPT !.tokens = Append(@, token)]
    BY DEF T!WithToken
  <1>4. Append(al3.tokens, token) \in Seq(tk)
    BY <1>1, <1>2 DEF Counts
  <1>5. /\ al2 \in Counts(tk) /\ al2.tokens = Append(al1.tokens, token)
        /\ al2.classLabel = al3.classLabel /\ al2.insertions = al3.insertions
        /\ al2.deletions = al3.deletions /\ al2.substitutions = al3.substitutions
        /\ al2.numWordsInReference = al3.numWordsInReference
        /\ al2.del_words = al3.del_words /\ al2.ins_words = al3.ins_words
        /\ al2.sub_words = al3.sub_words
    BY <1>1, <1>3, <1>4 DEF Counts
  <1>6. Adds(al1, al2, a)
    BY <1>1, <1>5 DEF Adds
  <1> QED
    BY <1>5, <1>6 DEF Gains, al3, token
\* What one arc does to what is collected: a word counts for the whole alignment and
\* for the class that is open, a label opens or closes a class.
Alike(al1, al2) ==
    /\ al2.classLabel = al1.classLabel /\ al2.insertions = al1.insertions
    /\ al2.deletions = al1.deletions /\ al2.substitutions = al1.substitutions
    /\ al2.numWordsInReference = al1.numWordsInReference
    /\ al2.del_words = al1.del_words /\ al2.ins_words = al1.ins_words
    /\ al2.sub_words = al1.sub_words

Reads(t, t2, a) ==
    /\ t2.inClass = t.inClass
    /\ ~t.inClass => Gains(t.al, t2.al, a) /\ t2.classes = t.classes
    /\ t.inClass =>
         LET len == Len(t.classes)
         IN  /\ Adds(t.al, t2.al, a) /\ t2.al.tokens = t.al.tokens
             /\ len > 0 /\ Len(t2.classes) = len
             /\ \A k \in 1..(len - 1) : t2.classes[k] = t.classes[k]
             /\ Gains(t.classes[len], t2.classes[len], a)

Opened(t, t2, a) ==
    /\ ~t.inClass /\ t2.inClass
    /\ Alike(t.al, t2.al) /\ t2.al.tokens = Append(t.al.tokens, <<a.ilabel, DelLabel>>)
    /\ t2.classes = Append(t.classes, T!Empty(a.ilabel))

Met(t, t2, a) ==
    /\ t.inClass /\ t2.al = t.al /\ t2.classes = t.classes /\ Len(t.classes) > 0
    /\ t2.inClass = (a.ilabel # t.classes[Len(t.classes)].classLabel)

After(t, t2, a) ==
    /\ t2 \in Trace
    /\ IsWordArc(a) => Reads(t, t2, a)
    /\ IsLabel(a.ilabel) => Opened(t, t2, a) \/ Met(t, t2, a)
    /\ ~IsWordArc(a) /\ ~IsLabel(a.ilabel) => t2 = t

LEMMA TraceOps ==
    /\ \A s : T!Last(s) = s[Len(s)]
    /\ \A s : T!Front(s) = SubSeq(s, 1, Len(s) - 1)
    /\ \A s : T!Reverse(s) = Reverse(s)
    /\ \A s : T!Max(s) = Max(s)
  BY DEF T!Last, T!Front, T!Reverse, Reverse, T!Max, Max

LEMMA FrontFacts ==
    ASSUME NEW elems, NEW s \in Seq(elems), Len(s) > 0
    PROVE  LET front == SubSeq(s, 1, Len(s) - 1)
           IN  /\ front \in Seq(elems) /\ Len(front) = Len(s) - 1
               /\ \A k \in 1..(Len(s) - 1) : front[k] = s[k]
  <1> DEFINE k == Len(s) - 1
             front == [i \in 1..k |-> s[i]]
  <1>1. k \in Nat /\ Len(s) = k + 1 /\ \A i \in 1..k : s[i] \in elems
    OBVIOUS
  <1>2. SubSeq(s, 1, k) = front
    BY <1>1
  <1> HIDE DEF k
  <1>3. front \in Seq(elems) /\ Len(front) = k /\ \A i \in 1..k : front[i] = s[i]
    BY <1>1
  <1> QED
    BY <1>2, <1>3 DEF k

LEMMA EmptyFacts ==
    ASSUME NEW l \in Nat, NEW tk
    PROVE  /\ T!Empty(l) \in Counts(tk)
           /\ T!Empty(l).tokens = <<>> /\ T!Empty(l).classLabel = l
  <1>1. <<>> \in Seq(Word) /\ <<>> \in Seq(Word \X Word) /\ <<>> \in Seq(tk)
    OBVIOUS
  <1> QED
    BY <1>1 DEF T!Empty, Counts

LEMMA ReadWord ==
    ASSUME NEW t \in Trace, NEW a \in Passed, IsWordArc(a)
    PROVE  T!ReadArc(t, a) \in Trace /\ Reads(t, T!ReadArc(t, a), a)
  <1> DEFINE tk == Spoken \cup Labelling
             cs == Counts(Spoken)
             i == a.ilabel
             o == a.olabel
             t2 == T!ReadArc(t, a)
             len == Len(t.classes)
             al1 == T!Counted(t.al, i, o)
             al2 == T!WithToken(al1, T!Token(i, o))
             last == t.classes[len]
             c2 == T!WithToken(T!Counted(last, i, o), T!Token(i, o))
             front == SubSeq(t.classes, 1, len - 1)
  <1>1. ~IsLabel(i) /\ (i # 0 \/ o # 0)
    BY TokenFacts
  <1>2. i = o => i \notin T!Special
    BY <1>1, TokenFacts DEF T!Special, T!Eps, Word
  <1>3. t2 = T!Worded(t, i, o)
    BY <1>1, <1>2 DEF T!ReadArc, IsLabel
  <1>4. /\ t.al \in Counts(tk) /\ t.classes \in Seq(cs) /\ t.inClass \in BOOLEAN
        /\ len \in Nat /\ t = [al |-> t.al, classes |-> t.classes, inClass |-> t.inClass]
        /\ t.inClass => t.classes # <<>>
    BY DEF Trace
  <1>5. CASE ~t.inClass
    <2>1. al2 \in Counts(tk) /\ Gains(t.al, al2, a)
      BY <1>4, WithTokenFacts
    <2> HIDE DEF al1
    <2>2. t2 = [t EXCEPT !.al = al2]
      BY <1>3, <1>5 DEF T!Worded, al1
    <2> HIDE DEF al2, t2
    <2>3. t2 = [al |-> al2, classes |-> t.classes, inClass |-> t.inClass]
      BY <1>4, <2>2
    <2>4. t2 \in Trace
      BY <1>4, <1>5, <2>1, <2>3 DEF Trace
    <2> QED
      BY <1>5, <2>1, <2>3, <2>4 DEF Reads, t2
  <1>6. CASE t.inClass
    <2>1. len > 0 /\ last \in cs
      BY <1>4, <1>6
    <2>2. al1 \in Counts(tk) /\ Adds(t.al, al1, a) /\ al1.tokens = t.al.tokens
      BY <1>4, CountedFacts
    <2>3. c2 \in cs /\ Gains(last, c2, a)
      BY <2>1, WithTokenFacts
    <2> DEFINE all == Append(front, c2)
    <2>4. /\ front \in Seq(cs) /\ Len(front) = len - 1
          /\ \A k \in 1..(len - 1) : front[k] = t.classes[k]
      BY <1>4, <2>1, FrontFacts
    <2> HIDE DEF c2, front, cs
    <2>5. /\ all \in Seq(cs) /\ Len(all) = len /\ all[len] = c2
          /\ \A k \in 1..(len - 1) : all[k] = t.classes[k]
      BY <1>4, <2>1, <2>3, <2>4
    <2> HIDE DEF al1
    <2>6. t2 = [t EXCEPT !.al = al1, !.classes = all]
      BY <1>3, <1>6, TraceOps DEF T!Worded, al1, c2, front
    <2> HIDE DEF all, t2
    <2>7. t2 = [al |-> al1, classes |-> all, inClass |-> t.inClass]
      BY <1>4, <2>6
    <2>8. t2 \in Trace
      <3>1. all # <<>>
        BY <1>4, <2>1, <2>5
      <3> QED
        BY <1>4, <1>6, <2>2, <2>5, <2>7, <3>1 DEF Trace, cs
    <2> QED
      BY <1>6, <2>1, <2>2, <2>3, <2>5, <2>7, <2>8 DEF Reads, t2
  <1> QED
    BY <1>4, <1>5, <1>6

LEMMA ReadLabel ==
    ASSUME NEW t \in Trace, NEW a \in Passed, IsLabel(a.ilabel)
    PROVE  LET t2 == T!ReadArc(t, a)
           IN  t2 \in Trace /\ (Opened(t, t2, a) \/ Met(t, t2, a))
  <1> DEFINE tk == Spoken \cup Labelling
             cs == Counts(Spoken)
             i == a.ilabel
             t2 == T!ReadArc(t, a)
             len == Len(t.classes)
             x == <<i, DelLabel>>
             al2 == T!WithToken(t.al, x)
             empty == T!Empty(i)
  <1> SUFFICES t2 \in Trace /\ (Opened(t, t2, a) \/ Met(t, t2, a))
    OBVIOUS
  <1>1. t2 = T!Labelled(t, i, DelLabel) /\ i \in AnyLabel /\ i \in Nat /\ x \in tk
    BY TokenFacts, Symbols DEF T!ReadArc, IsLabel, Labelling
  <1>2. /\ t.al \in Counts(tk) /\ t.classes \in Seq(cs) /\ t.inClass \in BOOLEAN
        /\ len \in Nat /\ t = [al |-> t.al, classes |-> t.classes, inClass |-> t.inClass]
        /\ t.inClass => t.classes # <<>>
    BY DEF Trace
  <1>3. CASE ~t.inClass
    <2>1. t2 = [al |-> al2, classes |-> Append(t.classes, empty), inClass |-> TRUE]
      BY <1>1, <1>3 DEF T!Labelled
    <2>2. empty \in cs
      BY <1>1, EmptyFacts
    <2> DEFINE all == Append(t.classes, empty)
    <2> HIDE DEF x, empty, tk
    <2>3. Append(t.al.tokens, x) \in Seq(tk)
      BY <1>1, <1>2 DEF Counts
    <2> DEFINE tokens == Append(t.al.tokens, x)
    <2>4. al2 = [t.al EXCEPT !.tokens = tokens]
      BY DEF T!WithToken
    <2> HIDE DEF tokens, al2
    <2>5. al2 \in Counts(tk) /\ al2.tokens = tokens /\ Alike(t.al, al2)
      BY <1>2, <2>3, <2>4 DEF Counts, Alike, tokens
    <2>6. all \in Seq(cs) /\ all # <<>>
      BY <1>2, <2>2
    <2> HIDE DEF all, t2
    <2>7. t2 = [al |-> al2, classes |-> all, inClass |-> TRUE]
      BY <2>1 DEF all
    <2>8. t2 \in Trace
      BY <2>5, <2>6, <2>7 DEF Trace, tk
    <2> QED
      BY <1>3, <2>5, <2>7, <2>8 DEF Opened, tokens, x, empty, all, t2
  <1>4. CASE t.inClass
    <2> DEFINE b == i # t.classes[len].classLabel
    <2>1. t2 = [t EXCEPT !.inClass = b]
      BY <1>1, <1>4, TraceOps DEF T!Labelled
    <2>2. len > 0 /\ b \in BOOLEAN
      BY <1>2, <1>4
    <2> HIDE DEF b, t2
    <2>3. t2 = [al |-> t.al, classes |-> t.classes, inClass |-> b]
      BY <1>2, <2>1
    <2>4. t2 \in Trace
      BY <1>2, <1>4, <2>2, <2>3 DEF Trace
    <2> QED
      BY <1>4, <2>2, <2>3, <2>4 DEF Met, b, t2
  <1> QED
    BY <1>2, <1>3, <1>4

LEMMA ReadArcFacts ==
    ASSUME NEW t \in Trace, NEW a \in Passed
    PROVE  After(t, T!ReadArc(t, a), a)
  <1>1. CASE IsWordArc(a)
    <2>1. ~IsLabel(a.ilabel)
      BY <1>1, TokenFacts
    <2> QED
      BY <1>1, <2>1, ReadWord DEF After
  <1>2. CASE IsLabel(a.ilabel)
    <2>1. ~IsWordArc(a)
      BY <1>2, TokenFacts
    <2> QED
      BY <1>2, <2>1, ReadLabel DEF After
  <1>3. CASE ~IsWordArc(a) /\ ~IsLabel(a.ilabel)
    <2>1. a.ilabel = 0 /\ a.olabel = 0
      BY <1>3, TokenFacts
    <2>2. T!ReadArc(t, a) = t
      BY <1>3, <2>1 DEF T!ReadArc, T!Special, T!Eps, IsLabel
    <2> QED
      BY <1>3, <2>2 DEF After
  <1> QED
    BY <1>1, <1>2, <1>3

\* What is collected in front of each arc, when the arcs are read from the last one on.
Traces(u, arcs) ==
    /\ u \in [0..Len(arcs) -> Trace] /\ u[Len(arcs)] = T!Unread
    /\ \A i \in 1..Len(arcs) : After(u[i], u[i - 1], arcs[i])

Details(t) ==
    [alignment |-> T!Reversed(t.al),
     label_alignments |-> [k \in DOMAIN t.classes |-> T!Reversed(t.classes[k])]]

LEMMA TraceRun ==
    ASSUME NEW arcs \in Seq(Passed)
    PROVE  \E u : Traces(u, arcs) /\ T!GetDetails(arcs) = Details(u[0])
  <1> DEFINE back == T!Reverse(arcs)
             n == Len(arcs)
  <1>b. n \in Nat /\ back \in Seq(Passed) /\ Len(back) = n /\ \A i \in 1..n : back[i] = arcs[n - i + 1] /\ arcs[i] \in Passed
    <2>1. n \in Nat /\ \A i \in 1..n : /\ n - i + 1 \in 1..n /\ arcs[n - i + 1] \in Passed
                                       /\ arcs[i] \in Passed
      OBVIOUS
    <2>2. back = [i \in 1..n |-> arcs[(n - i) + 1]]
      BY DEF T!Reverse
    <2> HIDE DEF back, n
    <2> QED
      BY <2>1, <2>2
  <1> HIDE DEF n
  <1> DEFINE k == Len(back)
             V == Trace
             states == T!Unread
             On(h, e) == CHOOSE y \in {T!ReadArc(v, e) : v \in {h}} : TRUE
             step == [i \in 1..k |-> [v \in V |-> On(v, back[i])]]
             Eq(h) == h = [s \in SUBSET (DOMAIN back) |->
                             IF s = {} THEN states
                             ELSE On(h[s \ {T!Max(s)}], back[T!Max(s)])]
             it == CHOOSE h : Eq(h)
  <1>0. k \in Nat /\ DOMAIN back = 1..k /\ (\A s : T!Max(s) = Max(s))
        /\ \A i \in 1..k : back[i] \in Passed
    BY <1>b, TraceOps
  <1>1. \A v \in V, e \in Passed : On(v, e) \in V
    <2> SUFFICES ASSUME NEW v \in V, NEW e \in Passed PROVE On(v, e) \in V
      OBVIOUS
    <2>1. On(v, e) = T!ReadArc(v, e)
      OBVIOUS
    <2> QED
      BY <2>1, ReadArcFacts DEF After
  <1>a. states \in V
    <2>1. T!Empty(0) \in Counts(Spoken \cup Labelling) /\ <<>> \in Seq(Counts(Spoken))
      BY EmptyFacts
    <2> QED
      BY <2>1 DEF T!Unread, T!Global, Trace
  <1> HIDE DEF On
  <1>2. AreSteps(step, k, V) /\ states \in V
    <2> HIDE DEF k, V
    <2> QED
      BY <1>0, <1>1, <1>a DEF AreSteps
  <1>3. \E h : Eq(h)
    <2>1. PICK h \in [SUBSET (1..k) -> V] : IsFold(h, step, k, states)
      <3> HIDE DEF step, k, V
      <3> QED
        BY <1>0, <1>2, FoldExists
    <2>2. \A s \in SUBSET (1..k) : s # {} =>
             step[Max(s)][h[s \ {Max(s)}]] = On(h[s \ {Max(s)}], back[Max(s)])
      <3> SUFFICES ASSUME NEW s \in SUBSET (1..k), s # {}
                   PROVE  step[Max(s)][h[s \ {Max(s)}]] = On(h[s \ {Max(s)}], back[Max(s)])
        OBVIOUS
      <3> HIDE DEF k, V
      <3>1. Max(s) \in 1..k
        BY <1>0, LastPosition
      <3>2. h[s \ {Max(s)}] \in V
        BY <2>1
      <3> QED
        BY <3>1, <3>2
    <2>3. Eq(h)
      <3> HIDE DEF step, k, V
      <3> QED
        BY <1>0, <2>1, <2>2 DEF IsFold
    <2> HIDE DEF Eq
    <2> QED
      BY <2>3
  <1>4. Eq(it)
    <2> HIDE DEF Eq
    <2> QED
      BY <1>3
  <1>5. T!GetDetails(arcs) = Details(it[1..k])
    <2>1. T!GetDetails(arcs) = Details(it[DOMAIN back])
      BY DEF T!GetDetails, T!Strictly, Details, T!FoldLeft, T!MapThenFoldSet, On
    <2> HIDE DEF it, k
    <2> QED
      BY <1>0, <2>1
  <1> HIDE DEF it
  <1>6. it[{}] = states
    <2> HIDE DEF k, states
    <2> QED
      BY <1>0, <1>4
  <1>7. \A i \in 1..k : it[1..(i - 1)] \in V => it[1..i] = step[i][it[1..(i - 1)]]
    <2> SUFFICES ASSUME NEW i \in 1..k, it[1..(i - 1)] \in V
                 PROVE  it[1..i] = step[i][it[1..(i - 1)]]
      OBVIOUS
    <2>1. Max(1..i) = i /\ (1..i) \ {i} = 1..(i - 1)
      <3>1. i \in Nat \ {0}
        OBVIOUS
      <3> QED
        BY <3>1, MaxOfPrefix
    <2>2. (1..i) \in SUBSET (1..k) /\ 1..i # {}
      <3>1. i \in 1..i /\ \A y \in 1..i : y \in 1..k
        BY <1>0
      <3> QED
        BY <3>1
    <2> DEFINE s == 1..i
    <2>3. it[s] = On(it[s \ {Max(s)}], back[Max(s)])
      <3> HIDE DEF s, k
      <3> QED
        BY <1>0, <1>4, <2>2 DEF s
    <2>4. step[i][it[1..(i - 1)]] = On(it[1..(i - 1)], back[i])
      <3> HIDE DEF k, V
      <3> QED
        OBVIOUS
    <2> HIDE DEF step, k, V
    <2> QED
      BY <2>1, <2>3, <2>4
  <1> HIDE DEF k, V, Eq, states
  <1>8. PICK f : IsRun(f, step, k, V, states) /\ it[1..k] = f[k]
    <2> HIDE DEF step
    <2> QED
      BY <1>0, <1>2, <1>6, <1>7, FoldRuns
  <1>9. \A i \in 1..k : f[i] = On(f[i - 1], back[i])
    <2> SUFFICES ASSUME NEW i \in 1..k PROVE f[i] = On(f[i - 1], back[i])
      OBVIOUS
    <2>1. i - 1 \in 0..k
      BY <1>0
    <2> QED
      BY <1>8, <2>1 DEF IsRun
  <1>10. \A i \in 1..k : f[i] = T!ReadArc(f[i - 1], back[i])
    BY <1>9 DEF On
  <1> DEFINE u == [j \in 0..n |-> f[n - j]]
  <1>11. k = n
    BY <1>b DEF k
  <1>12. Traces(u, arcs)
    <2>1. f \in [0..n -> Trace] /\ f[0] = T!Unread
      BY <1>8, <1>11 DEF IsRun, V, states
    <2>2. u \in [0..n -> Trace] /\ u[n] = T!Unread
      BY <1>b, <2>1
    <2>3. ASSUME NEW i \in 1..n PROVE After(u[i], u[i - 1], arcs[i])
      <3> DEFINE j == n - i + 1
      <3>1. j \in 1..n /\ n - i = j - 1 /\ n - (i - 1) = j /\ i \in 0..n /\ i - 1 \in 0..n
            /\ n - j + 1 = i
        BY <1>b
      <3>2. back[j] = arcs[i]
        BY <1>b, <3>1
      <3>3. u[i] = f[j - 1] /\ u[i - 1] = f[j] /\ f[j] = T!ReadArc(f[j - 1], arcs[i])
        BY <1>10, <1>11, <3>1, <3>2
      <3>4. f[j - 1] \in Trace /\ arcs[i] \in Passed
        BY <1>b, <2>1, <3>1
      <3> QED
        BY <3>3, <3>4, ReadArcFacts
    <2> QED
      BY <2>2, <2>3 DEF Traces, n
  <1>13. u[0] = it[1..k]
    BY <1>b, <1>8, <1>11
  <1> QED
    BY <1>5, <1>12, <1>13

\* One step of the path of the reference: words stay where they are, inside of a
\* class or outside, labels lead in, out or over it.
Moves(lay, s, a, r) ==
    /\ lay.pos[s] <= lay.pos[r]
    /\ ~IsLabel(a.ilabel) => lay.open[r] = lay.open[s]
    /\ ~IsLabel(a.ilabel) /\ ~IsWordArc(a) => (s \in lay.idle => r \in lay.idle)
    /\ IsLabel(a.ilabel) => \/ GoesIn(lay, s, a.ilabel, r) \/ GoesOut(lay, s, a.ilabel, r)
                            \/ StaysInside(lay, s, a.ilabel, r)

LEMMA MovesFacts ==
    ASSUME NEW m \in Nat, NEW lay \in Layout(m), NEW s \in 0..(m - 1), NEW r \in 0..(m - 1),
           NEW a \in Passed, OnReference(lay, s, a, r)
    PROVE  Moves(lay, s, a, r)
  <1>1. lay.pos[s] \in Nat
    BY DEF Layout
  <1>2. CASE a.ilabel = 0 /\ r = s
    <2>1. ~IsLabel(a.ilabel)
      BY <1>2, Symbols
    <2> QED
      BY <1>1, <1>2, <2>1 DEF Moves
  <1>3. CASE Fits(lay, s, a.ilabel, r)
    <2>1. CASE IsLabel(a.ilabel)
      BY <1>3, <2>1 DEF Fits, PassesBy, Moves
    <2>2. CASE ~IsLabel(a.ilabel)
      <3>1. PassesBy(lay, s, a.ilabel, r) /\ lay.pos[s] <= lay.pos[r]
        BY <1>3, <2>2 DEF Fits, GoesIn, GoesOut, StaysInside
      <3>2. ~IsWordArc(a) => a.ilabel = 0
        BY <2>2, TokenFacts
      <3> QED
        BY <2>2, <3>1, <3>2 DEF PassesBy, Moves
    <2> QED
      BY <2>1, <2>2
  <1> QED
    BY <1>2, <1>3 DEF OnReference

\* A class that has been read as a whole.
Shut(t, k) == k < Len(t.classes) \/ ~t.inClass

\* What has been collected when state s of the reference is reached from the end:
\* the class that is open is the one that s is in, and those behind s have been read
\* as a whole.  No label comes twice.
Behind(lay, s, t) ==
    /\ t.inClass <=> lay.open[s] # 0
    /\ t.inClass =>
         LET c == t.classes[Len(t.classes)]
         IN  /\ c.classLabel = lay.open[s]
             /\ s \in lay.idle /\ c.tokens = <<>> => c.classLabel \in FallbackLabel
             /\ Len(t.al.tokens) > 0
             /\ t.al.tokens[Len(t.al.tokens)] = <<c.classLabel, DelLabel>>
    /\ \A k \in 1..Len(t.classes) :
         /\ t.classes[k].classLabel \in AnyLabel
         /\ Shut(t, k) => /\ lay.pos[s] <= lay.since[t.classes[k].classLabel]
                          /\ t.classes[k].tokens = <<>> => t.classes[k].classLabel \in FallbackLabel
         /\ \A j \in 1..(k - 1) : t.classes[j].classLabel # t.classes[k].classLabel

LEMMA TraceFacts ==
    ASSUME NEW t \in Trace
    PROVE  /\ t.classes \in Seq(Counts(Spoken)) /\ Len(t.classes) \in Nat
           /\ t.al \in Counts(Spoken \cup Labelling) /\ t.al.tokens \in Seq(Spoken \cup Labelling)
           /\ Len(t.al.tokens) \in Nat
           /\ t.inClass \in BOOLEAN /\ (t.inClass => Len(t.classes) > 0)
           /\ t = [al |-> t.al, classes |-> t.classes, inClass |-> t.inClass]
           /\ \A k \in 1..Len(t.classes) : /\ t.classes[k] \in Counts(Spoken)
                                          /\ t.classes[k].tokens \in Seq(Spoken)
                                          /\ Len(t.classes[k].tokens) \in Nat
  <1>1. /\ t.classes \in Seq(Counts(Spoken)) /\ t.al \in Counts(Spoken \cup Labelling)
        /\ t.inClass \in BOOLEAN /\ (t.inClass => t.classes # <<>>)
        /\ t = [al |-> t.al, classes |-> t.classes, inClass |-> t.inClass]
    BY DEF Trace
  <1>2. \A tk, c : c \in Counts(tk) => c.tokens \in Seq(tk)
    BY DEF Counts
  <1>3. \A k \in 1..Len(t.classes) : t.classes[k] \in Counts(Spoken)
    BY <1>1
  <1>4. \A elems, seq : seq \in Seq(elems) => Len(seq) \in Nat
    OBVIOUS
  <1>5. \A elems, seq : seq \in Seq(elems) /\ seq # <<>> => Len(seq) > 0
    OBVIOUS
  <1>6. t.al.tokens \in Seq(Spoken \cup Labelling)
    BY <1>1, <1>2
  <1>7. \A k \in 1..Len(t.classes) : t.classes[k].tokens \in Seq(Spoken)
    BY <1>2, <1>3
  <1>8. t.inClass => Len(t.classes) > 0
    BY <1>1, <1>5
  <1>9. Len(t.classes) \in Nat
    BY <1>1, <1>4
  <1>10. Len(t.al.tokens) \in Nat
    BY <1>4, <1>6
  <1>11. \A k \in 1..Len(t.classes) : Len(t.classes[k].tokens) \in Nat
    BY <1>4, <1>7
  <1> QED
    BY <1>1, <1>3, <1>6, <1>7, <1>8, <1>9, <1>10, <1>11

LEMMA BehindEnd ==
    ASSUME NEW lay, NEW s, lay.open[s] = 0
    PROVE  Behind(lay, s, T!Unread)
  <1>1. Len(<<>>) = 0 /\ 1..0 = {}
    OBVIOUS
  <1>2. T!Unread.inClass = FALSE /\ T!Unread.classes = <<>>
    BY DEF T!Unread
  <1> QED
    BY <1>1, <1>2 DEF Behind

LEMMA Earlier ==
    ASSUME NEW m \in Nat, NEW lay \in Layout(m), NEW s \in 0..(m - 1), NEW r \in 0..(m - 1),
           NEW l \in AnyLabel, lay.pos[s] <= lay.pos[r], lay.pos[r] <= lay.since[l]
    PROVE  lay.pos[s] <= lay.since[l]
  <1> DEFINE i == lay.pos[s]
             j == lay.pos[r]
             k == lay.since[l]
  <1>1. i \in Nat /\ j \in Nat /\ k \in Nat /\ i <= j /\ j <= k
    BY DEF Layout
  <1> HIDE DEF i, j, k
  <1>2. i <= k
    BY <1>1
  <1> QED
    BY <1>2 DEF i, k

LEMMA BehindWord ==
    ASSUME NEW m \in Nat, NEW lay \in Layout(m), NEW s \in 0..(m - 1), NEW r \in 0..(m - 1),
           NEW a \in Passed, IsWordArc(a), Moves(lay, s, a, r),
           NEW t \in Trace, NEW t2 \in Trace, Reads(t, t2, a), Behind(lay, r, t)
    PROVE  Behind(lay, s, t2)
  <1>1. lay.pos[s] \in Nat /\ lay.pos[r] \in Nat /\ lay.pos[s] <= lay.pos[r]
        /\ \A l \in AnyLabel : lay.since[l] \in Nat
    BY DEF Layout, Moves
  <1>2. lay.open[r] = lay.open[s]
    BY TokenFacts DEF Moves
  <1> DEFINE len == Len(t.classes)
  <1>3. len \in Nat /\ t.inClass \in BOOLEAN
        /\ \A k \in 1..len : t.classes[k].tokens \in Seq(Spoken)
    BY TraceFacts
  <1>4. CASE ~t.inClass
    <2>1. ~t2.inClass /\ t2.classes = t.classes
      BY <1>4 DEF Reads
    <2>2. \A k \in 1..len : Shut(t, k) /\ Shut(t2, k)
      BY <1>4, <2>1 DEF Shut
    <2>3. ASSUME NEW k \in 1..len
          PROVE  /\ t.classes[k].classLabel \in AnyLabel
                 /\ lay.pos[s] <= lay.since[t.classes[k].classLabel]
                 /\ t.classes[k].tokens = <<>> => t.classes[k].classLabel \in FallbackLabel
                 /\ \A j \in 1..(k - 1) : t.classes[j].classLabel # t.classes[k].classLabel
      <3>1. /\ t.classes[k].classLabel \in AnyLabel
            /\ lay.pos[r] <= lay.since[t.classes[k].classLabel]
            /\ t.classes[k].tokens = <<>> => t.classes[k].classLabel \in FallbackLabel
            /\ \A j \in 1..(k - 1) : t.classes[j].classLabel # t.classes[k].classLabel
        BY <2>2 DEF Behind
      <3>2. lay.pos[s] <= lay.since[t.classes[k].classLabel]
        BY <1>1, <3>1, Earlier
      <3> QED
        BY <3>1, <3>2
    <2> QED
      BY <1>2, <1>4, <2>1, <2>3 DEF Behind
  <1>5. CASE t.inClass
    <2>1. /\ t2.inClass /\ len > 0 /\ Len(t2.classes) = len
          /\ \A k \in 1..(len - 1) : t2.classes[k] = t.classes[k]
          /\ Gains(t.classes[len], t2.classes[len], a) /\ t2.al.tokens = t.al.tokens
      BY <1>5 DEF Reads
    <2>2. t2.classes[len].classLabel = t.classes[len].classLabel
      BY <2>1 DEF Gains, Adds
    <2>3. t2.classes[len].tokens # <<>>
      <3>1. t.classes[len].tokens \in Seq(Spoken)
        BY <1>3, <2>1
      <3> QED
        BY <2>1, <3>1 DEF Gains
    <2>4. \A k \in 1..len : t2.classes[k].classLabel = t.classes[k].classLabel
      BY <1>3, <2>1, <2>2
    <2>5. ASSUME NEW k \in 1..len
          PROVE  /\ t2.classes[k].classLabel \in AnyLabel
                 /\ Shut(t2, k) => /\ lay.pos[s] <= lay.since[t2.classes[k].classLabel]
                                   /\ t2.classes[k].tokens = <<>>
                                        => t2.classes[k].classLabel \in FallbackLabel
                 /\ \A j \in 1..(k - 1) : t2.classes[j].classLabel # t2.classes[k].classLabel
      <3>1. /\ t.classes[k].classLabel \in AnyLabel
            /\ Shut(t, k) => /\ lay.pos[r] <= lay.since[t.classes[k].classLabel]
                             /\ t.classes[k].tokens = <<>>
                                  => t.classes[k].classLabel \in FallbackLabel
            /\ \A j \in 1..(k - 1) : t.classes[j].classLabel # t.classes[k].classLabel
        BY DEF Behind
      <3>2. \A j \in 1..(k - 1) : j \in 1..len
        BY <1>3
      <3>3. Shut(t2, k) => Shut(t, k) /\ t2.classes[k] = t.classes[k]
        BY <1>3, <1>5, <2>1 DEF Shut
      <3>4. t2.classes[k].classLabel = t.classes[k].classLabel
        BY <2>4
      <3>5. ASSUME Shut(t2, k)
            PROVE  /\ lay.pos[s] <= lay.since[t2.classes[k].classLabel]
                   /\ t2.classes[k].tokens = <<>> => t2.classes[k].classLabel \in FallbackLabel
        <4>1. Shut(t, k) /\ t2.classes[k] = t.classes[k]
          BY <3>3, <3>5
        <4>2. lay.pos[s] <= lay.since[t.classes[k].classLabel]
          BY <1>1, <3>1, <4>1, Earlier
        <4> QED
          BY <3>1, <4>1, <4>2
      <3>6. \A j \in 1..(k - 1) : t2.classes[j].classLabel # t2.classes[k].classLabel
        BY <2>4, <3>1, <3>2, <3>4
      <3> QED
        BY <3>1, <3>4, <3>5, <3>6
    <2> QED
      BY <1>2, <1>5, <2>1, <2>2, <2>3, <2>5 DEF Behind
  <1> QED
    BY <1>3, <1>4, <1>5

LEMMA BehindNothing ==
    ASSUME NEW m \in Nat, NEW lay \in Layout(m), NEW s \in 0..(m - 1), NEW r \in 0..(m - 1),
           lay.pos[s] <= lay.pos[r], lay.open[r] = lay.open[s],
           s \in lay.idle => r \in lay.idle,
           NEW t \in Trace, Behind(lay, r, t)
    PROVE  Behind(lay, s, t)
  <1>1. ASSUME NEW k \in 1..Len(t.classes), Shut(t, k)
        PROVE  lay.pos[s] <= lay.since[t.classes[k].classLabel]
    <2>1. /\ t.classes[k].classLabel \in AnyLabel
          /\ lay.pos[r] <= lay.since[t.classes[k].classLabel]
      BY <1>1 DEF Behind
    <2> QED
      BY <2>1, Earlier
  <1> QED
    BY <1>1 DEF Behind

\* The end of a class is met: its label is none of those behind it.
LEMMA BehindOpen ==
    ASSUME NEW m \in Nat, NEW lay \in Layout(m), NEW s \in 0..(m - 1), NEW r \in 0..(m - 1),
           NEW a \in Passed, IsLabel(a.ilabel), GoesOut(lay, s, a.ilabel, r),
           lay.pos[s] <= lay.pos[r],
           NEW t \in Trace, NEW t2 \in Trace, Opened(t, t2, a), Behind(lay, r, t)
    PROVE  Behind(lay, s, t2)
  <1> DEFINE len == Len(t.classes)
             l == a.ilabel
             x == <<l, DelLabel>>
             empty == T!Empty(l)
  <1>1. lay.pos[s] \in Nat /\ lay.pos[r] \in Nat /\ \A d \in AnyLabel : lay.since[d] \in Nat
    BY DEF Layout
  <1>2. l \in AnyLabel /\ l # 0 /\ l \in Nat
    BY Symbols
  <1>3. /\ lay.open[s] = l /\ lay.since[l] < lay.pos[r]
        /\ s \in lay.idle => l \in FallbackLabel
    BY DEF GoesOut
  <1>4. t.classes \in Seq(Counts(Spoken)) /\ len \in Nat /\ t.al.tokens \in Seq(Spoken \cup Labelling)
    BY TraceFacts
  <1>5. /\ ~t.inClass /\ t2.inClass /\ t2.classes = Append(t.classes, empty)
        /\ t2.al.tokens = Append(t.al.tokens, x)
    BY DEF Opened
  <1> HIDE DEF x, empty
  <1>6. /\ Len(t2.classes) = len + 1 /\ t2.classes[len + 1].classLabel = l
        /\ \A k \in 1..len : t2.classes[k] = t.classes[k]
    <2>1. empty \in Counts(Spoken) /\ empty.classLabel = l
      BY <1>2, EmptyFacts DEF empty
    <2> QED
      BY <1>4, <1>5, <2>1
  <1>7. Len(t2.al.tokens) > 0 /\ t2.al.tokens[Len(t2.al.tokens)] = x
    BY <1>4, <1>5
  <1>8. \A k \in 1..len : /\ t.classes[k].classLabel \in AnyLabel
                          /\ lay.pos[r] <= lay.since[t.classes[k].classLabel]
                          /\ t.classes[k].tokens = <<>>
                               => t.classes[k].classLabel \in FallbackLabel
                          /\ \A j \in 1..(k - 1) : t.classes[j].classLabel # t.classes[k].classLabel
    BY <1>5 DEF Behind, Shut
  <1>9. \A k \in 1..len : t.classes[k].classLabel # l
    BY <1>1, <1>2, <1>3, <1>8
  <1>10. ASSUME NEW k \in 1..(len + 1)
         PROVE  /\ t2.classes[k].classLabel \in AnyLabel
                /\ Shut(t2, k) => /\ lay.pos[s] <= lay.since[t2.classes[k].classLabel]
                                  /\ t2.classes[k].tokens = <<>>
                                       => t2.classes[k].classLabel \in FallbackLabel
                /\ \A j \in 1..(k - 1) : t2.classes[j].classLabel # t2.classes[k].classLabel
    <2>1. CASE k = len + 1
      <3>1. ~Shut(t2, k)
        BY <1>4, <1>5, <1>6, <2>1 DEF Shut
      <3>2. \A j \in 1..(k - 1) : j \in 1..len
        BY <1>4, <2>1
      <3> QED
        BY <1>2, <1>6, <1>9, <2>1, <3>1, <3>2
    <2>2. CASE k # len + 1
      <3>1. k \in 1..len /\ \A j \in 1..(k - 1) : j \in 1..len
        <4>1. len \in Nat
          BY <1>4
        <4> HIDE DEF len
        <4> QED
          BY <2>2, <4>1
      <3>2. lay.pos[s] <= lay.since[t.classes[k].classLabel]
        BY <1>8, <3>1, Earlier
      <3> QED
        BY <1>6, <1>8, <3>1, <3>2
    <2> QED
      BY <2>1, <2>2
  <1> QED
    BY <1>2, <1>3, <1>5, <1>6, <1>7, <1>10 DEF Behind, x

\* The start of the class is met, or a label inside of it.
LEMMA BehindMet ==
    ASSUME NEW m \in Nat, NEW lay \in Layout(m), NEW s \in 0..(m - 1), NEW r \in 0..(m - 1),
           NEW a \in Passed, IsLabel(a.ilabel), GoesIn(lay, s, a.ilabel, r),
           lay.pos[s] <= lay.pos[r],
           NEW t \in Trace, NEW t2 \in Trace, Met(t, t2, a), Behind(lay, r, t)
    PROVE  Behind(lay, s, t2)
  <1> DEFINE len == Len(t.classes)
             l == a.ilabel
  <1>1. lay.pos[s] \in Nat /\ lay.pos[r] \in Nat /\ \A d \in AnyLabel : lay.since[d] \in Nat
    BY DEF Layout
  <1>2. lay.open[s] = 0 /\ lay.open[r] = l /\ lay.since[l] = lay.pos[s] /\ r \in lay.idle
    BY DEF GoesIn
  <1>3. t.inClass /\ len > 0 /\ len \in Nat /\ t2.classes = t.classes
        /\ t2.inClass = (l # t.classes[len].classLabel)
    BY TraceFacts DEF Met
  <1>4. t.classes[len].classLabel = l /\ (t.classes[len].tokens = <<>> => l \in FallbackLabel)
    BY <1>2, <1>3 DEF Behind
  <1>5. ~t2.inClass
    BY <1>3, <1>4
  <1>6. ASSUME NEW k \in 1..len
        PROVE  /\ t.classes[k].classLabel \in AnyLabel
               /\ lay.pos[s] <= lay.since[t.classes[k].classLabel]
               /\ t.classes[k].tokens = <<>> => t.classes[k].classLabel \in FallbackLabel
               /\ \A j \in 1..(k - 1) : t.classes[j].classLabel # t.classes[k].classLabel
    <2>1. CASE k = len
      BY <1>1, <1>2, <1>4, <2>1 DEF Behind
    <2>2. CASE k # len
      <3>1. Shut(t, k)
        BY <1>3, <2>2 DEF Shut
      <3>2. /\ t.classes[k].classLabel \in AnyLabel
            /\ lay.pos[r] <= lay.since[t.classes[k].classLabel]
            /\ t.classes[k].tokens = <<>> => t.classes[k].classLabel \in FallbackLabel
            /\ \A j \in 1..(k - 1) : t.classes[j].classLabel # t.classes[k].classLabel
        BY <3>1 DEF Behind
      <3>3. lay.pos[s] <= lay.since[t.classes[k].classLabel]
        BY <3>2, Earlier
      <3> QED
        BY <3>2, <3>3
    <2> QED
      BY <2>1, <2>2
  <1> QED
    BY <1>2, <1>3, <1>5, <1>6 DEF Behind

LEMMA BehindStep ==
    ASSUME NEW m \in Nat, NEW lay \in Layout(m), NEW s \in 0..(m - 1), NEW r \in 0..(m - 1),
           NEW a \in Passed, Moves(lay, s, a, r),
           NEW t \in Trace, NEW t2, After(t, t2, a), Behind(lay, r, t)
    PROVE  Behind(lay, s, t2)
  <1>1. t2 \in Trace /\ lay.pos[s] <= lay.pos[r]
    BY DEF After, Moves
  <1>2. CASE IsWordArc(a)
    BY <1>1, <1>2, BehindWord DEF After
  <1>3. CASE ~IsWordArc(a) /\ ~IsLabel(a.ilabel)
    <2>1. t2 = t
      BY <1>3 DEF After
    <2> QED
      BY <1>1, <1>3, <2>1, BehindNothing DEF Moves
  <1>4. CASE IsLabel(a.ilabel)
    <2>1. (t.inClass <=> lay.open[r] # 0) /\ a.ilabel # 0
      BY <1>4, Symbols DEF Behind
    <2>2. CASE GoesIn(lay, s, a.ilabel, r)
      <3>1. Met(t, t2, a)
        BY <1>4, <2>1, <2>2 DEF After, Opened, GoesIn
      <3> QED
        BY <1>1, <1>4, <2>2, <3>1, BehindMet
    <2>3. CASE GoesOut(lay, s, a.ilabel, r)
      <3>1. Opened(t, t2, a)
        BY <1>4, <2>1, <2>3 DEF After, Met, GoesOut
      <3> QED
        BY <1>1, <1>4, <2>3, <3>1, BehindOpen
    <2>4. CASE StaysInside(lay, s, a.ilabel, r)
      <3>1. /\ lay.open[s] \notin {0, a.ilabel} /\ lay.open[r] = lay.open[s]
            /\ s \in lay.idle => r \in lay.idle
        BY <2>4 DEF StaysInside
      <3>2. Met(t, t2, a)
        BY <1>4, <2>1, <3>1 DEF After, Opened
      <3>3. t2.inClass
        BY <3>1, <3>2 DEF Met, Behind
      <3>4. t2 = t
        <4>1. t2.al = t.al /\ t2.classes = t.classes /\ t2.inClass = t.inClass
          BY <3>2, <3>3, TraceFacts DEF Met
        <4> QED
          BY <1>1, <4>1, TraceFacts
      <3> QED
        BY <1>1, <3>1, <3>4, BehindNothing
    <2> QED
      BY <1>4, <2>2, <2>3, <2>4 DEF Moves
  <1> QED
    BY <1>2, <1>3, <1>4

-----------------------------------------------------------------------------
\* The words of the chain

Said == (AnyLabel \cup {0}) \X Spoken
Reader == [open : AnyLabel \cup {0}, words : Seq(Said)]
Silent == [open |-> 0, words |-> <<>>]

\* One more arc, read forwards.
ReadOn(f, a) ==
    IF IsLabel(a.ilabel)
    THEN [f EXCEPT !.open = IF @ = 0 THEN a.ilabel ELSE IF @ = a.ilabel THEN 0 ELSE @]
    ELSE IF ~IsWordArc(a) THEN f
    ELSE [f EXCEPT !.words = Append(@, <<f.open, T!Token(a.ilabel, a.olabel)>>)]

WordsRead(arcs) == FoldLeft(ReadOn, Silent, arcs).words

LEMMA ReadOnFacts ==
    ASSUME NEW f \in Reader, NEW a \in Passed
    PROVE  /\ ReadOn(f, a) \in Reader
           /\ IsLabel(a.ilabel) =>
                /\ ReadOn(f, a).words = f.words
                /\ ReadOn(f, a).open = IF f.open = 0 THEN a.ilabel
                                       ELSE IF f.open = a.ilabel THEN 0 ELSE f.open
           /\ IsWordArc(a) =>
                /\ ReadOn(f, a).open = f.open
                /\ ReadOn(f, a).words
                     = Append(f.words, <<f.open, T!Token(a.ilabel, a.olabel)>>)
           /\ ~IsLabel(a.ilabel) /\ ~IsWordArc(a) => ReadOn(f, a) = f
  <1>1. f.open \in AnyLabel \cup {0} /\ f.words \in Seq(Said)
    BY DEF Reader
  <1>2. CASE IsLabel(a.ilabel)
    <2> DEFINE v == IF f.open = 0 THEN a.ilabel ELSE IF f.open = a.ilabel THEN 0 ELSE f.open
    <2>1. v \in AnyLabel \cup {0}
      BY <1>1, <1>2, TokenFacts
    <2>2. ReadOn(f, a) = [f EXCEPT !.open = v] /\ ~IsWordArc(a)
      BY <1>2, TokenFacts DEF ReadOn
    <2> HIDE DEF v
    <2>3. [f EXCEPT !.open = v] \in Reader /\ [f EXCEPT !.open = v].words = f.words
          /\ [f EXCEPT !.open = v].open = v
      BY <2>1 DEF Reader
    <2> QED
      BY <1>2, <2>2, <2>3 DEF v
  <1>3. CASE IsWordArc(a)
    <2> DEFINE x == <<f.open, T!Token(a.ilabel, a.olabel)>>
               w == Append(f.words, x)
    <2>1. x \in Said
      BY <1>1, <1>3, TokenFacts DEF Said
    <2>2. ReadOn(f, a) = [f EXCEPT !.words = w] /\ ~IsLabel(a.ilabel)
      BY <1>3, TokenFacts DEF ReadOn
    <2> HIDE DEF x
    <2>3. w \in Seq(Said)
      BY <1>1, <2>1
    <2> HIDE DEF w
    <2>4. [f EXCEPT !.words = w] \in Reader /\ [f EXCEPT !.words = w].words = w
          /\ [f EXCEPT !.words = w].open = f.open
      BY <2>3 DEF Reader
    <2> QED
      BY <1>3, <2>2, <2>4 DEF w, x
  <1>4. CASE ~IsLabel(a.ilabel) /\ ~IsWordArc(a)
    BY <1>4 DEF ReadOn
  <1> QED
    BY <1>2, <1>3, <1>4

LEMMA ReadRun ==
    ASSUME NEW arcs \in Seq(Passed)
    PROVE  \E f : /\ f \in [0..Len(arcs) -> Reader] /\ f[0] = Silent
                  /\ \A i \in 1..Len(arcs) : f[i] = ReadOn(f[i - 1], arcs[i])
                  /\ WordsRead(arcs) = f[Len(arcs)].words
  <1> DEFINE k == Len(arcs)
             V == Reader
             states == Silent
             On(h, e) == ReadOn(h, e)
             step == [i \in 1..k |-> [v \in V |-> On(v, arcs[i])]]
             Eq(h) == h = [s \in SUBSET (DOMAIN arcs) |->
                             IF s = {} THEN states
                             ELSE On(h[s \ {Max(s)}], arcs[Max(s)])]
             it == CHOOSE h : Eq(h)
  <1>0. k \in Nat /\ DOMAIN arcs = 1..k /\ \A i \in 1..k : arcs[i] \in Passed
    OBVIOUS
  <1>1. \A v \in V, e \in Passed : On(v, e) \in V
    BY ReadOnFacts
  <1>a. states \in V
    <2>1. <<>> \in Seq(Said)
      OBVIOUS
    <2> QED
      BY <2>1 DEF Silent, Reader
  <1> HIDE DEF On
  <1>2. AreSteps(step, k, V) /\ states \in V
    <2> HIDE DEF k, V
    <2> QED
      BY <1>0, <1>1, <1>a DEF AreSteps
  <1>3. \E h : Eq(h)
    <2>1. PICK h \in [SUBSET (1..k) -> V] : IsFold(h, step, k, states)
      <3> HIDE DEF step, k, V
      <3> QED
        BY <1>0, <1>2, FoldExists
    <2>2. \A s \in SUBSET (1..k) : s # {} =>
             step[Max(s)][h[s \ {Max(s)}]] = On(h[s \ {Max(s)}], arcs[Max(s)])
      <3> SUFFICES ASSUME NEW s \in SUBSET (1..k), s # {}
                   PROVE  step[Max(s)][h[s \ {Max(s)}]] = On(h[s \ {Max(s)}], arcs[Max(s)])
        OBVIOUS
      <3> HIDE DEF k, V
      <3>1. Max(s) \in 1..k
        BY <1>0, LastPosition
      <3>2. h[s \ {Max(s)}] \in V
        BY <2>1
      <3> QED
        BY <3>1, <3>2
    <2>3. Eq(h)
      <3> HIDE DEF step, k, V
      <3> QED
        BY <1>0, <2>1, <2>2 DEF IsFold
    <2> HIDE DEF Eq
    <2> QED
      BY <2>3
  <1>4. Eq(it)
    <2> HIDE DEF Eq
    <2> QED
      BY <1>3
  <1>5. WordsRead(arcs) = it[1..k].words
    <2>1. WordsRead(arcs) = it[DOMAIN arcs].words
      BY DEF WordsRead, FoldLeft, MapThenFoldSet, On
    <2> HIDE DEF it, k
    <2> QED
      BY <1>0, <2>1
  <1> HIDE DEF it
  <1>6. it[{}] = states
    <2> HIDE DEF k, states
    <2> QED
      BY <1>0, <1>4
  <1>7. \A i \in 1..k : it[1..(i - 1)] \in V => it[1..i] = step[i][it[1..(i - 1)]]
    <2> SUFFICES ASSUME NEW i \in 1..k, it[1..(i - 1)] \in V
                 PROVE  it[1..i] = step[i][it[1..(i - 1)]]
      OBVIOUS
    <2>1. Max(1..i) = i /\ (1..i) \ {i} = 1..(i - 1)
      <3>1. i \in Nat \ {0}
        OBVIOUS
      <3> QED
        BY <3>1, MaxOfPrefix
    <2>2. (1..i) \in SUBSET (1..k) /\ 1..i # {}
      <3>1. i \in 1..i /\ \A y \in 1..i : y \in 1..k
        BY <1>0
      <3> QED
        BY <3>1
    <2> DEFINE s == 1..i
    <2>3. it[s] = On(it[s \ {Max(s)}], arcs[Max(s)])
      <3> HIDE DEF s, k
      <3> QED
        BY <1>0, <1>4, <2>2 DEF s
    <2>4. step[i][it[1..(i - 1)]] = On(it[1..(i - 1)], arcs[i])
      <3> HIDE DEF k, V
      <3> QED
        OBVIOUS
    <2> HIDE DEF step, k, V
    <2> QED
      BY <2>1, <2>3, <2>4
  <1> HIDE DEF k, V, Eq, states
  <1>8. PICK f : IsRun(f, step, k, V, states) /\ it[1..k] = f[k]
    <2> HIDE DEF step
    <2> QED
      BY <1>0, <1>2, <1>6, <1>7, FoldRuns
  <1>9. \A i \in 1..k : f[i] = On(f[i - 1], arcs[i])
    <2> SUFFICES ASSUME NEW i \in 1..k PROVE f[i] = On(f[i - 1], arcs[i])
      OBVIOUS
    <2>1. i - 1 \in 0..k
      BY <1>0
    <2> QED
      BY <1>8, <2>1 DEF IsRun
  <1> QED
    BY <1>5, <1>8, <1>9 DEF IsRun, V, k, states, On

\* The rows of the hypothesis among the first k tokens.
Taken(k) == IF k <= Len(input.hyp) THEN k ELSE Len(input.hyp)

OpenLabel(t) == IF t.inClass THEN t.classes[Len(t.classes)].classLabel ELSE 0

\* What one arc a does: t has been collected behind it and t2 in front of it, f has
\* been read in front of it and f2 behind it, x rows of the hypothesis have been taken
\* in front of it and x2 behind it.
Adding(t, t2, f, f2, x, x2, a) ==
    /\ IsWordArc(a) /\ Reads(t, t2, a)
    /\ f2 = Append(f, <<OpenLabel(t2), T!Token(a.ilabel, a.olabel)>>)
    /\ a.olabel = 0 => x2 = x
    /\ a.olabel # 0 => x < Len(input.hyp) /\ input.hyp[x + 1] = a.olabel /\ x2 = x + 1

EnteringClass(t, t2, f, f2, x, x2, a) ==
    IsLabel(a.ilabel) /\ Met(t, t2, a) /\ ~t2.inClass /\ f2 = f /\ x2 = x

LeavingClass(t, t2, f, f2, x, x2, a) ==
    IsLabel(a.ilabel) /\ Opened(t, t2, a) /\ f2 = f /\ x2 = x

Idling(t, t2, f, f2, x, x2, a) ==
    ~IsWordArc(a) /\ t2 = t /\ f2 = f /\ x2 = x

Tells(t, t2, f, f2, x, x2, a) ==
    \/ Adding(t, t2, f, f2, x, x2, a) \/ EnteringClass(t, t2, f, f2, x, x2, a)
    \/ LeavingClass(t, t2, f, f2, x, x2, a) \/ Idling(t, t2, f, f2, x, x2, a)

\* What is collected is in order: no label comes twice, only a class that stands for
\* nothing has no token, and the label of an open class comes last.
InOrder(t) ==
    /\ t.inClass =>
         /\ Len(t.al.tokens) > 0
         /\ t.al.tokens[Len(t.al.tokens)] = <<OpenLabel(t), DelLabel>>
    /\ \A k \in 1..Len(t.classes) :
         /\ t.classes[k].classLabel \in AnyLabel
         /\ Shut(t, k) /\ t.classes[k].tokens = <<>> => t.classes[k].classLabel \in FallbackLabel
         /\ \A j \in 1..(k - 1) : t.classes[j].classLabel # t.classes[k].classLabel

\* The history of a chain: u is collected, f read and x taken at each of its states.
Story(u, f, x) ==
    LET n == Len(chain)
    IN  /\ chain \in Seq(Passed) /\ input.hyp \in Seq(Word)
        /\ u \in [0..n -> Trace] /\ f \in [0..n -> Seq(Said)] /\ x \in [0..n -> 0..Len(input.hyp)]
        /\ u[n] = T!Unread /\ ~u[0].inClass
        /\ f[0] = <<>> /\ x[0] = 0 /\ x[n] = Len(input.hyp)
        /\ \A i \in 1..n : Tells(u[i], u[i - 1], f[i - 1], f[i], x[i - 1], x[i], chain[i])
        /\ \A i \in 0..n : InOrder(u[i])
        /\ alignment = Details(u[0]) /\ f[n] = WordsRead(chain)

LEMMA TakenFacts ==
    ASSUME input \in Inputs, NEW a \in Passed, NEW k \in 0..Len(HypTokens), NEW j \in 0..Len(HypTokens),
           OnHypothesis(HypTokens, k, a, j)
    PROVE  /\ Taken(k) \in 0..Len(input.hyp)
           /\ a.olabel \in Word =>
                /\ Taken(k) < Len(input.hyp) /\ input.hyp[Taken(k) + 1] = a.olabel
                /\ Taken(j) = Taken(k) + 1
           /\ a.olabel \notin Word => Taken(j) = Taken(k)
  <1> DEFINE h == input.hyp
             tokens == HypTokens
  <1>1. h \in Seq(Word) /\ tokens \in Seq(Word \cup {0}) /\ Len(h) \in Nat /\ Len(tokens) \in Nat
        /\ k \in Nat
    BY HypTyped
  <1>2. \A i \in 1..Len(tokens) : tokens[i] = IF i <= Len(h) THEN h[i] ELSE 0
    <2>1. CASE ~input.finalEps
      BY <1>1, <2>1 DEF HypTokens
    <2>2. CASE input.finalEps
      <3>1. tokens = Append(h, 0)
        BY <2>2 DEF HypTokens
      <3> HIDE DEF tokens, h
      <3> QED
        BY <1>1, <3>1
    <2> QED
      BY <2>1, <2>2
  <1>3. Len(tokens) \in {Len(h), Len(h) + 1}
    <2> HIDE DEF h
    <2>1. tokens \in {h, Append(h, 0)}
      BY DEF HypTokens, h, G!Eps
    <2> QED
      BY <1>1, <2>1
  <1>4. 0 \notin Word /\ DelLabel \notin Word
    BY DEF Word
  <1>5. Taken(k) \in 0..Len(h)
    BY <1>1 DEF Taken
  <1>6. CASE j = k /\ a.olabel = IF IsLabel(a.ilabel) THEN DelLabel ELSE 0
    BY <1>4, <1>5, <1>6
  <1>7. CASE k < Len(tokens) /\ j = k + 1 /\ a.olabel = tokens[k + 1]
    <2>1. k + 1 \in 1..Len(tokens)
      BY <1>1, <1>7
    <2>2. a.olabel = IF k + 1 <= Len(h) THEN h[k + 1] ELSE 0
      BY <1>2, <1>7, <2>1
    <2>3. CASE k + 1 <= Len(h)
      <3>1. Taken(k) = k /\ Taken(j) = k + 1 /\ k < Len(h)
        BY <1>1, <1>7, <2>3 DEF Taken
      <3>2. h[k + 1] \in Word
        BY <1>1, <2>3
      <3> QED
        BY <1>5, <2>2, <2>3, <3>1, <3>2
    <2>4. CASE ~(k + 1 <= Len(h))
      <3>1. Taken(k) = Len(h) /\ Taken(j) = Len(h)
        BY <1>1, <1>7, <2>4 DEF Taken
      <3> QED
        BY <1>4, <1>5, <2>2, <2>4, <3>1
    <2> QED
      BY <2>3, <2>4
  <1> QED
    BY <1>6, <1>7 DEF OnHypothesis

LEMMA InOrderBehind ==
    ASSUME NEW lay, NEW s, NEW t \in Trace, Behind(lay, s, t)
    PROVE  InOrder(t) /\ OpenLabel(t) = lay.open[s] /\ (t.inClass <=> lay.open[s] # 0)
  BY DEF Behind, InOrder, OpenLabel

\* One arc of the chain, seen from the reference, the hypothesis and the traceback.
LEMMA TellsArc ==
    ASSUME input \in Inputs,
           NEW m \in Nat, NEW lay \in Layout(m), NEW s \in 0..(m - 1), NEW r \in 0..(m - 1),
           NEW k \in 0..Len(HypTokens), NEW j \in 0..Len(HypTokens),
           NEW a \in Passed, Moves(lay, s, a, r), OnHypothesis(HypTokens, k, a, j),
           NEW t \in Trace, NEW t2 \in Trace, After(t, t2, a),
           Behind(lay, r, t), Behind(lay, s, t2),
           NEW f \in Reader, f.open = lay.open[s]
    PROVE  /\ ReadOn(f, a).open = lay.open[r]
           /\ Tells(t, t2, f.words, ReadOn(f, a).words, Taken(k), Taken(j), a)
  <1> DEFINE f2 == ReadOn(f, a)
             l == a.ilabel
  <1>1. /\ OpenLabel(t) = lay.open[r] /\ (t.inClass <=> lay.open[r] # 0)
        /\ OpenLabel(t2) = lay.open[s] /\ (t2.inClass <=> lay.open[s] # 0)
    BY InOrderBehind
  <1>2. /\ IsLabel(l) => /\ f2.words = f.words
                         /\ f2.open = IF f.open = 0 THEN l ELSE IF f.open = l THEN 0 ELSE f.open
        /\ IsWordArc(a) => /\ f2.open = f.open
                           /\ f2.words = Append(f.words, <<f.open, T!Token(l, a.olabel)>>)
        /\ ~IsLabel(l) /\ ~IsWordArc(a) => f2 = f
    BY ReadOnFacts
  <1> HIDE DEF f2
  <1>3. CASE IsWordArc(a)
    <2>1. ~IsLabel(l) /\ a.olabel \in Word \cup {0} /\ Reads(t, t2, a)
      BY <1>3, TokenFacts DEF After
    <2>2. a.olabel # 0 <=> a.olabel \in Word
      BY <2>1 DEF Word
    <2>3. lay.open[r] = lay.open[s]
      BY <2>1 DEF Moves
    <2>4. Adding(t, t2, f.words, f2.words, Taken(k), Taken(j), a)
      BY <1>1, <1>2, <1>3, <2>1, <2>2, TakenFacts DEF Adding
    <2> QED
      BY <1>2, <1>3, <2>3, <2>4 DEF Tells, f2
  <1>4. CASE ~IsLabel(l) /\ ~IsWordArc(a)
    <2>1. t2 = t /\ f2 = f /\ a.olabel \notin Word
      <3>1. a.olabel = 0
        BY <1>4, TokenFacts
      <3> QED
        BY <1>2, <1>4, <3>1 DEF After, Word
    <2>2. Taken(j) = Taken(k)
      BY <2>1, TakenFacts
    <2>3. lay.open[r] = lay.open[s]
      BY <1>4 DEF Moves
    <2> QED
      BY <1>4, <2>1, <2>2, <2>3 DEF Tells, Idling, f2
  <1>5. CASE IsLabel(l)
    <2>1. Taken(j) = Taken(k)
      <3>1. a.olabel = DelLabel /\ DelLabel \notin Word
        BY <1>5, TokenFacts DEF Word
      <3> QED
        BY <3>1, TakenFacts
    <2>2. l # 0 /\ ~IsWordArc(a) /\ f2.words = f.words
          /\ f2.open = IF f.open = 0 THEN l ELSE IF f.open = l THEN 0 ELSE f.open
      BY <1>2, <1>5, Symbols, TokenFacts
    <2>3. Opened(t, t2, a) \/ Met(t, t2, a)
      BY <1>5 DEF After
    <2>4. CASE GoesIn(lay, s, l, r)
      <3>1. lay.open[s] = 0 /\ lay.open[r] = l
        BY <2>4 DEF GoesIn
      <3>2. Met(t, t2, a) /\ ~t2.inClass
        BY <1>1, <2>2, <2>3, <3>1 DEF Opened
      <3>3. EnteringClass(t, t2, f.words, f2.words, Taken(k), Taken(j), a)
        BY <1>5, <2>1, <2>2, <3>2 DEF EnteringClass
      <3> QED
        BY <2>2, <3>1, <3>3 DEF Tells, f2
    <2>5. CASE GoesOut(lay, s, l, r)
      <3>1. lay.open[s] = l /\ lay.open[r] = 0
        BY <2>5 DEF GoesOut
      <3>2. Opened(t, t2, a)
        BY <1>1, <2>2, <2>3, <3>1 DEF Met
      <3>3. LeavingClass(t, t2, f.words, f2.words, Taken(k), Taken(j), a)
        BY <1>5, <2>1, <2>2, <3>2 DEF LeavingClass
      <3> QED
        BY <2>2, <3>1, <3>3 DEF Tells, f2
    <2>6. CASE StaysInside(lay, s, l, r)
      <3>1. lay.open[s] \notin {0, l} /\ lay.open[r] = lay.open[s]
        BY <2>6 DEF StaysInside
      <3>2. Met(t, t2, a) /\ t2.inClass /\ t.inClass
        BY <1>1, <2>2, <2>3, <3>1 DEF Opened
      <3>3. t2 = t
        BY <3>2, TraceFacts DEF Met
      <3>4. Idling(t, t2, f.words, f2.words, Taken(k), Taken(j), a)
        BY <2>1, <2>2, <3>3 DEF Idling
      <3> QED
        BY <2>2, <3>1, <3>4 DEF Tells, f2
    <2> QED
      BY <1>5, <2>4, <2>5, <2>6 DEF Moves
  <1> QED
    BY <1>3, <1>4, <1>5

LEMMA StoryOf ==
    ASSUME NEW m, NEW lay, NEW p, NEW q, Told(m, lay, p, q)
    PROVE  \E u, f, x : Story(u, f, x)
  <1> DEFINE n == Len(chain)
             tokens == HypTokens
  <1>1. /\ input \in Inputs /\ Follows(m, lay, tokens, p, q, chain)
        /\ lay.open[p[n]] = 0 /\ q[n] = Len(tokens) /\ alignment = T!GetDetails(chain)
        /\ m \in Nat \ {0} /\ lay \in Layout(m) /\ lay.open[0] = 0
    BY DEF Told, Laid, IsLaidFst
  <1>2. tokens \in Seq(Word \cup {0}) /\ input.hyp \in Seq(Word)
    BY <1>1, HypTyped
  <1>3. chain \in Seq(Passed)
    BY <1>1, <1>2, ChainPassed
  <1>4. n \in Nat /\ \A i \in 1..n : /\ chain[i] \in Passed /\ i \in 0..n /\ i - 1 \in 0..n
    BY <1>3
  <1>5. PICK u : Traces(u, chain) /\ T!GetDetails(chain) = Details(u[0])
    BY <1>3, TraceRun
  <1>6. PICK g : /\ g \in [0..n -> Reader] /\ g[0] = Silent
                 /\ \A i \in 1..n : g[i] = ReadOn(g[i - 1], chain[i])
                 /\ WordsRead(chain) = g[n].words
    BY <1>3, ReadRun
  <1> HIDE DEF tokens
  <1>7. /\ p \in [0..n -> 0..(m - 1)] /\ q \in [0..n -> 0..Len(tokens)] /\ p[0] = 0 /\ q[0] = 0
        /\ \A i \in 1..n : /\ OnReference(lay, p[i - 1], chain[i], p[i])
                           /\ OnHypothesis(tokens, q[i - 1], chain[i], q[i])
    BY <1>1 DEF Follows
  <1>8. /\ u \in [0..n -> Trace] /\ u[n] = T!Unread
        /\ \A i \in 1..n : After(u[i], u[i - 1], chain[i])
    BY <1>5 DEF Traces
  <1> HIDE DEF n
  <1>9. \A i \in 1..n : Moves(lay, p[i - 1], chain[i], p[i])
    <2> TAKE i \in 1..n
    <2> DEFINE s == p[i - 1]
               r == p[i]
               a == chain[i]
    <2>1. s \in 0..(m - 1) /\ r \in 0..(m - 1) /\ a \in Passed /\ OnReference(lay, s, a, r)
      BY <1>4, <1>7
    <2> HIDE DEF s, r, a
    <2>2. Moves(lay, s, a, r)
      BY <1>1, <2>1, MovesFacts
    <2> QED
      BY <2>2 DEF s, r, a
  <1>10. \A i \in 0..n : Behind(lay, p[i], u[i])
    <2> DEFINE K == {k \in 0..n : Behind(lay, p[n - k], u[n - k])}
    <2>1. 0 \in K
      <3>1. n - 0 = n /\ 0 \in 0..n
        BY <1>4
      <3> QED
        BY <1>1, <1>8, <3>1, BehindEnd DEF n
    <2>2. ASSUME NEW k \in Nat, k < n, k \in K
          PROVE  k + 1 \in K
      <3> DEFINE i == n - k
      <3>1. i \in 1..n /\ n - (k + 1) = i - 1 /\ k + 1 \in 0..n /\ i \in 0..n /\ i - 1 \in 0..n
        BY <1>4, <2>2
      <3> DEFINE s == p[i - 1]
                 r == p[i]
                 a == chain[i]
                 t == u[i]
                 t2 == u[i - 1]
      <3>2. Behind(lay, r, t)
        BY <2>2
      <3> HIDE DEF i
      <3>3. /\ s \in 0..(m - 1) /\ r \in 0..(m - 1) /\ a \in Passed /\ Moves(lay, s, a, r)
            /\ t \in Trace /\ After(t, t2, a)
        BY <1>4, <1>7, <1>8, <1>9, <3>1
      <3> HIDE DEF s, r, a, t, t2
      <3>4. Behind(lay, s, t2)
        BY <1>1, <3>2, <3>3, BehindStep
      <3> QED
        BY <3>1, <3>4 DEF s, t2
    <2> HIDE DEF K
    <2>3. \A k \in 0..n : k \in K
      BY <1>4, <2>1, <2>2, Climb
    <2> SUFFICES ASSUME NEW i \in 0..n PROVE Behind(lay, p[i], u[i])
      OBVIOUS
    <2>4. n - i \in K /\ n - (n - i) = i
      BY <1>4, <2>3
    <2> QED
      BY <2>4 DEF K
  <1> DEFINE f == [i \in 0..n |-> g[i].words]
             x == [i \in 0..n |-> Taken(q[i])]
             Right(i) == Tells(u[i], u[i - 1], g[i - 1].words, g[i].words, Taken(q[i - 1]), Taken(q[i]), chain[i])
  <1>11. \A i \in 0..n : g[i].open = lay.open[p[i]] /\ (i > 0 => Right(i))
    <2> DEFINE K == {k \in 0..n : g[k].open = lay.open[p[k]] /\ (k > 0 => Right(k))}
    <2>1. 0 \in K
      BY <1>1, <1>4, <1>6, <1>7 DEF Silent
    <2>2. ASSUME NEW k \in Nat, k < n, k \in K
          PROVE  k + 1 \in K
      <3> DEFINE i == k + 1
      <3>1. i \in 1..n /\ i - 1 = k /\ k \in 0..n /\ i \in 0..n
        BY <1>4, <2>2
      <3> DEFINE s == p[i - 1]
                 r == p[i]
                 a == chain[i]
                 t == u[i]
                 t2 == u[i - 1]
                 b == q[i - 1]
                 j == q[i]
                 v == g[i - 1]
      <3>2. v.open = lay.open[s]
        BY <2>2, <3>1
      <3> HIDE DEF i
      <3>3. /\ s \in 0..(m - 1) /\ r \in 0..(m - 1) /\ a \in Passed /\ Moves(lay, s, a, r)
            /\ t \in Trace /\ t2 \in Trace /\ After(t, t2, a) /\ v \in Reader
            /\ b \in 0..Len(tokens) /\ j \in 0..Len(tokens) /\ OnHypothesis(tokens, b, a, j)
            /\ Behind(lay, r, t) /\ Behind(lay, s, t2) /\ g[i] = ReadOn(v, a)
        BY <1>4, <1>6, <1>7, <1>8, <1>9, <1>10, <3>1
      <3> HIDE DEF s, r, a, t, t2, b, j, v
      <3>4. /\ ReadOn(v, a).open = lay.open[r]
            /\ Tells(t, t2, v.words, ReadOn(v, a).words, Taken(b), Taken(j), a)
        <4>1. /\ b \in 0..Len(HypTokens) /\ j \in 0..Len(HypTokens)
              /\ OnHypothesis(HypTokens, b, a, j)
          BY <3>3 DEF tokens
        <4> QED
          BY <1>1, <3>2, <3>3, <4>1, TellsArc, SMTT(40)
      <3>5. Right(i) /\ g[i].open = lay.open[p[i]]
        BY <3>3, <3>4 DEF s, r, a, t, t2, b, j, v
      <3> QED
        BY <3>1, <3>5 DEF i
    <2> HIDE DEF K
    <2>3. \A k \in 0..n : k \in K
      BY <1>4, <2>1, <2>2, Climb
    <2> QED
      BY <2>3 DEF K
  <1>12. /\ f \in [0..n -> Seq(Said)] /\ x \in [0..n -> 0..Len(input.hyp)]
         /\ f[0] = <<>> /\ x[0] = 0 /\ x[n] = Len(input.hyp) /\ f[n] = WordsRead(chain)
    <2>1. \A i \in 0..n : g[i].words \in Seq(Said)
      BY <1>6 DEF Reader
    <2>2. Len(input.hyp) \in Nat
      BY <1>2
    <2>3. \A i \in 0..n : Taken(q[i]) \in 0..Len(input.hyp)
      <3>1. \A i \in 0..n : q[i] \in Nat
        BY <1>7
      <3> QED
        BY <2>2, <3>1 DEF Taken
    <2>4. Taken(0) = 0
      BY <2>2 DEF Taken
    <2>5. Taken(Len(tokens)) = Len(input.hyp)
      <3>1. Len(tokens) \in {Len(input.hyp), Len(input.hyp) + 1}
        <4> DEFINE h == input.hyp
        <4>1. HypTokens \in {h, Append(h, 0)}
          BY DEF HypTokens, G!Eps
        <4> HIDE DEF h
        <4>2. h \in Seq(Word)
          BY <1>2 DEF h
        <4> QED
          BY <4>1, <4>2 DEF tokens, h
      <3> QED
        BY <2>2, <3>1 DEF Taken
    <2>6. 0 \in 0..n /\ n \in 0..n
      BY <1>4
    <2> QED
      BY <1>1, <1>6, <1>7, <2>1, <2>3, <2>4, <2>5, <2>6 DEF Silent, n, tokens
  <1>13. \A i \in 1..n : Tells(u[i], u[i - 1], f[i - 1], f[i], x[i - 1], x[i], chain[i])
    BY <1>4, <1>11
  <1>14. \A i \in 0..n : InOrder(u[i])
    <2> TAKE i \in 0..n
    <2> DEFINE t == u[i]
    <2>1. t \in Trace /\ Behind(lay, p[i], t)
      BY <1>8, <1>10
    <2> HIDE DEF t
    <2>2. InOrder(t)
      BY <2>1, InOrderBehind
    <2> QED
      BY <2>2 DEF t
  <1> HIDE DEF f, x
  <1>15. Story(u, f, x)
    <2>1. ~u[0].inClass
      <3> DEFINE t == u[0]
      <3>1. 0 \in 0..n /\ p[0] = 0
        BY <1>4, <1>7
      <3>2. t \in Trace /\ Behind(lay, 0, t)
        BY <1>8, <1>10, <3>1
      <3> HIDE DEF t
      <3>3. ~t.inClass
        BY <1>1, <3>2, InOrderBehind
      <3> QED
        BY <3>3 DEF t
    <2> QED
      BY <1>1, <1>2, <1>3, <1>5, <1>8, <1>12, <1>13, <1>14, <2>1 DEF Story, n
  <1> QED
    BY <1>15

-----------------------------------------------------------------------------
\* The traversal of the alignment

\* What is collected further in front goes on with what was collected behind: classes
\* that have been read as a whole stay as they are.
Begins(s, r) == Len(s) <= Len(r) /\ \A k \in 1..Len(s) : r[k] = s[k]

Extends(t, t2) ==
    /\ Begins(t.al.tokens, t2.al.tokens)
    /\ Len(t.classes) <= Len(t2.classes)
    /\ \A k \in 1..Len(t.classes) :
         /\ t2.classes[k].classLabel = t.classes[k].classLabel
         /\ Begins(t.classes[k].tokens, t2.classes[k].tokens)
         /\ Shut(t, k) => Shut(t2, k) /\ t2.classes[k] = t.classes[k]

LEMMA BeginsFacts ==
    /\ \A elems, s : s \in Seq(elems) => Begins(s, s)
    /\ \A elems, s, e : s \in Seq(elems) => Begins(s, Append(s, e))
  <1>1. ASSUME NEW elems, NEW s \in Seq(elems), NEW e PROVE Begins(s, s) /\ Begins(s, Append(s, e))
    <2>1. Append(s, e) \in Seq(elems \cup {e})
      <3>1. s \in Seq(elems \cup {e})
        OBVIOUS
      <3> QED
        BY <3>1
    <2>2. Len(Append(s, e)) = Len(s) + 1 /\ Len(s) \in Nat /\ \A k \in 1..Len(s) : Append(s, e)[k] = s[k]
      OBVIOUS
    <2> HIDE DEF Begins
    <2>3. Begins(s, s)
      BY <2>2 DEF Begins
    <2> DEFINE r == Append(s, e)
    <2>4. Begins(s, r)
      <3> HIDE DEF r
      <3>1. Len(r) = Len(s) + 1 /\ Len(s) \in Nat /\ \A k \in 1..Len(s) : r[k] = s[k]
        BY <2>2 DEF r
      <3> QED
        BY <3>1 DEF Begins
    <2> QED
      BY <2>3, <2>4
  <1> QED
    BY <1>1

LEMMA TellsExtend ==
    ASSUME NEW t \in Trace, NEW t2 \in Trace, NEW f, NEW f2, NEW x, NEW x2, NEW a,
           Tells(t, t2, f, f2, x, x2, a)
    PROVE  Extends(t, t2)
  <1> DEFINE len == Len(t.classes)
  <1>1. /\ t.classes \in Seq(Counts(Spoken)) /\ len \in Nat
        /\ t.al.tokens \in Seq(Spoken \cup Labelling) /\ t.inClass \in BOOLEAN
        /\ \A k \in 1..len : t.classes[k].tokens \in Seq(Spoken)
    BY TraceFacts
  <1>2. /\ Begins(t.al.tokens, t.al.tokens) /\ \A e : Begins(t.al.tokens, Append(t.al.tokens, e))
        /\ \A k \in 1..len : /\ Begins(t.classes[k].tokens, t.classes[k].tokens)
                             /\ \A e : Begins(t.classes[k].tokens, Append(t.classes[k].tokens, e))
    BY <1>1, BeginsFacts
  <1>3. CASE t2 = t
    BY <1>1, <1>2, <1>3 DEF Extends
  <1>4. CASE Met(t, t2, a) /\ ~t2.inClass
    BY <1>1, <1>2, <1>4 DEF Extends, Met, Shut
  <1>5. CASE Opened(t, t2, a)
    <2> DEFINE e == T!Empty(a.ilabel)
    <2>1. t2.classes = Append(t.classes, e) /\ t2.al.tokens = Append(t.al.tokens, <<a.ilabel, DelLabel>>)
      BY <1>5 DEF Opened
    <2>2. Begins(t.classes, Append(t.classes, e)) /\ Len(Append(t.classes, e)) = len + 1
      BY <1>1, BeginsFacts
    <2> HIDE DEF e
    <2>3. Len(t2.classes) = len + 1 /\ \A k \in 1..len : t2.classes[k] = t.classes[k]
      BY <2>1, <2>2 DEF Begins
    <2>4. \A k \in 1..len : Shut(t2, k)
      BY <1>1, <2>3 DEF Shut
    <2> HIDE DEF len
    <2>5. Begins(t.al.tokens, t2.al.tokens)
      BY <1>2, <2>1
    <2> QED
      BY <1>1, <1>2, <2>3, <2>4, <2>5 DEF Extends, len
  <1>6. CASE Reads(t, t2, a)
    <2>1. CASE ~t.inClass
      <3>1. t2.classes = t.classes /\ t2.al.tokens = Append(t.al.tokens, T!Token(a.ilabel, a.olabel))
            /\ t2.inClass = t.inClass
        BY <1>6, <2>1 DEF Reads, Gains
      <3> QED
        BY <1>1, <1>2, <3>1 DEF Extends, Shut
    <2>2. CASE t.inClass
      <3>1. /\ t2.al.tokens = t.al.tokens /\ t2.inClass /\ len > 0 /\ Len(t2.classes) = len
            /\ \A k \in 1..(len - 1) : t2.classes[k] = t.classes[k]
            /\ t2.classes[len].classLabel = t.classes[len].classLabel
            /\ t2.classes[len].tokens = Append(t.classes[len].tokens, T!Token(a.ilabel, a.olabel))
        BY <1>6, <2>2 DEF Reads, Gains, Adds
      <3>2. ASSUME NEW k \in 1..len
            PROVE  /\ t2.classes[k].classLabel = t.classes[k].classLabel
                   /\ Begins(t.classes[k].tokens, t2.classes[k].tokens)
                   /\ Shut(t, k) => Shut(t2, k) /\ t2.classes[k] = t.classes[k]
        <4>1. CASE k = len
          <5>1. ~Shut(t, len)
            BY <1>1, <2>2 DEF Shut
          <5>2. Begins(t.classes[len].tokens, t2.classes[len].tokens)
            BY <1>2, <3>1, <4>1
          <5> QED
            BY <3>1, <4>1, <5>1, <5>2
        <4>2. CASE k # len
          <5>1. k \in 1..(len - 1)
            BY <1>1, <4>2
          <5> QED
            BY <1>1, <1>2, <3>1, <5>1 DEF Shut
        <4> QED
          BY <4>1, <4>2
      <3>3. Begins(t.al.tokens, t2.al.tokens)
        BY <1>2, <3>1
      <3> QED
        BY <1>1, <3>1, <3>2, <3>3 DEF Extends
    <2> QED
      BY <1>1, <2>1, <2>2
  <1> QED
    BY <1>3, <1>4, <1>5, <1>6 DEF Tells, Adding, EnteringClass, LeavingClass, Idling

LEMMA ExtendsOn ==
    ASSUME NEW t1 \in Trace, NEW t2 \in Trace, NEW t3 \in Trace, Extends(t1, t2), Extends(t2, t3)
    PROVE  Extends(t1, t3)
  <1>1. \A elems, s : s \in Seq(elems) => Len(s) \in Nat
    OBVIOUS
  <1>2. ASSUME NEW s1, NEW s2, NEW s3, Len(s1) \in Nat, Len(s2) \in Nat, Len(s3) \in Nat,
               Begins(s1, s2), Begins(s2, s3)
        PROVE  Begins(s1, s3)
    <2>1. Len(s1) <= Len(s2) /\ Len(s2) <= Len(s3) /\ Len(s1) <= Len(s3)
      BY <1>2 DEF Begins
    <2>2. \A k \in 1..Len(s1) : k \in 1..Len(s2)
      BY <1>2, <2>1
    <2> QED
      BY <1>2, <2>1, <2>2 DEF Begins
  <1>3. Begins(t1.al.tokens, t3.al.tokens)
    <2>1. /\ Len(t1.al.tokens) \in Nat /\ Len(t2.al.tokens) \in Nat /\ Len(t3.al.tokens) \in Nat
      BY TraceFacts
    <2> QED
      BY <1>2, <2>1 DEF Extends
  <1>4. /\ Len(t1.classes) \in Nat /\ Len(t2.classes) \in Nat /\ Len(t3.classes) \in Nat
        /\ Len(t1.classes) <= Len(t2.classes) /\ Len(t2.classes) <= Len(t3.classes)
    BY TraceFacts DEF Extends
  <1>5. ASSUME NEW k \in 1..Len(t1.classes)
        PROVE  /\ t3.classes[k].classLabel = t1.classes[k].classLabel
               /\ Begins(t1.classes[k].tokens, t3.classes[k].tokens)
               /\ Shut(t1, k) => Shut(t3, k) /\ t3.classes[k] = t1.classes[k]
    <2>1. k \in 1..Len(t2.classes) /\ k \in 1..Len(t3.classes)
      BY <1>4
    <2>2. /\ Len(t1.classes[k].tokens) \in Nat /\ Len(t2.classes[k].tokens) \in Nat
          /\ Len(t3.classes[k].tokens) \in Nat
      BY <2>1, TraceFacts
    <2>3. Begins(t1.classes[k].tokens, t2.classes[k].tokens)
          /\ Begins(t2.classes[k].tokens, t3.classes[k].tokens)
      BY <2>1 DEF Extends
    <2>4. Begins(t1.classes[k].tokens, t3.classes[k].tokens)
      BY <1>2, <2>2, <2>3
    <2> QED
      BY <2>1, <2>4 DEF Extends
  <1> QED
    BY <1>3, <1>4, <1>5 DEF Extends

LEMMA StoryExtends ==
    ASSUME NEW u, NEW f, NEW x, Story(u, f, x)
    PROVE  \A i \in 0..Len(chain) : Extends(u[i], u[0])
  <1> DEFINE n == Len(chain)
             K == {k \in 0..n : Extends(u[k], u[0])}
  <1>1. /\ n \in Nat /\ u \in [0..n -> Trace]
        /\ \A i \in 1..n : Tells(u[i], u[i - 1], f[i - 1], f[i], x[i - 1], x[i], chain[i])
    BY DEF Story
  <1> HIDE DEF n
  <1>2. 0 \in K
    <2>1. 0 \in 0..n /\ u[0] \in Trace
      BY <1>1
    <2> DEFINE t == u[0]
    <2> HIDE DEF t
    <2>2. \A k \in 1..Len(t.classes) : t.classes[k].tokens \in Seq(Spoken)
      BY <2>1, TraceFacts DEF t
    <2>3. t.al.tokens \in Seq(Spoken \cup Labelling) /\ Len(t.classes) \in Nat
      BY <2>1, TraceFacts DEF t
    <2>4. Extends(t, t)
      BY <2>2, <2>3, BeginsFacts DEF Extends
    <2> QED
      BY <2>1, <2>4 DEF t
  <1>3. ASSUME NEW k \in Nat, k < n, k \in K PROVE k + 1 \in K
    <2>1. k + 1 \in 1..n /\ (k + 1) - 1 = k /\ k \in 0..n /\ k + 1 \in 0..n /\ 0 \in 0..n
      BY <1>1, <1>3
    <2>2. u[k + 1] \in Trace /\ u[k] \in Trace /\ u[0] \in Trace /\ Extends(u[k], u[0])
      BY <1>1, <1>3, <2>1
    <2>3. Extends(u[k + 1], u[k])
      <3>1. Tells(u[k + 1], u[k], f[k], f[k + 1], x[k], x[k + 1], chain[k + 1])
        BY <1>1, <2>1
      <3> QED
        BY <2>2, <3>1, TellsExtend
    <2> QED
      BY <2>1, <2>2, <2>3, ExtendsOn
  <1> HIDE DEF K
  <1>4. \A k \in 0..n : k \in K
    BY <1>1, <1>2, <1>3, Climb
  <1> QED
    BY <1>4 DEF K, n

\* s is r, read backwards.
Turned(s, r) ==
    Len(s) = Len(r) /\ \A k \in 1..Len(r) : s[k] = r[Len(r) - k + 1]

LEMMA ReverseFacts ==
    ASSUME NEW elems, NEW r \in Seq(elems)
    PROVE  T!Reverse(r) \in Seq(elems) /\ Turned(T!Reverse(r), r)
  <1> DEFINE n == Len(r)
             s == [k \in 1..n |-> r[(n - k) + 1]]
  <1>1. n \in Nat /\ \A k \in 1..n : r[k] \in elems
    OBVIOUS
  <1>2. T!Reverse(r) = s
    BY DEF T!Reverse
  <1> HIDE DEF n
  <1>3. s \in Seq(elems) /\ Len(s) = n
    <2>1. \A k \in 1..n : (n - k) + 1 \in 1..n
      BY <1>1
    <2> QED
      BY <1>1, <2>1
  <1>4. \A k \in 1..n : s[k] = r[n - k + 1]
    OBVIOUS
  <1> HIDE DEF s
  <1> QED
    BY <1>2, <1>3, <1>4 DEF Turned, n

LEMMA ReversedFacts ==
    ASSUME NEW tk, NEW al1 \in Counts(tk)
    PROVE  LET al2 == T!Reversed(al1)
           IN  /\ al2 \in Counts(tk) /\ al2.classLabel = al1.classLabel
               /\ al2.insertions = al1.insertions /\ al2.deletions = al1.deletions
               /\ al2.substitutions = al1.substitutions
               /\ al2.numWordsInReference = al1.numWordsInReference
               /\ al2.del_words = T!Reverse(al1.del_words)
               /\ al2.ins_words = T!Reverse(al1.ins_words)
               /\ al2.sub_words = T!Reverse(al1.sub_words)
               /\ al2.tokens \in Seq(tk) /\ Turned(al2.tokens, al1.tokens)
  <1> DEFINE d == T!Reverse(al1.del_words)
             e == T!Reverse(al1.ins_words)
             f == T!Reverse(al1.sub_words)
             g == T!Reverse(al1.tokens)
             al2 == T!Reversed(al1)
  <1>1. /\ d \in Seq(Word) /\ e \in Seq(Word) /\ f \in Seq(Word \X Word) /\ g \in Seq(tk)
        /\ Turned(g, al1.tokens)
    <2>1. /\ al1.del_words \in Seq(Word) /\ al1.ins_words \in Seq(Word)
          /\ al1.sub_words \in Seq(Word \X Word) /\ al1.tokens \in Seq(tk)
      BY DEF Counts
    <2> QED
      BY <2>1, ReverseFacts
  <1> SUFFICES /\ al2 \in Counts(tk) /\ al2.classLabel = al1.classLabel
               /\ al2.insertions = al1.insertions /\ al2.deletions = al1.deletions
               /\ al2.substitutions = al1.substitutions
               /\ al2.numWordsInReference = al1.numWordsInReference
               /\ al2.del_words = d /\ al2.ins_words = e /\ al2.sub_words = f
               /\ al2.tokens = g
    BY <1>1
  <1> HIDE DEF d, e, f, g
  <1>2. al2 = [al1 EXCEPT !.del_words = d, !.ins_words = e, !.sub_words = f, !.tokens = g]
    BY DEF T!Reversed, d, e, f, g
  <1> HIDE DEF al2
  <1> QED
    BY <1>1, <1>2 DEF Counts

LEMMA DetailsFacts ==
    ASSUME NEW t \in Trace
    PROVE  LET d == Details(t)
           IN  /\ d.alignment \in Counts(Spoken \cup Labelling)
               /\ d.alignment.tokens \in Seq(Spoken \cup Labelling)
               /\ Turned(d.alignment.tokens, t.al.tokens)
               /\ d.alignment = T!Reversed(t.al)
               /\ d.label_alignments \in Seq(Counts(Spoken))
               /\ Len(d.label_alignments) = Len(t.classes)
               /\ \A k \in 1..Len(t.classes) :
                    /\ d.label_alignments[k] = T!Reversed(t.classes[k])
                    /\ d.label_alignments[k].classLabel = t.classes[k].classLabel
                    /\ d.label_alignments[k].tokens \in Seq(Spoken)
                    /\ Turned(d.label_alignments[k].tokens, t.classes[k].tokens)
  <1> DEFINE r == [k \in DOMAIN t.classes |-> T!Reversed(t.classes[k])]
             g == T!Reversed(t.al)
             n == Len(t.classes)
  <1>1. /\ n \in Nat /\ DOMAIN t.classes = 1..n /\ t.al \in Counts(Spoken \cup Labelling)
        /\ \A k \in 1..n : t.classes[k] \in Counts(Spoken)
    <2>1. t.classes \in Seq(Counts(Spoken)) /\ t.al \in Counts(Spoken \cup Labelling)
      BY TraceFacts
    <2> QED
      BY <2>1
  <1>2. g \in Counts(Spoken \cup Labelling) /\ g.tokens \in Seq(Spoken \cup Labelling)
        /\ Turned(g.tokens, t.al.tokens)
    BY <1>1, ReversedFacts
  <1>3. \A k \in 1..n : LET c == T!Reversed(t.classes[k])
                        IN  /\ c \in Counts(Spoken) /\ c.classLabel = t.classes[k].classLabel
                            /\ c.tokens \in Seq(Spoken) /\ Turned(c.tokens, t.classes[k].tokens)
    BY <1>1, ReversedFacts
  <1>4. Details(t).alignment = g /\ Details(t).label_alignments = r
    BY DEF Details
  <1>5. r = [k \in 1..n |-> T!Reversed(t.classes[k])]
    BY <1>1
  <1> HIDE DEF g, n
  <1>6. r \in Seq(Counts(Spoken)) /\ Len(r) = n
    BY <1>1, <1>3, <1>5
  <1>7. \A k \in 1..n : r[k] = T!Reversed(t.classes[k])
    BY <1>5
  <1> HIDE DEF r
  <1> QED
    BY <1>2, <1>3, <1>4, <1>6, <1>7 DEF g, n

Comments == {"ins", "del", "sub", ""}

\* The stitches with rows from some set: each tells a word, or that a class stands for
\* nothing, and has the word of the hypothesis when it takes a row of it.
Made(rows) ==
    {s \in [classLabel : AnyLabel \cup {0}, reftk : Int, hyptk : Int, comment : Comments,
            how : {"", "direct", "push_last", "split_worst"}, hyp_orig : Int, nlpRow : rows] :
       /\ <<s.reftk, s.hyptk>> \in Spoken \cup {<<S!NOOP, S!NOOP>>}
       /\ s.comment = S!Comment(s.reftk, s.hyptk)
       /\ S!TakesHypRow(s.reftk, s.hyptk) => s.hyp_orig = s.hyptk}

\* The words that they tell.
SaidBy(s) == <<s.classLabel, <<s.reftk, s.hyptk>>>>
Heard(ss) == Those([k \in DOMAIN ss |-> SaidBy(ss[k])], {k \in DOMAIN ss : ~IsNoop(ss[k])})

LEMMA SpokenFacts ==
    /\ \A e \in Spoken : /\ e = <<e[1], e[2]>> /\ e[1] \in Nat /\ e[2] \in Nat
                         /\ e[1] # S!NOOP /\ e[2] # S!NOOP /\ e[1] \notin AnyLabel
                         /\ e[1] \in Word \cup {InsLabel} /\ e[2] \in Word \cup {DelLabel}
                         /\ e[1] # InsLabel \/ e[2] # DelLabel
    /\ 0 \notin AnyLabel /\ AnyLabel \subseteq Nat
  <1>1. S!NOOP \notin Nat /\ InsLabel \in Nat /\ DelLabel \in Nat /\ Word \subseteq Nat
        /\ InsLabel \notin AnyLabel /\ 0 \notin AnyLabel /\ AnyLabel \subseteq Nat
        /\ \A w \in Word : w \notin AnyLabel
    BY LabelAssumption DEF S!NOOP, Word, AnyLabel
  <1>2. ASSUME NEW e \in Spoken
        PROVE  /\ e = <<e[1], e[2]>> /\ e[1] \in Word \cup {InsLabel} /\ e[2] \in Word \cup {DelLabel}
               /\ e[1] # InsLabel \/ e[2] # DelLabel
    BY DEF Spoken
  <1> QED
    BY <1>1, <1>2

LEMMA MadeFacts ==
    ASSUME NEW rows, NEW s \in Made(rows)
    PROVE  /\ SaidBy(s) \in (AnyLabel \cup {0}) \X (Spoken \cup {<<S!NOOP, S!NOOP>>})
           /\ ~IsNoop(s) => SaidBy(s) \in Said
  <1>1. /\ s.classLabel \in AnyLabel \cup {0}
        /\ <<s.reftk, s.hyptk>> \in Spoken \cup {<<S!NOOP, S!NOOP>>}
    BY DEF Made
  <1> DEFINE e == <<s.reftk, s.hyptk>>
  <1>2. ~IsNoop(s) => e \in Spoken
    <2>1. e = <<S!NOOP, S!NOOP>> => s.reftk = S!NOOP
      OBVIOUS
    <2> QED
      BY <1>1, <2>1 DEF IsNoop
  <1> HIDE DEF e
  <1> QED
    BY <1>1, <1>2 DEF SaidBy, Said, e

LEMMA HeardGrows ==
    ASSUME NEW rows, NEW ss \in Seq(Made(rows)), NEW s \in Made(rows)
    PROVE  Heard(Append(ss, s)) = IF IsNoop(s) THEN Heard(ss) ELSE Append(Heard(ss), SaidBy(s))
  <1> DEFINE m == Len(ss)
             tt == Append(ss, s)
             all == (AnyLabel \cup {0}) \X (Spoken \cup {<<S!NOOP, S!NOOP>>})
             e == [k \in DOMAIN ss |-> SaidBy(ss[k])]
             keep == {k \in DOMAIN ss : ~IsNoop(ss[k])}
             more == {k \in DOMAIN tt : ~IsNoop(tt[k])}
             z == SaidBy(s)
  <1>1. /\ m \in Nat /\ DOMAIN ss = 1..m /\ DOMAIN tt = 1..(m + 1) /\ tt[m + 1] = s
        /\ \A k \in 1..m : tt[k] = ss[k] /\ ss[k] \in Made(rows)
    OBVIOUS
  <1> HIDE DEF tt, m, all
  <1>2. e \in Seq(all) /\ Len(e) = m /\ z \in all
    <2>1. \A k \in 1..m : SaidBy(ss[k]) \in all
      BY <1>1, MadeFacts DEF all
    <2>2. z \in all
      BY MadeFacts DEF all
    <2> HIDE DEF z
    <2> QED
      BY <1>1, <2>1, <2>2
  <1>3. [k \in DOMAIN tt |-> SaidBy(tt[k])] = Append(e, z)
    <2> DEFINE q == [k \in DOMAIN tt |-> SaidBy(tt[k])]
               r == Append(e, z)
    <2>1. DOMAIN q = 1..(m + 1) /\ q[m + 1] = z /\ \A k \in 1..m : q[k] = SaidBy(ss[k])
      BY <1>1
    <2>2. \A k \in 1..m : e[k] = SaidBy(ss[k])
      BY <1>1
    <2> HIDE DEF e, z, q
    <2>3. DOMAIN r = 1..(m + 1) /\ r[m + 1] = z /\ \A k \in 1..m : r[k] = e[k]
      BY <1>2
    <2>4. r = [k \in 1..(m + 1) |-> r[k]] /\ q = [k \in 1..(m + 1) |-> q[k]]
      <3>1. r \in Seq(all)
        BY <1>2
      <3> HIDE DEF r
      <3>2. r = [k \in DOMAIN r |-> r[k]]
        BY <3>1
      <3>3. q = [k \in DOMAIN q |-> q[k]]
        BY DEF q
      <3> QED
        BY <2>1, <2>3, <3>2, <3>3
    <2>5. \A k \in 1..(m + 1) : r[k] = q[k]
      BY <1>1, <2>1, <2>2, <2>3
    <2> QED
      BY <2>4, <2>5 DEF q
  <1>4. (\A i \in 1..m : i \in more <=> i \in keep) /\ (m + 1 \in more <=> ~IsNoop(s))
    <2>1. m + 1 \in 1..(m + 1) /\ \A i \in 1..m : i \in 1..(m + 1)
      BY <1>1
    <2> QED
      BY <1>1, <2>1
  <1>5. Heard(tt) = Those(Append(e, z), more) /\ Heard(ss) = Those(e, keep)
    BY <1>3 DEF Heard
  <1> HIDE DEF e, z, keep, more
  <1>6. Those(Append(e, z), more)
          = IF Len(e) + 1 \in more THEN Append(Those(e, keep), z) ELSE Those(e, keep)
    BY <1>2, <1>4, ThoseGrows
  <1> QED
    BY <1>2, <1>4, <1>5, <1>6 DEF tt, z

LEMMA MadeOf ==
    ASSUME NEW rows, NEW row \in rows, NEW l \in AnyLabel \cup {0}, NEW r \in Int, NEW h \in Int,
           NEW orig \in Int, <<r, h>> \in Spoken \cup {<<S!NOOP, S!NOOP>>},
           S!TakesHypRow(r, h) => orig = h
    PROVE  [classLabel |-> l, reftk |-> r, hyptk |-> h, comment |-> S!Comment(r, h), how |-> "",
            hyp_orig |-> orig, nlpRow |-> row] \in Made(rows)
  <1> DEFINE c == S!Comment(r, h)
             s == [classLabel |-> l, reftk |-> r, hyptk |-> h, comment |-> c, how |-> "",
                   hyp_orig |-> orig, nlpRow |-> row]
  <1>1. c \in Comments
    BY DEF S!Comment, Comments
  <1>2. s.comment = S!Comment(s.reftk, s.hyptk)
    OBVIOUS
  <1> HIDE DEF c
  <1>3. s \in [classLabel : AnyLabel \cup {0}, reftk : Int, hyptk : Int, comment : Comments,
               how : {"", "direct", "push_last", "split_worst"}, hyp_orig : Int, nlpRow : rows]
    BY <1>1
  <1> QED
    BY <1>2, <1>3 DEF Made

\* A stitch for a word of the chain, and for a class that stands for nothing.
LEMMA EmitWord ==
    ASSUME input.hyp \in Seq(Word), stitches \in Seq(Made({S!NoRow})), hypRowIndex \in Nat,
           NEW a \in Passed, IsWordArc(a), NEW e, e = T!Token(a.ilabel, a.olabel),
           NEW l \in AnyLabel \cup {0},
           a.olabel # 0 => /\ hypRowIndex < Len(input.hyp)
                           /\ input.hyp[hypRowIndex + 1] = a.olabel,
           S!Emit(e[1], e[2], l)
    PROVE  /\ stitches' \in Seq(Made({S!NoRow}))
           /\ Heard(stitches') = Append(Heard(stitches), <<l, e>>)
           /\ hypRowIndex' = hypRowIndex + (IF a.olabel = 0 THEN 0 ELSE 1)
  <1> DEFINE r == e[1]
             h == e[2]
             takes == S!TakesHypRow(r, h)
             orig == S!HypOrig(r, h)
             comment == S!Comment(r, h)
             s == [classLabel |-> l, reftk |-> r, hyptk |-> h, comment |-> comment, how |-> "",
                   hyp_orig |-> orig, nlpRow |-> S!NoRow]
  <1>1. /\ e \in Spoken /\ a.olabel \in Word \cup {0}
        /\ h = IF a.olabel = 0 THEN DelLabel ELSE a.olabel
    BY TokenFacts
  <1>2. e = <<r, h>> /\ r \in Nat /\ h \in Nat /\ r # S!NOOP
    BY <1>1, SpokenFacts
  <1>3. takes <=> a.olabel # 0
    <2>1. DelLabel \notin Word
      BY DEF Word
    <2> QED
      BY <1>1, <1>2, <2>1 DEF S!TakesHypRow
  <1>4. takes => orig = h
    BY <1>1, <1>3 DEF S!HypOrig
  <1>5. ~takes => orig = 0
    BY DEF S!HypOrig, S!NoWord
  <1>7. stitches' = Append(stitches, s) /\ hypRowIndex' = hypRowIndex + (IF takes THEN 1 ELSE 0)
    BY DEF S!Emit
  <1> HIDE DEF takes, orig, comment, r, h
  <1>8. s \in Made({S!NoRow})
    <2>1. orig \in Int /\ r \in Int /\ h \in Int
      BY <1>2, <1>4, <1>5
    <2>2. <<r, h>> \in Spoken \cup {<<S!NOOP, S!NOOP>>}
      BY <1>1, <1>2
    <2>3. S!TakesHypRow(r, h) => orig = h
      BY <1>4 DEF takes
    <2> QED
      BY <2>1, <2>2, <2>3, MadeOf DEF comment
  <1>9. ~IsNoop(s) /\ SaidBy(s) = <<l, e>>
    BY <1>2 DEF IsNoop, SaidBy
  <1> HIDE DEF s
  <1>10. stitches' \in Seq(Made({S!NoRow}))
    BY <1>7, <1>8
  <1>11. Heard(Append(stitches, s)) = Append(Heard(stitches), <<l, e>>)
    BY <1>8, <1>9, HeardGrows
  <1> QED
    BY <1>3, <1>7, <1>10, <1>11

LEMMA EmitNoop ==
    ASSUME stitches \in Seq(Made({S!NoRow})), hypRowIndex \in Nat, NEW l \in AnyLabel \cup {0},
           S!Emit(S!NOOP, S!NOOP, l)
    PROVE  /\ stitches' \in Seq(Made({S!NoRow})) /\ Heard(stitches') = Heard(stitches)
           /\ hypRowIndex' = hypRowIndex
  <1> DEFINE r == S!NOOP
             orig == S!HypOrig(r, r)
             comment == S!Comment(r, r)
             s == [classLabel |-> l, reftk |-> r, hyptk |-> r, comment |-> comment, how |-> "",
                   hyp_orig |-> orig, nlpRow |-> S!NoRow]
  <1>1. ~S!TakesHypRow(r, r)
    BY DEF S!TakesHypRow
  <1>2. orig = 0 /\ r \in Int
    <2>1. r \in Int
      BY DEF S!NOOP
    <2> HIDE DEF r
    <2> QED
      BY <1>1, <2>1 DEF S!HypOrig, S!NoWord
  <1>3. stitches' = Append(stitches, s) /\ hypRowIndex' = hypRowIndex + 0
    BY <1>1 DEF S!Emit
  <1> HIDE DEF orig
  <1>4. s \in Made({S!NoRow})
    <2>1. <<r, r>> \in Spoken \cup {<<S!NOOP, S!NOOP>>}
      OBVIOUS
    <2> HIDE DEF r
    <2>2. orig \in Int
      BY <1>2
    <2> QED
      BY <1>1, <1>2, <2>1, <2>2, MadeOf
  <1>5. IsNoop(s)
    BY DEF IsNoop
  <1> HIDE DEF s
  <1>6. stitches' \in Seq(Made({S!NoRow}))
    BY <1>3, <1>4
  <1>7. Heard(Append(stitches, s)) = Heard(stitches)
    BY <1>4, <1>5, HeardGrows
  <1> QED
    BY <1>3, <1>6, <1>7

\* The alignment as it is read forwards, when t is what lies behind: the last token of t
\* comes next, and so do the last tokens of its classes.
FacingClass(t, k) ==
    LET rest == Len(t.classes[k].tokens)
        size == Len(S!classes[k].tokens)
    IN  /\ S!classes[k].classLabel = t.classes[k].classLabel
        /\ size \in Nat /\ rest <= size
        /\ size = 0 <=> S!classes[k].tokens = <<>>
        /\ rest > 0 => S!classes[k].tokens[size - rest + 1] = t.classes[k].tokens[rest]
        /\ Shut(t, k) => size = rest

Facing(t) ==
    LET left == Len(t.al.tokens)
        all == Len(S!tokens)
    IN  /\ all \in Nat /\ left <= all
        /\ left > 0 => S!tokens[all - left + 1] = t.al.tokens[left]
        /\ Len(S!classes) \in Nat /\ DOMAIN S!classes = 1..Len(S!classes)
        /\ Len(t.classes) <= Len(S!classes)
        /\ \A k \in 1..Len(t.classes) : FacingClass(t, k)

\* No class that stands for something is empty, and no label comes twice.
Tidy ==
    \A k \in DOMAIN S!classes :
      /\ S!classes[k].classLabel \in AnyLabel
      /\ S!classes[k].tokens = <<>> => S!classes[k].classLabel \in FallbackLabel
      /\ \A j \in DOMAIN S!classes : S!classes[j].classLabel = S!classes[k].classLabel => j = k

LEMMA TurnedFacts ==
    ASSUME NEW e1, NEW e2, NEW s, NEW r \in Seq(e1), NEW q \in Seq(e2), Turned(s, r), Begins(q, r)
    PROVE  /\ Len(s) = Len(r) /\ Len(s) \in Nat /\ Len(q) \in Nat /\ Len(q) <= Len(s)
           /\ Len(q) > 0 => s[Len(s) - Len(q) + 1] = q[Len(q)]
  <1> DEFINE n == Len(r)
             m == Len(q)
             k == n - m + 1
  <1>1. n \in Nat /\ m \in Nat
    OBVIOUS
  <1>2. m <= n /\ Len(s) = n
    BY DEF Begins, Turned
  <1>3. ASSUME m > 0 PROVE s[k] = q[m]
    <2>1. k \in 1..n /\ n - k + 1 = m /\ m \in 1..m
      BY <1>1, <1>2, <1>3
    <2>2. s[k] = r[n - k + 1]
      BY <2>1 DEF Turned
    <2> HIDE DEF k
    <2>3. r[m] = q[m]
      BY <2>1 DEF Begins
    <2> QED
      BY <2>1, <2>2, <2>3
  <1> QED
    BY <1>1, <1>2, <1>3

LEMMA FacingFacts ==
    ASSUME NEW t \in Trace, NEW t0 \in Trace, Extends(t, t0), alignment = Details(t0)
    PROVE  Facing(t)
  <1> DEFINE d == Details(t0)
  <1>1. /\ Turned(d.alignment.tokens, t0.al.tokens) /\ d.label_alignments \in Seq(Counts(Spoken))
        /\ Len(d.label_alignments) = Len(t0.classes)
        /\ \A k \in 1..Len(t0.classes) :
             /\ d.label_alignments[k].classLabel = t0.classes[k].classLabel
             /\ d.label_alignments[k].tokens \in Seq(Spoken)
             /\ Turned(d.label_alignments[k].tokens, t0.classes[k].tokens)
    BY DetailsFacts
  <1> HIDE DEF d
  <1>2. /\ Len(t.classes) \in Nat /\ Len(t0.classes) \in Nat
        /\ t.al.tokens \in Seq(Spoken \cup Labelling) /\ t0.al.tokens \in Seq(Spoken \cup Labelling)
        /\ \A k \in 1..Len(t.classes) : t.classes[k].tokens \in Seq(Spoken)
        /\ \A k \in 1..Len(t0.classes) : t0.classes[k].tokens \in Seq(Spoken)
    BY TraceFacts
  <1>3. /\ Begins(t.al.tokens, t0.al.tokens) /\ Len(t.classes) <= Len(t0.classes)
        /\ \A k \in 1..Len(t.classes) :
             /\ t0.classes[k].classLabel = t.classes[k].classLabel
             /\ Begins(t.classes[k].tokens, t0.classes[k].tokens)
             /\ Shut(t, k) => t0.classes[k] = t.classes[k]
    BY DEF Extends
  <1>4. S!tokens = d.alignment.tokens /\ S!classes = d.label_alignments
    BY DEF S!tokens, S!classes, d
  <1>5. /\ Len(S!tokens) \in Nat /\ Len(t.al.tokens) <= Len(S!tokens)
        /\ Len(t.al.tokens) > 0 => S!tokens[Len(S!tokens) - Len(t.al.tokens) + 1]
                                     = t.al.tokens[Len(t.al.tokens)]
    <2> DEFINE s == S!tokens
               r == t0.al.tokens
               q == t.al.tokens
               both == Spoken \cup Labelling
    <2>1. r \in Seq(both) /\ q \in Seq(both) /\ Turned(s, r) /\ Begins(q, r)
      BY <1>1, <1>2, <1>3, <1>4
    <2> HIDE DEF s, r, q, both
    <2>2. /\ Len(s) \in Nat /\ Len(q) <= Len(s)
          /\ Len(q) > 0 => s[Len(s) - Len(q) + 1] = q[Len(q)]
      BY <2>1, TurnedFacts
    <2> QED
      BY <2>2 DEF s, q
  <1>6. ASSUME NEW k \in 1..Len(t.classes)
        PROVE  FacingClass(t, k)
    <2> DEFINE s == S!classes[k].tokens
               r == t0.classes[k].tokens
               q == t.classes[k].tokens
    <2>1. k \in 1..Len(t0.classes)
      BY <1>2, <1>3
    <2>2. /\ s \in Seq(Spoken) /\ r \in Seq(Spoken) /\ q \in Seq(Spoken)
          /\ Turned(s, r) /\ Begins(q, r) /\ S!classes[k].classLabel = t.classes[k].classLabel
      BY <1>1, <1>2, <1>3, <1>4, <2>1
    <2>3. Shut(t, k) => r = q
      BY <1>3
    <2> HIDE DEF s, r, q
    <2>4. /\ Len(s) = Len(r) /\ Len(s) \in Nat /\ Len(q) \in Nat /\ Len(q) <= Len(s)
          /\ Len(q) > 0 => s[Len(s) - Len(q) + 1] = q[Len(q)]
      BY <2>2, TurnedFacts
    <2>5. Len(s) = 0 <=> s = <<>>
      BY <2>2
    <2> QED
      BY <2>2, <2>3, <2>4, <2>5 DEF s, q, FacingClass
  <1>7. Len(S!classes) = Len(t0.classes) /\ DOMAIN S!classes = 1..Len(S!classes)
    BY <1>1, <1>4
  <1> QED
    BY <1>2, <1>3, <1>5, <1>6, <1>7 DEF Facing

LEMMA TidyFacts ==
    ASSUME NEW t0 \in Trace, InOrder(t0), ~t0.inClass, alignment = Details(t0)
    PROVE  Tidy
  <1> DEFINE d == Details(t0)
             n == Len(t0.classes)
  <1>1. /\ d.label_alignments \in Seq(Counts(Spoken)) /\ Len(d.label_alignments) = n /\ n \in Nat
        /\ \A k \in 1..n :
             /\ d.label_alignments[k].classLabel = t0.classes[k].classLabel
             /\ d.label_alignments[k].tokens \in Seq(Spoken)
             /\ Turned(d.label_alignments[k].tokens, t0.classes[k].tokens)
             /\ t0.classes[k].tokens \in Seq(Spoken)
    BY DetailsFacts, TraceFacts
  <1> HIDE DEF d
  <1>2. S!classes = d.label_alignments /\ DOMAIN S!classes = 1..n
    <2>1. DOMAIN d.label_alignments = 1..n
      BY <1>1
    <2>2. S!classes = d.label_alignments
      BY DEF S!classes, d
    <2> QED
      BY <2>1, <2>2
  <1>3. \A k \in 1..n : /\ t0.classes[k].classLabel \in AnyLabel
                        /\ t0.classes[k].tokens = <<>> => t0.classes[k].classLabel \in FallbackLabel
                        /\ \A j \in 1..(k - 1) : t0.classes[j].classLabel # t0.classes[k].classLabel
    BY DEF InOrder, Shut
  <1>4. \A j, k \in 1..n : t0.classes[j].classLabel = t0.classes[k].classLabel => j = k
    <2> SUFFICES ASSUME NEW j \in 1..n, NEW k \in 1..n,
                        t0.classes[j].classLabel = t0.classes[k].classLabel, j # k
                 PROVE  FALSE
      OBVIOUS
    <2>1. j \in 1..(k - 1) \/ k \in 1..(j - 1)
      BY <1>1
    <2> QED
      BY <1>3, <2>1
  <1>5. \A k \in 1..n : d.label_alignments[k].tokens = <<>> => t0.classes[k].tokens = <<>>
    <2> TAKE k \in 1..n
    <2> DEFINE s == d.label_alignments[k].tokens
               r == t0.classes[k].tokens
    <2>1. s \in Seq(Spoken) /\ r \in Seq(Spoken) /\ Turned(s, r)
      BY <1>1
    <2> HIDE DEF s, r
    <2>2. s = <<>> => r = <<>>
      BY <2>1 DEF Turned
    <2> QED
      BY <2>2 DEF s, r
  <1> QED
    BY <1>1, <1>2, <1>3, <1>4, <1>5 DEF Tidy

\* Where the traversal is when t is what lies behind it: the part of the alignment that
\* is not in t has been passed, and the count of tokens is in step.
Outdoors(t) ==
    LET done == Len(S!tokens) - Len(t.al.tokens)
    IN  /\ currentSubclass = 0 /\ currentPosInRoot = done - 1 /\ alignedTokensIndex = done
        /\ \A k \in 1..Len(t.classes) : prev_tk_classLabel # t.classes[k].classLabel

Indoors(t) ==
    LET done == Len(S!tokens) - Len(t.al.tokens)
        c == Len(t.classes)
        size == Len(S!classes[c].tokens)
        rest == Len(t.classes[c].tokens)
    IN  /\ currentSubclass = c /\ currentPosInRoot = done
        /\ \/ /\ currentPosInSubclass = -1 /\ size = rest /\ alignedTokensIndex = done
              /\ \A k \in 1..c : prev_tk_classLabel # t.classes[k].classLabel
           \/ /\ currentPosInSubclass \in Nat /\ alignedTokensIndex = done + 1
              /\ prev_tk_classLabel = t.classes[c].classLabel
              /\ \/ currentPosInSubclass + 1 = size - rest
                 \/ currentPosInSubclass = 0 /\ size = 0

\* One step of the traversal, for each arc that is not idle: the word outside of classes
\* gets its stitch.
LEMMA VisitOutside ==
    ASSUME NEW t \in Trace, NEW t2 \in Trace, NEW a \in Passed, IsWordArc(a), Reads(t, t2, a),
           ~t2.inClass, Facing(t2), Outdoors(t2), Tidy, S!Visit, alignment' = alignment
    PROVE  LET e == T!Token(a.ilabel, a.olabel)
           IN  ~t.inClass /\ S!Emit(e[1], e[2], 0) /\ Outdoors(t)'
  <1> DEFINE e == T!Token(a.ilabel, a.olabel)
             left == Len(t.al.tokens)
             left2 == Len(t2.al.tokens)
             all == Len(S!tokens)
  <1>1. /\ ~t.inClass /\ t2.classes = t.classes /\ t2.al.tokens = Append(t.al.tokens, e)
    BY DEF Reads, Gains
  <1>2. e \in Spoken /\ e[1] \notin AnyLabel
    BY TokenFacts, SpokenFacts
  <1>3. left \in Nat /\ left2 = left + 1 /\ t2.al.tokens[left2] = e
    <2>1. t.al.tokens \in Seq(Spoken \cup Labelling)
      BY TraceFacts
    <2> HIDE DEF e
    <2> QED
      BY <1>1, <2>1
  <1> HIDE DEF e
  <1>4. all \in Nat /\ left2 <= all /\ S!tokens[all - left2 + 1] = e
    BY <1>3 DEF Facing
  <1>5. currentPosInRoot = all - left2 - 1 /\ S!AtRoot /\ alignedTokensIndex = all - left2
    BY DEF Outdoors, S!AtRoot
  <1> HIDE DEF left, left2, all
  <1>6. S!NextInRoot = e
    <2>1. S!NextInRoot = S!tokens[currentPosInRoot + 2]
      BY DEF S!NextInRoot
    <2>2. currentPosInRoot + 2 = all - left2 + 1
      BY <1>3, <1>4, <1>5
    <2> QED
      BY <1>4, <2>1, <2>2
  <1>7. S!GlobalTriple
    BY <1>2, <1>5, <1>6 DEF S!Visit, S!EnterClass, S!ClassTriple, S!NoopTriple, S!LeaveClass, AnyLabel
  <1>8. /\ S!Emit(e[1], e[2], 0) /\ currentPosInRoot' = currentPosInRoot + 1
        /\ UNCHANGED <<currentPosInSubclass, currentSubclass>>
    BY <1>6, <1>7 DEF S!GlobalTriple, S!TK_GLOBAL_CLASS
  <1>9. alignedTokensIndex' = alignedTokensIndex + 1 /\ prev_tk_classLabel' = 0
    BY <1>8 DEF S!Emit, S!TK_GLOBAL_CLASS
  <1>10. \A k \in 1..Len(t.classes) : t.classes[k].classLabel # 0
    <2>1. \A k \in 1..Len(t2.classes) : /\ k \in DOMAIN S!classes
                                        /\ S!classes[k].classLabel = t2.classes[k].classLabel
      <3> TAKE k \in 1..Len(t2.classes)
      <3>1. Len(t2.classes) \in Nat /\ FacingClass(t2, k)
        BY TraceFacts DEF Facing
      <3>2. k \in DOMAIN S!classes
        BY <3>1 DEF Facing
      <3> QED
        BY <3>1, <3>2 DEF FacingClass
    <2> QED
      BY <1>1, <2>1, SpokenFacts DEF Tidy
  <1>11. Outdoors(t)'
    <2>1. S!tokens' = S!tokens
      BY DEF S!tokens
    <2>2. /\ currentSubclass' = 0 /\ currentPosInRoot' = all - left - 1
          /\ alignedTokensIndex' = all - left
      BY <1>3, <1>4, <1>5, <1>8, <1>9 DEF S!AtRoot
    <2> QED
      BY <1>9, <1>10, <2>1, <2>2 DEF Outdoors, all, left
  <1> QED
    BY <1>1, <1>8, <1>11 DEF e

\* A label leads into the class that it stands for.
LEMMA VisitEnter ==
    ASSUME NEW t \in Trace, NEW t2 \in Trace, NEW a \in Passed, Met(t, t2, a),
           ~t2.inClass, InOrder(t), Facing(t2), Outdoors(t2), Tidy, S!Visit, alignment' = alignment
    PROVE  t.inClass /\ Indoors(t)' /\ UNCHANGED <<stitches, hypRowIndex>>
  <1> DEFINE left == Len(t.al.tokens)
             all == Len(S!tokens)
             c == Len(t.classes)
             l == t.classes[c].classLabel
             n == Len(S!classes)
             found == {k \in DOMAIN S!classes : S!classes[k].classLabel = l}
  <1>1. t.inClass /\ t2.al = t.al /\ t2.classes = t.classes /\ c > 0
    BY DEF Met
  <1>2. left > 0 /\ t.al.tokens[left] = <<l, DelLabel>>
    BY <1>1 DEF InOrder, OpenLabel
  <1>3. c \in Nat /\ left \in Nat
    BY TraceFacts
  <1>4. /\ all \in Nat /\ left <= all /\ S!tokens[all - left + 1] = <<l, DelLabel>>
        /\ n \in Nat /\ DOMAIN S!classes = 1..n /\ c <= n
        /\ \A k \in 1..c : S!classes[k].classLabel = t.classes[k].classLabel
        /\ Len(S!classes[c].tokens) = Len(t.classes[c].tokens)
    <2>1. c \in 1..Len(t2.classes) /\ Shut(t2, c)
      BY <1>1, <1>3 DEF Shut
    <2> HIDE DEF l
    <2>2. \A k \in 1..c : FacingClass(t2, k)
      BY <1>1 DEF Facing
    <2>3. \A k \in 1..c : S!classes[k].classLabel = t.classes[k].classLabel
      BY <1>1, <2>2 DEF FacingClass
    <2>4. Len(S!classes[c].tokens) = Len(t.classes[c].tokens)
      <3>1. FacingClass(t2, c)
        BY <2>1 DEF Facing
      <3> QED
        BY <1>1, <2>1, <3>1 DEF FacingClass
    <2> QED
      BY <1>1, <1>2, <2>3, <2>4 DEF Facing
  <1>5. /\ currentPosInRoot = all - left - 1 /\ S!AtRoot /\ alignedTokensIndex = all - left
        /\ \A k \in 1..c : prev_tk_classLabel # t.classes[k].classLabel
    BY <1>1 DEF Outdoors, S!AtRoot
  <1>6. c \in 1..n /\ S!classes[c].classLabel = l /\ l \in AnyLabel
    <2>1. c \in 1..n /\ c \in 1..c
      BY <1>1, <1>3, <1>4
    <2> QED
      BY <1>4, <2>1 DEF Tidy
  <1>7. found = {c}
    BY <1>4, <1>6 DEF Tidy
  <1> HIDE DEF left, all, found, l
  <1>8. S!NextInRoot[1] = l
    <2>1. S!NextInRoot = S!tokens[currentPosInRoot + 2]
      BY DEF S!NextInRoot
    <2>2. currentPosInRoot + 2 = all - left + 1
      BY <1>3, <1>4, <1>5
    <2> QED
      BY <1>4, <2>1, <2>2
  <1>9. S!EnterClass
    <2>1. l \in EntityLabel \cup SynonymLabel
      BY <1>6 DEF AnyLabel
    <2> QED
      BY <1>5, <1>8, <2>1 DEF S!Visit, S!GlobalTriple, S!ClassTriple, S!NoopTriple, S!LeaveClass
  <1>10. /\ currentPosInRoot' = currentPosInRoot + 1 /\ currentPosInSubclass' = -1
         /\ UNCHANGED <<stitches, hypRowIndex, alignedTokensIndex, prev_tk_classLabel>>
         /\ currentSubclass' = c
    <2>1. found = {k \in DOMAIN S!classes : S!classes[k].classLabel = S!NextInRoot[1]}
      BY <1>8 DEF found
    <2>2. currentSubclass' = IF found = {} THEN 0 ELSE CHOOSE k \in found : \A j \in found : k <= j
      BY <1>9, <2>1 DEF S!EnterClass
    <2>3. (CHOOSE k \in found : \A j \in found : k <= j) = c
      BY <1>3, <1>7
    <2> QED
      BY <1>7, <1>9, <2>2, <2>3 DEF S!EnterClass, S!stitchVars
  <1>11. Indoors(t)'
    <2>1. S!tokens' = S!tokens /\ S!classes' = S!classes
      BY DEF S!tokens, S!classes
    <2>2. currentPosInRoot' = all - left /\ alignedTokensIndex' = all - left
      BY <1>3, <1>4, <1>5, <1>10
    <2> QED
      BY <1>4, <1>5, <1>10, <2>1, <2>2 DEF Indoors, all, left
  <1> QED
    BY <1>1, <1>10, <1>11

\* A word inside of a class gets its stitch.
LEMMA VisitInside ==
    ASSUME NEW t \in Trace, NEW t2 \in Trace, NEW a \in Passed, IsWordArc(a), Reads(t, t2, a),
           t2.inClass, Facing(t2), Indoors(t2), Tidy, S!Visit, alignment' = alignment
    PROVE  LET e == T!Token(a.ilabel, a.olabel)
           IN  /\ t.inClass /\ OpenLabel(t2) \in AnyLabel
               /\ S!Emit(e[1], e[2], OpenLabel(t2)) /\ Indoors(t)'
  <1> DEFINE e == T!Token(a.ilabel, a.olabel)
             left == Len(t.al.tokens)
             all == Len(S!tokens)
             c == Len(t.classes)
             rest == Len(t.classes[c].tokens)
             rest2 == Len(t2.classes[c].tokens)
             size == Len(S!classes[c].tokens)
             l == t2.classes[c].classLabel
  <1>1. /\ t.inClass /\ t2.al.tokens = t.al.tokens /\ c > 0 /\ Len(t2.classes) = c
        /\ t2.classes[c].classLabel = t.classes[c].classLabel
        /\ t2.classes[c].tokens = Append(t.classes[c].tokens, e)
    BY DEF Reads, Gains, Adds
  <1>2. c \in Nat /\ left \in Nat /\ c \in 1..c /\ t.classes[c].tokens \in Seq(Spoken)
    BY <1>1, TraceFacts
  <1>3. rest \in Nat /\ rest2 = rest + 1 /\ t2.classes[c].tokens[rest2] = e
    <2> HIDE DEF e
    <2> QED
      BY <1>1, <1>2
  <1>4. /\ S!classes[c].classLabel = l /\ size \in Nat /\ rest2 <= size
        /\ S!classes[c].tokens[size - rest2 + 1] = e /\ l \in AnyLabel /\ all \in Nat
    <2>1. FacingClass(t2, c) /\ c \in DOMAIN S!classes /\ all \in Nat
      BY <1>1, <1>2 DEF Facing
    <2>2. S!classes[c].classLabel \in AnyLabel
      BY <2>1 DEF Tidy
    <2> HIDE DEF e
    <2> QED
      BY <1>3, <2>1, <2>2 DEF FacingClass
  <1>5. /\ S!subclass = S!classes[c] /\ ~S!AtRoot /\ currentSubclass = c
        /\ currentPosInRoot = all - left
    BY <1>1, <1>2 DEF Indoors, S!subclass, S!AtRoot
  <1>6. currentPosInSubclass + 1 = size - rest2 /\ currentPosInSubclass \in Nat \cup {-1}
    <2>1. \/ currentPosInSubclass = -1 /\ size = rest2
          \/ /\ currentPosInSubclass \in Nat
             /\ \/ currentPosInSubclass + 1 = size - rest2
                \/ size = 0
      BY <1>1 DEF Indoors
    <2> HIDE DEF size, rest, rest2
    <2> QED
      BY <1>3, <1>4, <2>1
  <1> HIDE DEF e, left, all, rest, rest2, size, l
  <1>7. S!ClassTriple
    <2>1. size = Len(S!subclass.tokens)
      BY <1>5 DEF size
    <2>2. currentPosInSubclass + 1 < size
      BY <1>3, <1>4, <1>6
    <2>3. ~S!IsNoop
      <3>1. S!subclass.tokens = <<>> => size = 0
        BY <2>1
      <3> QED
        BY <1>3, <1>4, <3>1 DEF S!IsNoop
    <2> QED
      BY <1>4, <1>5, <1>6, <2>1, <2>2, <2>3 DEF S!Visit, S!GlobalTriple, S!EnterClass, S!NoopTriple, S!LeaveClass
  <1>8. /\ S!Emit(e[1], e[2], l) /\ currentPosInSubclass' = currentPosInSubclass + 1
        /\ UNCHANGED <<currentPosInRoot, currentSubclass>>
    <2>1. S!subclass.tokens[currentPosInSubclass + 2] = e
      <3>1. currentPosInSubclass + 2 = size - rest2 + 1
        BY <1>3, <1>4, <1>6
      <3> QED
        BY <1>4, <1>5, <3>1
    <2>2. S!subclass.classLabel = l
      BY <1>4, <1>5
    <2> QED
      BY <1>7, <2>1, <2>2 DEF S!ClassTriple
  <1>9. /\ prev_tk_classLabel' = l
        /\ alignedTokensIndex' = alignedTokensIndex + (IF l # prev_tk_classLabel THEN 1 ELSE 0)
    <2>1. l # S!TK_GLOBAL_CLASS
      BY <1>4, SpokenFacts DEF S!TK_GLOBAL_CLASS
    <2> QED
      BY <1>8, <2>1 DEF S!Emit
  <1>10. alignedTokensIndex' = all - left + 1
    <2>1. \/ alignedTokensIndex = all - left /\ prev_tk_classLabel # l
          \/ alignedTokensIndex = all - left + 1 /\ prev_tk_classLabel = l
      BY <1>1, <1>2 DEF Indoors, all, left, l
    <2> QED
      BY <1>2, <1>4, <1>9, <2>1
  <1>11. Indoors(t)'
    <2>1. S!tokens' = S!tokens /\ S!classes' = S!classes
      BY DEF S!tokens, S!classes
    <2>2. /\ currentSubclass' = c /\ currentPosInRoot' = all - left
          /\ currentPosInSubclass' \in Nat /\ currentPosInSubclass' + 1 = size - rest
      BY <1>3, <1>4, <1>5, <1>6, <1>8
    <2>3. l = t.classes[c].classLabel
      BY <1>1 DEF l
    <2> QED
      BY <1>9, <1>10, <2>1, <2>2, <2>3 DEF Indoors, all, left, size, rest
  <1>12. OpenLabel(t2) = l
    BY <1>1 DEF OpenLabel, l
  <1> QED
    BY <1>1, <1>4, <1>8, <1>11, <1>12 DEF e

\* The class is left, when it stands for nothing after a stitch that tells so.
LEMMA VisitLeave ==
    ASSUME NEW t \in Trace, NEW t2 \in Trace, NEW a \in Passed, Opened(t, t2, a), InOrder(t2),
           Facing(t2), Indoors(t2), Tidy, S!Visit, alignment' = alignment
    PROVE  /\ ~t.inClass
           /\ \/ OpenLabel(t2) \in AnyLabel /\ S!Emit(S!NOOP, S!NOOP, OpenLabel(t2)) /\ Indoors(t2)'
              \/ UNCHANGED <<stitches, hypRowIndex>> /\ Outdoors(t)'
  <1> DEFINE left == Len(t.al.tokens)
             left2 == Len(t2.al.tokens)
             all == Len(S!tokens)
             c == Len(t2.classes)
             size == Len(S!classes[c].tokens)
             l == t2.classes[c].classLabel
             new == T!Empty(a.ilabel)
  <1>1. /\ ~t.inClass /\ t2.inClass /\ t2.al.tokens = Append(t.al.tokens, <<a.ilabel, DelLabel>>)
        /\ t2.classes = Append(t.classes, new)
    BY DEF Opened
  <1>2. /\ left \in Nat /\ left2 = left + 1 /\ Len(t.classes) \in Nat /\ c = Len(t.classes) + 1
        /\ t2.classes[c] = new /\ \A k \in 1..Len(t.classes) : t2.classes[k] = t.classes[k]
    <2>1. t.al.tokens \in Seq(Spoken \cup Labelling) /\ t.classes \in Seq(Counts(Spoken))
      BY TraceFacts
    <2> HIDE DEF new
    <2> QED
      BY <1>1, <2>1
  <1>3. t2.classes[c].tokens = <<>> /\ Len(t2.classes[c].tokens) = 0
    BY <1>2 DEF T!Empty
  <1>4. /\ S!classes[c].classLabel = l /\ size \in Nat /\ l \in AnyLabel /\ all \in Nat
        /\ size = 0 => S!classes[c].tokens = <<>> /\ l \in FallbackLabel
        /\ S!classes[c].tokens = <<>> => size = 0
    <2>1. FacingClass(t2, c) /\ c \in DOMAIN S!classes /\ all \in Nat
      BY <1>2 DEF Facing
    <2>2. /\ S!classes[c].classLabel \in AnyLabel
          /\ S!classes[c].tokens = <<>> => S!classes[c].classLabel \in FallbackLabel
      BY <2>1 DEF Tidy
    <2> QED
      BY <2>1, <2>2 DEF FacingClass
  <1>5. /\ S!subclass = S!classes[c] /\ ~S!AtRoot /\ currentSubclass = c
        /\ currentPosInRoot = all - left2
    BY <1>2 DEF Indoors, S!subclass, S!AtRoot
  <1>6. OpenLabel(t2) = l
    BY <1>1 DEF OpenLabel
  <1> HIDE DEF new, left, left2, all, size, l
  <1>7. S!tokens' = S!tokens /\ S!classes' = S!classes
    BY DEF S!tokens, S!classes
  <1>8. \/ /\ currentPosInSubclass = -1 /\ size = 0 /\ alignedTokensIndex = all - left2
           /\ prev_tk_classLabel # l
        \/ /\ currentPosInSubclass \in Nat /\ alignedTokensIndex = all - left2 + 1
           /\ prev_tk_classLabel = l
           /\ currentPosInSubclass + 1 >= size
    <2>1. c \in 1..c
      BY <1>2
    <2>2. \/ /\ currentPosInSubclass = -1 /\ size = 0 /\ alignedTokensIndex = all - left2
             /\ \A k \in 1..c : prev_tk_classLabel # t2.classes[k].classLabel
          \/ /\ currentPosInSubclass \in Nat /\ alignedTokensIndex = all - left2 + 1
             /\ prev_tk_classLabel = l
             /\ \/ currentPosInSubclass + 1 = size - 0
                \/ /\ currentPosInSubclass = 0
                   /\ size = 0
      BY <1>3 DEF Indoors, all, left2, size, l
    <2> QED
      BY <1>4, <2>1, <2>2 DEF l
  <1>9. CASE currentPosInSubclass = -1
    <2>1. S!IsNoop
      BY <1>4, <1>5, <1>8, <1>9 DEF S!IsNoop
    <2>2. S!NoopTriple
      <3>1. ~(currentPosInSubclass + 1 < Len(S!subclass.tokens))
        BY <1>5, <1>8, <1>9 DEF size
      <3> QED
        BY <1>5, <2>1, <3>1 DEF S!Visit, S!GlobalTriple, S!EnterClass, S!ClassTriple, S!LeaveClass
    <2>3. /\ S!Emit(S!NOOP, S!NOOP, l) /\ currentPosInSubclass' = 0
          /\ UNCHANGED <<currentPosInRoot, currentSubclass>>
      BY <1>4, <1>5, <1>9, <2>2 DEF S!NoopTriple
    <2>4. alignedTokensIndex' = all - left2 + 1 /\ prev_tk_classLabel' = l
      <3>1. /\ prev_tk_classLabel' = l
            /\ alignedTokensIndex' = alignedTokensIndex
                 + (IF l = S!TK_GLOBAL_CLASS \/ l # prev_tk_classLabel THEN 1 ELSE 0)
        BY <2>3 DEF S!Emit
      <3> QED
        BY <1>8, <1>9, <3>1
    <2>5. Indoors(t2)'
      BY <1>5, <1>7, <1>8, <1>9, <2>3, <2>4 DEF Indoors, all, left2, size, l
    <2> QED
      BY <1>1, <1>4, <1>6, <2>3, <2>5
  <1>10. CASE currentPosInSubclass \in Nat
    <2>1. S!LeaveClass
      <3>1. ~S!IsNoop
        BY <1>10 DEF S!IsNoop
      <3>2. ~(currentPosInSubclass + 1 < Len(S!subclass.tokens))
        BY <1>4, <1>5, <1>8, <1>10 DEF size
      <3> QED
        BY <1>5, <3>1, <3>2 DEF S!Visit, S!GlobalTriple, S!EnterClass, S!ClassTriple, S!NoopTriple
    <2>2. /\ currentSubclass' = 0 /\ currentPosInRoot' = currentPosInRoot
          /\ UNCHANGED <<stitches, hypRowIndex, alignedTokensIndex, prev_tk_classLabel>>
      BY <2>1 DEF S!LeaveClass, S!stitchVars
    <2>3. currentPosInRoot' = all - left - 1 /\ alignedTokensIndex' = all - left
      BY <1>2, <1>4, <1>5, <1>8, <1>10, <2>2
    <2>4. \A k \in 1..Len(t.classes) : prev_tk_classLabel # t.classes[k].classLabel
      <3> TAKE k \in 1..Len(t.classes)
      <3>1. k \in 1..(c - 1) /\ c \in 1..c /\ t2.classes[k] = t.classes[k]
        BY <1>2
      <3>2. t2.classes[k].classLabel # l
        BY <3>1 DEF InOrder, l
      <3> QED
        BY <1>8, <1>10, <3>1, <3>2
    <2>5. Outdoors(t)'
      BY <1>7, <2>2, <2>3, <2>4 DEF Outdoors, all, left
    <2> QED
      BY <1>1, <2>2, <2>5
  <1> QED
    BY <1>8, <1>9, <1>10

\* The traversal stands in front of arc i + 1 of the chain.
Visiting(u, f, x, i) ==
    /\ i \in 0..Len(chain)
    /\ stitches \in Seq(Made({S!NoRow})) /\ Heard(stitches) = f[i] /\ hypRowIndex = x[i]
    /\ IF u[i].inClass THEN Indoors(u[i]) ELSE Outdoors(u[i])

LEMMA StoryFacts ==
    ASSUME NEW u, NEW f, NEW x, Story(u, f, x)
    PROVE  /\ Tidy
           /\ \A i \in 0..Len(chain) : Facing(u[i]) /\ u[i] \in Trace /\ InOrder(u[i])
  <1>1. /\ u \in [0..Len(chain) -> Trace] /\ Len(chain) \in Nat /\ ~u[0].inClass
        /\ alignment = Details(u[0]) /\ \A i \in 0..Len(chain) : InOrder(u[i])
    BY DEF Story
  <1>2. 0 \in 0..Len(chain) /\ u[0] \in Trace
    BY <1>1
  <1>3. Tidy
    BY <1>1, <1>2, TidyFacts
  <1>4. \A i \in 0..Len(chain) : Facing(u[i])
    <2> TAKE i \in 0..Len(chain)
    <2>1. u[i] \in Trace /\ Extends(u[i], u[0])
      BY <1>1, StoryExtends
    <2> QED
      BY <1>1, <1>2, <2>1, FacingFacts
  <1> QED
    BY <1>1, <1>3, <1>4

\* Arcs that are idle are passed over.
LEMMA SkipsIdle ==
    ASSUME NEW u, NEW f, NEW x, Story(u, f, x), NEW i, Visiting(u, f, x, i)
    PROVE  \E j : /\ Visiting(u, f, x, j)
                  /\ \/ j = Len(chain)
                     \/ /\ j < Len(chain)
                        /\ ~Idling(u[j + 1], u[j], f[j], f[j + 1], x[j], x[j + 1], chain[j + 1])
  <1> DEFINE n == Len(chain)
             K == {k \in 0..n : Visiting(u, f, x, n - k)}
  <1>1. n \in Nat
    BY DEF Story
  <1>2. n - i \in K /\ K \subseteq Nat
    <2>1. i \in 0..n
      BY DEF Visiting
    <2>2. n - i \in 0..n /\ n - (n - i) = i
      BY <1>1, <2>1
    <2> QED
      BY <1>1, <2>2
  <1> HIDE DEF K
  <1>3. PICK m \in K : \A k \in K : m <= k
    <2>1. K \in SUBSET Nat /\ K # {}
      BY <1>2
    <2> QED
      BY <2>1, LeastNat
  <1> DEFINE j == n - m
  <1>4. m \in 0..n /\ Visiting(u, f, x, j)
    BY <1>3 DEF K
  <1>5. CASE m = 0
    <2>1. j = n
      BY <1>1, <1>5
    <2> QED
      BY <1>4, <2>1
  <1>6. CASE m # 0
    <2>1. j \in 0..n /\ j < n /\ m - 1 \in 0..n /\ n - (m - 1) = j + 1 /\ ~(m <= m - 1) /\ j + 1 \in 0..n
      BY <1>1, <1>4, <1>6
    <2>2. ~Visiting(u, f, x, j + 1)
      BY <1>3, <2>1 DEF K
    <2> HIDE DEF j
    <2>3. ASSUME Idling(u[j + 1], u[j], f[j], f[j + 1], x[j], x[j + 1], chain[j + 1])
          PROVE  FALSE
      <3>1. u[j] = u[j + 1] /\ f[j + 1] = f[j] /\ x[j + 1] = x[j]
        BY <2>3 DEF Idling
      <3> QED
        BY <1>4, <2>1, <2>2, <3>1 DEF Visiting
    <2> QED
      BY <1>4, <2>1, <2>3 DEF j
  <1> QED
    BY <1>5, <1>6

LEMMA VisitArc ==
    ASSUME NEW u, NEW f, NEW x, Story(u, f, x), NEW i, Visiting(u, f, x, i), i < Len(chain),
           ~Idling(u[i + 1], u[i], f[i], f[i + 1], x[i], x[i + 1], chain[i + 1]),
           S!Visit, alignment' = alignment, chain' = chain
    PROVE  Visiting(u, f, x, i)' \/ Visiting(u, f, x, i + 1)'
  <1> DEFINE n == Len(chain)
             t == u[i + 1]
             t2 == u[i]
             a == chain[i + 1]
             w == f[i]
             w2 == f[i + 1]
             y == x[i]
             y2 == x[i + 1]
  <1>1. /\ i \in 0..n /\ i + 1 \in 1..n /\ i + 1 \in 0..n /\ (i + 1) - 1 = i /\ n \in Nat
    BY DEF Visiting, Story
  <1>2. /\ t \in Trace /\ t2 \in Trace /\ a \in Passed /\ Tells(t, t2, w, w2, y, y2, a)
        /\ y \in 0..Len(input.hyp) /\ input.hyp \in Seq(Word) /\ Len(input.hyp) \in Nat
    <2>1. /\ u \in [0..n -> Trace] /\ chain \in Seq(Passed) /\ x \in [0..n -> 0..Len(input.hyp)]
          /\ input.hyp \in Seq(Word)
          /\ \A k \in 1..n : Tells(u[k], u[k - 1], f[k - 1], f[k], x[k - 1], x[k], chain[k])
      BY DEF Story
    <2>2. Len(input.hyp) \in Nat /\ a \in Passed
      BY <1>1, <2>1
    <2>3. Tells(t, u[(i + 1) - 1], f[(i + 1) - 1], w2, x[(i + 1) - 1], y2, a)
      BY <1>1, <2>1
    <2> HIDE DEF a
    <2> QED
      BY <1>1, <2>1, <2>2, <2>3
  <1>3. Facing(t2) /\ InOrder(t) /\ InOrder(t2) /\ Tidy
    BY <1>1, StoryFacts
  <1>4. /\ stitches \in Seq(Made({S!NoRow})) /\ Heard(stitches) = w /\ hypRowIndex = y
        /\ IF t2.inClass THEN Indoors(t2) ELSE Outdoors(t2)
        /\ ~Idling(t, t2, w, w2, y, y2, a) /\ hypRowIndex \in Nat
    BY <1>2 DEF Visiting
  <1> DEFINE at1 == /\ stitches' \in Seq(Made({S!NoRow})) /\ Heard(stitches') = w2 /\ hypRowIndex' = y2
                    /\ IF t.inClass THEN Indoors(t)' ELSE Outdoors(t)'
             at0 == /\ stitches' \in Seq(Made({S!NoRow})) /\ Heard(stitches') = w /\ hypRowIndex' = y
                    /\ IF t2.inClass THEN Indoors(t2)' ELSE Outdoors(t2)'
  <1>5. at1 => Visiting(u, f, x, i + 1)'
    BY <1>1 DEF Visiting
  <1>6. at0 => Visiting(u, f, x, i)'
    BY <1>1 DEF Visiting
  <1> SUFFICES at0 \/ at1
    BY <1>5, <1>6
  <1> HIDE DEF t, t2, a, w, w2, y, y2
  <1>7. CASE Adding(t, t2, w, w2, y, y2, a)
    <2> DEFINE e == T!Token(a.ilabel, a.olabel)
               l == OpenLabel(t2)
    <2>1. /\ IsWordArc(a) /\ Reads(t, t2, a) /\ w2 = Append(w, <<l, e>>)
          /\ a.olabel = 0 => y2 = y
          /\ a.olabel # 0 => y < Len(input.hyp) /\ input.hyp[y + 1] = a.olabel /\ y2 = y + 1
      BY <1>7 DEF Adding
    <2>2. /\ S!Emit(e[1], e[2], l) /\ l \in AnyLabel \cup {0}
          /\ IF t.inClass THEN Indoors(t)' ELSE Outdoors(t)'
      <3>1. CASE t2.inClass
        BY <1>2, <1>3, <1>4, <2>1, <3>1, VisitInside
      <3>2. CASE ~t2.inClass
        <4>1. l = 0
          BY <3>2 DEF OpenLabel
        <4> QED
          BY <1>2, <1>3, <1>4, <2>1, <3>2, <4>1, VisitOutside
      <3> QED
        BY <3>1, <3>2
    <2> HIDE DEF e, l
    <2>3. /\ stitches' \in Seq(Made({S!NoRow})) /\ Heard(stitches') = Append(Heard(stitches), <<l, e>>)
          /\ hypRowIndex' = hypRowIndex + (IF a.olabel = 0 THEN 0 ELSE 1)
      <3>1. e = T!Token(a.ilabel, a.olabel)
        BY DEF e
      <3> QED
        BY <1>2, <1>4, <2>1, <2>2, <3>1, EmitWord
    <2>4. hypRowIndex' = y2
      BY <1>2, <1>4, <2>1, <2>3
    <2> QED
      BY <1>4, <2>1, <2>2, <2>3, <2>4
  <1>8. CASE EnteringClass(t, t2, w, w2, y, y2, a)
    <2>1. Met(t, t2, a) /\ ~t2.inClass /\ w2 = w /\ y2 = y
      BY <1>8 DEF EnteringClass
    <2>2. t.inClass /\ Indoors(t)' /\ UNCHANGED <<stitches, hypRowIndex>>
      BY <1>2, <1>3, <1>4, <2>1, VisitEnter
    <2> QED
      BY <1>4, <2>1, <2>2
  <1>9. CASE LeavingClass(t, t2, w, w2, y, y2, a)
    <2>1. Opened(t, t2, a) /\ w2 = w /\ y2 = y /\ t2.inClass
      BY <1>9 DEF LeavingClass, Opened
    <2>2. /\ ~t.inClass
          /\ \/ OpenLabel(t2) \in AnyLabel /\ S!Emit(S!NOOP, S!NOOP, OpenLabel(t2)) /\ Indoors(t2)'
             \/ UNCHANGED <<stitches, hypRowIndex>> /\ Outdoors(t)'
      BY <1>2, <1>3, <1>4, <2>1, VisitLeave
    <2>3. CASE OpenLabel(t2) \in AnyLabel /\ S!Emit(S!NOOP, S!NOOP, OpenLabel(t2)) /\ Indoors(t2)'
      <3>1. /\ stitches' \in Seq(Made({S!NoRow})) /\ Heard(stitches') = Heard(stitches)
            /\ hypRowIndex' = hypRowIndex
        BY <1>4, <2>3, EmitNoop
      <3> QED
        BY <1>4, <2>1, <2>3, <3>1
    <2>4. CASE UNCHANGED <<stitches, hypRowIndex>> /\ Outdoors(t)'
      BY <1>4, <2>1, <2>2, <2>4
    <2> QED
      BY <2>2, <2>3, <2>4
  <1> QED
    BY <1>2, <1>4, <1>7, <1>8, <1>9 DEF Tells

IsTold == \E m, lay, p, q : Told(m, lay, p, q)
Visits == \E u, f, x, i : Story(u, f, x) /\ Visiting(u, f, x, i)

LEMMA StartsVisit == IsTold /\ S!VisitInit => Visits
  <1> SUFFICES ASSUME NEW m, NEW lay, NEW p, NEW q, Told(m, lay, p, q), S!VisitInit
               PROVE  Visits
    BY DEF IsTold
  <1>1. PICK u, f, x : Story(u, f, x)
    BY StoryOf
  <1> DEFINE n == Len(chain)
             t == u[0]
  <1>2. /\ n \in Nat /\ ~t.inClass /\ f[0] = <<>> /\ x[0] = 0 /\ alignment = Details(t)
        /\ u \in [0..n -> Trace] /\ 0 \in 0..n /\ t \in Trace /\ InOrder(t)
    <2>1. n \in Nat /\ u \in [0..n -> Trace] /\ \A i \in 0..n : InOrder(u[i])
      BY <1>1 DEF Story
    <2>2. 0 \in 0..n
      BY <2>1
    <2> QED
      BY <1>1, <2>1, <2>2 DEF Story
  <1>3. Heard(stitches) = <<>> /\ stitches \in Seq(Made({S!NoRow}))
    <2>1. stitches = <<>>
      BY DEF S!VisitInit
    <2> DEFINE e == [k \in DOMAIN stitches |-> SaidBy(stitches[k])]
               keep == {k \in DOMAIN stitches : ~IsNoop(stitches[k])}
    <2>2. DOMAIN stitches = {}
      BY <2>1
    <2>3. e = <<>> /\ keep = {}
      BY <2>2
    <2>4. <<>> \in Seq(Said) /\ keep \cap (1..Len(<<>>)) = {}
      BY <2>3
    <2>5. Heard(stitches) = Those(e, keep)
      BY DEF Heard
    <2> HIDE DEF e, keep
    <2>6. Those(<<>>, keep) = <<>>
      BY <2>4, ThoseNone
    <2> QED
      BY <2>1, <2>3, <2>5, <2>6
  <1>4. Outdoors(t)
    <2>1. Turned(S!tokens, t.al.tokens)
      BY <1>2, DetailsFacts DEF S!tokens
    <2>2. Len(S!tokens) = Len(t.al.tokens) /\ Len(t.al.tokens) \in Nat
      BY <1>2, <2>1, TraceFacts DEF Turned
    <2>3. \A k \in 1..Len(t.classes) : t.classes[k].classLabel # 0
      BY <1>2, SpokenFacts DEF InOrder
    <2> HIDE DEF t
    <2> QED
      BY <2>2, <2>3 DEF Outdoors, S!VisitInit, S!NoWord
  <1>5. Visiting(u, f, x, 0)
    BY <1>2, <1>3, <1>4 DEF Visiting, S!VisitInit
  <1> QED
    BY <1>1, <1>5 DEF Visits

\* All that has been told when the traversal is at its end.
Finished ==
    /\ \E rows : stitches \in Seq(Made(rows))
    /\ Heard(stitches) = WordsRead(chain) /\ hypRowIndex = Len(input.hyp)
    /\ alignedTokensIndex = Len(al.tokens)

LEMMA EndsVisit ==
    ASSUME NEW u, NEW f, NEW x, Story(u, f, x), NEW i, Visiting(u, f, x, i), S!Visited
    PROVE  Finished
  <1> DEFINE n == Len(chain)
  <1>1. PICK j : /\ Visiting(u, f, x, j)
                 /\ \/ j = n
                    \/ /\ j < n
                       /\ ~Idling(u[j + 1], u[j], f[j], f[j + 1], x[j], x[j + 1], chain[j + 1])
    BY SkipsIdle
  <1>2. /\ n \in Nat /\ j \in 0..n /\ u[j] \in Trace /\ Facing(u[j])
        /\ IF u[j].inClass THEN Indoors(u[j]) ELSE Outdoors(u[j])
    <2>1. n \in Nat
      BY DEF Story
    <2>2. j \in 0..n
      BY <1>1 DEF Visiting
    <2> QED
      BY <1>1, <2>1, <2>2, StoryFacts DEF Visiting
  <1> DEFINE t2 == u[j]
  <1>3. ~t2.inClass /\ Len(t2.al.tokens) = 0 /\ Outdoors(t2)
    <2> HIDE DEF t2
    <2>1. t2 \in Trace /\ Facing(t2) /\ IF t2.inClass THEN Indoors(t2) ELSE Outdoors(t2)
      BY <1>2 DEF t2
    <2>2. ~t2.inClass
      <3>1. t2.inClass => Len(t2.classes) > 0
        BY <2>1, TraceFacts
      <3>2. t2.inClass => currentSubclass = Len(t2.classes)
        BY <2>1 DEF Indoors
      <3>3. currentSubclass = 0 /\ ~(0 > 0)
        BY DEF S!Visited, S!AtRoot
      <3> QED
        BY <3>1, <3>2, <3>3
    <2>3. Len(t2.al.tokens) \in Nat /\ Len(S!tokens) \in Nat
      BY <2>1, TraceFacts DEF Facing
    <2>4. Len(t2.al.tokens) = 0
      BY <2>1, <2>2, <2>3 DEF Outdoors, S!Visited, S!RootHasNext
    <2> QED
      BY <2>1, <2>2, <2>4
  <1>4. j = n
    <2> SUFFICES ASSUME j < n PROVE FALSE
      BY <1>1, <1>2
    <2> DEFINE t == u[j + 1]
    <2>1. j + 1 \in 1..n /\ (j + 1) - 1 = j /\ j + 1 \in 0..n
      BY <1>2
    <2>2. Tells(t, u[(j + 1) - 1], f[(j + 1) - 1], f[j + 1], x[(j + 1) - 1], x[j + 1], chain[j + 1])
      BY <2>1 DEF Story
    <2>3. Tells(t, t2, f[j], f[j + 1], x[j], x[j + 1], chain[j + 1])
      BY <2>1, <2>2
    <2>4. t \in Trace /\ InOrder(t)
      BY <2>1, StoryFacts
    <2>5. ~Idling(t, t2, f[j], f[j + 1], x[j], x[j + 1], chain[j + 1])
      BY <1>1, <1>2
    <2> HIDE DEF t, t2
    <2>6. ~Reads(t, t2, chain[j + 1])
      <3> SUFFICES ASSUME Reads(t, t2, chain[j + 1]) PROVE FALSE
        OBVIOUS
      <3> DEFINE e == T!Token(chain[j + 1].ilabel, chain[j + 1].olabel)
      <3>1. t2.al.tokens = Append(t.al.tokens, e)
        BY <1>3 DEF Reads, Gains
      <3> HIDE DEF e
      <3>2. t.al.tokens \in Seq(Spoken \cup Labelling)
        BY <2>4, TraceFacts
      <3>3. Len(t2.al.tokens) = Len(t.al.tokens) + 1 /\ Len(t.al.tokens) \in Nat
        BY <3>1, <3>2
      <3> QED
        BY <1>3, <3>3
    <2>7. ~(Met(t, t2, chain[j + 1]) /\ ~t2.inClass)
      BY <1>3, <2>4 DEF Met, InOrder
    <2>8. ~Opened(t, t2, chain[j + 1])
      BY <1>3 DEF Opened
    <2> QED
      BY <2>3, <2>5, <2>6, <2>7, <2>8 DEF Tells, Adding, EnteringClass, LeavingClass
  <1>5. f[n] = WordsRead(chain) /\ x[n] = Len(input.hyp)
    BY DEF Story
  <1>6. alignedTokensIndex = Len(al.tokens)
    <2>1. alignedTokensIndex = Len(S!tokens) - 0 /\ Len(S!tokens) \in Nat
      BY <1>2, <1>3 DEF Outdoors, Facing
    <2> QED
      BY <2>1 DEF S!tokens, al
  <1>7. \E rows : stitches \in Seq(Made(rows))
    BY <1>1 DEF Visiting
  <1> QED
    BY <1>1, <1>4, <1>5, <1>6, <1>7 DEF Finished, Visiting

LEMMA SeqFacts ==
    /\ \A elems, s : s \in Seq(elems) => /\ Len(s) \in Nat /\ DOMAIN s = 1..Len(s)
                                         /\ \A k \in 1..Len(s) : s[k] \in elems
    /\ \A elems : \A m \in Nat : \A s \in [1..m -> elems] :
          s \in Seq(elems) /\ Len(s) = m /\ DOMAIN s = 1..m
  OBVIOUS

\* The rows of the reference are given to stitches that stay what they are.
LEMMA AttachKeeps ==
    ASSUME NEW old, stitches \in Seq(Made(old)), NEW rows,
           NEW comment \in {"", "direct", "push_last", "split_worst"}, N!Attach(rows, comment)
    PROVE  (\E new : stitches' \in Seq(Made(new))) /\ Heard(stitches') = Heard(stitches)
  <1> DEFINE m == Len(stitches)
             new == old \cup {rows[j] : j \in DOMAIN rows}
             e(k) == IF k - aligned \in DOMAIN rows
                     THEN [stitches[k] EXCEPT !.nlpRow = rows[k - aligned], !.how = comment]
                     ELSE stitches[k]
             after == [k \in 1..m |-> e(k)]
  <1>1. /\ m \in Nat /\ DOMAIN stitches = 1..m /\ \A k \in 1..m : stitches[k] \in Made(old)
    BY SeqFacts
  <1>2. stitches' = after
    BY <1>1 DEF N!Attach
  <1>3. ASSUME NEW s \in Made(old), NEW row \in new, NEW s2,
               s2 = [s EXCEPT !.nlpRow = row, !.how = comment]
        PROVE  s2 \in Made(new) /\ SaidBy(s2) = SaidBy(s) /\ (IsNoop(s2) <=> IsNoop(s))
    <2>1. s \in [classLabel : AnyLabel \cup {0}, reftk : Int, hyptk : Int, comment : Comments,
                 how : {"", "direct", "push_last", "split_worst"}, hyp_orig : Int, nlpRow : old]
      BY DEF Made
    <2> HIDE DEF new
    <2>2. /\ s2 \in [classLabel : AnyLabel \cup {0}, reftk : Int, hyptk : Int, comment : Comments,
                     how : {"", "direct", "push_last", "split_worst"}, hyp_orig : Int, nlpRow : new]
          /\ s2.classLabel = s.classLabel /\ s2.reftk = s.reftk /\ s2.hyptk = s.hyptk
          /\ s2.comment = s.comment /\ s2.hyp_orig = s.hyp_orig
      BY <1>3, <2>1
    <2>3. s2 \in Made(new)
      BY <2>2 DEF Made
    <2>4. SaidBy(s2) = SaidBy(s) /\ (IsNoop(s2) <=> IsNoop(s))
      BY <2>2 DEF SaidBy, IsNoop
    <2> QED
      BY <2>3, <2>4
  <1>4. Made(old) \subseteq Made(new)
    BY DEF Made
  <1>5. ASSUME NEW k \in 1..m
        PROVE  e(k) \in Made(new) /\ SaidBy(e(k)) = SaidBy(stitches[k])
               /\ (IsNoop(e(k)) <=> IsNoop(stitches[k]))
    <2>1. CASE k - aligned \in DOMAIN rows
      <3>1. rows[k - aligned] \in new
        BY <2>1
      <3>2. e(k) = [stitches[k] EXCEPT !.nlpRow = rows[k - aligned], !.how = comment]
        BY <2>1
      <3>3. stitches[k] \in Made(old)
        BY <1>1
      <3> HIDE DEF e, new, m
      <3> QED
        BY <1>3, <3>1, <3>2, <3>3
    <2>2. CASE k - aligned \notin DOMAIN rows
      BY <1>1, <1>4, <2>2
    <2> QED
      BY <2>1, <2>2
  <1> HIDE DEF e, m, new
  <1>6. after \in Seq(Made(new)) /\ DOMAIN after = 1..m
    <2> DEFINE elems == Made(new)
    <2>1. \A k \in 1..m : e(k) \in elems
      BY <1>5
    <2> HIDE DEF elems
    <2>2. after \in Seq(elems) /\ DOMAIN after = 1..m
      <3>1. after \in [1..m -> elems]
        BY <2>1
      <3> HIDE DEF after
      <3> QED
        BY <1>1, <3>1, SeqFacts
    <2> QED
      BY <2>2 DEF elems
  <1>7. Heard(after) = Heard(stitches)
    <2>1. [k \in DOMAIN after |-> SaidBy(after[k])] = [k \in DOMAIN stitches |-> SaidBy(stitches[k])]
      BY <1>1, <1>5
    <2>2. {k \in DOMAIN after : ~IsNoop(after[k])} = {k \in DOMAIN stitches : ~IsNoop(stitches[k])}
      BY <1>1, <1>5
    <2> QED
      BY <2>1, <2>2 DEF Heard
  <1> QED
    BY <1>2, <1>6, <1>7

VisitInv ==
    /\ phase \in {"load", "walk"} => S!VisitInit
    /\ phase = "stitch" => Visits
    /\ phase \in {"rows", "done"} => Finished

LEMMA StoryKeeps ==
    ASSUME NEW u, NEW f, NEW x, Story(u, f, x), UNCHANGED <<input, chain, alignment>>
    PROVE  Story(u, f, x)'
  <1>1. ASSUME NEW i \in 1..Len(chain)
        PROVE  Tells(u[i], u[i - 1], f[i - 1], f[i], x[i - 1], x[i], chain[i])'
    <2> DEFINE t == u[i]
               t2 == u[i - 1]
               v == f[i - 1]
               v2 == f[i]
               y == x[i - 1]
               y2 == x[i]
    <2>1. Tells(t, t2, v, v2, y, y2, chain[i])
      BY DEF Story
    <2> HIDE DEF t, t2, v, v2, y, y2
    <2>2. Tells(t, t2, v, v2, y, y2, chain[i])'
      BY <2>1 DEF Tells, Adding, EnteringClass, LeavingClass, Idling
    <2> QED
      BY <2>2 DEF t, t2, v, v2, y, y2
  <1> QED
    BY <1>1 DEF Story

LEMMA VisitKeeps ==
    ASSUME phase = "stitch", Visits, S!Visit, phase' = phase,
           input' = input, chain' = chain, alignment' = alignment
    PROVE  Visits'
  <1>1. PICK u, f, x, j : Story(u, f, x) /\ Visiting(u, f, x, j)
    BY DEF Visits
  <1>2. PICK i : /\ Visiting(u, f, x, i)
                 /\ \/ i = Len(chain)
                    \/ /\ i < Len(chain)
                       /\ ~Idling(u[i + 1], u[i], f[i], f[i + 1], x[i], x[i + 1], chain[i + 1])
    BY <1>1, SkipsIdle
  <1>3. i # Len(chain)
    <2> SUFFICES ASSUME i = Len(chain) PROVE FALSE
      OBVIOUS
    <2> DEFINE n == Len(chain)
    <2>1. u[n] = T!Unread /\ n \in Nat /\ n \in 0..n
      <3>1. n \in Nat /\ u[n] = T!Unread
        BY <1>1 DEF Story
      <3> QED
        BY <3>1
    <2>2. ~u[n].inClass /\ Len(u[n].al.tokens) = 0
      BY <2>1 DEF T!Unread, T!Empty
    <2>3. Outdoors(u[n])
      BY <1>2, <2>2 DEF Visiting
    <2>4. currentSubclass = 0 /\ currentPosInRoot = Len(S!tokens) - 0 - 1 /\ Len(S!tokens) \in Nat
      <3>1. Facing(u[n])
        BY <1>1, <2>1, StoryFacts
      <3> QED
        BY <2>2, <2>3, <3>1 DEF Outdoors, Facing
    <2>5. S!AtRoot /\ ~S!RootHasNext
      BY <2>4 DEF S!AtRoot, S!RootHasNext
    <2> QED
      BY <2>5 DEF S!Visit, S!GlobalTriple, S!EnterClass, S!ClassTriple, S!NoopTriple, S!LeaveClass
  <1>4. Visiting(u, f, x, i)' \/ Visiting(u, f, x, i + 1)'
    BY <1>1, <1>2, <1>3, VisitArc
  <1>5. Story(u, f, x)'
    BY <1>1, StoryKeeps
  <1> QED
    BY <1>4, <1>5 DEF Visits

LEMMA VisitsEnd ==
    ASSUME Visits, S!Visited
    PROVE  Finished
  BY EndsVisit DEF Visits

LEMMA FinishedKeeps ==
    ASSUME Finished, UNCHANGED <<input, chain, alignment, hypRowIndex, alignedTokensIndex>>,
           \/ UNCHANGED stitches
           \/ \E rows : \E comment \in {"", "direct", "push_last", "split_worst"} :
                 N!Attach(rows, comment)
    PROVE  Finished'
  <1>1. PICK old : stitches \in Seq(Made(old))
    BY DEF Finished
  <1>2. (\E new : stitches' \in Seq(Made(new))) /\ Heard(stitches') = Heard(stitches)
    BY <1>1, AttachKeeps
  <1>3. al' = al
    BY DEF al
  <1> QED
    BY <1>2, <1>3 DEF Finished

\* While the alignment is traversed, the stitches tell what has been read of the chain.
LEMMA StitchesTold == Spec => []VisitInv
  <1>1. Init => VisitInv
    BY DEF Init, VisitInv, S!VisitInit
  <1>2. VisitInv /\ ChainInv /\ ChainInv' /\ [Next]_vars => VisitInv'
    <2> SUFFICES ASSUME VisitInv, ChainInv, ChainInv', [Next]_vars PROVE VisitInv'
      OBVIOUS
    <2>1. ASSUME UNCHANGED <<alignment, stitches, visitorVars, makeVars>>
          PROVE  UNCHANGED <<alignment, currentPosInRoot, currentPosInSubclass, currentSubclass,
                             stitches, hypRowIndex, alignedTokensIndex, prev_tk_classLabel>>
      BY <2>1 DEF visitorVars, makeVars
    <2>2. CASE UNCHANGED vars
      <3>1. /\ UNCHANGED <<phase, input, chain, alignment>>
            /\ UNCHANGED <<alignment, stitches, visitorVars, makeVars>>
        BY <2>2 DEF vars, compVars
      <3>2. Finished => Finished'
        BY <2>1, <3>1, FinishedKeeps
      <3>3. S!VisitInit => S!VisitInit'
        BY <2>1, <3>1 DEF S!VisitInit
      <3>4. Visits => Visits'
        <4> SUFFICES ASSUME Visits PROVE Visits'
          OBVIOUS
        <4>1. PICK u, f, x, i : Story(u, f, x) /\ Visiting(u, f, x, i)
          BY DEF Visits
        <4>2. Story(u, f, x)'
          BY <3>1, <4>1, StoryKeeps
        <4>3. Visiting(u, f, x, i)'
          BY <2>1, <3>1, <4>1 DEF Visiting, Indoors, Outdoors, S!tokens, S!classes
        <4> QED
          BY <4>2, <4>3 DEF Visits
      <3> QED
        BY <3>1, <3>2, <3>3, <3>4 DEF VisitInv
    <2>3. CASE Load \/ Walk
      <3>1. /\ phase \in {"load", "walk"} /\ phase' = "walk"
            /\ UNCHANGED <<alignment, stitches, visitorVars, makeVars>>
        BY <2>3 DEF Load, Walk
      <3>2. S!VisitInit'
        BY <2>1, <3>1 DEF S!VisitInit, VisitInv
      <3> QED
        BY <3>1, <3>2 DEF VisitInv
    <2>4. CASE ReadBack
      <3>1. /\ phase = "walk" /\ phase' = "stitch" /\ UNCHANGED <<stitches, visitorVars, makeVars>>
        BY <2>4 DEF ReadBack
      <3>2. S!VisitInit'
        BY <3>1 DEF S!VisitInit, VisitInv, visitorVars, makeVars
      <3>3. IsTold'
        BY <3>1 DEF ChainInv, IsTold
      <3>4. IsTold' /\ S!VisitInit' => Visits'
        BY StartsVisit, PTL
      <3> QED
        BY <3>1, <3>2, <3>3, <3>4 DEF VisitInv
    <2>5. CASE MakeStitches
      <3>1. phase = "stitch" /\ Visits /\ UNCHANGED <<input, chain, alignment>>
        BY <2>5 DEF MakeStitches, compVars, VisitInv
      <3>2. CASE S!Visit /\ UNCHANGED phase
        <4>1. Visits'
          BY <3>1, <3>2, VisitKeeps
        <4> QED
          BY <3>1, <3>2, <4>1 DEF VisitInv
      <3>3. CASE /\ S!Visited
                 /\ phase' = "rows"
                 /\ UNCHANGED <<visitorVars, makeVars, stitches>>
        <4>1. Finished
          BY <3>1, <3>3, VisitsEnd
        <4>2. Finished'
          BY <2>1, <3>1, <3>3, <4>1, FinishedKeeps
        <4> QED
          BY <3>3, <4>2 DEF VisitInv
      <3> QED
        BY <2>5, <3>2, <3>3 DEF MakeStitches
    <2>6. CASE AlignStitchesToNlp
      <3>1. /\ phase = "rows" /\ phase' \in {"rows", "done"}
            /\ UNCHANGED <<input, chain, alignment, hypRowIndex, alignedTokensIndex>>
        BY <2>6 DEF AlignStitchesToNlp, compVars, makeVars
      <3>2. \/ UNCHANGED stitches
            \/ \E rows : \E comment \in {"", "direct", "push_last", "split_worst"} :
                  N!Attach(rows, comment)
        BY <2>6 DEF AlignStitchesToNlp, rowVars, N!AlignRow, N!SkipInsertion, N!AttachRow,
             N!AttachDirect, N!AttachPushLast, N!AttachSplitWorst
      <3>3. Finished'
        BY <3>1, <3>2, FinishedKeeps DEF VisitInv
      <3> QED
        BY <3>1, <3>3 DEF VisitInv
    <2>7. CASE Done
      BY <2>2, <2>7 DEF Done
    <2> QED
      BY <2>2, <2>3, <2>4, <2>5, <2>6, <2>7 DEF Next, Step
  <1> QED
    BY <1>1, <1>2, ChainTold, PTL DEF Spec

\* The stitches are the words of the chain in their order, each with the label of the
\* class that it is said in: the traversal of the alignment undoes what the traceback
\* has done to the chain.
THEOREM StitchesRead == Spec => []StitchesReadChain
  <1>1. ASSUME VisitInv PROVE StitchesReadChain
    <2> SUFFICES ASSUME Stitched PROVE StitchesReadChain
      BY DEF StitchesReadChain
    <2>1. Heard(stitches) = WordsRead(chain)
      BY <1>1 DEF VisitInv, Finished, Stitched
    <2>2. PICK rows : stitches \in Seq(Made(rows))
      BY <1>1 DEF VisitInv, Finished, Stitched
    <2> DEFINE elems == Made(rows)
               g == [s \in elems |-> SaidBy(s)]
               keep == {k \in DOMAIN stitches : ~IsNoop(stitches[k])}
    <2>3. [k \in DOMAIN stitches |-> SaidBy(stitches[k])] = Images(g, stitches)
      <3>1. /\ DOMAIN stitches = 1..Len(stitches)
            /\ \A k \in 1..Len(stitches) : stitches[k] \in elems
        BY <2>2, SeqFacts
      <3>2. \A k \in 1..Len(stitches) : g[stitches[k]] = SaidBy(stitches[k])
        BY <3>1
      <3> HIDE DEF g
      <3> QED
        BY <3>1, <3>2 DEF Images
    <2>4. Heard(stitches) = Those(Images(g, stitches), keep)
      BY <2>3 DEF Heard
    <2>5. WordStitches = Those(stitches, keep)
      BY DEF WordStitches
    <2> HIDE DEF elems, g, keep
    <2>7. Heard(stitches) = Images(g, WordStitches) /\ WordStitches \in Seq(elems)
      <3>1. stitches \in Seq(elems)
        BY <2>2 DEF elems
      <3> QED
        <4>1. Those(Images(g, stitches), keep) = Images(g, Those(stitches, keep))
          BY <3>1, ThoseImages
        <4>2. Those(stitches, keep) \in Seq(elems)
          BY <3>1, ThoseFacts
        <4> QED
          BY <2>4, <2>5, <4>1, <4>2
    <2>8. Images(g, WordStitches)
            = [k \in DOMAIN WordStitches |->
                 <<WordStitches[k].classLabel, <<WordStitches[k].reftk, WordStitches[k].hyptk>>>>]
      <3> DEFINE ws == WordStitches
      <3>1. DOMAIN ws = 1..Len(ws) /\ \A k \in 1..Len(ws) : ws[k] \in elems
        BY <2>7, SeqFacts
      <3> HIDE DEF ws
      <3>2. \A k \in 1..Len(ws) : g[ws[k]] = <<ws[k].classLabel, <<ws[k].reftk, ws[k].hyptk>>>>
        BY <3>1 DEF g, SaidBy
      <3> QED
        BY <3>1, <3>2 DEF Images, ws
    <2> QED
      BY <2>1, <2>7, <2>8 DEF StitchesReadChain, WordsRead, ReadOn, Silent, FoldLeft, MapThenFoldSet
  <1> QED
    BY <1>1, StitchesTold, PTL

\* The rows of the hypothesis stay in step with the stitches, and so does the count of
\* tokens: no row is left over and none is taken twice.
THEOREM RowsInStep == Spec => []HypRowsInStep
  <1>1. ASSUME VisitInv PROVE HypRowsInStep
    <2> SUFFICES ASSUME Stitched PROVE HypRowsInStep
      BY DEF HypRowsInStep
    <2>1. Finished
      BY <1>1 DEF VisitInv, Stitched
    <2>2. PICK rows : stitches \in Seq(Made(rows))
      BY <2>1 DEF Finished
    <2>3. \A k \in DOMAIN stitches : stitches[k] \in Made(rows)
      BY <2>2, SeqFacts
    <2>4. \A s \in Made(rows) : S!TakesHypRow(s.reftk, s.hyptk) => s.hyp_orig = s.hyptk
      BY DEF Made
    <2> QED
      BY <2>1, <2>3, <2>4 DEF HypRowsInStep, Finished
  <1> QED
    BY <1>1, StitchesTold, PTL
=============================================================================
