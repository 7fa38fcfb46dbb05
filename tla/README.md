# fstalign, specified

TLA+ specifications of [fstalign](../src/README.md), the program that aligns a reference
transcript with a hypothesis and counts the errors: what its algorithms do, what TLC
checks of them on small texts and graphs, and what TLAPS proves of them for all.
Paths are relative to the repository; `Walker.cpp` is `src/src/Walker.cpp`.

## 1. The system

fstalign runs once, on one thread, and persists nothing: no failure to recover from, no
messages, no races. Two things are hard about it. Three greedy algorithms that all give
something up - a first pass that forces words to match, a composition that leaves arcs
out, a beam search that refuses, drops and prunes - must not give up the alignment that is
wanted. And behind the alignment, three sequences (tokens of the alignment, rows of the
hypothesis, rows of the reference) are walked with indices of their own that have to stay
in step across classes, synonyms, insertions and deletions. The unit tests run whole files
and compare the WER.

| Component | State | Operations | Right if |
|---|---|---|---|
| Loaders (`Ctm`, `OneBestFstLoader`, `Nlp`) | tokens, rows, alternatives of classes | constructors, `addToSymbolTable`, `convertToIntVector`, `convertToFst(map)` | the graph reads the text; a marked word carries its weight; rows and tokens correspond |
| First pass (`fast-d.cpp`, `fstalign.cpp:63-103`) | rows of distances, two positions, two maps | `GetEditDistance`, relaxing loops, `MapContainsErrorStreaks` | rows are distances, marks are matches of one alignment, maps are used when they are safe |
| `SynonymEngine` | rules | `ParseStrings`, `GenerateSynFromSymbolTable`, `ApplyToFst` | the reference graph reads the text and its variants |
| `AdaptedComposition` | pairs <-> ids, known exits | `Start`, `TryGetArcsAtState`, `Final` | paths are alignments, the cheapest among them |
| `StandardComposition` | OpenFst composition | the same | the same |
| `Walker` + `PathHeap` | two heaps, logbook, finals | `walkComposed`, `enqueueIfNeeded`, `prune`, traceback | ends, loses no cheapest path, reports walks of the graph, reads labels back in pairs |
| `Fstalign` | - | first pass, graphs, walk, sort | returns an alignment with the fewest errors |
| `make_stitches`, `AlignmentTraversor` | positions in the alignment, row index of the hypothesis | `NextTriple` | stitches are the words of the alignment, each with its hypothesis row |
| `align_stitches_to_nlp`, `write_stitches_to_nlp` | stitch index, row index of the reference | row for row, direct, push_last, split_worst | words meet the rows they came from; the file written reads the reference |
| Statistics (`wer.cpp`) | counters | `RecordWer`, `RecordSentenceWer`, ... | counts add up to those of the alignment |
| `main.cpp`, logging | options | - | - |

How they interact: `Fstalign` asks both loaders for integer vectors, runs the first pass
over them and hands the maps back to `convertToFst`; `SynonymEngine` reads the symbol table
that the loaders filled and writes into the reference graph; the composition reads both
graphs; the walker calls the composition for each entry it expands, and the composition
creates states in answering; the walker's entries are linked backwards and the traceback
turns the links into a `wer_alignment`; `Fstalign` sorts these by WER and `HandleWer`
passes the first one to stitching and statistics.

The behaviours that are hard to test, each at its line and with the properties that cover
it, are the `hazards` of `PROJECT.json`.

## 2. The modules

    WalkerSteps           the actions of the walk; the composed graph is a parameter
      Walker              ... over a graph that is fixed beforehand
        MCWalker          small graphs
        Walker_proofs     theorems about it: heaps, logbook, the order of the exploration,
                          the costs of paths, and that it implements Relaxation
    Relaxation            what a walk promises: a search that relaxes arcs in any order
      Relaxation_proofs   that such a search, when it has lost nothing, is complete
    FirstPass             the Levenshtein pass
        MCFirstPass       small texts
        FirstPass_proofs  theorems about it
      AlignSystem         Fstalign: first pass, graphs, walk, choice
        MCAlign           small texts, classes and rules
        AlignSystem_proofs    the graphs built are typed, those of texts are paths, and
                              theorems about the walk over them
    ReferenceGraph        rows -> tokens -> graph -> graph with synonyms
    SynonymRules          rules of a file and of words with hyphens
    AdaptedComposition    the composition of the program
      StandardComposition ... and that of OpenFst, for plain texts
    Traceback             a chain of arcs -> wer_alignment with its classes
    Stitches              wer_alignment and hypothesis rows -> stitches
    NlpRows               stitches and reference rows -> stitches with rows, lines written
    WerStats              the counters of wer.cpp
    HandleWer             rows -> graph -> any chain -> alignment -> stitches -> counters
        MCHandleWer       small references and hypotheses
        HandleGraphs_proofs       the graph of a reference is laid out, and chains follow it
          HandleWer_proofs        what traceback, traversal and groups make of a chain
            HandleCounts_proofs   what is counted of it
    Selections            picking elements of a sequence by their positions
        Selections_proofs induction over the natural numbers, and what picking,
                          concatenating, folding and adding up give

`AlignSystem` instantiates WalkerSteps, ReferenceGraph, SynonymRules, Traceback and
StandardComposition (with it AdaptedComposition); `HandleWer` instantiates ReferenceGraph,
AdaptedComposition, Traceback, Stitches, NlpRows and WerStats. They are two halves of the
program that meet in the chain: `AlignSystem` asks which chains are returned, `HandleWer`
what becomes of any of them. `ReportsAreWalks` is what allows the cut: everything that is
returned is such a chain.

**WalkerSteps** has the variables of `walkComposed` under their names: `heapA`, `heapB`,
`logbook`, `topEntries`, `loopSinceLastPruning`, and for the current iteration `cur`
(`currentState_ptr`), `arcs` and `iter`. One action is one part of the loop:
`TakeEntry` (lines 48-65), `EnqueueArc` and `SkipArc` (the inner loop with
`enqueueIfNeeded`), `FinishEntry` (the `continue` of line 100) and `FinishLevel` (prune and
swap). An entry is the chain of nodes that its `linkToHere` pointers reach. Costs are
twice the floats of the code, exact integers. `dropped` is a history of what `prune`
erased. A heap is a set of entries in which equal keys collapse as in `std::set`
(`Insert`). Left out: `numInsert` (a local error count that only the log reads),
`visited_states` and the log. The branch "no arcs leaving state" is not modelled because
`TryGetArcsAtState` cannot return false: it is asked for states that the composition has
handed out, and `DoesComposedStateExist(StateId)` looks up state 0 whatever its argument.

**Walker** closes the actions with a graph chosen from `Compositions` (arcs in order,
final states): the promise of `IComposition.h`, kept by any composition that is a function
of its states. `FirstHasFewestArcs` and `ExhaustiveWalkIsOptimal` compare the reports with
what two recursions over the graph alone say: `ReachedWith[k]`, the states that k arcs lead
to, and `CostsWith[k]`, the pairs of a state and the cost of a path of k arcs.

**Relaxation** is the abstract specification: pairs of a state and a cost are open until
all arcs of the state are relaxed at that cost, in any order; pairs that are given up are
owned up to in `lost`. `Walker!R` maps the heaps and the current entry to `open`, the
logbook to `dist`, the pruned entries to `lost`. Heaps, levels, keys and chains disappear.

**ReferenceGraph** models the constructor of `NlpFstLoader` (a class of several rows
becomes one label with its rows as one more alternative), `convertToFst`, and `ApplyToFst`
with `SeekForward`: the arcs of a replacement enter at the state where its words start,
under a label of its own, and leave at every state where they end.

**SynonymRules** models `ParseStrings` (the first line of the same words stays) and
`GenerateSynFromSymbolTable` (rules for cutoffs and compounds, never over a rule that is
there). The rules are a sequence in the order in which `std::map` gives its keys to
`ApplyToFst`; `Placed` inserts where the map would. `Selections` has the one operator that
the code's loops with a condition become (`Those`) and the optional element (`When`).

**AdaptedComposition** models the class with its variables `composed_states` (a sequence
of pairs, the id is the index) and `entity_exit_states`. `Proposals` is what
`TryGetArcsAtState` pushes, in its order: matches, insertions, substitutions, deletions per
arc of the reference, with `num_match` carried over the arcs as the code carries it,
labels of classes and synonyms as free moves, the rest of the hypothesis behind the last
word. `Exits` is the depth-first search of `IsEntityReacheable`. `TryGetArcsAtState`
changes the two variables as one atomic step with the answer.

**StandardComposition** is what the two half edits and three compositions amount to for
texts of plain words, including that a substitution is offered for equal words too, that
marked words cost their weight, and how the composition filter of OpenFst orders `<eps>`
moves of the two sides. The order of the arcs of a state is chosen by OpenFst; the model
takes that of the graphs.

**FirstPass** models `GetEditDistance` with maps - one action per row, one per step of the
backtracking (`TrackDiagonal`, `TrackLeft`, `TrackUp`), with the two rows `distance` and
`distancePrev` and their copying (`ShiftRows`) as in the code -, the two relaxing loops of
`Fstalign`, one action per element, and the choice whether the maps are used. `edits` and
`lefts` are histories, of the edits gone through and of the steps to the left.
`distancePrev` is uninitialised before the first row in the code and never read there.
Both texts are non-empty when the pass runs, by the guard of `fstalign.cpp:74`.

**AlignSystem** is `Fstalign`: the first pass or none, both graphs, the walk over one of
the compositions and the choice by WER, where `std::sort` leaves ties open. `finalEps`
tells the loaders that append an `<eps>` arc (OneBest, NLP) from the one that does not
(CTM).

**Traceback** is `GetDetailsFromTopCandidates`: a fold over the arcs from the last to the
first, with the label that is open, the counts inside and outside of it, and the reversal
at the end.

**Stitches** is `make_stitches` with `NextTriple` as one action per branch (`GlobalTriple`,
`EnterClass`, `ClassTriple`, `NoopTriple`, `LeaveClass`), **NlpRows**
`align_stitches_to_nlp` with one action per strategy (`AttachRow`, `AttachDirect`,
`AttachPushLast`, `AttachSplitWorst`, `SkipInsertion`) and `write_stitches_to_nlp` as the
operator `Written`. **WerStats** holds the statistics as operators on the result.

**HandleWer** runs them one after the other in the order of the code. Between the graph and
the traceback it follows any path of the composed graph to a final state (`Walk`).

External: OpenFst (containers of arcs, `ArcSort`, `RmEpsilon`, the composition filter) is
modelled by its effect on these graphs only. Words are symbol ids: lower-casing, joining of
n-grams and the symbol table stand before the model.

Assumptions on inputs, which the modules do not repeat: the id of an entity label is used
by one run of rows only; no noise codes (`<laugh:...>`); alternatives are not empty except
for the FALLBACK class; a normalization file is given; in HandleWer a rule has one
alternative and no two rules the same words; word ids are ordered like their strings; a
word with hyphens either ends in its only hyphen or has parts on all sides of each.

## 3. The runs

| Run | Question | Distinct states |
|---|---|---|
| `Walker_full` | With the parameters of the program, does the walk end, is nothing lost, is the least cost reported, is it the abstract search? | 147056 |
| `Walker_prune` | What holds with a beam of one and a walk that stops early? | 128398 |
| `FirstPass` | Are the rows distances, the marks pairs, the edits near the distance, the maps relaxed as if at once? | 293046 |
| `Align_words` | Does every pair of texts get the cheapest alignment, in both compositions, whatever the first pass forces? | 107993 |
| `Align_labels` | With classes, synonyms files, hyphens and a beam of one: is there an alignment, does it read one variant of the reference, is a variant free of errors? | 259732 |
| `HandleWer` | Do labels pair up, rows stay in step and counts add up, for every alignment there is? | 86432 |
| six runs that end in a violation | see section 4 | |

What the main properties say:

* `Settled`, `FinalsReported`, `WalkRelaxes`: every cost in the logbook is still to be
  expanded, pruned, or relaxed along all arcs, although the log may be ahead of the heap.
* `PruneSpares`, `LevelDiscipline`, `ReportOrder`: what pruning and stopping early spare.
* `CheapestReported`, `EditDistanceReturned`: the least cost of `LeastCost` (a table of
  distances that knows the marks) is among the alignments, and the one returned has the
  edit distance of the texts. Restricted where the code departs from it (finding 3).
* `AlignmentProduced`, `ReadsTexts`, `SynonymsAreFree`: `Readings` computes what a
  reference may be read as from rules and classes alone, without graphs or labels.
* `StitchesReadChain`, `ClassesPartition`: a forward reading of the chain gives the same
  words, in the same classes, as the traceback backwards and the traversal forwards.
* `HypRowsInStep`, `RowsPaired`: the row indices. `RowsPaired` computes from runs of
  stitches alone which row each run must have ended with.
* `FileKeepsText`: the file reads the reference and loses no punctuation.
* `SentencesAddUp`, `SpeakersAddUp`, `TagsFollowRows`, `SwitchWindows`, `UnigramsAccount`,
  `BigramsAccount`, `ErrorGroupsCover`: each counter against a count of its own.

Bounds, and why they suffice.

* `MCWalker`: all graphs on four states whose arcs lead upwards, with three weights and
  both orders of arcs (every way in which a cheap long path and an expensive short one can
  meet), and graphs with parallel arcs, self loops, cycles that cost something and arcs
  back to the start. `Walker_full` keeps `numBests` = 100, prunes as the program does
  (never on graphs this small) and can exhaust each graph; `Walker_prune` scales the beam
  to one entry, pruned on each level, with an offset of no error, and `numBests` to two.
* `MCFirstPass`: all pairs of texts of up to five words over two words and up to four over
  three. `MinLength`, 10 in the code, is 1, and the cutoff, 100 by default, is 1, so that
  short texts have a pass and streaks. The texts of finding 2 are added, on which the
  backtracking does go astray.
* `MCAlign`, words: references of up to three, hypotheses of up to four words over two
  words, with and without first pass and `<eps>` arc; standard composition for texts of up
  to two words and two longer pairs. `NumBests` is 20, below the 100 of the program but
  above the number of finals of these texts. State ids are bounded by `MCState`; TLC would
  report an id above. Pruning does not happen at this size.
* `MCAlign`, labels: two classes, one with two alternatives, alone, beside words and beside
  each other; three files of rules that overlap, that are longer or shorter than what they
  replace, that repeat a line; a compound and a cutoff word under all useful options. The
  beam is one entry with an offset of two errors, pruned on every level.
* `MCHandleWer`: seven references of two or three rows - two sentences, changing speakers,
  classes of one, two and three rows, two classes, one that may be left out - against all
  hypotheses of up to two words over two and some of three, with three rules, with
  punctuation as tokens and with an `<eps>` arc. The window of speaker switches is one word,
  so that windows overlap. Chains are all paths, bad alignments included.

Deadlock is checked in every run; the systems stop in a stuttering action of their own.

Fairness: weak fairness of the one `Step` action (`FairSpec`, `Spec` of FirstPass and
HandleWer, `AlignSpec`). The program is one thread without blocking calls, so that some next
part of the loop is always executed. `Terminates`, `Ends` and `Concludes` need nothing else.
`Terminates` depends on the graphs: a cycle of arcs without weight would be walked for
ever, because `enqueueIfNeeded` accepts equal costs (its comment asks whether it should).
In HandleWer the fair step also follows the chain, which has an end because every composed
graph of two texts is acyclic and has no dead end without a first pass.

Each property of a passing run has a mutant, a definition `X_Name` beside `X` that has a
plausible bug (`Enqueues_FirstOnly`, `Compound_OneWay`, ...), under which TLC finds the
property violated. The mutants are used by no specification.

## 4. Where the code and its documentation disagree

1. `FirstPass_streak`: `MapContainsErrorStreaks` compares a streak with the cutoff only when
   a match follows, so that a streak at the end of the map goes unnoticed
   (`fast-d.cpp:293` against `fast-d.h:29`).
2. `FirstPass_shortest`: the backtracking shifts its rows on a step to the left as well and
   can follow a path with more edits than the distance (`fast-d.cpp:202` against 67-68);
   matches that a shortest path has stay unmarked. `EditsNearDistance` bounds the loss: at
   most one edit for each step to the left.
3. `Align_edits`: the final `<eps>` arc of a OneBest or NLP hypothesis takes part in the
   alignment and can turn a substitution into an insertion and a deletion
   (`OneBestFstLoader.cpp:88` against `AdaptedComposition.h:37`). With a CTM hypothesis, and
   in standard composition, the fewest errors are returned (`EditDistanceReturned`).
4. `Align_detour`: a synonym can make every alignment costlier, because its match removes
   the deletion of the word behind it (`AdaptedComposition.cpp:357`).
5. `HandleWer_speakers`: an insertion inside of a class of several rows is counted as a word
   of the reference that the speaker has said (`wer.cpp:137` against `docs/Usage.md:279`).
6. `Nlp_punctuation`: the punctuation behind the first row of a class becomes a token behind
   the whole class (`Nlp.cpp:88` against `docs/Usage.md:150`).

Seen on the way, without a document that says otherwise, and therefore modelled as they are:

* the second relaxing loop stops one word before the end of the hypothesis
  (`fstalign.cpp:91`);
* alignments are reported by number of arcs and cut off at `numBests`, so that with 1 the
  first one is not the best (`Walker.cpp:48`);
* a punctuation row is a copy with an empty punctuation, from which its token is then
  copied (`Nlp.cpp:92`), so that the row of a punctuation token has neither;
* a `<noop>` of a class that was left out counts as a word of the reference in its sentence
  (`wer.cpp:80`; `Noops` in HandleWer), and insertions behind the last sentence in none;
* the punctuation of a FALLBACK class that was left out has no line in the file, and a
  class of which only insertions are left does not take its rows (`OnlyInsertions`);
* a beam can fill with dead ends (`PathHeap.cpp:103`): with an offset of 0 or 1 error and a
  beam of one entry, TLC finds texts with marked words without any alignment; the program
  uses 20 for both;
* `RecordCaseWer`, not modelled, counts a word as a true positive when both sides have the
  same number of upper-case letters (`wer.cpp:295`), none included when the row has a casing
  other than "LC"; its comment says "h is upper and r is upper" (`wer.cpp:257`).

## 5. The proofs

`Walker_proofs` proves, with the named assumptions of WalkerSteps and Walker only
(`StateAssumption`, `ParameterAssumption`, `CompositionAssumption`), for every set of
composed graphs, finite or not, and every beam:

* `TypeCorrect`, `LevelsKeptApart`: the induction is direct; that entries of `heapA` have
  equal length and those of `heapB` one arc more needs all four parts of `LevelDiscipline`.
* `ReportsAreWalks` strengthens `ChainsAreWalks` by `ArcsOfCur` (the arcs being iterated
  are those of the entry being expanded).
* `NoImprovementLost`: `Settled` says that every logged cost is pending, pruned, or relaxed
  along all arcs. The step that matters is `EnqueueArc`: the log may be overwritten
  although the heap drops the entry, but only for an entry with an equal key, which then is
  the pending one (`SameKeyEqual`); costs in the log never rise (`LogbookImproves`), so that
  what is relaxed stays relaxed.
* `FinalsAreReported` carries this over to final states.
* `ExhaustiveWalkOptimal`: if the heaps ran empty and nothing was pruned, no walk to a final
  state is cheaper than the best alignment reported there. From `Settled` with nothing
  pending, all arcs are relaxed; the first node of a walk that is cheaper than its logged
  cost would follow one that is not.
* `ReportsInOrder` strengthens `ReportOrder` by `LevelsImprove` (every open entry was the
  cheapest way into its state when it was made). The start is an exception because the
  first entry is never logged.

`WalkImplementsSearch`, at the end of `Walker_proofs`: under the refinement mapping `R`, the start
of the walk is a start of Relaxation and every step is one of its steps or a stutter.
`TakeEntry` and `SkipArc` are stutters (an entry that is expanded stays open); `EnqueueArc`
is `Relax`; `FinishEntry` and `FinishLevel` are `Close`, which may be taken only when all
arcs of the pair are relaxed - that is `Settled` at the end of the inner loop - and before
the search has its answers (`StillSought`). The invariant used is `TypeOK`, `ArcsOfCur`,
`Settled` and `StillSought`.

`Relaxation_proofs` proves `SearchIsComplete` of the abstract search alone: its inductive
invariant says that every known pair is open, lost, or relaxed, and answered if final.

The last part of `Walker_proofs` adds `FiniteStates` (the set of states is finite: numBests and the words of
two texts bound what is composed) where it is needed:

* `ExhaustiveWalkIsShortestPath`: if the heaps ran empty and nothing was pruned, each pair
  of `CostsWith` at a final state, of paths with fewer arcs than there are states, is
  reported at no higher cost, and each report costs what a path of that many arcs costs.
  The first part is `ExhaustiveWalkOptimal` after it is shown that `CostsWith` holds just
  the costs of walks (`CostsAreOfWalks`), the second `ReportsAreWalks`.
* `FirstReportIsShortest`: nothing final is reached with fewer arcs than the first report
  has. The invariant is `LevelsDone`: while nothing is reported or pruned, every state that
  fewer arcs lead to than to the entries of this level is done, and one that as many lead to
  is done or in an entry of this level. That a state refused by the logbook is one of these
  follows from `Settled` (`SeenSettled`).
* `PruneSparesBest`: the invariant is that the heaps are finite; then the entries kept by
  `prune` are counted in the order of the keys (`LeadingMany`), because only the entry of
  rank `PruneTarget` decides what goes.

`FirstPass_proofs` is about all texts over any set of words, with every cutoff:

* `TypeCorrect` follows from the invariant `Shape`: which of the rows are filled, where the
  positions stand and what the two rows hold in each phase.
* `RowsHoldDistances`: `Dist` is the table of the recursion (`DistEquation`); neighbours in
  it differ by at most one (`NextRowSmooth`), which is why taking the diagonal at equal
  words is right, and why a row may be overwritten from left to right.
* `BacktrackingNearShortest`: after a step to the left the row `distance` is a copy of
  `distancePrev`, so that `w` is read from the row above, once, and equals `nw`;
  neighbours in the table differ by at most one (`TableSmooth`), which bounds what is lost.
  The invariant `EditsSoFar` counts the edits taken and the distance that is left against
  the whole, and has, while the row is stale, one step to the left still to be charged.
* `IsolatedMatchesAreRelaxed`: `Passed` says that each map is relaxed up to the element the
  loop stands at and untouched behind it. That an element just relaxed is read as the left
  neighbour of the next makes no difference (`RelaxOne`): it was isolated, so that the next
  one was no match.
* `MarkedWordsAgree`: the marks behind the current positions are pairs (`Paired`): what the
  k-th mark of the one map stands for is what the k-th mark of the other does.

The recursions over texts, rows and paths need induction, and the library's induction rules
take the predicate as an operator, which the provers cannot instantiate.
`Selections_proofs` states them first-order: the predicate is the set of the numbers that
have it (`Climb`, `LeastNat`), the recursion a function whose steps are given (`Iterate`,
`IterateAll`: a recursion over the natural numbers has a solution). They are proved from
the well-founded induction over sets of the library. What the models are built with
follows: a selection, a concatenation, a fold and a sum are runs (`ThoseRun`, `FlattenRun`,
`FoldRuns`), of which the lemmas say what they hold, preserve and how they grow; sums over
a set do not depend on the order of its elements, and rows added up name by name are all
rows (`SumsByName`).

`AlignSystem_proofs` is about Fstalign as a whole: every text, file of rules, class, option
and beam, both compositions, with and without first pass. It assumes `TextAssumption` (the
ids of the words of a text are none of the labels that the program makes up and not `<eps>`,
and standard composition is used for texts without classes), `SynonymAssumption` (what
stands for a class or a rule is made of words) and `ModeAssumption` (options are Booleans).

* It first types what the loaders and the synonym engine build: every edge
  of `ConvertToFst` and `ApplyToFst` leads to a state that exists (`ConvertType`,
  `ApplyType`), `RmEpsilon` and sorting keep that (`ReferenceType`, `LoadedType`); without
  classes and synonyms the graph is the path of its tokens, one arc for each with its mark
  (`ConvertLine`, `LoadedLine`, `ReferenceLine`), and without rules `ApplyToFst` changes
  nothing (`NothingReplaced`).
* `Answers` then says what a composition may propose in a pair of states: read the next
  token of the hypothesis or none, of the reference likewise, and respect the marks.
  `ProposalsType` and `StandardType` show it for the answers of the two compositions, arc by
  arc of the reference. `CreatedFacts`: ids are never given twice and never change.
* `Aligns`: the inductive invariant `AlignInv`. Before the walk it types the texts and maps
  (`PassInv`); in the walk `WalkInv` says that every open chain has read the prefix that the
  pair of its state stands behind (`EntryOK`), that the arcs still to be tried are answers
  for that pair (`ArcOK`), and that reported chains have read all (`Alignments`).
  `EntriesStandWhereTheyRead` alone is not inductive: it says nothing of the arcs, of the
  graphs, nor of what was reported. `ExtendOK` is the step that matters, `TakeOK` the one
  that lets the composed graph grow under the chains (`EntryStays`).
* From it `EntriesStand`, `MarksKept` and `AlignmentsReadWhole`: no word of the hypothesis is
  lost, read twice or taken for another, and none of the reference when it has but one
  reading; a marked word is never substituted.
* `AlignTypes` adds the books of the walk (`BookInv`): with ids and labels for every graph
  all variables have their types, and no chain stands in a state without an id.

The three modules about HandleWer hold for every reference, with classes, synonyms and
punctuation, every hypothesis and every chain through their graphs, bad alignments
included. They assume `LabelAssumption` (the ids of labels, markers and words are kept
apart), `SpeakerAssumption`, `InputAssumption` (rows of one entity stand together, rules are
pairs of words, and only a FALLBACK class may be read as nothing; the code gives each
entity its own id, and an alternative without words comes only from the FALLBACK label) and
`SynonymLabelsSuffice` (the k-th replacement finds the k-th label; the code makes labels up
as it needs them). TLC evaluates all four on the inputs of `MCHandleWer`.

* `GraphsLaid`, in `HandleGraphs_proofs`: the graph of a reference has a *layout*. Each
  state is inside of at most one outermost class or synonym (`open`) and stands behind a
  number of tokens (`pos`); each class and synonym begins at one such number (`since`), and
  some states are reached in it without a word (`idle`). Every arc enters a class, stays in
  it, leaves it or passes by all, and moves these numbers accordingly. This is carried
  through the loader, `ConvertToFst`, `ApplyToFst` and `RmEpsilon`. What makes `ApplyToFst`
  hard is that a replacement may reach over classes that are there: these become inner
  ones. It follows that a path never enters a class twice, which no single arc says.
* `ChainTold`: the inductive invariant of the walk. The composed state that is reached is
  a pair of a state of the layout and a position in the hypothesis, and the chain is a path
  to both; composing does not change what has been composed (`CreatedFacts`).
* `StitchesRead`: the traceback reads the chain from its end, with one flag for "inside of
  a class"; the traversal of the alignment goes forwards and looks each class up by its
  label. `Behind` says what the traceback knows behind a state of the layout - a class that
  is done begins no earlier than the state stands, so that its label is a new one
  (`BehindStep`) - and `Tells` what each arc adds. Stacked up they are a `Story` of the
  chain (`StoryOf`, by induction over its arcs): where in the alignment each arc stands,
  outside or in which class. The traversal is then simulated: in each of its steps it
  stands at an arc of the story (`VisitInv`; `VisitEnter`, `VisitInside`, `VisitLeave`), and
  an empty class is passed with a `<noop>`. The invariant is needed because neither the
  positions nor the stitches alone say which class comes next.
* `RowsInStep`: the same simulation counts the rows of the hypothesis. The arcs made so far
  that say a word are as many as the rows taken.
* `GroupsHoldErrors`: the groups written for the side-by-side file are a fold over the
  stitches; `Covers` says what a group that is still open has left to give.
* `UnigramsCounted`, in `HandleCounts_proofs`: the counts come from four lists that the
  traceback keeps and from the tokens, those of classes in place of their labels. Along the
  story each list is what the arcs with a word contribute (`CountTurned`: reversing does
  not change a count). The tokens flattened are the words of the arcs (`FlattenedSaid`),
  and so are those visited: the search for a label stops at the first class that has it,
  and no other one has (`VisitedSaid`).
* `BigramsCounted`: each pair of neighbours is either counted on both sides, or one of them
  is no bigram of words because of a marker and it is counted on one (`ThreeParts`). This
  needs no chain, only that no token is a pair of two markers.
* `ClassesAddUp`: each arc with a word adds to the counts of the alignment and, inside of a
  class, the same to the counts of that class. `Apart` says that at each point of the
  traceback the alignment has what its tokens outside of classes and its classes have
  (`ApartStep`, field by field); by `SumsByName` it does not matter in which order
  `RecordWer` meets the classes, nor that several share a name.

Only model-checked, and why.

* `Terminates`, `Ends` and `Concludes`: liveness under fairness is beyond the prover.
* AlignSystem: the optimality (`CheapestReported`, `EditDistanceReturned`) and that there is
  an alignment (`AlignmentProduced`, `SynonymsAreFree`) need an argument that every state of
  the composed graph leads on to a final one, along with a bound on its paths; they are also
  claims about the instance, because a beam that is small enough falsifies them. The part of
  `ReadsTexts` that is about classes and synonyms compares with `Readings`, a recursion over
  rules that splicing into graphs would have to be related to; `AlignmentsReadWhole` is its
  case without them.
* HandleWer: `RowsPaired`, `FileKeepsText`, `SpeakersAddUp`, `SentencesAddUp`,
  `TagsFollowRows`, and the bound on `nlpRowIndex` in `TypeOK`, rest on the pairing of rows
  of the reference with stitches. That requires a row position for each state of the
  reference graph, and it is not true of every input: with punctuation as tokens a row of
  punctuation within a class (finding 6) puts the pairing out of step, and insertions alone
  take no rows (`OnlyInsertions`). `SwitchWindows` is about the windows around the rows so
  paired. The runs check them on inputs without such rows.

## 6. Not modelled, and the plan

Not modelled: option parsing (`main.cpp`), file formats (parsing of NLP, CTM, OneBest,
normalization and synonym files, `FstFileLoader`), logging and JSON output,
`RecordCaseWer` (the case of letters), the columns of the side-by-side file,
`DebugComposedGraph`, `GetBestWerCandidate` (only logged), `GetEditDistanceOnly` (not
called). `HandleAlign` makes the first calls of `HandleWer`. `StandardComposition` of graphs
with classes or synonyms: `Determinize` rebuilds the reference graph there.

What would come next:

1. NlpRows: a layout with row positions beside token positions, for inputs without
   punctuation inside of a class, from which `RowsPaired` and the sums over speakers and
   sentences would follow.
2. AlignSystem: the answers of the composition advance in one of the texts, which makes the
   composed graph acyclic; with that, optimality for plain texts from
   `ExhaustiveWalkOptimal`.
3. AlignSystem: `ReadsTexts` for classes without synonyms, with the layout of
   `HandleGraphs_proofs`.
