---------------------------- MODULE SynonymRules ----------------------------
(***************************************************************************)
(* The rules of SynonymEngine (src/src/SynonymEngine.cpp): those of the    *)
(* synonyms file and those it makes of the hyphens in the symbol table.    *)
(* synonyms is a std::map: the sequence of its entries in the order of the *)
(* keys lhs, the words replaced, each with the alternatives for them.      *)
(*                                                                         *)
(* A word with a hyphen is one symbol id; StemOf and PartsOf tell what is  *)
(* left of it without the hyphen.  A word whose first hyphen is its last   *)
(* letter is a cutoff, any other one is compound.                          *)
(***************************************************************************)
EXTENDS Integers, Sequences, SequencesExt, Selections

CONSTANTS
    StemOf,     \* of a cutoff word (the-) the word before the hyphen
    PartsOf     \* of a compound word (long-term) the sequence of its parts

NoSynonyms == <<>>

\* The map orders its keys as sequences of strings; the ids of words are chosen so
\* that they have the order of their strings.
Before(k, l) ==
    \E i \in 1..(Len(k) + 1) :
        /\ \A j \in 1..(i - 1) : j <= Len(l) /\ k[j] = l[j]
        /\ IF i > Len(k) THEN Len(l) > Len(k) ELSE i <= Len(l) /\ k[i] < l[i]

Placed(entry, synonyms) ==
    LET before == {k \in DOMAIN synonyms : Before(synonyms[k].lhs, entry.lhs)}
    IN  Those(synonyms, before) \o <<entry>> \o Those(synonyms, DOMAIN synonyms \ before)

AddIfNew(synonyms, lhs, alternatives) ==
    IF \E k \in DOMAIN synonyms : synonyms[k].lhs = lhs THEN synonyms
    ELSE Placed([lhs |-> lhs, alternatives |-> alternatives], synonyms)

ParseStrings_Last(lines) ==    \* mutant: a later line of the same words replaces it
    FoldLeft(LAMBDA synonyms, line :
               Placed(line, Those(synonyms, {k \in DOMAIN synonyms :
                                               synonyms[k].lhs # line.lhs})),
             NoSynonyms, lines)

\* ParseStrings: the first line of the same words stays.
ParseStrings(lines) ==
    FoldLeft(LAMBDA synonyms, line : AddIfNew(synonyms, line.lhs, line.alternatives),
             NoSynonyms, lines)

Compound_OneWay(synonyms, word) ==      \* mutant: parts are not put together
    AddIfNew(synonyms, <<word>>, <<PartsOf[word]>>)

\* A compound word and its parts stand for each other.
Compound(synonyms, word) ==
    AddIfNew(AddIfNew(synonyms, <<word>>, <<PartsOf[word]>>), PartsOf[word], <<<<word>>>>)

\* What a word of the symbol table adds.
OfWord(synonyms, word, opts) ==
    CASE word \in DOMAIN StemOf /\ ~opts.disable_cutoffs ->
           AddIfNew(synonyms, <<word>>, <<<<StemOf[word]>>>>)
      [] word \in DOMAIN PartsOf /\ ~opts.disable_hyphen_ignore ->
           Compound(synonyms, word)
      [] OTHER -> synonyms

\* GenerateSynFromSymbolTable, for the words of the symbol table in their order.
\* What it adds to the table meanwhile is not visited.
GenerateSynFromSymbolTable(synonyms, words, opts) ==
    FoldLeft(LAMBDA syn, word : OfWord(syn, word, opts), synonyms, words)

\* What ApplyToFst goes through: every alternative of every key, in their order.
InOrder(synonyms) ==
    FlattenSeq([k \in DOMAIN synonyms |->
      [m \in DOMAIN synonyms[k].alternatives |->
         [lhs |-> synonyms[k].lhs, rhs |-> synonyms[k].alternatives[m]]]])
=============================================================================
