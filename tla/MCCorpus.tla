------------------------------ MODULE MCCorpus ------------------------------
(* Two releases, the second with a character more, over three versions of  *)
(* the curated pack: the second changes a member, the third a sentence.    *)
EXTENDS Corpus, TLC

CONSTANTS a, b, c, blank

MCArchive == <<{a, b}, {a, b, c}>>

MCPackData ==
    {[members |-> <<a>>, sentences |-> <<{a, b}>>],
     [members |-> <<a, b>>, sentences |-> <<{a, b}>>],
     [members |-> <<a>>, sentences |-> <<{a}, {a, c}>>]}

\* A sentence with a new character, one with white space, a member twice.
MCDrafts ==
    {[members |-> <<a>>, sentences |-> <<{b, c}>>],
     [members |-> <<b>>, sentences |-> <<{b, blank}>>],
     [members |-> <<a, a>>, sentences |-> <<>>]}

\* The generation runs are interchangeable.
Symmetry == Permutations(Runs)
=============================================================================
