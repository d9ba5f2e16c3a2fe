---------------------------- MODULE MCPathQueue ----------------------------
(***************************************************************************)
(* Instances of PathQueue for TLC.                                         *)
(***************************************************************************)
EXTENDS PathQueue, TLC

RequestSymmetry == Permutations(Requests)

FirstStarter == {1}

\* Two packs, one of them a starter: two characters and a sentence, and a
\* single character, for which no match is ever made.
TwoPacks == {1, 2}
TwoPacksChars == [p \in TwoPacks |-> IF p = 1 THEN 2 ELSE 1]
TwoPacksSentences == [p \in TwoPacks |-> IF p = 1 THEN 1 ELSE 0]

\* One pack of two characters and a sentence.
OnePack == {1}
OnePackChars == [p \in OnePack |-> 2]
OnePackSentences == [p \in OnePack |-> 1]

\* A pack of one character, for the run with resets: its lessons introduce
\* and review one unit, the same again and again.
OneChar == [p \in OnePack |-> 1]
NoSentences == [p \in OnePack |-> 0]
=============================================================================
