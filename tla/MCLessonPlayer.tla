--------------------------- MODULE MCLessonPlayer ---------------------------
(***************************************************************************)
(* An instance of LessonPlayer for TLC: two screens, and a pack with a     *)
(* sentence of two characters and one of one, which may be white space.    *)
(***************************************************************************)
EXTENDS LessonPlayer, TLC

TwoSentences == <<2, 1>>

SecondSentence == {<<2, 1>>}

\* The timer is a millisecond early, or on time.
AroundTime == {-1, 0}

ScreenSymmetry == Permutations(Screens)
=============================================================================
