----------------------------- MODULE MCProgress -----------------------------
(* Three days of two hours, four local ones at most, and milestones after    *)
(* one day, two days, and then every two.                                  *)
EXTENDS Progress

ShortMilestones == <<1, 2>>

EastAndWest == {-1, 1}
=============================================================================
