----------------------------- MODULE RateLimit ------------------------------
(***************************************************************************)
(* The fixed-window limiter of billed requests (src/habagou/services/      *)
(* rate_limit.py): one window per key, in the memory of one process, by a  *)
(* clock that never goes back.                                             *)
(***************************************************************************)
EXTENDS Integers

CONSTANTS
    Keys,       \* user ids
    Limit,      \* attempts per window; zero or less switches the cap off
    Window      \* window_seconds

ASSUME LimiterAssumption ==
    /\ Limit \in Int
    /\ Window \in Nat \ {0}

VARIABLES
    windows,    \* the window of each key that has one: its start and its count
    clock,      \* time.monotonic
    grants      \* history: what was allowed, when, in which window and place

limiter == <<windows, grants>>

Grant == [key : Keys, at : Nat, start : Nat, place : Nat \ {0}]

LimiterInit ==
    /\ windows = [k \in {} |-> [start |-> 0, count |-> 0]]
    /\ clock = 0
    /\ grants = {}

Expired(k) == clock - windows[k].start >= Window

\* The windows that _prune leaves.
Live == [k \in {j \in DOMAIN windows : ~Expired(j)} |-> windows[k]]

\* Mutant: one attempt too many.
MutantAllows(k) == k \notin DOMAIN Live \/ Live[k].count <= Limit

Allows(k) == k \notin DOMAIN Live \/ Live[k].count < Limit

\* The window of k once an attempt is allowed.
Counted(k) ==
    IF k \in DOMAIN Live
    THEN [start |-> Live[k].start, count |-> Live[k].count + 1]
    ELSE [start |-> clock, count |-> 1]

\* acquire: allowed is what it returns.
Acquire(k, allowed) ==
    IF Limit <= 0
    THEN allowed = TRUE /\ UNCHANGED <<windows, grants>>
    ELSE /\ allowed = Allows(k)
         /\ IF allowed
            THEN /\ windows' = [j \in DOMAIN Live \cup {k} |->
                                  IF j = k THEN Counted(k) ELSE Live[j]]
                 /\ grants' = grants \cup
                      {[key |-> k, at |-> clock, start |-> Counted(k).start,
                        place |-> Counted(k).count]}
            ELSE windows' = Live /\ UNCHANGED grants

Attempt(k) == (\E allowed \in BOOLEAN : Acquire(k, allowed)) /\ UNCHANGED clock

Tick == clock' = clock + 1 /\ UNCHANGED limiter

LimiterSpec ==
    LimiterInit /\ [][Tick \/ \E k \in Keys : Attempt(k)]_<<windows, clock, grants>>

-----------------------------------------------------------------------------
(* Properties.                                                             *)

LimiterTypeOK ==
    /\ DOMAIN windows \subseteq Keys
    /\ \A k \in DOMAIN windows :
          windows[k].start \in 0 .. clock /\ windows[k].count \in 1 .. Limit
    /\ clock \in Nat
    /\ grants \subseteq Grant

\* A window grants at most Limit attempts, and each of them lies within the
\* Window seconds from its start: no two attempts get one place.
QuotaPerWindow ==
    \A g \in grants :
        /\ g.place <= Limit
        /\ g.start <= g.at /\ g.at < g.start + Window
        /\ \A h \in grants :
             g.key = h.key /\ g.start = h.start /\ g.place = h.place => g = h

\* The windows of a key do not overlap.  With QuotaPerWindow it follows that a
\* span of Window seconds meets two windows at most, so that a user is never
\* granted more than 2 * Limit attempts in any such span.
WindowsApart ==
    \A g, h \in grants :
        g.key = h.key /\ g.start < h.start => g.start + Window <= h.start
=============================================================================
