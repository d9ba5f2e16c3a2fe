----------------------------- MODULE Scheduling -----------------------------
(***************************************************************************)
(* The pure scheduler of the Learning Path (src/habagou/domains/           *)
(* scheduling.py): the Leitner ladder and generate_batch.                  *)
(*                                                                         *)
(* A pack is its place in curriculum order, a natural number; its          *)
(* characters and its sentences are their positions 1..n.  A reviewable    *)
(* unit is a character of a pack under trace or under match, or a sentence.*)
(* A time is a day.  The review states of a learner are a function whose   *)
(* domain is the set of units introduced so far: a unit outside it is new. *)
(* A batch is a set of item specifications, each with its place in the     *)
(* list the code returns (its offset, from 1).                             *)
(*                                                                         *)
(* Left out: the snapshot of the text an item shows, the unit label, and   *)
(* last_seen_at, which is always due_at less the interval of the rung.     *)
(***************************************************************************)
EXTENDS Integers, Sequences, FiniteSets, FiniteSetsExt

CONSTANTS
    Packs,          \* the global packs, numbered in curriculum order
    NumChars,       \* NumChars[p] is the number of characters of pack p
    NumSentences,   \* NumSentences[p] is the number of sentences of pack p
    BatchSize       \* DEFAULT_BATCH_SIZE

ASSUME CurriculumAssumption ==
    /\ Packs \subseteq Nat /\ IsFiniteSet(Packs)
    /\ NumChars \in [Packs -> Nat]
    /\ NumSentences \in [Packs -> Nat]
    /\ BatchSize \in Nat \ {0}

LADDER == <<1, 3, 7, 14, 30>>
MATCH_MIN == 2

Activities == {"trace", "match", "sentence"}

\* The most members an item of the activity may have: TRACE_MAX, MATCH_MAX,
\* and one sentence per item.
MaxMembers == [trace |-> 3, match |-> 5, sentence |-> 1]

\* Within a pack new material comes in this order.
ActivityOrder == [trace |-> 1, match |-> 2, sentence |-> 3]

Unit(p, a, i) == [pack |-> p, activity |-> a, ref |-> i]

UnitsOf(p) ==
    {Unit(p, a, i) : a \in {"trace", "match"}, i \in 1 .. NumChars[p]}
        \cup {Unit(p, "sentence", i) : i \in 1 .. NumSentences[p]}

Units == UNION {UnitsOf(p) : p \in Packs}

-----------------------------------------------------------------------------
(* Review states and the ladder.                                           *)

Never == -1     \* due_at is None

\* The state a unit gets when an item that introduces it is generated.
Introduced == [reps |-> 0, due |-> Never]

\* The wait, in days, after the reps-th completion, the top rung repeated.
Interval(reps) == LADDER[IF reps <= Len(LADDER) THEN reps ELSE Len(LADDER)]

\* Mutant: the interval of the rung the unit was on, not of the one it reaches.
MutantOldRung(state, at) ==
    [reps |-> state.reps + 1,
     due |-> at + Interval(IF state.reps = 0 THEN 1 ELSE state.reps)]

ApplyCompletion(state, at) ==
    [reps |-> state.reps + 1, due |-> at + Interval(state.reps + 1)]

\* Mutant: a unit that was introduced and not practised counts as due.
MutantIsDue(state, now) == state.due = Never \/ state.due <= now

IsDue(state, now) == state.due # Never /\ state.due <= now

-----------------------------------------------------------------------------
(* Orders and chunks.  LexLess compares sort keys of equal length.         *)

LexLess(s, t) ==
    \E i \in DOMAIN s : s[i] < t[i] /\ \A j \in 1 .. i - 1 : s[j] = t[j]

\* How many members of S come before x when they are sorted by key.
IndexIn(S, x, key) == Cardinality({y \in S : LexLess(key[y], key[x])})

\* The fewest chunks of at most high members that hold n members.
ChunkCount(n, high) == (n + high - 1) \div high

\* Mutants: full chunks until the members run out; the remainder forgotten.
MutantGreedyStart(n, high, k) == IF k * high < n THEN k * high ELSE n

\* Where the k-th chunk (from 0) starts when n members are split evenly, the
\* larger chunks first.
ChunkStart(n, high, k) ==
    LET chunks == ChunkCount(n, high)
        remainder == n % chunks
    IN  k * (n \div chunks) + (IF k < remainder THEN k ELSE remainder)

\* The chunks of the members of S, in the order of their keys.
Chunks(S, high, key) ==
    LET n == Cardinality(S)
        Within(x, k) ==
            /\ ChunkStart(n, high, k) <= IndexIn(S, x, key)
            /\ IndexIn(S, x, key) < ChunkStart(n, high, k + 1)
    IN  {{x \in S : Within(x, k)} : k \in 0 .. ChunkCount(n, high) - 1}

-----------------------------------------------------------------------------
(* Items.                                                                  *)

ItemSpec == [pack : Packs, activity : Activities, kind : {"new", "review"},
             units : SUBSET Units]

SpecsFor(S, p, a, kind, key) ==
    {[pack |-> p, activity |-> a, kind |-> kind, units |-> c] :
        c \in Chunks(S, MaxMembers[a], key)}

\* Curriculum position, as a sort key.
RefKey(S) == [u \in S |-> <<u.ref>>]

\* The units of one pack and activity among S.
GroupOf(S, p, a) == {u \in S : u.pack = p /\ u.activity = a}

\* New material: each enabled pack's unseen units, but a match needs a pair.
NewMaterialItems(enabled, review) ==
    LET Unseen(p, a) == GroupOf(UnitsOf(p) \ DOMAIN review, p, a)
        Groups == {g \in enabled \X Activities :
                     g[2] = "match" => Cardinality(Unseen(g[1], g[2])) >= MATCH_MIN}
        Specs(S, p, a) == SpecsFor(S, p, a, "new", RefKey(S))
    IN  UNION {Specs(Unseen(g[1], g[2]), g[1], g[2]) : g \in Groups}

\* Dated units by due day, then undated ones; curriculum position breaks ties.
DueKey(review, u) ==
    IF review[u].due = Never THEN <<1, 0, u.ref>> ELSE <<0, review[u].due, u.ref>>

\* Review items over the introduced units S, grouped by pack and activity.
ReviewItems(enabled, S, review) ==
    LET key == [u \in S |-> DueKey(review, u)]
    IN  UNION {SpecsFor(GroupOf(S, p, a), p, a, "review", key) :
                 p \in enabled, a \in Activities}

-----------------------------------------------------------------------------
(* The batch.                                                              *)

\* The least sort key of a unit of S.
FirstKey(S, review) ==
    LET first == CHOOSE u \in S : \A v \in S \ {u} :
                     LexLess(DueKey(review, u), DueKey(review, v))
    IN  DueKey(review, first)

\* Mutant: the pack before the due day.
MutantPackBeforeDue(item, source, review, tie) ==
    LET lead == FirstKey(item.units, review)
    IN  <<0, item.pack, lead[1], lead[2], lead[3], tie[item.activity], 0, 0>>

\* Review items by earliest due day (undated ones last), pack and leading
\* position.  The sort is stable, so items equal on these keep the order in
\* which their groups were met while reading the states by due day; groups
\* met on the same day come in whatever order the database returned: tie.
ReviewItemKey(item, source, review, tie) ==
    LET lead == FirstKey(item.units, review)
        group == {DueKey(review, u) :
                    u \in GroupOf(source, item.pack, item.activity)}
        met == CHOOSE k \in group : \A l \in group \ {k} : LexLess(k, l)
    IN  <<0, lead[1], lead[2], item.pack, lead[3], met[1], met[2],
          tie[item.activity]>>

NewItemKey(item) ==
    <<1, item.pack, ActivityOrder[item.activity],
      Min({u.ref : u \in item.units}), 0, 0, 0, 0>>

\* The orders in which equal groups may come back from the database.  Only
\* groups of one pack are compared by it; it is the same order in every pack.
Ties == {t \in [Activities -> 1 .. 3] :
            \A a, b \in Activities : a # b => t[a] # t[b]}

\* Mutant: nothing resurfaces on exhaustion.
MutantNoEarlyReview(enabled, review, now, tie) ==
    LET due == {u \in DOMAIN review : u.pack \in enabled /\ IsDue(review[u], now)}
        candidates == ReviewItems(enabled, due, review)
                          \cup NewMaterialItems(enabled, review)
        key == [item \in candidates |->
                  IF item.kind = "new"
                  THEN NewItemKey(item)
                  ELSE ReviewItemKey(item, due, review, tie)]
        Offset(item) == IndexIn(candidates, item, key) + 1
    IN  {[spec |-> item, offset |-> Offset(item)] :
            item \in {c \in candidates : Offset(c) <= BatchSize}}

GenerateBatch(enabled, review, now, tie) ==
    LET known == {u \in DOMAIN review : u.pack \in enabled}
        due == {u \in known : IsDue(review[u], now)}
        wanted == ReviewItems(enabled, due, review)
                      \cup NewMaterialItems(enabled, review)
        exhausted == wanted = {}
        source == IF exhausted THEN known ELSE due
        candidates == IF exhausted THEN ReviewItems(enabled, known, review)
                                   ELSE wanted
        key == [item \in candidates |->
                  IF item.kind = "new"
                  THEN NewItemKey(item)
                  ELSE ReviewItemKey(item, source, review, tie)]
        Offset(item) == IndexIn(candidates, item, key) + 1
    IN  {[spec |-> item, offset |-> Offset(item)] :
            item \in {c \in candidates : Offset(c) <= BatchSize}}
=============================================================================
