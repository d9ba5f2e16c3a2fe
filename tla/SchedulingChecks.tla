-------------------------- MODULE SchedulingChecks --------------------------
(***************************************************************************)
(* The scheduler against what its documentation asks of it.  A behaviour   *)
(* is one question: either a batch, for some review states of a small      *)
(* curriculum (each unit is new, introduced and not practised, or due on   *)
(* one of the days in Days), or how a number of members is split in chunks.*)
(***************************************************************************)
EXTENDS Scheduling

CONSTANTS
    Days,   \* the due days a practised unit may have
    Today,  \* the day the batch is generated
    MaxCount, MaxHigh   \* the most members to split, and the largest chunk

ASSUME ChecksAssumption ==
    /\ Days \subseteq Nat /\ Today \in Nat
    /\ MaxCount \in Nat /\ MaxHigh \in Nat \ {0}

VARIABLES
    enabled,  \* the packs of the curriculum
    review,   \* the review states of the learner
    tie,      \* the order in which equal groups come back
    batch,    \* what generate_batch returns for them
    split,    \* how many members to split, into chunks of how many at most
    chunks    \* the chunks they are split into

inputs == <<enabled, review, tie, split>>

Practised == {[reps |-> 1, due |-> d] : d \in Days}

AskBatch ==
    /\ enabled \in SUBSET Packs
    /\ \E S \in SUBSET Units : review \in [S -> {Introduced} \cup Practised]
    /\ tie \in {ActivityOrder, [a \in Activities |-> 4 - ActivityOrder[a]]}
    /\ enabled # Packs => tie = ActivityOrder
    /\ split = [count |-> 0, high |-> 1]

AskChunks ==
    /\ enabled = {}
    /\ review = [u \in {} |-> Introduced]
    /\ tie = ActivityOrder
    /\ split \in [count : 0 .. MaxCount, high : 1 .. MaxHigh]

Members == 1 .. split.count

Init ==
    /\ AskBatch \/ AskChunks
    /\ batch = GenerateBatch(enabled, review, Today, tie)
    /\ chunks = Chunks(Members, split.high, [x \in Members |-> <<x>>])

\* The scheduler is a function: an answer, once given, does not change.
Next == UNCHANGED <<inputs, batch, chunks>>

Spec == Init /\ [][Next]_<<inputs, batch, chunks>>

Specs == {b.spec : b \in batch}
Due == {u \in DOMAIN review : u.pack \in enabled /\ review[u].due \in 0 .. Today}
Unseen == (UNION {UnitsOf(p) : p \in enabled}) \ DOMAIN review

\* An unseen character that is the only one of its pack without a match.
Alone(u) ==
    u.activity = "match"
        /\ Cardinality(GroupOf(Unseen, u.pack, "match")) < MATCH_MIN

\* The day an item is due: the earliest of its units, none counting as last.
EarliestDue(spec) == Min({review[u].due : u \in spec.units})

-----------------------------------------------------------------------------
\* Due reviews come first, oldest due first, and new material after them in
\* curriculum order: packs, then trace, match and sentences, then position
\* (module docstring, 1 and 2; FR-28).
BatchOrder ==
    \A b, c \in batch : b.offset < c.offset =>
        /\ c.spec.kind = "review" => b.spec.kind = "review"
        /\ b.spec.kind = "review" /\ c.spec.kind = "review" /\ Due # {} =>
             EarliestDue(b.spec) <= EarliestDue(c.spec)
        /\ b.spec.kind = "new" /\ c.spec.kind = "new" =>
             \A u \in b.spec.units, v \in c.spec.units :
                \/ u.pack < v.pack
                \/ /\ u.pack = v.pack
                   /\ \/ ActivityOrder[u.activity] < ActivityOrder[v.activity]
                      \/ u.activity = v.activity /\ u.ref < v.ref

\* A batch with room to spare leaves out no due unit and no unseen one but a
\* character with none to pair, it has no unit twice, and that of a curriculum
\* with any unit has an item (FR-20).
NothingLeftOut ==
    /\ Cardinality(batch) < BatchSize =>
         Due \cup {u \in Unseen : ~Alone(u)} \subseteq UNION {s.units : s \in Specs}
    /\ \A s, t \in Specs : s # t => s.units \cap t.units = {}
    /\ batch = {} => \A p \in enabled : UnitsOf(p) = {}

\* An item is one activity over a few units of one pack, new only if all its
\* units are unseen, and a review made while something is due or new has due
\* units only (FR-22, FR-23).
ItemsLegitimate ==
    \A s \in Specs :
        /\ s.pack \in enabled
        /\ s.units # {}
        /\ s.units \subseteq GroupOf(Units, s.pack, s.activity)
        /\ Cardinality(s.units) <= MaxMembers[s.activity]
        /\ s.kind = "new" => s.units \subseteq Unseen
        /\ s.kind = "review" /\ (Due # {} \/ \E u \in Unseen : ~Alone(u))
             => s.units \subseteq Due

\* What generate_batch returns can be queued as it is: BatchSize legitimate
\* items at most.
BatchIsSound == Cardinality(batch) <= BatchSize /\ ItemsLegitimate

\* Every member is in exactly one chunk, and chunks keep the members' order:
\* each is a run of neighbours (_split).
ChunksPartition ==
    /\ UNION chunks = Members
    /\ \A c, d \in chunks : c # d => c \cap d = {}
    /\ \A c \in chunks : c # {} /\ c = Min(c) .. Max(c)

\* The chunks are as few as can be and no chunk has more than high members or
\* two fewer than another; the larger ones come first, and past high members
\* none is smaller than half of it and one (_chunk_sizes: FR-22).
ChunksEven ==
    /\ \A c \in chunks : Cardinality(c) <= split.high
    /\ (Cardinality(chunks) - 1) * split.high < split.count \/ split.count = 0
    /\ \A c, d \in chunks : Min(c) < Min(d) =>
          Cardinality(c) - Cardinality(d) \in {0, 1}
    /\ split.count > split.high /\ split.high \in {MaxMembers[a] : a \in Activities} =>
          \A c \in chunks : Cardinality(c) >= split.high \div 2 + 1

\* A group is split fairly: nothing is lost, and the chunks are even.
ChunksFair == ChunksPartition /\ ChunksEven

\* The curriculum of the run: two characters and a sentence, then a character.
TwoPacks == {1, 2}
TwoPacksChars == [p \in TwoPacks |-> IF p = 1 THEN 2 ELSE 1]
TwoPacksSentences == [p \in TwoPacks |-> IF p = 1 THEN 1 ELSE 0]
=============================================================================
