----------------------------- MODULE PathTables -----------------------------
(***************************************************************************)
(* One learner's rows of the tables the Learning Path lives in, what the   *)
(* repositories compute from them, and what must be true of them.          *)
(*                                                                         *)
(* Every statement of the path, pack and progress services is filtered by  *)
(* user_id, so the rows of one learner are the whole state.  Whole-pack    *)
(* completions (source = 'pack') are left out: no statement of the queue   *)
(* reads them.  The content of the packs does not change.                  *)
(***************************************************************************)
EXTENDS Scheduling

CONSTANTS
    Starter,        \* the packs enabled by default (packs.starter)
    PendingWindow   \* PENDING_WINDOW

ASSUME TablesAssumption ==
    /\ Starter \subseteq Packs
    /\ PendingWindow \in Nat \ {0}

VARIABLES
    items,        \* path_items
    completions,  \* activity_completions with source = 'path'
    review,       \* review_states, by unit
    setting,      \* user_pack_settings, by pack
    now           \* the clock, in days

database == <<items, completions, review, setting>>

PathItem == [id : Nat, position : Nat, spec : ItemSpec]
\* copy tells apart several completions of one item, should there be any.
Completion == [item : Nat, copy : Nat, pack : Packs, at : Nat]
ReviewState == [reps : Nat, due : Nat \cup {Never}]

EmptyTables ==
    /\ items = {}
    /\ completions = {}
    /\ review = [u \in {} |-> Introduced]
    /\ setting = [p \in {} |-> TRUE]
    /\ now = 0

-----------------------------------------------------------------------------
(* What the repositories read.                                             *)

Done(item) == \E c \in completions : c.item = item.id

\* A completion of the item at a time, apart from those already in the log.
CompletionOf(item, at) ==
    [item |-> item.id, copy |-> Cardinality({c \in completions : c.item = item.id}),
     pack |-> item.spec.pack, at |-> at]

PendingCount(S) == Cardinality({i \in S : ~Done(i)})

\* func.max(position) over a set of rows, or 0.
MaxPosition(S) == IF S = {} THEN 0 ELSE Max({i.position : i \in S})

\* The enablement overlay: COALESCE(setting.enabled, packs.starter).
Enabled ==
    {p \in Packs : IF p \in DOMAIN setting THEN setting[p] ELSE p \in Starter}

\* Mutant: completed items are deleted too.
MutantAllOf(p) == {i \in items : i.spec.pack = p}

\* delete_pending_for_pack: the rows it deletes.
PendingOf(p) == {i \in items : i.spec.pack = p /\ ~Done(i)}

UnitsIn(S) == UNION {i.spec.units : i \in S}

-----------------------------------------------------------------------------
(* What they write.                                                        *)

\* Mutant: a unit generated again starts again.
MutantIntroduceAfresh(S) ==
    [u \in DOMAIN review \cup S |-> IF u \in S THEN Introduced ELSE review[u]]

\* review_states with a row at reps = 0 for each unit of S that has none.
Introduce(S) ==
    [u \in DOMAIN review \cup S |->
        IF u \in DOMAIN review THEN review[u] ELSE Introduced]

\* _advance_unit for every unit of S, a missing row taken as new.
Advance(S, at) ==
    LET introduced == Introduce(S)
    IN  [u \in DOMAIN introduced |->
           IF u \in S THEN ApplyCompletion(introduced[u], at) ELSE introduced[u]]

Upsert(p, enabled) ==
    [q \in DOMAIN setting \cup {p} |-> IF q = p THEN enabled ELSE setting[q]]

-----------------------------------------------------------------------------
(* What must be true of the rows.                                          *)

TablesTypeOK ==
    /\ items \subseteq PathItem
    /\ completions \subseteq Completion
    /\ DOMAIN review \subseteq Units
    /\ review \in [DOMAIN review -> ReviewState]
    /\ DOMAIN setting \subseteq Packs
    /\ setting \in [DOMAIN setting -> BOOLEAN]
    /\ now \in Nat

\* An item has at most one path completion: two requests that complete the
\* same item at once get one 201 and one 409 (complete_item checks
\* has_completion again under the lock; the table has no such constraint).
OneCompletionPerItem ==
    \A c, d \in completions : c.item = d.item => c = d

\* A unit is introduced by one new item at most, whatever passes, requests and
\* prunes come between (the review state written with the item is what stops
\* generate_batch from emitting it as new again).
IntroducedOnce ==
    \A i, j \in items :
        i.spec.kind = "new" /\ j.spec.kind = "new" /\ i # j =>
            i.spec.units \cap j.spec.units = {}

\* The lessons of a disabled pack have left the queue, and no concurrent GET
\* brings them back (the reason _extend_queue and set_enabled share a lock).
DisabledPackHasNoPending ==
    \A i \in items : ~Done(i) => i.spec.pack \in Enabled

\* The ladder applied once per completion of an item with the unit.
Replay(u) ==
    LET events == {c \in completions :
                     \E i \in items : i.id = c.item /\ u \in i.spec.units}
        reps == Cardinality(events)
    IN  IF events = {}
        THEN Introduced
        ELSE [reps |-> reps, due |-> Max({c.at : c \in events}) + Interval(reps)]

\* rebuild_review_states: a replay for each unit of an item there is.
Rebuilt == [u \in UnitsIn(items) |-> Replay(u)]

\* The rebuild from the log is the live table, for a learner who resets
\* nothing, but for one kind of row: a unit whose lessons were all pruned
\* before one was completed keeps its row, at reps = 0, and the rebuild has
\* none (rebuild_review_states and ADR 0008 claim that the two are equal).
ProjectionMatchesLog ==
    /\ DOMAIN Rebuilt \subseteq DOMAIN review
    /\ \A u \in DOMAIN review :
         review[u] = IF u \in DOMAIN Rebuilt THEN Rebuilt[u] ELSE Introduced

\* No review state is behind the completion log, reset or not: an event and
\* its projection move together (ADR 0008: an event appended without its
\* projection is a bug).
ProjectionNotBehindLog ==
    \A u \in UnitsIn(items) :
        /\ u \in DOMAIN review
        /\ review[u].reps >= Replay(u).reps
        /\ review[u].due >= Replay(u).due
=============================================================================
