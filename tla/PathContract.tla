---------------------------- MODULE PathContract ----------------------------
(***************************************************************************)
(* What the Learning Path promises, with no requests, locks or             *)
(* transactions: each operation takes effect in one step, on the rows as   *)
(* they are at that instant, and what GET /path appends is legitimate for  *)
(* the packs enabled at that instant.  Only a reset takes two: it deletes  *)
(* the completions that were there when it was asked for, and those made   *)
(* since stay.  PathQueue implements it.                                   *)
(***************************************************************************)
EXTENDS PathTables

VARIABLE resets     \* for each reset under way, the completions it is to delete

tables == <<items, completions, review, setting, now, resets>>

ContractInit == EmptyTables /\ resets = {}

\* Appended rows: after every position, under new ids, at distinct positions.
Appends(rows) ==
    /\ rows # {}
    /\ \A i \in rows : \A j \in items :
          i.position > j.position /\ i.id # j.id
    /\ \A i, j \in rows :
          i # j => i.id # j.id /\ i.position # j.position
    /\ \A i \in rows : \A c \in completions : c.item # i.id

\* A lesson over units of one enabled pack, unseen if it is new.
Legitimate(spec) ==
    /\ spec \in ItemSpec
    /\ spec.pack \in Enabled
    /\ spec.units # {}
    /\ spec.units \subseteq UnitsOf(spec.pack)
    /\ spec.kind = "new" => spec.units \cap DOMAIN review = {}

\* No two of the rows introduce the same unit.
IntroduceApart(rows) ==
    \A i, j \in rows :
        i.spec.kind = "new" /\ j.spec.kind = "new" /\ i # j =>
            i.spec.units \cap j.spec.units = {}

\* GET /path appends rows and introduces their units.
Extend ==
    LET rows == items' \ items
    IN  /\ items \subseteq items'
        /\ Appends(rows)
        /\ \A i \in rows : i \in PathItem /\ Legitimate(i.spec)
        /\ IntroduceApart(rows)
        /\ review' = Introduce(UnitsIn(rows))
        /\ UNCHANGED <<completions, setting, now>>

\* POST /path/items/{id}/complete of an item that is pending.
Complete(i) ==
    /\ ~Done(i)
    /\ completions' = completions \cup {CompletionOf(i, now)}
    /\ review' = Advance(i.spec.units, now)
    /\ UNCHANGED <<items, setting, now>>

\* PUT /packs/{id}/enabled with true.
Enable(p) ==
    /\ setting' = Upsert(p, TRUE)
    /\ UNCHANGED <<items, completions, review, now>>

\* PUT /packs/{id}/enabled with false: exactly the pending items of the pack
\* leave the queue, and nothing of the learner's history does.
Disable(p) ==
    /\ setting' = Upsert(p, FALSE)
    /\ items' = items \ PendingOf(p)
    /\ UNCHANGED <<completions, review, now>>

\* DELETE /progress/packs/{id}: all the completions the pack has by then.
AskReset(p) ==
    /\ resets' = resets \cup {{c \in completions : c.pack = p}}
    /\ UNCHANGED <<items, completions, review, setting, now>>

\* They go, unless another reset has taken them; lessons and rungs stay.
Reset(doomed) ==
    /\ completions' = completions \ doomed
    /\ resets' = {rows \ doomed : rows \in resets \ {doomed}}
    /\ UNCHANGED <<items, review, setting, now>>

\* The learner is told that the reset has failed.
GiveUp(doomed) ==
    /\ resets' = resets \ {doomed}
    /\ UNCHANGED <<items, completions, review, setting, now>>

Day ==
    /\ now' = now + 1
    /\ UNCHANGED database

StepWithoutReset ==
    /\ \/ Extend
       \/ \E i \in items : Complete(i)
       \/ \E p \in Packs : Enable(p) \/ Disable(p)
       \/ Day
    /\ UNCHANGED resets

ResetStep ==
    \/ \E p \in Packs : AskReset(p)
    \/ \E doomed \in resets : Reset(doomed) \/ GiveUp(doomed)

Step == StepWithoutReset \/ ResetStep

Spec == ContractInit /\ [][Step]_tables

SpecWithoutReset == ContractInit /\ [][StepWithoutReset]_tables
=============================================================================
