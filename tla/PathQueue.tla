----------------------------- MODULE PathQueue -----------------------------
(***************************************************************************)
(* The requests that read and write the Learning Path of one learner, run  *)
(* concurrently (src/habagou/services/path.py, packs.py and progress.py).  *)
(*                                                                         *)
(* A request runs in a transaction of its own at READ COMMITTED: each      *)
(* statement reads what is committed when it starts, plus the request's    *)
(* own writes.  The row lock of UserRepository.lock_by_id is held until    *)
(* the transaction ends.  Consecutive statements are one action when no    *)
(* other request can change what the later ones read; rows inserted and    *)
(* not committed are in draft.                                             *)
(***************************************************************************)
EXTENDS PathTables

CONSTANTS
    Requests,       \* the server's request slots
    MaxPasses,      \* _MAX_GENERATION_PASSES
    NoRequest,      \* the lock is free
    MaxIds,         \* bound: no GET /path is sent with more items than this made
    MaxReps,        \* bound: no item is completed with a unit at MaxReps
    MaxDay,         \* bound: the last day
    MaxResets       \* bound: the resets under way at once

ASSUME QueueAssumption ==
    /\ MaxPasses \in Nat \ {0}
    /\ NoRequest \notin Requests
    /\ MaxIds \in Nat /\ MaxReps \in Nat /\ MaxDay \in Nat /\ MaxResets \in Nat

VARIABLES
    nextId,       \* the ids of committed items are below this one
    lock,         \* the request that holds the lock on the users row
    pc,           \* the next step of each request
    target,       \* the item, or the pack, a request is about
    curriculum,   \* get_path: the enabled packs it read
    pending,      \* get_path: the pending count it last read
    passes,       \* get_path: the generation passes it has made
    draft,        \* get_path: the items it has inserted and not committed
    resets        \* the resets under way: the completions each is to delete

locals == <<target, curriculum, pending, passes, draft>>
vars == <<items, completions, review, setting, now, nextId, lock, pc,
          target, curriculum, pending, passes, draft, resets>>

-----------------------------------------------------------------------------
(* Steps of a request.                                                     *)

\* The steps that run under the lock (so does a read that appended nothing).
Holding == {"extend", "generate", "check", "record", "enable", "disable"}

\* The step that follows the lock.
Locked == [wait_extend |-> "extend", wait_complete |-> "check",
           wait_enable |-> "enable", wait_disable |-> "disable"]

Steps == {"idle", "read"} \cup Holding \cup DOMAIN Locked

Goto(r, step) == pc' = [pc EXCEPT ![r] = step]

\* The transaction of r ends: its lock, if it has one, is released.
Release(r) == lock' = IF lock = r THEN NoRequest ELSE lock

\* The locals of r go back to their initial values.
Forget(r) ==
    /\ target' = [target EXCEPT ![r] = 0]
    /\ curriculum' = [curriculum EXCEPT ![r] = {}]
    /\ pending' = [pending EXCEPT ![r] = 0]
    /\ passes' = [passes EXCEPT ![r] = 0]
    /\ draft' = [draft EXCEPT ![r] = {}]

Finish(r) == Goto(r, "idle") /\ Release(r) /\ Forget(r)

Init ==
    /\ EmptyTables
    /\ nextId = 1
    /\ lock = NoRequest
    /\ pc = [r \in Requests |-> "idle"]
    /\ target = [r \in Requests |-> 0]
    /\ curriculum = [r \in Requests |-> {}]
    /\ pending = [r \in Requests |-> 0]
    /\ passes = [r \in Requests |-> 0]
    /\ draft = [r \in Requests |-> {}]
    /\ resets = {}

\* Mutant: a lock that others can share.
MutantSharedLock(r) ==
    /\ pc[r] \in DOMAIN Locked
    /\ lock' = r
    /\ Goto(r, Locked[pc[r]])
    /\ UNCHANGED <<database, now, nextId, locals>>

\* SELECT ... FOR UPDATE on the users row.
AcquireLock(r) ==
    /\ pc[r] \in DOMAIN Locked
    /\ lock = NoRequest
    /\ lock' = r
    /\ Goto(r, Locked[pc[r]])
    /\ UNCHANGED <<database, now, nextId, locals>>

-----------------------------------------------------------------------------
(* GET /path.                                                              *)

\* Mutant: the queue is extended without the lock.
MutantExtendUnlocked(r) ==
    /\ pc[r] = "idle"
    /\ nextId <= MaxIds
    /\ Goto(r, "extend")
    /\ UNCHANGED <<database, now, nextId, lock, locals>>

StartGetPath(r) ==
    /\ pc[r] = "idle"
    /\ nextId <= MaxIds
    /\ Goto(r, "wait_extend")
    /\ UNCHANGED <<database, now, nextId, lock, locals>>

\* With no enabled pack the queue is left as it is, and the lock is kept.
ReadCurriculum(r) ==
    /\ pc[r] = "extend"
    /\ curriculum' = [curriculum EXCEPT ![r] = Enabled]
    /\ IF Enabled = {}
       THEN Goto(r, "read") /\ UNCHANGED pending
       ELSE /\ Goto(r, "generate")
            /\ pending' = [pending EXCEPT ![r] = PendingCount(items)]
    /\ UNCHANGED <<database, now, nextId, lock, target, passes, draft>>

WantsMore(r) == pending[r] < PendingWindow /\ passes[r] < MaxPasses

\* The batch scheduled for r when equal groups are read in the order tie.
Batch(r, tie) ==
    GenerateBatch(curriculum[r], Introduce(UnitsIn(draft[r])), now, tie)

\* Mutant: the batch goes before the head of the queue.
MutantPrependedRows(r, batch) ==
    LET first == nextId + Cardinality(draft[r])
    IN  {[id |-> first + b.offset - 1, position |-> 1 - first - b.offset,
          spec |-> b.spec] : b \in batch}

\* The rows that append the batch after the last position.
AppendedRows(r, batch) ==
    LET base == MaxPosition(items \cup draft[r])
        first == nextId + Cardinality(draft[r])
    IN  {[id |-> first + b.offset - 1, position |-> base + b.offset,
          spec |-> b.spec] : b \in batch}

\* One pass of the generation loop.
GeneratePass(r) ==
    /\ pc[r] = "generate"
    /\ WantsMore(r)
    /\ passes' = [passes EXCEPT ![r] = @ + 1]
    /\ UNCHANGED <<database, now, nextId, lock, pc, target, curriculum>>
    /\ \E tie \in Ties :
         LET batch == Batch(r, tie)
             rows == AppendedRows(r, batch)
         IN  /\ batch # {}
             /\ draft' = [draft EXCEPT ![r] = @ \cup rows]
             /\ pending' = [pending EXCEPT
                              ![r] = PendingCount(items \cup draft[r] \cup rows)]

\* The loop ends: what was appended is committed, which frees the lock; with
\* nothing appended the lock stays until the session is closed.
FinishExtend(r) ==
    /\ pc[r] = "generate"
    /\ Goto(r, "read")
    /\ WantsMore(r) => \A tie \in Ties : Batch(r, tie) = {}
    /\ items' = items \cup draft[r]
    /\ review' = Introduce(UnitsIn(draft[r]))
    /\ lock' = IF draft[r] = {} THEN lock ELSE NoRequest
    /\ nextId' = nextId + Cardinality(draft[r])
    /\ draft' = [draft EXCEPT ![r] = {}]
    /\ UNCHANGED <<completions, setting, now, target, curriculum, pending, passes>>

\* The rest of get_path reads the rows, renders them, and closes the session.
RespondPath(r) ==
    /\ pc[r] = "read"
    /\ Finish(r)
    /\ UNCHANGED <<database, now, nextId>>

-----------------------------------------------------------------------------
(* POST /path/items/{id}/complete.                                         *)

\* The first lookup, before the lock.  An unknown item is a 404 that changes
\* nothing.
StartComplete(r, item) ==
    /\ pc[r] = "idle"
    /\ \A u \in item.spec.units \cap DOMAIN review : review[u].reps < MaxReps
    /\ Goto(r, "wait_complete")
    /\ target' = [target EXCEPT ![r] = item.id]
    /\ UNCHANGED <<database, now, nextId, lock, curriculum, pending, passes, draft>>

Targeted(r) == {i \in items : i.id = target[r]}

\* Mutants: has_completion is not asked again under the lock; a 409 leaves the
\* transaction open.
MutantCheckNothing(r) ==
    /\ pc[r] = "check"
    /\ IF Targeted(r) # {}
       THEN Goto(r, "record") /\ UNCHANGED <<lock, locals>>
       ELSE Finish(r)
    /\ UNCHANGED <<database, now, nextId>>

MutantLeakLock(r) ==
    /\ pc[r] = "check"
    /\ IF \E i \in Targeted(r) : ~Done(i)
       THEN Goto(r, "record") /\ UNCHANGED <<lock, locals>>
       ELSE Goto(r, "idle") /\ Forget(r) /\ UNCHANGED lock
    /\ UNCHANGED <<database, now, nextId>>

\* The second lookup and has_completion, under the lock: 404, 409 or go on.
CheckItem(r) ==
    /\ pc[r] = "check"
    /\ IF \E i \in Targeted(r) : ~Done(i)
       THEN Goto(r, "record") /\ UNCHANGED <<lock, locals>>
       ELSE Finish(r)
    /\ UNCHANGED <<database, now, nextId>>

\* Mutant: the event is appended and the projection left behind.
MutantEventOnly(r) ==
    /\ pc[r] = "record"
    /\ \E i \in Targeted(r) :
         completions' = completions \cup {CompletionOf(i, now)}
    /\ Finish(r)
    /\ UNCHANGED <<items, review, setting, now, nextId>>

\* The completion and the ladder are written and committed together.
RecordCompletion(r) ==
    /\ pc[r] = "record"
    /\ \E i \in Targeted(r) :
         /\ completions' = completions \cup {CompletionOf(i, now)}
         /\ review' = Advance(i.spec.units, now)
    /\ Finish(r)
    /\ UNCHANGED <<items, setting, now, nextId>>

-----------------------------------------------------------------------------
(* PUT /packs/{id}/enabled.                                                *)

\* Mutant: the choice is recorded, and the queue pruned, without the lock.
MutantSetUnlocked(r, p, enabled) ==
    /\ pc[r] = "idle"
    /\ Goto(r, IF enabled THEN "enable" ELSE "disable")
    /\ target' = [target EXCEPT ![r] = p]
    /\ UNCHANGED <<database, now, nextId, lock, curriculum, pending, passes, draft>>

StartSetEnabled(r, p, enabled) ==
    /\ pc[r] = "idle"
    /\ Goto(r, IF enabled THEN "wait_enable" ELSE "wait_disable")
    /\ target' = [target EXCEPT ![r] = p]
    /\ UNCHANGED <<database, now, nextId, lock, curriculum, pending, passes, draft>>

EnablePack(r) ==
    /\ pc[r] = "enable"
    /\ setting' = Upsert(target[r], TRUE)
    /\ Finish(r)
    /\ UNCHANGED <<items, completions, review, now, nextId>>

\* Deleting an item cascades to the completions that refer to it.
DisablePack(r) ==
    /\ pc[r] = "disable"
    /\ setting' = Upsert(target[r], FALSE)
    /\ items' = items \ PendingOf(target[r])
    /\ completions' = {c \in completions :
                         \A i \in PendingOf(target[r]) : c.item # i.id}
    /\ Finish(r)
    /\ UNCHANGED <<review, now, nextId>>

-----------------------------------------------------------------------------
(* DELETE /progress/packs/{id}, which takes no lock: the other requests go  *)
(* on between its DELETE and its commit.                                   *)

\* The DELETE statement takes the rows of its snapshot.  Two resets that are
\* to delete the same rows are one as far as the tables go.
AskReset(p) ==
    /\ Cardinality(resets) < MaxResets
    /\ resets' = resets \cup {{c \in completions : c.pack = p}}
    /\ UNCHANGED <<database, now, nextId, lock, pc, locals>>

\* Mutant: the completed lessons go with their events.
MutantResetDropsItems(doomed) ==
    /\ completions' = completions \ doomed
    /\ items' = {i \in items : \A c \in doomed : c.item # i.id}
    /\ resets' = {rows \ doomed : rows \in resets \ {doomed}}
    /\ UNCHANGED <<review, setting, now, nextId, lock, pc, locals>>

\* The commit: the rows are gone, for another reset as well, and what was
\* completed since the DELETE stays.
CommitReset(doomed) ==
    /\ completions' = completions \ doomed
    /\ resets' = {rows \ doomed : rows \in resets \ {doomed}}
    /\ UNCHANGED <<items, review, setting, now, nextId, lock, pc, locals>>

\* The reset fails before its commit.
AbortReset(doomed) ==
    /\ resets' = resets \ {doomed}
    /\ UNCHANGED <<database, now, nextId, lock, pc, locals>>

ResetProgress ==
    \/ \E p \in Packs : AskReset(p)
    \/ \E doomed \in resets : CommitReset(doomed) \/ AbortReset(doomed)

-----------------------------------------------------------------------------
\* The request dies before its commit: its transaction is rolled back.
Abort(r) ==
    /\ pc[r] # "idle"
    /\ Finish(r)
    /\ UNCHANGED <<database, now, nextId>>

NextDay ==
    /\ now < MaxDay
    /\ now' = now + 1
    /\ UNCHANGED <<database, nextId, lock, pc, locals>>

-----------------------------------------------------------------------------
Arrive(r) ==
    \/ StartGetPath(r)
    \/ \E i \in items : StartComplete(r, i)
    \/ \E p \in Packs, enabled \in BOOLEAN : StartSetEnabled(r, p, enabled)

Generate(r) == GeneratePass(r) \/ FinishExtend(r)

Progress(r) ==
    \/ ReadCurriculum(r) \/ RespondPath(r)
    \/ CheckItem(r) \/ RecordCompletion(r)
    \/ EnablePack(r) \/ DisablePack(r)

Handle(r) == Arrive(r) \/ AcquireLock(r) \/ Generate(r) \/ Progress(r) \/ Abort(r)

NextWithoutReset ==
    /\ NextDay \/ \E r \in Requests : Handle(r)
    /\ UNCHANGED resets

Next == NextWithoutReset \/ ResetProgress

Spec == Init /\ [][Next]_vars

\* The learner never resets the progress of a pack.
SpecWithoutReset == Init /\ [][NextWithoutReset]_vars

\* What a step of Generate does to the request, which one of the two can always
\* take: stated without the batch, which is dear to compute.
Loops(r) ==
    /\ pc[r] = "generate"
    /\ \/ passes' = [passes EXCEPT ![r] = @ + 1] /\ UNCHANGED pc
       \/ Goto(r, "read") /\ UNCHANGED passes

\* The server runs every request it has started, and PostgreSQL queues the
\* waiters of a row lock, so a waiter is not passed over for ever.
Fairness ==
    \A r \in Requests :
        /\ WF_vars(Progress(r) /\ UNCHANGED resets)
        /\ WF_<<pc, passes>>(Loops(r))
        /\ SF_vars(AcquireLock(r) /\ UNCHANGED resets)

FairSpec == Spec /\ Fairness

-----------------------------------------------------------------------------
(* Properties.                                                             *)

\* Every variable keeps its type: the rows have the columns of their tables,
\* and a request's locals are what its handler reads.
TypeOK ==
    /\ TablesTypeOK
    /\ nextId \in Nat
    /\ lock \in Requests \cup {NoRequest}
    /\ pc \in [Requests -> Steps]
    /\ target \in [Requests -> Nat]
    /\ curriculum \in [Requests -> SUBSET Packs]
    /\ pending \in [Requests -> Nat]
    /\ passes \in [Requests -> Nat]
    /\ draft \in [Requests -> SUBSET PathItem]
    /\ resets \subseteq SUBSET Completion

\* Disabling a pack never deletes a completed item, and nothing but a reset
\* deletes a completion: a completion that lands while a prune is under way
\* is not cascaded away with its item (complete_item takes set_enabled's lock).
HistoryKept ==
    [][/\ {i \in items : Done(i)} \subseteq items'
       /\ completions \subseteq completions'
             \/ \E doomed \in resets : CommitReset(doomed)]_vars

\* No two rows of the queue, committed or about to be, share a position
\* (uq_path_items_user_position): concurrent reads extend the queue one at a
\* time, and a pruned tail is reused without collision.
PositionsDistinct ==
    \A i, j \in items \cup UNION {draft[r] : r \in Requests} :
        i.position = j.position => i = j

\* The queue is a path: one lesson at a place, and each unit introduced by one
\* lesson at most, whatever requests and prunes come between.
QueueIsSound == PositionsDistinct /\ IntroducedOnce

\* No step takes a review state away, lowers its rung, or brings its due day
\* forward: generating an item never resets a unit that has a state.
LadderNeverDescends ==
    [][\A u \in DOMAIN review :
          /\ u \in DOMAIN review'
          /\ review'[u].reps >= review[u].reps
          /\ review'[u].due >= review[u].due]_vars

\* A GET /path of a learner with something to learn leaves a full window of
\* pending items, new material or not (FR-20, the Path never runs out).
PathNeverRunsOut ==
    [][\A r \in Requests :
          pc[r] = "generate" /\ pc'[r] = "read"
             /\ (\E p \in curriculum[r] : UnitsOf(p) # {})
          => PendingCount(items)' >= PendingWindow]_vars

\* As if each operation took effect in one step, on the rows of that instant;
\* a reset, which takes no lock, in two, with other operations between them.
Contract == INSTANCE PathContract WITH
                items <- items, completions <- completions, review <- review,
                setting <- setting, now <- now, resets <- resets
ImplementsContract == Contract!Spec
ImplementsContractWithoutReset == Contract!SpecWithoutReset

\* Every request is answered: none waits for the lock, or loops, for ever.
RequestsFinish == \A r \in Requests : pc[r] # "idle" ~> pc[r] = "idle"
=============================================================================
