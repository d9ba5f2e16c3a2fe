-------------------------- MODULE PathQueueProofs ---------------------------
(***************************************************************************)
(* What the queue promises, for any curriculum, any number of concurrent   *)
(* requests, any batch size, window and number of passes, and any bounds:  *)
(* types, the lock and the log; then that the queue is sound, never runs   *)
(* out and never falls behind its log, and that its requests implement     *)
(* PathContract.                                                           *)
(***************************************************************************)
EXTENDS PathQueue, SchedulingProofs

-----------------------------------------------------------------------------
(* What the operators on the tables return.                                *)

\* The fields of an item.
LEMMA PathItemFields ==
    ASSUME NEW i \in PathItem
    PROVE  i.id \in Nat /\ i.position \in Nat /\ i.spec \in ItemSpec
BY DEF PathItem

\* The units of items are units.
LEMMA UnitsInType ==
    ASSUME NEW S, S \subseteq PathItem
    PROVE  UnitsIn(S) \subseteq Units
BY DEF UnitsIn, PathItem, ItemSpec

(* A review state per unit of S, those there were unchanged.               *)
LEMMA IntroduceType ==
    ASSUME TablesTypeOK, NEW S, S \subseteq Units
    PROVE  /\ DOMAIN Introduce(S) = DOMAIN review \cup S
           /\ DOMAIN Introduce(S) \subseteq Units
           /\ Introduce(S) \in [DOMAIN Introduce(S) -> ReviewState]
           /\ \A u \in DOMAIN review : Introduce(S)[u] = review[u]
<1>1. Introduced \in ReviewState
  BY DEF Introduced, ReviewState, Never
<1>2. DOMAIN Introduce(S) = DOMAIN review \cup S
  BY DEF Introduce
<1>3. \A u \in DOMAIN review \cup S :
        /\ Introduce(S)[u] = IF u \in DOMAIN review THEN review[u] ELSE Introduced
        /\ Introduce(S)[u] \in ReviewState
  BY <1>1 DEF Introduce, TablesTypeOK
<1>4. Introduce(S) = [u \in DOMAIN Introduce(S) |-> Introduce(S)[u]]
  BY DEF Introduce
<1>5. DOMAIN review \subseteq Units
  BY DEF TablesTypeOK
<1> QED
  <2> HIDE DEF Introduce
  <2> QED BY <1>2, <1>3, <1>4, <1>5

(* The same, each unit of S a rung higher and none lower.                  *)
LEMMA AdvanceType ==
    ASSUME TablesTypeOK, NEW S, S \subseteq Units, NEW at \in Nat
    PROVE  /\ DOMAIN Advance(S, at) = DOMAIN review \cup S
           /\ DOMAIN Advance(S, at) \subseteq Units
           /\ Advance(S, at) \in [DOMAIN Advance(S, at) -> ReviewState]
<1> DEFINE I == Introduce(S)
<1>1. /\ DOMAIN I = DOMAIN review \cup S
      /\ DOMAIN I \subseteq Units
      /\ \A u \in DOMAIN I : I[u] \in ReviewState
  BY IntroduceType
<1>2. \A u \in DOMAIN I : ApplyCompletion(I[u], at) \in ReviewState
  <2> HIDE DEF I
  <2> TAKE u \in DOMAIN I
  <2>1. I[u].reps \in Nat
    BY <1>1 DEF ReviewState
  <2> QED BY <2>1, ApplyCompletionType DEF ReviewState
<1>3. Advance(S, at) =
        [u \in DOMAIN I |-> IF u \in S THEN ApplyCompletion(I[u], at) ELSE I[u]]
  BY DEF Advance
<1> QED
  <2> HIDE DEF I
  <2> QED BY <1>1, <1>2, <1>3

\* The pending items of a finite set can be counted.
LEMMA PendingCountType ==
    ASSUME NEW S, IsFiniteSet(S)
    PROVE  PendingCount(S) \in Nat
<1>1. IsFiniteSet({i \in S : ~Done(i)})
  BY FS_Subset
<1> QED BY <1>1, FS_CardinalityType DEF PendingCount

(* The last position of finitely many rows, which no row is after.         *)
LEMMA MaxPositionType ==
    ASSUME NEW S, S \subseteq PathItem, IsFiniteSet(S)
    PROVE  /\ MaxPosition(S) \in Nat
           /\ \A i \in S : i.position <= MaxPosition(S)
<1>1. CASE S = {}
  BY <1>1 DEF MaxPosition
<1>2. CASE S # {}
  <2> DEFINE f == [i \in S |-> i.position]
             P == {f[i] : i \in S}
  <2>1. P = {i.position : i \in S}
    OBVIOUS
  <2>2. IsFiniteSet(P)
    <3> HIDE DEF f
    <3> QED BY ImageOfFinite
  <2>3. P \subseteq Nat /\ P \subseteq Int /\ P # {}
    BY <1>2, PathItemFields
  <2>4. Max(P) \in P /\ \A y \in P : Max(P) >= y
    <3> HIDE DEF P
    <3> QED BY <2>2, <2>3, MaxOfFinite
  <2>5. MaxPosition(S) = Max(P)
    BY <1>2, <2>1 DEF MaxPosition
  <2>6. \A i \in S : i.position \in P
    BY <2>1
  <2> QED
    <3> HIDE DEF P
    <3> QED BY <2>3, <2>4, <2>5, <2>6
<1> QED BY <1>1, <1>2

(* The rows of a batch: path items over packs that r read as enabled, after *)
(* every row there is and under ids no committed row has.                   *)
LEMMA AppendedRowsType ==
    ASSUME TypeOK, NEW r \in Requests, NEW tie,
           IsFiniteSet(items), IsFiniteSet(draft[r])
    PROVE  LET rows == AppendedRows(r, Batch(r, tie))
           IN  /\ rows \subseteq PathItem
               /\ IsFiniteSet(rows)
               /\ \A i \in rows : /\ i.spec.pack \in curriculum[r]
                                  /\ i.id >= nextId
<1> DEFINE batch == Batch(r, tie)
           base == MaxPosition(items \cup draft[r])
           first == nextId + Cardinality(draft[r])
           row == [b \in batch |-> [id |-> first + b.offset - 1,
                                   position |-> base + b.offset, spec |-> b.spec]]
<1>1. /\ items \subseteq PathItem /\ draft[r] \subseteq PathItem
      /\ curriculum[r] \subseteq Packs /\ nextId \in Nat /\ TablesTypeOK
  BY DEF TypeOK, TablesTypeOK
<1>2. /\ IsFiniteSet(batch)
      /\ \A b \in batch : /\ b.spec \in ItemSpec
                          /\ b.spec.pack \in curriculum[r]
                          /\ b.offset \in Nat \ {0}
  <2>1. UnitsIn(draft[r]) \subseteq Units
    BY <1>1, UnitsInType
  <2>2. DOMAIN Introduce(UnitsIn(draft[r])) \subseteq Units
    BY <1>1, <2>1, IntroduceType
  <2> QED BY <1>1, <2>2, GenerateBatchType DEF Batch
<1>3. base \in Nat
  BY <1>1, FS_Union, MaxPositionType
<1>4. first \in Nat /\ first >= nextId
  BY <1>1, FS_CardinalityType
<1>5. \A b \in batch : /\ row[b] \in PathItem
                       /\ row[b].spec.pack \in curriculum[r]
                       /\ row[b].id >= nextId
  <2> HIDE DEF batch, base, first
  <2> QED BY <1>1, <1>2, <1>3, <1>4 DEF PathItem
<1>6. IsFiniteSet({row[b] : b \in batch})
  <2> HIDE DEF batch, row
  <2> QED BY <1>2, ImageOfFinite
<1>7. AppendedRows(r, batch) = {row[b] : b \in batch}
  <2> HIDE DEF batch
  <2> QED BY DEF AppendedRows
<1> QED
  <2> HIDE DEF batch, row
  <2> QED BY <1>5, <1>6, <1>7 DEF batch

-----------------------------------------------------------------------------
(* Type correctness.  The counts and the last position are numbers because *)
(* every table is finite, and a pack is recorded as enabled or disabled    *)
(* only by a request about a pack.                                         *)

TargetIsPack ==
    \A r \in Requests :
        pc[r] \in {"wait_enable", "wait_disable", "enable", "disable"}
            => target[r] \in Packs

LocalsInv ==
    /\ lock \in Requests \cup {NoRequest}
    /\ pc \in [Requests -> Steps]
    /\ target \in [Requests -> Nat]
    /\ curriculum \in [Requests -> SUBSET Packs]
    /\ pending \in [Requests -> Nat]
    /\ passes \in [Requests -> Nat]
    /\ draft \in [Requests -> SUBSET PathItem]
    /\ \A r \in Requests : IsFiniteSet(draft[r])
    /\ TargetIsPack

TablesInv ==
    /\ TablesTypeOK
    /\ IsFiniteSet(items)
    /\ IsFiniteSet(completions)
    /\ nextId \in Nat

ResetsInv == resets \subseteq SUBSET Completion

TypeInv == TablesInv /\ LocalsInv /\ ResetsInv

\* The inductive invariant implies the type invariant that the runs check.
LEMMA TypeInvGivesTypeOK == TypeInv => TypeOK
BY DEF TypeInv, TablesInv, LocalsInv, ResetsInv, TypeOK

\* Which step a request takes once it has the lock.
LEMMA LockedSteps ==
    /\ DOMAIN Locked = {"wait_extend", "wait_complete", "wait_enable", "wait_disable"}
    /\ Locked["wait_extend"] = "extend" /\ Locked["wait_complete"] = "check"
    /\ Locked["wait_enable"] = "enable" /\ Locked["wait_disable"] = "disable"
BY DEF Locked

\* The steps of a request.
LEMMA StepsAre ==
    Steps = {"idle", "read", "extend", "generate", "check", "record", "enable",
             "disable", "wait_extend", "wait_complete", "wait_enable", "wait_disable"}
BY LockedSteps DEF Steps, Holding

\* The types hold at first.
LEMMA TypeInit == Init => TypeInv
<1> SUFFICES ASSUME Init PROVE TypeInv
  OBVIOUS
<1>1. TablesInv
  BY FS_EmptySet DEF Init, EmptyTables, TablesInv, TablesTypeOK
<1>2. LocalsInv
  BY StepsAre, FS_EmptySet DEF Init, LocalsInv, TargetIsPack
<1>3. ResetsInv
  BY DEF Init, ResetsInv
<1> QED BY <1>1, <1>2, <1>3 DEF TypeInv

(* A reset deletes completions at most, and is no concern of the requests.  *)
LEMMA ResetTouches ==
    ASSUME ResetProgress
    PROVE  /\ UNCHANGED <<items, review, setting, now, nextId, lock, pc, locals>>
           /\ UNCHANGED <<target, curriculum, pending, passes, draft>>
           /\ completions' \subseteq completions
BY DEF ResetProgress, AskReset, CommitReset, AbortReset, database, locals

\* A reset is to delete completions, whichever step is taken.
LEMMA ResetsStep == TablesInv /\ ResetsInv /\ [Next]_vars => ResetsInv'
<1> SUFFICES ASSUME TablesInv, ResetsInv, [Next]_vars PROVE ResetsInv'
  OBVIOUS
<1>1. completions \subseteq Completion /\ resets \subseteq SUBSET Completion
  BY DEF TablesInv, TablesTypeOK, ResetsInv
<1>2. ASSUME NEW p \in Packs, AskReset(p) PROVE ResetsInv'
  BY <1>1, <1>2 DEF AskReset, ResetsInv
<1>3. ASSUME NEW doomed \in resets, CommitReset(doomed) PROVE ResetsInv'
  BY <1>1, <1>3 DEF CommitReset, ResetsInv
<1>4. ASSUME NEW doomed \in resets, AbortReset(doomed) PROVE ResetsInv'
  BY <1>1, <1>4 DEF AbortReset, ResetsInv
<1>5. CASE UNCHANGED resets
  BY <1>1, <1>5 DEF ResetsInv
<1> QED BY <1>2, <1>3, <1>4, <1>5 DEF Next, NextWithoutReset, ResetProgress, vars

(* A request that ends leaves the locals of all requests well formed.      *)
LEMMA FinishKeepsLocals ==
    ASSUME LocalsInv, NEW r \in Requests, Finish(r)
    PROVE  LocalsInv'
<1>1. TargetIsPack'
  BY DEF LocalsInv, TargetIsPack, Finish, Goto, Forget
<1>2. \A q \in Requests : IsFiniteSet(draft'[q])
  BY FS_EmptySet DEF LocalsInv, Finish, Forget
<1>3. pc' \in [Requests -> Steps] /\ lock' \in Requests \cup {NoRequest}
  BY StepsAre DEF LocalsInv, Finish, Goto, Release
<1> QED BY <1>1, <1>2, <1>3 DEF LocalsInv, Finish, Forget

\* Every action keeps the types.
LEMMA TypeStep == TypeInv /\ [Next]_vars => TypeInv'
<1> SUFFICES ASSUME TypeInv, [Next]_vars PROVE TablesInv' /\ LocalsInv'
  BY ResetsStep DEF TypeInv
<1> USE DEF database, locals
<1>a. TablesInv /\ LocalsInv /\ TypeOK
  BY TypeInvGivesTypeOK DEF TypeInv
<1>b. ASSUME UNCHANGED <<database, now, nextId>> PROVE TablesInv'
  BY <1>a, <1>b DEF TablesInv, TablesTypeOK
<1>1. ASSUME NEW r \in Requests, AcquireLock(r) PROVE TablesInv' /\ LocalsInv'
  BY <1>a, <1>b, <1>1, LockedSteps, StepsAre
  DEF AcquireLock, LocalsInv, TargetIsPack, Goto
<1>2. ASSUME NEW r \in Requests, StartGetPath(r) PROVE TablesInv' /\ LocalsInv'
  BY <1>a, <1>b, <1>2, StepsAre DEF StartGetPath, LocalsInv, TargetIsPack, Goto
<1>3. ASSUME NEW r \in Requests, ReadCurriculum(r) PROVE TablesInv' /\ LocalsInv'
  <2>1. Enabled \subseteq Packs
    BY DEF Enabled
  <2>2. PendingCount(items) \in Nat
    BY <1>a, PendingCountType DEF TablesInv
  <2> QED BY <1>a, <1>b, <1>3, <2>1, <2>2, StepsAre
          DEF ReadCurriculum, LocalsInv, TargetIsPack, Goto
<1>4. ASSUME NEW r \in Requests, GeneratePass(r) PROVE TablesInv' /\ LocalsInv'
  <2>1. PICK tie \in Ties :
          /\ draft' = [draft EXCEPT ![r] = @ \cup AppendedRows(r, Batch(r, tie))]
          /\ pending' = [pending EXCEPT ![r] =
                PendingCount(items \cup draft[r] \cup AppendedRows(r, Batch(r, tie)))]
    BY <1>4 DEF GeneratePass
  <2> DEFINE rows == AppendedRows(r, Batch(r, tie))
  <2>2. IsFiniteSet(items) /\ IsFiniteSet(draft[r])
    BY <1>a DEF TablesInv, LocalsInv
  <2>3. rows \subseteq PathItem /\ IsFiniteSet(rows)
    BY <1>a, <2>2, AppendedRowsType
  <2>4. PendingCount(items \cup draft[r] \cup rows) \in Nat
    <3> HIDE DEF rows
    <3>1. IsFiniteSet(items \cup draft[r] \cup rows)
      BY <2>2, <2>3, UnionOfTwo
    <3> QED BY <3>1, PendingCountType
  <2>5. IsFiniteSet(draft[r] \cup rows)
    BY <2>2, <2>3, UnionOfTwo
  <2>6. UNCHANGED <<database, now, nextId, lock, pc, target, curriculum>>
        /\ passes' = [passes EXCEPT ![r] = @ + 1]
    BY <1>4 DEF GeneratePass
  <2> HIDE DEF rows
  <2> QED BY <1>a, <1>b, <2>1, <2>3, <2>4, <2>5, <2>6 DEF LocalsInv, TargetIsPack, rows
<1>5. ASSUME NEW r \in Requests, FinishExtend(r) PROVE TablesInv' /\ LocalsInv'
  <2>1. draft[r] \subseteq PathItem /\ IsFiniteSet(draft[r])
    BY <1>a DEF LocalsInv
  <2>2. /\ DOMAIN Introduce(UnitsIn(draft[r])) \subseteq Units
        /\ Introduce(UnitsIn(draft[r]))
             \in [DOMAIN Introduce(UnitsIn(draft[r])) -> ReviewState]
    BY <1>a, <2>1, UnitsInType, IntroduceType DEF TablesInv
  <2>3. Cardinality(draft[r]) \in Nat
    BY <2>1, FS_CardinalityType
  <2>4. IsFiniteSet(items \cup draft[r])
    BY <1>a, <2>1, UnionOfTwo DEF TablesInv
  <2>5. TablesInv'
    BY <1>a, <1>5, <2>1, <2>2, <2>3, <2>4 DEF FinishExtend, TablesInv, TablesTypeOK
  <2>6. LocalsInv'
    BY <1>a, <1>5, StepsAre, FS_EmptySet
    DEF FinishExtend, LocalsInv, TargetIsPack, Goto
  <2> QED BY <2>5, <2>6
<1>6. ASSUME NEW r \in Requests, Finish(r), UNCHANGED <<database, now, nextId>>
      PROVE  TablesInv' /\ LocalsInv'
  BY <1>a, <1>b, <1>6, FinishKeepsLocals
<1>7. ASSUME NEW r \in Requests, RespondPath(r) \/ Abort(r)
      PROVE  TablesInv' /\ LocalsInv'
  BY <1>6, <1>7 DEF RespondPath, Abort
<1>8. ASSUME NEW r \in Requests, NEW item \in items, StartComplete(r, item)
      PROVE  TablesInv' /\ LocalsInv'
  <2>1. item.id \in Nat
    BY <1>a, PathItemFields DEF TablesInv, TablesTypeOK
  <2> QED BY <1>a, <1>b, <1>8, <2>1, StepsAre
          DEF StartComplete, LocalsInv, TargetIsPack, Goto
<1>9. ASSUME NEW r \in Requests, CheckItem(r) PROVE TablesInv' /\ LocalsInv'
  <2>1. CASE \E i \in Targeted(r) : ~Done(i)
    BY <1>a, <1>b, <1>9, <2>1, StepsAre DEF CheckItem, LocalsInv, TargetIsPack, Goto
  <2>2. CASE ~\E i \in Targeted(r) : ~Done(i)
    BY <1>6, <1>9, <2>2 DEF CheckItem
  <2> QED BY <2>1, <2>2
<1>10. ASSUME NEW r \in Requests, RecordCompletion(r) PROVE TablesInv' /\ LocalsInv'
  <2>1. PICK i \in items : /\ completions' = completions \cup {CompletionOf(i, now)}
                           /\ review' = Advance(i.spec.units, now)
    BY <1>10 DEF RecordCompletion, Targeted
  <2>2. Finish(r) /\ UNCHANGED <<items, setting, now, nextId>>
    BY <1>10 DEF RecordCompletion
  <2>3. /\ i \in PathItem /\ now \in Nat
        /\ i.spec.units \subseteq Units /\ i.spec.pack \in Packs
    BY <1>a, PathItemFields DEF TablesInv, TablesTypeOK, ItemSpec
  <2>4. Cardinality({c \in completions : c.item = i.id}) \in Nat
    <3>1. IsFiniteSet({c \in completions : c.item = i.id})
      BY <1>a, FS_Subset DEF TablesInv
    <3> QED BY <3>1, FS_CardinalityType
  <2>5. CompletionOf(i, now) \in Completion
    BY <2>3, <2>4, PathItemFields DEF CompletionOf, Completion
  <2>6. IsFiniteSet(completions')
    <3>1. IsFiniteSet({CompletionOf(i, now)})
      BY FS_Singleton, Zenon
    <3> QED BY <1>a, <2>1, <3>1, UnionOfTwo DEF TablesInv
  <2>7. DOMAIN review' \subseteq Units /\ review' \in [DOMAIN review' -> ReviewState]
    BY <1>a, <2>1, <2>3, AdvanceType, ZenonT(30) DEF TablesInv
  <2>8. TablesInv'
    BY <1>a, <2>1, <2>2, <2>5, <2>6, <2>7 DEF TablesInv, TablesTypeOK
  <2> QED BY <1>a, <2>2, <2>8, FinishKeepsLocals
<1>11. ASSUME NEW r \in Requests, NEW p \in Packs, NEW enabled \in BOOLEAN,
              StartSetEnabled(r, p, enabled)
       PROVE  TablesInv' /\ LocalsInv'
  <2>1. p \in Nat
    BY CurriculumAssumption
  <2>2. pc' = [pc EXCEPT ![r] = IF enabled THEN "wait_enable" ELSE "wait_disable"]
        /\ target' = [target EXCEPT ![r] = p]
    BY <1>11 DEF StartSetEnabled, Goto
  <2> QED BY <1>a, <1>b, <1>11, <2>1, <2>2, StepsAre
          DEF StartSetEnabled, LocalsInv, TargetIsPack
<1>12. ASSUME NEW p \in Packs, NEW enabled \in BOOLEAN, setting' = Upsert(p, enabled)
       PROVE  DOMAIN setting' \subseteq Packs /\ setting' \in [DOMAIN setting' -> BOOLEAN]
  <2>1. DOMAIN setting \subseteq Packs /\ setting \in [DOMAIN setting -> BOOLEAN]
    BY <1>a DEF TablesInv, TablesTypeOK
  <2> QED BY <1>12, <2>1 DEF Upsert
<1>13. ASSUME NEW r \in Requests, EnablePack(r) PROVE TablesInv' /\ LocalsInv'
  <2>1. target[r] \in Packs
    BY <1>a, <1>13 DEF EnablePack, LocalsInv, TargetIsPack
  <2>2. TablesInv'
    BY <1>a, <1>12, <1>13, <2>1 DEF EnablePack, TablesInv, TablesTypeOK
  <2> QED BY <1>a, <1>13, <2>2, FinishKeepsLocals DEF EnablePack
<1>14. ASSUME NEW r \in Requests, DisablePack(r) PROVE TablesInv' /\ LocalsInv'
  <2>1. target[r] \in Packs
    BY <1>a, <1>14 DEF DisablePack, LocalsInv, TargetIsPack
  <2>2. items' \subseteq items /\ completions' \subseteq completions
    BY <1>14 DEF DisablePack
  <2>3. IsFiniteSet(items') /\ IsFiniteSet(completions')
    BY <1>a, <2>2, FS_Subset DEF TablesInv
  <2>4. DOMAIN setting' \subseteq Packs /\ setting' \in [DOMAIN setting' -> BOOLEAN]
    BY <1>12, <1>14, <2>1 DEF DisablePack
  <2>5. UNCHANGED <<review, now, nextId>>
    BY <1>14 DEF DisablePack
  <2>6. TablesInv'
    BY <1>a, <2>2, <2>3, <2>4, <2>5 DEF TablesInv, TablesTypeOK
  <2> QED BY <1>a, <1>14, <2>6, FinishKeepsLocals DEF DisablePack
<1>15. CASE ResetProgress
  <2>1. /\ UNCHANGED <<items, review, setting, now, nextId, lock, pc>>
        /\ UNCHANGED <<target, curriculum, pending, passes, draft>>
        /\ completions' \subseteq completions
    BY <1>15, ResetTouches
  <2>2. IsFiniteSet(completions')
    BY <1>a, <2>1, FS_Subset DEF TablesInv
  <2> QED BY <1>a, <2>1, <2>2
          DEF TablesInv, TablesTypeOK, LocalsInv, TargetIsPack
<1>16. CASE NextDay
  BY <1>a, <1>16
  DEF NextDay, TablesInv, TablesTypeOK, LocalsInv, TargetIsPack
<1>17. CASE UNCHANGED vars
  BY <1>a, <1>b, <1>17 DEF vars, LocalsInv, TargetIsPack
<1> QED
  BY <1>1, <1>2, <1>3, <1>4, <1>5, <1>7, <1>8, <1>9, <1>10, <1>11, <1>13, <1>14,
     <1>15, <1>16, <1>17
  DEF Next, NextWithoutReset, Handle, Arrive, Generate, Progress

\* Types, with the finiteness that the counting of the window relies on
\* (_extend_queue counts the pending items).
THEOREM TypeInvariant == Spec => []TypeInv
BY TypeInit, TypeStep, PTL DEF Spec

(* Every variable keeps its type, in every run of the requests and resets.  *)
THEOREM TypeCorrect == Spec => []TypeOK
BY TypeInvariant, TypeInvGivesTypeOK, PTL

-----------------------------------------------------------------------------
(* The lock.  A request at a step that needs the lock has it, so that no    *)
(* two requests are at such steps at once.                                  *)

LockInv == \A r \in Requests : pc[r] \in Holding => lock = r

\* Nobody holds the lock at first.
LEMMA LockInit == Init => LockInv
BY DEF Init, LockInv, Holding

\* A request that ends gives up the lock it holds.
LEMMA FinishKeepsLock ==
    ASSUME TypeInv, LockInv, NEW r \in Requests, Finish(r)
    PROVE  LockInv'
<1>1. pc \in [Requests -> Steps]
  BY DEF TypeInv, LocalsInv
<1> QED BY <1>1 DEF LockInv, Finish, Goto, Release, Holding

\* Only a holder is ever at a step that needs the lock.
LEMMA LockStep == TypeInv /\ LockInv /\ [Next]_vars => LockInv'
<1> SUFFICES ASSUME TypeInv, LockInv, [Next]_vars PROVE LockInv'
  OBVIOUS
<1> USE DEF database, locals
<1>a. pc \in [Requests -> Steps] /\ NoRequest \notin Requests
  BY QueueAssumption DEF TypeInv, LocalsInv
<1>1. ASSUME NEW r \in Requests, AcquireLock(r) PROVE LockInv'
  BY <1>a, <1>1 DEF AcquireLock, LockInv, Goto
<1>2. ASSUME NEW r \in Requests, StartGetPath(r) PROVE LockInv'
  BY <1>a, <1>2 DEF StartGetPath, LockInv, Goto, Holding
<1>3. ASSUME NEW r \in Requests, ReadCurriculum(r) PROVE LockInv'
  BY <1>a, <1>3 DEF ReadCurriculum, LockInv, Goto, Holding
<1>4. ASSUME NEW r \in Requests, GeneratePass(r) PROVE LockInv'
  BY <1>4 DEF GeneratePass, LockInv
<1>5. ASSUME NEW r \in Requests, FinishExtend(r) PROVE LockInv'
  BY <1>a, <1>5 DEF FinishExtend, LockInv, Goto, Holding
<1>6. ASSUME NEW r \in Requests, NEW item \in items, StartComplete(r, item)
      PROVE  LockInv'
  BY <1>a, <1>6 DEF StartComplete, LockInv, Goto, Holding
<1>7. ASSUME NEW r \in Requests, CheckItem(r) PROVE LockInv'
  BY <1>a, <1>7, FinishKeepsLock DEF CheckItem, LockInv, Goto, Holding
<1>8. ASSUME NEW r \in Requests, NEW p \in Packs, NEW enabled \in BOOLEAN,
             StartSetEnabled(r, p, enabled)
      PROVE  LockInv'
  BY <1>a, <1>8 DEF StartSetEnabled, LockInv, Goto, Holding
<1>9. ASSUME NEW r \in Requests,
             \/ RespondPath(r) \/ Abort(r) \/ RecordCompletion(r)
             \/ EnablePack(r) \/ DisablePack(r)
      PROVE  LockInv'
  BY <1>9, FinishKeepsLock DEF RespondPath, Abort, RecordCompletion, EnablePack, DisablePack
<1>10. CASE NextDay \/ ResetProgress \/ UNCHANGED vars
  BY <1>10, ResetTouches DEF NextDay, vars, LockInv
<1> QED
  BY <1>1, <1>2, <1>3, <1>4, <1>5, <1>6, <1>7, <1>8, <1>9, <1>10
  DEF Next, NextWithoutReset, Handle, Arrive, Generate, Progress

-----------------------------------------------------------------------------
(* One completion per item.  What the second has_completion found stays     *)
(* true until the completion is recorded: only the holder of the lock adds  *)
(* a completion, and a reset or a prune only takes some away.               *)

StillPending ==
    \A r \in Requests : pc[r] = "record" => \A c \in completions : c.item # target[r]

CompletionInv == TypeInv /\ LockInv /\ StillPending /\ OneCompletionPerItem

\* Nothing is completed at first.
LEMMA CompletionInit == Init => CompletionInv
BY TypeInit, LockInit
DEF Init, EmptyTables, CompletionInv, StillPending, OneCompletionPerItem

\* No step completes an item that has a completion.
LEMMA CompletionStep == CompletionInv /\ [Next]_vars => CompletionInv'
<1> SUFFICES ASSUME CompletionInv, [Next]_vars
             PROVE  StillPending' /\ OneCompletionPerItem'
  BY TypeStep, LockStep DEF CompletionInv
<1> USE DEF database, locals
<1>a. /\ StillPending /\ OneCompletionPerItem /\ LockInv
      /\ pc \in [Requests -> Steps] /\ target \in [Requests -> Nat]
  BY DEF CompletionInv, TypeInv, LocalsInv
\* A step that adds no completion, and takes no other request to "record".
<1>b. ASSUME completions' \subseteq completions,
             \A r \in Requests :
                pc'[r] = "record" => pc[r] = "record" /\ target'[r] = target[r]
      PROVE  StillPending' /\ OneCompletionPerItem'
  BY <1>a, <1>b DEF StillPending, OneCompletionPerItem
<1>c. ASSUME NEW r \in Requests, Finish(r), completions' \subseteq completions
      PROVE  StillPending' /\ OneCompletionPerItem'
  BY <1>a, <1>b, <1>c DEF Finish, Goto, Forget
<1>1. ASSUME NEW r \in Requests,
             \/ AcquireLock(r) \/ StartGetPath(r) \/ ReadCurriculum(r)
             \/ GeneratePass(r) \/ FinishExtend(r)
             \/ \E item \in items : StartComplete(r, item)
             \/ \E p \in Packs, enabled \in BOOLEAN : StartSetEnabled(r, p, enabled)
      PROVE  StillPending' /\ OneCompletionPerItem'
  <2>1. completions' = completions
    BY <1>1 DEF AcquireLock, StartGetPath, ReadCurriculum, GeneratePass,
                FinishExtend, StartComplete, StartSetEnabled
  <2>2. \A q \in Requests : pc'[q] = "record" => pc[q] = "record"
    BY <1>a, <1>1, LockedSteps
    DEF AcquireLock, StartGetPath, ReadCurriculum, GeneratePass,
        FinishExtend, StartComplete, StartSetEnabled, Goto
  <2>3. \A q \in Requests : pc'[q] = "record" => target'[q] = target[q]
    BY <1>a, <1>1, LockedSteps
    DEF AcquireLock, StartGetPath, ReadCurriculum, GeneratePass,
        FinishExtend, StartComplete, StartSetEnabled, Goto
  <2> QED BY <1>b, <2>1, <2>2, <2>3
<1>2. ASSUME NEW r \in Requests, CheckItem(r)
      PROVE  StillPending' /\ OneCompletionPerItem'
  <2>1. CASE \E i \in Targeted(r) : ~Done(i)
    <3>1. \A c \in completions : c.item # target[r]
      BY <2>1 DEF Targeted, Done
    <3> QED BY <1>a, <1>2, <2>1, <3>1
            DEF CheckItem, Goto, StillPending, OneCompletionPerItem
  <2>2. CASE ~\E i \in Targeted(r) : ~Done(i)
    BY <1>2, <1>c, <2>2 DEF CheckItem
  <2> QED BY <2>1, <2>2
<1>3. ASSUME NEW r \in Requests, RecordCompletion(r)
      PROVE  StillPending' /\ OneCompletionPerItem'
  <2>1. PICK i \in items : /\ i.id = target[r]
                           /\ completions' = completions \cup {CompletionOf(i, now)}
    BY <1>3 DEF RecordCompletion, Targeted
  <2>2. CompletionOf(i, now).item = target[r]
    BY <2>1 DEF CompletionOf
  <2>3. \A c \in completions : c.item # target[r]
    BY <1>a, <1>3 DEF RecordCompletion, StillPending
  <2>4. OneCompletionPerItem'
    BY <1>a, <2>1, <2>2, <2>3 DEF OneCompletionPerItem
  <2>5. \A q \in Requests : pc'[q] # "record"
    BY <1>a, <1>3 DEF RecordCompletion, Finish, Goto, LockInv, Holding
  <2> QED BY <2>4, <2>5 DEF StillPending
<1>4. ASSUME NEW r \in Requests,
             RespondPath(r) \/ Abort(r) \/ EnablePack(r) \/ DisablePack(r)
      PROVE  StillPending' /\ OneCompletionPerItem'
  BY <1>c, <1>4 DEF RespondPath, Abort, EnablePack, DisablePack
<1>5. CASE NextDay \/ ResetProgress \/ UNCHANGED vars
  BY <1>b, <1>5, ResetTouches DEF NextDay, vars
<1> QED
  BY <1>1, <1>2, <1>3, <1>4, <1>5
  DEF Next, NextWithoutReset, Handle, Arrive, Generate, Progress

(* An item never has two completions, however many requests complete it at  *)
(* once and whatever resets, prunes and rollbacks come between.             *)
THEOREM CompletedAtMostOnce == Spec => []OneCompletionPerItem
<1>1. CompletionInv => OneCompletionPerItem
  BY DEF CompletionInv
<1> QED BY <1>1, CompletionInit, CompletionStep, PTL DEF Spec

-----------------------------------------------------------------------------
(* History.  A completed item is in no step's way: a prune takes pending    *)
(* items only, and a completion goes with a reset or stays.                 *)

\* A step keeps what is completed unless it is a reset.
LEMMA HistoryStep ==
    ASSUME [Next]_vars
    PROVE  /\ {i \in items : Done(i)} \subseteq items'
           /\ completions \subseteq completions' \/ \E doomed \in resets : CommitReset(doomed)
<1> USE DEF database, locals
<1>1. ASSUME items \subseteq items', completions \subseteq completions'
      PROVE  /\ {i \in items : Done(i)} \subseteq items'
             /\ completions \subseteq completions' \/ \E doomed \in resets : CommitReset(doomed)
  BY <1>1
<1>2. ASSUME NEW r \in Requests, DisablePack(r)
      PROVE  {i \in items : Done(i)} \subseteq items' /\ completions \subseteq completions'
  <2>1. items' = items \ PendingOf(target[r])
    BY <1>2 DEF DisablePack
  <2>2. \A c \in completions : \A i \in PendingOf(target[r]) : c.item # i.id
    BY DEF PendingOf, Done
  <2>3. completions' = {c \in completions : \A i \in PendingOf(target[r]) : c.item # i.id}
    BY <1>2 DEF DisablePack
  <2> QED BY <2>1, <2>2, <2>3 DEF PendingOf
<1>3. ASSUME NEW r \in Requests, Handle(r), ~DisablePack(r)
      PROVE  items \subseteq items' /\ completions \subseteq completions'
  BY <1>3 DEF Handle, Arrive, Generate, Progress, AcquireLock, StartGetPath, ReadCurriculum,
              GeneratePass, FinishExtend, RespondPath, StartComplete, CheckItem,
              RecordCompletion, StartSetEnabled, EnablePack, Abort
<1>4. ASSUME ResetProgress
      PROVE  /\ {i \in items : Done(i)} \subseteq items'
             /\ completions \subseteq completions' \/ \E doomed \in resets : CommitReset(doomed)
  BY <1>4 DEF ResetProgress, AskReset, CommitReset, AbortReset
<1>5. CASE NextDay \/ UNCHANGED vars
  BY <1>5 DEF NextDay, vars
<1> QED BY <1>1, <1>2, <1>3, <1>4, <1>5 DEF Next, NextWithoutReset

(* Disabling a pack deletes no completed item, and nothing but a reset of a *)
(* pack deletes a completion.                                               *)
THEOREM HistoryIsKept == Spec => HistoryKept
<1>1. [Next]_vars =>
        [/\ {i \in items : Done(i)} \subseteq items'
         /\ completions \subseteq completions' \/ \E doomed \in resets : CommitReset(doomed)]_vars
  BY HistoryStep
<1> QED BY <1>1, PTL DEF Spec, HistoryKept

-----------------------------------------------------------------------------
(* Disabled packs.  What GET /path is about to append was scheduled for the *)
(* packs enabled now, not when it started, because enabling and disabling   *)
(* a pack wait for the lock it holds; nothing is drafted without the lock.  *)

DraftIsEnabled ==
    \A r \in Requests :
        IF pc[r] = "generate"
        THEN /\ curriculum[r] \subseteq Enabled
             /\ \A i \in draft[r] : i.spec.pack \in Enabled
        ELSE draft[r] = {}

\* What is drafted stays a draft of enabled packs.
LEMMA DraftEnabledStep == TypeInv /\ LockInv /\ DraftIsEnabled /\ [Next]_vars => DraftIsEnabled'
<1> SUFFICES ASSUME TypeInv, LockInv, DraftIsEnabled, [Next]_vars PROVE DraftIsEnabled'
  OBVIOUS
<1> USE DEF database, locals
<1>a. /\ DraftIsEnabled /\ LockInv /\ TypeOK
      /\ pc \in [Requests -> Steps] /\ draft \in [Requests -> SUBSET PathItem]
      /\ curriculum \in [Requests -> SUBSET Packs]
      /\ IsFiniteSet(items) /\ \A r \in Requests : IsFiniteSet(draft[r])
  BY TypeInvGivesTypeOK DEF TypeInv, TablesInv, LocalsInv
<1>b. setting' = setting => Enabled' = Enabled
  BY DEF Enabled
\* A step of r outside the generation loop.
<1>c. ASSUME NEW r \in Requests, NEW step \in Steps, step # "generate",
             pc' = [pc EXCEPT ![r] = step], draft'[r] = {},
             \A q \in Requests : q # r => draft'[q] = draft[q] /\ curriculum'[q] = curriculum[q],
             Enabled' = Enabled
      PROVE  DraftIsEnabled'
  BY <1>a, <1>c DEF DraftIsEnabled
<1>d. ASSUME NEW r \in Requests, Finish(r), Enabled' = Enabled PROVE DraftIsEnabled'
  <2>1. "idle" \in Steps
    BY StepsAre
  <2> QED BY <1>a, <1>c, <1>d, <2>1 DEF Finish, Goto, Forget
<1>1. ASSUME NEW r \in Requests,
             \/ AcquireLock(r) \/ StartGetPath(r)
             \/ \E item \in items : StartComplete(r, item)
             \/ \E p \in Packs, enabled \in BOOLEAN : StartSetEnabled(r, p, enabled)
      PROVE  DraftIsEnabled'
  <2>1. UNCHANGED <<setting, draft, curriculum>> /\ pc[r] # "generate"
    BY <1>1, LockedSteps DEF AcquireLock, StartGetPath, StartComplete, StartSetEnabled
  <2>2. \E step \in Steps : step # "generate" /\ pc' = [pc EXCEPT ![r] = step]
    BY <1>1, LockedSteps, StepsAre
    DEF AcquireLock, StartGetPath, StartComplete, StartSetEnabled, Goto
  <2>3. draft[r] = {}
    BY <1>a, <2>1 DEF DraftIsEnabled
  <2> QED BY <1>b, <1>c, <2>1, <2>2, <2>3
<1>2. ASSUME NEW r \in Requests, ReadCurriculum(r) PROVE DraftIsEnabled'
  <2>1. UNCHANGED <<setting, draft>> /\ curriculum' = [curriculum EXCEPT ![r] = Enabled]
    BY <1>2 DEF ReadCurriculum
  <2>2. draft[r] = {}
    BY <1>a, <1>2 DEF ReadCurriculum, DraftIsEnabled
  <2>3. pc' = [pc EXCEPT ![r] = "read"] \/ pc' = [pc EXCEPT ![r] = "generate"]
    BY <1>2 DEF ReadCurriculum, Goto
  <2> QED BY <1>a, <1>b, <2>1, <2>2, <2>3 DEF DraftIsEnabled
<1>3. ASSUME NEW r \in Requests, GeneratePass(r) PROVE DraftIsEnabled'
  <2>1. PICK tie \in Ties :
          draft' = [draft EXCEPT ![r] = @ \cup AppendedRows(r, Batch(r, tie))]
    BY <1>3 DEF GeneratePass
  <2>2. UNCHANGED <<setting, pc, curriculum>> /\ pc[r] = "generate"
    BY <1>3 DEF GeneratePass
  <2>3. \A i \in AppendedRows(r, Batch(r, tie)) : i.spec.pack \in curriculum[r]
    BY <1>a, AppendedRowsType
  <2> QED BY <1>a, <1>b, <2>1, <2>2, <2>3 DEF DraftIsEnabled
<1>4. ASSUME NEW r \in Requests, FinishExtend(r) PROVE DraftIsEnabled'
  <2>1. /\ UNCHANGED <<setting, curriculum>>
        /\ pc' = [pc EXCEPT ![r] = "read"] /\ draft' = [draft EXCEPT ![r] = {}]
    BY <1>4 DEF FinishExtend, Goto
  <2>2. "read" \in Steps
    BY StepsAre
  <2> QED BY <1>a, <1>b, <1>c, <2>1, <2>2
<1>5. ASSUME NEW r \in Requests, RespondPath(r) \/ Abort(r) \/ RecordCompletion(r)
      PROVE  DraftIsEnabled'
  <2>1. Finish(r) /\ setting' = setting
    BY <1>5 DEF RespondPath, Abort, RecordCompletion
  <2> QED BY <1>b, <1>d, <2>1
<1>6. ASSUME NEW r \in Requests, CheckItem(r) PROVE DraftIsEnabled'
  <2>1. UNCHANGED setting /\ pc[r] = "check"
    BY <1>6 DEF CheckItem
  <2>2. Finish(r) \/ (pc' = [pc EXCEPT ![r] = "record"] /\ UNCHANGED <<draft, curriculum>>)
    BY <1>6 DEF CheckItem, Goto
  <2>3. "record" \in Steps /\ draft[r] = {}
    BY <1>a, <2>1, StepsAre DEF DraftIsEnabled
  <2> QED BY <1>b, <1>c, <1>d, <2>1, <2>2, <2>3
\* While r enables or disables a pack, no other request is in the loop.
<1>7. ASSUME NEW r \in Requests, EnablePack(r) \/ DisablePack(r) PROVE DraftIsEnabled'
  <2>1. Finish(r) /\ pc[r] \in {"enable", "disable"}
    BY <1>7 DEF EnablePack, DisablePack
  <2>2. \A q \in Requests : pc[q] # "generate"
    BY <1>a, <2>1 DEF LockInv, Holding
  <2>3. \A q \in Requests : pc'[q] # "generate" /\ draft'[q] = {}
    BY <1>a, <2>1, <2>2 DEF Finish, Goto, Forget, DraftIsEnabled
  <2> QED BY <2>3 DEF DraftIsEnabled
<1>8. CASE NextDay \/ ResetProgress \/ UNCHANGED vars
  <2>1. UNCHANGED <<setting, pc, draft, curriculum>>
    BY <1>8, ResetTouches DEF NextDay, vars
  <2> QED BY <1>a, <1>b, <2>1 DEF DraftIsEnabled
<1> QED
  BY <1>1, <1>2, <1>3, <1>4, <1>5, <1>6, <1>7, <1>8
  DEF Next, NextWithoutReset, Handle, Arrive, Generate, Progress

\* A step that no one sees in the tables: at most a draft is rolled back.
Quiet ==
    /\ UNCHANGED <<items, completions, review, setting, now, nextId>>
    /\ \A r \in Requests : draft'[r] = draft[r] \/ draft'[r] = {}

(* The steps that are seen in the tables, and the one that adds to a draft. *)
LEMMA StepKinds ==
    ASSUME TypeInv, [Next]_vars
    PROVE  \/ Quiet
           \/ \E r \in Requests : \/ GeneratePass(r) \/ FinishExtend(r) \/ RecordCompletion(r)
                                  \/ EnablePack(r) \/ DisablePack(r)
           \/ NextDay
           \/ ResetProgress /\ ~[NextWithoutReset]_vars
<1> USE DEF database, locals
<1>1. draft \in [Requests -> SUBSET PathItem]
  BY DEF TypeInv, LocalsInv
<1>2. ASSUME NEW r \in Requests, Finish(r), UNCHANGED <<database, now, nextId>> PROVE Quiet
  BY <1>1, <1>2 DEF Finish, Forget, Quiet
<1>3. ASSUME NEW r \in Requests, RespondPath(r) \/ Abort(r) \/ CheckItem(r) PROVE Quiet
  <2>1. UNCHANGED <<database, now, nextId>> /\ (Finish(r) \/ draft' = draft)
    BY <1>3 DEF RespondPath, Abort, CheckItem
  <2> QED BY <1>2, <2>1 DEF Quiet
<1>4. ASSUME NEW r \in Requests, Arrive(r) \/ AcquireLock(r) \/ ReadCurriculum(r) PROVE Quiet
  BY <1>4 DEF Arrive, AcquireLock, StartGetPath, StartComplete, StartSetEnabled,
              ReadCurriculum, Quiet
<1>5. CASE UNCHANGED vars
  BY <1>5 DEF vars, Quiet
<1> QED BY <1>3, <1>4, <1>5 DEF Next, NextWithoutReset, Handle, Generate, Progress

EnabledInv == TypeInv /\ LockInv /\ DraftIsEnabled /\ DisabledPackHasNoPending

\* No pack has a pending item at first.
LEMMA EnabledInit == Init => EnabledInv
BY TypeInit, LockInit
DEF Init, EmptyTables, EnabledInv, DraftIsEnabled, DisabledPackHasNoPending

\* Without resets no step leaves a pending item to a disabled pack.
LEMMA EnabledStep == EnabledInv /\ [NextWithoutReset]_vars => EnabledInv'
<1> SUFFICES ASSUME EnabledInv, [NextWithoutReset]_vars
             PROVE  DisabledPackHasNoPending'
  BY TypeStep, LockStep, DraftEnabledStep DEF EnabledInv, Next
<1> USE DEF database, locals
<1>a. DisabledPackHasNoPending /\ DraftIsEnabled /\ TypeInv /\ [Next]_vars
  BY DEF EnabledInv, Next
<1>1. ASSUME items' \subseteq items, completions \subseteq completions', UNCHANGED setting
      PROVE  DisabledPackHasNoPending'
  BY <1>a, <1>1 DEF DisabledPackHasNoPending, Done, Enabled
<1>2. CASE Quiet \/ NextDay \/ \E r \in Requests : GeneratePass(r) \/ RecordCompletion(r)
  BY <1>1, <1>2 DEF Quiet, NextDay, GeneratePass, RecordCompletion
<1>3. ASSUME NEW r \in Requests, FinishExtend(r) PROVE DisabledPackHasNoPending'
  <2>1. items' = items \cup draft[r] /\ UNCHANGED <<completions, setting>> /\ pc[r] = "generate"
    BY <1>3 DEF FinishExtend
  <2>2. \A i \in draft[r] : i.spec.pack \in Enabled
    BY <1>a, <2>1 DEF DraftIsEnabled
  <2> QED BY <1>a, <2>1, <2>2 DEF DisabledPackHasNoPending, Done, Enabled
<1>4. ASSUME NEW r \in Requests, EnablePack(r) PROVE DisabledPackHasNoPending'
  <2>1. UNCHANGED <<items, completions>> /\ setting' = Upsert(target[r], TRUE)
    BY <1>4 DEF EnablePack
  <2>2. Enabled \subseteq Enabled'
    BY <2>1 DEF Enabled, Upsert
  <2> QED BY <1>a, <2>1, <2>2 DEF DisabledPackHasNoPending, Done
<1>5. ASSUME NEW r \in Requests, DisablePack(r) PROVE DisabledPackHasNoPending'
  <2>1. /\ setting' = Upsert(target[r], FALSE)
        /\ items' = items \ PendingOf(target[r])
        /\ completions' = {c \in completions :
                             \A i \in PendingOf(target[r]) : c.item # i.id}
    BY <1>5 DEF DisablePack
  <2>2. completions' = completions
    BY <2>1 DEF PendingOf, Done
  <2>3. Enabled \ {target[r]} \subseteq Enabled'
    BY <2>1 DEF Enabled, Upsert
  <2> QED BY <1>a, <2>1, <2>2, <2>3 DEF DisabledPackHasNoPending, Done, PendingOf
<1> QED BY <1>a, <1>2, <1>3, <1>4, <1>5, StepKinds

(* For a learner who resets nothing, a disabled pack has no pending lesson, *)
(* whatever reads of the path race with the disabling.                      *)
THEOREM DisabledStaysPruned == SpecWithoutReset => []DisabledPackHasNoPending
<1>1. EnabledInv => DisabledPackHasNoPending
  BY DEF EnabledInv
<1> QED BY <1>1, EnabledInit, EnabledStep, PTL DEF SpecWithoutReset

-----------------------------------------------------------------------------
(* The ladder.  No due day is further off than the interval of its rung, so *)
(* the next completion, on a rung as high or higher, cannot bring it back.  *)

LadderInv ==
    \A u \in DOMAIN review :
        IF review[u].reps = 0
        THEN review[u].due = Never
        ELSE review[u].due <= now + Interval(review[u].reps)

\* The next rung of the ladder is no nearer.
LEMMA IntervalGrows ==
    ASSUME NEW n \in Nat \ {0}
    PROVE  /\ Interval(n) \in Nat /\ Interval(n + 1) \in Nat
           /\ Interval(n) <= Interval(n + 1)
<1>1. Len(LADDER) = 5
  BY DEF LADDER
<1>2. /\ LADDER[1] = 1 /\ LADDER[2] = 3 /\ LADDER[3] = 7
      /\ LADDER[4] = 14 /\ LADDER[5] = 30
  BY DEF LADDER
<1> QED
  <2>1. CASE n >= 5
    BY <1>1, <1>2, <2>1 DEF Interval
  <2>2. CASE n \in {1, 2, 3, 4}
    BY <1>1, <1>2, <2>2 DEF Interval
  <2> QED BY <2>1, <2>2

(* A review state climbs: same or higher rung, same or later due day.      *)
Climbs(old, new) == new.reps >= old.reps /\ new.due >= old.due

\* A completion takes a state up a rung, to a due day that is no earlier.
LEMMA CompletionClimbs ==
    ASSUME NEW state \in ReviewState, NEW at \in Nat,
           IF state.reps = 0 THEN state.due = Never
                             ELSE state.due <= at + Interval(state.reps)
    PROVE  /\ Climbs(state, ApplyCompletion(state, at))
           /\ ApplyCompletion(state, at).reps # 0
           /\ ApplyCompletion(state, at).due
                <= at + Interval(ApplyCompletion(state, at).reps)
<1> DEFINE next == ApplyCompletion(state, at)
<1>1. state.reps \in Nat /\ state.due \in Int
  BY DEF ReviewState, Never
<1>2. next.reps = state.reps + 1 /\ next.due = at + Interval(state.reps + 1)
  BY DEF ApplyCompletion
<1>3. CASE state.reps = 0
  <2>1. Interval(1) = 1
    BY DEF Interval, LADDER
  <2> QED BY <1>1, <1>2, <1>3, <2>1 DEF Climbs, Never
<1>4. CASE state.reps # 0
  <2>1. /\ Interval(state.reps) \in Nat /\ Interval(state.reps + 1) \in Nat
        /\ Interval(state.reps) <= Interval(state.reps + 1)
    BY <1>1, <1>4, IntervalGrows
  <2> QED BY <1>1, <1>2, <1>4, <2>1 DEF Climbs
<1> QED BY <1>3, <1>4

\* There are no states at first.
LEMMA LadderInit == Init => LadderInv
BY DEF Init, EmptyTables, LadderInv

\* Every step keeps due days within their intervals and takes no state down.
LEMMA LadderStep ==
    ASSUME TypeInv, LadderInv, [Next]_vars
    PROVE  /\ LadderInv'
           /\ \A u \in DOMAIN review : u \in DOMAIN review' /\ Climbs(review[u], review'[u])
<1> USE DEF database, locals
<1>a. /\ TablesTypeOK /\ now \in Nat /\ DOMAIN review \subseteq Units
      /\ \A u \in DOMAIN review : review[u] \in ReviewState
  BY DEF TypeInv, TablesInv, TablesTypeOK
<1>b. \A u \in DOMAIN review : /\ review[u].reps \in Nat /\ review[u].due \in Int
                               /\ review[u].reps # 0 => Interval(review[u].reps) \in Nat
  BY <1>a, IntervalGrows DEF ReviewState, Never
<1>c. \A u \in DOMAIN review : Climbs(review[u], review[u])
  <2> TAKE u \in DOMAIN review
  <2>1. review[u].reps \in Nat /\ review[u].due \in Int
    BY <1>b
  <2> QED BY <2>1 DEF Climbs
<1>d. ASSUME NEW u \in DOMAIN review, review[u].reps # 0
      PROVE  review[u].due <= now + Interval(review[u].reps)
  BY <1>d, Zenon DEF LadderInv
<1>1. ASSUME UNCHANGED review, now' \in {now, now + 1}
      PROVE  /\ LadderInv'
             /\ \A u \in DOMAIN review : u \in DOMAIN review' /\ Climbs(review[u], review'[u])
  <2>1. now' \in Nat /\ now' >= now
    BY <1>a, <1>1
  <2>2. ASSUME NEW u \in DOMAIN review, review[u].reps # 0
        PROVE  review[u].due <= now' + Interval(review[u].reps)
    <3>1. review[u].due <= now + Interval(review[u].reps)
      BY <1>d, <2>2
    <3>2. Interval(review[u].reps) \in Nat /\ review[u].due \in Int
      BY <1>b, <2>2
    <3> QED BY <1>a, <2>1, <3>1, <3>2
  <2>3. LadderInv'
    BY <1>1, <2>2 DEF LadderInv
  <2> QED BY <1>1, <1>c, <2>3
<1>2. ASSUME NEW r \in Requests, FinishExtend(r)
      PROVE  /\ LadderInv'
             /\ \A u \in DOMAIN review : u \in DOMAIN review' /\ Climbs(review[u], review'[u])
  <2> DEFINE S == UnitsIn(draft[r])
  <2>1. review' = Introduce(S) /\ now' = now
    BY <1>2 DEF FinishExtend
  <2>2. /\ DOMAIN review' = DOMAIN review \cup S
        /\ \A u \in DOMAIN review' :
             review'[u] = IF u \in DOMAIN review THEN review[u] ELSE Introduced
    BY <2>1 DEF Introduce
  <2> HIDE DEF S
  <2>3. LadderInv'
    <3> SUFFICES ASSUME NEW u \in DOMAIN review'
                 PROVE  IF review'[u].reps = 0
                        THEN review'[u].due = Never
                        ELSE review'[u].due <= now' + Interval(review'[u].reps)
      BY DEF LadderInv
    <3>1. CASE u \in DOMAIN review
      BY <2>1, <2>2, <3>1 DEF LadderInv
    <3>2. CASE u \notin DOMAIN review
      BY <2>2, <3>2 DEF Introduced
    <3> QED BY <3>1, <3>2
  <2> QED BY <1>c, <2>2, <2>3
<1>3. ASSUME NEW r \in Requests, RecordCompletion(r)
      PROVE  /\ LadderInv'
             /\ \A u \in DOMAIN review : u \in DOMAIN review' /\ Climbs(review[u], review'[u])
  <2>1. PICK i \in items : review' = Advance(i.spec.units, now)
    BY <1>3 DEF RecordCompletion, Targeted
  <2>2. now' = now
    BY <1>3 DEF RecordCompletion
  <2> DEFINE S == i.spec.units
             I == Introduce(S)
  <2>3. S \subseteq Units
    BY PathItemFields DEF TypeInv, TablesInv, TablesTypeOK, ItemSpec
  <2>4. /\ DOMAIN I = DOMAIN review \cup S
        /\ \A u \in DOMAIN I : /\ I[u] \in ReviewState
                               /\ I[u] = IF u \in DOMAIN review THEN review[u] ELSE Introduced
    <3>1. DOMAIN I = DOMAIN review \cup S /\ \A u \in DOMAIN I : I[u] \in ReviewState
      BY <1>a, <2>3, IntroduceType
    <3> QED BY <3>1 DEF Introduce
  <2>5. \A u \in DOMAIN I : IF I[u].reps = 0 THEN I[u].due = Never
                                            ELSE I[u].due <= now + Interval(I[u].reps)
    <3> HIDE DEF I
    <3> QED BY <2>4 DEF LadderInv, Introduced
  <2>6. /\ DOMAIN review' = DOMAIN I
        /\ \A u \in DOMAIN I :
             review'[u] = IF u \in S THEN ApplyCompletion(I[u], now) ELSE I[u]
    BY <2>1 DEF Advance
  <2>7. \A u \in DOMAIN I : Climbs(I[u], I[u])
    <3> HIDE DEF I
    <3> QED BY <2>4 DEF Climbs, ReviewState, Never
  <2>8. \A u \in DOMAIN I :
          /\ Climbs(I[u], review'[u])
          /\ IF review'[u].reps = 0 THEN review'[u].due = Never
                                    ELSE review'[u].due <= now + Interval(review'[u].reps)
    <3> HIDE DEF I
    <3> QED BY <1>a, <2>4, <2>5, <2>6, <2>7, CompletionClimbs
  <2> HIDE DEF I, S
  <2> QED BY <2>2, <2>4, <2>6, <2>8 DEF LadderInv
<1>4. ASSUME NEW r \in Requests, Handle(r), ~FinishExtend(r), ~RecordCompletion(r)
      PROVE  UNCHANGED <<review, now>>
  BY <1>4 DEF Handle, Arrive, Generate, Progress, AcquireLock, StartGetPath, ReadCurriculum,
              GeneratePass, RespondPath, StartComplete, CheckItem, StartSetEnabled,
              EnablePack, DisablePack, Abort
<1>5. ASSUME NextDay \/ ResetProgress \/ UNCHANGED vars
      PROVE  UNCHANGED review /\ now' \in {now, now + 1}
  BY <1>5, ResetTouches DEF NextDay, vars
<1> QED BY <1>1, <1>2, <1>3, <1>4, <1>5 DEF Next, NextWithoutReset

(* No step loses a review state, lowers its rung or brings its due day      *)
(* forward, resets included.                                                *)
THEOREM LadderOnlyClimbs == Spec => LadderNeverDescends
<1>1. TypeInv /\ LadderInv /\ [Next]_vars => (TypeInv /\ LadderInv)'
  BY TypeStep, LadderStep
<1>2. TypeInv /\ LadderInv /\ [Next]_vars =>
        [\A u \in DOMAIN review :
            /\ u \in DOMAIN review'
            /\ review'[u].reps >= review[u].reps
            /\ review'[u].due >= review[u].due]_vars
  BY LadderStep DEF Climbs
<1> QED BY <1>1, <1>2, TypeInit, LadderInit, PTL DEF Spec, LadderNeverDescends

-----------------------------------------------------------------------------
(* The inductive invariant.                                                *)

\* The ids of committed rows are spent: no later row has one of them.
IdsInv ==
    /\ \A i, j \in items : i.id = j.id => i = j
    /\ \A i \in items : i.id < nextId
    /\ \A c \in completions : c.item < nextId

\* One committed row at a position, its units with a review state each.
RowsInv ==
    /\ \A i, j \in items : i.position = j.position => i = j
    /\ UnitsIn(items) \subseteq DOMAIN review
    /\ IntroducedOnce

\* Rows that can be appended to queue: under the ids from next on, after every
\* row there is, over units not in seen if they are new.
Appendable(rows, next, queue, seen) ==
    /\ \A i \in rows :
         /\ next <= i.id /\ i.id < next + Cardinality(rows)
         /\ \A j \in queue : i.position > j.position
         /\ i.spec.units # {} /\ i.spec.units \subseteq UnitsOf(i.spec.pack)
         /\ i.spec.kind = "new" => i.spec.units \cap seen = {}
    /\ \A i, j \in rows : i # j =>
         /\ i.id # j.id /\ i.position # j.position
         /\ i.spec.kind = "new" /\ j.spec.kind = "new" =>
              i.spec.units \cap j.spec.units = {}

DraftInv == \A r \in Requests : Appendable(draft[r], nextId, items, DOMAIN review)

QueueInv ==
    CompletionInv /\ DraftIsEnabled /\ IdsInv /\ RowsInv /\ DraftInv

\* The invariant holds of the empty tables.
LEMMA QueueInit == Init => QueueInv
BY CompletionInit, FS_EmptySet
DEF Init, EmptyTables, QueueInv, DraftIsEnabled, IdsInv, RowsInv, DraftInv, UnitsIn,
    Appendable, IntroducedOnce

(* Only the request that holds the lock has a draft, and only in the loop.  *)
LEMMA OneDraft ==
    ASSUME LockInv, DraftIsEnabled, NEW r \in Requests, pc[r] \in Holding
    PROVE  /\ \A q \in Requests \ {r} : draft[q] = {} /\ pc[q] # "generate"
           /\ pc[r] # "generate" => draft[r] = {}
<1>1. \A q \in Requests \ {r} : pc[q] \notin Holding
  BY DEF LockInv
<1> QED BY <1>1 DEF DraftIsEnabled, Holding

\* Introducing units leaves the states of a due day each.
LEMMA DatedReview ==
    ASSUME TypeInv, NEW S, S \subseteq Units
    PROVE  Dated(Introduce(S)) /\ DOMAIN Introduce(S) = DOMAIN review \cup S
<1>1. TablesTypeOK
  BY DEF TypeInv, TablesInv
<1>2. /\ DOMAIN Introduce(S) = DOMAIN review \cup S
      /\ DOMAIN Introduce(S) \subseteq Units
      /\ Introduce(S) \in [DOMAIN Introduce(S) -> ReviewState]
  BY <1>1, IntroduceType
<1>3. \A s \in ReviewState : s.due \in Int
  BY DEF ReviewState, Never
<1> QED BY <1>2, <1>3 DEF Dated

(* What a request schedules can be queued.                                 *)
LEMMA BatchOfRequest ==
    ASSUME TypeInv, NEW r \in Requests, NEW tie \in Ties
    PROVE  Queueable(Batch(r, tie), curriculum[r], Introduce(UnitsIn(draft[r])))
<1>1. curriculum[r] \subseteq Packs /\ UnitsIn(draft[r]) \subseteq Units
  BY UnitsInType DEF TypeInv, LocalsInv
<1> QED BY <1>1, DatedReview, BatchIsQueueable DEF Batch

\* Rows made of a batch, in its order, under ids from first on, after queue.
Follow(rows, batch, first, queue) ==
    /\ rows \subseteq PathItem /\ IsFiniteSet(rows) /\ Cardinality(rows) = Cardinality(batch)
    /\ \A i \in rows :
         /\ first <= i.id /\ i.id < first + Cardinality(batch)
         /\ \A j \in queue : i.position > j.position
         /\ \E b \in batch : i.spec = b.spec
    /\ \A i, j \in rows : i # j =>
         /\ i.id # j.id /\ i.position # j.position
         /\ \E b, c \in batch : b # c /\ i.spec = b.spec /\ j.spec = c.spec

\* The rows made of a batch follow those there are, in the order of the batch.
LEMMA AppendedRowsFollow ==
    ASSUME TypeInv, NEW r \in Requests, NEW batch, IsFiniteSet(batch),
           \A b \in batch : b.offset \in 1 .. Cardinality(batch) /\ b.spec \in ItemSpec,
           \A b, c \in batch : b # c => b.offset # c.offset
    PROVE  Follow(AppendedRows(r, batch), batch, nextId + Cardinality(draft[r]),
                  items \cup draft[r])
<1> DEFINE base == MaxPosition(items \cup draft[r])
           first == nextId + Cardinality(draft[r])
           row == [b \in batch |-> [id |-> first + b.offset - 1,
                                   position |-> base + b.offset, spec |-> b.spec]]
           rows == {row[b] : b \in batch}
           n == Cardinality(batch)
<1>1. /\ IsFiniteSet(items) /\ IsFiniteSet(draft[r]) /\ nextId \in Nat
      /\ items \cup draft[r] \subseteq PathItem
  BY DEF TypeInv, TablesInv, TablesTypeOK, LocalsInv
<1>2. base \in Nat /\ \A j \in items \cup draft[r] : j.position <= base
  <2>1. IsFiniteSet(items \cup draft[r])
    BY <1>1, UnionOfTwo
  <2> QED BY <1>1, <2>1, MaxPositionType
<1>3. first \in Nat /\ n \in Nat
  BY <1>1, FS_CardinalityType
<1>4. \A j \in items \cup draft[r] : j.position \in Nat
  BY <1>1, PathItemFields
<1>5. AppendedRows(r, batch) = rows
  BY DEF AppendedRows
<1>6. \A b \in batch : /\ row[b].id = first + b.offset - 1
                       /\ row[b].position = base + b.offset
                       /\ row[b].spec = b.spec
                       /\ row[b] = [id |-> first + b.offset - 1,
                                    position |-> base + b.offset, spec |-> b.spec]
  OBVIOUS
<1> HIDE DEF row, base, first, n
<1>7. ASSUME NEW b \in batch
      PROVE  /\ row[b] \in PathItem
             /\ first <= row[b].id /\ row[b].id < first + n
             /\ \A j \in items \cup draft[r] : row[b].position > j.position
  <2>1. b.offset \in 1 .. n /\ b.spec \in ItemSpec
    BY DEF n
  <2>2. first + b.offset - 1 \in Nat /\ base + b.offset \in Nat
    BY <1>2, <1>3, <2>1
  <2>3. row[b].id = first + b.offset - 1 /\ row[b].position = base + b.offset
    BY <1>6, Zenon
  <2>4. row[b] \in PathItem
    <3>1. row[b] = [id |-> first + b.offset - 1, position |-> base + b.offset,
                    spec |-> b.spec]
      BY <1>6, Zenon
    <3> QED BY <2>1, <2>2, <3>1 DEF PathItem
  <2>5. first <= row[b].id /\ row[b].id < first + n
    BY <1>3, <2>1, <2>3
  <2>6. \A j \in items \cup draft[r] : row[b].position > j.position
    BY <1>2, <1>4, <2>1, <2>3
  <2> QED BY <2>4, <2>5, <2>6
<1>8. ASSUME NEW b \in batch, NEW c \in batch, b # c
      PROVE  row[b].id # row[c].id /\ row[b].position # row[c].position
  <2>1. b.offset \in 1 .. n /\ c.offset \in 1 .. n /\ b.offset # c.offset
    BY <1>8 DEF n
  <2>2. /\ row[b].id = first + b.offset - 1 /\ row[b].position = base + b.offset
        /\ row[c].id = first + c.offset - 1 /\ row[c].position = base + c.offset
    BY <1>6, Zenon
  <2> QED BY <1>2, <1>3, <2>1, <2>2
<1>9. IsFiniteSet(rows) /\ Cardinality(rows) = n
  <2>1. IsFiniteSet(rows)
    BY ImageOfFinite
  <2>2. row \in Bijection(batch, rows)
    <3>1. row \in [batch -> rows]
      BY DEF row
    <3>2. IsInjective(row)
      BY <1>8, <3>1 DEF IsInjective
    <3>3. row \in Surjection(batch, rows)
      BY <3>1 DEF Surjection
    <3> QED BY <3>1, <3>2, <3>3 DEF Bijection, Injection
  <2>3. Cardinality(rows) = Cardinality(batch)
    <3> HIDE DEF rows
    <3> QED BY <2>1, <2>2, FS_Bijection DEF ExistsBijection
  <2> QED BY <2>1, <2>3 DEF n
<1>10. \A i \in rows :
         /\ first <= i.id /\ i.id < first + n
         /\ \A j \in items \cup draft[r] : i.position > j.position
         /\ \E b \in batch : i.spec = b.spec
  <2> SUFFICES ASSUME NEW b \in batch
               PROVE  /\ first <= row[b].id /\ row[b].id < first + n
                      /\ \A j \in items \cup draft[r] : row[b].position > j.position
                      /\ row[b].spec = b.spec
    BY Zenon
  <2> QED BY <1>6, <1>7, Zenon
<1>11. \A i, j \in rows : i # j =>
         /\ i.id # j.id /\ i.position # j.position
         /\ \E b, c \in batch : b # c /\ i.spec = b.spec /\ j.spec = c.spec
  <2> SUFFICES ASSUME NEW i \in rows, NEW j \in rows, i # j
               PROVE  /\ i.id # j.id /\ i.position # j.position
                      /\ \E b, c \in batch : b # c /\ i.spec = b.spec /\ j.spec = c.spec
    OBVIOUS
  <2>1. PICK b \in batch : i = row[b]
    OBVIOUS
  <2>2. PICK c \in batch : j = row[c]
    OBVIOUS
  <2>3. b # c
    BY <2>1, <2>2
  <2>4. i.id # j.id /\ i.position # j.position
    BY <1>8, <2>1, <2>2, <2>3, Zenon
  <2>5. i.spec = b.spec /\ j.spec = c.spec
    BY <1>6, <2>1, <2>2, Zenon
  <2> QED BY <2>3, <2>4, <2>5
<1>12. rows \subseteq PathItem
  BY <1>7
<1> HIDE DEF rows
<1> QED BY <1>5, <1>9, <1>10, <1>11, <1>12 DEF Follow, first, n

(* A draft with the rows of one more pass can be appended.                 *)
LEMMA DraftGrows ==
    ASSUME QueueInv, NEW r \in Requests, NEW tie \in Ties
    PROVE  LET rows == AppendedRows(r, Batch(r, tie))
           IN  /\ Appendable(draft[r] \cup rows, nextId, items, DOMAIN review)
               /\ Cardinality(draft[r] \cup rows) = Cardinality(draft[r]) + Cardinality(rows)
               /\ Cardinality(draft[r]) \in Nat /\ Cardinality(rows) \in Nat
               /\ Batch(r, tie) # {} => Cardinality(rows) # 0
<1> DEFINE batch == Batch(r, tie)
           rows == AppendedRows(r, batch)
           D == draft[r]
           k == Cardinality(D)
           n == Cardinality(rows)
           seen == DOMAIN review \cup UnitsIn(D)
<1>1. /\ TypeInv /\ D \subseteq PathItem /\ IsFiniteSet(D) /\ nextId \in Nat
      /\ Appendable(D, nextId, items, DOMAIN review)
      /\ \A i \in D : i.id \in Nat /\ i.position \in Nat
  BY PathItemFields
  DEF QueueInv, CompletionInv, DraftInv, TypeInv, TablesInv, LocalsInv
<1>2. /\ IsFiniteSet(batch)
      /\ \A b \in batch : b.offset \in 1 .. Cardinality(batch)
      /\ \A b \in batch : /\ b.spec \in ItemSpec
                          /\ b.spec.units # {} /\ b.spec.units \subseteq UnitsOf(b.spec.pack)
                          /\ b.spec.kind = "new" => b.spec.units \cap seen = {}
      /\ \A b, c \in batch : b # c =>
           b.offset # c.offset /\ b.spec.units \cap c.spec.units = {}
  <2>1. UnitsIn(D) \subseteq Units
    BY <1>1, UnitsInType
  <2>2. DOMAIN Introduce(UnitsIn(D)) = seen
    BY <1>1, <2>1, DatedReview
  <2>3. Queueable(batch, curriculum[r], Introduce(UnitsIn(D)))
    BY <1>1, BatchOfRequest
  <2> HIDE DEF batch, seen, D
  <2> QED BY <2>2, <2>3 DEF Queueable, Lesson
<1>3. Follow(rows, batch, nextId + k, items \cup D)
  <2> HIDE DEF batch
  <2> QED BY <1>1, <1>2, AppendedRowsFollow
<1> HIDE DEF batch, rows, D
<1>4. k \in Nat /\ n \in Nat /\ n = Cardinality(batch)
  BY <1>1, <1>3, FS_CardinalityType DEF Follow
<1>5. batch # {} => n # 0
  BY <1>2, <1>4, FS_EmptySet
<1>6. \A i \in rows : i.id \in Nat /\ i.position \in Nat
  BY <1>3, PathItemFields DEF Follow
<1>7. D \cap rows = {}
  BY <1>1, <1>3, <1>6 DEF Follow
<1>8. Cardinality(D \cup rows) = k + n
  <2>1. Cardinality(D \cup rows) = k + n - Cardinality(D \cap rows)
    BY <1>1, <1>3, FS_Union DEF Follow
  <2>2. Cardinality(D \cap rows) = 0
    BY <1>7, FS_EmptySet
  <2> QED BY <1>4, <2>1, <2>2
<1> HIDE DEF k, n
<1>9. \A i \in D : /\ nextId <= i.id /\ i.id < nextId + k
                   /\ \A j \in items : i.position > j.position
                   /\ i.spec.units # {} /\ i.spec.units \subseteq UnitsOf(i.spec.pack)
                   /\ i.spec.kind = "new" => i.spec.units \cap DOMAIN review = {}
  BY <1>1 DEF Appendable, k
<1>10. \A i \in rows : /\ nextId + k <= i.id /\ i.id < nextId + k + n
                       /\ \A j \in items \cup D : i.position > j.position
                       /\ i.spec.units # {} /\ i.spec.units \subseteq UnitsOf(i.spec.pack)
                       /\ i.spec.kind = "new" => i.spec.units \cap seen = {}
  BY <1>2, <1>3, <1>4 DEF Follow, k
<1>11. \A i \in D \cup rows :
         /\ nextId <= i.id /\ i.id < nextId + Cardinality(D \cup rows)
         /\ \A j \in items : i.position > j.position
         /\ i.spec.units # {} /\ i.spec.units \subseteq UnitsOf(i.spec.pack)
         /\ i.spec.kind = "new" => i.spec.units \cap DOMAIN review = {}
  BY <1>1, <1>4, <1>6, <1>8, <1>9, <1>10
<1>12. ASSUME NEW i \in D, NEW j \in rows
       PROVE  /\ i.id # j.id /\ i.position # j.position
              /\ i.spec.kind = "new" /\ j.spec.kind = "new" =>
                   i.spec.units \cap j.spec.units = {}
  <2>1. i.id # j.id /\ i.position # j.position
    BY <1>1, <1>4, <1>6, <1>9, <1>10
  <2>2. i.spec.units \subseteq seen
    BY DEF UnitsIn
  <2> QED BY <1>10, <2>1, <2>2
<1>13. \A i, j \in D \cup rows : i # j =>
         /\ i.id # j.id /\ i.position # j.position
         /\ i.spec.kind = "new" /\ j.spec.kind = "new" =>
              i.spec.units \cap j.spec.units = {}
  <2>1. \A i, j \in D : i # j =>
          /\ i.id # j.id /\ i.position # j.position
          /\ i.spec.kind = "new" /\ j.spec.kind = "new" =>
               i.spec.units \cap j.spec.units = {}
    BY <1>1 DEF Appendable
  <2>2. \A i, j \in rows : i # j =>
          /\ i.id # j.id /\ i.position # j.position
          /\ i.spec.units \cap j.spec.units = {}
    BY <1>2, <1>3 DEF Follow
  <2> QED BY <1>12, <2>1, <2>2
<1>14. Appendable(D \cup rows, nextId, items, DOMAIN review)
  BY <1>11, <1>13 DEF Appendable
<1> QED BY <1>4, <1>5, <1>8, <1>14 DEF D, rows, batch, k, n

(* A completion is of a committed row; its units have review states.        *)
LEMMA CompletionSeen ==
    ASSUME QueueInv, NEW r \in Requests, RecordCompletion(r)
    PROVE  \E i \in items :
             /\ i \in PathItem /\ i.spec.units \subseteq UnitsIn(items)
             /\ i.spec.units \subseteq DOMAIN review
             /\ i.id < nextId /\ ~Done(i) /\ CompletionOf(i, now).item = i.id
             /\ completions' = completions \cup {CompletionOf(i, now)}
             /\ review' = Advance(i.spec.units, now)
             /\ DOMAIN review' = DOMAIN review
<1>1. PICK i \in items : /\ i.id = target[r]
                         /\ completions' = completions \cup {CompletionOf(i, now)}
                         /\ review' = Advance(i.spec.units, now)
  BY DEF RecordCompletion, Targeted
<1>2. /\ UnitsIn(items) \subseteq DOMAIN review /\ i.id < nextId
      /\ items \subseteq PathItem /\ TablesTypeOK /\ now \in Nat
  BY DEF QueueInv, RowsInv, IdsInv, CompletionInv, TypeInv, TablesInv, TablesTypeOK
<1>3. i.spec.units \subseteq UnitsIn(items)
  BY DEF UnitsIn
<1>4. i.spec.units \subseteq Units
  BY <1>2, <1>3, UnitsInType
<1>5. DOMAIN review' = DOMAIN review
  <2>1. DOMAIN Advance(i.spec.units, now) = DOMAIN review \cup i.spec.units
    BY <1>2, <1>4, AdvanceType
  <2> QED BY <1>1, <1>2, <1>3, <2>1
<1>6. ~Done(i)
  BY <1>1 DEF QueueInv, CompletionInv, StillPending, RecordCompletion, Done
<1> QED BY <1>1, <1>2, <1>3, <1>5, <1>6 DEF CompletionOf

\* Every step keeps the invariant of the queue.
LEMMA QueueStep == QueueInv /\ [Next]_vars => QueueInv'
<1> SUFFICES ASSUME QueueInv, [Next]_vars PROVE IdsInv' /\ RowsInv' /\ DraftInv'
  BY CompletionStep, DraftEnabledStep DEF QueueInv, CompletionInv
<1> USE DEF database, locals
<1>a. /\ TypeInv /\ LockInv /\ DraftIsEnabled /\ IdsInv /\ RowsInv /\ DraftInv
      /\ items \subseteq PathItem /\ nextId \in Nat
      /\ draft \in [Requests -> SUBSET PathItem]
      /\ \A q \in Requests : IsFiniteSet(draft[q])
      /\ \A i \in items : i.id \in Nat /\ i.position \in Nat
  BY PathItemFields
  DEF QueueInv, CompletionInv, TypeInv, TablesInv, TablesTypeOK, LocalsInv
<1>b. \A next, queue, seen : Appendable({}, next, queue, seen)
  BY DEF Appendable
\* A step that appends no row, and rolls back drafts at most.
<1>c. ASSUME items' \subseteq items, nextId' = nextId, DOMAIN review' = DOMAIN review,
             \A c \in completions' : c \in completions \/ c.item < nextId,
             \A q \in Requests : draft'[q] = draft[q] \/ draft'[q] = {}
      PROVE  IdsInv' /\ RowsInv' /\ DraftInv'
  <2>1. IdsInv'
    BY <1>a, <1>c DEF IdsInv
  <2>2. RowsInv'
    BY <1>a, <1>c DEF RowsInv, UnitsIn, IntroducedOnce
  <2>3. ASSUME NEW q \in Requests
        PROVE  Appendable(draft'[q], nextId', items', DOMAIN review')
    <3>1. Appendable(draft[q], nextId, items, DOMAIN review)
      BY <1>a DEF DraftInv
    <3>2. CASE draft'[q] = draft[q]
      BY <1>c, <3>1, <3>2 DEF Appendable
    <3>3. CASE draft'[q] = {}
      BY <1>b, <3>3
    <3> QED BY <1>c, <3>2, <3>3
  <2> QED BY <2>1, <2>2, <2>3 DEF DraftInv
<1>d. ASSUME NEW r \in Requests, Finish(r)
      PROVE  \A q \in Requests : draft'[q] = draft[q] \/ draft'[q] = {}
  BY <1>a, <1>d DEF Finish, Forget
<1>1. CASE Quiet
  BY <1>1, <1>c DEF Quiet
<1>2. ASSUME NEW r \in Requests, GeneratePass(r) PROVE IdsInv' /\ RowsInv' /\ DraftInv'
  <2>1. PICK tie \in Ties :
          draft' = [draft EXCEPT ![r] = @ \cup AppendedRows(r, Batch(r, tie))]
    BY <1>2 DEF GeneratePass
  <2>2. UNCHANGED <<items, completions, review, nextId>>
    BY <1>2 DEF GeneratePass
  <2>3. Appendable(draft[r] \cup AppendedRows(r, Batch(r, tie)), nextId, items, DOMAIN review)
    BY DraftGrows
  <2>4. IdsInv' /\ RowsInv'
    BY <1>a, <2>2 DEF IdsInv, RowsInv, UnitsIn, IntroducedOnce
  <2>5. \A q \in Requests : Appendable(draft'[q], nextId', items', DOMAIN review')
    BY <1>a, <2>1, <2>2, <2>3 DEF DraftInv
  <2> QED BY <2>4, <2>5 DEF DraftInv
<1>3. ASSUME NEW r \in Requests, FinishExtend(r) PROVE IdsInv' /\ RowsInv' /\ DraftInv'
  <2> DEFINE D == draft[r]
             k == Cardinality(D)
  <2>1. /\ items' = items \cup D /\ nextId' = nextId + k /\ completions' = completions
        /\ draft' = [draft EXCEPT ![r] = {}] /\ review' = Introduce(UnitsIn(D))
        /\ pc[r] = "generate"
    BY <1>3 DEF FinishExtend
  <2>2. \A q \in Requests : draft'[q] = {}
    BY <1>a, <2>1, OneDraft DEF Holding
  <2>3. DraftInv'
    BY <1>b, <2>2 DEF DraftInv
  <2>4. /\ Appendable(D, nextId, items, DOMAIN review) /\ k \in Nat
        /\ \A i \in D : i.id \in Nat /\ i.position \in Nat
    BY <1>a, FS_CardinalityType, PathItemFields DEF DraftInv
  <2>5. DOMAIN review' = DOMAIN review \cup UnitsIn(D)
    <3>1. UnitsIn(D) \subseteq Units
      BY <1>a, UnitsInType
    <3> QED BY <1>a, <2>1, <3>1, DatedReview
  <2>6. \A c \in completions : c.item < nextId /\ c.item \in Nat
    BY <1>a DEF IdsInv, TypeInv, TablesInv, TablesTypeOK, Completion
  <2> HIDE DEF k
  <2>7. \A i \in D : nextId <= i.id /\ i.id < nextId + k
    BY <2>4 DEF Appendable, k
  <2> HIDE DEF D
  <2>8. IdsInv'
    BY <1>a, <2>1, <2>4, <2>6, <2>7 DEF IdsInv, Appendable
  <2>9. \A i, j \in items' : i.position = j.position => i = j
    BY <1>a, <2>1, <2>4 DEF RowsInv, Appendable
  <2>10. UnitsIn(items') \subseteq DOMAIN review'
    BY <1>a, <2>1, <2>5, ZenonT(30) DEF RowsInv, UnitsIn
  <2>11. IntroducedOnce'
    <3> SUFFICES ASSUME NEW i \in items \cup D, NEW j \in items \cup D, i # j,
                        i.spec.kind = "new", j.spec.kind = "new"
                 PROVE  i.spec.units \cap j.spec.units = {}
      BY <2>1 DEF IntroducedOnce
    <3>1. ASSUME NEW x \in items, NEW y \in D, y.spec.kind = "new"
          PROVE  x.spec.units \cap y.spec.units = {}
      <4>1. x.spec.units \subseteq DOMAIN review
        BY <1>a DEF RowsInv, UnitsIn
      <4> QED BY <2>4, <3>1, <4>1 DEF Appendable
    <3> QED BY <1>a, <2>4, <3>1 DEF RowsInv, IntroducedOnce, Appendable
  <2> QED BY <2>3, <2>8, <2>9, <2>10, <2>11 DEF RowsInv
<1>4. ASSUME NEW r \in Requests, RecordCompletion(r)
      PROVE  IdsInv' /\ RowsInv' /\ DraftInv'
  <2>1. PICK i \in items : /\ i.id < nextId /\ CompletionOf(i, now).item = i.id
                           /\ completions' = completions \cup {CompletionOf(i, now)}
                           /\ DOMAIN review' = DOMAIN review
    BY <1>4, CompletionSeen
  <2>2. Finish(r) /\ UNCHANGED <<items, nextId>>
    BY <1>4 DEF RecordCompletion
  <2>3. \A q \in Requests : draft'[q] = draft[q] \/ draft'[q] = {}
    BY <1>d, <2>2
  <2> QED BY <1>c, <2>1, <2>2, <2>3
<1>5. ASSUME NEW r \in Requests, EnablePack(r) \/ DisablePack(r)
      PROVE  IdsInv' /\ RowsInv' /\ DraftInv'
  <2>1. /\ Finish(r) /\ UNCHANGED <<review, nextId>>
        /\ items' \subseteq items /\ completions' \subseteq completions
    BY <1>5 DEF EnablePack, DisablePack
  <2>2. \A q \in Requests : draft'[q] = draft[q] \/ draft'[q] = {}
    BY <1>d, <2>1
  <2> QED BY <1>c, <2>1, <2>2
<1>6. CASE NextDay \/ ResetProgress
  <2>1. UNCHANGED <<items, review, nextId, draft>> /\ completions' \subseteq completions
    BY <1>6, ResetTouches DEF NextDay
  <2> QED BY <1>c, <2>1
<1> QED BY <1>a, <1>1, <1>2, <1>3, <1>4, <1>5, <1>6, StepKinds

\* The inductive invariant of the queue: what a request has drafted under its
\* lock fits what is committed, as path.py relies on between its statements.
THEOREM QueueInvariant == Spec => []QueueInv
BY QueueInit, QueueStep, PTL DEF Spec

(* No two rows of the queue, committed or drafted, share a position, and no *)
(* unit is introduced twice, whatever requests run at once.                 *)
THEOREM QueueStaysSound == Spec => []QueueIsSound
<1>1. QueueInv => QueueIsSound
  <2> SUFFICES ASSUME QueueInv PROVE PositionsDistinct /\ IntroducedOnce
    BY DEF QueueIsSound
  <2>a. /\ LockInv /\ DraftIsEnabled /\ RowsInv /\ DraftInv
        /\ \A q \in Requests : \A i \in draft[q] : i.position \in Nat
        /\ \A i \in items : i.position \in Nat
    BY PathItemFields
    DEF QueueInv, CompletionInv, TypeInv, TablesInv, TablesTypeOK, LocalsInv
  <2>1. \A q, r \in Requests : draft[q] # {} /\ draft[r] # {} => q = r
    BY <2>a, OneDraft DEF DraftIsEnabled, Holding
  <2>2. \A q \in Requests : \A i \in draft[q] :
          /\ \A j \in items : i.position # j.position
          /\ \A j \in draft[q] : i.position = j.position => i = j
    BY <2>a DEF DraftInv, Appendable
  <2>3. PositionsDistinct
    BY <2>a, <2>1, <2>2 DEF PositionsDistinct, RowsInv
  <2> QED BY <2>a, <2>3 DEF RowsInv
<1> QED BY <1>1, QueueInvariant, PTL

-----------------------------------------------------------------------------
(* The Path never runs out.  While r generates, no other request changes    *)
(* the rows: its count of what is pending is never above the truth, and     *)
(* every pass it made has left a row in its draft.                         *)

\* What of S has no completion in C.
Lacking(S, C) == {i \in S : ~\E c \in C : c.item = i.id}

\* The pending items are those that lack a completion.
LEMMA PendingIsLacking ==
    ASSUME NEW S
    PROVE  PendingCount(S) = Cardinality(Lacking(S, completions))
BY DEF PendingCount, Done, Lacking

\* Fewer completions leave more items pending.
LEMMA LackingGrows ==
    ASSUME NEW S, IsFiniteSet(S), NEW C, NEW D, D \subseteq C
    PROVE  /\ Cardinality(Lacking(S, C)) \in Nat /\ Cardinality(Lacking(S, D)) \in Nat
           /\ Cardinality(Lacking(S, C)) <= Cardinality(Lacking(S, D))
<1>1. Lacking(S, C) \subseteq Lacking(S, D) /\ Lacking(S, D) \subseteq S
  BY DEF Lacking
<1>2. IsFiniteSet(Lacking(S, D))
  BY <1>1, FS_Subset
<1>3. IsFiniteSet(Lacking(S, C)) /\ Cardinality(Lacking(S, C)) <= Cardinality(Lacking(S, D))
  BY <1>1, <1>2, FS_Subset
<1> QED BY <1>2, <1>3, FS_CardinalityType

\* How far a request at step has got: known pending items, passes made.
Filled(step, known, made, rows, queue, log) ==
    /\ step = "generate" => /\ known <= Cardinality(Lacking(queue \cup rows, log))
                            /\ made <= Cardinality(rows)
    /\ step \notin {"generate", "read"} => made = 0

FillInv ==
    \A r \in Requests :
        Filled(pc[r], pending[r], passes[r], draft[r], items, completions)

(* A step of r leaves the locals of the others alone, and the rows too      *)
(* unless r is at a step that needs the lock.                              *)
LEMMA OthersKept ==
    ASSUME TypeInv, NEW r \in Requests, Handle(r)
    PROVE  /\ \A q \in Requests \ {r} :
                /\ pc'[q] = pc[q] /\ pending'[q] = pending[q]
                /\ passes'[q] = passes[q] /\ draft'[q] = draft[q]
           /\ pc[r] \notin Holding => UNCHANGED <<items, completions>>
<1> USE DEF database, locals
<1>1. /\ pc \in [Requests -> Steps] /\ pending \in [Requests -> Nat]
      /\ passes \in [Requests -> Nat] /\ draft \in [Requests -> SUBSET PathItem]
  BY DEF TypeInv, LocalsInv
<1>2. ASSUME Finish(r)
      PROVE  \A q \in Requests \ {r} :
               /\ pc'[q] = pc[q] /\ pending'[q] = pending[q]
               /\ passes'[q] = passes[q] /\ draft'[q] = draft[q]
  BY <1>1, <1>2 DEF Finish, Goto, Forget
<1>3. CASE \/ RespondPath(r) \/ Abort(r) \/ RecordCompletion(r)
           \/ EnablePack(r) \/ DisablePack(r)
  BY <1>2, <1>3 DEF RespondPath, Abort, RecordCompletion, EnablePack, DisablePack, Holding
<1>4. CASE CheckItem(r)
  <2>1. Finish(r) \/ (Goto(r, "record") /\ UNCHANGED locals)
    BY <1>4 DEF CheckItem
  <2>2. UNCHANGED <<items, completions>>
    BY <1>4 DEF CheckItem
  <2> QED BY <1>1, <1>2, <2>1, <2>2 DEF Goto
<1>5. CASE Arrive(r) \/ AcquireLock(r)
  BY <1>1, <1>5 DEF Arrive, AcquireLock, StartGetPath, StartComplete, StartSetEnabled, Goto
<1>6. CASE ReadCurriculum(r)
  BY <1>1, <1>6 DEF ReadCurriculum, Goto
<1>7. CASE GeneratePass(r)
  BY <1>1, <1>7 DEF GeneratePass
<1>8. CASE FinishExtend(r)
  BY <1>1, <1>8 DEF FinishExtend, Goto, Holding
<1> QED BY <1>3, <1>4, <1>5, <1>6, <1>7, <1>8 DEF Handle, Generate, Progress

\* No read has filled anything yet.
LEMMA FillInit == Init => FillInv
BY DEF Init, FillInv, Filled

\* Every pass of the generation adds an item to the window or finds nothing to add.
LEMMA FillStep == QueueInv /\ FillInv /\ [Next]_vars => FillInv'
<1> SUFFICES ASSUME QueueInv, FillInv, [Next]_vars,
                    NEW q \in Requests
             PROVE  Filled(pc'[q], pending'[q], passes'[q], draft'[q], items', completions')
  BY DEF FillInv
<1> USE DEF database, locals
<1>a. /\ TypeInv /\ LockInv /\ DraftIsEnabled
      /\ IsFiniteSet(items) /\ IsFiniteSet(draft[q]) /\ IsFiniteSet(items \cup draft[q])
      /\ pc \in [Requests -> Steps] /\ pending \in [Requests -> Nat]
      /\ passes \in [Requests -> Nat] /\ draft \in [Requests -> SUBSET PathItem]
      /\ Filled(pc[q], pending[q], passes[q], draft[q], items, completions)
  BY UnionOfTwo DEF FillInv, QueueInv, CompletionInv, TypeInv, TablesInv, LocalsInv
<1>b. ASSUME pc'[q] = pc[q], pending'[q] = pending[q], passes'[q] = passes[q],
             draft'[q] = draft[q],
             pc[q] = "generate" => items' = items /\ completions' \subseteq completions
      PROVE  Filled(pc'[q], pending'[q], passes'[q], draft'[q], items', completions')
  <2>1. completions' \subseteq completions =>
          /\ Cardinality(Lacking(items \cup draft[q], completions)) \in Nat
          /\ Cardinality(Lacking(items \cup draft[q], completions')) \in Nat
          /\ Cardinality(Lacking(items \cup draft[q], completions))
               <= Cardinality(Lacking(items \cup draft[q], completions'))
    BY <1>a, LackingGrows
  <2>2. ASSUME pc[q] = "generate"
        PROVE  pending[q] <= Cardinality(Lacking(items' \cup draft'[q], completions'))
    <3> DEFINE n == Cardinality(Lacking(items \cup draft[q], completions))
               m == Cardinality(Lacking(items \cup draft[q], completions'))
    <3>1. n \in Nat /\ m \in Nat /\ n <= m
      BY <1>b, <2>1, <2>2
    <3>2. pending[q] \in Nat /\ pending[q] <= n
      BY <1>a, <2>2 DEF Filled
    <3>3. Cardinality(Lacking(items' \cup draft'[q], completions')) = m
      BY <1>b, <2>2
    <3> HIDE DEF n, m
    <3> QED BY <3>1, <3>2, <3>3
  <2> QED BY <1>a, <1>b, <2>2 DEF Filled
<1>1. ASSUME NEW r \in Requests, Handle(r), r # q
      PROVE  Filled(pc'[q], pending'[q], passes'[q], draft'[q], items', completions')
  <2>1. /\ pc'[q] = pc[q] /\ pending'[q] = pending[q]
        /\ passes'[q] = passes[q] /\ draft'[q] = draft[q]
        /\ pc[r] \notin Holding => UNCHANGED <<items, completions>>
    BY <1>a, <1>1, OthersKept
  <2>2. pc[q] = "generate" => pc[r] \notin Holding
    BY <1>a, <1>1 DEF LockInv, Holding
  <2> QED BY <1>b, <2>1, <2>2
<1>2. CASE NextDay \/ ResetProgress \/ UNCHANGED vars
  <2>1. UNCHANGED <<pc, pending, passes, draft, items>> /\ completions' \subseteq completions
    BY <1>2, ResetTouches DEF NextDay, vars
  <2> QED BY <1>b, <2>1
\* The steps of q.
<1>3. ASSUME pc'[q] \notin {"generate", "read"}, passes'[q] = 0
      PROVE  Filled(pc'[q], pending'[q], passes'[q], draft'[q], items', completions')
  BY <1>3 DEF Filled
<1>4. CASE Finish(q)
  <2>1. pc'[q] = "idle" /\ passes'[q] = 0
    BY <1>a, <1>4 DEF Finish, Goto, Forget
  <2> QED BY <1>3, <2>1
<1>5. CASE Arrive(q) \/ AcquireLock(q)
  <2>1. pc[q] \notin {"generate", "read"} /\ pc'[q] \notin {"generate", "read"}
    BY <1>a, <1>5, LockedSteps
    DEF Arrive, AcquireLock, StartGetPath, StartComplete, StartSetEnabled, Goto
  <2>2. passes' = passes
    BY <1>5 DEF Arrive, AcquireLock, StartGetPath, StartComplete, StartSetEnabled
  <2> QED BY <1>3, <1>a, <2>1, <2>2 DEF Filled
<1>6. CASE CheckItem(q)
  <2>1. CASE Finish(q)
    BY <1>4, <2>1
  <2>2. CASE ~Finish(q)
    <3>1. pc[q] = "check" /\ pc'[q] = "record" /\ passes' = passes
      BY <1>a, <1>6, <2>2 DEF CheckItem, Goto
    <3> QED BY <1>3, <1>a, <3>1 DEF Filled
  <2> QED BY <2>1, <2>2
<1>7. CASE ReadCurriculum(q)
  <2>1. pc[q] = "extend" /\ UNCHANGED <<items, completions, passes, draft>>
    BY <1>7 DEF ReadCurriculum
  <2>2. CASE pc'[q] = "read"
    BY <2>2 DEF Filled
  <2>3. CASE pc'[q] # "read"
    <3>1. pc'[q] = "generate" /\ pending'[q] = PendingCount(items)
      BY <1>a, <1>7, <2>3 DEF ReadCurriculum, Goto
    <3>2. draft[q] = {} /\ items \cup draft[q] = items
      BY <1>a, <2>1 DEF DraftIsEnabled
    <3>3. passes[q] = 0 /\ Cardinality(draft[q]) = 0
      BY <1>a, <2>1, <3>2, FS_EmptySet DEF Filled
    <3>4. Cardinality(Lacking(items, completions)) \in Nat
      BY <1>a, LackingGrows
    <3> QED BY <2>1, <3>1, <3>2, <3>3, <3>4, PendingIsLacking DEF Filled
  <2> QED BY <2>2, <2>3
<1>8. CASE GeneratePass(q)
  <2>1. PICK tie \in Ties :
          /\ Batch(q, tie) # {}
          /\ draft' = [draft EXCEPT ![q] = @ \cup AppendedRows(q, Batch(q, tie))]
          /\ pending' = [pending EXCEPT ![q] =
                PendingCount(items \cup draft[q] \cup AppendedRows(q, Batch(q, tie)))]
    BY <1>8 DEF GeneratePass
  <2> DEFINE rows == AppendedRows(q, Batch(q, tie))
  <2>2. /\ Cardinality(draft[q] \cup rows) = Cardinality(draft[q]) + Cardinality(rows)
        /\ Cardinality(draft[q]) \in Nat /\ Cardinality(rows) \in Nat
        /\ Cardinality(rows) # 0
    BY <2>1, DraftGrows
  <2>3. IsFiniteSet(rows)
    BY <1>a, AppendedRowsType, TypeInvGivesTypeOK
  <2> HIDE DEF rows
  <2>4. pc[q] = "generate" /\ UNCHANGED <<pc, items, completions>> /\ passes'[q] = passes[q] + 1
    BY <1>a, <1>8 DEF GeneratePass
  <2>5. /\ draft'[q] = draft[q] \cup rows
        /\ pending'[q] = PendingCount(items \cup draft[q] \cup rows)
    BY <1>a, <2>1 DEF rows
  <2>6. items \cup draft[q] \cup rows = items \cup (draft[q] \cup rows)
        /\ IsFiniteSet(items \cup (draft[q] \cup rows))
    BY <1>a, <2>3, UnionOfTwo
  <2>7. Cardinality(Lacking(items \cup (draft[q] \cup rows), completions)) \in Nat
    BY <2>6, LackingGrows
  <2>8. passes[q] <= Cardinality(draft[q]) /\ passes[q] \in Nat
    BY <1>a, <2>4 DEF Filled
  <2>9. passes'[q] <= Cardinality(draft'[q])
    BY <2>2, <2>4, <2>5, <2>8
  <2>10. pending'[q] = Cardinality(Lacking(items' \cup draft'[q], completions'))
    BY <2>4, <2>5, <2>6, PendingIsLacking
  <2>11. pending'[q] \in Nat
    BY <2>5, <2>6, <2>7, PendingIsLacking
  <2>12. pc'[q] = "generate"
    BY <2>4
  <2> QED BY <2>9, <2>10, <2>11, <2>12 DEF Filled
<1>9. CASE FinishExtend(q)
  <2>1. pc'[q] = "read"
    BY <1>a, <1>9 DEF FinishExtend, Goto
  <2> QED BY <2>1 DEF Filled
<1>10. CASE \/ RespondPath(q) \/ Abort(q) \/ RecordCompletion(q)
            \/ EnablePack(q) \/ DisablePack(q)
  BY <1>4, <1>10 DEF RespondPath, Abort, RecordCompletion, EnablePack, DisablePack
<1> QED
  BY <1>1, <1>2, <1>5, <1>6, <1>7, <1>8, <1>9, <1>10
  DEF Next, NextWithoutReset, Handle, Generate, Progress

(* A read of the path that ends its loop has a full window in its hands: it *)
(* has counted one, or made a pass, and so a row, for each item of it.      *)
LEMMA WindowIsFull ==
    ASSUME MaxPasses >= PendingWindow, QueueInv, FillInv, [Next]_vars, NEW r \in Requests,
           pc[r] = "generate", pc'[r] = "read", NEW p \in curriculum[r], UnitsOf(p) # {}
    PROVE  PendingCount(items)' >= PendingWindow
<1> USE DEF database, locals
<1> DEFINE D == draft[r]
           open == Lacking(items \cup D, completions)
<1>a. /\ TypeInv /\ IsFiniteSet(items) /\ IsFiniteSet(D) /\ IsFiniteSet(items \cup D)
      /\ pc \in [Requests -> Steps] /\ pending[r] \in Nat /\ passes[r] \in Nat
      /\ Filled(pc[r], pending[r], passes[r], D, items, completions)
      /\ MaxPasses \in Nat /\ PendingWindow \in Nat
  BY UnionOfTwo, QueueAssumption, TablesAssumption
  DEF FillInv, QueueInv, CompletionInv, TypeInv, TablesInv, LocalsInv
<1>1. FinishExtend(r)
  <2>1. ~ (NextDay \/ ResetProgress \/ UNCHANGED vars)
    BY ResetTouches DEF NextDay, vars
  <2>2. PICK q \in Requests : Handle(q)
    BY <2>1 DEF Next, NextWithoutReset
  <2>3. q = r
    BY <1>a, <2>2, OthersKept
  <2>4. ~Finish(r)
    BY <1>a DEF Finish, Goto
  <2> QED BY <2>2, <2>3, <2>4, LockedSteps
          DEF Handle, Arrive, Generate, Progress, AcquireLock, StartGetPath, StartComplete,
              StartSetEnabled, ReadCurriculum, GeneratePass, RespondPath, CheckItem,
              RecordCompletion, EnablePack, DisablePack, Abort
<1>2. PendingCount(items)' = Cardinality(open)
  <2>1. items' = items \cup D /\ completions' = completions
    BY <1>1 DEF FinishExtend
  <2> QED BY <2>1 DEF PendingCount, Done, Lacking
<1>3. Cardinality(open) \in Nat /\ pending[r] <= Cardinality(open)
      /\ passes[r] <= Cardinality(D)
  BY <1>a, LackingGrows DEF Filled
<1>4. Cardinality(D) <= Cardinality(open) /\ Cardinality(D) \in Nat
  <2>1. \A i \in D : nextId <= i.id /\ i.id \in Nat
    BY PathItemFields DEF QueueInv, DraftInv, Appendable, CompletionInv, TypeInv, LocalsInv
  <2>2. \A c \in completions : c.item < nextId /\ c.item \in Nat /\ nextId \in Nat
    BY DEF QueueInv, IdsInv, CompletionInv, TypeInv, TablesInv, TablesTypeOK, Completion
  <2>3. D \subseteq open
    BY <2>1, <2>2 DEF Lacking
  <2>4. IsFiniteSet(open)
    BY <1>a, FS_Subset DEF Lacking
  <2> HIDE DEF D, open
  <2> QED BY <1>a, <2>3, <2>4, FS_Subset, FS_CardinalityType
<1>5. ~WantsMore(r)
  <2> SUFFICES ASSUME WantsMore(r) PROVE FALSE
    OBVIOUS
  <2>1. ActivityOrder \in Ties
    BY OrdersAreTies
  <2>2. Batch(r, ActivityOrder) = {}
    BY <1>1, <2>1 DEF FinishExtend
  <2>3. Queueable(Batch(r, ActivityOrder), curriculum[r], Introduce(UnitsIn(D)))
    BY <1>a, <2>1, BatchOfRequest
  <2> QED BY <2>2, <2>3 DEF Queueable
<1> HIDE DEF open, D
<1> QED BY <1>a, <1>2, <1>3, <1>4, <1>5 DEF WantsMore

(* With passes enough for a window (25 for 10 in the code), a GET /path of  *)
(* a learner with something to learn always leaves a full window.          *)
THEOREM PathIsNeverShort ==
    ASSUME MaxPasses >= PendingWindow
    PROVE  Spec => PathNeverRunsOut
<1>1. QueueInv /\ FillInv /\ [Next]_vars => (QueueInv /\ FillInv)'
  BY QueueStep, FillStep
<1>2. QueueInv /\ FillInv /\ [Next]_vars =>
        [\A r \in Requests :
            pc[r] = "generate" /\ pc'[r] = "read"
               /\ (\E p \in curriculum[r] : UnitsOf(p) # {})
            => PendingCount(items)' >= PendingWindow]_vars
  BY WindowIsFull
<1> QED BY <1>1, <1>2, QueueInit, FillInit, PTL DEF Spec, PathNeverRunsOut

-----------------------------------------------------------------------------
(* The requests implement the contract.                                   *)

(* The contract speaks of the same tables, units and items.                *)
LEMMA SameUnits ==
    /\ Contract!ItemSpec = ItemSpec
    /\ \A p : Contract!UnitsOf(p) = UnitsOf(p)
<1>1. \A p, a, i : Contract!Unit(p, a, i) = Unit(p, a, i)
  BY DEF Contract!Unit, Unit
<1>2. \A p : Contract!UnitsOf(p) = UnitsOf(p)
  BY <1>1 DEF Contract!UnitsOf, UnitsOf
<1>3. Contract!Units = Units /\ Contract!Activities = Activities
  BY <1>2 DEF Contract!Units, Units, Contract!Activities, Activities
<1> QED BY <1>2, <1>3 DEF Contract!ItemSpec, ItemSpec

\* The contract counts as the queue does.
LEMMA SameCount == \A S : Contract!Cardinality(S) = Cardinality(S)
BY DEF Contract!Cardinality, Cardinality

\* The contract reads the tables as the queue does.
LEMMA SameReads ==
    /\ Contract!PathItem = PathItem
    /\ Contract!Enabled = Enabled
    /\ \A i : Contract!Done(i) <=> Done(i)
    /\ \A p : Contract!PendingOf(p) = PendingOf(p)
    /\ \A S : Contract!UnitsIn(S) = UnitsIn(S)
    /\ \A i, at : Contract!CompletionOf(i, at) = CompletionOf(i, at)
<1>1. \A i : Contract!Done(i) <=> Done(i)
  BY DEF Contract!Done, Done
<1>2. \A p : Contract!PendingOf(p) = PendingOf(p)
  BY <1>1 DEF Contract!PendingOf, PendingOf
<1>3. Contract!PathItem = PathItem
  BY SameUnits DEF Contract!PathItem, PathItem
<1>4. Contract!Enabled = Enabled
  BY DEF Contract!Enabled, Enabled
<1>5. \A S : Contract!UnitsIn(S) = UnitsIn(S)
  BY DEF Contract!UnitsIn, UnitsIn
<1>6. \A i, at : Contract!CompletionOf(i, at) = CompletionOf(i, at)
  BY SameCount DEF Contract!CompletionOf, CompletionOf
<1> QED BY <1>1, <1>2, <1>3, <1>4, <1>5, <1>6

\* The contract writes the tables as the queue does.
LEMMA SameWrites ==
    /\ \A S : Contract!Introduce(S) = Introduce(S)
    /\ \A S, at : Contract!Advance(S, at) = Advance(S, at)
    /\ \A p, enabled : Contract!Upsert(p, enabled) = Upsert(p, enabled)
<1>1. Contract!Introduced = Introduced
  BY DEF Contract!Introduced, Introduced, Contract!Never, Never
<1>2. \A S : Contract!Introduce(S) = Introduce(S)
  BY <1>1 DEF Contract!Introduce, Introduce
<1>3. \A n : Contract!Interval(n) = Interval(n)
  BY DEF Contract!Interval, Interval, Contract!LADDER, LADDER
<1>4. \A state, at : Contract!ApplyCompletion(state, at) = ApplyCompletion(state, at)
  BY <1>3 DEF Contract!ApplyCompletion, ApplyCompletion
<1>5. \A S, at : Contract!Advance(S, at) = Advance(S, at)
  BY <1>2, <1>4 DEF Contract!Advance, Advance
<1>6. \A p, enabled : Contract!Upsert(p, enabled) = Upsert(p, enabled)
  BY DEF Contract!Upsert, Upsert
<1> QED BY <1>2, <1>5, <1>6

(* A request that commits its draft extends the queue in one step: after    *)
(* all of it, with lessons of the packs enabled at that instant.           *)
LEMMA FinishExtends ==
    ASSUME QueueInv, NEW r \in Requests, FinishExtend(r)
    PROVE  Contract!Extend \/ UNCHANGED <<items, completions, review, setting, now>>
<1> DEFINE D == draft[r]
<1>1. /\ items' = items \cup D /\ review' = Introduce(UnitsIn(D)) /\ pc[r] = "generate"
      /\ UNCHANGED <<completions, setting, now>>
  BY DEF FinishExtend
<1>2. /\ Appendable(D, nextId, items, DOMAIN review) /\ D \subseteq PathItem
      /\ TablesTypeOK /\ nextId \in Nat
      /\ \A i \in items : i.id < nextId /\ i.id \in Nat
      /\ \A c \in completions : c.item < nextId /\ c.item \in Nat
      /\ \A i \in D : i.spec.pack \in Enabled
  BY <1>1, PathItemFields
  DEF QueueInv, CompletionInv, DraftInv, DraftIsEnabled, IdsInv, TypeInv, TablesInv,
      TablesTypeOK, LocalsInv, Completion
<1>3. \A i \in D : /\ nextId <= i.id /\ i.id \in Nat /\ i.spec \in ItemSpec
                   /\ i.spec.units # {} /\ i.spec.units \subseteq UnitsOf(i.spec.pack)
                   /\ i.spec.kind = "new" => i.spec.units \cap DOMAIN review = {}
                   /\ \A j \in items : i.position > j.position
  BY <1>2, PathItemFields DEF Appendable
<1> HIDE DEF D
<1>4. \A i \in D : /\ \A j \in items : i.id # j.id
                   /\ \A c \in completions : c.item # i.id
  BY <1>2, <1>3
<1>5. items' \ items = D
  BY <1>1, <1>4
<1>6. CASE D = {}
  <2>1. review' = [u \in DOMAIN review |-> review[u]]
    BY <1>1, <1>6 DEF Introduce, UnitsIn
  <2>2. review' = review
    BY <1>2, <2>1 DEF TablesTypeOK
  <2> QED BY <1>1, <1>6, <2>2
<1>7. CASE D # {}
  <2>1. Contract!Appends(D)
    BY <1>2, <1>3, <1>4, <1>7 DEF Contract!Appends, Appendable
  <2>2. \A i \in D : i \in Contract!PathItem /\ Contract!Legitimate(i.spec)
    BY <1>2, <1>3, SameUnits, SameReads DEF Contract!Legitimate
  <2>3. Contract!IntroduceApart(D)
    BY <1>2 DEF Contract!IntroduceApart, Appendable
  <2>4. review' = Contract!Introduce(Contract!UnitsIn(D))
    BY <1>1, SameReads, SameWrites
  <2> QED BY <1>1, <1>5, <2>1, <2>2, <2>3, <2>4 DEF Contract!Extend
<1> QED BY <1>6, <1>7

(* A step of a request, or of the clock, is one operation of the contract on *)
(* the tables, or leaves them alone.                                       *)
LEMMA OperationIsPromised ==
    ASSUME QueueInv, [NextWithoutReset]_vars
    PROVE  Contract!StepWithoutReset \/ UNCHANGED Contract!tables
<1> USE DEF database, locals
<1>a. TypeInv /\ [Next]_vars /\ UNCHANGED resets
  BY DEF QueueInv, CompletionInv, Next, NextWithoutReset, vars
<1>b. ASSUME UNCHANGED <<items, completions, review, setting, now>>
      PROVE  UNCHANGED Contract!tables
  BY <1>a, <1>b DEF Contract!tables
<1>1. CASE Quiet \/ \E r \in Requests : GeneratePass(r)
  BY <1>1, <1>b DEF Quiet, GeneratePass
<1>2. ASSUME NEW r \in Requests, FinishExtend(r)
      PROVE  Contract!StepWithoutReset \/ UNCHANGED Contract!tables
  BY <1>a, <1>b, <1>2, FinishExtends DEF Contract!StepWithoutReset
<1>3. ASSUME NEW r \in Requests, RecordCompletion(r) PROVE Contract!StepWithoutReset
  <2>1. PICK i \in items : /\ ~Done(i)
                           /\ completions' = completions \cup {CompletionOf(i, now)}
                           /\ review' = Advance(i.spec.units, now)
    BY <1>a, <1>3, CompletionSeen
  <2>2. UNCHANGED <<items, setting, now>>
    BY <1>3 DEF RecordCompletion
  <2>3. Contract!Complete(i)
    BY <2>1, <2>2, SameReads, SameWrites DEF Contract!Complete
  <2> QED BY <1>a, <2>3 DEF Contract!StepWithoutReset
<1>4. ASSUME NEW r \in Requests, pc[r] \in {"enable", "disable"} PROVE target[r] \in Packs
  BY <1>4 DEF QueueInv, CompletionInv, TypeInv, LocalsInv, TargetIsPack
<1>5. ASSUME NEW r \in Requests, EnablePack(r) PROVE Contract!StepWithoutReset
  <2>1. Contract!Enable(target[r])
    BY <1>5, SameWrites DEF EnablePack, Contract!Enable
  <2> QED BY <1>a, <1>4, <1>5, <2>1 DEF EnablePack, Contract!StepWithoutReset
\* What a prune deletes has no completion, so that none is cascaded away.
<1>6. ASSUME NEW r \in Requests, DisablePack(r) PROVE Contract!StepWithoutReset
  <2>1. completions' = completions
    BY <1>6 DEF DisablePack, PendingOf, Done
  <2>2. Contract!Disable(target[r])
    BY <1>6, <2>1, SameReads, SameWrites DEF DisablePack, Contract!Disable
  <2> QED BY <1>a, <1>4, <1>6, <2>2 DEF DisablePack, Contract!StepWithoutReset
<1>7. ASSUME NextDay PROVE Contract!StepWithoutReset
  <2>1. Contract!Day
    BY <1>7 DEF NextDay, Contract!Day, Contract!database
  <2> QED BY <1>a, <2>1 DEF Contract!StepWithoutReset
<1> QED BY <1>a, <1>1, <1>2, <1>3, <1>5, <1>6, <1>7, StepKinds

(* The two moments of a reset are those of the contract: the completions    *)
(* there are when it is asked for, and the commit that takes them.          *)
LEMMA ResetIsPromised == ResetProgress => Contract!ResetStep
<1> USE DEF database, locals
<1>1. ASSUME NEW p \in Packs, AskReset(p) PROVE Contract!AskReset(p)
  BY <1>1 DEF AskReset, Contract!AskReset
<1>2. ASSUME NEW doomed \in resets, CommitReset(doomed) PROVE Contract!Reset(doomed)
  BY <1>2 DEF CommitReset, Contract!Reset
<1>3. ASSUME NEW doomed \in resets, AbortReset(doomed) PROVE Contract!GiveUp(doomed)
  BY <1>3 DEF AbortReset, Contract!GiveUp
<1> QED BY <1>1, <1>2, <1>3 DEF ResetProgress, Contract!ResetStep

\* The queue begins where the contract does.
LEMMA ContractBegins == Init => Contract!ContractInit
BY DEF Init, EmptyTables, Contract!ContractInit, Contract!EmptyTables,
       Contract!Introduced, Introduced, Contract!Never, Never

(* The requests of the server, however they interleave, block and abort, do *)
(* to the tables what single operations at one instant each would do, and  *)
(* what a reset deletes is what its DELETE saw: a completion committed      *)
(* before the reset commits survives it (services/progress.py).            *)
THEOREM QueueImplementsContract == Spec => ImplementsContract
<1>1. QueueInv /\ [Next]_vars => [Contract!Step]_(Contract!tables)
  BY OperationIsPromised, ResetIsPromised DEF Next, Contract!Step
<1> QED BY <1>1, QueueInit, QueueStep, ContractBegins, PTL
        DEF Spec, ImplementsContract, Contract!Spec

(* The same for a learner who resets nothing: no step is a reset.          *)
LEMMA QueueStepWithoutReset == QueueInv /\ [NextWithoutReset]_vars => QueueInv'
BY QueueStep DEF Next

\* The invariant does not depend on the resets.
THEOREM QueueInvariantWithoutReset == SpecWithoutReset => []QueueInv
BY QueueInit, QueueStepWithoutReset, PTL DEF SpecWithoutReset

\* For a learner who resets nothing every step is one of the contract that has no
\* resets (services/path.py, services/packs.py).
THEOREM QueueImplementsContractWithoutReset ==
    SpecWithoutReset => ImplementsContractWithoutReset
<1>1. QueueInv /\ [NextWithoutReset]_vars => [Contract!StepWithoutReset]_(Contract!tables)
  BY OperationIsPromised
<1> QED BY <1>1, QueueInit, QueueStepWithoutReset, ContractBegins, PTL
        DEF SpecWithoutReset, ImplementsContractWithoutReset, Contract!SpecWithoutReset

-----------------------------------------------------------------------------
(* The review states and the log.  A replay counts the events of a unit and *)
(* dates its state from the last: one more event, not before the others, is *)
(* one more rung.                                                          *)

EventsOf(log, queue, u) ==
    {c \in log : \E i \in queue : i.id = c.item /\ u \in i.spec.units}

LatestOf(events) == Max({c.at : c \in events})

ReplayOf(events) ==
    IF events = {}
    THEN Introduced
    ELSE [reps |-> Cardinality(events),
          due |-> LatestOf(events) + Interval(Cardinality(events))]

\* A unit's replay looks at the completions of its items only.
LEMMA ReplayIsOfEvents ==
    ASSUME NEW u
    PROVE  Replay(u) = ReplayOf(EventsOf(completions, items, u))
BY DEF Replay, ReplayOf, EventsOf, LatestOf

\* Intervals do not shrink on the way up the ladder.
LEMMA IntervalMonotone ==
    ASSUME NEW m \in Nat \ {0}, NEW n \in Nat \ {0}, m <= n
    PROVE  Interval(m) \in Nat /\ Interval(n) \in Nat /\ Interval(m) <= Interval(n)
<1>1. Len(LADDER) = 5
  BY DEF LADDER
<1>2. /\ LADDER[1] = 1 /\ LADDER[2] = 3 /\ LADDER[3] = 7
      /\ LADDER[4] = 14 /\ LADDER[5] = 30
  BY DEF LADDER
<1>3. \A k \in Nat \ {0} :
        Interval(k) = IF k = 1 THEN 1 ELSE IF k = 2 THEN 3 ELSE IF k = 3 THEN 7
                      ELSE IF k = 4 THEN 14 ELSE 30
  <2> TAKE k \in Nat \ {0}
  <2>1. CASE k \in {1, 2, 3, 4}
    BY <1>1, <1>2, <2>1 DEF Interval
  <2>2. CASE k >= 5
    BY <1>1, <1>2, <2>2 DEF Interval
  <2> QED BY <2>1, <2>2
<1> QED BY <1>3

\* The latest of some completions is one of them.
LEMMA LatestFacts ==
    ASSUME NEW F, IsFiniteSet(F), F # {}, \A c \in F : c.at \in Nat
    PROVE  /\ LatestOf(F) \in Nat /\ Cardinality(F) \in Nat \ {0}
           /\ \E c \in F : c.at = LatestOf(F)
           /\ \A c \in F : c.at <= LatestOf(F)
<1> DEFINE at == [c \in F |-> c.at]
           T == {at[c] : c \in F}
<1>1. T = {c.at : c \in F}
  OBVIOUS
<1>2. IsFiniteSet(T)
  <2> HIDE DEF at
  <2> QED BY ImageOfFinite
<1>3. T \subseteq Int /\ T # {}
  OBVIOUS
<1>4. Max(T) \in T /\ \A y \in T : Max(T) >= y
  <2> HIDE DEF T
  <2> QED BY <1>2, <1>3, MaxOfFinite
<1>5. LatestOf(F) = Max(T)
  BY <1>1 DEF LatestOf
<1>6. Cardinality(F) \in Nat /\ Cardinality(F) # 0
  BY FS_CardinalityType, FS_EmptySet
<1>7. \A c \in F : c.at \in T
  BY <1>1
<1>8. \A y \in T : \E c \in F : c.at = y
  BY <1>1
<1>9. \A y \in T : y \in Nat
  BY <1>8
<1> HIDE DEF T
<1> QED BY <1>4, <1>5, <1>6, <1>7, <1>8, <1>9

\* A replay has as many repetitions as there are completions, and a due day.
LEMMA ReplayType ==
    ASSUME NEW F, IsFiniteSet(F), \A c \in F : c.at \in Nat
    PROVE  /\ ReplayOf(F).reps \in Nat /\ ReplayOf(F).reps = Cardinality(F)
           /\ ReplayOf(F).due \in Int /\ ReplayOf(F).due >= Never
<1>1. CASE F = {}
  BY <1>1, FS_EmptySet DEF ReplayOf, Introduced, Never
<1>2. CASE F # {}
  <2>1. LatestOf(F) \in Nat /\ Cardinality(F) \in Nat \ {0}
    BY <1>2, LatestFacts
  <2>2. Interval(Cardinality(F)) \in Nat
    BY <2>1, IntervalMonotone
  <2> QED BY <1>2, <2>1, <2>2 DEF ReplayOf, Never
<1> QED BY <1>1, <1>2

(* Fewer events leave a state that is no higher and no later.              *)
LEMMA ReplayShrinks ==
    ASSUME NEW G, IsFiniteSet(G), \A c \in G : c.at \in Nat, NEW F, F \subseteq G
    PROVE  ReplayOf(F).reps <= ReplayOf(G).reps /\ ReplayOf(F).due <= ReplayOf(G).due
<1>1. IsFiniteSet(F) /\ Cardinality(F) <= Cardinality(G)
  BY FS_Subset
<1>2. ReplayOf(F).reps <= ReplayOf(G).reps
  BY <1>1, ReplayType
<1>3. CASE F = {}
  BY <1>2, <1>3, ReplayType DEF ReplayOf, Introduced
<1>4. CASE F # {}
  <2>1. /\ LatestOf(F) \in Nat /\ Cardinality(F) \in Nat \ {0}
        /\ \E c \in F : c.at = LatestOf(F)
    BY <1>1, <1>4, LatestFacts
  <2>2. /\ LatestOf(G) \in Nat /\ Cardinality(G) \in Nat \ {0}
        /\ \A c \in G : c.at <= LatestOf(G)
    BY <1>4, LatestFacts
  <2>3. LatestOf(F) <= LatestOf(G)
    BY <2>1, <2>2
  <2>4. /\ Interval(Cardinality(F)) \in Nat /\ Interval(Cardinality(G)) \in Nat
        /\ Interval(Cardinality(F)) <= Interval(Cardinality(G))
    BY <1>1, <2>1, <2>2, IntervalMonotone
  <2>5. ReplayOf(F).due = LatestOf(F) + Interval(Cardinality(F))
        /\ ReplayOf(G).due = LatestOf(G) + Interval(Cardinality(G))
    BY <1>4 DEF ReplayOf
  <2> QED BY <1>2, <2>1, <2>2, <2>3, <2>4, <2>5
<1> QED BY <1>3, <1>4

\* A completion later than the others takes the replay one step on.
LEMMA ReplayAdds ==
    ASSUME NEW F, IsFiniteSet(F), NEW c, c \notin F, c.at \in Nat,
           \A d \in F : d.at \in Nat /\ d.at <= c.at
    PROVE  ReplayOf(F \cup {c}) = ApplyCompletion(ReplayOf(F), c.at)
<1> DEFINE G == F \cup {c}
<1>1. IsFiniteSet(G) /\ Cardinality(G) = Cardinality(F) + 1
  BY FS_AddElement
<1>2. ReplayOf(F).reps = Cardinality(F)
  BY ReplayType
<1>3. /\ LatestOf(G) \in Nat /\ \E d \in G : d.at = LatestOf(G)
      /\ \A d \in G : d.at <= LatestOf(G)
  BY <1>1, LatestFacts
<1>4. LatestOf(G) = c.at
  BY <1>3
<1>5. ReplayOf(G) = [reps |-> Cardinality(G), due |-> LatestOf(G) + Interval(Cardinality(G))]
  BY DEF ReplayOf
<1> QED BY <1>1, <1>2, <1>4, <1>5 DEF ApplyCompletion

\* No event is dated in the future.
LogInv == \A c \in completions : c.at <= now

\* Completions are of items there are, and not from the future.
LEMMA LogStep == QueueInv /\ LogInv /\ [Next]_vars => LogInv'
<1> SUFFICES ASSUME QueueInv, LogInv, [Next]_vars PROVE LogInv'
  OBVIOUS
<1> USE DEF database, locals
<1>a. /\ TypeInv /\ now \in Nat /\ \A c \in completions : c.at \in Nat /\ c.at <= now
  BY DEF QueueInv, CompletionInv, TypeInv, TablesInv, TablesTypeOK, LogInv, Completion
<1>1. ASSUME completions' \subseteq completions, now' \in {now, now + 1} PROVE LogInv'
  BY <1>a, <1>1 DEF LogInv
<1>2. ASSUME NEW r \in Requests, RecordCompletion(r) PROVE LogInv'
  <2>1. PICK i \in items : completions' = completions \cup {CompletionOf(i, now)}
    BY <1>2, CompletionSeen
  <2>2. now' = now /\ CompletionOf(i, now).at = now
    BY <1>2 DEF RecordCompletion, CompletionOf
  <2> QED BY <1>a, <2>1, <2>2 DEF LogInv
<1>3. CASE \/ Quiet \/ NextDay \/ ResetProgress
           \/ \E r \in Requests : \/ GeneratePass(r) \/ FinishExtend(r)
                                  \/ EnablePack(r) \/ DisablePack(r)
  <2>1. completions' \subseteq completions /\ now' \in {now, now + 1}
    BY <1>3, ResetTouches DEF Quiet, NextDay, GeneratePass, FinishExtend, EnablePack,
                DisablePack
  <2> QED BY <1>1, <2>1
<1> QED BY <1>a, <1>2, <1>3, StepKinds

\* What a step does to the state of a unit and to its events in the log: both
\* stay, or a reset takes events; one event and one rung; or both start.
UnitMoves(u) ==
    LET before == EventsOf(completions, items, u)
        after == EventsOf(completions', items', u)
    IN  \/ /\ u \in DOMAIN review /\ review'[u] = review[u]
           /\ after = before \/ (after \subseteq before /\ ~[NextWithoutReset]_vars)
        \/ /\ u \in DOMAIN review /\ review'[u] = ApplyCompletion(review[u], now)
           /\ \E c : c \notin before /\ c.at = now /\ after = before \cup {c}
        \/ u \notin DOMAIN review /\ review'[u] = Introduced /\ after = {}

\* A step moves a unit as a completion of one of its items does, or leaves it.
LEMMA UnitStep ==
    ASSUME QueueInv, [Next]_vars, NEW u \in DOMAIN review'
    PROVE  UnitMoves(u)
<1> USE DEF database, locals
<1>a. /\ TypeInv /\ IdsInv /\ RowsInv /\ TablesTypeOK /\ now \in Nat
      /\ items \subseteq PathItem /\ nextId \in Nat
      /\ \A i \in items : i.id \in Nat /\ i.id < nextId
      /\ \A c \in completions : c.item \in Nat /\ c.item < nextId
  BY PathItemFields
  DEF QueueInv, CompletionInv, IdsInv, TypeInv, TablesInv, TablesTypeOK, Completion
<1> DEFINE before == EventsOf(completions, items, u)
           after == EventsOf(completions', items', u)
<1>b. ASSUME review' = review, after = before PROVE UnitMoves(u)
  BY <1>b DEF UnitMoves
<1>1. CASE \/ Quiet \/ NextDay
           \/ \E r \in Requests : GeneratePass(r) \/ EnablePack(r)
  <2>1. UNCHANGED <<items, completions, review>>
    BY <1>1 DEF Quiet, NextDay, GeneratePass, EnablePack
  <2> QED BY <1>b, <2>1
<1>2. ASSUME NEW r \in Requests, FinishExtend(r) PROVE UnitMoves(u)
  <2> DEFINE D == draft[r]
  <2>1. /\ items' = items \cup D /\ completions' = completions
        /\ review' = Introduce(UnitsIn(D))
    BY <1>2 DEF FinishExtend
  <2>2. \A i \in D : nextId <= i.id /\ i.id \in Nat
    BY <1>a, PathItemFields DEF QueueInv, DraftInv, Appendable, TypeInv, LocalsInv
  <2>3. \A i \in D : \A c \in completions : i.id # c.item
    BY <1>a, <2>2
  <2>4. after = before
    BY <2>1, <2>3 DEF EventsOf
  <2>5. CASE u \in DOMAIN review
    <3>1. review'[u] = review[u]
      BY <2>1, <2>5 DEF Introduce
    <3> QED BY <2>4, <2>5, <3>1 DEF UnitMoves
  <2>6. CASE u \notin DOMAIN review
    <3>1. review'[u] = Introduced
      BY <2>1, <2>6 DEF Introduce
    <3>2. u \notin UnitsIn(items)
      BY <1>a, <2>6 DEF RowsInv
    <3>3. before = {}
      BY <3>2 DEF EventsOf, UnitsIn
    <3> QED BY <2>4, <2>6, <3>1, <3>3 DEF UnitMoves
  <2> QED BY <2>5, <2>6
<1>3. ASSUME NEW r \in Requests, RecordCompletion(r) PROVE UnitMoves(u)
  <2>1. PICK i \in items :
          /\ i.spec.units \subseteq DOMAIN review /\ ~Done(i)
          /\ CompletionOf(i, now).item = i.id
          /\ completions' = completions \cup {CompletionOf(i, now)}
          /\ review' = Advance(i.spec.units, now)
          /\ DOMAIN review' = DOMAIN review
    BY <1>3, CompletionSeen
  <2> DEFINE c == CompletionOf(i, now)
             S == i.spec.units
  <2>2. c.at = now /\ items' = items
    BY <1>3 DEF RecordCompletion, CompletionOf
  <2>3. c \notin completions
    BY <2>1 DEF Done
  <2>4. u \in DOMAIN review /\ Introduce(S)[u] = review[u] /\ u \in DOMAIN Introduce(S)
    BY <2>1 DEF Introduce
  <2>5. review'[u] = IF u \in S THEN ApplyCompletion(review[u], now) ELSE review[u]
    BY <2>1, <2>4 DEF Advance
  <2> HIDE DEF c, S
  <2>6. \A j \in items : j.id = c.item <=> j = i
    BY <1>a, <2>1 DEF IdsInv, c
  <2>7. CASE u \in S
    <3>1. after = before \cup {c} /\ c \notin before
      BY <2>1, <2>2, <2>3, <2>6, <2>7 DEF EventsOf, c, S
    <3> QED BY <2>2, <2>4, <2>5, <2>7, <3>1 DEF UnitMoves
  <2>8. CASE u \notin S
    <3>1. after = before
      BY <2>1, <2>2, <2>3, <2>6, <2>8 DEF EventsOf, c, S
    <3> QED BY <2>4, <2>5, <2>8, <3>1 DEF UnitMoves
  <2> QED BY <2>7, <2>8
<1>4. ASSUME NEW r \in Requests, DisablePack(r) PROVE UnitMoves(u)
  <2>1. /\ items' = items \ PendingOf(target[r]) /\ completions' = completions
        /\ review' = review
    BY <1>4 DEF DisablePack, PendingOf, Done
  <2>2. \A c \in completions : \A i \in PendingOf(target[r]) : i.id # c.item
    BY DEF PendingOf, Done
  <2>3. after = before
    BY <2>1, <2>2 DEF EventsOf
  <2> QED BY <1>b, <2>1, <2>3
<1>5. CASE ResetProgress /\ ~[NextWithoutReset]_vars
  <2>1. completions' \subseteq completions /\ items' = items /\ review' = review
    BY <1>5, ResetTouches
  <2>2. after \subseteq before
    BY <2>1 DEF EventsOf
  <2> QED BY <1>5, <2>1, <2>2 DEF UnitMoves
<1> QED BY <1>a, <1>1, <1>2, <1>3, <1>4, <1>5, StepKinds

\* A unit has finitely many completions, none from the future.
LEMMA EventsFacts ==
    ASSUME QueueInv, LogInv, NEW u
    PROVE  /\ IsFiniteSet(EventsOf(completions, items, u))
           /\ \A c \in EventsOf(completions, items, u) : c.at \in Nat /\ c.at <= now
<1>1. EventsOf(completions, items, u) \subseteq completions
  BY DEF EventsOf
<1>2. IsFiniteSet(completions) /\ \A c \in completions : c.at \in Nat /\ c.at <= now
  BY DEF QueueInv, CompletionInv, TypeInv, TablesInv, TablesTypeOK, LogInv, Completion
<1> QED BY <1>1, <1>2, FS_Subset

\* A state that is not behind a log: on its last rung or higher, due then or
\* later.
NotBehind(state, events) ==
    state.reps >= ReplayOf(events).reps /\ state.due >= ReplayOf(events).due

AheadInv ==
    \A u \in DOMAIN review : NotBehind(review[u], EventsOf(completions, items, u))

(* One more event takes a state that is not behind a rung up, and leaves it *)
(* not behind: the rung it reaches is at least that of the replay.         *)
LEMMA StaysAhead ==
    ASSUME NEW F, IsFiniteSet(F), NEW c, c \notin F, c.at \in Nat,
           \A d \in F : d.at \in Nat /\ d.at <= c.at,
           NEW state, state.reps \in Nat, NotBehind(state, F)
    PROVE  NotBehind(ApplyCompletion(state, c.at), F \cup {c})
<1> DEFINE n == Cardinality(F)
<1>1. ReplayOf(F).reps = n /\ n \in Nat /\ n <= state.reps
  BY ReplayType DEF NotBehind
<1>2. ReplayOf(F \cup {c}) = ApplyCompletion(ReplayOf(F), c.at)
  BY ReplayAdds
<1>3. /\ Interval(n + 1) \in Nat /\ Interval(state.reps + 1) \in Nat
      /\ Interval(n + 1) <= Interval(state.reps + 1)
  <2>1. n + 1 \in Nat \ {0} /\ state.reps + 1 \in Nat \ {0} /\ n + 1 <= state.reps + 1
    BY <1>1
  <2> HIDE DEF n
  <2> QED BY <2>1, IntervalMonotone
<1> HIDE DEF n
<1> QED BY <1>1, <1>2, <1>3 DEF NotBehind, ApplyCompletion

\* No step leaves the projection behind the log.
LEMMA AheadStep == QueueInv /\ LogInv /\ AheadInv /\ [Next]_vars => AheadInv'
<1> SUFFICES ASSUME QueueInv, LogInv, AheadInv, [Next]_vars, NEW u \in DOMAIN review'
             PROVE  NotBehind(review'[u], EventsOf(completions', items', u))
  BY DEF AheadInv
<1> DEFINE before == EventsOf(completions, items, u)
           after == EventsOf(completions', items', u)
<1>1. IsFiniteSet(before) /\ \A c \in before : c.at \in Nat /\ c.at <= now
  BY EventsFacts
<1>2. u \in DOMAIN review => review[u].reps \in Nat /\ review[u].due \in Int
  BY DEF QueueInv, CompletionInv, TypeInv, TablesInv, TablesTypeOK, ReviewState, Never
<1>3. u \in DOMAIN review => NotBehind(review[u], before)
  BY DEF AheadInv
<1>4. now \in Nat
  BY DEF QueueInv, CompletionInv, TypeInv, TablesInv, TablesTypeOK
<1>5. UnitMoves(u)
  BY UnitStep
<1> HIDE DEF before
<1>6. CASE u \in DOMAIN review /\ review'[u] = review[u] /\ after \subseteq before
  <2> HIDE DEF after
  <2>1. IsFiniteSet(after) /\ \A c \in after : c.at \in Nat
    BY <1>1, <1>6, FS_Subset
  <2>2. ReplayOf(after).reps <= ReplayOf(before).reps
        /\ ReplayOf(after).due <= ReplayOf(before).due
    BY <1>1, <1>6, ReplayShrinks
  <2>3. /\ ReplayOf(before).reps \in Nat /\ ReplayOf(before).due \in Int
        /\ ReplayOf(after).reps \in Nat /\ ReplayOf(after).due \in Int
    BY <1>1, <2>1, ReplayType
  <2>4. NotBehind(review[u], after)
    BY <1>2, <1>3, <1>6, <2>2, <2>3 DEF NotBehind
  <2> QED BY <1>6, <2>4 DEF after
<1>7. ASSUME u \in DOMAIN review, review'[u] = ApplyCompletion(review[u], now),
             NEW c, c \notin before, c.at = now, after = before \cup {c}
      PROVE  NotBehind(review'[u], after)
  <2> HIDE DEF after
  <2>1. c.at \in Nat /\ \A d \in before : d.at \in Nat /\ d.at <= c.at
    BY <1>1, <1>4, <1>7
  <2>2. review[u].reps \in Nat /\ NotBehind(review[u], before)
    BY <1>2, <1>3, <1>7
  <2>3. NotBehind(ApplyCompletion(review[u], c.at), before \cup {c})
    BY <1>1, <1>7, <2>1, <2>2, StaysAhead
  <2> QED BY <1>7, <2>3
<1>8. CASE review'[u] = Introduced /\ after = {}
  BY <1>8 DEF NotBehind, ReplayOf, Introduced, Never
<1> QED BY <1>5, <1>6, <1>7, <1>8 DEF UnitMoves, before

\* With no completion there is nothing to be behind of.
LEMMA LogInit == Init => LogInv /\ AheadInv
BY DEF Init, EmptyTables, LogInv, AheadInv

(* No review state is ever behind the completion log, resets included: the  *)
(* event and the rung are committed together, and nothing takes a rung.    *)
THEOREM ProjectionIsNotBehind == Spec => []ProjectionNotBehindLog
<1>1. QueueInv /\ LogInv /\ AheadInv /\ [Next]_vars => (QueueInv /\ LogInv /\ AheadInv)'
  BY QueueStep, LogStep, AheadStep
<1>2. QueueInv /\ AheadInv => ProjectionNotBehindLog
  BY ReplayIsOfEvents DEF QueueInv, RowsInv, AheadInv, NotBehind, ProjectionNotBehindLog
<1> QED BY <1>1, <1>2, QueueInit, LogInit, PTL DEF Spec

MatchInv ==
    \A u \in DOMAIN review : review[u] = ReplayOf(EventsOf(completions, items, u))

\* Without resets every step keeps the projection the replay of the log.
LEMMA MatchStep ==
    QueueInv /\ LogInv /\ MatchInv /\ [NextWithoutReset]_vars => MatchInv'
<1> SUFFICES ASSUME QueueInv, LogInv, MatchInv, [NextWithoutReset]_vars,
                    NEW u \in DOMAIN review'
             PROVE  review'[u] = ReplayOf(EventsOf(completions', items', u))
  BY DEF MatchInv
<1> DEFINE before == EventsOf(completions, items, u)
           after == EventsOf(completions', items', u)
<1>1. IsFiniteSet(before) /\ \A c \in before : c.at \in Nat /\ c.at <= now
  BY EventsFacts
<1>2. u \in DOMAIN review => review[u] = ReplayOf(before)
  BY DEF MatchInv
<1>3. now \in Nat
  BY DEF QueueInv, CompletionInv, TypeInv, TablesInv, TablesTypeOK
<1>4. UnitMoves(u)
  BY UnitStep DEF Next
<1> HIDE DEF before, after
<1>5. CASE u \in DOMAIN review /\ review'[u] = review[u] /\ after = before
  BY <1>2, <1>5 DEF after
<1>6. ASSUME u \in DOMAIN review, review'[u] = ApplyCompletion(review[u], now),
             NEW c, c \notin before, c.at = now, after = before \cup {c}
      PROVE  review'[u] = ReplayOf(after)
  BY <1>1, <1>2, <1>3, <1>6, ReplayAdds
<1>7. CASE review'[u] = Introduced /\ after = {}
  BY <1>7 DEF ReplayOf, after
<1> QED BY <1>4, <1>5, <1>6, <1>7 DEF UnitMoves, before, after

\* A unit that a lesson names has the state that the rebuild gives it, and one
\* whose lessons are all gone has no event, and its state is still the first.
LEMMA ProjectionIsRebuilt == QueueInv /\ MatchInv => ProjectionMatchesLog
<1> SUFFICES ASSUME QueueInv, MatchInv PROVE ProjectionMatchesLog
  OBVIOUS
<1>1. DOMAIN Rebuilt = UnitsIn(items)
  BY DEF Rebuilt
<1>2. UnitsIn(items) \subseteq DOMAIN review
  BY DEF QueueInv, RowsInv
<1>3. ASSUME NEW u \in DOMAIN review, u \in UnitsIn(items) PROVE review[u] = Rebuilt[u]
  BY <1>3, ReplayIsOfEvents DEF MatchInv, Rebuilt
<1>4. ASSUME NEW u \in DOMAIN review, u \notin UnitsIn(items) PROVE review[u] = Introduced
  <2>1. EventsOf(completions, items, u) = {}
    BY <1>4 DEF EventsOf, UnitsIn
  <2>2. ReplayOf({}) = Introduced
    BY DEF ReplayOf
  <2> QED BY <2>1, <2>2 DEF MatchInv
<1> QED BY <1>1, <1>2, <1>3, <1>4 DEF ProjectionMatchesLog

(* For a learner who resets nothing, the review states are at every moment  *)
(* what rebuild_review_states gives, with the rows of reps = 0 that it      *)
(* leaves out: those of units whose lessons were all pruned untouched.     *)
THEOREM ProjectionMatches == SpecWithoutReset => []ProjectionMatchesLog
<1>1. QueueInv /\ LogInv /\ MatchInv /\ [NextWithoutReset]_vars =>
        (QueueInv /\ LogInv /\ MatchInv)'
  BY QueueStepWithoutReset, LogStep, MatchStep DEF Next
<1>2. QueueInv /\ MatchInv => ProjectionMatchesLog
  BY ProjectionIsRebuilt
<1>3. Init => MatchInv
  BY DEF Init, EmptyTables, MatchInv
<1> QED BY <1>1, <1>2, <1>3, QueueInit, LogInit, PTL DEF SpecWithoutReset
=============================================================================
