# A verification development for habagou

habagou is a spaced-repetition trainer for Chinese characters: a FastAPI server
over PostgreSQL (`src/habagou/`) and a React client
(`src/habagou/web/frontend/`). A learner works through a *Learning Path*, a
queue of short lessons that the server extends from the packs the learner has
enabled and from what is due for review; each lesson is a board (trace, match
or sentences) played in the browser; two chats with a language model offer
practice and draft new packs.

This directory holds TLA+ models of that logic, the configurations with which
TLC checks them, and theorems about them whose proofs TLAPS checks. File names
below are relative to the repository root. `PROJECT.json` lists the runs, the
hazards, and for every definition the source lines it translates.

Contents: 1 the system; 2 the modules; 3 the runs; 4 fairness; 5 what the runs
found in the code; 6 the proofs; 7 abstractions and what is left out; 8 the plan.

## 1. The system

| Component | State | Operations | What is hard | What makes it correct |
|---|---|---|---|---|
| Scheduler (`domains/scheduling.py`) | none, pure | units of the packs, ladder, chunking, `generate_batch` | remainders, rows tied on their sort key, the fallback to early reviews | due first, then new in curriculum order; nothing lost or twice; never empty |
| Learning Path queue (`services/path.py`, `repositories/path.py`) | `path_items`, `activity_completions` | `GET /path` extends the queue, `POST /path/items/{id}/complete` | concurrent requests, a lookup before the lock, positions reused after a prune, dying between statements | one completion per item, distinct positions, a unit introduced once, each request atomic |
| Path pages and their readers (`services/path.py`, `routes/index.tsx`, `routes/lesson.$itemId.tsx`) | the pages a screen holds | a page after a cursor, refetch, lookup of a lesson | pages of different moments, read without the lock, over positions that are reused | nothing twice, nothing passed over, one lesson to start; a lookup ends |
| Review states (`repositories/review_states.py`) | `review_states` | upsert by generation and by completion | it is a projection of the completion log | the replay of the log; never steps back |
| Packs on the server (`services/packs.py`, `repositories/packs.py`) | `user_pack_settings`, packs of learners | `PUT /packs/{id}/enabled`, with the prune of the queue; create, delete, three reads | races with the two above | no pending lesson of a disabled pack; history survives |
| Progress (`services/progress.py`) | the completion log | `DELETE /progress/packs/{id}`, whole-pack completions | takes no lock, so that others go on between its DELETE and its commit; deletes part of a log that other tables project | the projection is never behind the log |
| User row lock and sessions (`repositories/users.py`, `db.py`) | a row lock, a transaction per request | lock, commit, roll back, close | the lock outlives an early return until the session closes | mutual exclusion; it is always released |
| Rate limiter (`services/rate_limit.py`) | windows by user, in memory | `acquire`, prune | the boundary of two windows | no window grants more than its limit; windows do not overlap |
| Practice and generation turns (`services/practice_chat.py`, `services/pack_generation.py`, their routers and DTOs) | packs saved; nothing of a conversation | a turn, a save | the order of the refusals; what is counted when the model fails | the spend has a cap whatever fails |
| Chat clients (`lib/*-chat.ts`, `routes/practice.tsx`, `routes/packs.generate.tsx`) | entries, history, draft, phase | send, retry, save, new conversation, leave | answers late or lost, retries, navigation failing after a save | the transcript is what the model saw; the screen never stays busy |
| Lesson player (`components/*-state.ts`, `*-runner.tsx`, `routes/lesson.$itemId.tsx`, the activity routes of a pack) | a board, a timer, the completion's mutation | tap, complete, next, retry | a timer that fires once, white space without strokes, POST answers lost after the commit | a completion is earned; a board gets stuck in known ways only; what the done screen says is so |
| Library, bench and pack screens (`routes/packs.library.tsx`, `packs.index.tsx`, `packs.$packId.tsx`) | the query cache | optimistic toggle, roll-back, refetch; set, reset, remove, complete, save | changes in flight together, answers that are older than a change, lost answers | what counts as fresh is what the server has |
| Streaks and progress views (`domains/streaks.py`, `services/progress.py`, `lib/progress-view.ts`) | none, pure | aggregates by day | whose midnight; a midnight between two reads | streaks are runs of days; only a missed day ends one |
| Sign-in (`services/auth.py`, `auth.py`, `authz.py`) | `users`, session cookies | callback, logout | first sign-ins at once, names with and without a suffix, claims that change | a sign-in fails only if raced; no right that was not granted |
| Feature flags (`services/feature_flags.py`) | overrides | resolve, set, clear | order of precedence, releases with other flags | the override wins; nothing is on unearned |
| Characters and corpus cache (`repositories/characters.py`) | a cache for the life of the process | fill, lookup | filled across an await, while a corpus is being imported | no part of a corpus, and no empty one, is kept |
| Bootstrap (`docker/entrypoint.sh`, `scripts/import_stroke_data.py`, `scripts/seed.py`) | characters, packs | import in chunks, upsert | crashes in between, the release before still serves | every character of a pack has its strokes |
| Observability and configuration; schema migrations; presentation, API types, mocks, evaluations, tooling | none that the program's logic depends on | | | |

How they interact. The router opens a session (a transaction) per request and
calls a service. The path and pack services first take the learner's row lock
(`SELECT ... FOR UPDATE` on `users`) when they are going to write the queue, so
that all writers of one learner's queue are serialised; a reset of progress takes
no lock, and neither do the reads. `path.py` calls the scheduler with the review
states it has read and writes the items *and* their review states; a completion
writes the log *and* advances the states. The path screen pages through the
queue and the lesson player looks its lesson up in the same pages, then posts
completions, once per board and again by hand. The library, bench and pack
screens share a cache of queries over the packs service. The counters of
progress are computed from the log on each read. A chat turn passes the limiter
before the model, and its prompt lists the corpus from a cache of the process;
the corpus and the curated packs are written by the bootstrap of a release while
the one before still serves. Sign-in decides whose rows a request is about, and
whether it is an administrator's.

Nothing else is shared between learners: every statement of the learners' services is
filtered by `user_id`, so that one learner's rows are the whole state that the
queue models need. What is shared by all, user names and the corpus, is in
`Accounts` and `Corpus`.

## 2. The modules

```
Scheduling <-- PathTables <-- PathContract
     ^              ^               ^ (refinement)
     |              +---------- PathQueue <-- MCPathQueue
SchedulingChecks

Boards <-- LessonPlayer <-- MCLessonPlayer        RateLimit <-- Chats
PathPages    Library <-- MCLibrary    Progress <-- MCProgress    Corpus <-- MCCorpus
Accounts <-- MCAccounts

SchedulingProofs <-- PathQueueProofs
        ^----------- SchedulingChecksProofs
PathPagesProofs    LessonPlayerProofs    ChatProofs
Corpus, Library <-- PackProofs          Accounts, Progress <-- LearnerProofs
```

| Module | Models | Correspondence |
|---|---|---|
| `Scheduling` | `domains/scheduling.py` | An operator per function, named after it: `Chunks` is `_split` over `_chunk_sizes`, `NewMaterialItems`, `ReviewItems`, `GenerateBatch`, `ApplyCompletion`. A batch is a set of items with their offsets (the list the code returns). A unit is a pack, an activity and a position. The argument `tie` is the order in which PostgreSQL returns rows that its `ORDER BY due_at` does not tell apart. |
| `PathTables` | the learner's rows, the statements of the repositories, the data invariants | `items`, `completions`, `review`, `setting` are the four tables; `Introduce`, `Advance`, `Upsert`, `PendingOf`, `Enabled` are their statements. `Replay` is what `rebuild_review_states` makes of the log for a unit, `Rebuilt` what it returns: a state for each unit of a lesson that exists. |
| `PathQueue` | `GET /path`, `POST .../complete`, `PUT .../enabled`, `DELETE /progress/packs/{id}` | A request is a program counter and its handler's locals. An action is one or several statements between which no other request can change what the later ones read. Rows inserted and not yet committed are in `draft`; `FinishExtend`, `RecordCompletion`, `EnablePack`, `DisablePack` commit. `Abort` is the death of a request anywhere, with its roll-back. A reset holds no lock and is no such request: `AskReset` is its DELETE, with the rows of its snapshot, and `CommitReset` its commit, any number of steps of the others later (`resets` are those in between). |
| `PathContract` | what the queue promises | Each locked operation in one step, with no requests, locks or transactions; a reset in two, the completions it was asked for and their end, between which others may be made that stay. `Extend` says which rows a read may append without saying how they are chosen. |
| `Boards` | `match-state.ts`, `trace-state.ts`, `sentence-state.ts` | An operator per reducer. |
| `LessonPlayer` | the runners, the lesson route and the three activity routes of a pack, the completion's mutation, and the server seen from them | `screen` is what each tab shows; `requests` and `answers` are the network; `item` is the server's row, which a completion changes as `PathContract!Complete` does. `timer` is the one timer of a wrong pair, which a clock that is early spends (`"early"`); `blank` are the places of the sentences that hold white space, where the canvas has no strokes and reports nothing. |
| `RateLimit` | `services/rate_limit.py` | `Acquire(k, allowed)` is `acquire`, with its `_prune`; `grants` is a history variable. |
| `Chats` | one chat screen of either feature, the two turn endpoints, the save | `chat` is the reducer's state and `waits` the pending mutations; `RefuseTurn`, `Turn` and `SavePack` are the endpoints; `Acquire` is conjoined into `Turn`, so that the limiter takes its steps inside those of the server. |
| `PathPages` | the read tail of `get_path`, the path screen, the lookup of the lesson screen | A write of the queue is one step, as `PathContract` justifies; a `GET` is an extension, the listing of the items, and the page made from it with what is then done. `walk` is what a reader collects, `screen` what is shown. A refetch asks for all its pages again, from the start. |
| `Library` | the four screens that mount a query of packs, TanStack's cache, the endpoints behind them | One query is looked at, whichever it is; all changes of packs are sent around it. `entry` is its cache entry (data, validity, the request under way), a mutation is a record with its answer's value. `doubt`, `old` and `alone` are history. The operators of the cache are external: they are what `useQuery`, `cancelQueries`, `setQueryData` and `invalidateQueries` do in the version the client is locked to. |
| `Corpus` | `import_stroke_data.py`, `seed.py`, `entrypoint.sh`, `repositories/characters.py`, the output validator, `PackRepository.create` | `job` is the bootstrap with its open transaction, `characters` maps a stored character to the release that wrote it, `cache` is `_all_hanzi_cache`. A sentence is the set of its characters; the ids of the sentence rows are not modelled. |
| `Progress` | `daily_completion_counts`, `get_summary`, `domains/streaks.py`, `lib/progress-view.ts`, `_daily_and_streak` | The log counts the completions of each hour; a summary is two steps, since its query and its clock are read one after the other. Pure functions are operators of their names. |
| `Accounts` | `services/auth.py`, `auth.py`, `authz.py`, `routers/auth.py`, the feature flags | `LookUp`, `FindName` (one turn of the loop), `Create` or `Refresh` are the statements of `sign_in`; a user is an identity with a row of name and address; `AskOverride` and `ApplyOverride` are an administrator's request before and after the lock; `Resolved` is `resolve_for_user`. |
| `MCPathQueue`, `MCLessonPlayer`, `MCLibrary`, `MCCorpus`, `MCProgress`, `MCAccounts` | the instances TLC is given | |
| `SchedulingChecks` | the questions asked of the scheduler | A behaviour picks an input, and the answer is checked. |
| `SchedulingProofs`, `SchedulingChecksProofs`, `PathQueueProofs`, `PathPagesProofs`, `LessonPlayerProofs`, `ChatProofs`, `PackProofs`, `LearnerProofs` | lemmas and theorems | section 6 |

A module of proofs may be about two components. They share no state, and their
initial states, steps and specifications have names of their own (`Init` and
`CorpusInit`, `Init` and `ProgressInit`), as those of `RateLimit` have beside `Chats`.

Definitions named `Mutant...` are plausible bugs, kept beside what they mutate.
No specification uses them. `PROJECT.json` names, for each property of a passing
run, the mutant that breaks it: with the mutant in place of its original, TLC
reports the property violated. They show what each property depends on.

## 3. The runs

All integers are unbounded in Python and well below 2^53 in the client, so
none of the models needs a width.

| Run | Instance | Asks |
|---|---|---|
| `PathConcurrency` | two requests, two packs (two characters and a sentence; one character), batches of 2, window 2, ids up to 3, one rung, one day | Do two requests that read, complete, enable and disable at once, dying anywhere, keep the queue consistent, and does each take effect in one atomic step? `OneCompletionPerItem`, `QueueIsSound` (positions and introduced units are distinct), `DisabledPackHasNoPending`, `HistoryKept`, `ImplementsContractWithoutReset` (and `TypeOK`). |
| `PathReset` | two requests, one pack of one character, batches of 1, window 1, ids up to 2, two rungs, two days, two resets under way at once | The same with resets, which take no lock and whose DELETE and commit lie apart: `ProjectionNotBehindLog`, `LadderNeverDescends`, `ImplementsContract`; and `RequestsFinish`: every request that starts is answered. |
| `PathReviews` | one request, one pack, ids up to 5, two rungs, four days | A learner's days in sequence, through new material, due reviews and early ones, and disables that prune: `ProjectionMatchesLog` (with the one kind of row that the rebuild lacks, section 5), `PathNeverRunsOut`. |
| `PathPages` | pages of 1, a window of 2, ids up to 3 before the window closes, two days | What do two readers make of pages read at different moments? `EachLessonOnce`, `OneLessonToStart`, `LookupEnds`. |
| `SchedulingChecks` | each set of review states over the two packs, each a due day in {0, 1, 3} seen on day 2, every order of the ties that is one permutation of the activities; up to 32 members in chunks of up to 6 | `BatchIsSound` (no more items than fit, each of units of one kind that are due, or unseen, as it says), `BatchOrder` (oldest due first, then the curriculum), `NothingLeftOut` (and never empty), `ChunksFair` (a partition, even, and large enough for a match). |
| `LessonPlayer` | two screens, two pairs, sentences of 2 and 1 characters, the last of which may be white space, timers on time or a millisecond early, two requests, one failure | `PostedIsPractised`, `OutcomeIsTrue`, `LoggedIsPlayed`; `BoardsGoOn`: a board goes on unless its timer fired early or a sentence reached its white space, and then it does not. |
| `Chats` | both features, limit 2 in a window of 2, histories of at most 1, four requests, two failures, clock to 2 | `TranscriptIsTrue`, `TutorAnswersOnce`, `NeverLocked`, `SavedAsAsked`, `QuotaPerWindow`, `SpendIsCapped`. |
| `Library` | two global packs and an owned one, any query, two changes, one failure or lost answer | `CacheIsTrue`: data that counts as fresh is what the server has, unless the client could not know. `OptimismHolds`: no older answer takes back a toggle. |
| `Corpus` | two releases of two and three characters, chunks of 2, three versions of the curated pack, two runs of the agent, three drafts, one saved pack | `CacheWhole`, `PacksGrounded`. |
| `Progress` | three days of two hours, learners an hour east and west, up to two completions an hour, a goal of 2, milestones after 1, 2, 4, ... days | `StreaksAreRuns`, `StreakKept`, `MonthIsTrue`. |
| `Accounts` | three people, two browsers, one flag, two events among changes of claims, overrides and restarts | `FailsOnlyIfRaced`, `SignInEnds`, `FlagsEarned`. |
| `PathDays` | the instance of `Progress` | A statement of the documentation that the code does not keep: section 5. |

Distinct states: `PathConcurrency` 772,180, `PathReset` 137,172, `PathReviews` 375,280,
`PathPages` 452,659, `SchedulingChecks` 390,822, `LessonPlayer` 744,297, `Chats` 353,800,
`Library` 2,633,145, `Corpus` 450,294, `Progress` 420,296, `Accounts` 550,870. The slowest runs
(`SchedulingChecks`, `Accounts`, `PathReset`) take two to three minutes with two workers.

The bounds, and why they are enough:

- `Requests`: the properties relate a request to the commit of another, so that
  two suffice; under the row lock a third is only one more that waits.
  Requests are interchangeable, hence the symmetry.
- `MaxIds` stops new reads of the path once that many items were made, not the
  items a read may make. `PathConcurrency` fills a window, prunes it and fills
  it again, which is where positions come back.
- Packs of one and two characters: one with nothing to be matched with, and a
  pair. Groups of several chunks are asked for on their own, up to 32 members
  (`ChunksFair`), and the theorems hold for packs of any size.
- `MaxResets`: two resets under way are enough for one to delete rows that
  another has marked, and for completions to be made on both sides of each. The
  one character of `PathReset` keeps that run small: its lessons review the same
  unit again and again, which is what a reset has to leave on its rung.
- Ties: PostgreSQL may order equal rows anyhow. The scheduler sees of it only which
  group of a pack comes first, and the runs (and theorems) have one order of the
  activities for all packs.
- `MaxReps`, `MaxDay`: two rungs and four days contain a unit that is new, one
  that is not due, one that falls due and one taken early; further rungs repeat
  them with longer intervals. The theorem on the ladder holds for all.
- `MaxPasses` is 3 in the runs and 25 in the code: at least as many passes as the
  window has places, as in the code (25 for 10), which is what `PathNeverRunsOut` needs. `PENDING_WINDOW` is 10 in the code, 1 or 2 in the
  runs, against batches of 1 or 2: the loop stops short of, at and beyond it.
- `LessonPlayer`: two requests are a post and its retry, or the posts of two
  screens. One failure suffices to lose an answer; the count of
  whole-pack completions allows one more for each failure, so that the bound
  does not hide further ones. `Lateness` is by how much the timer of a wrong pair
  is past its due time by the clock, negative if it is early or the clock was
  set back; a later one does as one on time.
- `Chats`: two turns fill a window, the third is refused or opens the next one;
  a history of 1 is the longest accepted, so that the third turn is one too long.
  Two failures are enough to fail the retry of a failure.

- `PathPages`: a page of one lesson is the smallest that makes every reading a
  walk of several pages; a window of 2 has a lesson to start and one behind it.
  `MaxIds` closes the window once three lessons were made, so that the walks end;
  before that lessons are pruned and their positions used again.
- `Library`: of two changes under way one can be rolled back over the other, in
  each order of commits and answers; a third repeats them. One failure loses an
  answer, or lets the change reach the server after the client gave it up.
- `Corpus`: a chunk of 2 splits the second release and not the first. The drafts are one that needs the new
  release, one with white space, and one that names a character twice.
- `Progress`: two hours a day and one hour of offset put the learner's midnight
  at noon of the server's; three days hold a streak, a day missed and a day
  open. The formulas do not mention the length of a day, a month or a goal.
- `Accounts`: the people are called ann, ann and ann-2, which is what the second
  of them is given if she is later; the first may sign in on both browsers at
  once. Two events are an override and a change of claims, or a restart after
  either.

`SchedulingChecks` never changes its variables, so that its deadlock check is
vacuous. `Chats` switches it off: with the requests, the failures and the time
of the bounds spent and the screen left, nothing remains to be done. In all
others a deadlock would be reported.

## 4. Fairness

- `PathReset`. `WF(Progress(r))` and `WF(Loops(r))`: the server runs the request it
  has started, to its answer. `Loops` is what a turn of the generation loop does
  to the request itself; one of its two outcomes can always be taken, and stated
  so it spares TLC the computation of a batch. `SF(AcquireLock(r))`: PostgreSQL
  keeps the waiters of a row lock in a queue, so that a waiter is not passed over
  for ever; it is strong because the lock is taken and released meanwhile.
  `Abort` and the arrival of requests have no fairness: a request need not die,
  nobody need send one.
- `PathPages`. `WF(Serve)`: a request for a page is answered, or fails, and the
  loop of `resolvePathItem` runs on. The learner, other tabs and the clock have
  none. `MaxIds` makes the queue finite, as the material of a learner who takes
  no review is; without an end of new lessons a lookup could be led on for ever.
- `Accounts`. `WF(Server(b))`: the server goes on with a callback it has begun.

No liveness is claimed for the other clients. `fetch` is called without a timeout, so
that an answer that never comes leaves the screen waiting for as long as the
browser does; `NeverLocked` says what holds instead: a busy screen always
has a request that is still in flight.

## 5. Where the code and its documentation part

`PathDays` checks one statement of the documentation and ends in a counterexample:
`docs/api.md:176` calls the `daily` and `streak` of `GET /path` "the same
daily-goal/streak counters as `GET /api/v1/progress/summary`". The summary counts
the learner's days, by the offset the client sends; `services/path.py:384` counts
days of UTC. For a learner elsewhere a lesson done late in the evening counts for
another day on the path than on the progress screen.

Others were met while modelling. The models do as the code does, and the
properties are stated so as to hold of it:

- *Prune and the projection.* `services/path.py:209-210`, and ADR 0008, say that
  rebuilding the review states gives the live table, field by field. The rebuild
  has a state for each unit of a lesson that exists. A disable prunes lessons that
  were never completed and leaves the rows of their units, at `reps` 0: those are
  in the table and not in the rebuild. `ProjectionMatchesLog` states exactly this
  difference, and no other without resets.
- *Reset and the projection.* A reset of a pack's progress deletes
  the pack's path completions and leaves the states they produced, so that the
  table is ahead of the rebuild. With resets
  the half `ProjectionNotBehindLog` holds; `ProjectionMatchesLog` is checked without.
- *Reset and completions.* The DELETE of a reset does not see a completion that is
  committed after it began, takes no lock that would keep it from being made, and
  leaves it: "reset" then ends with a completion in the pack. `PathContract` has it so.
- *Boards that do not go on.* A wrong pair blocks all taps until its one timer
  has cleared it, and the reducer refuses if the clock is not there yet
  (`match-state.ts:77`); the effect that sets the timer does not run again
  (`match-runner.tsx:58-67`). And a sentence with white space, which a learner can save,
  has a place whose canvas reports nothing. Only leaving the screen helps. `BoardsGoOn` says that
  there is no third way.
- *Reset of a disabled pack.* The prune of a disable keeps completed lessons; a
  later reset makes these pending again, shown in the path and counted in its
  window. Hence `DisabledPackHasNoPending` without resets. With resets the first
  pending lesson can also be one that the screen has shown as done
  (`OneLessonToStart` says so).
- *Due units.* `docs/verification.md:177` says that a due unit resurfaces once
  per due cycle. Every pass of the generation loop emits all due units again.
- *Enabling again.* `docs/api.md:80-82` says that it resumes where the learner left
  off. The prune leaves the review states of lessons that were never played;
  they count as introduced, and new material goes on after them.
- *Try again.* `routes/packs.generate.tsx:183-184` says that it retries the failed
  turn. In the generation chat the button of an old failure stays after the retry
  succeeded, and asks for the answered topic again. The practice chat asks for
  the last entry, and there `TutorAnswersOnce` holds.
- *White space.* `docs/verification.md:197` has every glyph of a saved pack in the
  corpus. Grounding passes over white space within a sentence, which the corpus
  does not have; the seed script does not pass over it.
- *A character twice in a draft* passes the grounding and breaks the primary key of
  `pack_characters`: the save answers 500, each time it is tried.
- *Paging.* `docs/verification.md:115` says that paging past `next_cursor` extends the
  queue. The queue is extended to its window of pending lessons by any read, and
  by no more for a cursor at its end.
- *User names.* `docs/auth.md` has the user name refreshed at login; `sign_in`
  refreshes the display name and the address only.
- *Path items.* `docs/architecture.md:145` says that rows are never deleted after
  generation; a disable prunes them.
- *Milestones.* The percentage is rounded, so that 199 of 200 days show 100 %.

## 6. The proofs

TLAPS proves these for every value of the constants that satisfies the named
assumptions: packs are a finite set of naturals with a natural number of
characters and sentences each, batches and windows are positive, requests are
any set that does not contain the free lock, the limit is any integer, people, claims,
flags and releases are any sets, no administrator's address is the absent one, a
release pins at least one character, a pack is a list of characters and one of
sentences, and no pack is both curated and a learner's. Of progress: the goal, the step of late
milestones, days and months are positive, milestones grow and the last is a multiple of that step, the
window of the heat map is no shorter than a month, and offsets are finitely many (from -900 to 900
minutes, `routers/v1/progress.py:34`). `PathIsNeverShort` has a hypothesis of its own: a read may make at least
as many passes as the window has places, as in the code (25 for 10, `path.py:54-57`). A page of the path holds at least one lesson.
Of the player: pairs and the lengths of sentences are positive; timers may be late or early by
any number of milliseconds, and white space may be anywhere. Nothing else is assumed. The bounds of the runs are constants as
well, so that the theorems hold for each of their values.

| Theorem | States |
|---|---|
| `PathQueueProofs!TypeCorrect` | `TypeOK` of the queue |
| `PathQueueProofs!CompletedAtMostOnce` | `OneCompletionPerItem` |
| `PathQueueProofs!HistoryIsKept` | `HistoryKept` |
| `PathQueueProofs!DisabledStaysPruned` | `DisabledPackHasNoPending`, for a learner who resets nothing |
| `PathQueueProofs!LadderOnlyClimbs` | `LadderNeverDescends` |
| `PathQueueProofs!QueueStaysSound` | `QueueIsSound` |
| `PathQueueProofs!QueueImplementsContract`, `QueueImplementsContractWithoutReset` | `ImplementsContract`, `ImplementsContractWithoutReset` |
| `PathQueueProofs!PathIsNeverShort` | `PathNeverRunsOut`, given passes enough |
| `PathQueueProofs!ProjectionIsNotBehind` | `ProjectionNotBehindLog`, resets included |
| `PathQueueProofs!ProjectionMatches` | `ProjectionMatchesLog`, without resets: the table is the rebuild, and `Introduced` where the rebuild has nothing |
| `PathPagesProofs!PagesInvariant` | the inductive invariant of the pages |
| `PathPagesProofs!LessonsAreShownOnce` | `EachLessonOnce` |
| `PathPagesProofs!OneLessonIsOffered` | `OneLessonToStart` |
| `SchedulingChecksProofs!BatchIsAlwaysSound` | `BatchIsSound` |
| `SchedulingChecksProofs!BatchIsOrdered` | `BatchOrder` |
| `SchedulingChecksProofs!NothingIsLeftOut` | `NothingLeftOut` |
| `SchedulingChecksProofs!ChunksAreFair` | `ChunksFair` |
| `LessonPlayerProofs!PlayerInvariant` | the inductive invariant of the player |
| `LessonPlayerProofs!PostedIsAlwaysPractised` | `PostedIsPractised` |
| `LessonPlayerProofs!BoardsAlwaysGoOn` | `BoardsGoOn` |
| `LessonPlayerProofs!OutcomeIsAlwaysTrue` | `OutcomeIsTrue` |
| `LessonPlayerProofs!LoggedIsAlwaysPlayed` | `LoggedIsPlayed` |
| `ChatProofs!LimiterInvariant` | the inductive invariant of the limiter |
| `ChatProofs!ChatsImplementLimiter` | `Chats` implements `LimiterSpec` |
| `ChatProofs!QuotaKept` | `QuotaPerWindow` of the chats |
| `ChatProofs!WindowsKeptApart` | the windows of a user do not overlap (no run checks it) |
| `ChatProofs!SpendIsAlwaysCapped` | `SpendIsCapped` |
| `ChatProofs!NeverStaysLocked` | `NeverLocked` |
| `ChatProofs!SavesAreAsked` | `SavedAsAsked` |
| `ChatProofs!TalkInvariant` | the inductive invariant of a conversation |
| `ChatProofs!TranscriptStaysTrue` | `TranscriptIsTrue` |
| `ChatProofs!TutorNeverRepeats` | `TutorAnswersOnce` |
| `PackProofs!CorpusInvariant` | the inductive invariant of the corpus |
| `PackProofs!CacheIsWhole` | `CacheWhole` |
| `PackProofs!PacksAreGrounded` | `PacksGrounded` |
| `PackProofs!CacheInvariant` | the inductive invariant of a cache entry |
| `PackProofs!CacheStaysTrue` | `CacheIsTrue` |
| `PackProofs!TogglesStayShown` | `OptimismHolds` |
| `LearnerProofs!ProgressInvariant` | the inductive invariant of the counters |
| `LearnerProofs!StreaksAreAlwaysRuns` | `StreaksAreRuns` |
| `LearnerProofs!MonthIsAlwaysTrue` | `MonthIsTrue` |
| `LearnerProofs!StreaksAreKept` | `StreakKept` |
| `LearnerProofs!FlagsEarnedAlways` | `FlagsEarned` |
| `LearnerProofs!FailsOnlyIfRacedAlways` | `FailsOnlyIfRaced` |

The arguments.

- *Types.* `TypeOK` is not inductive: `pending` is a natural number only if the sets
  that are counted are finite, and `EnablePack` writes a pack only if the target
  of such a request is one. `TypeInv` adds both. The heart is that
  `GenerateBatch` returns finitely many items over units of the enabled packs
  (`SchedulingProofs`, with the facts on finite sets of the library).
- *The lock.* `LockInv`: a request at a step that needs the lock holds it. Two
  requests are therefore never at such steps at once; every later argument is
  about what the holder has seen and nobody else may change.
- *One completion.* `StillPending`: what the second `has_completion` found is
  still so when the completion is written, since only a holder of the lock adds
  one. Without it `OneCompletionPerItem` is not inductive, since nothing relates
  the step `record` to the log.
- *History.* From the same invariant: a prune deletes what is not done, and no
  completion of those items is between check and commit.
- *Disabled packs.* `DraftIsEnabled`: what a read has drafted, and the packs it
  goes on with, are enabled now and not only when it began.
- *The ladder.* `LadderInv`: a due day is at most the interval of its rung from
  now; intervals grow with the rung, so that a completion today cannot bring the due day forward.
- *Batches.* The code sorts its candidates, the model counts for each how many have
  a smaller key. `SchedulingProofs` shows that keys are compared as a strict total
  order on the candidates, so that their counts are distinct (`IndexOrder`) and, by the
  pigeonhole principle, 0, 1, ..., n - 1; the first `BatchSize` are the batch (`BatchIsPrefixOf`).
  Order, soundness and completeness are then facts about single candidates
  (`CandidatesFacts`). Chunks are the same with the index of a member in place of its key,
  and division with remainder (`ChunksAreTheParts`).
- *The queue.* `QueueIsSound` is about committed rows, and not inductive: what keeps
  it is that a drafted row comes after all that was there when the lock was taken.
  `QueueInv` adds to the types, the lock and `CompletionInv`: ids are below the next one
  (`IdsInv`), positions and introduced units are distinct (`RowsInv`), and the
  draft of the request in the lock follows the committed rows and is over units they do
  not introduce (`DraftInv`), of enabled packs (`DraftIsEnabled`).
- *The refinement.* The contract's variables are the committed tables, so the
  mapping is the identity and the drafts are what it hides. From `QueueInv`, each action either
  leaves the tables alone or commits, and a commit is one operation of the
  contract on the tables as they are then (`OperationIsPromised`): the draft of a read
  is an extension, a completion is of a pending item, a prune of what is pending. A prune
  takes no completion, since pending items have none. The two moments of a reset are those of
  the contract (`ResetIsPromised`), so that nothing need be known of what happens between them.
- *The window.* `FillInv`: a read counts no more lessons as pending than there are, its draft
  included, and has drafted at least as many as it has made passes, since a pass that goes on
  has found something to append. It gives up for want of passes only with a full window.
- *The projection.* `LogInv`: a completion is of an item, and not from the future.
  Hence a new completion is the latest of its units, and a replay of the log
  with it is `ApplyCompletion` of the replay before (`ReplayAdds`), which is what
  the handler does to the table. A unit without a lesson in the queue has no completion to replay
  (`ProjectionIsRebuilt`), so that its row is as it was introduced. Resets take completions away and only put the table
  further ahead (`AheadInv`); without them it stays equal (`MatchInv`).
- *The pages.* An id stays at its position, in the queue and on every page, and a completed row is not
  removed (`TablesInv`). `WalkInv` is the invariant of what a reader has: its pages follow one another in the order of
  positions, the next one begins after the last entry (`Reached`), and each lesson that it is owed, which
  was visible when it began and ever since, is on a page or after the cursor (`Owing`). `ListedInv`
  carries this through the two halves of a read: a row that was not listed is after all that
  were. That one lesson is offered needs more: as long as no page has a current lesson, all up to the cursor
  is done (`HeadAhead`), and of two current ones the first is over (`OneHead`).
- *The player.* `ScreensInv`: a board of each kind has the shape its reducers leave it in,
  whose next step exists, and whose finish is the practice of all members; the practised set is
  what the board shows as done. `NumbersInv`: a number stands for one request, and only
  its own screen waits for it. `OutcomeInv`: what an answer or a done screen says
  (`Holds`) is so of the server, and stays so. `PlaysInv` counts: packs logged, with
  the requests that may still log and the screens that may still try again, are at most
  the plays and the failures.
- *The limiter.* A grant either was counted by the live window of its user or belongs
  to a window that ended before that one began, and before now (`LiveOrPast`).
  Distinct places then follow from the count, disjoint windows from the second case. Every
  step of `Chats` is a step of the limiter or leaves it alone, so the chats inherit both.
- *The spend.* `CallsGranted`: there is an injection of the calls into the learner's
  grants, of the same moments, and a window's first grant is at its start
  (`OpensWithFirst`). The grants of a span belong to the window that opens in it and
  the one before, whose first grant is outside, so that they have 2 * Limit - 1 places to
  be at (`SpanHolds`, by the library's theorem on injections).
- *The saves.* A draft's `Chances` are the requests that saved it, those that still may,
  and that of an idle screen which shows it. A new draft has none (`FreshTurn`), the screen's is
  spent on the request it sends, and only a failure gives it back.
- *The chat's lock.* `WaitsOK`: an idle screen waits for nothing, a busy one for exactly
  one request of its phase which is in flight; numbers are fresh (`NumbersOK`), so that
  an answer of another request cannot be taken for it.
- *The conversation.* `TurnsOK`: a turn that the screen waits for is about its last message and took the
  history of the screen along, so that its answer brings that history back with this message at the end; the screen
  changes neither while it waits. `Paired` then says that the k-th answer of the transcript is about the
  k-th element of the history and about the message above it, and appending keeps it (`PairedGrows`). `OnceOK`: in
  the practice chat, while the last entry is no answer, the last message has none, which is what makes the
  button under a last failure safe.
- *The corpus.* `JobOK`: what the open transaction has written and what is left to write are
  the archive of the release. All is committed at once, so what is stored, or was when a
  query read it, is nothing or holds the whole archive of a release (`WholeOrEmpty`), and goes on
  doing so since an import only adds. What was found in the corpus once therefore stays there
  (`Grounded`), which is why a draft checked before and a pack saved after need no lock.
- *The cache.* `CacheIsTrue` speaks of moments without a change under way, and is not inductive.
  `Right` says of data, and of an answer that is still on its way, that it is the view of the server
  once no change is left whose answer will correct it (`Settled`); a request that was sent before such a
  change is `old`, data that missed one is in doubt, and a settling change invalidates the entry or leaves one
  that it does not touch. Two clicks write into the cache more than they ask for: a reset and a
  completion write the progress that their answer says, which is so only because no other change of
  that pack is under way (`AloneIsAlone`, `ValueIsProgress`), and the setting of the pack, which they
  take from the entry. Hence the second half of `Right`: on the screen of a pack the setting is right as soon as no change of the
  setting is under way. A pack that a save has yet to make has no entry at all
  (`NothingUnsaved`, `SavesAreNew`). A toggle has cancelled the request of the library, and
  is no longer alone once a mount or a focus starts another one: while it is, none runs that could take it
  back (`ToggleIsAlone`).
- *Streaks.* `RunEndingAt` is a recursive function of the day. No induction is needed: going back from
  a day there is a first one outside the finite set of goal days (`GapExists`, the least set of members by
  the well-founded order on finite sets), the distance to it is a function of the day that satisfies the
  recursive equation (`RunLengthIs`), and a second solution would differ from it on a first
  goal day, before which they agree (`RunIsLength`). The runs up to a day are then the longest one and all shorter ones (`RunsAre`), a run
  over more days is no shorter (`RunsGrow`), and what is left is arithmetic of quotients: days come in the order of hours, next
  hour is today or tomorrow (`DaysInOrder`), and the milestone by fifties is the next multiple
  (`NextMilestoneIs`).
- *The month.* `ProgressInv`: the log has nothing after now, and what a request has read nothing after the local day of
  now, at the offset it was read with; the clock only helps (`AskedStays`). The month is within the window.
- *Flags.* `FlagsEarned` is about stored addresses, which come from callbacks, which
  come from claims: `VouchInv` says of all three that the provider has given them.
  An override needs an administrator when it is asked for, not when it is written, so
  `OrderInv` covers the requests between the two; `VouchedStay` is why a sign-in that takes the
  right away meanwhile does not break it.
- *Sign-ins.* `Undisturbed`: between the look-up and the insertion a callback knows whom
  the table held (`seen`), and that none of them has the name it settled on. That lasts because a
  user is never deleted or renamed (`NamesStay`); what makes the insertion fail is then
  somebody who came after.

Model-checked only:

- Liveness (`RequestsFinish`, `LookupEnds`, `SignInEnds`): it needs `ENABLED`, which these provers do not treat.

Every other property of a passing run is the statement of a theorem.

No module with theorems reaches a `RECURSIVE` operator.

## 7. Abstractions, and what is left out

- *Time* is in days in the queue (`due_at` is a whole number of days after the completion), and
  in ticks in the limiter. `Never` stands for a null `due_at`.
- *Transactions* are READ COMMITTED, PostgreSQL's default, which `db.py` leaves as it is. Statements are
  one action when nothing that they read can change in between.
- *Completions* of whole packs (`source = 'pack'`) are left out of the queue; no
  statement of it reads them. They are counted by `LessonPlayer`.
- *The content of packs* does not change in the queue; it does in `Corpus`. What a
  rewritten sentence, with its new id, means to the review states that name the
  old one is listed as a hazard. `upsert_pack` keeps the ids of a pack's sentences
  if their positions, texts, pinyin and translations are all as they were
  (`seed.py:238-252`); a set of characters cannot tell, and no property speaks of ids.
- *Pages*: a lesson is its place in the queue. Which units it has, and titles and
  glyphs, make no difference to a page.
- *The cache of queries*: one entry at a time is looked at, so that what two
  screens do to each other is seen through the changes both make. A toggle
  refreshes neither the pack's own screen nor the path, a saved pack nothing at
  all, and two changes of one pack under way together write their answers in the order
  they arrive: such data is marked `doubt`, and `CacheIsTrue` does not speak of it.
- *Corpus*: strokes are the release that wrote them. A mirror's file is the pinned
  one, another, or missing. Agents' tools and wording are left out, as are the titles,
  categories and withdrawal of packs in `seed.py`.
- *Progress*: hours and whole hours of offset; daylight saving is a journey.
- *Accounts*: an address is an administrator's or not, a domain is not parsed; names are
  normalised. The registry of flags is empty at this commit, so that a release
  that registers some is a parameter, as it is in the tests of the repository.
- *Boards*: strokes, hints and Redo touch only counters of a character that is not
  complete. The canvas of a character whose strokes cannot be fetched offers to try again, and is
  taken to succeed in the end, except for white space.
- *A chat's history* is the list of the messages that were answered, which is
  what the client sends back. What the model says and the content of a draft are
  not modelled, only which turn produced it.
- *A turn of the server* is atomic: after `acquire`, which has no await in it,
  nothing that two turns share is touched.
- *A restart* of the server forgets the limiter's windows. The quota properties
  are about one life of the process.
- *Not modelled*: rendering, generated types, mocks, logging, start-up wiring,
  migrations, developer scripts and the offline validation of pack files; no state
  of the program's logic depends on them.

## 8. The plan

Order, the most important behaviour first; what is done is marked.

1. [done] `Scheduling`, `SchedulingChecks`: every module of the path rests on it.
2. [done] `PathTables`, `PathQueue`, the contract `PathContract` and the refinement.
3. [done] `SchedulingProofs`, `PathQueueProofs`: types, the lock, completions,
   history, disabled packs, the ladder.
4. [done] `Boards`, `LessonPlayer`: the client end of a completion.
5. [done] `RateLimit`, `Chats`, `ChatProofs`: the limiter as an abstract
   specification that the chats implement.
6. [done] `PathPages`: pages read without the lock over positions that are reused.
7. [done] `Library`: the cache of queries under changes that overlap and fail.
8. [done] `Corpus`: import, seed, the cache filled across an await, the saved draft.
9. [done] `Progress`, `Accounts`: days and streaks; sign-in and feature flags.
10. [done] Proofs about the queue: `QueueIsSound`, the refinement of `PathContract` step by step,
    `PathNeverRunsOut`, both halves of the projection, and the batches they rest on; of the
    player; of the pages of the path; of the spend, the saves and the transcript of the chats; of the
    corpus; of `Accounts`.
11. [done] Proofs of `Library` (an entry is the view, or in doubt, or a request will correct it) and of
    the streaks and the heat map.
12. A review match of one pair (`scheduling.py:411`) in `SchedulingChecks`, and curricula
    that change under a queue.
13. A run of its own for the claim of `path.py:209-210` after a prune (section 5), and the ids of
    sentence rows with what `upsert_pack` compares.
