----------------------------- MODULE PathPages -----------------------------
(***************************************************************************)
(* Reading the Learning Path a page at a time: the part of get_path that   *)
(* runs after the queue is extended and its lock released, and the two     *)
(* readers of it in the client, the stream of the path screen and the      *)
(* lookup of a lesson by its id.                                           *)
(*                                                                         *)
(* Each write of the queue is one step, which is what PathQueue is shown   *)
(* to implement (PathContract).  A lesson is reduced to its place: which   *)
(* units it has makes no difference to a page, and a pack is any set of    *)
(* lessons.                                                                *)
(***************************************************************************)
EXTENDS Integers, FiniteSets, FiniteSetsExt, SequencesExt

CONSTANTS
    PageLimit,      \* PATH_PAGE_LIMIT
    PendingWindow,  \* PENDING_WINDOW
    BatchSize,      \* the most rows one pass of the generation appends
    MaxIds,         \* bound: no lesson leaves the window once this many were made
    MaxDay          \* bound: the last day

ASSUME PagesAssumption ==
    /\ PageLimit \in Nat \ {0} /\ PendingWindow \in Nat \ {0}
    /\ BatchSize \in Nat \ {0} /\ MaxIds \in Nat /\ MaxDay \in Nat

VARIABLES
    queue,    \* path_items: sets of [id, position]
    doneOn,   \* the day of the completion of each completed item
    today,    \* the clock of the server, in days
    nextId,   \* the ids of the rows are below this one
    get,      \* the GET /path that is under way
    walk,     \* the pages its reader is collecting
    screen,   \* the pages the path screen shows
    wanted,   \* the item the lesson screen looks up
    notFound, \* the lookup came to null
    wasReset  \* history: some progress was reset

table == <<queue, doneOn, today, nextId>>
client == <<get, walk, screen, wanted, notFound>>
vars == <<table, client, wasReset>>

\* The stream of the path screen and the lookup of the lesson screen take
\* turns: all that a request of one is to the other is an extension of the
\* queue, and another tab may make one at any time (Elsewhere).
Readers == {"stream", "lookup"}

NoMore == -1  \* next_cursor = null
NoItem == 0

\* A reader's walk: its pages, how many it wants (the lookup wants one at a
\* time and drops it), and the items that have been visible since it began.
Idle == [by |-> "stream", step |-> "idle", cursor |-> 0, listed |-> {}]
NoWalk == [pages |-> <<>>, goal |-> 0, owed |-> {}]

Init ==
    /\ queue = {} /\ doneOn = [i \in {} |-> 0]
    /\ today = 0 /\ nextId = 1
    /\ get = Idle
    /\ walk = NoWalk
    /\ screen = NoWalk
    /\ wanted = NoItem /\ notFound = FALSE
    /\ wasReset = FALSE

-----------------------------------------------------------------------------
(* The queue.                                                              *)

Done(i) == i.id \in DOMAIN doneOn
Pending == {i \in queue : ~Done(i)}

\* _is_visible: what is not done, and what was done today.
Visible(i, day) == Done(i) => doneOn[i.id] = day

\* _extend_queue: the rows appended until the window is full, a batch a pass,
\* or until the packs that are enabled have nothing more to give.
Extension ==
    LET short == PendingWindow - Cardinality(Pending)
        base == IF queue = {} THEN 0 ELSE Max({i.position : i \in queue})
        Rows(n) == {[id |-> nextId + k - 1, position |-> base + k] : k \in 1 .. n}
    IN  {Rows(n) : n \in 0 .. (IF short > 0 THEN short + BatchSize - 1 ELSE 0)}

\* The bound: a lesson may leave the window only while there are ids to refill it.
Refillable == nextId <= MaxIds

\* complete_item of a pending item, by any client of the learner.
Complete(i) ==
    /\ Refillable
    /\ i \in Pending
    /\ doneOn' = [id \in DOMAIN doneOn \cup {i.id} |->
                    IF id = i.id THEN today ELSE doneOn[id]]
    /\ UNCHANGED <<queue, today, nextId, client, wasReset>>

Hide(ids) ==
    /\ walk' = [walk EXCEPT !.owed = @ \ ids]
    /\ screen' = [screen EXCEPT !.owed = @ \ ids]

\* set_enabled(FALSE): the pending items of a pack are pruned.
Disable(pruned) ==
    /\ Refillable
    /\ queue' = queue \ pruned
    /\ Hide({i.id : i \in pruned})
    /\ UNCHANGED <<doneOn, today, nextId, get, wanted, notFound, wasReset>>

\* reset_pack_progress: the completions of a pack go, its items stay.
Reset(ids) ==
    /\ doneOn' = [id \in DOMAIN doneOn \ ids |-> doneOn[id]]
    /\ wasReset' = TRUE
    /\ UNCHANGED <<queue, today, nextId, client>>

NextDay ==
    /\ today < MaxDay
    /\ today' = today + 1
    /\ Hide(DOMAIN doneOn)
    /\ UNCHANGED <<queue, doneOn, nextId, get, wanted, notFound, wasReset>>

-----------------------------------------------------------------------------
(* GET /path.                                                              *)

\* The first half: the queue is extended under the lock and committed.
Extend ==
    /\ \E rows \in Extension :
         /\ queue' = queue \cup rows
         /\ nextId' = nextId + Cardinality(rows)
    /\ UNCHANGED <<doneOn, today, walk, screen, wanted, notFound, wasReset>>

ExtendQueue ==
    /\ get.step = "extend"
    /\ Extend
    /\ get' = [get EXCEPT !.step = "list"]

\* The same, for another tab.
Elsewhere ==
    /\ Extend
    /\ queue' # queue
    /\ UNCHANGED get

\* list_for_user.  The items that are visible when the first page of a walk
\* is listed are those the walk owes the learner.
ListItems ==
    /\ get.step = "list"
    /\ get' = [get EXCEPT !.step = "map", !.listed = queue]
    /\ walk' = IF get.cursor = 0
               THEN [walk EXCEPT !.owed = {i.id : i \in {j \in queue : Visible(j, today)}}]
               ELSE walk
    /\ UNCHANGED <<table, screen, wanted, notFound, wasReset>>

\* The first n items of a set in the order of their positions.
First(S, n) == {i \in S : Cardinality({j \in S : j.position < i.position}) < n}

\* Mutant: the cursor is included.
MutantFromCursor(listed, cursor) ==
    First({i \in listed : Visible(i, today) /\ i.position >= cursor}, PageLimit)

\* The items of the page after the cursor.
PageItems(listed, cursor) ==
    First({i \in listed : Visible(i, today) /\ i.position > cursor}, PageLimit)

\* Mutant: the current item is the first one of the page that is not done.
MutantPageState(i, listed, cursor) ==
    IF Done(i) THEN "done"
    ELSE IF i \in First({j \in PageItems(listed, cursor) : ~Done(j)}, 1)
         THEN "current" ELSE "locked"

\* The state of an item: current is the first one of all that is not done.
State(i, listed, cursor) ==
    IF Done(i) THEN "done"
    ELSE IF i \in First({j \in listed : ~Done(j)}, 1) THEN "current" ELSE "locked"

\* The position of the last item of the page.
NextCursor(items, cursor) ==
    IF items = {} THEN NoMore ELSE Max({i.position : i \in items})

\* The page made of the items listed before and of the completions as of now.
Page ==
    LET items == PageItems(get.listed, get.cursor)
    IN  [items |-> {[id |-> i.id, position |-> i.position,
                     state |-> State(i, get.listed, get.cursor)] : i \in items},
         next |-> NextCursor(items, get.cursor)]

Ask(r, cursor) == get' = [Idle EXCEPT !.by = r, !.step = "extend", !.cursor = cursor]
Rest == get' = Idle

-----------------------------------------------------------------------------
(* The path screen: useInfiniteQuery.                                      *)

LeaveLesson == wanted' = NoItem /\ notFound' = FALSE

\* A refetch (a mount, a focus, an invalidation) asks for as many pages as
\* are shown, each after the one before it, and starts at the beginning.
Refetch ==
    /\ get.step = "idle"
    /\ Ask("stream", 0)
    /\ walk' = [NoWalk EXCEPT !.goal = IF screen.pages = <<>> THEN 1 ELSE Len(screen.pages)]
    /\ LeaveLesson
    /\ UNCHANGED <<table, screen, wasReset>>

\* Scrolling to the end asks for one page more.  It takes the place of a
\* refetch that is under way, and goes on from the pages that are shown.
FetchNextPage ==
    /\ screen.pages # <<>>
    /\ Last(screen.pages).next # NoMore
    /\ get.step = "idle" \/ (get.by = "stream" /\ walk.goal # Len(screen.pages) + 1)
    /\ Ask("stream", Last(screen.pages).next)
    /\ walk' = [screen EXCEPT !.goal = Len(screen.pages) + 1]
    /\ LeaveLesson
    /\ UNCHANGED <<table, screen, wasReset>>

\* A page of the stream arrives: the next one is asked for, or all are shown.
StreamPage ==
    LET pages == Append(walk.pages, Page)
        more == Len(pages) < walk.goal /\ Page.next # NoMore
    IN  /\ get.by = "stream" /\ get.step = "map"
        /\ IF more
           THEN /\ Ask("stream", Page.next)
                /\ walk' = [walk EXCEPT !.pages = pages]
                /\ UNCHANGED screen
           ELSE /\ Rest
                /\ screen' = [walk EXCEPT !.pages = pages, !.goal = 0]
                /\ walk' = NoWalk
        /\ UNCHANGED <<table, wanted, notFound, wasReset>>

-----------------------------------------------------------------------------
(* The lesson screen: resolvePathItem.                                     *)

ShownIds == UNION {{i.id : i \in screen.pages[k].items} : k \in DOMAIN screen.pages}

\* An id that is in the cache is found there; for another the pages are read
\* from the first one on.
Lookup(id) ==
    /\ get.step = "idle"
    /\ id \notin ShownIds
    /\ Ask("lookup", 0)
    /\ wanted' = id /\ notFound' = FALSE
    /\ walk' = NoWalk
    /\ UNCHANGED <<table, screen, wasReset>>

LookupPage ==
    /\ get.by = "lookup" /\ get.step = "map"
    /\ IF \E i \in Page.items : i.id = wanted
       THEN Rest /\ LeaveLesson /\ walk' = NoWalk
       ELSE /\ IF Page.next = NoMore THEN Rest ELSE Ask("lookup", Page.next)
            /\ notFound' = (Page.next = NoMore)
            /\ UNCHANGED <<wanted, walk>>
    /\ UNCHANGED <<table, screen, wasReset>>

\* A request that fails ends its walk: what is shown stays, a lookup is an error.
Fail ==
    /\ get.step # "idle"
    /\ Rest
    /\ walk' = NoWalk
    /\ LeaveLesson
    /\ UNCHANGED <<table, screen, wasReset>>

-----------------------------------------------------------------------------
Serve == ExtendQueue \/ ListItems \/ StreamPage \/ LookupPage

Learner ==
    \/ Refetch \/ FetchNextPage \/ Elsewhere
    \/ \E id \in 1 .. nextId - 1 : Lookup(id)
    \/ \E i \in queue : Complete(i)
    \/ \E pruned \in (SUBSET Pending) \ {{}} : Disable(pruned)
    \/ \E ids \in (SUBSET DOMAIN doneOn) \ {{}} : Reset(ids)

Next == Learner \/ Serve \/ NextDay \/ Fail

Spec == Init /\ [][Next]_vars

\* A request that was sent is answered, and the loop of resolvePathItem runs
\* on; the learner need not.
FairSpec == Spec /\ WF_vars(Serve)

-----------------------------------------------------------------------------
(* Properties.                                                             *)

\* The stream shows its lessons in the order of the queue and none twice,
\* pages of different moments included (React's keys, path-timeline.tsx), and
\* none that was visible all along is passed over: a stream read to its end
\* shows it, and a lookup that answers null was not for it, though lessons are
\* completed, pruned, generated and put at the places of others between pages.
EachLessonOnce ==
    /\ \A j, k \in DOMAIN screen.pages :
         \A a \in screen.pages[j].items, b \in screen.pages[k].items :
            /\ j < k => a.position < b.position
            /\ a.id = b.id \/ a.position = b.position => j = k /\ a = b
    /\ screen.pages # <<>> /\ Last(screen.pages).next = NoMore =>
         screen.owed \subseteq ShownIds
    /\ notFound => wanted \notin walk.owed

\* The stream offers one lesson to start, as long as no reset puts the head of
\* the queue back: of two current ones, on pages of two moments, the first is
\* over; and a stream read to its end that owes the learner a lesson that is
\* still to do offers one.
OneLessonToStart ==
    LET current == {i \in UNION {screen.pages[k].items : k \in DOMAIN screen.pages} :
                      i.state = "current"}
    IN  ~wasReset =>
          /\ \A i, j \in current : i.position < j.position => i.id \notin {k.id : k \in Pending}
          /\ screen.pages # <<>> /\ Last(screen.pages).next = NoMore =>
               current # {} \/ \A i \in Pending : i.id \notin screen.owed

\* A lookup comes to an end: its cursor moves on with each page.
LookupEnds == get.by = "lookup" /\ get.step # "idle" ~> get.step = "idle"
=============================================================================
