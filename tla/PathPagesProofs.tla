-------------------------- MODULE PathPagesProofs --------------------------
(***************************************************************************)
(* What the readers of the Learning Path are shown, for any size of a page *)
(* and of the window, any number of pages, and any bounds: each lesson     *)
(* once, in the order of the queue, none passed over, and one to start.    *)
(***************************************************************************)
EXTENDS PathPages, FiniteSetTheorems, WellFoundedInduction, TLAPS

-----------------------------------------------------------------------------
(* The inductive invariant.  It is written over the tables as parameters:  *)
(* q the queue, d the days of the completions, t the day of today and r    *)
(* whether something was reset.                                            *)

Item == [id : Nat \ {0}, position : Nat \ {0}]
Entry == [id : Nat \ {0}, position : Nat \ {0}, state : {"done", "current", "locked"}]
PageType == [items : SUBSET Entry, next : Nat \cup {NoMore}]
WalkType == [pages : Seq(PageType), goal : Nat, owed : SUBSET Nat]

\* What is on some pages, and where the next one begins.
Entries(pages) == UNION {pages[k].items : k \in DOMAIN pages}
Cursor(pages) == IF pages = <<>> THEN 0 ELSE pages[Len(pages)].next

\* _is_visible over the parameters.
InView(i, d, t) == i.id \in DOMAIN d => d[i.id] = t

\* A page is after the one before it, with one entry at a position.
Ordered(pages) ==
    \A j, k \in DOMAIN pages : \A a \in pages[j].items, b \in pages[k].items :
        /\ j < k => a.position < b.position
        /\ a.position = b.position => j = k /\ a = b

\* The next page begins after the last entry of those there are.
Reached(pages) ==
    Cursor(pages) # NoMore =>
        /\ \A a \in Entries(pages) : a.position <= Cursor(pages)
        /\ pages # <<>> => \E a \in Entries(pages) : a.position = Cursor(pages)

\* What is owed is in the queue and visible, and shown or still to come.
Owing(pages, owed, q, d, t) ==
    /\ \A id \in owed : \E i \in q : i.id = id /\ InView(i, d, t)
    /\ \A i \in q : i.id \in owed =>
         \/ \E a \in Entries(pages) : a.id = i.id
         \/ Cursor(pages) # NoMore /\ i.position > Cursor(pages)

\* Of two current entries the first is over.
OneHead(pages, q, d) ==
    \A a, b \in Entries(pages) :
        a.state = "current" /\ b.state = "current" /\ a.position < b.position =>
            \A i \in q : i.id = a.id => i.id \in DOMAIN d

NoHead(pages) == \A a \in Entries(pages) : a.state # "current"

\* Without a current entry all that is shown is done, and so is all there is
\* in the queue up to where the next page begins.
HeadAhead(pages, q, d) ==
    NoHead(pages) =>
        /\ \A a \in Entries(pages) : a.id \in DOMAIN d
        /\ Cursor(pages) # NoMore =>
             \A i \in q : i.position <= Cursor(pages) => i.id \in DOMAIN d

WalkInv(pages, owed, q, d, t, r) ==
    /\ Ordered(pages)
    /\ Reached(pages)
    /\ Owing(pages, owed, q, d, t)
    /\ ~r => OneHead(pages, q, d) /\ HeadAhead(pages, q, d)

\* An id stays at its position, in the queue and on every page, and is spent.
Settled(S, n) ==
    /\ \A a, b \in S : a.id = b.id => a.position = b.position
    /\ \A a \in S : a.id < n

OnePlace(S) == \A i, j \in S : i.position = j.position => i = j

TypeInv ==
    /\ queue \subseteq Item /\ IsFiniteSet(queue)
    /\ doneOn \in [DOMAIN doneOn -> Nat] /\ today \in Nat /\ nextId \in Nat \ {0}
    /\ get.by \in Readers /\ get.step \in {"idle", "extend", "list", "map"}
    /\ get = [by |-> get.by, step |-> get.step, cursor |-> get.cursor, listed |-> get.listed]
    /\ get.cursor \in Nat /\ get.listed \subseteq Item /\ IsFiniteSet(get.listed)
    /\ walk \in WalkType /\ screen \in WalkType
    /\ wanted \in Nat /\ notFound \in BOOLEAN /\ wasReset \in BOOLEAN

Seen == queue \cup get.listed \cup Entries(walk.pages) \cup Entries(screen.pages)

\* Rows are not removed once they are completed.
TablesInv ==
    /\ Settled(Seen, nextId)
    /\ OnePlace(queue) /\ OnePlace(get.listed)
    /\ \A id \in DOMAIN doneOn : \E i \in queue : i.id = id

\* Between the two halves of a request: what the walk owes or shows of the
\* queue was listed, what was not is after all that was, and without a current
\* entry what was listed before the cursor is done.
ListedInv ==
    get.step = "map" =>
        /\ \A i \in queue : i.id \in walk.owed => i \in get.listed
        /\ \A i \in queue, a \in Entries(walk.pages) : i.id = a.id => i \in get.listed
        /\ \A i \in queue \ get.listed, m \in queue \cap get.listed : m.position < i.position
        /\ get.by = "stream" /\ ~wasReset /\ NoHead(walk.pages) =>
             \A i \in get.listed : i.position <= get.cursor => i.id \in DOMAIN doneOn

\* A stream goes on where its pages end; a lookup keeps no pages, and has
\* looked at what was owed up to its cursor.
GetInv ==
    /\ get.step # "idle" /\ get.by = "stream" =>
         get.cursor = Cursor(walk.pages)
    /\ get.step # "idle" /\ get.by = "lookup" =>
         /\ walk.pages = <<>>
         /\ \A i \in queue : i.id \in walk.owed /\ i.position <= get.cursor => i.id # wanted
    /\ notFound => get.step = "idle" /\ wanted \notin walk.owed

PagesInv ==
    /\ TypeInv /\ TablesInv /\ ListedInv /\ GetInv
    /\ WalkInv(walk.pages, walk.owed, queue, doneOn, today, wasReset)
    /\ WalkInv(screen.pages, screen.owed, queue, doneOn, today, wasReset)

-----------------------------------------------------------------------------
(* Finite sets of items.                                                   *)

\* The positions of items are numbers.
LEMMA ItemFields ==
    ASSUME NEW i \in Item
    PROVE  i.id \in Nat \ {0} /\ i.position \in Nat \ {0}
BY DEF Item

(* Some items: one of them is the first, one the last.                     *)
LEMMA Ends ==
    ASSUME NEW S, IsFiniteSet(S), S # {}, \A i \in S : i.position \in Nat
    PROVE  /\ \E i \in S : \A j \in S : i.position <= j.position
           /\ \E i \in S : \A j \in S : j.position <= i.position
<1> DEFINE Before(i) == {j \in S : j.position < i.position}
           After(i) == {j \in S : j.position > i.position}
           Lower == {Before(i) : i \in S}
           Upper == {After(i) : i \in S}
<1>1. IsWellFoundedOn(StrictSubsetOrdering(S), FiniteSubsetsOf(S))
  BY FS_StrictSubsetOrderingWellFounded
<1>2. Lower \subseteq FiniteSubsetsOf(S) /\ Upper \subseteq FiniteSubsetsOf(S)
  BY FS_FiniteSubsetsOfFinite
<1>3. Lower # {} /\ Upper # {}
  OBVIOUS
<1>4. \E A \in Lower : \A B \in Lower : <<B, A>> \notin StrictSubsetOrdering(S)
  <2> HIDE DEF Lower
  <2> QED BY <1>1, <1>2, <1>3, WFMin
<1>5. \E A \in Upper : \A B \in Upper : <<B, A>> \notin StrictSubsetOrdering(S)
  <2> HIDE DEF Upper
  <2> QED BY <1>1, <1>2, <1>3, WFMin
<1>6. PICK i \in S : \A j \in S : <<Before(j), Before(i)>> \notin StrictSubsetOrdering(S)
  BY <1>4
<1>7. PICK i2 \in S : \A j \in S : <<After(j), After(i2)>> \notin StrictSubsetOrdering(S)
  BY <1>5
<1>8. \A j \in S : i.position <= j.position
  <2> SUFFICES ASSUME NEW j \in S, j.position < i.position PROVE FALSE
    OBVIOUS
  <2>1. Before(j) \subseteq Before(i) /\ j \in Before(i) /\ j \notin Before(j)
    OBVIOUS
  <2>2. Before(j) \in SUBSET S /\ Before(i) \in SUBSET S
    OBVIOUS
  <2>3. <<Before(j), Before(i)>> \in StrictSubsetOrdering(S)
    <3> HIDE DEF Before
    <3> QED BY <2>1, <2>2 DEF StrictSubsetOrdering
  <2> QED BY <1>6, <2>3
<1>9. \A j \in S : j.position <= i2.position
  <2> SUFFICES ASSUME NEW j \in S, j.position > i2.position PROVE FALSE
    OBVIOUS
  <2>1. After(j) \subseteq After(i2) /\ j \in After(i2) /\ j \notin After(j)
    OBVIOUS
  <2>2. After(j) \in SUBSET S /\ After(i2) \in SUBSET S
    OBVIOUS
  <2>3. <<After(j), After(i2)>> \in StrictSubsetOrdering(S)
    <3> HIDE DEF After
    <3> QED BY <2>1, <2>2 DEF StrictSubsetOrdering
  <2> QED BY <1>7, <2>3
<1> QED BY <1>8, <1>9

\* The greatest position of some items is that of the last of them.
LEMMA LastPosition ==
    ASSUME NEW S, IsFiniteSet(S), S # {}, \A i \in S : i.position \in Nat
    PROVE  LET last == Max({i.position : i \in S})
           IN  /\ last \in Nat
               /\ \E i \in S : i.position = last
               /\ \A i \in S : i.position <= last
<1> DEFINE P == {i.position : i \in S}
<1>1. \E x \in P : \A y \in P : x >= y
  <2>1. PICK i \in S : \A j \in S : j.position <= i.position
    BY Ends
  <2>2. i.position \in P /\ \A y \in P : i.position >= y
    BY <2>1
  <2> QED BY <2>2
<1>2. Max(P) \in P /\ \A y \in P : Max(P) >= y
  BY <1>1 DEF Max
<1> QED BY <1>2

(* The first n of some items: with an item come those before it, and if    *)
(* there are items the first of all is among them.                         *)
LEMMA FirstFacts ==
    ASSUME NEW S, IsFiniteSet(S), \A i \in S : i.position \in Nat, NEW n \in Nat \ {0}
    PROVE  /\ First(S, n) \subseteq S
           /\ \A i \in First(S, n), j \in S : j.position <= i.position => j \in First(S, n)
           /\ \A i \in S : (\A j \in S : i.position <= j.position) => i \in First(S, n)
           /\ S # {} => First(S, n) # {}
           /\ \A i \in First(S, 1), j \in S : i.position <= j.position
<1> DEFINE Before(i) == {j \in S : j.position < i.position}
<1>1. \A m : First(S, m) = {i \in S : Cardinality(Before(i)) < m}
  BY DEF First
<1>2. \A i \in S : IsFiniteSet(Before(i)) /\ Cardinality(Before(i)) \in Nat
  <2> SUFFICES ASSUME NEW i \in S PROVE IsFiniteSet(Before(i)) /\ Cardinality(Before(i)) \in Nat
    OBVIOUS
  <2>1. IsFiniteSet(Before(i))
    BY FS_Subset
  <2> QED BY <2>1, FS_CardinalityType
<1>3. ASSUME NEW i \in First(S, n), NEW j \in S, j.position <= i.position
      PROVE  j \in First(S, n)
  <2>1. i \in S /\ Cardinality(Before(i)) < n
    BY <1>1, <1>3
  <2>2. Before(j) \subseteq Before(i)
    BY <1>3, <2>1
  <2>3. Cardinality(Before(j)) <= Cardinality(Before(i))
    <3> HIDE DEF Before
    <3> QED BY <1>2, <2>1, <2>2, FS_Subset
  <2> QED
    <3> HIDE DEF Before
    <3> QED BY <1>1, <1>2, <2>1, <2>3
<1>4. ASSUME NEW i \in S, \A j \in S : i.position <= j.position
      PROVE  i \in First(S, n)
  <2>1. Before(i) = {}
    BY <1>4
  <2>2. Cardinality(Before(i)) = 0
    BY <2>1, FS_EmptySet
  <2> QED BY <1>1, <2>2
<1>5. S # {} => First(S, n) # {}
  BY <1>4, Ends
<1>6. ASSUME NEW i \in First(S, 1), NEW j \in S
      PROVE  i.position <= j.position
  <2>1. i \in S /\ Cardinality(Before(i)) < 1
    BY <1>1, <1>6
  <2>2. Cardinality(Before(i)) = 0
    <3> HIDE DEF Before
    <3> QED BY <1>2, <2>1
  <2>3. Before(i) = {}
    <3> HIDE DEF Before
    <3> QED BY <1>2, <2>1, <2>2, FS_EmptySet
  <2> QED BY <2>1, <2>3
<1>7. First(S, n) \subseteq S
  BY <1>1
<1> QED BY <1>3, <1>4, <1>5, <1>6, <1>7

-----------------------------------------------------------------------------
(* Pages.                                                                  *)

(* What is on pages is entries, and the next page begins at a position or  *)
(* there is none.                                                          *)
LEMMA PagesType ==
    ASSUME NEW pages \in Seq(PageType)
    PROVE  /\ \A k \in DOMAIN pages : pages[k] \in PageType /\ pages[k].items \subseteq Entry
           /\ Entries(pages) \subseteq Entry
           /\ \A a \in Entries(pages) : a.id \in Nat \ {0} /\ a.position \in Nat \ {0}
           /\ Cursor(pages) \in Nat \cup {NoMore}
<1>1. \A k \in DOMAIN pages : pages[k] \in PageType
  OBVIOUS
<1>2. \A k \in DOMAIN pages : pages[k].items \subseteq Entry
  BY <1>1 DEF PageType
<1>3. Entries(pages) \subseteq Entry
  BY <1>2 DEF Entries
<1>4. \A a \in Entries(pages) : a.id \in Nat \ {0} /\ a.position \in Nat \ {0}
  BY <1>3 DEF Entry
<1>5. Cursor(pages) \in Nat \cup {NoMore}
  <2>1. CASE pages = <<>>
    BY <2>1 DEF Cursor
  <2>2. CASE pages # <<>>
    <3>1. Len(pages) \in DOMAIN pages
      BY <2>2
    <3> QED BY <1>1, <2>2, <3>1 DEF Cursor, PageType
  <2> QED BY <2>1, <2>2
<1> QED BY <1>1, <1>2, <1>3, <1>4, <1>5

\* One page more: its entries are added, and the next page is its next one.
LEMMA OnePageMore ==
    ASSUME NEW pages \in Seq(PageType), NEW p \in PageType
    PROVE  /\ Append(pages, p) \in Seq(PageType)
           /\ Append(pages, p) # <<>>
           /\ Len(Append(pages, p)) = Len(pages) + 1
           /\ Last(Append(pages, p)) = p
           /\ Cursor(Append(pages, p)) = p.next
           /\ Entries(Append(pages, p)) = Entries(pages) \cup p.items
           /\ \A k \in DOMAIN Append(pages, p) :
                \/ k \in DOMAIN pages /\ Append(pages, p)[k] = pages[k]
                \/ k = Len(pages) + 1 /\ Append(pages, p)[k] = p
<1> DEFINE more == Append(pages, p)
<1>1. /\ more \in Seq(PageType) /\ more # <<>> /\ Len(more) = Len(pages) + 1
      /\ Len(pages) \in Nat
      /\ more[Len(more)] = p
      /\ \A k \in 1 .. Len(pages) : more[k] = pages[k]
      /\ DOMAIN more = 1 .. Len(pages) + 1 /\ DOMAIN pages = 1 .. Len(pages)
  OBVIOUS
<1> HIDE DEF more
<1>2. Last(more) = p /\ Cursor(more) = p.next
  BY <1>1 DEF Last, Cursor
<1>3. \A k \in DOMAIN more :
        \/ k \in DOMAIN pages /\ more[k] = pages[k]
        \/ k = Len(pages) + 1 /\ more[k] = p
  BY <1>1
<1>4. Entries(more) = Entries(pages) \cup p.items
  <2>1. \A k \in DOMAIN pages : k \in DOMAIN more /\ more[k] = pages[k]
    BY <1>1
  <2>2. Len(more) \in DOMAIN more
    BY <1>1
  <2> QED BY <1>1, <1>3, <2>1, <2>2 DEF Entries
<1> QED BY <1>1, <1>2, <1>3, <1>4 DEF more

\* No pages, nothing owed: a walk that has not begun.
LEMMA NothingWalked ==
    ASSUME NEW q, NEW d, NEW t, NEW r, q \subseteq Item
    PROVE  WalkInv(<<>>, {}, q, d, t, r) /\ Entries(<<>>) = {} /\ Cursor(<<>>) = 0
<1>1. DOMAIN <<>> = {} /\ Entries(<<>>) = {} /\ Cursor(<<>>) = 0
  BY DEF Entries, Cursor
<1>2. \A i \in q : i.position \in Nat \ {0}
  BY ItemFields
<1> QED BY <1>1, <1>2
    DEF WalkInv, Ordered, Reached, Owing, OneHead, HeadAhead, NoHead, NoMore

\* The cursor of a walk is 0 only before its first page.
LEMMA CursorOfPages ==
    ASSUME NEW pages \in Seq(PageType), Reached(pages), Cursor(pages) = 0
    PROVE  pages = <<>>
BY PagesType DEF Reached, NoMore

-----------------------------------------------------------------------------
(* What the steps on the tables leave of a walk.                           *)

(* Rows are appended, after those there are and under ids not spent.       *)
LEMMA WalkOutgrows ==
    ASSUME NEW pages \in Seq(PageType), NEW owed, NEW q, NEW d, NEW t, NEW r,
           NEW n \in Nat, NEW rows,
           WalkInv(pages, owed, q, d, t, r),
           q \subseteq Item, rows \subseteq Item,
           Settled(q \cup Entries(pages), n),
           \A id \in DOMAIN d : \E i \in q : i.id = id,
           \A i \in rows : i.id >= n /\ \A j \in q : i.position > j.position
    PROVE  WalkInv(pages, owed, q \cup rows, d, t, r)
<1>1. \A i \in q \cup rows : i.id \in Nat /\ i.position \in Nat \ {0}
  BY ItemFields
<1>2. \A a \in Entries(pages) : a.id \in Nat /\ a.position \in Nat
  BY PagesType
<1>3. \A i \in rows : i.id \notin owed /\ \A a \in Entries(pages) : a.id # i.id
  BY <1>1, <1>2 DEF WalkInv, Owing, Settled
<1>4. Owing(pages, owed, q \cup rows, d, t)
  BY <1>3 DEF WalkInv, Owing
<1>5. OneHead(pages, q, d) => OneHead(pages, q \cup rows, d)
  BY <1>3 DEF OneHead
<1>6. HeadAhead(pages, q, d) => HeadAhead(pages, q \cup rows, d)
  <2> SUFFICES ASSUME HeadAhead(pages, q, d), NoHead(pages), Cursor(pages) # NoMore,
                      NEW i \in rows
               PROVE  i.position > Cursor(pages)
    BY <1>1, PagesType DEF HeadAhead
  <2>1. CASE pages = <<>>
    BY <1>1, <2>1 DEF Cursor
  <2>2. CASE pages # <<>>
    <3>1. PICK a \in Entries(pages) : a.position = Cursor(pages)
      BY <2>2 DEF WalkInv, Reached
    <3>2. PICK j \in q : j.id = a.id
      BY DEF HeadAhead
    <3>3. j.position = a.position
      BY <3>2 DEF Settled
    <3> QED BY <3>1, <3>3
  <2> QED BY <2>1, <2>2
<1> QED BY <1>4, <1>5, <1>6 DEF WalkInv

\* More is completed, and nothing visible goes out of view.
LEMMA WalkCompletes ==
    ASSUME NEW pages \in Seq(PageType), NEW owed, NEW q, NEW d, NEW t, NEW r, NEW e,
           WalkInv(pages, owed, q, d, t, r),
           DOMAIN d \subseteq DOMAIN e, \A i : InView(i, d, t) => InView(i, e, t)
    PROVE  WalkInv(pages, owed, q, e, t, r)
<1>1. Owing(pages, owed, q, e, t)
  BY DEF WalkInv, Owing
<1>2. OneHead(pages, q, d) => OneHead(pages, q, e)
  BY DEF OneHead
<1>3. HeadAhead(pages, q, d) => HeadAhead(pages, q, e)
  BY DEF HeadAhead
<1> QED BY <1>1, <1>2, <1>3 DEF WalkInv

\* Lessons are pruned, and owed no more.
LEMMA WalkLoses ==
    ASSUME NEW pages \in Seq(PageType), NEW owed, NEW q, NEW d, NEW t, NEW r, NEW gone,
           WalkInv(pages, owed, q, d, t, r)
    PROVE  WalkInv(pages, owed \ {i.id : i \in gone}, q \ gone, d, t, r)
<1>1. Owing(pages, owed \ {i.id : i \in gone}, q \ gone, d, t)
  BY DEF WalkInv, Owing
<1>2. OneHead(pages, q, d) => OneHead(pages, q \ gone, d)
  BY DEF OneHead
<1>3. HeadAhead(pages, q, d) => HeadAhead(pages, q \ gone, d)
  BY DEF HeadAhead
<1> QED BY <1>1, <1>2, <1>3 DEF WalkInv

\* Completions are taken back: what was visible is.
LEMMA WalkResets ==
    ASSUME NEW pages \in Seq(PageType), NEW owed, NEW q, NEW d, NEW t, NEW r, NEW ids,
           WalkInv(pages, owed, q, d, t, r)
    PROVE  WalkInv(pages, owed, q, [id \in DOMAIN d \ ids |-> d[id]], t, TRUE)
<1> DEFINE e == [id \in DOMAIN d \ ids |-> d[id]]
<1>1. \A i : InView(i, d, t) => InView(i, e, t)
  BY DEF InView
<1> HIDE DEF e
<1>2. Owing(pages, owed, q, e, t)
  BY <1>1 DEF WalkInv, Owing
<1> QED BY <1>2 DEF WalkInv, e

\* The day turns: what is done is owed no more.
LEMMA WalkAges ==
    ASSUME NEW pages \in Seq(PageType), NEW owed, NEW q, NEW d, NEW t, NEW r,
           WalkInv(pages, owed, q, d, t, r)
    PROVE  WalkInv(pages, owed \ DOMAIN d, q, d, t + 1, r)
<1>1. Owing(pages, owed \ DOMAIN d, q, d, t + 1)
  BY DEF WalkInv, Owing, InView
<1> QED BY <1>1 DEF WalkInv

\* What is covered by settled entries is settled.
LEMMA SettledCovered ==
    ASSUME NEW S, NEW n, Settled(S, n), NEW T,
           \A b \in T : \E a \in S : a.id = b.id /\ a.position = b.position
    PROVE  Settled(T, n)
<1>1. \A b \in T : b.id < n
  BY DEF Settled
<1>2. ASSUME NEW a \in T, NEW b \in T, a.id = b.id PROVE a.position = b.position
  <2>1. PICK x \in S : x.id = a.id /\ x.position = a.position
    OBVIOUS
  <2>2. PICK y \in S : y.id = b.id /\ y.position = b.position
    OBVIOUS
  <2> QED BY <1>2, <2>1, <2>2 DEF Settled
<1> QED BY <1>1, <1>2 DEF Settled

-----------------------------------------------------------------------------
(* The page that answers a request.                                        *)

\* Its entries are lessons that were listed, visible now and after the cursor,
\* each in its state.
LEMMA PageEntries ==
    ASSUME TypeInv, OnePlace(get.listed)
    PROVE  /\ Page \in PageType
           /\ \A a \in Page.items : \E i \in PageItems(get.listed, get.cursor) :
                a = [id |-> i.id, position |-> i.position,
                     state |-> State(i, get.listed, get.cursor)]
           /\ \A i \in PageItems(get.listed, get.cursor) : \E a \in Page.items :
                /\ a.id = i.id /\ a.position = i.position
                /\ a.state = State(i, get.listed, get.cursor)
           /\ \A a, b \in Page.items : a.position = b.position => a = b
           /\ \A i \in PageItems(get.listed, get.cursor) :
                i \in get.listed /\ InView(i, doneOn, today) /\ i.position > get.cursor
           /\ IsFiniteSet(PageItems(get.listed, get.cursor))
<1> DEFINE L == get.listed
           S == {i \in L : Visible(i, today) /\ i.position > get.cursor}
           F == PageItems(L, get.cursor)
           entry(i) == [id |-> i.id, position |-> i.position, state |-> State(i, L, get.cursor)]
<1>1. /\ L \subseteq Item /\ IsFiniteSet(L)
      /\ \A i \in L : i.id \in Nat \ {0} /\ i.position \in Nat \ {0}
  BY ItemFields DEF TypeInv, WalkType
<1>2. S \subseteq L /\ IsFiniteSet(S)
  BY <1>1, FS_Subset
<1>3. F \subseteq S
  <2>1. F = First(S, PageLimit)
    BY DEF PageItems
  <2> HIDE DEF S, F
  <2> QED BY <1>1, <1>2, <2>1, FirstFacts, PagesAssumption
<1>4. \A i \in F : i \in L /\ InView(i, doneOn, today) /\ i.position > get.cursor
  BY <1>3 DEF Visible, Done, InView
<1>5. IsFiniteSet(F)
  <2> HIDE DEF S, F
  <2> QED BY <1>2, <1>3, FS_Subset
<1>6. /\ Page.items = {entry(i) : i \in F}
      /\ Page.next = NextCursor(F, get.cursor)
      /\ Page = [items |-> Page.items, next |-> Page.next]
  BY DEF Page
<1>7. \A i \in F : entry(i) \in Entry
  <2> TAKE i \in F
  <2>1. State(i, L, get.cursor) \in {"done", "current", "locked"}
    BY DEF State
  <2> QED BY <1>1, <1>4, <2>1 DEF Entry
<1>8. NextCursor(F, get.cursor) \in Nat \cup {NoMore}
  <2>1. CASE F = {}
    BY <2>1 DEF NextCursor
  <2>2. CASE F # {}
    <3>1. Max({i.position : i \in F}) \in Nat
      <4> HIDE DEF F
      <4> QED BY <1>1, <1>4, <1>5, <2>2, LastPosition
    <3> QED BY <2>2, <3>1 DEF NextCursor
  <2> QED BY <2>1, <2>2
<1> HIDE DEF F
<1>9. Page \in PageType
  <2>1. Page.items \subseteq Entry
    BY <1>6, <1>7
  <2> QED BY <1>6, <1>8, <2>1 DEF PageType
<1>10. \A a, b \in Page.items : a.position = b.position => a = b
  <2> SUFFICES ASSUME NEW i \in F, NEW j \in F, i.position = j.position PROVE entry(i) = entry(j)
    BY <1>6
  <2> QED BY <1>4 DEF OnePlace
<1>11. \A i \in F : entry(i) \in Page.items
  BY <1>6
<1>12. \A a \in Page.items : \E i \in F : a = entry(i)
  BY <1>6
<1> QED BY <1>4, <1>5, <1>9, <1>10, <1>11, <1>12 DEF F

\* The next page begins at its last entry, and it has all that is visible up
\* to there; without a next page there is nothing visible after the cursor.
LEMMA PageReaches ==
    ASSUME TypeInv, OnePlace(get.listed)
    PROVE  /\ Page.next = NoMore =>
                \A i \in get.listed : InView(i, doneOn, today) => i.position <= get.cursor
           /\ Page.next # NoMore =>
                /\ \E a \in Page.items : a.position = Page.next
                /\ \A a \in Page.items : a.position <= Page.next
                /\ \A i \in get.listed :
                     InView(i, doneOn, today) /\ i.position > get.cursor
                       /\ i.position <= Page.next =>
                     \E a \in Page.items : a.id = i.id /\ a.position = i.position
<1> DEFINE L == get.listed
           S == {i \in L : Visible(i, today) /\ i.position > get.cursor}
           F == PageItems(L, get.cursor)
<1>1. /\ L \subseteq Item /\ IsFiniteSet(L) /\ get.cursor \in Nat
      /\ \A i \in L : i.id \in Nat \ {0} /\ i.position \in Nat \ {0}
  BY ItemFields DEF TypeInv, WalkType
<1>2. IsFiniteSet(S) /\ \A i \in S : i.position \in Nat
  BY <1>1, FS_Subset
<1>3. F = First(S, PageLimit)
  BY DEF PageItems
<1>4. \A i \in L : InView(i, doneOn, today) /\ i.position > get.cursor => i \in S
  BY DEF Visible, Done, InView
<1>5. /\ F \subseteq S
      /\ \A i \in F, j \in S : j.position <= i.position => j \in F
      /\ S # {} => F # {}
  <2> HIDE DEF S, F
  <2> QED BY <1>2, <1>3, FirstFacts, PagesAssumption
<1>6. Page.next = NextCursor(F, get.cursor)
  BY DEF Page
<1>7. IsFiniteSet(F)
  <2> HIDE DEF S, F
  <2> QED BY <1>2, <1>5, FS_Subset
<1>8. /\ \A a \in Page.items : \E i \in F : a.id = i.id /\ a.position = i.position
      /\ \A i \in F : \E a \in Page.items : a.id = i.id /\ a.position = i.position
  BY PageEntries
<1> HIDE DEF F, S
<1>9. CASE F = {}
  <2>1. Page.next = NoMore
    BY <1>6, <1>9 DEF NextCursor
  <2> QED BY <1>1, <1>4, <1>5, <1>9, <2>1
<1>10. CASE F # {}
  <2> DEFINE last == Max({i.position : i \in F})
  <2>1. \A i \in F : i.position \in Nat
    BY <1>2, <1>5
  <2>2. /\ last \in Nat
        /\ \E i \in F : i.position = last
        /\ \A i \in F : i.position <= last
    BY <1>7, <1>10, <2>1, LastPosition
  <2>3. Page.next = last
    BY <1>6, <1>10 DEF NextCursor
  <2> HIDE DEF last
  <2>4. Page.next # NoMore
    BY <2>2, <2>3 DEF NoMore
  <2>5. ASSUME NEW i \in L, InView(i, doneOn, today), i.position > get.cursor,
               i.position <= Page.next
        PROVE  i \in F
    BY <1>4, <1>5, <2>2, <2>3, <2>5
  <2>6. \E a \in Page.items : a.position = Page.next
    BY <1>8, <2>2, <2>3
  <2>7. \A a \in Page.items : a.position <= Page.next
    BY <1>8, <2>2, <2>3
  <2> QED BY <1>8, <2>4, <2>5, <2>6, <2>7
<1> QED BY <1>9, <1>10

\* A current entry is the first of all that was listed and is not done; and a
\* page with something not done has one, unless that first one is before it.
LEMMA PageHeads ==
    ASSUME TypeInv, OnePlace(get.listed)
    PROVE  /\ \A a \in Page.items : a.state = "current" =>
                \A j \in get.listed : j.id \notin DOMAIN doneOn => a.position <= j.position
           /\ \A a \in Page.items :
                a.id \notin DOMAIN doneOn /\ (\A b \in Page.items : b.state # "current") =>
                  \E j \in get.listed : j.id \notin DOMAIN doneOn /\ j.position <= get.cursor
<1> DEFINE L == get.listed
           U == {j \in L : ~Done(j)}
           S == {i \in L : Visible(i, today) /\ i.position > get.cursor}
           F == PageItems(L, get.cursor)
<1>1. /\ L \subseteq Item /\ IsFiniteSet(L) /\ get.cursor \in Nat
      /\ \A i \in L : i.id \in Nat \ {0} /\ i.position \in Nat \ {0}
  BY ItemFields DEF TypeInv, WalkType
<1>2. /\ U \subseteq L /\ IsFiniteSet(U) /\ \A i \in U : i.position \in Nat
      /\ S \subseteq L /\ IsFiniteSet(S) /\ \A i \in S : i.position \in Nat
  BY <1>1, FS_Subset
<1>3. /\ F \subseteq S
      /\ \A i \in F, j \in S : j.position <= i.position => j \in F
  <2>1. F = First(S, PageLimit)
    BY DEF PageItems
  <2> HIDE DEF S, F
  <2> QED BY <1>2, <2>1, FirstFacts, PagesAssumption
<1>4. \A i \in First(U, 1), j \in U : i.position <= j.position
  <2> HIDE DEF U
  <2> QED BY <1>2, FirstFacts
<1>5. \A i : State(i, L, get.cursor) = IF Done(i) THEN "done"
                                      ELSE IF i \in First(U, 1) THEN "current" ELSE "locked"
  BY DEF State
<1>6. \A j \in L : j.id \notin DOMAIN doneOn <=> j \in U
  BY DEF Done
<1>7. ASSUME NEW a \in Page.items, a.state = "current",
             NEW j \in L, j.id \notin DOMAIN doneOn
      PROVE  a.position <= j.position
  <2>1. PICK i \in F : a = [id |-> i.id, position |-> i.position,
                            state |-> State(i, L, get.cursor)]
    BY PageEntries
  <2>2. State(i, L, get.cursor) = "current" /\ a.position = i.position
    BY <1>7, <2>1
  <2> HIDE DEF U, F
  <2>3. i \in First(U, 1)
    BY <1>5, <2>2
  <2> QED BY <1>4, <1>6, <1>7, <2>2, <2>3
<1>8. ASSUME NEW a \in Page.items, a.id \notin DOMAIN doneOn,
             \A b \in Page.items : b.state # "current"
      PROVE  \E j \in L : j.id \notin DOMAIN doneOn /\ j.position <= get.cursor
  <2>1. PICK i \in F : a.id = i.id /\ a.position = i.position
    BY PageEntries
  <2>2. i \in U
    BY <1>2, <1>3, <1>6, <1>8, <2>1
  <2>3. PICK j \in U : \A k \in U : j.position <= k.position
    <3> HIDE DEF U
    <3> QED BY <1>2, <2>2, Ends
  <2>4. j \in First(U, 1)
    <3> HIDE DEF U
    <3> QED BY <1>2, <2>3, FirstFacts
  <2>5. SUFFICES ASSUME j.position > get.cursor PROVE FALSE
    BY <1>1, <1>2, <1>6
  <2>6. j \in S
    BY <1>2, <2>5 DEF Visible
  <2>7. j \in F
    BY <1>3, <2>2, <2>3, <2>6
  <2>8. \E b \in Page.items : b.state = State(j, L, get.cursor)
    BY <2>7, PageEntries
  <2>9. State(j, L, get.cursor) = "current"
    <3>1. ~Done(j)
      OBVIOUS
    <3> HIDE DEF U
    <3> QED BY <1>5, <2>4, <3>1
  <2> QED BY <1>8, <2>8, <2>9
<1> QED BY <1>7, <1>8

\* The pages of the stream with this one after them are as its walk should be.
LEMMA PageGoesOn ==
    ASSUME PagesInv, get.step = "map", get.by = "stream"
    PROVE  WalkInv(Append(walk.pages, Page), walk.owed, queue, doneOn, today, wasReset)
<1> DEFINE old == walk.pages
           new == Page.items
           more == Append(old, Page)
           c == get.cursor
<1>1. /\ TypeInv /\ TablesInv /\ OnePlace(get.listed) /\ c \in Nat /\ c = Cursor(old)
      /\ old \in Seq(PageType) /\ queue \subseteq Item /\ get.listed \subseteq Item
      /\ WalkInv(old, walk.owed, queue, doneOn, today, wasReset)
  BY DEF PagesInv, TypeInv, WalkType, TablesInv, GetInv
<1>2. /\ more \in Seq(PageType) /\ more # <<>>
      /\ Cursor(more) = Page.next /\ Entries(more) = Entries(old) \cup new
      /\ \A k \in DOMAIN more : \/ k \in DOMAIN old /\ more[k] = old[k]
                                \/ k = Len(old) + 1 /\ more[k] = Page
  BY <1>1, PageEntries, OnePageMore
<1> HIDE DEF more
<1>3. /\ \A a \in Entries(old) : a.position \in Nat /\ a.position <= c
      /\ \A i \in queue \cup get.listed : i.id \in Nat /\ i.position \in Nat \ {0}
  BY <1>1, PagesType, ItemFields DEF WalkInv, Reached, NoMore
<1>4. \A a \in new : /\ a.position \in Nat /\ a.position > c
                     /\ \E i \in get.listed : /\ a.id = i.id /\ a.position = i.position
                                              /\ InView(i, doneOn, today)
  BY <1>1, <1>3, PageEntries
<1>5. \A k \in DOMAIN old : k < Len(old) + 1 /\ k \in Nat /\ Len(old) \in Nat
  BY <1>1
<1>6. Ordered(more)
  <2> SUFFICES ASSUME NEW j \in DOMAIN more, NEW k \in DOMAIN more,
                      NEW a \in more[j].items, NEW b \in more[k].items
               PROVE  /\ j < k => a.position < b.position
                      /\ a.position = b.position => j = k /\ a = b
    BY DEF Ordered
  <2>1. CASE j \in DOMAIN old /\ k \in DOMAIN old /\ more[j] = old[j] /\ more[k] = old[k]
    BY <1>1, <2>1 DEF WalkInv, Ordered
  <2>2. CASE j \in DOMAIN old /\ more[j] = old[j] /\ k = Len(old) + 1 /\ more[k] = Page
    <3>1. a \in Entries(old) /\ b \in new
      BY <2>2 DEF Entries
    <3> QED BY <1>1, <1>3, <1>4, <1>5, <2>2, <3>1
  <2>3. CASE k \in DOMAIN old /\ more[k] = old[k] /\ j = Len(old) + 1 /\ more[j] = Page
    <3>1. b \in Entries(old) /\ a \in new
      BY <2>3 DEF Entries
    <3> QED BY <1>1, <1>3, <1>4, <1>5, <2>3, <3>1
  <2>4. CASE j = Len(old) + 1 /\ more[j] = Page /\ k = Len(old) + 1 /\ more[k] = Page
    <3>1. Len(old) \in Nat
      BY <1>1
    <3> QED BY <1>1, <2>4, <3>1, PageEntries
  <2> QED BY <1>2, <2>1, <2>2, <2>3, <2>4
<1>7. Reached(more)
  <2> SUFFICES ASSUME Page.next # NoMore
               PROVE  /\ \A a \in Entries(old) \cup new : a.position <= Page.next
                      /\ \E a \in new : a.position = Page.next
    BY <1>2 DEF Reached
  <2>1. /\ \E a \in new : a.position = Page.next
        /\ \A a \in new : a.position <= Page.next
    BY <1>1, PageReaches
  <2> QED BY <1>1, <1>3, <1>4, <2>1
<1>8. Owing(more, walk.owed, queue, doneOn, today)
  <2> SUFFICES ASSUME NEW i \in queue, i.id \in walk.owed,
                      \A a \in Entries(old) : a.id # i.id
               PROVE  \/ \E a \in new : a.id = i.id
                      \/ Page.next # NoMore /\ i.position > Page.next
    BY <1>1, <1>2 DEF WalkInv, Owing
  <2>1. i.position > c
    BY <1>1 DEF WalkInv, Owing
  <2>2. i \in get.listed
    BY DEF PagesInv, ListedInv
  <2>3. InView(i, doneOn, today)
    BY <1>1 DEF WalkInv, Owing, InView
  <2>4. CASE Page.next = NoMore
    BY <1>1, <1>3, <2>1, <2>2, <2>3, <2>4, PageReaches
  <2>5. CASE Page.next # NoMore
    <3>1. PICK a \in new : a.position = Page.next
      BY <1>1, <2>5, PageReaches
    <3>2. Page.next \in Nat
      BY <1>4, <3>1
    <3>3. CASE i.position <= Page.next
      BY <1>1, <2>1, <2>2, <2>3, <2>5, <3>3, PageReaches
    <3> QED BY <1>3, <2>5, <3>2, <3>3
  <2> QED BY <2>4, <2>5
<1>9. ASSUME ~wasReset PROVE OneHead(more, queue, doneOn)
  <2> SUFFICES ASSUME NEW a \in Entries(old) \cup new, NEW b \in Entries(old) \cup new,
                      a.state = "current", b.state = "current", a.position < b.position,
                      NEW i \in queue, i.id = a.id, i.id \notin DOMAIN doneOn
               PROVE  FALSE
    BY <1>2 DEF OneHead
  <2>1. CASE b \in Entries(old)
    <3>1. a \in Entries(old)
      BY <1>1, <1>3, <1>4, <2>1
    <3> QED BY <1>1, <1>9, <2>1, <3>1 DEF WalkInv, OneHead
  <2>2. CASE b \in new
    <3>1. \A j \in get.listed : j.id \notin DOMAIN doneOn => b.position <= j.position
      BY <1>1, <2>2, PageHeads
    <3>2. CASE a \in Entries(old)
      <4>1. i \in get.listed
        BY <3>2 DEF PagesInv, ListedInv
      <4>2. i.position = a.position
        BY <1>1, <3>2 DEF TablesInv, Settled, Seen
      <4> QED BY <1>3, <1>4, <2>2, <3>1, <3>2, <4>1, <4>2
    <3>3. CASE a \in new
      <4>1. PICK j \in get.listed : a.id = j.id /\ a.position = j.position
        BY <1>4, <3>3
      <4> QED BY <1>4, <2>2, <3>1, <3>3, <4>1
    <3> QED BY <3>2, <3>3
  <2> QED BY <2>1, <2>2
<1>10. ASSUME ~wasReset PROVE HeadAhead(more, queue, doneOn)
  <2> SUFFICES ASSUME \A a \in Entries(old) \cup new : a.state # "current"
               PROVE  /\ \A a \in Entries(old) \cup new : a.id \in DOMAIN doneOn
                      /\ Page.next # NoMore =>
                           \A i \in queue : i.position <= Page.next => i.id \in DOMAIN doneOn
    BY <1>2 DEF HeadAhead, NoHead
  <2>1. NoHead(old)
    BY DEF NoHead
  <2>2. /\ \A a \in Entries(old) : a.id \in DOMAIN doneOn
        /\ \A i \in queue : i.position <= c => i.id \in DOMAIN doneOn
    BY <1>1, <1>10, <2>1 DEF WalkInv, HeadAhead, NoMore
  <2>3. \A i \in get.listed : i.position <= c => i.id \in DOMAIN doneOn
    BY <1>10, <2>1 DEF PagesInv, ListedInv
  <2>4. \A a \in new : a.id \in DOMAIN doneOn
    BY <1>1, <2>3, PageHeads
  <2>5. ASSUME Page.next # NoMore, NEW i \in queue, i.position <= Page.next,
               i.id \notin DOMAIN doneOn
        PROVE  FALSE
    <3>1. PICK a \in new : a.position = Page.next
      BY <1>1, <2>5, PageReaches
    <3>2. i.position > c
      BY <1>1, <1>3, <2>2, <2>5
    <3>3. CASE i \in get.listed
      <4>1. InView(i, doneOn, today)
        BY <2>5 DEF InView
      <4>2. \E b \in new : b.id = i.id
        BY <1>1, <2>5, <3>2, <3>3, <4>1, PageReaches
      <4> QED BY <2>4, <2>5, <4>2
    <3>4. CASE i \notin get.listed
      <4>1. PICK m \in get.listed : a.id = m.id /\ a.position = m.position
        BY <1>4
      <4>2. PICK n \in queue : n.id = a.id
        BY <1>1, <2>4 DEF TablesInv
      <4>3. n.position = m.position
        BY <1>1, <4>1, <4>2 DEF TablesInv, Settled, Seen
      <4>4. n = m
        BY <1>1, <4>1, <4>2, <4>3 DEF Item
      <4>5. m.position < i.position
        BY <3>4, <4>1, <4>2, <4>4 DEF PagesInv, ListedInv
      <4> QED BY <1>3, <2>5, <3>1, <4>1, <4>5
    <3> QED BY <3>3, <3>4
  <2> QED BY <2>2, <2>4, <2>5
<1> QED BY <1>6, <1>7, <1>8, <1>9, <1>10 DEF WalkInv, more

\* A lookup that goes on has passed nothing it is owed, and one that comes to
\* null is not for a lesson it is owed.
LEMMA LookupGoesOn ==
    ASSUME PagesInv, get.step = "map", get.by = "lookup",
           \A a \in Page.items : a.id # wanted
    PROVE  /\ Page.next # NoMore =>
                \A i \in queue : i.id \in walk.owed /\ i.position <= Page.next => i.id # wanted
           /\ Page.next = NoMore => wanted \notin walk.owed
<1>1. /\ TypeInv /\ OnePlace(get.listed) /\ get.cursor \in Nat
      /\ \A i \in queue : i.position \in Nat
      /\ WalkInv(walk.pages, walk.owed, queue, doneOn, today, wasReset)
  BY ItemFields DEF PagesInv, TypeInv, WalkType, TablesInv
<1>2. ASSUME NEW i \in queue, i.id \in walk.owed, i.id = wanted
      PROVE  Page.next # NoMore /\ ~(i.position <= Page.next)
  <2>1. i.position > get.cursor
    BY <1>1, <1>2 DEF PagesInv, GetInv
  <2>2. i \in get.listed
    BY <1>2 DEF PagesInv, ListedInv
  <2>3. InView(i, doneOn, today)
    BY <1>1, <1>2 DEF WalkInv, Owing, InView
  <2> QED BY <1>1, <1>2, <2>1, <2>2, <2>3, PageReaches
<1>3. Page.next = NoMore => wanted \notin walk.owed
  BY <1>1, <1>2 DEF WalkInv, Owing
<1> QED BY <1>2, <1>3

-----------------------------------------------------------------------------
(* The steps on the tables.                                                *)

\* The rows of an extension are under the ids that come next and after all the
\* rows there are.
LEMMA ExtensionRows ==
    ASSUME TypeInv, NEW rows \in Extension
    PROVE  /\ rows \subseteq Item /\ IsFiniteSet(rows) /\ Cardinality(rows) \in Nat
           /\ \A i \in rows : /\ i.id >= nextId /\ i.id < nextId + Cardinality(rows)
                              /\ \A j \in queue : i.position > j.position
           /\ \A i, j \in rows : i.id = j.id \/ i.position = j.position => i = j
<1> DEFINE base == IF queue = {} THEN 0 ELSE Max({i.position : i \in queue})
           row(k) == [id |-> nextId + k - 1, position |-> base + k]
           short == PendingWindow - Cardinality(Pending)
<1>1. /\ queue \subseteq Item /\ IsFiniteSet(queue) /\ nextId \in Nat \ {0}
      /\ \A i \in queue : i.position \in Nat
  BY ItemFields DEF TypeInv, WalkType
<1>2. base \in Nat /\ \A i \in queue : i.position <= base
  BY <1>1, LastPosition
<1>3. PICK n \in 0 .. (IF short > 0 THEN short + BatchSize - 1 ELSE 0) :
        rows = {row(k) : k \in 1 .. n}
  BY DEF Extension
<1>4. n \in Nat
  OBVIOUS
<1> HIDE DEF base, short
<1> DEFINE f == [k \in 1 .. n |-> row(k)]
<1>5. rows = {f[k] : k \in 1 .. n}
  BY <1>3
<1>6. IsFiniteSet(1 .. n) /\ Cardinality(1 .. n) = n
  BY <1>4, FS_Interval
<1>7. \A k \in 1 .. n : f[k].id = nextId + k - 1 /\ f[k].position = base + k /\ f[k] \in Item
  BY <1>1, <1>2, <1>4 DEF Item
<1>8. f \in Bijection(1 .. n, rows)
  <2>1. f \in Surjection(1 .. n, rows)
    BY <1>5 DEF Surjection
  <2>2. IsInjective(f)
    <3> HIDE DEF f
    <3>1. DOMAIN f = 1 .. n
      BY DEF f
    <3> QED BY <1>1, <1>4, <1>7, <3>1, SMTT(30) DEF IsInjective
  <2> QED BY <2>1, <2>2 DEF Bijection, Injection, Surjection
<1>9. IsFiniteSet(rows) /\ Cardinality(rows) = n
  BY <1>6, <1>8, FS_Bijection DEF ExistsBijection
<1> HIDE DEF f
<1>10. rows \subseteq Item
  BY <1>5, <1>7
<1>11. \A i \in rows : /\ i.id >= nextId /\ i.id < nextId + n
                       /\ \A j \in queue : i.position > j.position
  BY <1>1, <1>2, <1>4, <1>5, <1>7
<1>12. \A i, j \in rows : i.id = j.id \/ i.position = j.position => i = j
  BY <1>1, <1>2, <1>4, <1>5, <1>7
<1> QED BY <1>4, <1>9, <1>10, <1>11, <1>12

\* The queue is extended, for the request under way or for another.
LEMMA StepExtend ==
    ASSUME PagesInv, Extend,
           get' = get \/ (get.step = "extend" /\ get' = [get EXCEPT !.step = "list"])
    PROVE  PagesInv'
<1>1. PICK rows \in Extension : queue' = queue \cup rows /\ nextId' = nextId + Cardinality(rows)
  BY DEF Extend
<1>2. UNCHANGED <<doneOn, today, walk, screen, wanted, notFound, wasReset>>
  BY DEF Extend
<1>3. /\ rows \subseteq Item /\ IsFiniteSet(rows) /\ Cardinality(rows) \in Nat
      /\ \A i \in rows : /\ i.id >= nextId /\ i.id < nextId + Cardinality(rows)
                         /\ \A j \in queue : i.position > j.position
      /\ \A i, j \in rows : i.id = j.id \/ i.position = j.position => i = j
  BY ExtensionRows DEF PagesInv
<1>4. /\ TypeInv /\ TablesInv /\ ListedInv /\ GetInv
      /\ queue \subseteq Item /\ IsFiniteSet(queue) /\ nextId \in Nat \ {0}
      /\ walk.pages \in Seq(PageType) /\ screen.pages \in Seq(PageType)
      /\ get.listed \subseteq Item
      /\ WalkInv(walk.pages, walk.owed, queue, doneOn, today, wasReset)
      /\ WalkInv(screen.pages, screen.owed, queue, doneOn, today, wasReset)
  BY DEF PagesInv, TypeInv, WalkType
<1>5. /\ get'.by = get.by /\ get'.cursor = get.cursor /\ get'.listed = get.listed
      /\ get'.step \in {get.step, "list"}
      /\ get' = [by |-> get'.by, step |-> get'.step, cursor |-> get'.cursor,
                 listed |-> get'.listed]
  BY <1>4 DEF TypeInv, WalkType
<1>6. \A i \in queue \cup rows \cup get.listed : i.id \in Nat /\ i.position \in Nat \ {0}
  BY <1>3, <1>4, ItemFields
<1>7. /\ \A a \in Entries(walk.pages) : a.id \in Nat /\ a.position \in Nat
      /\ \A a \in Entries(screen.pages) : a.id \in Nat /\ a.position \in Nat
  BY <1>4, PagesType
<1>8. TypeInv'
  <2>1. IsFiniteSet(queue')
    BY <1>1, <1>3, <1>4, FS_Union
  <2>2. queue' \subseteq Item /\ nextId' \in Nat \ {0}
    BY <1>1, <1>3, <1>4
  <2> QED BY <1>2, <1>4, <1>5, <2>1, <2>2 DEF TypeInv, WalkType
<1>9. Seen' = Seen \cup rows
  BY <1>1, <1>2, <1>5 DEF Seen
<1>10. \A a \in Seen : a.id \in Nat /\ a.id < nextId
  BY <1>4, <1>6, <1>7 DEF TablesInv, Settled, Seen
<1>11. Settled(Seen \cup rows, nextId')
  <2>1. \A a \in Seen \cup rows : a.id < nextId'
    BY <1>1, <1>3, <1>4, <1>6, <1>10
  <2>2. \A a \in Seen, i \in rows : a.id # i.id
    BY <1>3, <1>4, <1>6, <1>10
  <2> QED BY <1>3, <1>4, <2>1, <2>2 DEF TablesInv, Settled
<1>12. OnePlace(queue')
  <2>1. OnePlace(queue)
    BY <1>4 DEF TablesInv
  <2>2. \A i \in queue, j \in rows : i.position # j.position
    BY <1>3, <1>6
  <2> QED BY <1>1, <1>3, <2>1, <2>2 DEF OnePlace
<1>13. TablesInv'
  BY <1>1, <1>2, <1>4, <1>5, <1>9, <1>11, <1>12 DEF TablesInv
<1>14. Settled(queue \cup Entries(walk.pages), nextId)
       /\ Settled(queue \cup Entries(screen.pages), nextId)
  BY <1>4 DEF TablesInv, Settled, Seen
<1>15. WalkInv(walk.pages, walk.owed, queue \cup rows, doneOn, today, wasReset)
  BY <1>3, <1>4, <1>14, WalkOutgrows DEF TablesInv
<1>16. WalkInv(screen.pages, screen.owed, queue \cup rows, doneOn, today, wasReset)
  BY <1>3, <1>4, <1>14, WalkOutgrows DEF TablesInv
<1>17. \A i \in rows : i.id \notin walk.owed /\ \A a \in Entries(walk.pages) : i.id # a.id
  <2>1. \A i \in rows, a \in Seen : i.id # a.id
    BY <1>3, <1>4, <1>6, <1>10
  <2>2. \A id \in walk.owed : \E j \in queue : j.id = id
    BY <1>4 DEF WalkInv, Owing
  <2> QED BY <2>1, <2>2 DEF Seen
<1>18. ListedInv'
  <2> SUFFICES ASSUME get'.step = "map" PROVE ListedInv'
    BY DEF ListedInv
  <2>1. get.step = "map"
    BY <1>5
  <2>2. \A i \in queue' : i.id \in walk.owed => i \in get.listed
    BY <1>1, <1>4, <1>17, <2>1 DEF ListedInv
  <2>3. \A i \in queue', a \in Entries(walk.pages) : i.id = a.id => i \in get.listed
    BY <1>1, <1>4, <1>17, <2>1 DEF ListedInv
  <2>4. \A i \in queue' \ get.listed, m \in queue' \cap get.listed : m.position < i.position
    <3>1. rows \cap get.listed = {}
      BY <1>3, <1>4, <1>6, <1>10 DEF Seen
    <3> QED BY <1>1, <1>3, <1>4, <1>6, <2>1, <3>1 DEF ListedInv
  <2> QED BY <1>2, <1>4, <1>5, <2>1, <2>2, <2>3, <2>4 DEF ListedInv
<1>19. GetInv'
  <2>1. notFound => get'.step = "idle"
    BY <1>4 DEF GetInv
  <2>2. get'.step # "idle" => get.step # "idle"
    BY <1>5
  <2> QED BY <1>1, <1>2, <1>4, <1>5, <1>17, <2>1, <2>2 DEF GetInv
<1> QED BY <1>1, <1>2, <1>8, <1>13, <1>15, <1>16, <1>18, <1>19 DEF PagesInv

\* A lesson is completed.
LEMMA StepComplete ==
    ASSUME PagesInv, NEW i \in queue, Complete(i)
    PROVE  PagesInv'
<1>1. /\ doneOn' = [id \in DOMAIN doneOn \cup {i.id} |-> IF id = i.id THEN today ELSE doneOn[id]]
      /\ UNCHANGED <<queue, today, nextId, get, walk, screen, wanted, notFound, wasReset>>
  BY DEF Complete, client
<1>2. /\ TypeInv /\ TablesInv /\ ListedInv /\ GetInv
      /\ walk.pages \in Seq(PageType) /\ screen.pages \in Seq(PageType)
      /\ doneOn \in [DOMAIN doneOn -> Nat] /\ today \in Nat /\ i.id \in Nat
  BY ItemFields DEF PagesInv, TypeInv, WalkType
<1>3. DOMAIN doneOn' = DOMAIN doneOn \cup {i.id} /\ doneOn' \in [DOMAIN doneOn' -> Nat]
  BY <1>1, <1>2
<1>4. TypeInv'
  BY <1>1, <1>2, <1>3 DEF TypeInv, WalkType
<1>5. TablesInv'
  BY <1>1, <1>2, <1>3 DEF TablesInv, Seen
<1>6. ListedInv'
  BY <1>1, <1>2, <1>3 DEF ListedInv
<1>7. GetInv'
  BY <1>1, <1>2 DEF GetInv
<1>8. \A j : InView(j, doneOn, today) => InView(j, doneOn', today)
  BY <1>1 DEF InView
<1>9. /\ WalkInv(walk.pages, walk.owed, queue, doneOn', today, wasReset)
      /\ WalkInv(screen.pages, screen.owed, queue, doneOn', today, wasReset)
  BY <1>2, <1>3, <1>8, WalkCompletes DEF PagesInv
<1> QED BY <1>1, <1>4, <1>5, <1>6, <1>7, <1>9 DEF PagesInv

\* The pending lessons of a pack are pruned.
LEMMA StepDisable ==
    ASSUME PagesInv, NEW pruned \in SUBSET Pending, Disable(pruned)
    PROVE  PagesInv'
<1> DEFINE gone == {i.id : i \in pruned}
<1>1. /\ queue' = queue \ pruned
      /\ walk' = [walk EXCEPT !.owed = walk.owed \ gone]
      /\ screen' = [screen EXCEPT !.owed = screen.owed \ gone]
      /\ UNCHANGED <<doneOn, today, nextId, get, wanted, notFound, wasReset>>
  BY DEF Disable, Hide
<1>2. /\ TypeInv /\ TablesInv /\ ListedInv /\ GetInv
      /\ walk.pages \in Seq(PageType) /\ screen.pages \in Seq(PageType)
      /\ IsFiniteSet(queue)
      /\ walk \in WalkType
      /\ screen \in WalkType
  BY DEF PagesInv, TypeInv, WalkType
<1>3. /\ walk'.pages = walk.pages /\ walk'.owed = walk.owed \ gone
      /\ screen'.pages = screen.pages /\ screen'.owed = screen.owed \ gone
      /\ walk' \in WalkType
      /\ screen' \in WalkType
  <2> HIDE DEF gone
  <2> QED BY <1>1, <1>2 DEF WalkType
<1>4. /\ WalkInv(walk.pages, walk.owed \ gone, queue \ pruned, doneOn, today, wasReset)
      /\ WalkInv(screen.pages, screen.owed \ gone, queue \ pruned, doneOn, today, wasReset)
  BY <1>2, WalkLoses DEF PagesInv
<1>5. TypeInv'
  <2>1. IsFiniteSet(queue')
    BY <1>1, <1>2, FS_Subset
  <2> QED BY <1>1, <1>2, <1>3, <2>1 DEF TypeInv, WalkType
<1>6. TablesInv'
  <2>1. Seen' \subseteq Seen
    BY <1>1, <1>3 DEF Seen
  <2>2. \A i \in pruned : i.id \notin DOMAIN doneOn
    BY DEF Pending, Done
  <2> QED BY <1>1, <1>2, <2>1, <2>2 DEF TablesInv, Settled, OnePlace
<1>7. ListedInv'
  BY <1>1, <1>2, <1>3 DEF ListedInv
<1>8. GetInv'
  BY <1>1, <1>2, <1>3 DEF GetInv
<1> QED BY <1>1, <1>3, <1>4, <1>5, <1>6, <1>7, <1>8 DEF PagesInv

\* Completions are taken back.
LEMMA StepReset ==
    ASSUME PagesInv, NEW ids, Reset(ids)
    PROVE  PagesInv'
<1>1. /\ doneOn' = [id \in DOMAIN doneOn \ ids |-> doneOn[id]] /\ wasReset' = TRUE
      /\ UNCHANGED <<queue, today, nextId, get, walk, screen, wanted, notFound>>
  BY DEF Reset, client
<1>2. /\ TypeInv /\ TablesInv /\ ListedInv /\ GetInv
      /\ walk.pages \in Seq(PageType) /\ screen.pages \in Seq(PageType)
      /\ doneOn \in [DOMAIN doneOn -> Nat]
  BY DEF PagesInv, TypeInv, WalkType
<1>3. DOMAIN doneOn' \subseteq DOMAIN doneOn /\ doneOn' \in [DOMAIN doneOn' -> Nat]
  BY <1>1, <1>2
<1>4. TypeInv'
  BY <1>1, <1>2, <1>3 DEF TypeInv, WalkType
<1>5. TablesInv'
  BY <1>1, <1>2, <1>3 DEF TablesInv, Seen
<1>6. ListedInv'
  BY <1>1, <1>2 DEF ListedInv
<1>7. GetInv'
  BY <1>1, <1>2 DEF GetInv
<1>8. /\ WalkInv(walk.pages, walk.owed, queue, doneOn', today, TRUE)
      /\ WalkInv(screen.pages, screen.owed, queue, doneOn', today, TRUE)
  BY <1>1, <1>2, WalkResets DEF PagesInv
<1> QED BY <1>1, <1>4, <1>5, <1>6, <1>7, <1>8 DEF PagesInv

\* The day turns.
LEMMA StepNextDay ==
    ASSUME PagesInv, NextDay
    PROVE  PagesInv'
<1>1. /\ today' = today + 1
      /\ walk' = [walk EXCEPT !.owed = walk.owed \ DOMAIN doneOn]
      /\ screen' = [screen EXCEPT !.owed = screen.owed \ DOMAIN doneOn]
      /\ UNCHANGED <<queue, doneOn, nextId, get, wanted, notFound, wasReset>>
  BY DEF NextDay, Hide
<1>2. /\ TypeInv /\ TablesInv /\ ListedInv /\ GetInv
      /\ walk.pages \in Seq(PageType) /\ screen.pages \in Seq(PageType)
      /\ walk \in WalkType
      /\ screen \in WalkType
  BY DEF PagesInv, TypeInv, WalkType
<1>3. /\ walk'.pages = walk.pages /\ walk'.owed = walk.owed \ DOMAIN doneOn
      /\ screen'.pages = screen.pages /\ screen'.owed = screen.owed \ DOMAIN doneOn
      /\ walk' \in WalkType
      /\ screen' \in WalkType
  BY <1>1, <1>2 DEF WalkType
<1>4. /\ WalkInv(walk.pages, walk.owed \ DOMAIN doneOn, queue, doneOn, today + 1, wasReset)
      /\ WalkInv(screen.pages, screen.owed \ DOMAIN doneOn, queue, doneOn, today + 1, wasReset)
  BY <1>2, WalkAges DEF PagesInv
<1>5. TypeInv'
  BY <1>1, <1>2, <1>3, SMTT(30) DEF TypeInv, WalkType
<1>6. TablesInv'
  BY <1>1, <1>2, <1>3 DEF TablesInv, Seen
<1>7. ListedInv'
  BY <1>1, <1>2, <1>3 DEF ListedInv
<1>8. GetInv'
  BY <1>1, <1>2, <1>3 DEF GetInv
<1> QED BY <1>1, <1>3, <1>4, <1>5, <1>6, <1>7, <1>8 DEF PagesInv

-----------------------------------------------------------------------------
(* The steps of the readers.                                               *)

(* A step of a reader leaves the tables.  If what it lists and shows was   *)
(* listed or shown, or is in the queue, the tables are as they should be.  *)
LEMMA ReaderKeepsTables ==
    ASSUME PagesInv, UNCHANGED table, OnePlace(get'.listed),
           \A b \in Seen' : \E a \in Seen : a.id = b.id /\ a.position = b.position
    PROVE  TablesInv'
<1>1. Settled(Seen', nextId)
  <2>1. Settled(Seen, nextId)
    BY DEF PagesInv, TablesInv
  <2> QED BY <2>1, SettledCovered
<1>2. UNCHANGED <<queue, doneOn, nextId>>
  BY DEF table
<1> QED BY <1>1, <1>2 DEF PagesInv, TablesInv

\* A walk is dropped or begun anew.
LEMMA StepBegin ==
    ASSUME PagesInv, UNCHANGED <<table, screen, wasReset>>,
           walk' \in WalkType, walk'.pages = <<>>, walk'.owed = {},
           wanted' \in Nat, notFound' = FALSE,
           NEW r \in Readers, get' = Idle \/ Ask(r, 0)
    PROVE  PagesInv'
<1>1. /\ UNCHANGED <<queue, doneOn, today, nextId, screen, wasReset>>
      /\ TypeInv /\ queue \subseteq Item /\ OnePlace({})
  BY DEF PagesInv, TypeInv, WalkType, table, OnePlace
<1>2. /\ get' = [by |-> get'.by, step |-> get'.step, cursor |-> get'.cursor,
                 listed |-> get'.listed]
      /\ get'.by \in Readers /\ get'.step \in {"idle", "extend"}
      /\ get'.cursor = 0 /\ get'.listed = {}
  <2>1. \/ get' = [by |-> "stream", step |-> "idle", cursor |-> 0, listed |-> {}]
        \/ get' = [by |-> r, step |-> "extend", cursor |-> 0, listed |-> {}]
    BY DEF Idle, Ask
  <2> QED BY <2>1 DEF Readers
<1>3. /\ WalkInv(<<>>, {}, queue, doneOn, today, wasReset)
      /\ Entries(<<>>) = {} /\ Cursor(<<>>) = 0
  BY <1>1, NothingWalked
<1>4. TypeInv'
  <2>1. get'.cursor \in Nat /\ get'.listed \subseteq Item /\ IsFiniteSet(get'.listed)
    BY <1>2, FS_EmptySet
  <2> QED BY <1>1, <1>2, <2>1 DEF TypeInv, WalkType
<1>5. Seen' \subseteq Seen
  BY <1>1, <1>2, <1>3 DEF Seen
<1>6. TablesInv'
  BY <1>1, <1>2, <1>5, ReaderKeepsTables
<1>7. ListedInv'
  BY <1>2 DEF ListedInv
<1>8. GetInv'
  BY <1>2, <1>3 DEF GetInv
<1> QED BY <1>1, <1>3, <1>4, <1>6, <1>7, <1>8 DEF PagesInv

\* A refetch, a lookup or a failure.
LEMMA StepRefetch ==
    ASSUME PagesInv, Refetch
    PROVE  PagesInv'
<1>1. screen.pages \in Seq(PageType)
  BY DEF PagesInv, TypeInv, WalkType
<1>2. (IF screen.pages = <<>> THEN 1 ELSE Len(screen.pages)) \in Nat
  BY <1>1
<1>3. walk' = [pages |-> <<>>, owed |-> {},
               goal |-> IF screen.pages = <<>> THEN 1 ELSE Len(screen.pages)]
  BY DEF Refetch, NoWalk
<1>4. walk' \in WalkType /\ walk'.pages = <<>> /\ walk'.owed = {}
  BY <1>2, <1>3 DEF WalkType
<1>5. /\ UNCHANGED <<table, screen, wasReset>> /\ Ask("stream", 0)
      /\ wanted' \in Nat /\ notFound' = FALSE
  BY DEF Refetch, LeaveLesson, NoItem
<1> QED BY <1>4, <1>5, StepBegin DEF Readers

\* A lesson that is not shown is looked up.
LEMMA StepLookup ==
    ASSUME PagesInv, NEW id \in 1 .. nextId - 1, Lookup(id)
    PROVE  PagesInv'
<1>1. walk' \in WalkType /\ walk'.pages = <<>> /\ walk'.owed = {}
  BY DEF Lookup, NoWalk, WalkType
<1>2. /\ UNCHANGED <<table, screen, wasReset>> /\ Ask("lookup", 0)
      /\ wanted' \in Nat /\ notFound' = FALSE
  BY DEF Lookup, PagesInv, TypeInv, WalkType
<1> QED BY <1>1, <1>2, StepBegin DEF Readers

\* A request fails.
LEMMA StepFail ==
    ASSUME PagesInv, Fail
    PROVE  PagesInv'
<1>1. walk' \in WalkType /\ walk'.pages = <<>> /\ walk'.owed = {}
  BY DEF Fail, NoWalk, WalkType
<1>2. /\ UNCHANGED <<table, screen, wasReset>> /\ get' = Idle
      /\ wanted' \in Nat /\ notFound' = FALSE
  BY DEF Fail, Rest, LeaveLesson, NoItem
<1> QED BY <1>1, <1>2, StepBegin DEF Readers

\* One page more is asked for, after those that are shown.
LEMMA StepFetchNextPage ==
    ASSUME PagesInv, FetchNextPage
    PROVE  PagesInv'
<1> DEFINE c == Last(screen.pages).next
<1>1. /\ UNCHANGED <<queue, doneOn, today, nextId, screen, wasReset>> /\ UNCHANGED table
      /\ TypeInv /\ screen \in WalkType /\ screen.pages \in Seq(PageType) /\ OnePlace({})
      /\ screen.pages # <<>> /\ c # NoMore
      /\ wanted' \in Nat /\ notFound' = FALSE
      /\ WalkInv(screen.pages, screen.owed, queue, doneOn, today, wasReset)
  BY DEF PagesInv, TypeInv, WalkType, FetchNextPage, LeaveLesson, NoItem, table, OnePlace
<1>2. c = Cursor(screen.pages) /\ c \in Nat
  <2>1. c = Cursor(screen.pages)
    BY <1>1 DEF Cursor, Last
  <2> QED BY <1>1, <2>1, PagesType
<1> HIDE DEF c
<1>3. get' = [by |-> "stream", step |-> "extend", cursor |-> c, listed |-> {}]
  BY DEF FetchNextPage, Ask, Idle, c
<1>4. walk' \in WalkType /\ walk'.pages = screen.pages /\ walk'.owed = screen.owed
  <2>1. Len(screen.pages) + 1 \in Nat
    BY <1>1
  <2>2. walk' = [screen EXCEPT !.goal = Len(screen.pages) + 1]
    BY DEF FetchNextPage
  <2> QED BY <1>1, <2>1, <2>2 DEF WalkType
<1>5. TypeInv'
  BY <1>1, <1>2, <1>3, <1>4, FS_EmptySet DEF TypeInv, WalkType, Readers
<1>6. Seen' \subseteq Seen
  BY <1>1, <1>3, <1>4 DEF Seen
<1>7. TablesInv'
  BY <1>1, <1>3, <1>6, ReaderKeepsTables
<1>8. ListedInv'
  BY <1>3 DEF ListedInv
<1>9. GetInv'
  BY <1>1, <1>2, <1>3, <1>4 DEF GetInv
<1> QED BY <1>1, <1>4, <1>5, <1>7, <1>8, <1>9 DEF PagesInv

\* The lessons are listed.
LEMMA StepListItems ==
    ASSUME PagesInv, ListItems
    PROVE  PagesInv'
<1> DEFINE visible == {i.id : i \in {j \in queue : Visible(j, today)}}
           owed == IF get.cursor = 0 THEN visible ELSE walk.owed
<1>1. /\ UNCHANGED <<queue, doneOn, today, nextId, screen, wanted, notFound, wasReset>>
      /\ UNCHANGED table
      /\ TypeInv /\ TablesInv /\ GetInv /\ get.step = "list" /\ ~notFound
      /\ walk \in WalkType /\ walk.pages \in Seq(PageType) /\ get.cursor \in Nat
      /\ queue \subseteq Item
      /\ WalkInv(walk.pages, walk.owed, queue, doneOn, today, wasReset)
  BY DEF PagesInv, TypeInv, WalkType, GetInv, ListItems, table
<1>2. /\ get' = [by |-> get.by, step |-> "map", cursor |-> get.cursor, listed |-> queue]
      /\ get.by \in Readers
  BY DEF PagesInv, TypeInv, WalkType, ListItems
<1>3. \A i \in queue : i.id \in Nat /\ i.position \in Nat \ {0}
  BY <1>1, ItemFields
<1>4. walk' \in WalkType /\ walk'.pages = walk.pages /\ walk'.owed = owed
  <2>1. visible \subseteq Nat
    BY <1>3
  <2>2. walk' = IF get.cursor = 0 THEN [walk EXCEPT !.owed = visible] ELSE walk
    BY DEF ListItems
  <2> HIDE DEF visible
  <2> QED BY <1>1, <2>1, <2>2 DEF WalkType
<1>5. get.cursor = 0 => Cursor(walk.pages) = 0
  <2>1. Cursor(<<>>) = 0
    BY DEF Cursor
  <2> QED BY <1>1, <1>2, <2>1 DEF GetInv, Readers
<1>6. WalkInv(walk.pages, owed, queue, doneOn, today, wasReset)
  <2>1. CASE get.cursor = 0
    <3>1. \A i \in queue : i.position > Cursor(walk.pages) /\ Cursor(walk.pages) # NoMore
      BY <1>3, <1>5, <2>1 DEF NoMore
    <3>2. \A id \in visible : \E i \in queue : i.id = id /\ InView(i, doneOn, today)
      BY DEF Visible, Done, InView
    <3>3. owed = visible
      BY <2>1
    <3> HIDE DEF visible, owed
    <3>4. Owing(walk.pages, owed, queue, doneOn, today)
      BY <3>1, <3>2, <3>3 DEF Owing
    <3> QED BY <1>1, <3>4 DEF WalkInv
  <2>2. CASE get.cursor # 0
    BY <1>1, <2>2
  <2> QED BY <2>1, <2>2
<1> HIDE DEF owed
<1>7. TypeInv'
  BY <1>1, <1>2, <1>4 DEF TypeInv, WalkType
<1>8. Seen' \subseteq Seen
  BY <1>1, <1>2, <1>4 DEF Seen
<1>9. TablesInv'
  BY <1>1, <1>2, <1>8, ReaderKeepsTables DEF TablesInv
<1>10. ListedInv'
  <2>1. get.by = "stream" /\ ~wasReset /\ NoHead(walk.pages) =>
          \A i \in queue : i.position <= get.cursor => i.id \in DOMAIN doneOn
    <3>1. get.by = "stream" => get.cursor = Cursor(walk.pages)
      BY <1>1 DEF GetInv
    <3> QED BY <1>1, <3>1 DEF WalkInv, HeadAhead, NoMore
  <2> QED BY <1>1, <1>2, <1>4, <2>1 DEF ListedInv
<1>11. GetInv'
  <2>1. get.by = "lookup" =>
          \A i \in queue : i.id \in owed /\ i.position <= get.cursor => i.id # wanted
    <3>1. CASE get.cursor = 0
      BY <1>3, <3>1
    <3>2. CASE get.cursor # 0
      BY <1>1, <3>2 DEF GetInv, owed
    <3> QED BY <3>1, <3>2
  <2> QED BY <1>1, <1>2, <1>4, <2>1 DEF GetInv
<1> QED BY <1>1, <1>4, <1>6, <1>7, <1>9, <1>10, <1>11 DEF PagesInv

\* A page of the stream arrives.
LEMMA StepStreamPage ==
    ASSUME PagesInv, StreamPage
    PROVE  PagesInv'
<1> DEFINE pages == Append(walk.pages, Page)
           more == Len(pages) < walk.goal /\ Page.next # NoMore
<1>1. /\ UNCHANGED <<queue, doneOn, today, nextId, wanted, notFound, wasReset>>
      /\ UNCHANGED table
      /\ TypeInv /\ TablesInv /\ GetInv /\ get.step = "map" /\ get.by = "stream" /\ ~notFound
      /\ walk \in WalkType /\ walk.pages \in Seq(PageType) /\ screen.pages \in Seq(PageType)
      /\ screen \in WalkType /\ queue \subseteq Item /\ OnePlace({})
      /\ WalkInv(screen.pages, screen.owed, queue, doneOn, today, wasReset)
  BY DEF PagesInv, TypeInv, WalkType, GetInv, StreamPage, table, OnePlace
<1>2. /\ Page \in PageType
      /\ \A a \in Page.items : \E i \in get.listed : a.id = i.id /\ a.position = i.position
  BY <1>1, PageEntries DEF TablesInv
<1>3. /\ pages \in Seq(PageType) /\ Cursor(pages) = Page.next
      /\ Entries(pages) = Entries(walk.pages) \cup Page.items
  BY <1>1, <1>2, OnePageMore
<1>4. WalkInv(pages, walk.owed, queue, doneOn, today, wasReset)
  BY <1>1, PageGoesOn
<1>5. \A b \in Entries(pages) : \E a \in Seen : a.id = b.id /\ a.position = b.position
  BY <1>2, <1>3 DEF Seen
<1>6. CASE more
  <2>1. /\ walk' = [walk EXCEPT !.pages = pages] /\ UNCHANGED screen
        /\ get' = [by |-> "stream", step |-> "extend", cursor |-> Page.next, listed |-> {}]
    BY <1>6 DEF StreamPage, Ask, Idle
  <2>2. Page.next \in Nat
    BY <1>2, <1>6 DEF PageType
  <2> HIDE DEF pages, more
  <2>3. walk' \in WalkType /\ walk'.pages = pages /\ walk'.owed = walk.owed
    BY <1>1, <1>3, <2>1 DEF WalkType
  <2>4. TypeInv'
    <3>1. IsFiniteSet({})
      BY FS_EmptySet
    <3> QED BY <1>1, <2>1, <2>2, <2>3, <3>1 DEF TypeInv, WalkType, Readers
  <2>5. Seen' = queue \cup Entries(pages) \cup Entries(screen.pages)
    BY <1>1, <2>1, <2>3 DEF Seen
  <2>6. \A b \in Seen' : \E a \in Seen : a.id = b.id /\ a.position = b.position
    <3> SUFFICES ASSUME NEW b \in Seen', b \notin Entries(pages) PROVE b \in Seen
      BY <1>5
    <3> QED BY <2>5 DEF Seen
  <2>7. TablesInv'
    BY <1>1, <2>1, <2>6, ReaderKeepsTables
  <2>8. ListedInv'
    BY <2>1 DEF ListedInv
  <2>9. GetInv'
    BY <1>1, <1>3, <2>1, <2>3 DEF GetInv
  <2> QED BY <1>1, <1>4, <2>1, <2>3, <2>4, <2>7, <2>8, <2>9 DEF PagesInv
<1>7. CASE ~more
  <2>1. /\ screen' = [walk EXCEPT !.pages = pages, !.goal = 0] /\ walk' = NoWalk
        /\ get' = [by |-> "stream", step |-> "idle", cursor |-> 0, listed |-> {}]
    BY <1>7 DEF StreamPage, Rest, Idle
  <2> HIDE DEF pages, more
  <2>2. screen' \in WalkType /\ screen'.pages = pages /\ screen'.owed = walk.owed
    BY <1>1, <1>3, <2>1 DEF WalkType
  <2>3. walk' \in WalkType /\ walk'.pages = <<>> /\ walk'.owed = {}
    BY <2>1 DEF NoWalk, WalkType
  <2>4. TypeInv'
    <3>1. IsFiniteSet({})
      BY FS_EmptySet
    <3> QED BY <1>1, <2>1, <2>2, <2>3, <3>1 DEF TypeInv, WalkType, Readers
  <2>5. /\ WalkInv(<<>>, {}, queue, doneOn, today, wasReset) /\ Entries(<<>>) = {}
    BY <1>1, NothingWalked
  <2>6. Seen' = queue \cup Entries(pages)
    BY <1>1, <2>1, <2>2, <2>3, <2>5 DEF Seen
  <2>7. \A b \in Seen' : \E a \in Seen : a.id = b.id /\ a.position = b.position
    <3> SUFFICES ASSUME NEW b \in Seen', b \notin Entries(pages) PROVE b \in Seen
      BY <1>5
    <3> QED BY <2>6 DEF Seen
  <2>8. TablesInv'
    BY <1>1, <2>1, <2>7, ReaderKeepsTables
  <2>9. ListedInv' /\ GetInv'
    BY <1>1, <2>1 DEF ListedInv, GetInv
  <2> QED BY <1>1, <1>4, <2>2, <2>3, <2>4, <2>5, <2>8, <2>9 DEF PagesInv
<1> QED BY <1>6, <1>7

\* A page of a lookup arrives.
LEMMA StepLookupPage ==
    ASSUME PagesInv, LookupPage
    PROVE  PagesInv'
<1>1. /\ UNCHANGED <<queue, doneOn, today, nextId, screen, wasReset>>
      /\ UNCHANGED table
      /\ TypeInv /\ TablesInv /\ GetInv /\ get.step = "map" /\ get.by = "lookup"
      /\ OnePlace({}) /\ walk.pages = <<>>
  BY DEF PagesInv, TypeInv, WalkType, GetInv, LookupPage, table, OnePlace
<1>2. CASE \E i \in Page.items : i.id = wanted
  <2>1. Rest /\ LeaveLesson /\ walk' = NoWalk
    BY <1>2 DEF LookupPage
  <2>2. walk' \in WalkType /\ walk'.pages = <<>> /\ walk'.owed = {}
    BY <2>1 DEF NoWalk, WalkType
  <2> QED BY <1>1, <2>1, <2>2, StepBegin DEF Rest, LeaveLesson, NoItem, Readers
<1>3. CASE \A i \in Page.items : i.id # wanted
  <2>1. /\ IF Page.next = NoMore THEN Rest ELSE Ask("lookup", Page.next)
        /\ notFound' = (Page.next = NoMore)
        /\ UNCHANGED <<wanted, walk>>
    BY <1>3 DEF LookupPage
  <2>2. /\ Page.next # NoMore =>
             \A i \in queue : i.id \in walk.owed /\ i.position <= Page.next => i.id # wanted
        /\ Page.next = NoMore => wanted \notin walk.owed
    BY <1>1, <1>3, LookupGoesOn
  <2>3. Page.next \in Nat \cup {NoMore}
    <3>1. Page \in PageType
      BY <1>1, PageEntries DEF TablesInv
    <3> QED BY <3>1 DEF PageType
  <2>4. \/ /\ Page.next = NoMore
           /\ get' = [by |-> "stream", step |-> "idle", cursor |-> 0, listed |-> {}]
        \/ /\ Page.next \in Nat /\ Page.next # NoMore
           /\ get' = [by |-> "lookup", step |-> "extend", cursor |-> Page.next, listed |-> {}]
    BY <2>1, <2>3 DEF Rest, Ask, Idle
  <2>5. /\ get' = [by |-> get'.by, step |-> get'.step, cursor |-> get'.cursor, listed |-> {}]
        /\ get'.by \in Readers /\ get'.step \in {"idle", "extend"}
        /\ get'.cursor \in Nat /\ get'.listed = {}
    BY <2>4 DEF Readers
  <2>6. TypeInv'
    <3>1. IsFiniteSet({})
      BY FS_EmptySet
    <3> QED BY <1>1, <2>1, <2>5, <3>1 DEF TypeInv, WalkType
  <2>7. Seen' \subseteq Seen
    BY <1>1, <2>1, <2>5 DEF Seen
  <2>8. TablesInv'
    BY <1>1, <2>5, <2>7, ReaderKeepsTables
  <2>9. ListedInv'
    BY <2>5 DEF ListedInv
  <2>10. GetInv'
    <3>1. CASE get'.step = "idle" /\ Page.next = NoMore
      BY <2>1, <2>2, <3>1 DEF GetInv
    <3>2. CASE get'.by = "lookup" /\ get'.cursor = Page.next /\ Page.next # NoMore
      BY <1>1, <2>1, <2>2, <3>2 DEF GetInv
    <3> QED BY <2>4, <3>1, <3>2
  <2> QED BY <1>1, <2>1, <2>6, <2>8, <2>9, <2>10 DEF PagesInv
<1> QED BY <1>2, <1>3

-----------------------------------------------------------------------------
(* The theorems.                                                           *)

\* The invariant holds of an empty queue that nobody reads.
LEMMA PagesInit == Init => PagesInv
<1> SUFFICES ASSUME Init PROVE PagesInv
  OBVIOUS
<1>1. /\ queue = {} /\ doneOn = [i \in {} |-> 0] /\ today = 0 /\ nextId = 1
      /\ get = [by |-> "stream", step |-> "idle", cursor |-> 0, listed |-> {}]
      /\ walk = [pages |-> <<>>, goal |-> 0, owed |-> {}]
      /\ screen = [pages |-> <<>>, goal |-> 0, owed |-> {}]
      /\ wanted = 0 /\ notFound = FALSE /\ wasReset = FALSE
  BY DEF Init, Idle, NoWalk, NoItem
<1>2. /\ WalkInv(<<>>, {}, {}, doneOn, 0, FALSE)
      /\ Entries(<<>>) = {}
  BY NothingWalked
<1>3. TypeInv
  <2>1. <<>> \in Seq(PageType) /\ IsFiniteSet({})
    BY FS_EmptySet
  <2>2. doneOn \in [DOMAIN doneOn -> Nat]
    BY <1>1
  <2>3. walk \in WalkType /\ screen \in WalkType
    BY <1>1, <2>1 DEF WalkType
  <2>4. /\ get.by \in Readers /\ get.step = "idle" /\ get.cursor \in Nat
        /\ get.listed = {}
        /\ get = [by |-> get.by, step |-> get.step, cursor |-> get.cursor,
                  listed |-> get.listed]
    BY <1>1 DEF Readers
  <2>5. queue \subseteq Item /\ today \in Nat /\ nextId \in Nat \ {0} /\ wanted \in Nat
    BY <1>1
  <2>6. notFound \in BOOLEAN /\ wasReset \in BOOLEAN
    BY <1>1, Zenon
  <2>7. IsFiniteSet(queue) /\ IsFiniteSet(get.listed)
    BY <1>1, <2>1, <2>4
  <2> QED BY <2>2, <2>3, <2>4, <2>5, <2>6, <2>7, Zenon DEF TypeInv, WalkType
<1>4. Seen = {}
  BY <1>1, <1>2 DEF Seen
<1>5. TablesInv
  BY <1>1, <1>4 DEF TablesInv, Settled, OnePlace
<1>6. ListedInv /\ GetInv
  BY <1>1 DEF ListedInv, GetInv
<1> QED BY <1>1, <1>2, <1>3, <1>5, <1>6 DEF PagesInv

\* Every step keeps the invariant.
LEMMA PagesStep == PagesInv /\ [Next]_vars => PagesInv'
<1> SUFFICES ASSUME PagesInv, [Next]_vars PROVE PagesInv'
  OBVIOUS
<1>1. ASSUME NEW i \in queue, Complete(i) PROVE PagesInv'
  BY <1>1, StepComplete
<1>2. ASSUME NEW pruned \in (SUBSET Pending) \ {{}}, Disable(pruned) PROVE PagesInv'
  BY <1>2, StepDisable
<1>3. ASSUME NEW ids \in (SUBSET DOMAIN doneOn) \ {{}}, Reset(ids) PROVE PagesInv'
  BY <1>3, StepReset
<1>4. CASE NextDay
  BY <1>4, StepNextDay
<1>5. CASE Elsewhere
  BY <1>5, StepExtend DEF Elsewhere
<1>6. CASE ExtendQueue
  BY <1>6, StepExtend DEF ExtendQueue
<1>7. CASE ListItems
  BY <1>7, StepListItems
<1>8. CASE Refetch
  BY <1>8, StepRefetch
<1>9. CASE FetchNextPage
  BY <1>9, StepFetchNextPage
<1>10. CASE StreamPage
  BY <1>10, StepStreamPage
<1>11. ASSUME NEW id \in 1 .. nextId - 1, Lookup(id) PROVE PagesInv'
  BY <1>11, StepLookup
<1>12. CASE LookupPage
  BY <1>12, StepLookupPage
<1>13. CASE Fail
  BY <1>13, StepFail
<1>14. CASE UNCHANGED vars
  BY <1>14
  DEF vars, table, client, PagesInv, TypeInv, WalkType, TablesInv, ListedInv, GetInv, Seen
<1> QED BY <1>1, <1>2, <1>3, <1>4, <1>5, <1>6, <1>7, <1>8, <1>9, <1>10, <1>11, <1>12, <1>13,
           <1>14
        DEF Next, Learner, Serve

\* Ids stay at their positions, rows that are completed stay, and every walk
\* and what is shown are as the requests left them: the invariant.
THEOREM PagesInvariant == Spec => []PagesInv
<1>1. Init => PagesInv
  BY PagesInit
<1>2. PagesInv /\ [Next]_vars => PagesInv'
  BY PagesStep
<1> QED BY <1>1, <1>2, PTL DEF Spec

\* The stream shows each lesson once and in order, pages of different moments
\* included; one read to its end shows all that was visible all along, and a
\* lookup that comes to null was not for such a lesson (get_path and
\* resolvePathItem).
THEOREM LessonsAreShownOnce == Spec => []EachLessonOnce
<1>1. PagesInv => EachLessonOnce
  <2> SUFFICES ASSUME PagesInv PROVE EachLessonOnce
    OBVIOUS
  <2>1. /\ screen.pages \in Seq(PageType) /\ Settled(Seen, nextId)
        /\ WalkInv(screen.pages, screen.owed, queue, doneOn, today, wasReset)
    BY DEF PagesInv, TypeInv, WalkType, TablesInv
  <2>2. ASSUME NEW j \in DOMAIN screen.pages, NEW k \in DOMAIN screen.pages,
               NEW a \in screen.pages[j].items, NEW b \in screen.pages[k].items
        PROVE  /\ j < k => a.position < b.position
               /\ a.id = b.id \/ a.position = b.position => j = k /\ a = b
    <3>1. a \in Seen /\ b \in Seen
      BY DEF Seen, Entries
    <3>2. a.id = b.id => a.position = b.position
      BY <2>1, <3>1 DEF Settled
    <3> QED BY <2>1, <3>2 DEF WalkInv, Ordered
  <2>3. ASSUME screen.pages # <<>>, Last(screen.pages).next = NoMore, NEW id \in screen.owed
        PROVE  id \in ShownIds
    <3>1. Cursor(screen.pages) = NoMore
      BY <2>3 DEF Cursor, Last
    <3>2. PICK i \in queue : i.id = id
      BY <2>1 DEF WalkInv, Owing
    <3>3. PICK a \in Entries(screen.pages) : a.id = id
      BY <2>1, <3>1, <3>2 DEF WalkInv, Owing
    <3> QED BY <3>3 DEF ShownIds, Entries
  <2>4. notFound => wanted \notin walk.owed
    BY DEF PagesInv, GetInv
  <2> QED BY <2>2, <2>3, <2>4 DEF EachLessonOnce
<1> QED BY <1>1, PagesInvariant, PTL

\* Until something is reset, of two lessons the stream offers to start the
\* first is over, and one read to its end that owes the learner a lesson still
\* to do offers one (the state that get_path gives the items of a page).
THEOREM OneLessonIsOffered == Spec => []OneLessonToStart
<1>1. PagesInv => OneLessonToStart
  <2> SUFFICES ASSUME PagesInv, ~wasReset PROVE OneLessonToStart
    BY DEF OneLessonToStart
  <2> DEFINE shown == Entries(screen.pages)
             current == {i \in shown : i.state = "current"}
  <2>1. /\ OneHead(screen.pages, queue, doneOn) /\ HeadAhead(screen.pages, queue, doneOn)
        /\ Owing(screen.pages, screen.owed, queue, doneOn, today)
    BY DEF PagesInv, WalkInv
  <2>2. \A i, j \in current : i.position < j.position => i.id \notin {k.id : k \in Pending}
    BY <2>1 DEF OneHead, Pending, Done
  <2>3. ASSUME screen.pages # <<>>, Last(screen.pages).next = NoMore, current = {},
               NEW i \in Pending, i.id \in screen.owed
        PROVE  FALSE
    <3>1. Cursor(screen.pages) = NoMore
      BY <2>3 DEF Cursor, Last
    <3>2. PICK a \in shown : a.id = i.id
      BY <2>1, <2>3, <3>1 DEF Owing, Pending
    <3>3. NoHead(screen.pages)
      BY <2>3 DEF NoHead
    <3> QED BY <2>1, <3>2, <3>3 DEF HeadAhead, Pending, Done
  <2>4. UNION {screen.pages[k].items : k \in DOMAIN screen.pages} = shown
    BY DEF Entries
  <2> HIDE DEF shown
  <2> QED BY <2>2, <2>3, <2>4 DEF OneLessonToStart
<1> QED BY <1>1, PagesInvariant, PTL
=============================================================================
