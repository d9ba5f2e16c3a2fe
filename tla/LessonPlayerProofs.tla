------------------------- MODULE LessonPlayerProofs -------------------------
(***************************************************************************)
(* Theorems about the screens that play a lesson and the recording of what *)
(* was played, for any number of screens, pairs and sentences, and however *)
(* many requests are sent, answered and lost.                              *)
(***************************************************************************)
EXTENDS LessonPlayer, FiniteSetTheorems, TLAPS

-----------------------------------------------------------------------------
(* The inductive invariant.                                                *)

\* The boards of each activity, at rest or mid-way, as their reducers keep them.
MatchBoards == [selected : Cards(NumPairs) \cup {NoCard}, wrong : SUBSET Cards(NumPairs),
                matched : SUBSET (1 .. NumPairs)]
TraceBoards == [index : 0 .. NumPairs - 1, complete : BOOLEAN, finished : BOOLEAN]
SentenceBoards == [sentence : Nat, index : Nat, complete : BOOLEAN, whole : BOOLEAN,
                   finished : BOOLEAN]

Posts == {"idle", "pending"} \cup Recorded \cup NotRecorded

\* The timer that clears a wrong pair.
Timers == {"none", "set", "early"}

Practices == SUBSET ((1 .. NumPairs) \cup (Nat \X Nat))

AllScreens ==
    [route : Routes, activity : Activities,
     board : MatchBoards \cup TraceBoards \cup SentenceBoards, timer : Timers,
     post : Posts, number : Nat, practised : Practices]

\* A match: what is selected can be undone, and so can a wrong pair, unless its
\* timer was early.
MatchGoesOn(x) ==
    /\ x.board \in MatchBoards /\ x.practised = x.board.matched
    /\ x.board.wrong # {} => x.timer \in {"set", "early"}
    /\ x.board.selected.pair \notin x.board.matched

\* The characters before the one that is shown are practised, and that one
\* too once it is complete; the last one ends it.
Reached(b) == IF b.complete THEN b.index + 1 ELSE b.index

TraceGoesOn(x) ==
    /\ x.board \in TraceBoards
    /\ x.practised = 1 .. Reached(x.board)
    /\ x.board.finished => x.board.complete /\ x.board.index = NumPairs - 1

\* The same in each sentence, after the sentences before it.
UpTo(route, b) ==
    {m \in Members(route, "sentence") :
        m[1] <= b.sentence \/ (m[1] = b.sentence + 1 /\ m[2] <= Reached(b))}

SentenceGoesOn(x) ==
    LET b == x.board
        lengths == SentencesOf(x.route)
    IN  /\ b \in SentenceBoards
        /\ b.sentence < Len(lengths) /\ b.index < lengths[b.sentence + 1]
        /\ b.whole <=> b.complete /\ b.index = lengths[b.sentence + 1] - 1
        /\ x.practised = UpTo(x.route, b)
        /\ b.finished => b.whole /\ b.sentence = Len(lengths) - 1

GoesOn(x) ==
    /\ x.activity = "match" => MatchGoesOn(x)
    /\ x.activity = "trace" => TraceGoesOn(x)
    /\ x.activity = "sentence" => SentenceGoesOn(x)

\* The completion of a screen is posted once it is finished, and not before.
Settled(x) == x.post = "idle" <=> ~BoardFinished(x.activity, x.board)

ScreensInv ==
    /\ screen \in [Screens -> AllScreens \cup {NoScreen}]
    /\ \A s \in Screens : IsOpen(s) => GoesOn(screen[s]) /\ Settled(screen[s])

\* Requests are numbered as they are sent, and a screen waits for its own.
NumbersInv ==
    /\ posts \in Nat /\ IsFiniteSet(requests)
    /\ requests \subseteq [number : 1 .. posts, route : Routes]
    /\ answers \subseteq [number : 1 .. posts, outcome : Recorded \cup NotRecorded]
    /\ \A s \in Screens : IsOpen(s) =>
         IF screen[s].post = "idle" THEN screen[s].number = 0 ELSE screen[s].number \in 1 .. posts
    /\ \A s, t \in Screens : IsOpen(s) /\ IsOpen(t) /\ s # t =>
         screen[s].number = 0 \/ screen[s].number # screen[t].number
    /\ \A m \in requests, s \in Screens :
         IsOpen(s) /\ screen[s].number = m.number => screen[s].route = m.route

\* What an outcome says of the server, to a screen of the route.
Holds(route, outcome) ==
    /\ outcome \in Recorded => IF route = "lesson" THEN item = "done" ELSE packLog > 0
    /\ outcome = "missing" => item = "gone" /\ route = "lesson"

OutcomeInv ==
    /\ item \in {"pending", "done", "gone"} /\ packLog \in Nat
    /\ \A s \in Screens : IsOpen(s) => Holds(screen[s].route, screen[s].post)
    /\ \A a \in answers, s \in Screens : Waits(s, a.number) => Holds(screen[s].route, a.outcome)

\* The whole-pack completions that may be retried, by number: their screen
\* knows that the request failed, or is about to.
Failed(x) ==
    \/ x.post = "failed"
    \/ x.post = "pending" /\ [number |-> x.number, outcome |-> "failed"] \in answers

ToRetry == {n \in 1 .. posts : \E s \in Screens :
              IsOpen(s) /\ screen[s].route = "pack" /\ screen[s].number = n /\ Failed(screen[s])}

ToLog == {m \in requests : m.route = "pack"}

\* Every request is for a board that was played, and what is logged, on its
\* way or to be retried was played or has failed.
Counted == packLog + Cardinality(ToLog) + Cardinality(ToRetry) <= plays["pack"] + failures

PlaysInv ==
    /\ plays \in [Routes -> Nat] /\ failures \in Nat
    /\ \A m \in requests : plays[m.route] > 0
    /\ \A s \in Screens : IsOpen(s) /\ screen[s].post # "idle" => plays[screen[s].route] > 0
    /\ item = "done" => plays["lesson"] > 0
    /\ Counted

PlayerInv == ScreensInv /\ NumbersInv /\ OutcomeInv /\ PlaysInv

-----------------------------------------------------------------------------
(* The boards.                                                             *)

\* What the operators of a screen are made of.
LEMMA Sentences ==
    ASSUME NEW route \in Routes
    PROVE  /\ SentencesOf(route) \in Seq(Nat \ {0})
           /\ Len(SentencesOf(route)) \in Nat \ {0}
           /\ DOMAIN SentencesOf(route) = 1 .. Len(SentencesOf(route))
           /\ \A i \in 1 .. Len(SentencesOf(route)) : SentencesOf(route)[i] \in Nat \ {0}
<1>1. /\ Lengths \in Seq(Nat \ {0}) /\ Lengths # <<>>
    BY PlayerAssumption
<1>2. Len(Lengths) \in Nat \ {0} /\ Lengths[1] \in Nat \ {0}
    BY <1>1
<1>3. /\ <<Lengths[1]>> \in Seq(Nat \ {0}) /\ Len(<<Lengths[1]>>) = 1
    BY <1>2
<1>4. \A f \in Seq(Nat \ {0}) : /\ Len(f) \in Nat /\ DOMAIN f = 1 .. Len(f)
                                 /\ \A i \in 1 .. Len(f) : f[i] \in Nat \ {0}
    OBVIOUS
<1>5. SentencesOf(route) = <<Lengths[1]>> \/ SentencesOf(route) = Lengths
    BY DEF SentencesOf
<1>6. SentencesOf(route) \in Seq(Nat \ {0}) /\ Len(SentencesOf(route)) \in Nat \ {0}
  <2>1. CASE SentencesOf(route) = Lengths
    BY <1>1, <1>2, <2>1
  <2>2. CASE SentencesOf(route) = <<Lengths[1]>>
    <3>1. Len(SentencesOf(route)) = 1
      BY <1>3, <2>2
    <3>2. SentencesOf(route) \in Seq(Nat \ {0})
      BY <1>3, <2>2
    <3> QED
      BY <3>1, <3>2
  <2> QED
    BY <1>5, <2>1, <2>2
<1> QED
    BY <1>4, <1>6

\* The characters of the sentences of a route, by sentence and place.
LEMMA MembersOfSentences ==
    ASSUME NEW route \in Routes, NEW m
    PROVE  m \in Members(route, "sentence") <=>
             \E i \in 1 .. Len(SentencesOf(route)) :
               \E c \in 1 .. SentencesOf(route)[i] : m = <<i, c>>
<1> DEFINE L == SentencesOf(route)
           of(i) == {<<i, c>> : c \in 1 .. L[i]}
<1>1. Members(route, "sentence") = UNION {of(i) : i \in 1 .. Len(L)}
    BY Sentences DEF Members
<1>2. \A i : m \in of(i) <=> \E c \in 1 .. L[i] : m = <<i, c>>
    OBVIOUS
<1> HIDE DEF of
<1>3. m \in UNION {of(i) : i \in 1 .. Len(L)} <=> \E i \in 1 .. Len(L) : m \in of(i)
    OBVIOUS
<1> QED
    BY <1>1, <1>2, <1>3

\* An open screen is one of the screens.
LEMMA OpenShape ==
    ASSUME ScreensInv, NEW s \in Screens, IsOpen(s)
    PROVE  screen[s] \in AllScreens /\ GoesOn(screen[s]) /\ Settled(screen[s])
    BY DEF ScreensInv, IsOpen

\* A screen that shows something is open.
LEMMA ShownIsOpen ==
    ASSUME NEW x \in AllScreens
    PROVE  x # NoScreen
<1>1. x.route \in Routes
    BY DEF AllScreens
<1>2. NoScreen.route = "none"
    BY DEF NoScreen
<1> QED
    BY <1>1, <1>2 DEF Routes

\* There are pairs to match.
LEMMA PairsArePositive == NumPairs \in Nat /\ NumPairs > 0
    BY PlayerAssumption

\* The first screen.
LEMMA NewGoesOn ==
    ASSUME NEW route \in Routes, NEW act \in Activities
    PROVE  /\ NewScreen(route, act) \in AllScreens
           /\ GoesOn(NewScreen(route, act))
           /\ Settled(NewScreen(route, act))
<1> DEFINE x == NewScreen(route, act)
<1>0. /\ x.route = route /\ x.activity = act /\ x.board = InitialBoard(act)
      /\ x.timer = "none" /\ x.post = "idle" /\ x.number = 0 /\ x.practised = {}
    BY DEF NewScreen
<1>1. CASE act = "match"
  <2>1. x.board = [selected |-> NoCard, wrong |-> {}, matched |-> {}]
    BY <1>0, <1>1 DEF InitialBoard, InitialMatch
  <2>2. x.board \in MatchBoards
    BY <2>1 DEF MatchBoards
  <2>3. MatchGoesOn(x)
    BY <1>0, <2>1, <2>2 DEF MatchGoesOn
  <2>4. Cardinality({}) # NumPairs
    BY FS_EmptySet, PairsArePositive
  <2>5. Settled(x)
    BY <1>0, <1>1, <2>1, <2>4 DEF Settled, BoardFinished, MatchFinished
  <2>6. x \in AllScreens
    BY <2>2, <1>0, <1>1 DEF AllScreens, NewScreen, Posts, Practices, Timers
  <2> QED
    BY <2>3, <2>5, <2>6, <1>0, <1>1 DEF GoesOn
<1>2. CASE act = "trace"
  <2>1. x.board = [index |-> 0, complete |-> FALSE, finished |-> FALSE]
    BY <1>0, <1>2 DEF InitialBoard, InitialTrace
  <2>2. x.board \in TraceBoards
    BY <2>1, PairsArePositive DEF TraceBoards
  <2>3. TraceGoesOn(x)
    BY <1>0, <2>1, <2>2 DEF TraceGoesOn, Reached
  <2>5. Settled(x)
    BY <1>0, <1>2, <2>1 DEF Settled, BoardFinished
  <2>6. x \in AllScreens
    BY <2>2, <1>0, <1>2 DEF AllScreens, NewScreen, Posts, Practices, Timers
  <2> QED
    BY <2>3, <2>5, <2>6, <1>0, <1>2 DEF GoesOn
<1>3. CASE act = "sentence"
  <2>1. x.board = [sentence |-> 0, index |-> 0, complete |-> FALSE, whole |-> FALSE,
                   finished |-> FALSE]
    BY <1>0, <1>3 DEF InitialBoard, InitialSentence
  <2>2. x.board \in SentenceBoards
    BY <2>1 DEF SentenceBoards
  <2>3. UpTo(route, x.board) = {}
    BY <2>1, MembersOfSentences, Sentences DEF UpTo, Reached
  <2>4. SentenceGoesOn(x)
    BY <1>0, <2>1, <2>2, <2>3, Sentences DEF SentenceGoesOn, Reached
  <2>5. Settled(x)
    BY <1>0, <1>3, <2>1 DEF Settled, BoardFinished
  <2>6. x \in AllScreens
    BY <2>2, <1>0, <1>3 DEF AllScreens, NewScreen, Posts, Practices, Timers
  <2> QED
    BY <2>4, <2>5, <2>6, <1>0, <1>3 DEF GoesOn
<1> QED
    BY <1>1, <1>2, <1>3 DEF Activities

\* What a step of the learner or of the timer shows: the screen as it was, with
\* a board that goes on.
Shows(x, y) ==
    /\ y \in AllScreens /\ GoesOn(y)
    /\ y.route = x.route /\ y.activity = x.activity
    /\ y.post = x.post /\ y.number = x.number

\* A screen with another board, as the EXCEPTs of the actions make it.
LEMMA WithBoard ==
    ASSUME NEW x \in AllScreens, NEW b, NEW t, NEW p
    PROVE  LET y == [x EXCEPT !.board = b, !.timer = t, !.practised = p]
           IN  /\ y.board = b /\ y.timer = t /\ y.practised = p
               /\ y.route = x.route /\ y.activity = x.activity
               /\ y.post = x.post /\ y.number = x.number
    BY DEF AllScreens

\* A new board, timer and practice leave a screen a screen.
LEMMA WithBoardShape ==
    ASSUME NEW x \in AllScreens, NEW b \in MatchBoards \cup TraceBoards \cup SentenceBoards,
           NEW t \in Timers, NEW p \in Practices
    PROVE  [x EXCEPT !.board = b, !.timer = t, !.practised = p] \in AllScreens
<1> DEFINE B == MatchBoards \cup TraceBoards \cup SentenceBoards
           Q == Practices
<1>1. AllScreens = [route : Routes, activity : Activities, board : B, timer : Timers,
                    post : Posts, number : Nat, practised : Q]
    BY DEF AllScreens
<1>2. b \in B /\ p \in Q
    OBVIOUS
<1> HIDE DEF B, Q
<1> QED
    BY <1>1, <1>2

\* A card has a side and a pair, and no card has neither.
LEMMA CardsAre ==
    /\ \A card \in Cards(NumPairs) : card.side \in {"hanzi", "meaning"} /\ card.pair \in 1 .. NumPairs
    /\ NoCard.side = "none" /\ NoCard.pair = 0
    BY DEF Cards, Card, NoCard

\* A tap that changes a board leaves it one that selects nothing matched.
LEMMA TapGoesOn ==
    ASSUME NEW b \in MatchBoards, b.selected.pair \notin b.matched,
           NEW card \in Cards(NumPairs), NEW c, c = TapCard(b, card), c # b
    PROVE  c \in MatchBoards /\ c.selected.pair \notin c.matched
<1>0. b = [selected |-> b.selected, wrong |-> b.wrong, matched |-> b.matched]
      /\ b.selected \in Cards(NumPairs) \cup {NoCard} /\ b.wrong \in SUBSET Cards(NumPairs)
      /\ b.matched \in SUBSET (1 .. NumPairs)
    BY DEF MatchBoards
<1>1. card.pair \notin b.matched /\ card.side \in {"hanzi", "meaning"} /\ card.pair \in 1 .. NumPairs
    BY CardsAre DEF TapCard
<1>2. 0 \notin 1 .. NumPairs
    BY PairsArePositive
<1>3. CASE c = Select(b, card)
  <2>1. /\ c.wrong = b.wrong /\ c.matched = b.matched
        /\ c.selected = NoCard \/ c.selected = card
        /\ c = [selected |-> c.selected, wrong |-> c.wrong, matched |-> c.matched]
    BY <1>0, <1>3 DEF Select
  <2> QED
    BY <1>0, <1>1, <1>2, <2>1, CardsAre DEF MatchBoards
<1>4. CASE c = Close(b, card) /\ b.selected.side \notin {"none", card.side}
  <2>1. b.selected \in Cards(NumPairs)
    BY <1>0, <1>4, CardsAre
  <2>2. CASE b.selected.pair = card.pair
    <3>1. c = [selected |-> NoCard, wrong |-> b.wrong, matched |-> b.matched \cup {card.pair}]
      BY <1>0, <1>4, <2>2 DEF Close
    <3> QED
      BY <1>0, <1>1, <1>2, <3>1, CardsAre DEF MatchBoards
  <2>3. CASE b.selected.pair # card.pair
    <3>1. c = [selected |-> b.selected, wrong |-> {b.selected, card}, matched |-> b.matched]
      BY <1>0, <1>4, <2>3 DEF Close
    <3> QED
      BY <1>0, <2>1, <3>1 DEF MatchBoards
  <2> QED
    BY <2>2, <2>3
<1> QED
    BY <1>3, <1>4 DEF TapCard

\* What a tap makes of a match.
LEMMA TapShows ==
    ASSUME NEW x \in AllScreens, GoesOn(x), x.activity = "match",
           NEW card \in Cards(NumPairs), NEW board, board = TapCard(x.board, card), board # x.board
    PROVE  Shows(x, [x EXCEPT !.board = board,
                              !.timer = IF board.wrong # {} THEN "set" ELSE "none",
                              !.practised = board.matched])
<1> DEFINE t == IF board.wrong # {} THEN "set" ELSE "none"
           y == [x EXCEPT !.board = board, !.timer = t, !.practised = board.matched]
<1>1. x.board \in MatchBoards /\ x.board.selected.pair \notin x.board.matched
    BY DEF GoesOn, MatchGoesOn
<1>2. board \in MatchBoards /\ board.selected.pair \notin board.matched
    BY <1>1, TapGoesOn
<1>3. /\ y.board = board /\ y.timer = t /\ y.practised = board.matched
      /\ y.route = x.route /\ y.activity = x.activity
      /\ y.post = x.post /\ y.number = x.number
    BY WithBoard
<1>4. MatchGoesOn(y)
    BY <1>2, <1>3 DEF MatchGoesOn
<1>5. board.matched \in Practices
    BY <1>2 DEF MatchBoards, Practices
<1>6. t \in Timers
    BY DEF Timers
<1>7. y \in AllScreens
    BY <1>2, <1>5, <1>6, WithBoardShape
<1> QED
    BY <1>3, <1>4, <1>7 DEF Shows, GoesOn

\* What the timer makes of a match.
LEMMA ResetShows ==
    ASSUME NEW x \in AllScreens, GoesOn(x), x.activity = "match", NEW late \in Lateness
    PROVE  Shows(x, [x EXCEPT !.board = ResetWrong(@, late),
                              !.timer = IF late < 0 THEN "early" ELSE "none"])
<1> DEFINE b == ResetWrong(x.board, late)
           t == IF late < 0 THEN "early" ELSE "none"
           y == [x EXCEPT !.board = b, !.timer = t]
<1>1. x.board \in MatchBoards /\ x.practised = x.board.matched
    BY DEF GoesOn, MatchGoesOn
<1>2. x.board = [selected |-> x.board.selected, wrong |-> x.board.wrong,
                 matched |-> x.board.matched]
      /\ x.board.matched \in SUBSET (1 .. NumPairs)
    BY <1>1 DEF MatchBoards
<1>3. /\ b \in MatchBoards /\ b.selected.pair \notin b.matched
      /\ b.matched = x.board.matched
      /\ b.wrong # {} => t \in {"set", "early"}
  <2>1. CASE late < 0
    <3>1. b = x.board /\ t = "early"
      BY <2>1 DEF ResetWrong
    <3> QED
      BY <1>1, <3>1 DEF GoesOn, MatchGoesOn
  <2>2. CASE ~(late < 0)
    <3>1. b = [x.board EXCEPT !.selected = NoCard, !.wrong = {}]
      BY <2>2 DEF ResetWrong
    <3>2. b = [selected |-> NoCard, wrong |-> {}, matched |-> x.board.matched]
      BY <1>2, <3>1, Zenon
    <3> QED
      BY <1>2, <3>2, CardsAre, PairsArePositive DEF MatchBoards
  <2> QED
    BY <2>1, <2>2
<1>4. t \in Timers
    BY DEF Timers
<1> HIDE DEF b, t
<1>6. /\ y.board = b /\ y.timer = t /\ y.practised = x.practised
      /\ y.route = x.route /\ y.activity = x.activity
      /\ y.post = x.post /\ y.number = x.number
    BY DEF AllScreens
<1>7. MatchGoesOn(y)
    BY <1>1, <1>3, <1>6 DEF MatchGoesOn
<1>8. y \in AllScreens
  <2>1. x.practised \in Practices
    BY DEF AllScreens
  <2>2. [x EXCEPT !.board = b, !.timer = t, !.practised = x.practised] \in AllScreens
    BY <1>3, <1>4, <2>1, WithBoardShape
  <2> QED
    BY <2>2 DEF AllScreens
<1>9. Shows(x, y)
    BY <1>6, <1>7, <1>8 DEF Shows, GoesOn
<1> QED
    BY <1>9 DEF b, t

Becomes(x, y, b, p) ==
    /\ y \in AllScreens /\ y.board = b /\ y.practised = p
    /\ y.route = x.route /\ y.activity = x.activity
    /\ y.post = x.post /\ y.number = x.number

\* A screen that is given a board and its practice has just these.
LEMMA WithProgress ==
    ASSUME NEW x \in AllScreens, NEW b \in TraceBoards \cup SentenceBoards,
           NEW p \in Practices
    PROVE  Becomes(x, [x EXCEPT !.board = b, !.practised = p], b, p)
<1> DEFINE B == MatchBoards \cup TraceBoards \cup SentenceBoards
           Q == Practices
<1>1. AllScreens = [route : Routes, activity : Activities, board : B, timer : Timers,
                    post : Posts, number : Nat, practised : Q]
    BY DEF AllScreens
<1>2. b \in B /\ p \in Q
    OBVIOUS
<1> HIDE DEF B, Q
<1> QED
    BY <1>1, <1>2 DEF Becomes

\* A screen that is given a board has just that.
LEMMA WithNext ==
    ASSUME NEW x \in AllScreens, NEW b \in TraceBoards \cup SentenceBoards
    PROVE  Becomes(x, [x EXCEPT !.board = b], b, x.practised)
<1> DEFINE B == MatchBoards \cup TraceBoards \cup SentenceBoards
           Q == Practices
<1>1. AllScreens = [route : Routes, activity : Activities, board : B, timer : Timers,
                    post : Posts, number : Nat, practised : Q]
    BY DEF AllScreens
<1>2. b \in B
    OBVIOUS
<1> HIDE DEF B, Q
<1> QED
    BY <1>1, <1>2 DEF Becomes

\* A character is traced: one more of the characters is practised.
LEMMA TracedShows ==
    ASSUME NEW x \in AllScreens, GoesOn(x), x.activity = "trace", ~x.board.complete
    PROVE  Shows(x, [x EXCEPT !.board = CompleteCharacter(@),
                              !.practised = @ \cup {x.board.index + 1}])
<1> DEFINE b == x.board
           c == CompleteCharacter(b)
           p == x.practised \cup {b.index + 1}
           y == [x EXCEPT !.board = c, !.practised = p]
<1>1. /\ b \in TraceBoards /\ x.practised = 1 .. b.index
      /\ ~b.finished
    BY DEF GoesOn, TraceGoesOn, Reached
<1>2. b.index \in 0 .. NumPairs - 1
    BY <1>1 DEF TraceBoards
<1>3. c \in TraceBoards /\ c.index = b.index /\ c.complete = TRUE /\ c.finished = b.finished
    BY <1>1 DEF TraceBoards, CompleteCharacter
<1>4. p = 1 .. c.index + 1
    BY <1>1, <1>2, <1>3
<1>5. p \in Practices
  <2>1. p \in SUBSET (1 .. NumPairs)
    BY <1>2, <1>3, <1>4, PairsArePositive
  <2> QED
    BY <2>1 DEF Practices
<1> HIDE DEF b, c, p
<1>6. /\ y \in AllScreens /\ y.board = c /\ y.practised = p
      /\ y.route = x.route /\ y.activity = x.activity
      /\ y.post = x.post /\ y.number = x.number
  <2>1. c \in TraceBoards \cup SentenceBoards
    BY <1>3
  <2>2. Becomes(x, y, c, p)
    BY <1>5, <2>1, WithProgress
  <2> QED
    BY <2>2 DEF Becomes
<1>7. ~c.finished
    BY <1>1, <1>3
<1>8. TraceGoesOn(y)
    BY <1>3, <1>4, <1>6, <1>7 DEF TraceGoesOn, Reached
<1>9. Shows(x, y)
    BY <1>6, <1>8 DEF Shows, GoesOn
<1> QED
    BY <1>9 DEF b, c, p

\* The character that follows, or the end.
LEMMA NextTraceShows ==
    ASSUME NEW x \in AllScreens, GoesOn(x), x.activity = "trace", x.board.complete
    PROVE  Shows(x, [x EXCEPT !.board = NextTrace(x.board, NumPairs)])
<1> DEFINE b == x.board
           c == NextTrace(b, NumPairs)
           y == [x EXCEPT !.board = c]
<1>1. b \in TraceBoards /\ x.practised = 1 .. b.index + 1 /\ b.complete
    BY DEF GoesOn, TraceGoesOn, Reached
<1>2. b.index \in 0 .. NumPairs - 1
    BY <1>1 DEF TraceBoards
<1>3. /\ c \in TraceBoards
      /\ x.practised = 1 .. Reached(c)
      /\ c.finished => c.complete /\ c.index = NumPairs - 1
  <2>1. CASE b.index >= NumPairs - 1
    <3>1. c = [b EXCEPT !.finished = TRUE]
      BY <1>1, <2>1 DEF NextTrace
    <3>2. c \in TraceBoards /\ c.index = b.index /\ c.complete = b.complete
      BY <1>1, <3>1 DEF TraceBoards
    <3> QED
      BY <1>1, <1>2, <2>1, <3>2, PairsArePositive DEF Reached
  <2>2. CASE ~(b.index >= NumPairs - 1)
    <3>1. c = [b EXCEPT !.index = b.index + 1, !.complete = FALSE]
      BY <1>1, <2>2 DEF NextTrace
    <3>2. b.index + 1 \in 0 .. NumPairs - 1
      BY <1>2, <2>2, PairsArePositive
    <3>3. c \in TraceBoards /\ c.index = b.index + 1 /\ c.complete = FALSE /\ c.finished = b.finished
      BY <1>1, <3>1, <3>2 DEF TraceBoards
    <3>4. ~b.finished
      BY <1>2, <2>2, PairsArePositive DEF GoesOn, TraceGoesOn
    <3> QED
      BY <1>1, <3>3, <3>4 DEF Reached
  <2> QED
    BY <2>1, <2>2
<1> HIDE DEF b, c
<1>4. /\ y \in AllScreens /\ y.board = c /\ y.practised = x.practised
      /\ y.route = x.route /\ y.activity = x.activity
      /\ y.post = x.post /\ y.number = x.number
  <2>1. c \in TraceBoards \cup SentenceBoards
    BY <1>3
  <2>2. Becomes(x, y, c, x.practised)
    BY <2>1, WithNext
  <2> QED
    BY <2>2 DEF Becomes
<1>5. TraceGoesOn(y)
    BY <1>3, <1>4 DEF TraceGoesOn
<1>6. Shows(x, y)
    BY <1>4, <1>5 DEF Shows, GoesOn
<1> QED
    BY <1>6 DEF b, c

\* A character of a sentence is a pair of numbers.
LEMMA MembersArePairs ==
    ASSUME NEW route \in Routes, NEW m \in Members(route, "sentence")
    PROVE  /\ m = <<m[1], m[2]>> /\ m[1] \in 1 .. Len(SentencesOf(route))
           /\ m[2] \in 1 .. SentencesOf(route)[m[1]]
           /\ m \in Nat \X Nat
<1>0. PICK i \in 1 .. Len(SentencesOf(route)) :
           \E c \in 1 .. SentencesOf(route)[i] : m = <<i, c>>
    BY MembersOfSentences
<1>1. PICK c \in 1 .. SentencesOf(route)[i] : m = <<i, c>>
    BY <1>0
<1>2. m[1] = i /\ m[2] = c
    BY <1>1
<1>3. i \in Nat /\ c \in Nat
    OBVIOUS
<1> QED
    BY <1>1, <1>2, <1>3

\* What is practised up to a character of the sentences are such pairs.
LEMMA UpToArePairs ==
    ASSUME NEW route \in Routes, NEW b
    PROVE  UpTo(route, b) \in Practices
    BY MembersArePairs DEF UpTo, Practices

\* A character of a sentence is traced.
LEMMA TracedInSentenceShows ==
    ASSUME NEW x \in AllScreens, GoesOn(x), x.activity = "sentence", ~x.board.complete
    PROVE  Shows(x, [x EXCEPT
                !.board = CompleteInSentence(@, SentencesOf(x.route)),
                !.practised = @ \cup {<<x.board.sentence + 1, x.board.index + 1>>}])
<1> DEFINE b == x.board
           L == SentencesOf(x.route)
           c == CompleteInSentence(b, L)
           p == x.practised \cup {<<b.sentence + 1, b.index + 1>>}
           y == [x EXCEPT !.board = c, !.practised = p]
<1>0. x.route \in Routes
    BY DEF AllScreens
<1>1. /\ b \in SentenceBoards /\ b.sentence < Len(L) /\ b.index < L[b.sentence + 1]
      /\ ~b.finished /\ x.practised = UpTo(x.route, b)
    BY DEF GoesOn, SentenceGoesOn
<1>2. /\ b.sentence \in Nat /\ b.index \in Nat /\ Len(L) \in Nat
      /\ b.sentence + 1 \in 1 .. Len(L) /\ L[b.sentence + 1] \in Nat
  <2>1. b.sentence \in Nat /\ b.index \in Nat
    BY <1>1 DEF SentenceBoards
  <2>2. Len(L) \in Nat
    BY <1>0, Sentences
  <2>3. b.sentence + 1 \in 1 .. Len(L)
    BY <1>1, <2>1, <2>2
  <2> QED
    BY <1>0, <2>1, <2>2, <2>3, Sentences
<1>3. /\ c \in SentenceBoards /\ c.sentence = b.sentence /\ c.index = b.index
      /\ c.complete = TRUE /\ c.finished = b.finished
      /\ c.whole <=> b.index >= L[b.sentence + 1] - 1
  <2> DEFINE w == b.index >= L[b.sentence + 1] - 1
  <2>1. c = [b EXCEPT !.complete = TRUE, !.whole = w]
    BY DEF CompleteInSentence
  <2>2. w \in BOOLEAN
    OBVIOUS
  <2>3. c \in SentenceBoards
    <3> HIDE DEF w
    <3> QED
      BY <1>1, <2>1, <2>2 DEF SentenceBoards
  <2>4. /\ c.sentence = b.sentence /\ c.index = b.index
        /\ c.complete = TRUE /\ c.finished = b.finished /\ c.whole = w
    <3> HIDE DEF w
    <3> QED
      BY <1>1, <2>1, <2>2 DEF SentenceBoards
  <2> QED
    BY <2>3, <2>4
<1>4. p = UpTo(x.route, c)
  <2>1. <<b.sentence + 1, b.index + 1>> \in Members(x.route, "sentence")
    BY <1>0, <1>1, <1>2, MembersOfSentences, SMTT(30)
  <2>2. ASSUME NEW m \in Members(x.route, "sentence")
        PROVE  m \in p <=> m \in UpTo(x.route, c)
    <3>1. /\ m = <<m[1], m[2]>> /\ m[1] \in Int /\ m[2] \in Int
      BY <1>0, MembersArePairs
    <3>2. m = <<b.sentence + 1, b.index + 1>> <=> m[1] = b.sentence + 1 /\ m[2] = b.index + 1
      BY <3>1
    <3>3. m \in UpTo(x.route, b) <=>
            m[1] <= b.sentence \/ (m[1] = b.sentence + 1 /\ m[2] <= b.index)
      BY DEF UpTo, Reached
    <3>4. m \in UpTo(x.route, c) <=>
            m[1] <= b.sentence \/ (m[1] = b.sentence + 1 /\ m[2] <= b.index + 1)
      BY <1>3 DEF UpTo, Reached
    <3>5. m \in p <=> m \in UpTo(x.route, b) \/ m = <<b.sentence + 1, b.index + 1>>
      BY <1>1
    <3> QED
      BY <1>2, <3>1, <3>2, <3>3, <3>4, <3>5
  <2>3. p \subseteq Members(x.route, "sentence")
    BY <1>1, <2>1 DEF UpTo
  <2>4. UpTo(x.route, c) \subseteq Members(x.route, "sentence")
    BY DEF UpTo
  <2> QED
    BY <2>2, <2>3, <2>4
<1> HIDE DEF b, c, p, L
<1>5. p \in Practices
    BY <1>0, <1>4, UpToArePairs
<1>6. /\ y \in AllScreens /\ y.board = c /\ y.practised = p
      /\ y.route = x.route /\ y.activity = x.activity
      /\ y.post = x.post /\ y.number = x.number
  <2>1. c \in TraceBoards \cup SentenceBoards
    BY <1>3
  <2>2. Becomes(x, y, c, p)
    BY <1>5, <2>1, WithProgress
  <2> QED
    BY <2>2 DEF Becomes
<1>7. ~c.finished /\ c.sentence < Len(L) /\ c.index < L[c.sentence + 1]
    BY <1>1, <1>3
<1>8. c.whole <=> c.complete /\ c.index = L[c.sentence + 1] - 1
    BY <1>1, <1>2, <1>3
<1>9. SentenceGoesOn(y)
    BY <1>3, <1>4, <1>6, <1>7, <1>8 DEF SentenceGoesOn, L
<1>10. Shows(x, y)
    BY <1>6, <1>9 DEF Shows, GoesOn
<1> QED
    BY <1>10 DEF b, c, p, L

\* The character that follows, in this sentence or in the next one, or the end.
LEMMA NextInSentenceShows ==
    ASSUME NEW x \in AllScreens, GoesOn(x), x.activity = "sentence", x.board.complete,
           ~x.board.finished
    PROVE  Shows(x, [x EXCEPT !.board = NextInSentence(x.board, SentencesOf(x.route))])
<1> DEFINE b == x.board
           L == SentencesOf(x.route)
           c == NextInSentence(b, L)
           y == [x EXCEPT !.board = c]
<1>0. x.route \in Routes
    BY DEF AllScreens
<1>1. /\ b \in SentenceBoards /\ b.sentence < Len(L) /\ b.index < L[b.sentence + 1]
      /\ b.complete /\ ~b.finished /\ x.practised = UpTo(x.route, b)
      /\ b.whole <=> b.index = L[b.sentence + 1] - 1
    BY DEF GoesOn, SentenceGoesOn
<1>2. /\ b.sentence \in Nat /\ b.index \in Nat /\ Len(L) \in Nat
      /\ b.sentence + 1 \in 1 .. Len(L) /\ L[b.sentence + 1] \in Nat
  <2>1. b.sentence \in Nat /\ b.index \in Nat
    BY <1>1 DEF SentenceBoards
  <2>2. Len(L) \in Nat
    BY <1>0, Sentences
  <2>3. b.sentence + 1 \in 1 .. Len(L)
    BY <1>1, <2>1, <2>2
  <2> QED
    BY <1>0, <2>1, <2>2, <2>3, Sentences
<1> DEFINE Fits == /\ c \in SentenceBoards /\ c.sentence < Len(L) /\ c.index < L[c.sentence + 1]
                   /\ c.whole <=> c.complete /\ c.index = L[c.sentence + 1] - 1
                   /\ c.finished => c.whole /\ c.sentence = Len(L) - 1
                   /\ x.practised = UpTo(x.route, c)
<1>3. Fits
  <2>1. CASE ~b.whole
    <3>1. c = [b EXCEPT !.index = b.index + 1, !.complete = FALSE, !.whole = FALSE]
      BY <1>1, <1>2, <2>1 DEF NextInSentence, NextCharacter
    <3>2. /\ c \in SentenceBoards /\ c.sentence = b.sentence /\ c.index = b.index + 1
          /\ c.complete = FALSE /\ c.whole = FALSE /\ c.finished = b.finished
      <4>1. b.sentence + 1 \in Nat /\ b.index + 1 \in Nat /\ 0 \in Nat
        BY <1>2
      <4>2. c \in SentenceBoards
        BY <1>1, <3>1, <4>1 DEF SentenceBoards
      <4> QED
        BY <1>1, <3>1, <4>2 DEF SentenceBoards
    <3>3. Reached(c) = Reached(b)
      BY <1>1, <3>2 DEF Reached
    <3>4. x.practised = UpTo(x.route, c)
      BY <1>1, <3>2, <3>3 DEF UpTo
    <3>5. /\ c.sentence < Len(L) /\ c.index < L[c.sentence + 1]
          /\ ~c.whole /\ ~c.complete /\ ~c.finished
      <4> HIDE DEF c, b, L
      <4> QED BY <1>1, <1>2, <2>1, <3>2
    <3> QED BY <3>2, <3>4, <3>5
  <2>2. CASE b.whole /\ b.sentence >= Len(L) - 1
    <3>1. c = [b EXCEPT !.finished = TRUE]
      BY <1>1, <2>2 DEF NextInSentence
    <3>2. /\ c \in SentenceBoards /\ c.sentence = b.sentence /\ c.index = b.index
          /\ c.complete = b.complete /\ c.whole = b.whole
      BY <1>1, <3>1 DEF SentenceBoards
    <3>3. Reached(c) = Reached(b)
      BY <3>2 DEF Reached
    <3>4. x.practised = UpTo(x.route, c)
      BY <1>1, <3>2, <3>3 DEF UpTo
    <3> QED
      BY <1>1, <1>2, <2>2, <3>2, <3>4
  <2>3. CASE b.whole /\ ~(b.sentence >= Len(L) - 1)
    <3>1. c = [b EXCEPT !.sentence = b.sentence + 1, !.index = 0, !.complete = FALSE,
                        !.whole = FALSE]
      BY <1>1, <2>3 DEF NextInSentence, NextSentence
    <3>2. /\ c \in SentenceBoards /\ c.sentence = b.sentence + 1 /\ c.index = 0
          /\ c.complete = FALSE /\ c.whole = FALSE /\ c.finished = b.finished
      <4>1. b.sentence + 1 \in Nat /\ b.index + 1 \in Nat /\ 0 \in Nat
        BY <1>2
      <4>2. c \in SentenceBoards
        BY <1>1, <3>1, <4>1 DEF SentenceBoards
      <4> QED
        BY <1>1, <3>1, <4>2 DEF SentenceBoards
    <3>3. ASSUME NEW m \in Members(x.route, "sentence")
          PROVE  m \in UpTo(x.route, b) <=> m \in UpTo(x.route, c)
      <4>1. m[1] \in Int /\ m[2] \in 1 .. L[m[1]]
        BY <1>0, MembersArePairs
      <4>2. m \in UpTo(x.route, b) <=>
              m[1] <= b.sentence \/ (m[1] = b.sentence + 1 /\ m[2] <= b.index + 1)
        BY <1>1 DEF UpTo, Reached
      <4>3. m \in UpTo(x.route, c) <=>
              m[1] <= b.sentence + 1 \/ (m[1] = b.sentence + 2 /\ m[2] <= 0)
        BY <1>2, <3>2 DEF UpTo, Reached
      <4>4. m[2] \in Int /\ m[2] >= 1
        BY <1>0, <4>1, MembersArePairs
      <4>5. m[1] = b.sentence + 1 => m[2] <= b.index + 1
        BY <1>1, <1>2, <2>3, <4>1, SMTT(30)
      <4> QED
        BY <1>2, <4>1, <4>2, <4>3, <4>4, <4>5
    <3>4. x.practised = UpTo(x.route, c)
      BY <1>1, <3>3 DEF UpTo
    <3>5. c.sentence < Len(L) /\ 0 < L[c.sentence + 1]
      <4>1. c.sentence < Len(L) /\ c.sentence + 1 \in 1 .. Len(L)
        BY <1>2, <2>3, <3>2
      <4> QED
        BY <1>0, <4>1, Sentences
    <3> QED
      BY <1>1, <3>2, <3>4, <3>5
  <2> QED
    BY <2>1, <2>2, <2>3
<1> HIDE DEF b, c, L
<1>4. /\ y \in AllScreens /\ y.board = c /\ y.practised = x.practised
      /\ y.route = x.route /\ y.activity = x.activity
      /\ y.post = x.post /\ y.number = x.number
  <2>1. c \in TraceBoards \cup SentenceBoards
    BY <1>3
  <2>2. Becomes(x, y, c, x.practised)
    BY <2>1, WithNext
  <2> QED
    BY <2>2 DEF Becomes
<1>5. SentenceGoesOn(y)
    BY <1>3, <1>4 DEF SentenceGoesOn, L
<1>6. Shows(x, y)
    BY <1>4, <1>5 DEF Shows, GoesOn
<1> QED
    BY <1>6 DEF b, c, L

-----------------------------------------------------------------------------
(* Sending.                                                                *)

\* A screen that waits is the screen that was shown.
LEMMA WaitingScreen ==
    ASSUME NEW x \in AllScreens, GoesOn(x), BoardFinished(x.activity, x.board), NEW n \in Nat
    PROVE  LET y == [x EXCEPT !.post = "pending", !.number = n]
           IN  /\ y \in AllScreens /\ GoesOn(y) /\ Settled(y)
               /\ y.route = x.route /\ y.post = "pending" /\ y.number = n
<1> DEFINE y == [x EXCEPT !.post = "pending", !.number = n]
           B == MatchBoards \cup TraceBoards \cup SentenceBoards
<1>1. AllScreens = [route : Routes, activity : Activities, board : B, timer : Timers,
                    post : Posts, number : Nat, practised : Practices]
    BY DEF AllScreens
<1>2. "pending" \in Posts
    BY DEF Posts
<1> HIDE DEF B
<1>3. y \in AllScreens
    BY <1>1, <1>2
<1>4. /\ y.route = x.route /\ y.activity = x.activity /\ y.board = x.board
      /\ y.post = "pending" /\ y.number = n
    BY <1>1
<1>5. y.timer = x.timer /\ y.practised = x.practised
    BY <1>1
<1> HIDE DEF y
<1>6. GoesOn(y)
    BY <1>4, <1>5, Zenon DEF GoesOn, MatchGoesOn, TraceGoesOn, SentenceGoesOn
<1>7. Settled(y)
    BY <1>4 DEF Settled
<1>8. /\ y \in AllScreens /\ GoesOn(y) /\ Settled(y)
      /\ y.route = x.route /\ y.post = "pending" /\ y.number = n
    BY <1>3, <1>4, <1>6, <1>7
<1> QED
    BY <1>8 DEF y

\* What a POST makes of the screens and of the requests.
Sent(s, route) ==
    /\ posts' = posts + 1
    /\ requests' = requests \cup {[number |-> posts + 1, route |-> route]}
    /\ IsOpen(s)' /\ screen'[s].route = route /\ screen'[s].post = "pending"
    /\ screen'[s].number = posts + 1
    /\ \A t \in Screens \ {s} : screen'[t] = screen[t]
    /\ UNCHANGED <<item, packLog, answers, failures>>

\* A finished board sends one completion.
LEMMA PostSends ==
    ASSUME PlayerInv, NEW s \in Screens, NEW x \in AllScreens, GoesOn(x),
           BoardFinished(x.activity, x.board), Post(s, x)
    PROVE  ScreensInv' /\ Sent(s, x.route)
<1> DEFINE y == [x EXCEPT !.post = "pending", !.number = posts + 1]
<1>1. posts + 1 \in Nat
    BY DEF PlayerInv, NumbersInv
<1>2. /\ y \in AllScreens /\ GoesOn(y) /\ Settled(y)
      /\ y.route = x.route /\ y.post = "pending" /\ y.number = posts + 1
    BY <1>1, WaitingScreen
<1>3. screen' = [screen EXCEPT ![s] = y]
    BY DEF Post
<1> HIDE DEF y
<1>4. screen'[s] = y /\ \A t \in Screens \ {s} : screen'[t] = screen[t]
    BY <1>3 DEF PlayerInv, ScreensInv
<1>5. screen' \in [Screens -> AllScreens \cup {NoScreen}]
    BY <1>2, <1>3 DEF PlayerInv, ScreensInv
<1>6. ScreensInv'
    BY <1>2, <1>4, <1>5 DEF PlayerInv, ScreensInv, IsOpen
<1>7. y # NoScreen
    BY <1>2, ShownIsOpen
<1>8. Sent(s, x.route)
    BY <1>2, <1>4, <1>7 DEF Post, Sent, IsOpen, server
<1> QED
    BY <1>6, <1>8

\* A new request has a number of its own.
LEMMA SentNumbers ==
    ASSUME PlayerInv, NEW s \in Screens, NEW route \in Routes, Sent(s, route)
    PROVE  NumbersInv'
<1>1. posts \in Nat /\ posts' = posts + 1 /\ 1 .. posts \subseteq 1 .. posts'
    BY DEF PlayerInv, NumbersInv, Sent
<1>2. IsFiniteSet(requests')
    BY FS_AddElement, ZenonT(30) DEF PlayerInv, NumbersInv, Sent
<1>3. requests' \subseteq [number : 1 .. posts', route : Routes]
  <2>1. posts + 1 \in 1 .. posts'
    BY <1>1
  <2> QED
    BY <1>1, <2>1 DEF PlayerInv, NumbersInv, Sent
<1>4. answers' \subseteq [number : 1 .. posts', outcome : Recorded \cup NotRecorded]
    BY <1>1 DEF PlayerInv, NumbersInv, Sent
<1>5. \A t \in Screens : IsOpen(t)' =>
        IF screen'[t].post = "idle" THEN screen'[t].number = 0 ELSE screen'[t].number \in 1 .. posts'
  <2>1. ASSUME NEW t \in Screens, IsOpen(t)', t # s
        PROVE  IF screen'[t].post = "idle" THEN screen'[t].number = 0
               ELSE screen'[t].number \in 1 .. posts'
    BY <1>1, <2>1 DEF PlayerInv, NumbersInv, Sent, IsOpen
  <2>2. screen'[s].post # "idle" /\ screen'[s].number \in 1 .. posts'
    BY <1>1 DEF Sent
  <2> QED
    BY <2>1, <2>2
<1>6. \A t \in Screens \ {s} : IsOpen(t)' => screen'[t].number # posts + 1 /\ screen'[t] = screen[t]
    BY <1>1 DEF PlayerInv, NumbersInv, Sent, IsOpen
<1>7. \A t, u \in Screens : IsOpen(t)' /\ IsOpen(u)' /\ t # u =>
        screen'[t].number = 0 \/ screen'[t].number # screen'[u].number
  <2>1. screen'[s].number = posts + 1
    BY DEF Sent
  <2>2. \A t, u \in Screens \ {s} : IsOpen(t)' /\ IsOpen(u)' /\ t # u =>
          screen'[t].number = 0 \/ screen'[t].number # screen'[u].number
    BY <1>6 DEF PlayerInv, NumbersInv, IsOpen
  <2> QED
    BY <1>6, <2>1, <2>2
<1>8. \A m \in requests', t \in Screens :
        IsOpen(t)' /\ screen'[t].number = m.number => screen'[t].route = m.route
  <2> SUFFICES ASSUME NEW m \in requests', NEW t \in Screens, IsOpen(t)', screen'[t].number = m.number
               PROVE  screen'[t].route = m.route
    OBVIOUS
  <2>1. CASE m \in requests /\ t # s
    BY <2>1 DEF PlayerInv, NumbersInv, Sent, IsOpen
  <2>2. CASE m \in requests /\ t = s
    <3>1. m.number \in 1 .. posts /\ screen'[s].number = posts + 1
      BY <2>2 DEF PlayerInv, NumbersInv, Sent
    <3> QED
      BY <1>1, <2>2, <3>1
  <2>3. CASE m = [number |-> posts + 1, route |-> route]
    <3>1. m.number = posts + 1 /\ m.route = route
      BY <2>3
    <3>2. t = s
      BY <1>6, <3>1
    <3> QED
      BY <3>1, <3>2 DEF Sent
  <2> QED
    BY <2>1, <2>2, <2>3 DEF Sent
<1> QED
    BY <1>1, <1>2, <1>3, <1>4, <1>5, <1>7, <1>8 DEF NumbersInv

\* A new request claims nothing yet.
LEMMA SentOutcomes ==
    ASSUME PlayerInv, NEW s \in Screens, NEW route \in Routes, Sent(s, route)
    PROVE  OutcomeInv'
<1>1. item' \in {"pending", "done", "gone"} /\ packLog' \in Nat
    BY DEF PlayerInv, OutcomeInv, Sent
<1>2. \A r, o : Holds(r, o) => Holds(r, o)'
    BY DEF Holds, Sent
<1>3. \A t \in Screens : IsOpen(t)' => Holds(screen[t].route, screen[t].post)'
  <2>1. Holds(screen[s].route, screen[s].post)'
    BY DEF Holds, Sent, Recorded
  <2>2. \A t \in Screens \ {s} : IsOpen(t)' => Holds(screen[t].route, screen[t].post)'
    BY <1>2 DEF PlayerInv, OutcomeInv, Sent, IsOpen
  <2> QED
    BY <2>1, <2>2
<1>4. ASSUME NEW a \in answers', NEW t \in Screens, Waits(t, a.number)'
      PROVE  Holds(screen[t].route, a.outcome)'
  <2>1. a \in answers /\ a.number \in 1 .. posts /\ posts \in Nat
    BY DEF PlayerInv, NumbersInv, Sent
  <2>2. t # s
    BY <1>4, <2>1 DEF Sent, Waits
  <2>3. Waits(t, a.number) /\ screen'[t] = screen[t]
    BY <1>4, <2>2 DEF Sent, Waits, IsOpen
  <2>4. Holds(screen[t].route, a.outcome)
    BY <2>1, <2>3 DEF PlayerInv, OutcomeInv
  <2> QED
    BY <1>2, <2>3, <2>4
<1> QED
    BY <1>1, <1>3, <1>4 DEF OutcomeInv

\* The sets that are counted are finite.
LEMMA CountsAreNumbers ==
    ASSUME NumbersInv
    PROVE  /\ IsFiniteSet(ToLog) /\ Cardinality(ToLog) \in Nat
           /\ IsFiniteSet(ToRetry) /\ Cardinality(ToRetry) \in Nat
<1>1. ToLog \subseteq requests /\ IsFiniteSet(requests)
    BY DEF ToLog, NumbersInv
<1>2. IsFiniteSet(ToLog)
    BY <1>1, FS_Subset
<1>3. ToRetry \subseteq 1 .. posts /\ posts \in Nat
    BY DEF ToRetry, NumbersInv
<1>4. IsFiniteSet(1 .. posts)
    BY <1>3, FS_Interval
<1>5. IsFiniteSet(ToRetry)
    BY <1>3, <1>4, FS_Subset
<1> QED
    BY <1>2, <1>5, FS_CardinalityType

\* What is still to be logged can be counted.
LEMMA CountsStayNumbers ==
    ASSUME NumbersInv'
    PROVE  /\ IsFiniteSet(ToLog') /\ Cardinality(ToLog') \in Nat
           /\ IsFiniteSet(ToRetry') /\ Cardinality(ToRetry') \in Nat
<1>1. ToLog' \subseteq requests' /\ IsFiniteSet(requests')
    BY DEF ToLog, NumbersInv
<1>2. IsFiniteSet(ToLog')
    BY <1>1, FS_Subset
<1>3. ToRetry' \subseteq 1 .. posts' /\ posts' \in Nat
    BY DEF ToRetry, NumbersInv
<1>4. IsFiniteSet(1 .. posts')
    BY <1>3, FS_Interval
<1>5. IsFiniteSet(ToRetry')
    BY <1>3, <1>4, FS_Subset
<1> QED
    BY <1>2, <1>5, FS_CardinalityType

\* What a POST that is sent, or sent again, makes of what is counted.
LEMMA SentCounts ==
    ASSUME PlayerInv, NEW s \in Screens, IsOpen(s), NEW route \in Routes, Sent(s, route)
    PROVE  /\ route = "pack" => Cardinality(ToLog') <= Cardinality(ToLog) + 1
           /\ route # "pack" => Cardinality(ToLog') = Cardinality(ToLog)
           /\ ToRetry' \subseteq ToRetry \ {screen[s].number}
<1>0. posts \in Nat /\ posts' = posts + 1 /\ IsFiniteSet(ToLog) /\ Cardinality(ToLog) \in Nat
    BY CountsAreNumbers DEF PlayerInv, NumbersInv, Sent
<1>1. ASSUME route = "pack"
      PROVE  Cardinality(ToLog') <= Cardinality(ToLog) + 1
  <2> DEFINE m == [number |-> posts + 1, route |-> route]
  <2>1. ToLog' = ToLog \cup {m}
    BY <1>1 DEF ToLog, Sent
  <2> HIDE DEF m
  <2>2. Cardinality(ToLog \cup {m}) = IF m \in ToLog THEN Cardinality(ToLog)
                                      ELSE Cardinality(ToLog) + 1
    BY <1>0, FS_AddElement
  <2> QED
    BY <1>0, <2>1, <2>2
<1>2. ASSUME route # "pack"
      PROVE  Cardinality(ToLog') = Cardinality(ToLog)
  <2>1. ToLog' = ToLog
    BY <1>2 DEF ToLog, Sent
  <2> QED
    BY <2>1
<1>3. ASSUME NEW n \in ToRetry'
      PROVE  n \in ToRetry \ {screen[s].number}
  <2>1. n \in 1 .. posts + 1
    BY <1>0 DEF ToRetry
  <2>2. PICK t \in Screens : IsOpen(t)' /\ screen'[t].route = "pack" /\ screen'[t].number = n
                               /\ Failed(screen[t])'
    BY DEF ToRetry
  <2>3. t # s
    <3>1. [number |-> posts + 1, outcome |-> "failed"] \notin answers
      BY <1>0 DEF PlayerInv, NumbersInv
    <3>2. ~Failed(screen[s])'
      BY <3>1 DEF Sent, Failed
    <3> QED
      BY <2>2, <3>2
  <2>4. screen'[t] = screen[t] /\ answers' = answers
    BY <2>3 DEF Sent
  <2>5. IsOpen(t) /\ screen[t].route = "pack" /\ screen[t].number = n /\ Failed(screen[t])
    BY <2>2, <2>4 DEF IsOpen, Failed
  <2>6. n \in 1 .. posts
    BY <1>0, <2>1, <2>5 DEF PlayerInv, NumbersInv
  <2>7. n # screen[s].number
    BY <1>0, <2>3, <2>5, <2>6 DEF PlayerInv, NumbersInv
  <2> QED
    BY <2>5, <2>6, <2>7 DEF ToRetry
<1> QED
    BY <1>1, <1>2, <1>3

\* A completion that is sent is one more play of its route.
LEMMA FirstSentPlays ==
    ASSUME PlayerInv, NEW s \in Screens, IsOpen(s), NEW route \in Routes, Sent(s, route),
           plays' = [plays EXCEPT ![route] = @ + 1], NumbersInv'
    PROVE  PlaysInv'
<1>1. /\ plays \in [Routes -> Nat] /\ failures \in Nat /\ failures' = failures
      /\ plays' \in [Routes -> Nat] /\ plays'[route] = plays[route] + 1
      /\ \A r \in Routes : plays'[r] >= plays[r] /\ (plays[r] > 0 => plays'[r] > 0)
    BY DEF PlayerInv, PlaysInv, Sent
<1>2. plays'[route] > 0
    BY <1>1
<1>3. \A m \in requests' : plays'[m.route] > 0
  <2> SUFFICES ASSUME NEW m \in requests' PROVE plays'[m.route] > 0
    OBVIOUS
  <2>1. CASE m \in requests
    BY <1>1, <2>1 DEF PlayerInv, PlaysInv, NumbersInv
  <2>2. CASE m.route = route
    BY <1>2, <2>2
  <2> QED
    BY <2>1, <2>2 DEF Sent
<1>4. \A t \in Screens : IsOpen(t)' /\ screen'[t].post # "idle" => plays'[screen'[t].route] > 0
  <2>1. ASSUME NEW t \in Screens, t # s, IsOpen(t)', screen'[t].post # "idle"
        PROVE  plays'[screen'[t].route] > 0
    <3>1. IsOpen(t) /\ screen'[t] = screen[t]
      BY <2>1 DEF Sent, IsOpen
    <3>2. screen[t].route \in Routes /\ plays[screen[t].route] > 0
      BY <2>1, <3>1, OpenShape DEF PlayerInv, PlaysInv, AllScreens
    <3> QED
      BY <1>1, <3>1, <3>2
  <2>2. screen'[s].route = route
    BY DEF Sent
  <2> QED
    BY <1>2, <2>1, <2>2
<1>5. item' = "done" => plays'["lesson"] > 0
    BY <1>1 DEF PlayerInv, PlaysInv, Sent, Routes
<1>6. Counted'
  <2>1. Cardinality(ToRetry') <= Cardinality(ToRetry)
    BY SentCounts, CountsAreNumbers, FS_Subset DEF PlayerInv
  <2>2. \/ /\ Cardinality(ToLog') <= Cardinality(ToLog) + 1
           /\ plays'["pack"] = plays["pack"] + 1
        \/ /\ Cardinality(ToLog') = Cardinality(ToLog)
           /\ plays'["pack"] >= plays["pack"]
    BY <1>1, SentCounts DEF Routes
  <2>3. /\ Cardinality(ToLog) \in Nat /\ Cardinality(ToRetry) \in Nat
        /\ Cardinality(ToLog') \in Nat /\ Cardinality(ToRetry') \in Nat
    BY CountsAreNumbers, CountsStayNumbers DEF PlayerInv
  <2>4. /\ packLog \in Nat /\ packLog' = packLog
        /\ plays["pack"] \in Nat /\ plays'["pack"] \in Nat
    BY <1>1 DEF PlayerInv, OutcomeInv, Sent, Routes
  <2> QED
    BY <1>1, <2>1, <2>2, <2>3, <2>4 DEF PlayerInv, PlaysInv, Counted
<1> QED
    BY <1>1, <1>3, <1>4, <1>5, <1>6 DEF PlaysInv

\* A retry is one request more and one less to be retried: a screen of a pack
\* that is not recorded has failed.
LEMMA RetrySentPlays ==
    ASSUME PlayerInv, NEW s \in Screens, IsOpen(s), screen[s].post \in NotRecorded,
           Sent(s, screen[s].route), plays' = plays, NumbersInv'
    PROVE  PlaysInv'
<1> DEFINE route == screen[s].route
<1>0. route \in Routes /\ plays[route] > 0
  <2>1. route \in Routes
    BY OpenShape DEF PlayerInv, AllScreens
  <2>2. screen[s].post # "idle"
    BY DEF NotRecorded
  <2> QED
    BY <2>1, <2>2 DEF PlayerInv, PlaysInv
<1>1. plays' \in [Routes -> Nat] /\ failures' = failures /\ failures' \in Nat
    BY DEF PlayerInv, PlaysInv, Sent
<1>2. \A m \in requests' : plays'[m.route] > 0
    BY <1>0 DEF PlayerInv, PlaysInv, Sent
<1>3. \A t \in Screens : IsOpen(t)' /\ screen'[t].post # "idle" => plays'[screen'[t].route] > 0
    BY <1>0 DEF PlayerInv, PlaysInv, Sent, IsOpen
<1>4. item' = "done" => plays'["lesson"] > 0
    BY DEF PlayerInv, PlaysInv, Sent
<1>5. /\ IsFiniteSet(ToRetry) /\ Cardinality(ToLog) \in Nat /\ Cardinality(ToRetry) \in Nat
      /\ Cardinality(ToLog') \in Nat /\ Cardinality(ToRetry') \in Nat
      /\ packLog \in Nat /\ packLog' = packLog
    BY CountsAreNumbers, CountsStayNumbers DEF PlayerInv, OutcomeInv, Sent
<1>6. ToRetry' \subseteq ToRetry \ {screen[s].number}
    BY <1>0, SentCounts
<1>7. Cardinality(ToLog') + Cardinality(ToRetry') <= Cardinality(ToLog) + Cardinality(ToRetry)
  <2>1. CASE route = "pack"
    <3>1. screen[s].post = "failed"
      BY <2>1 DEF PlayerInv, OutcomeInv, Holds, NotRecorded
    <3>2. screen[s].number \in ToRetry
      <4>1. screen[s].number \in 1 .. posts
        BY <3>1 DEF PlayerInv, NumbersInv
      <4>2. Failed(screen[s])
        BY <3>1 DEF Failed
      <4> QED
        BY <2>1, <4>1, <4>2 DEF ToRetry
    <3>3. /\ IsFiniteSet(ToRetry \ {screen[s].number})
          /\ Cardinality(ToRetry \ {screen[s].number}) = Cardinality(ToRetry) - 1
      BY <1>5, <3>2, FS_RemoveElement
    <3>4. Cardinality(ToRetry') <= Cardinality(ToRetry) - 1
      BY <1>6, <3>3, FS_Subset
    <3>5. Cardinality(ToLog') <= Cardinality(ToLog) + 1
      BY <1>0, <2>1, SentCounts
    <3> QED
      BY <1>5, <3>4, <3>5
  <2>2. CASE route # "pack"
    <3>1. Cardinality(ToLog') = Cardinality(ToLog)
      BY <1>0, <2>2, SentCounts
    <3>2. ToRetry' \subseteq ToRetry
      BY <1>6
    <3>3. Cardinality(ToRetry') <= Cardinality(ToRetry)
      BY <1>5, <3>2, FS_Subset
    <3> QED
      BY <1>5, <3>1, <3>3
  <2> QED
    BY <2>1, <2>2
<1>8. plays["pack"] \in Nat /\ failures \in Nat
    BY DEF PlayerInv, PlaysInv, Routes
<1>9. Counted'
    BY <1>1, <1>5, <1>7, <1>8 DEF PlayerInv, PlaysInv, Counted
<1> QED
    BY <1>1, <1>2, <1>3, <1>4, <1>9 DEF PlaysInv

\* Try again.
LEMMA RetryKeeps ==
    ASSUME PlayerInv, NEW s \in Screens, Retry(s)
    PROVE  PlayerInv'
<1>1. IsOpen(s) /\ screen[s].post \in NotRecorded /\ Post(s, screen[s]) /\ plays' = plays
    BY DEF Retry
<1>2. screen[s] \in AllScreens /\ GoesOn(screen[s]) /\ Settled(screen[s])
    BY <1>1, OpenShape DEF PlayerInv
<1>3. BoardFinished(screen[s].activity, screen[s].board)
    BY <1>1, <1>2 DEF Settled, NotRecorded
<1>4. screen[s].route \in Routes
    BY <1>2 DEF AllScreens
<1>5. ScreensInv' /\ Sent(s, screen[s].route)
    BY <1>1, <1>2, <1>3, PostSends
<1>6. NumbersInv' /\ OutcomeInv'
    BY <1>4, <1>5, SentNumbers, SentOutcomes
<1>7. PlaysInv'
    BY <1>1, <1>5, <1>6, RetrySentPlays
<1> QED
    BY <1>5, <1>6, <1>7 DEF PlayerInv

-----------------------------------------------------------------------------
(* The learner.                                                            *)

\* A step that sends nothing and answers nothing: a screen that waits for a
\* request, or has its outcome, is what it was.
Calm ==
    /\ answers' \subseteq answers
    /\ UNCHANGED <<item, packLog, requests, posts, failures, plays>>
    /\ \A t \in Screens : IsOpen(t)' =>
         \/ screen'[t].post = "idle" /\ screen'[t].number = 0
         \/ /\ IsOpen(t) /\ screen'[t].route = screen[t].route
            /\ screen'[t].post = screen[t].post /\ screen'[t].number = screen[t].number

\* Steps that touch neither the network nor the logs.
LEMMA CalmKeeps ==
    ASSUME PlayerInv, Calm
    PROVE  NumbersInv' /\ OutcomeInv' /\ PlaysInv'
<1>1. NumbersInv'
  <2>1. posts \in Nat /\ posts' = posts /\ requests' = requests /\ answers' \subseteq answers
    BY DEF Calm, PlayerInv, NumbersInv
  <2>2. \A t \in Screens : IsOpen(t)' =>
          IF screen'[t].post = "idle" THEN screen'[t].number = 0 ELSE screen'[t].number \in 1 .. posts'
    BY <2>1 DEF Calm, PlayerInv, NumbersInv
  <2>3. \A t, u \in Screens : IsOpen(t)' /\ IsOpen(u)' /\ t # u =>
          screen'[t].number = 0 \/ screen'[t].number # screen'[u].number
    BY <2>1 DEF Calm, PlayerInv, NumbersInv
  <2>4. \A m \in requests', t \in Screens :
          IsOpen(t)' /\ screen'[t].number = m.number => screen'[t].route = m.route
    <3>1. \A m \in requests : m.number # 0
      BY <2>1 DEF PlayerInv, NumbersInv
    <3> QED
      BY <2>1, <3>1 DEF Calm, PlayerInv, NumbersInv
  <2> QED
    BY <2>1, <2>2, <2>3, <2>4 DEF PlayerInv, NumbersInv
<1>2. OutcomeInv'
  <2>1. \A r, o : Holds(r, o) => Holds(r, o)'
    BY DEF Holds, Calm
  <2>2. ASSUME NEW t \in Screens, IsOpen(t)'
        PROVE  Holds(screen[t].route, screen[t].post)'
    <3>1. CASE screen'[t].post = "idle"
      BY <3>1 DEF Holds, Recorded
    <3>2. CASE IsOpen(t) /\ screen'[t].route = screen[t].route /\ screen'[t].post = screen[t].post
      BY <2>1, <3>2 DEF PlayerInv, OutcomeInv
    <3> QED
      BY <2>2, <3>1, <3>2 DEF Calm
  <2>3. ASSUME NEW a \in answers', NEW t \in Screens, Waits(t, a.number)'
        PROVE  Holds(screen[t].route, a.outcome)'
    <3>1. a \in answers /\ Waits(t, a.number) /\ screen'[t].route = screen[t].route
      BY <2>3 DEF Calm, Waits
    <3>2. Holds(screen[t].route, a.outcome)
      BY <3>1 DEF PlayerInv, OutcomeInv
    <3> QED
      BY <2>1, <3>1, <3>2
  <2> QED
    BY <2>2, <2>3 DEF PlayerInv, OutcomeInv, Calm
<1>3. PlaysInv'
  <2>1. \A t \in Screens : IsOpen(t)' /\ screen'[t].post # "idle" => plays'[screen'[t].route] > 0
    BY DEF Calm, PlayerInv, PlaysInv
  <2>2. ToLog' = ToLog
    BY DEF ToLog, Calm
  <2>3. ToRetry' \subseteq ToRetry
    <3>1. ASSUME NEW t \in Screens, IsOpen(t)', Failed(screen[t])'
          PROVE  /\ IsOpen(t) /\ screen'[t].route = screen[t].route
                 /\ screen'[t].number = screen[t].number /\ Failed(screen[t])
      BY <3>1 DEF Calm, Failed
    <3> QED
      BY <3>1 DEF ToRetry, Calm
  <2>4. /\ Cardinality(ToRetry') <= Cardinality(ToRetry)
        /\ Cardinality(ToLog') = Cardinality(ToLog)
    BY <2>2, <2>3, CountsAreNumbers, FS_Subset DEF PlayerInv
  <2>5. /\ Cardinality(ToLog) \in Nat /\ Cardinality(ToRetry) \in Nat /\ Cardinality(ToRetry') \in Nat
        /\ packLog \in Nat /\ failures \in Nat /\ plays["pack"] \in Nat
    BY <1>1, CountsAreNumbers, CountsStayNumbers DEF PlayerInv, OutcomeInv, PlaysInv, Routes
  <2>6. Counted'
    BY <2>4, <2>5 DEF PlayerInv, PlaysInv, Counted, Calm
  <2> QED
    BY <2>1, <2>6 DEF PlayerInv, PlaysInv, Calm
<1> QED
    BY <1>1, <1>2, <1>3

\* What the learner does to a board, and what the timer does.
LEMMA ShowKeeps ==
    ASSUME PlayerInv, NEW s \in Screens, IsOpen(s), screen[s].post = "idle",
           NEW y, Shows(screen[s], y), Show(s, y)
    PROVE  PlayerInv'
<1>1. /\ y \in AllScreens /\ GoesOn(y) /\ y.route = screen[s].route
      /\ y.post = "idle" /\ y.number = 0 /\ y.route \in Routes
  <2>1. /\ y \in AllScreens /\ GoesOn(y) /\ y.route = screen[s].route
        /\ y.post = screen[s].post /\ y.number = screen[s].number
    BY DEF Shows
  <2>2. screen[s].number = 0
    BY DEF PlayerInv, NumbersInv
  <2> QED
    BY <2>1, <2>2 DEF AllScreens
<1>2. CASE BoardFinished(y.activity, y.board)
  <2>1. Post(s, y) /\ plays' = [plays EXCEPT ![y.route] = @ + 1]
    BY <1>2 DEF Show
  <2>2. ScreensInv' /\ Sent(s, y.route)
    BY <1>1, <1>2, <2>1, PostSends
  <2>3. NumbersInv' /\ OutcomeInv'
    BY <1>1, <2>2, SentNumbers, SentOutcomes
  <2>4. PlaysInv'
    BY <1>1, <2>1, <2>2, <2>3, FirstSentPlays
  <2> QED
    BY <2>2, <2>3, <2>4 DEF PlayerInv
<1>3. CASE ~BoardFinished(y.activity, y.board)
  <2>1. screen' = [screen EXCEPT ![s] = y] /\ UNCHANGED <<server, wire, plays>>
    BY <1>3 DEF Show
  <2>2. screen'[s] = y /\ \A t \in Screens \ {s} : screen'[t] = screen[t]
    BY <2>1 DEF PlayerInv, ScreensInv
  <2>3. screen' \in [Screens -> AllScreens \cup {NoScreen}]
    BY <1>1, <2>1 DEF PlayerInv, ScreensInv
  <2>4. Settled(y)
    BY <1>1, <1>3 DEF Settled
  <2>5. ScreensInv'
    BY <1>1, <2>2, <2>3, <2>4 DEF PlayerInv, ScreensInv, IsOpen
  <2>6. Calm
    BY <1>1, <2>1, <2>2 DEF Calm, server, wire, IsOpen
  <2> QED
    BY <2>5, <2>6, CalmKeeps DEF PlayerInv
<1> QED
    BY <1>2, <1>3

\* A screen is opened.
LEMMA OpenKeeps ==
    ASSUME PlayerInv, NEW s \in Screens, NEW route \in Routes, NEW act \in Activities,
           Open(s, route, act)
    PROVE  PlayerInv'
<1> DEFINE y == NewScreen(route, act)
<1>1. y \in AllScreens /\ GoesOn(y) /\ Settled(y) /\ y.post = "idle" /\ y.number = 0
    BY NewGoesOn DEF NewScreen
<1>2. screen' = [screen EXCEPT ![s] = y] /\ UNCHANGED <<server, wire, plays>>
    BY DEF Open
<1> HIDE DEF y
<1>3. screen'[s] = y /\ \A t \in Screens \ {s} : screen'[t] = screen[t]
    BY <1>2 DEF PlayerInv, ScreensInv
<1>4. screen' \in [Screens -> AllScreens \cup {NoScreen}]
    BY <1>1, <1>2 DEF PlayerInv, ScreensInv
<1>5. ScreensInv'
    BY <1>1, <1>3, <1>4 DEF PlayerInv, ScreensInv, IsOpen
<1>6. Calm
    BY <1>1, <1>2, <1>3 DEF Calm, server, wire, IsOpen
<1> QED
    BY <1>5, <1>6, CalmKeeps DEF PlayerInv

\* A screen is left, and its answer is dropped.
LEMMA LeaveKeeps ==
    ASSUME PlayerInv, NEW s \in Screens, Leave(s)
    PROVE  PlayerInv'
<1>1. screen' = [screen EXCEPT ![s] = NoScreen] /\ answers' \subseteq answers
      /\ UNCHANGED <<server, requests, posts, failures, plays>>
    BY DEF Leave
<1>2. screen'[s] = NoScreen /\ \A t \in Screens \ {s} : screen'[t] = screen[t]
    BY <1>1 DEF PlayerInv, ScreensInv
<1>3. screen' \in [Screens -> AllScreens \cup {NoScreen}]
    BY <1>1 DEF PlayerInv, ScreensInv
<1>4. ScreensInv'
    BY <1>2, <1>3 DEF PlayerInv, ScreensInv, IsOpen
<1>5. Calm
    BY <1>1, <1>2 DEF Calm, server, IsOpen
<1> QED
    BY <1>4, <1>5, CalmKeeps DEF PlayerInv

\* A card is tapped.
LEMMA TapKeeps ==
    ASSUME PlayerInv, NEW s \in Screens, NEW card \in Cards(NumPairs), Tap(s, card)
    PROVE  PlayerInv'
<1> DEFINE board == TapCard(screen[s].board, card)
           y == [screen[s] EXCEPT !.board = board,
                                  !.timer = IF board.wrong # {} THEN "set" ELSE "none",
                                  !.practised = board.matched]
<1>1. /\ IsOpen(s) /\ screen[s].activity = "match" /\ screen[s].post = "idle"
      /\ board # screen[s].board /\ Show(s, y)
    BY DEF Tap, Playing
<1>2. Shows(screen[s], y)
    BY <1>1, OpenShape, TapShows DEF PlayerInv
<1> QED
    BY <1>1, <1>2, ShowKeeps

\* The timer of a wrong pair fires.
LEMMA WrongTimerKeeps ==
    ASSUME PlayerInv, NEW s \in Screens, WrongTimer(s)
    PROVE  PlayerInv'
<1>1. PICK late \in Lateness :
        Show(s, [screen[s] EXCEPT !.board = ResetWrong(@, late),
                                  !.timer = IF late < 0 THEN "early" ELSE "none"])
    BY DEF WrongTimer
<1> DEFINE y == [screen[s] EXCEPT !.board = ResetWrong(@, late),
                                  !.timer = IF late < 0 THEN "early" ELSE "none"]
<1>2. IsOpen(s) /\ screen[s].activity = "match" /\ screen[s].post = "idle"
    BY DEF WrongTimer, Playing
<1>3. Shows(screen[s], y)
    BY <1>2, OpenShape, ResetShows DEF PlayerInv
<1> QED
    BY <1>1, <1>2, <1>3, ShowKeeps

\* A character is traced to its end.
LEMMA FinishCharacterKeeps ==
    ASSUME PlayerInv, NEW s \in Screens, FinishCharacter(s)
    PROVE  PlayerInv'
<1>1. CASE Playing(s, "trace")
  <2> DEFINE y == [screen[s] EXCEPT !.board = CompleteCharacter(@),
                                    !.practised = @ \cup {screen[s].board.index + 1}]
  <2>1. IsOpen(s) /\ screen[s].activity = "trace" /\ screen[s].post = "idle"
    BY <1>1 DEF Playing
  <2>2. ~screen[s].board.complete /\ Show(s, y)
    BY <2>1 DEF FinishCharacter, Playing
  <2>3. Shows(screen[s], y)
    BY <2>1, <2>2, OpenShape, TracedShows DEF PlayerInv
  <2> QED
    BY <2>1, <2>2, <2>3, ShowKeeps
<1>2. CASE Playing(s, "sentence")
  <2> DEFINE y == [screen[s] EXCEPT
                     !.board = CompleteInSentence(@, SentencesOf(screen[s].route)),
                     !.practised = @ \cup {<<screen[s].board.sentence + 1, screen[s].board.index + 1>>}]
  <2>1. IsOpen(s) /\ screen[s].activity = "sentence" /\ screen[s].post = "idle"
    BY <1>2 DEF Playing
  <2>2. ~screen[s].board.complete /\ Show(s, y)
    BY <2>1 DEF FinishCharacter, Playing, Place
  <2>3. Shows(screen[s], y)
    BY <2>1, <2>2, OpenShape, TracedInSentenceShows DEF PlayerInv
  <2> QED
    BY <2>1, <2>2, <2>3, ShowKeeps
<1> QED
    BY <1>1, <1>2 DEF FinishCharacter

\* The button after a character.
LEMMA PressNextKeeps ==
    ASSUME PlayerInv, NEW s \in Screens, PressNext(s)
    PROVE  PlayerInv'
<1> DEFINE y == [screen[s] EXCEPT !.board = AfterNext(s)]
<1>1. /\ IsOpen(s) /\ screen[s].activity \in {"trace", "sentence"} /\ screen[s].post = "idle"
      /\ screen[s].board.complete /\ Show(s, y)
    BY DEF PressNext, Playing
<1>2. screen[s] \in AllScreens /\ GoesOn(screen[s]) /\ Settled(screen[s])
    BY <1>1, OpenShape DEF PlayerInv
<1>3. Shows(screen[s], y)
  <2>1. CASE screen[s].activity = "trace"
    <3>1. AfterNext(s) = NextTrace(screen[s].board, NumPairs)
      BY <2>1 DEF AfterNext
    <3> QED
      BY <1>1, <1>2, <2>1, <3>1, NextTraceShows
  <2>2. CASE screen[s].activity = "sentence"
    <3>1. AfterNext(s) = NextInSentence(screen[s].board, SentencesOf(screen[s].route))
      BY <2>2 DEF AfterNext
    <3>2. ~screen[s].board.finished
      BY <1>1, <1>2, <2>2 DEF Settled, BoardFinished
    <3> QED
      BY <1>1, <1>2, <2>2, <3>1, <3>2, NextInSentenceShows
  <2> QED
    BY <1>1, <2>1, <2>2
<1> QED
    BY <1>1, <1>3, ShowKeeps

-----------------------------------------------------------------------------
(* The server.                                                             *)

\* Screens that do not change stay what they are.
LEMMA StillScreens ==
    ASSUME ScreensInv, screen' = screen
    PROVE  ScreensInv'
    BY DEF ScreensInv, IsOpen

\* An answer has the number of its request.
LEMMA ReplyNumbers ==
    ASSUME PlayerInv, NEW m \in requests, NEW outcome \in Recorded \cup NotRecorded,
           Reply(m, outcome), screen' = screen, posts' = posts
    PROVE  NumbersInv'
<1>1. requests' = requests \ {m} /\ requests' \subseteq requests
    BY DEF Reply
<1>2. IsFiniteSet(requests')
    BY <1>1, FS_RemoveElement DEF PlayerInv, NumbersInv
<1>3. answers' \subseteq [number : 1 .. posts, outcome : Recorded \cup NotRecorded]
    BY DEF PlayerInv, NumbersInv, Reply
<1> QED
    BY <1>1, <1>2, <1>3 DEF PlayerInv, NumbersInv, IsOpen

\* An answer that holds when it is given holds as long as it is under way.
LEMMA ReplyOutcomes ==
    ASSUME PlayerInv, NEW m \in requests, NEW outcome \in Recorded \cup NotRecorded,
           Reply(m, outcome), screen' = screen,
           item' \in {"pending", "done", "gone"}, packLog' \in Nat,
           \A r \in Routes, o \in Posts : Holds(r, o) => Holds(r, o)',
           Holds(m.route, outcome)'
    PROVE  OutcomeInv'
<1>1. \A t \in Screens : IsOpen(t)' => Holds(screen[t].route, screen[t].post)'
  <2> SUFFICES ASSUME NEW t \in Screens, IsOpen(t)'
               PROVE  Holds(screen[t].route, screen[t].post)'
    OBVIOUS
  <2>1. IsOpen(t) /\ screen[t].route \in Routes /\ screen[t].post \in Posts
    <3>1. IsOpen(t)
      BY DEF IsOpen
    <3> QED
      BY <3>1, OpenShape DEF PlayerInv, AllScreens
  <2>2. Holds(screen[t].route, screen[t].post)
    BY <2>1 DEF PlayerInv, OutcomeInv
  <2> QED
    BY <2>1, <2>2
<1>2. ASSUME NEW a \in answers', NEW t \in Screens, Waits(t, a.number)'
      PROVE  Holds(screen[t].route, a.outcome)'
  <2>1. Waits(t, a.number) /\ screen[t].route \in Routes
    <3>1. Waits(t, a.number)
      BY <1>2 DEF Waits, IsOpen
    <3> QED
      BY <3>1, OpenShape DEF PlayerInv, AllScreens, Waits
  <2>2. CASE a \in answers
    <3>1. Holds(screen[t].route, a.outcome) /\ a.outcome \in Posts
      BY <2>1, <2>2 DEF PlayerInv, OutcomeInv, NumbersInv, Posts
    <3> QED
      BY <2>1, <3>1
  <2>3. CASE a = [number |-> m.number, outcome |-> outcome]
    <3>1. a.number = m.number /\ a.outcome = outcome
      BY <2>3
    <3>2. screen[t].route = m.route
      BY <2>1, <3>1 DEF PlayerInv, NumbersInv, Waits
    <3> QED
      BY <3>1, <3>2
  <2> QED
    BY <2>2, <2>3 DEF Reply
<1> QED
    BY <1>1, <1>2 DEF OutcomeInv

\* An answer takes its request out of those to be logged; only a failure adds
\* one to be retried.
LEMMA ReplyCounts ==
    ASSUME PlayerInv, NEW m \in requests, NEW outcome, Reply(m, outcome),
           screen' = screen, posts' = posts
    PROVE  /\ ToLog' = ToLog \ {m}
           /\ outcome # "failed" => ToRetry' \subseteq ToRetry
           /\ ToRetry' \subseteq ToRetry \cup {m.number}
<1>1. ToLog' = ToLog \ {m}
    BY DEF ToLog, Reply
<1>2. ASSUME NEW n \in ToRetry'
      PROVE  n \in ToRetry \/ (outcome = "failed" /\ n = m.number)
  <2>1. n \in 1 .. posts
    BY DEF ToRetry
  <2>2. PICK t \in Screens : /\ IsOpen(t) /\ screen[t].route = "pack" /\ screen[t].number = n
                             /\ Failed(screen[t])'
    BY DEF ToRetry, IsOpen
  <2>3. CASE Failed(screen[t])
    BY <2>1, <2>2, <2>3 DEF ToRetry
  <2>4. CASE ~Failed(screen[t])
    <3>1. [number |-> n, outcome |-> "failed"] \in answers' \ answers
      BY <2>2, <2>4 DEF Failed
    <3>2. [number |-> n, outcome |-> "failed"] = [number |-> m.number, outcome |-> outcome]
      BY <3>1 DEF Reply
    <3> QED
      BY <3>2
  <2> QED
    BY <2>3, <2>4
<1> QED
    BY <1>1, <1>2

\* The server completes the item, or has done so before.
LEMMA CompleteItemKeeps ==
    ASSUME PlayerInv, NEW m \in requests, CompleteItem(m)
    PROVE  PlayerInv'
<1>0. item \in {"pending", "done", "gone"} /\ packLog \in Nat
    BY DEF PlayerInv, OutcomeInv
<1>1. PICK outcome :
        /\ m.route = "lesson" /\ Reply(m, outcome)
        /\ outcome = CASE item = "pending" -> "created"
                       [] item = "done" -> "conflict"
                       [] item = "gone" -> "missing"
        /\ item' = (IF item = "pending" THEN "done" ELSE item)
        /\ UNCHANGED <<lessons, packLog, screen, posts, failures, plays>>
    BY DEF CompleteItem
<1>2. \/ item = "pending" /\ outcome = "created" /\ item' = "done"
      \/ item = "done" /\ outcome = "conflict" /\ item' = "done"
      \/ item = "gone" /\ outcome = "missing" /\ item' = "gone"
    BY <1>0, <1>1
<1>3. outcome \in Recorded \cup NotRecorded /\ outcome # "failed"
    BY <1>2 DEF Recorded, NotRecorded
<1>4. Holds(m.route, outcome)'
    BY <1>1, <1>2 DEF Holds, Recorded
<1>5. \A r \in Routes, o \in Posts : Holds(r, o) => Holds(r, o)'
    BY <1>1, <1>2 DEF Holds
<1>6. ScreensInv'
    BY <1>1, StillScreens DEF PlayerInv
<1>7. NumbersInv'
    BY <1>1, <1>3, ReplyNumbers
<1>8. OutcomeInv'
    BY <1>0, <1>1, <1>2, <1>3, <1>4, <1>5, ReplyOutcomes
<1>9. PlaysInv'
  <2>1. plays["lesson"] > 0
    BY <1>1 DEF PlayerInv, PlaysInv
  <2>2. requests' \subseteq requests
    BY <1>1 DEF Reply
  <2>3. ToLog' = ToLog /\ ToRetry' \subseteq ToRetry
    <3>1. m \notin ToLog
      BY <1>1 DEF ToLog
    <3>2. /\ ToLog' = ToLog \ {m}
          /\ outcome # "failed" => ToRetry' \subseteq ToRetry
      BY <1>1, ReplyCounts
    <3> QED
      BY <1>3, <3>1, <3>2
  <2>4. Cardinality(ToRetry') <= Cardinality(ToRetry) /\ Cardinality(ToLog') = Cardinality(ToLog)
    BY <2>3, CountsAreNumbers, FS_Subset DEF PlayerInv
  <2>5. /\ Cardinality(ToLog) \in Nat /\ Cardinality(ToRetry) \in Nat /\ Cardinality(ToRetry') \in Nat
        /\ failures \in Nat /\ plays["pack"] \in Nat
    BY <1>7, CountsAreNumbers, CountsStayNumbers DEF PlayerInv, PlaysInv, Routes
  <2>6. Counted'
    BY <1>0, <1>1, <2>4, <2>5 DEF PlayerInv, PlaysInv, Counted
  <2> QED
    BY <1>1, <2>1, <2>2, <2>6 DEF PlayerInv, PlaysInv, IsOpen
<1> QED
    BY <1>6, <1>7, <1>8, <1>9 DEF PlayerInv

\* The server logs the practice of a whole pack.
LEMMA LogPackKeeps ==
    ASSUME PlayerInv, NEW m \in requests, LogPack(m)
    PROVE  PlayerInv'
<1>0. packLog \in Nat /\ item \in {"pending", "done", "gone"}
    BY DEF PlayerInv, OutcomeInv
<1>1. /\ m.route = "pack" /\ Reply(m, "created") /\ packLog' = packLog + 1
      /\ UNCHANGED <<lessons, item, screen, posts, failures, plays>>
    BY DEF LogPack
<1>3. "created" \in Recorded \cup NotRecorded
    BY DEF Recorded
<1>4. Holds(m.route, "created")'
    BY <1>0, <1>1 DEF Holds
<1>5. \A r \in Routes, o \in Posts : Holds(r, o) => Holds(r, o)'
    BY <1>0, <1>1 DEF Holds
<1>6. ScreensInv'
    BY <1>1, StillScreens DEF PlayerInv
<1>7. NumbersInv'
    BY <1>1, <1>3, ReplyNumbers
<1>8. OutcomeInv'
    BY <1>0, <1>1, <1>3, <1>4, <1>5, ReplyOutcomes
<1>9. PlaysInv'
  <2>2. requests' \subseteq requests
    BY <1>1 DEF Reply
  <2>3. ToLog' = ToLog \ {m} /\ ToRetry' \subseteq ToRetry /\ m \in ToLog
    BY <1>1, ReplyCounts DEF ToLog
  <2>4. /\ Cardinality(ToRetry') <= Cardinality(ToRetry)
        /\ Cardinality(ToLog') = Cardinality(ToLog) - 1
    BY <2>3, CountsAreNumbers, FS_Subset, FS_RemoveElement DEF PlayerInv
  <2>5. /\ Cardinality(ToLog) \in Nat /\ Cardinality(ToRetry) \in Nat /\ Cardinality(ToRetry') \in Nat
        /\ failures \in Nat /\ plays["pack"] \in Nat
    BY <1>7, CountsAreNumbers, CountsStayNumbers DEF PlayerInv, PlaysInv, Routes
  <2>6. Counted'
    BY <1>0, <1>1, <2>4, <2>5 DEF PlayerInv, PlaysInv, Counted
  <2> QED
    BY <1>1, <2>2, <2>6 DEF PlayerInv, PlaysInv, IsOpen
<1> QED
    BY <1>6, <1>7, <1>8, <1>9 DEF PlayerInv

\* A request fails on the server.
LEMMA FailRequestKeeps ==
    ASSUME PlayerInv, NEW m \in requests, FailRequest(m)
    PROVE  PlayerInv'
<1>0. packLog \in Nat /\ item \in {"pending", "done", "gone"} /\ failures \in Nat
    BY DEF PlayerInv, OutcomeInv, PlaysInv
<1>1. /\ Reply(m, "failed") /\ failures' = failures + 1
      /\ UNCHANGED <<lessons, item, packLog, screen, posts, plays>>
    BY DEF FailRequest, server
<1>3. "failed" \in Recorded \cup NotRecorded
    BY DEF NotRecorded
<1>4. Holds(m.route, "failed")'
    BY DEF Holds, Recorded
<1>5. \A r \in Routes, o \in Posts : Holds(r, o) => Holds(r, o)'
    BY <1>1 DEF Holds
<1>6. ScreensInv'
    BY <1>1, StillScreens DEF PlayerInv
<1>7. NumbersInv'
    BY <1>1, <1>3, ReplyNumbers
<1>8. OutcomeInv'
    BY <1>0, <1>1, <1>3, <1>4, <1>5, ReplyOutcomes
<1>9. PlaysInv'
  <2>2. requests' \subseteq requests
    BY <1>1 DEF Reply
  <2>3. ToLog' \subseteq ToLog /\ ToRetry' \subseteq ToRetry \cup {m.number}
    BY <1>1, ReplyCounts
  <2>4. /\ IsFiniteSet(ToLog) /\ IsFiniteSet(ToRetry)
        /\ Cardinality(ToLog) \in Nat /\ Cardinality(ToRetry) \in Nat
        /\ Cardinality(ToLog') \in Nat /\ Cardinality(ToRetry') \in Nat /\ plays["pack"] \in Nat
    BY <1>7, CountsAreNumbers, CountsStayNumbers DEF PlayerInv, PlaysInv, Routes
  <2>5. Cardinality(ToLog') <= Cardinality(ToLog)
    BY <2>3, <2>4, FS_Subset
  <2>6. Cardinality(ToRetry') <= Cardinality(ToRetry) + 1
    <3>1. /\ IsFiniteSet(ToRetry \cup {m.number})
          /\ Cardinality(ToRetry \cup {m.number}) \in {Cardinality(ToRetry), Cardinality(ToRetry) + 1}
      BY <2>4, FS_AddElement
    <3>2. Cardinality(ToRetry') <= Cardinality(ToRetry \cup {m.number})
      BY <2>3, <3>1, FS_Subset
    <3> QED
      BY <2>4, <3>1, <3>2
  <2>7. Counted'
    BY <1>0, <1>1, <2>4, <2>5, <2>6 DEF PlayerInv, PlaysInv, Counted
  <2> QED
    BY <1>0, <1>1, <2>2, <2>7 DEF PlayerInv, PlaysInv, IsOpen
<1> QED
    BY <1>6, <1>7, <1>8, <1>9 DEF PlayerInv

\* The item is pruned while screens show it.
LEMMA PruneItemKeeps ==
    ASSUME PlayerInv, PruneItem
    PROVE  PlayerInv'
<1>1. /\ item = "pending" /\ item' = "gone"
      /\ UNCHANGED <<packLog, screen, requests, answers, posts, failures, plays>>
    BY DEF PruneItem, wire
<1>2. ScreensInv' /\ NumbersInv'
    BY <1>1 DEF PlayerInv, ScreensInv, NumbersInv, IsOpen
<1>3. OutcomeInv'
  <2>1. \A r, o : Holds(r, o) => Holds(r, o)'
    BY <1>1 DEF Holds
  <2>2. \A t \in Screens : IsOpen(t)' => Holds(screen[t].route, screen[t].post)'
    <3>1. \A t \in Screens : IsOpen(t)' => Holds(screen[t].route, screen[t].post)
      BY <1>1 DEF PlayerInv, OutcomeInv, IsOpen
    <3> QED
      BY <1>1, <2>1, <3>1
  <2>3. \A a \in answers', t \in Screens :
          Waits(t, a.number)' => Holds(screen[t].route, a.outcome)'
    <3>1. \A a \in answers', t \in Screens :
            Waits(t, a.number)' => Holds(screen[t].route, a.outcome)
      BY <1>1 DEF PlayerInv, OutcomeInv, Waits, IsOpen
    <3> QED
      BY <1>1, <2>1, <3>1
  <2> QED
    BY <1>1, <2>2, <2>3 DEF PlayerInv, OutcomeInv
<1>4. ToLog' = ToLog /\ ToRetry' = ToRetry
    BY <1>1 DEF ToLog, ToRetry, Failed, IsOpen
<1>5. PlaysInv'
    BY <1>1, <1>4 DEF PlayerInv, PlaysInv, Counted, IsOpen
<1> QED
    BY <1>2, <1>3, <1>5 DEF PlayerInv

-----------------------------------------------------------------------------
(* The answers.                                                            *)

\* A screen that waits learns what has come of its request, or that the
\* connection broke.
Learns(s, outcome) ==
    /\ IsOpen(s) /\ screen[s].post = "pending"
    /\ screen' = [screen EXCEPT ![s].post = outcome]
    /\ answers' \subseteq answers /\ requests' \subseteq requests
    /\ UNCHANGED <<item, packLog, posts, plays>>

\* A screen learns an outcome that holds.
LEMMA LearnsKeeps ==
    ASSUME PlayerInv, NEW s \in Screens, NEW outcome \in Recorded \cup NotRecorded,
           Learns(s, outcome), Holds(screen[s].route, outcome)
    PROVE  /\ ScreensInv' /\ NumbersInv' /\ OutcomeInv'
           /\ \A m \in requests' : plays'[m.route] > 0
           /\ \A t \in Screens : IsOpen(t)' /\ screen'[t].post # "idle" => plays'[screen'[t].route] > 0
           /\ ToLog' \subseteq ToLog
           /\ outcome # "failed" => ToRetry' \subseteq ToRetry
           /\ ToRetry' \subseteq ToRetry \cup {screen[s].number}
<1> DEFINE x == screen[s]
           y == [x EXCEPT !.post = outcome]
           B == MatchBoards \cup TraceBoards \cup SentenceBoards
<1>0. outcome \in Posts /\ outcome \notin {"idle", "pending"}
    BY DEF Posts, Recorded, NotRecorded
<1>1. x \in AllScreens /\ GoesOn(x) /\ Settled(x) /\ x.post = "pending"
    BY OpenShape DEF PlayerInv, Learns
<1>2. AllScreens = [route : Routes, activity : Activities, board : B, timer : Timers,
                    post : Posts, number : Nat, practised : Practices]
    BY DEF AllScreens
<1>3. screen' = [screen EXCEPT ![s] = y]
    BY DEF Learns
<1> HIDE DEF x, B
<1>4. y \in AllScreens
    BY <1>0, <1>1, <1>2
<1>5. /\ y.route = x.route /\ y.activity = x.activity /\ y.board = x.board
      /\ y.post = outcome /\ y.number = x.number
    BY <1>1, <1>2
<1>6. y.timer = x.timer /\ y.practised = x.practised
    BY <1>1, <1>2
<1> HIDE DEF y
<1>7. GoesOn(y)
    BY <1>1, <1>5, <1>6, Zenon DEF GoesOn, MatchGoesOn, TraceGoesOn, SentenceGoesOn
<1>8. Settled(y)
    BY <1>0, <1>1, <1>5 DEF Settled
<1>9. screen'[s] = y /\ \A t \in Screens \ {s} : screen'[t] = screen[t]
    BY <1>3 DEF PlayerInv, ScreensInv
<1>10. \A t \in Screens : /\ IsOpen(t)' => IsOpen(t)
                          /\ screen'[t].route = screen[t].route
                          /\ screen'[t].number = screen[t].number
                          /\ screen'[t].post # screen[t].post => t = s
    BY <1>5, <1>9 DEF x, Learns, IsOpen
<1>11. ScreensInv'
  <2>1. screen' \in [Screens -> AllScreens \cup {NoScreen}]
    BY <1>3, <1>4 DEF PlayerInv, ScreensInv
  <2> QED
    BY <1>4, <1>7, <1>8, <1>9, <2>1 DEF PlayerInv, ScreensInv, IsOpen
<1>12. NumbersInv'
  <2>1. IsFiniteSet(requests')
    BY FS_Subset DEF PlayerInv, NumbersInv, Learns
  <2>2. \A t \in Screens : IsOpen(t)' =>
          IF screen'[t].post = "idle" THEN screen'[t].number = 0 ELSE screen'[t].number \in 1 .. posts
    BY <1>0, <1>1, <1>5, <1>9, <1>10 DEF PlayerInv, NumbersInv, x
  <2>3. /\ posts' = posts /\ requests' \subseteq requests /\ answers' \subseteq answers
    BY DEF Learns
  <2> QED
    BY <1>10, <2>1, <2>2, <2>3 DEF PlayerInv, NumbersInv
<1>13. OutcomeInv'
  <2>1. \A r, o : Holds(r, o) => Holds(r, o)'
    BY DEF Holds, Learns
  <2>2. ASSUME NEW t \in Screens, IsOpen(t)'
        PROVE  Holds(screen[t].route, screen[t].post)'
    <3>1. CASE t = s
      BY <1>5, <1>9, <2>1, <3>1 DEF x
    <3>2. CASE t # s
      BY <1>9, <1>10, <2>1, <2>2, <3>2 DEF PlayerInv, OutcomeInv
    <3> QED
      BY <3>1, <3>2
  <2>3. ASSUME NEW a \in answers', NEW t \in Screens, Waits(t, a.number)'
        PROVE  Holds(screen[t].route, a.outcome)'
    <3>1. t # s
      BY <1>0, <1>5, <1>9, <2>3 DEF Waits
    <3>2. a \in answers /\ Waits(t, a.number) /\ screen'[t] = screen[t]
      BY <1>9, <1>10, <2>3, <3>1 DEF Waits, Learns
    <3>3. Holds(screen[t].route, a.outcome)
      BY <3>2 DEF PlayerInv, OutcomeInv
    <3> QED
      BY <2>1, <3>2, <3>3
  <2> QED
    BY <2>2, <2>3 DEF PlayerInv, OutcomeInv, Learns
<1>14. \A m \in requests' : plays'[m.route] > 0
    BY DEF PlayerInv, PlaysInv, Learns
<1>15. \A t \in Screens : IsOpen(t)' /\ screen'[t].post # "idle" => plays'[screen'[t].route] > 0
    BY <1>1, <1>10 DEF PlayerInv, PlaysInv, Learns, x
<1>16. ToLog' \subseteq ToLog
    BY DEF ToLog, Learns
<1>17. ASSUME NEW n \in ToRetry'
       PROVE  n \in ToRetry \/ (outcome = "failed" /\ n = screen[s].number)
  <2>1. n \in 1 .. posts
    BY DEF ToRetry, Learns
  <2>2. PICK t \in Screens : /\ IsOpen(t)' /\ screen'[t].route = "pack" /\ screen'[t].number = n
                             /\ Failed(screen[t])'
    BY DEF ToRetry
  <2>3. CASE t = s
    BY <1>0, <1>5, <1>9, <2>2, <2>3 DEF Failed, x
  <2>4. CASE t # s
    <3>1. Failed(screen[t])
      BY <1>9, <2>2, <2>4 DEF Failed, Learns
    <3> QED
      BY <1>10, <2>1, <2>2, <3>1 DEF ToRetry
  <2> QED
    BY <2>3, <2>4
<1> QED
    BY <1>11, <1>12, <1>13, <1>14, <1>15, <1>16, <1>17

\* An answer arrives.
LEMMA ReceiveKeeps ==
    ASSUME PlayerInv, NEW s \in Screens, NEW a \in answers, Receive(s, a)
    PROVE  PlayerInv'
<1>1. /\ Waits(s, a.number) /\ screen' = [screen EXCEPT ![s].post = a.outcome]
      /\ answers' = answers \ {a}
      /\ UNCHANGED <<server, requests, posts, failures, plays>>
    BY DEF Receive
<1>2. /\ a.outcome \in Recorded \cup NotRecorded /\ a.number \in 1 .. posts
      /\ a = [number |-> a.number, outcome |-> a.outcome]
    BY DEF PlayerInv, NumbersInv
<1>3. Learns(s, a.outcome) /\ Holds(screen[s].route, a.outcome)
    BY <1>1 DEF Learns, Waits, server, PlayerInv, OutcomeInv
<1>4. /\ ScreensInv' /\ NumbersInv' /\ OutcomeInv'
      /\ \A m \in requests' : plays'[m.route] > 0
      /\ \A t \in Screens : IsOpen(t)' /\ screen'[t].post # "idle" => plays'[screen'[t].route] > 0
      /\ ToLog' \subseteq ToLog
      /\ a.outcome # "failed" => ToRetry' \subseteq ToRetry
      /\ ToRetry' \subseteq ToRetry \cup {screen[s].number}
    BY <1>2, <1>3, LearnsKeeps
<1>5. ToRetry' \subseteq ToRetry
  <2>1. CASE a.outcome = "failed" /\ screen[s].route = "pack"
    <3>1. screen[s].number = a.number /\ IsOpen(s) /\ Failed(screen[s])
      BY <1>1, <1>2, <2>1 DEF Waits, Failed
    <3>2. screen[s].number \in ToRetry
      BY <1>2, <2>1, <3>1 DEF ToRetry
    <3> QED
      BY <1>4, <3>2
  <2>2. CASE screen[s].route # "pack"
    <3>1. ASSUME NEW n \in ToRetry', n = screen[s].number
          PROVE  n \in ToRetry
      <4>1. PICK t \in Screens : /\ IsOpen(t)' /\ screen'[t].route = "pack"
                                 /\ screen'[t].number = n
        BY DEF ToRetry
      <4>2. t # s
        BY <1>1, <2>2, <4>1 DEF PlayerInv, ScreensInv, AllScreens, Waits, IsOpen
      <4>3. screen'[t] = screen[t] /\ IsOpen(t)
        BY <1>1, <4>1, <4>2 DEF PlayerInv, ScreensInv, IsOpen
      <4>4. screen[s].number # 0 /\ screen[s].number # screen[t].number
        BY <1>1, <1>2, <4>2, <4>3 DEF PlayerInv, NumbersInv, Waits
      <4> QED
        BY <3>1, <4>1, <4>3, <4>4
    <3> QED
      BY <1>4, <3>1
  <2> QED
    BY <1>4, <2>1, <2>2
<1>6. Counted'
  <2>1. /\ IsFiniteSet(ToLog) /\ IsFiniteSet(ToRetry)
        /\ Cardinality(ToLog) \in Nat /\ Cardinality(ToRetry) \in Nat
        /\ Cardinality(ToLog') \in Nat /\ Cardinality(ToRetry') \in Nat
        /\ plays["pack"] \in Nat /\ failures \in Nat /\ packLog \in Nat
    BY <1>4, CountsAreNumbers, CountsStayNumbers DEF PlayerInv, PlaysInv, OutcomeInv, Routes
  <2>2. Cardinality(ToLog') <= Cardinality(ToLog) /\ Cardinality(ToRetry') <= Cardinality(ToRetry)
    BY <1>4, <1>5, <2>1, FS_Subset
  <2> QED
    BY <1>1, <2>1, <2>2 DEF PlayerInv, PlaysInv, Counted, server
<1>7. PlaysInv'
    BY <1>1, <1>4, <1>6 DEF PlayerInv, PlaysInv, server
<1> QED
    BY <1>4, <1>7 DEF PlayerInv

\* The connection breaks: the request may or may not have been served.
LEMMA DisconnectKeeps ==
    ASSUME PlayerInv, NEW s \in Screens, Disconnect(s)
    PROVE  PlayerInv'
<1>1. /\ IsOpen(s) /\ screen[s].post = "pending"
      /\ screen' = [screen EXCEPT ![s].post = "failed"]
      /\ failures' = failures + 1
      /\ answers' \subseteq answers /\ requests' \subseteq requests
      /\ UNCHANGED <<item, packLog, posts, plays>>
    BY DEF Disconnect, server
<1>2. "failed" \in Recorded \cup NotRecorded
    BY DEF NotRecorded
<1>3. Learns(s, "failed") /\ Holds(screen[s].route, "failed")
    BY <1>1 DEF Learns, Holds, Recorded
<1>4. /\ ScreensInv' /\ NumbersInv' /\ OutcomeInv'
      /\ \A m \in requests' : plays'[m.route] > 0
      /\ \A t \in Screens : IsOpen(t)' /\ screen'[t].post # "idle" => plays'[screen'[t].route] > 0
      /\ ToLog' \subseteq ToLog
      /\ ToRetry' \subseteq ToRetry \cup {screen[s].number}
    BY <1>2, <1>3, LearnsKeeps
<1>5. /\ IsFiniteSet(ToLog) /\ IsFiniteSet(ToRetry)
      /\ Cardinality(ToLog) \in Nat /\ Cardinality(ToRetry) \in Nat
      /\ Cardinality(ToLog') \in Nat /\ Cardinality(ToRetry') \in Nat
      /\ plays["pack"] \in Nat /\ failures \in Nat /\ packLog \in Nat
    BY <1>4, CountsAreNumbers, CountsStayNumbers DEF PlayerInv, PlaysInv, OutcomeInv, Routes
<1>6. Cardinality(ToLog') <= Cardinality(ToLog)
    BY <1>4, <1>5, FS_Subset
<1>7. Cardinality(ToRetry') <= Cardinality(ToRetry) + 1
  <2> DEFINE n == screen[s].number
  <2>1. /\ IsFiniteSet(ToRetry \cup {n})
        /\ Cardinality(ToRetry \cup {n}) \in {Cardinality(ToRetry), Cardinality(ToRetry) + 1}
    BY <1>5, FS_AddElement
  <2>2. Cardinality(ToRetry') <= Cardinality(ToRetry \cup {n})
    BY <1>4, <2>1, FS_Subset
  <2> QED
    BY <1>5, <2>1, <2>2
<1>8. Counted'
    BY <1>1, <1>5, <1>6, <1>7 DEF PlayerInv, PlaysInv, Counted
<1>9. PlaysInv'
    BY <1>1, <1>4, <1>5, <1>8 DEF PlayerInv, PlaysInv
<1> QED
    BY <1>4, <1>9 DEF PlayerInv

-----------------------------------------------------------------------------
(* The invariant.                                                          *)

\* The invariant holds at first.
LEMMA PlayerInit == Init => PlayerInv
<1> SUFFICES ASSUME Init PROVE PlayerInv
    OBVIOUS
<1>1. \A s \in Screens : ~IsOpen(s)
    BY DEF Init, IsOpen
<1>2. ScreensInv
    BY <1>1 DEF Init, ScreensInv
<1>3. requests = {} /\ answers = {} /\ posts = 0
    BY DEF Init
<1>4. NumbersInv
    BY <1>1, <1>3, FS_EmptySet DEF NumbersInv
<1>5. OutcomeInv
    BY <1>1, <1>3 DEF Init, OutcomeInv
<1>6. ToLog = {} /\ ToRetry = {}
    BY <1>1, <1>3 DEF ToLog, ToRetry
<1>7. Cardinality(ToLog) = 0 /\ Cardinality(ToRetry) = 0
    BY <1>6, FS_EmptySet
<1>8. Counted
    BY <1>7 DEF Init, Counted, Routes
<1>9. PlaysInv
    BY <1>1, <1>3, <1>8 DEF Init, PlaysInv
<1> QED
    BY <1>2, <1>4, <1>5, <1>9 DEF PlayerInv

\* The invariant is about the state alone.
LEMMA PlayerStutters == PlayerInv /\ UNCHANGED vars => PlayerInv'
<1> SUFFICES ASSUME PlayerInv, UNCHANGED vars PROVE PlayerInv'
    OBVIOUS
<1>1. /\ UNCHANGED <<item, packLog, screen, requests, answers, posts, failures, plays>>
    BY DEF vars
<1>2. ScreensInv' /\ NumbersInv'
    BY <1>1 DEF PlayerInv, ScreensInv, NumbersInv, IsOpen
<1>3. OutcomeInv'
    BY <1>1 DEF PlayerInv, OutcomeInv, Holds, Waits, IsOpen
<1>4. ToLog' = ToLog /\ ToRetry' = ToRetry
    BY <1>1 DEF ToLog, ToRetry, Failed, IsOpen
<1>5. PlaysInv'
    BY <1>1, <1>4 DEF PlayerInv, PlaysInv, Counted, IsOpen
<1> QED
    BY <1>2, <1>3, <1>5 DEF PlayerInv

\* Every step keeps the invariant.
LEMMA PlayerStep == PlayerInv /\ [Next]_vars => PlayerInv'
<1> SUFFICES ASSUME PlayerInv, [Next]_vars PROVE PlayerInv'
    OBVIOUS
<1>1. CASE Serve
    BY <1>1, CompleteItemKeeps, LogPackKeeps, FailRequestKeeps DEF Serve
<1>2. CASE PruneItem
    BY <1>2, PruneItemKeeps
<1>3. ASSUME NEW s \in Screens, Learn(s)
      PROVE  PlayerInv'
    BY <1>3, OpenKeeps, LeaveKeeps, TapKeeps, FinishCharacterKeeps, PressNextKeeps, RetryKeeps
       DEF Learn
<1>4. ASSUME NEW s \in Screens, WrongTimer(s)
      PROVE  PlayerInv'
    BY <1>4, WrongTimerKeeps
<1>5. ASSUME NEW s \in Screens, Hear(s)
      PROVE  PlayerInv'
    BY <1>5, ReceiveKeeps DEF Hear
<1>6. ASSUME NEW s \in Screens, Disconnect(s)
      PROVE  PlayerInv'
    BY <1>6, DisconnectKeeps
<1>7. CASE UNCHANGED vars
    BY <1>7, PlayerStutters
<1> QED
    BY <1>1, <1>2, <1>3, <1>4, <1>5, <1>6, <1>7 DEF Next

\* The boards, the numbers of the requests, what is known of the server and
\* what is counted stay as the invariant says, whatever is tapped, sent,
\* answered or lost.
THEOREM PlayerInvariant == Spec => []PlayerInv
    BY PlayerInit, PlayerStep, PTL DEF Spec

-----------------------------------------------------------------------------
(* The properties.                                                         *)

\* A board that is finished has had everything practised.
LEMMA FinishedIsPractised ==
    ASSUME NEW x \in AllScreens, GoesOn(x), BoardFinished(x.activity, x.board)
    PROVE  x.practised = Members(x.route, x.activity)
<1>0. x.route \in Routes /\ x.activity \in Activities
    BY DEF AllScreens
<1>1. CASE x.activity = "match"
  <2>1. /\ x.board.matched \in SUBSET (1 .. NumPairs) /\ x.practised = x.board.matched
        /\ Cardinality(x.board.matched) = NumPairs
    BY <1>1 DEF GoesOn, MatchGoesOn, MatchBoards, BoardFinished, MatchFinished
  <2>2. IsFiniteSet(1 .. NumPairs) /\ Cardinality(1 .. NumPairs) = NumPairs
    BY PairsArePositive, FS_Interval
  <2>3. x.board.matched = 1 .. NumPairs
    BY <2>1, <2>2, FS_Subset
  <2> QED
    BY <1>1, <2>1, <2>3 DEF Members
<1>2. CASE x.activity = "trace"
  <2>1. x.board.index = NumPairs - 1 /\ x.practised = 1 .. x.board.index + 1
    BY <1>2 DEF GoesOn, TraceGoesOn, BoardFinished, Reached
  <2>2. x.board.index + 1 = NumPairs
    BY <2>1, PairsArePositive
  <2> QED
    BY <1>2, <2>1, <2>2 DEF Members
<1>3. CASE x.activity = "sentence"
  <2> DEFINE b == x.board
             L == SentencesOf(x.route)
  <2>1. /\ b.index = L[b.sentence + 1] - 1 /\ b.complete
        /\ b.sentence = Len(L) - 1 /\ x.practised = UpTo(x.route, b)
    BY <1>3 DEF GoesOn, SentenceGoesOn, BoardFinished
  <2>2. /\ Len(L) \in Nat \ {0} /\ b.sentence + 1 = Len(L) /\ L[Len(L)] \in Nat
        /\ Reached(b) = L[Len(L)]
    <3>1. Len(L) \in Nat \ {0} /\ L[Len(L)] \in Nat
      BY <1>0, Sentences
    <3>2. b.sentence + 1 = Len(L)
      BY <2>1, <3>1
    <3>3. b.index + 1 = L[Len(L)]
      BY <2>1, <3>1, <3>2
    <3> QED
      BY <2>1, <3>1, <3>2, <3>3 DEF Reached
  <2>3. ASSUME NEW m \in Members(x.route, "sentence")
        PROVE  m \in UpTo(x.route, b)
    <3>1. m[1] \in 1 .. Len(L) /\ m[2] \in 1 .. L[m[1]]
      BY <1>0, MembersArePairs
    <3>2. m[1] <= b.sentence \/ m[1] = b.sentence + 1
      BY <2>1, <2>2, <3>1
    <3>3. m[1] = b.sentence + 1 => m[2] <= Reached(b)
      BY <2>2, <3>1
    <3> QED
      BY <3>2, <3>3 DEF UpTo
  <2>4. UpTo(x.route, b) = Members(x.route, "sentence")
    BY <2>3 DEF UpTo
  <2> QED
    BY <1>3, <2>1, <2>4
<1> QED
    BY <1>0, <1>1, <1>2, <1>3 DEF Activities

\* A completion is posted only by a learner who has gone through every
\* character, pair or sentence of the screen, however many there are (the
\* runners call onFinish once the last one is completed).
THEOREM PostedIsAlwaysPractised == Spec => []PostedIsPractised
<1>1. PlayerInv => PostedIsPractised
  <2> SUFFICES ASSUME PlayerInv, NEW s \in Screens, IsOpen(s), screen[s].post # "idle"
               PROVE  screen[s].practised = Members(screen[s].route, screen[s].activity)
    BY DEF PostedIsPractised
  <2>1. screen[s] \in AllScreens /\ GoesOn(screen[s]) /\ Settled(screen[s])
    BY OpenShape DEF PlayerInv
  <2>2. BoardFinished(screen[s].activity, screen[s].board)
    BY <2>1 DEF Settled
  <2> QED
    BY <2>1, <2>2, FinishedIsPractised
<1> QED
    BY <1>1, PlayerInvariant, PTL

\* A board goes on unless its timer was early by the clock or it has come to white
\* space, and then it does not, whatever the pairs, the sentences and the clock:
\* a wrong pair has its timer, the button of a completed character changes the
\* board, and the character to trace is one of the screen.
THEOREM BoardsAlwaysGoOn == Spec => []BoardsGoOn
<1>1. PlayerInv => BoardsGoOn
  <2> SUFFICES ASSUME PlayerInv PROVE BoardsGoOn
    OBVIOUS
  <2>1. ASSUME NEW s \in Screens, IsOpen(s), screen[s].post = "idle"
        PROVE  /\ screen[s] \in AllScreens /\ GoesOn(screen[s])
               /\ screen[s].activity \in Activities
               /\ ~BoardFinished(screen[s].activity, screen[s].board)
    BY <2>1, OpenShape DEF PlayerInv, Settled, AllScreens
  <2>2. ASSUME NEW s \in Screens, IsOpen(s), screen[s].post = "idle",
               screen[s].activity = "match"
        PROVE  /\ screen[s].board.wrong # {} => screen[s].timer \in {"set", "early"}
               /\ screen[s].board.selected.pair \notin screen[s].board.matched
    BY <2>1, <2>2 DEF GoesOn, MatchGoesOn
  <2>3. ASSUME NEW s \in Screens, IsOpen(s), screen[s].post = "idle",
               screen[s].activity = "trace", screen[s].board.complete
        PROVE  AfterNext(s) # screen[s].board
    <3> DEFINE b == screen[s].board
    <3>1. b \in TraceBoards /\ ~b.finished
      BY <2>1, <2>3 DEF GoesOn, TraceGoesOn, BoardFinished
    <3>2. AfterNext(s) = NextTrace(b, NumPairs)
      BY <2>3 DEF AfterNext
    <3>3. \/ AfterNext(s) = [b EXCEPT !.finished = TRUE]
          \/ AfterNext(s) = [b EXCEPT !.index = @ + 1, !.complete = FALSE]
      BY <2>3, <3>2 DEF NextTrace
    <3>4. CASE AfterNext(s) = [b EXCEPT !.finished = TRUE]
      <4>1. AfterNext(s).finished
        BY <3>1, <3>4 DEF TraceBoards
      <4> QED
        BY <3>1, <4>1
    <3>5. CASE AfterNext(s) = [b EXCEPT !.index = @ + 1, !.complete = FALSE]
      <4>1. ~AfterNext(s).complete
        BY <3>1, <3>5 DEF TraceBoards
      <4> QED
        BY <2>3, <4>1
    <3> QED
      BY <3>3, <3>4, <3>5
  <2>4. ASSUME NEW s \in Screens, IsOpen(s), screen[s].post = "idle",
               screen[s].activity = "sentence"
        PROVE  /\ screen[s].board.complete => AfterNext(s) # screen[s].board
               /\ Place(screen[s].board) \in Members(screen[s].route, "sentence")
    <3> DEFINE b == screen[s].board
               L == SentencesOf(screen[s].route)
    <3>1. /\ b \in SentenceBoards /\ ~b.finished /\ b.sentence < Len(L)
          /\ b.index < L[b.sentence + 1]
          /\ b.whole <=> b.complete /\ b.index = L[b.sentence + 1] - 1
      BY <2>1, <2>4 DEF GoesOn, SentenceGoesOn, BoardFinished
    <3>2. AfterNext(s) = NextInSentence(b, L)
      BY <2>4 DEF AfterNext
    <3>3. /\ b.index \in Nat /\ b.sentence \in Nat /\ Len(L) \in Nat /\ L[b.sentence + 1] \in Nat
      <4>1. b.index \in Nat /\ b.sentence \in Nat
        BY <3>1 DEF SentenceBoards
      <4>2. screen[s].route \in Routes
        BY <2>1, <2>4 DEF AllScreens
      <4>3. Len(L) \in Nat /\ b.sentence + 1 \in 1 .. Len(L)
        BY <3>1, <4>1, <4>2, Sentences
      <4> QED
        BY <4>1, <4>2, <4>3, Sentences
    <3>4. Place(b) \in Members(screen[s].route, "sentence")
      <4>1. screen[s].route \in Routes
        BY <2>1, <2>4 DEF AllScreens
      <4>2. b.sentence + 1 \in 1 .. Len(L) /\ b.index + 1 \in 1 .. L[b.sentence + 1]
        BY <3>1, <3>3
      <4> QED
        BY <4>1, <4>2, MembersOfSentences, SMTT(30) DEF Place
    <3>5. ASSUME b.complete
          PROVE  \/ AfterNext(s) = [b EXCEPT !.index = @ + 1, !.complete = FALSE, !.whole = FALSE]
                 \/ AfterNext(s) = [b EXCEPT !.finished = TRUE]
                 \/ AfterNext(s) = [b EXCEPT !.sentence = @ + 1, !.index = 0, !.complete = FALSE,
                                             !.whole = FALSE]
      <4>1. CASE ~b.whole
        BY <3>1, <3>2, <3>3, <3>5, <4>1, SMTT(30) DEF NextInSentence, NextCharacter
      <4>2. CASE b.whole
        BY <3>2, <3>3, <4>2 DEF NextInSentence, NextSentence
      <4> QED
        BY <4>1, <4>2
    <3>6. CASE AfterNext(s) = [b EXCEPT !.index = @ + 1, !.complete = FALSE, !.whole = FALSE]
      <4>1. ~AfterNext(s).complete
        BY <3>1, <3>6 DEF SentenceBoards
      <4> QED
        BY <3>1, <3>4, <4>1
    <3>7. CASE AfterNext(s) = [b EXCEPT !.finished = TRUE]
      <4>1. AfterNext(s).finished
        BY <3>1, <3>7 DEF SentenceBoards
      <4> QED
        BY <3>1, <3>4, <4>1
    <3>8. CASE AfterNext(s) = [b EXCEPT !.sentence = @ + 1, !.index = 0, !.complete = FALSE,
                                        !.whole = FALSE]
      <4>1. ~AfterNext(s).complete
        BY <3>1, <3>8 DEF SentenceBoards
      <4> QED
        BY <3>1, <3>4, <4>1
    <3> QED
      BY <3>1, <3>4, <3>5, <3>6, <3>7, <3>8
  <2>5. ASSUME NEW s \in Screens, IsOpen(s), screen[s].post = "idle"
        PROVE  CanGoOn(s) <=> ~Stuck(s)
    <3>1. CASE screen[s].activity = "match"
      BY <2>2, <2>5, <3>1 DEF CanGoOn, Stuck
    <3>2. CASE screen[s].activity = "trace"
      BY <2>3, <2>5, <3>2 DEF CanGoOn, Stuck
    <3>3. CASE screen[s].activity = "sentence"
      BY <2>4, <2>5, <3>3 DEF CanGoOn, Stuck
    <3> QED
      BY <2>1, <2>5, <3>1, <3>2, <3>3 DEF Activities
  <2> QED
    BY <2>4, <2>5 DEF BoardsGoOn
<1> QED
    BY <1>1, PlayerInvariant, PTL

\* The done screen tells the truth: what it calls recorded is in the log, and a
\* 404 is an item that was pruned, however many answers were lost.
THEOREM OutcomeIsAlwaysTrue == Spec => []OutcomeIsTrue
<1>1. PlayerInv => OutcomeIsTrue
    BY DEF PlayerInv, OutcomeInv, Holds, OutcomeIsTrue
<1> QED
    BY <1>1, PlayerInvariant, PTL

\* What is logged was played: an item once it was finished, a whole pack once
\* for each time it is played and once more at most for each lost answer.
THEOREM LoggedIsAlwaysPlayed == Spec => []LoggedIsPlayed
<1>1. PlayerInv => LoggedIsPlayed
  <2> SUFFICES ASSUME PlayerInv PROVE LoggedIsPlayed
    OBVIOUS
  <2>1. /\ Cardinality(ToLog) \in Nat /\ Cardinality(ToRetry) \in Nat
        /\ packLog \in Nat /\ plays["pack"] \in Nat /\ failures \in Nat
    BY CountsAreNumbers DEF PlayerInv, OutcomeInv, PlaysInv, Routes
  <2>2. packLog <= plays["pack"] + failures
    BY <2>1 DEF PlayerInv, PlaysInv, Counted
  <2> QED
    BY <2>2 DEF PlayerInv, PlaysInv, LoggedIsPlayed
<1> QED
    BY <1>1, PlayerInvariant, PTL
=============================================================================
