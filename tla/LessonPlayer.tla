---------------------------- MODULE LessonPlayer ----------------------------
(***************************************************************************)
(* The screens of one learner that play an item of the path (the lesson    *)
(* route) or a whole pack (the three activity routes of a pack), and the   *)
(* recording of what was played over a network that loses answers.         *)
(*                                                                         *)
(* There is one item and one pack, played on any number of screens: tabs,  *)
(* or one tab that leaves and comes back.  The server answers a request in *)
(* one step: for the item that is PathContract!Complete, which PathQueue   *)
(* implements.  No progress is reset.                                      *)
(***************************************************************************)
EXTENDS Boards

CONSTANTS
    Screens,
    NumPairs,       \* the characters to trace, or to match with their meanings
    Lengths,        \* the lengths of the pack's sentences; the item has the first
    Blanks,         \* the places in the sentences that may hold white space
    Lateness,       \* by how many milliseconds the clock is past a timer's due time
    MaxPosts,       \* bound: requests sent
    MaxFailures     \* bound: requests that fail

ASSUME PlayerAssumption ==
    /\ NumPairs \in Nat \ {0}
    /\ Lengths # <<>> /\ Lengths \in Seq(Nat \ {0})
    /\ Blanks \subseteq Nat \X Nat
    /\ Lateness \subseteq Int    \* negative: the timer is early, or the clock set back
    /\ MaxPosts \in Nat /\ MaxFailures \in Nat

VARIABLES
    activity,   \* the activity of the item
    blank,      \* the places in the sentences that hold white space
    item,       \* its row on the server: pending, done, or gone (pruned)
    packLog,    \* how many whole-pack completions are logged
    screen,     \* what each screen shows
    requests,   \* the requests the server has not answered
    answers,    \* the answers on their way to a screen
    posts,      \* how many requests were sent; they are numbered from 1
    failures,   \* how many failed
    plays       \* how many boards of each route were finished

wire == <<requests, answers, posts, failures>>
lessons == <<activity, blank>>
server == <<lessons, item, packLog>>
vars == <<activity, blank, item, packLog, screen, requests, answers, posts, failures,
          plays>>

Routes == {"lesson", "pack"}
Activities == {"trace", "match", "sentence"}

\* What a POST has come to: not sent, on its way, or answered.
Recorded == {"created", "conflict"}
NotRecorded == {"missing", "failed"}

NoScreen == [route |-> "none"]

\* The sentences a screen goes through.
SentencesOf(route) == IF route = "lesson" THEN <<Lengths[1]>> ELSE Lengths

\* Everything there is to practise on a screen.
Members(route, act) ==
    IF act = "sentence"
    THEN UNION {{<<s, c>> : c \in 1 .. SentencesOf(route)[s]} :
                  s \in DOMAIN SentencesOf(route)}
    ELSE 1 .. NumPairs

InitialBoard(act) ==
    CASE act = "trace" -> InitialTrace
      [] act = "match" -> InitialMatch
      [] act = "sentence" -> InitialSentence

\* timer: the one that clears a wrong pair is set, or has fired too early.
\* number: the request whose answer the screen waits for.  practised: what the
\* learner has got right.
NewScreen(route, act) ==
    [route |-> route, activity |-> act, board |-> InitialBoard(act),
     timer |-> "none", post |-> "idle", number |-> 0, practised |-> {}]

IsOpen(s) == screen[s] # NoScreen

Playing(s, act) ==
    IsOpen(s) /\ screen[s].activity = act /\ screen[s].post = "idle"

BoardFinished(act, board) ==
    IF act = "match" THEN MatchFinished(board, NumPairs) ELSE board.finished

Init ==
    /\ activity \in Activities
    /\ blank \in SUBSET Blanks
    /\ item = "pending"
    /\ packLog = 0
    /\ screen = [s \in Screens |-> NoScreen]
    /\ requests = {} /\ answers = {}
    /\ posts = 0 /\ failures = 0
    /\ plays = [route \in Routes |-> 0]

-----------------------------------------------------------------------------
(* Sending.                                                                *)

\* completion.mutate(): what the screen shows, now waiting for an answer.
Post(s, shown) ==
    /\ posts < MaxPosts
    /\ posts' = posts + 1
    /\ requests' = requests \cup {[number |-> posts', route |-> shown.route]}
    /\ screen' = [screen EXCEPT ![s] =
                     [shown EXCEPT !.post = "pending", !.number = posts']]
    /\ UNCHANGED <<server, answers, failures>>

\* The board changes; once it is finished the completion is posted.
Show(s, shown) ==
    IF BoardFinished(shown.activity, shown.board)
    THEN /\ Post(s, shown)
         /\ plays' = [plays EXCEPT ![shown.route] = @ + 1]
    ELSE /\ screen' = [screen EXCEPT ![s] = shown]
         /\ UNCHANGED <<server, wire, plays>>

\* Mutant: the button is there while a request is on its way.
MutantRetry(s) ==
    /\ IsOpen(s) /\ screen[s].post \in NotRecorded \cup {"pending"}
    /\ Post(s, screen[s])
    /\ UNCHANGED plays

\* Retry recording.
Retry(s) ==
    /\ IsOpen(s) /\ screen[s].post \in NotRecorded
    /\ Post(s, screen[s])
    /\ UNCHANGED plays

-----------------------------------------------------------------------------
(* The learner.                                                            *)

Open(s, route, act) ==
    /\ ~IsOpen(s)
    /\ route = "lesson" => act = activity
    /\ screen' = [screen EXCEPT ![s] = NewScreen(route, act)]
    /\ UNCHANGED <<server, wire, plays>>

\* Leaving a screen stops its timers and forgets its answer; the request that
\* it sent still reaches the server.
Leave(s) ==
    /\ IsOpen(s)
    /\ screen' = [screen EXCEPT ![s] = NoScreen]
    /\ answers' = {a \in answers : a.number # screen[s].number}
    /\ UNCHANGED <<server, requests, posts, failures, plays>>

Tap(s, card) ==
    /\ Playing(s, "match")
    /\ LET board == TapCard(screen[s].board, card)
       IN  /\ board # screen[s].board
           /\ Show(s, [screen[s] EXCEPT !.board = board,
                                        !.timer = IF board.wrong # {} THEN "set" ELSE "none",
                                        !.practised = board.matched])

\* The runner's timer fires, once: the effect that sets it runs again only when
\* wrongResetAtMs changes, which a refused resetWrong leaves as it is.
WrongTimer(s) ==
    /\ Playing(s, "match") /\ screen[s].timer = "set"
    /\ \E late \in Lateness :
         Show(s, [screen[s] EXCEPT !.board = ResetWrong(@, late),
                                   !.timer = IF late < 0 THEN "early" ELSE "none"])

\* The place of the character that is traced, in the sentences of the screen.
Place(board) == <<board.sentence + 1, board.index + 1>>

\* The canvas reports that the last stroke of its character is right.  It has
\* no strokes to show for white space, and nothing to report.
FinishCharacter(s) ==
    LET board == screen[s].board
    IN  \/ /\ Playing(s, "trace") /\ ~board.complete
           /\ Show(s, [screen[s] EXCEPT !.board = CompleteCharacter(@),
                                        !.practised = @ \cup {board.index + 1}])
        \/ /\ Playing(s, "sentence") /\ ~board.complete
           /\ Place(board) \notin blank
           /\ Show(s, [screen[s] EXCEPT
                !.board = CompleteInSentence(@, SentencesOf(screen[s].route)),
                !.practised = @ \cup {Place(board)}])

\* What the one button that a completed character leaves makes of the board.
AfterNext(s) ==
    IF screen[s].activity = "trace"
    THEN NextTrace(screen[s].board, NumPairs)
    ELSE NextInSentence(screen[s].board, SentencesOf(screen[s].route))

PressNext(s) ==
    /\ Playing(s, "trace") \/ Playing(s, "sentence")
    /\ screen[s].board.complete
    /\ AfterNext(s) # screen[s].board
    /\ Show(s, [screen[s] EXCEPT !.board = AfterNext(s)])

-----------------------------------------------------------------------------
(* The server and the network.                                             *)

Waits(s, number) == IsOpen(s) /\ screen[s].post = "pending" /\ screen[s].number = number

Reply(m, outcome) ==
    /\ requests' = requests \ {m}
    /\ answers' = answers \cup {[number |-> m.number, outcome |-> outcome] :
                                  s \in {t \in Screens : Waits(t, m.number)}}

\* POST /path/items/{id}/complete: 201, 409 or 404.
CompleteItem(m) ==
    /\ m.route = "lesson"
    /\ Reply(m, CASE item = "pending" -> "created"
                  [] item = "done" -> "conflict"
                  [] item = "gone" -> "missing")
    /\ item' = IF item = "pending" THEN "done" ELSE item
    /\ UNCHANGED <<lessons, packLog, screen, posts, failures, plays>>

\* POST /progress/completions: 201, whatever was logged before.
LogPack(m) ==
    /\ m.route = "pack"
    /\ Reply(m, "created")
    /\ packLog' = packLog + 1
    /\ UNCHANGED <<lessons, item, screen, posts, failures, plays>>

\* The request fails on the server, with nothing committed.
FailRequest(m) ==
    /\ failures < MaxFailures
    /\ failures' = failures + 1
    /\ Reply(m, "failed")
    /\ UNCHANGED <<server, screen, posts, plays>>

\* A pending item is pruned when its pack is disabled.
PruneItem ==
    /\ item = "pending"
    /\ item' = "gone"
    /\ UNCHANGED <<lessons, packLog, screen, wire, plays>>

\* Mutant: every error the server answers with counts as recorded.
MutantReceive(s, a) ==
    /\ Waits(s, a.number)
    /\ screen' = [screen EXCEPT ![s].post =
                    IF a.outcome = "missing" THEN "conflict" ELSE a.outcome]
    /\ answers' = answers \ {a}
    /\ UNCHANGED <<server, requests, posts, failures, plays>>

Receive(s, a) ==
    /\ Waits(s, a.number)
    /\ screen' = [screen EXCEPT ![s].post = a.outcome]
    /\ answers' = answers \ {a}
    /\ UNCHANGED <<server, requests, posts, failures, plays>>

\* The connection breaks: fetch rejects, and what the server does with the
\* request, or has done, is not known.
Disconnect(s) ==
    /\ IsOpen(s) /\ screen[s].post = "pending"
    /\ failures < MaxFailures
    /\ failures' = failures + 1
    /\ screen' = [screen EXCEPT ![s].post = "failed"]
    /\ answers' = {a \in answers : a.number # screen[s].number}
    /\ \/ UNCHANGED requests
       \/ requests' = {m \in requests : m.number # screen[s].number}
    /\ UNCHANGED <<server, posts, plays>>

-----------------------------------------------------------------------------
Serve == \E m \in requests : CompleteItem(m) \/ LogPack(m) \/ FailRequest(m)

Learn(s) ==
    \/ \E route \in Routes, act \in Activities : Open(s, route, act)
    \/ Leave(s)
    \/ \E card \in Cards(NumPairs) : Tap(s, card)
    \/ FinishCharacter(s) \/ PressNext(s) \/ Retry(s)

Hear(s) == \E a \in answers : Receive(s, a)

Next ==
    \/ Serve \/ PruneItem
    \/ \E s \in Screens : Learn(s) \/ WrongTimer(s) \/ Hear(s) \/ Disconnect(s)

Spec == Init /\ [][Next]_vars

-----------------------------------------------------------------------------
(* Properties.                                                             *)

\* A completion is posted only by a learner who has gone through every
\* character, pair or sentence of the screen, in whatever order, with whatever
\* mistakes (the runners call onFinish once the last one is completed).
PostedIsPractised ==
    \A s \in Screens : IsOpen(s) /\ screen[s].post # "idle" =>
        screen[s].practised = Members(screen[s].route, screen[s].activity)

\* Something goes on: a card can be tapped or a timer will clear the wrong pair;
\* the character has strokes to trace, or its button makes something of the
\* board (the reducers return the state they were given when they refuse).
CanGoOn(s) ==
    LET board == screen[s].board
    IN  IF screen[s].activity = "match"
        THEN /\ board.selected.pair \notin board.matched
             /\ board.wrong # {} => screen[s].timer = "set"
        ELSE IF board.complete
             THEN AfterNext(s) # board
             ELSE screen[s].activity = "sentence" => Place(board) \notin blank

\* The two ways the code has of leaving a board that nothing but leaving the
\* screen gets the learner out of: the only timer of a wrong pair fires early by
\* the clock, and a sentence reaches its white space.
Stuck(s) ==
    \/ /\ screen[s].activity = "match"
       /\ screen[s].timer = "early" /\ screen[s].board.wrong # {}
    \/ /\ screen[s].activity = "sentence" /\ ~screen[s].board.complete
       /\ Place(screen[s].board) \in blank

\* A board goes on unless it is stuck in one of these two ways, and the character
\* to trace is always one of the screen.
BoardsGoOn ==
    \A s \in Screens : IsOpen(s) /\ screen[s].post = "idle" =>
        /\ CanGoOn(s) <=> ~Stuck(s)
        /\ screen[s].activity = "sentence" =>
             Place(screen[s].board) \in Members(screen[s].route, "sentence")

\* The done screen tells the truth: what it calls recorded is in the log,
\* whichever screen, request or retry put it there, and a 404 is an item that
\* was pruned (a 409 counts as recorded).
OutcomeIsTrue ==
    \A s \in Screens : IsOpen(s) =>
        /\ screen[s].post \in Recorded =>
             IF screen[s].route = "lesson" THEN item = "done" ELSE packLog > 0
        /\ screen[s].post = "missing" => item = "gone"

\* What is logged was played.  An item counts once however often it is
\* retried; a whole pack counts once for each time it is played, and once more
\* at most for each answer that was lost (its POST is not idempotent).
LoggedIsPlayed ==
    /\ item = "done" => plays["lesson"] > 0
    /\ packLog <= plays["pack"] + failures
=============================================================================
