------------------------------ MODULE ChatProofs ------------------------------
(***************************************************************************)
(* Proofs about the limiter, for every limit, window and set of users;     *)
(* that the chats use it as it is meant to be used: whatever the screens,  *)
(* the model and the network do, what they do to the limiter is a          *)
(* behaviour of LimiterSpec; that a screen never stays locked, that the    *)
(* spend has a cap, that a draft is saved as often as it was asked, and    *)
(* that the transcript on the screen is the conversation that was had.     *)
(***************************************************************************)
EXTENDS Chats, FiniteSetTheorems, TLAPS

-----------------------------------------------------------------------------
(* The inductive invariant of the limiter.                                 *)

\* A grant is from the window it names, and not from the future.
GrantsInWindow ==
    \A g \in grants :
        /\ g.place <= Limit
        /\ g.start <= g.at /\ g.at < g.start + Window /\ g.at <= clock

PlacesDistinct ==
    \A g, h \in grants :
        g.key = h.key /\ g.start = h.start /\ g.place = h.place => g = h

\* A grant is one of those its key's window has counted, or its window ended
\* before that one was opened, and before now.
LiveOrPast ==
    \A g \in grants :
        \/ /\ g.key \in DOMAIN windows
           /\ g.start = windows[g.key].start
           /\ g.place <= windows[g.key].count
        \/ /\ g.start + Window <= clock
           /\ g.key \in DOMAIN windows => g.start + Window <= windows[g.key].start

LimiterInv == /\ LimiterTypeOK /\ GrantsInWindow /\ PlacesDistinct
              /\ LiveOrPast /\ WindowsApart

\* The limiter starts with no window and nothing granted.
LEMMA LimiterStarts == LimiterInit => LimiterInv
BY DEF LimiterInit, LimiterInv, LimiterTypeOK, GrantsInWindow, PlacesDistinct,
       LiveOrPast, WindowsApart, Grant

\* Time passes: no window and no grant changes.
LEMMA TickKeeps == LimiterInv /\ Tick => LimiterInv'
<1> SUFFICES ASSUME LimiterInv, Tick PROVE LimiterInv'
  OBVIOUS
<1>1. clock \in Nat /\ clock' = clock + 1 /\ windows' = windows /\ grants' = grants
  BY DEF LimiterInv, LimiterTypeOK, Tick, limiter
<1>2. LimiterTypeOK'
  BY <1>1 DEF LimiterInv, LimiterTypeOK
<1>3. \A g \in grants : g.start \in Nat /\ g.at \in Nat
  BY DEF LimiterInv, LimiterTypeOK, Grant
<1>4. GrantsInWindow' /\ PlacesDistinct' /\ WindowsApart'
  BY <1>1, <1>3 DEF LimiterInv, GrantsInWindow, PlacesDistinct, WindowsApart
<1>5. LiveOrPast'
  BY <1>1, <1>3, LimiterAssumption DEF LimiterInv, LiveOrPast
<1> QED
  BY <1>2, <1>4, <1>5 DEF LimiterInv

\* An attempt that is refused only drops windows that have expired.
LEMMA RefusalKeeps ==
    ASSUME LimiterInv, windows' = Live, grants' = grants, clock' = clock
    PROVE  LimiterInv'
<1>1. /\ DOMAIN windows' = {j \in DOMAIN windows : ~Expired(j)}
      /\ \A j \in DOMAIN windows' : windows'[j] = windows[j]
  BY DEF Live
<1>2. LimiterTypeOK'
  BY <1>1 DEF LimiterInv, LimiterTypeOK
<1>3. GrantsInWindow' /\ PlacesDistinct' /\ WindowsApart'
  BY DEF LimiterInv, GrantsInWindow, PlacesDistinct, WindowsApart
<1>4. LiveOrPast'
  <2> SUFFICES ASSUME NEW g \in grants
      PROVE \/ /\ g.key \in DOMAIN windows'
               /\ g.start = windows'[g.key].start
               /\ g.place <= windows'[g.key].count
            \/ /\ g.start + Window <= clock
               /\ g.key \in DOMAIN windows' => g.start + Window <= windows'[g.key].start
    BY DEF LiveOrPast
  <2>1. CASE g.key \in DOMAIN windows /\ Expired(g.key)
    <3>1. g.key \notin DOMAIN windows'
      BY <1>1, <2>1
    <3>2. windows[g.key].start \in Int /\ clock \in Int /\ g.start \in Int
      BY <2>1 DEF LimiterInv, LimiterTypeOK, Grant
    <3>3. windows[g.key].start + Window <= clock
      BY <2>1, <3>2, LimiterAssumption DEF Expired
    <3> QED
      BY <3>1, <3>2, <3>3, LimiterAssumption DEF LimiterInv, LiveOrPast
  <2>2. CASE ~(g.key \in DOMAIN windows /\ Expired(g.key))
    BY <1>1, <2>2 DEF LimiterInv, LiveOrPast
  <2> QED
    BY <2>1, <2>2
<1> QED
  BY <1>2, <1>3, <1>4 DEF LimiterInv

\* An attempt that is allowed takes the next place of its key's window, or the
\* first one of a new window.
LEMMA GrantKeeps ==
    ASSUME LimiterInv, NEW k \in Keys, Limit > 0, Allows(k), clock' = clock,
           windows' = [j \in DOMAIN Live \cup {k} |-> IF j = k THEN Counted(k) ELSE Live[j]],
           grants' = grants \cup {[key |-> k, at |-> clock, start |-> Counted(k).start,
                                   place |-> Counted(k).count]}
    PROVE  LimiterInv'
<1> DEFINE new == [key |-> k, at |-> clock, start |-> Counted(k).start,
                   place |-> Counted(k).count]
           c == Counted(k)
<1>1. /\ DOMAIN Live = {j \in DOMAIN windows : ~Expired(j)}
      /\ \A j \in DOMAIN Live : Live[j] = windows[j]
  BY DEF Live
<1>2. /\ clock \in Nat /\ DOMAIN windows \subseteq Keys /\ grants \subseteq Grant
      /\ \A j \in DOMAIN windows :
            windows[j].start \in 0 .. clock /\ windows[j].count \in 1 .. Limit
  BY DEF LimiterInv, LimiterTypeOK
\* The window of k: the live one with one attempt more, or a fresh one.
<1>3. \/ /\ k \in DOMAIN windows /\ ~Expired(k)
         /\ c.start = windows[k].start /\ c.count = windows[k].count + 1
         /\ clock < windows[k].start + Window /\ windows[k].count < Limit
      \/ /\ ~(k \in DOMAIN windows /\ ~Expired(k))
         /\ c.start = clock /\ c.count = 1
         /\ k \in DOMAIN windows => windows[k].start + Window <= clock
  <2>1. CASE k \in DOMAIN Live
    <3>1. c.start = windows[k].start /\ c.count = windows[k].count + 1
      BY <1>1, <2>1 DEF Counted
    <3>2. windows[k].count < Limit
      BY <1>1, <2>1 DEF Allows
    <3> QED
      BY <1>1, <1>2, <2>1, <3>1, <3>2, LimiterAssumption DEF Expired
  <2>2. CASE k \notin DOMAIN Live
    <3>1. c.start = clock /\ c.count = 1
      BY <2>2 DEF Counted
    <3> QED
      BY <1>1, <1>2, <2>2, <3>1, LimiterAssumption DEF Expired
  <2> QED
    BY <2>1, <2>2
<1>4. /\ c.start \in 0 .. clock /\ c.count \in 1 .. Limit /\ clock < c.start + Window
  BY <1>2, <1>3, LimiterAssumption
<1>5. /\ DOMAIN windows' = DOMAIN Live \cup {k}
      /\ windows'[k] = c
      /\ \A j \in DOMAIN windows' : j # k => windows'[j] = windows[j] /\ j \in DOMAIN windows
  BY <1>1
<1>6. new \in Grant /\ grants' = grants \cup {new}
  BY <1>2, <1>4 DEF Grant
<1>7. new.key = k /\ new.at = clock /\ new.start = c.start /\ new.place = c.count
  OBVIOUS
<1> HIDE DEF new, c
\* The earlier grants of k: in the same window at an earlier place, or over.
<1>8. \A g \in grants : g.key = k =>
        \/ g.start = c.start /\ g.place < c.count
        \/ g.start + Window <= c.start
  <2> SUFFICES ASSUME NEW g \in grants, g.key = k
      PROVE \/ g.start = c.start /\ g.place < c.count
            \/ g.start + Window <= c.start
    OBVIOUS
  <2>1. g.start \in Nat /\ g.place \in Nat
    BY <1>2 DEF Grant
  <2>2. \/ /\ k \in DOMAIN windows
           /\ g.start = windows[k].start
           /\ g.place <= windows[k].count
        \/ /\ g.start + Window <= clock
           /\ k \in DOMAIN windows => g.start + Window <= windows[k].start
    BY DEF LimiterInv, LiveOrPast
  <2> QED
    BY <1>2, <1>3, <2>1, <2>2, LimiterAssumption
<1>9. LimiterTypeOK'
  <2>1. \A j \in DOMAIN windows' :
           windows'[j].start \in 0 .. clock /\ windows'[j].count \in 1 .. Limit
    BY <1>2, <1>4, <1>5
  <2> QED
    BY <1>1, <1>2, <1>5, <1>6, <2>1 DEF LimiterTypeOK
<1>10. GrantsInWindow'
  BY <1>2, <1>4, <1>6, <1>7 DEF LimiterInv, GrantsInWindow
<1>11. PlacesDistinct' /\ WindowsApart'
  <2>1. \A g \in grants : g.key = k => ~(g.start = new.start /\ g.place = new.place)
    <3> SUFFICES ASSUME NEW g \in grants, g.key = k
        PROVE ~(g.start = new.start /\ g.place = new.place)
      OBVIOUS
    <3>1. g.start \in Nat /\ g.place \in Nat
      BY <1>2 DEF Grant
    <3> QED
      BY <1>4, <1>7, <1>8, <3>1, LimiterAssumption
  <2>2. PlacesDistinct'
    BY <1>6, <1>7, <2>1 DEF LimiterInv, PlacesDistinct
  <2>3. \A g \in grants : g.key = k =>
           g.start = new.start \/ g.start + Window <= new.start
    BY <1>7, <1>8
  <2>4. \A g \in grants' : g.start \in Nat
    BY <1>2, <1>6 DEF Grant
  <2>5. WindowsApart'
    BY <1>6, <1>7, <2>3, <2>4, LimiterAssumption DEF LimiterInv, WindowsApart
  <2> QED
    BY <2>2, <2>5
<1>12. LiveOrPast'
  <2> SUFFICES ASSUME NEW g \in grants'
      PROVE \/ /\ g.key \in DOMAIN windows'
               /\ g.start = windows'[g.key].start
               /\ g.place <= windows'[g.key].count
            \/ /\ g.start + Window <= clock
               /\ g.key \in DOMAIN windows' => g.start + Window <= windows'[g.key].start
    BY DEF LiveOrPast
  <2>0. g \in Grant
    BY <1>2, <1>6
  <2>1. CASE g = new
    BY <1>4, <1>5, <1>7, <2>1
  <2>2. CASE g \in grants /\ g.key = k
    BY <1>2, <1>4, <1>5, <1>8, <2>0, <2>2, LimiterAssumption DEF Grant
  <2>3. CASE g \in grants /\ g.key # k
    <3>1. \/ /\ g.key \in DOMAIN windows
             /\ g.start = windows[g.key].start
             /\ g.place <= windows[g.key].count
          \/ /\ g.start + Window <= clock
             /\ g.key \in DOMAIN windows => g.start + Window <= windows[g.key].start
      BY <2>3 DEF LimiterInv, LiveOrPast
    <3>2. CASE g.key \in DOMAIN windows'
      BY <1>5, <2>3, <3>1, <3>2
    <3>3. CASE g.key \notin DOMAIN windows'
      <4>1. g.key \in DOMAIN windows => windows[g.key].start + Window <= clock
        BY <1>1, <1>2, <1>5, <3>3, LimiterAssumption DEF Expired
      <4> QED
        BY <3>1, <3>3, <4>1
    <3> QED
      BY <3>2, <3>3
  <2> QED
    BY <1>6, <2>1, <2>2, <2>3
<1> QED
  BY <1>9, <1>10, <1>11, <1>12 DEF LimiterInv

\* Every way an attempt can end keeps the invariant.
LEMMA AttemptKeeps ==
    ASSUME LimiterInv, NEW k \in Keys, Attempt(k)
    PROVE  LimiterInv'
<1>1. clock' = clock
  BY DEF Attempt
<1>2. PICK allowed \in BOOLEAN : Acquire(k, allowed)
  BY DEF Attempt
<1>3. CASE Limit <= 0
  <2>1. windows' = windows /\ grants' = grants
    BY <1>2, <1>3 DEF Acquire
  <2> QED
    BY <1>1, <2>1 DEF LimiterInv, LimiterTypeOK, GrantsInWindow, PlacesDistinct,
                      LiveOrPast, WindowsApart
<1>4. CASE Limit > 0 /\ allowed
  <2>1. ~(Limit <= 0)
    BY <1>4, LimiterAssumption
  <2>2. Allows(k)
    BY <1>2, <1>4, <2>1, Zenon DEF Acquire
  <2>3. /\ windows' = [j \in DOMAIN Live \cup {k} |->
                          IF j = k THEN Counted(k) ELSE Live[j]]
        /\ grants' = grants \cup {[key |-> k, at |-> clock, start |-> Counted(k).start,
                                   place |-> Counted(k).count]}
    BY <1>2, <1>4, <2>1, Zenon DEF Acquire
  <2> QED
    BY <1>1, <1>4, <2>2, <2>3, GrantKeeps, Zenon
<1>5. CASE Limit > 0 /\ ~allowed
  <2>1. ~(Limit <= 0)
    BY <1>5, LimiterAssumption
  <2>2. windows' = Live /\ grants' = grants
    BY <1>2, <1>5, <2>1, Zenon DEF Acquire
  <2> QED
    BY <1>1, <2>2, RefusalKeeps, Zenon
<1> QED
  BY <1>3, <1>4, <1>5, LimiterAssumption

\* The limiter keeps its invariant for ever.
THEOREM LimiterInvariant == LimiterSpec => []LimiterInv
<1>1. LimiterInit => LimiterInv
  BY LimiterStarts
<1>2. LimiterInv /\ [Tick \/ \E k \in Keys : Attempt(k)]_<<windows, clock, grants>>
        => LimiterInv'
  <2>1. CASE UNCHANGED <<windows, clock, grants>>
    BY <2>1 DEF LimiterInv, LimiterTypeOK, GrantsInWindow, PlacesDistinct,
                LiveOrPast, WindowsApart
  <2> QED
    BY <2>1, TickKeeps, AttemptKeeps
<1> QED
  BY <1>1, <1>2, PTL DEF LimiterSpec

-----------------------------------------------------------------------------
(* The chats and the limiter.                                              *)

\* No step of a chat touches the limiter or its clock but by an attempt of the
\* learner or by the passing of time.
LEMMA ChatStep ==
    ASSUME [Next]_vars
    PROVE  [Tick \/ \E k \in Keys : Attempt(k)]_<<windows, clock, grants>>
<1>1. CASE UNCHANGED vars
  BY <1>1 DEF vars, server
<1>2. CASE Screen
  BY <1>2 DEF Screen, BeginTurn, Retry, NewConversation, BeginSave, Leave, Send, server
<1>3. CASE Serve
  <2>1. PICK m \in requests : RefuseTurn(m) \/ Turn(m) \/ SavePack(m)
    BY <1>3 DEF Serve
  <2>2. CASE RefuseTurn(m)
    BY <2>2 DEF RefuseTurn, Reply, limiter
  <2>3. CASE Turn(m)
    <3>1. clock' = clock
      BY <2>3 DEF Turn, Reply
    <3>2. \E allowed \in BOOLEAN : Acquire(Me, allowed)
      BY <2>3, Zenon DEF Turn
    <3> QED
      BY <3>1, <3>2, ChatAssumption DEF Attempt
  <2>4. CASE SavePack(m)
    BY <2>4 DEF SavePack, Reply, limiter
  <2> QED
    BY <2>1, <2>2, <2>3, <2>4
<1>4. CASE Network
  <2>1. UNCHANGED server
    BY <1>4 DEF Network, Receive, NavigationFails, Heard, Disconnect
  <2> QED
    BY <2>1 DEF server
<1>5. CASE Pass
  BY <1>5 DEF Pass
<1> QED
  BY <1>1, <1>2, <1>3, <1>4, <1>5 DEF Next

\* What a chat does to its limiter is what LimiterSpec allows: turns that fail,
\* are sent again or are abandoned are counted like any other.
THEOREM ChatsImplementLimiter == Spec => LimiterSpec
<1>1. Init => LimiterInit
  BY DEF Init
<1>2. [Next]_vars => [Tick \/ \E k \in Keys : Attempt(k)]_<<windows, clock, grants>>
  BY ChatStep
<1> QED
  BY <1>1, <1>2, PTL DEF Spec, LimiterSpec

\* In every chat, a window grants at most Limit attempts, within Window seconds
\* of its start (FixedWindowRateLimiter.acquire).
THEOREM QuotaKept == Spec => []QuotaPerWindow
<1>1. LimiterInv => QuotaPerWindow
  BY DEF LimiterInv, GrantsInWindow, PlacesDistinct, QuotaPerWindow
<1> QED
  BY <1>1, ChatsImplementLimiter, LimiterInvariant, PTL

\* In every chat, the windows of a user do not overlap (_prune).
THEOREM WindowsKeptApart == Spec => []WindowsApart
<1>1. LimiterInv => WindowsApart
  BY DEF LimiterInv
<1> QED
  BY <1>1, ChatsImplementLimiter, LimiterInvariant, PTL

-----------------------------------------------------------------------------
(* No screen stays locked.                                                 *)

InFlight == requests \cup answers

\* The screen is a record, with one of three phases.
IsScreen ==
    /\ DOMAIN chat = {"entries", "history", "draft", "phase", "waits"}
    /\ chat.phase \in {"idle", "sending", "saving"}

\* A number stands for one request.
NumbersOK ==
    /\ sent \in Nat
    /\ \A m \in InFlight : m.number \in Nat /\ m.number <= sent /\ m.kind \in Kinds
    /\ \A m, n \in InFlight : m.number = n.number => m.kind = n.kind

\* An idle screen waits for nothing, a busy one for one request of its phase,
\* which is still in flight.
WaitsOK ==
    IF chat.phase = "idle" THEN chat.waits = {}
    ELSE \E m \in InFlight : chat.phase = BusyPhase(m.kind) /\ chat.waits = {m.number}

WaitInv == IsScreen /\ NumbersOK /\ WaitsOK

\* Sending a request from an idle screen makes it busy with that request.
LEMMA SendKeeps ==
    ASSUME WaitInv, chat.phase = "idle", NEW kind \in Kinds, NEW about, NEW shown,
           DOMAIN shown = DOMAIN chat, shown.waits = {}, Send(kind, about, shown)
    PROVE  WaitInv'
<1> DEFINE m == [number |-> sent', kind |-> kind, about |-> about,
                 history |-> chat.history]
<1>1. sent \in Nat /\ sent' = sent + 1 /\ InFlight' = InFlight \cup {m}
  BY DEF Send, WaitInv, NumbersOK, InFlight
<1>2. m.number = sent' /\ m.kind = kind
  OBVIOUS
<1>3. chat' = [shown EXCEPT !.phase = BusyPhase(kind), !.waits = @ \cup {sent'}]
  BY DEF Send
<1>4. /\ DOMAIN chat' = DOMAIN shown
      /\ chat'.phase = BusyPhase(kind) /\ chat'.waits = {sent'}
  BY <1>3 DEF WaitInv, IsScreen
<1> HIDE DEF m
<1>5. IsScreen'
  BY <1>4 DEF WaitInv, IsScreen, BusyPhase, Kinds
<1>6. NumbersOK'
  BY <1>1, <1>2 DEF WaitInv, NumbersOK
<1>7. WaitsOK'
  BY <1>1, <1>2, <1>4 DEF WaitsOK, BusyPhase
<1> QED
  BY <1>5, <1>6, <1>7 DEF WaitInv

\* An answer to m takes the place of m, if the screen waits for it.
LEMMA ReplyKeeps ==
    ASSUME WaitInv, NEW m \in requests, NEW outcome, Reply(m, outcome)
    PROVE  WaitInv'
<1> DEFINE history == IF m.kind = "turn" THEN Append(m.history, m.about) ELSE <<>>
           a == [number |-> m.number, kind |-> m.kind, about |-> m.about,
                 outcome |-> outcome, history |-> history]
<1>1. chat' = chat /\ sent' = sent /\ requests' = requests \ {m}
  BY DEF Reply
<1>2. IF m.number \in chat.waits THEN answers' = answers \cup {a} ELSE answers' = answers
  BY DEF Reply
<1>3. a.number = m.number /\ a.kind = m.kind
  OBVIOUS
<1> HIDE DEF a, history
<1>4. m \in InFlight
  BY DEF InFlight
<1>5. /\ InFlight' \subseteq InFlight \cup {a}
      /\ InFlight \ {m} \subseteq InFlight'
      /\ m.number \in chat.waits => a \in InFlight'
  BY <1>1, <1>2 DEF InFlight
<1>6. IsScreen' /\ NumbersOK'
  BY <1>1, <1>3, <1>4, <1>5 DEF WaitInv, IsScreen, NumbersOK
<1>7. WaitsOK'
  <2>1. CASE chat.phase = "idle"
    BY <1>1, <2>1 DEF WaitInv, WaitsOK
  <2>2. CASE chat.phase # "idle"
    <3>1. PICK w \in InFlight : chat.phase = BusyPhase(w.kind) /\ chat.waits = {w.number}
      BY <2>2 DEF WaitInv, WaitsOK
    <3>2. CASE w = m
      BY <1>1, <1>3, <1>5, <2>2, <3>1, <3>2 DEF WaitsOK, BusyPhase
    <3>3. CASE w # m
      <4>1. w \in InFlight'
        BY <1>5, <3>3
      <4> QED
        BY <1>1, <2>2, <3>1, <4>1 DEF WaitsOK, BusyPhase
    <3> QED
      BY <3>2, <3>3
  <2> QED
    BY <2>1, <2>2
<1> QED
  BY <1>6, <1>7 DEF WaitInv

\* Whatever the screen makes of the end of the request it waits for, it is idle
\* then, and waits for nothing more.
LEMMA HearingKeeps ==
    ASSUME WaitInv, NEW m \in InFlight, m.number \in chat.waits, NEW after,
           DOMAIN after = DOMAIN chat, after.phase = "idle",
           after.waits \subseteq {m.number},
           chat' = [after EXCEPT !.waits = @ \ {m.number}],
           sent' = sent, InFlight' \subseteq InFlight
    PROVE  WaitInv'
<1>1. DOMAIN chat' = DOMAIN chat /\ chat'.phase = "idle" /\ chat'.waits = {}
  BY DEF WaitInv, IsScreen
<1>2. IsScreen' /\ WaitsOK'
  BY <1>1 DEF WaitInv, IsScreen, WaitsOK
<1>3. NumbersOK'
  BY DEF WaitInv, NumbersOK
<1> QED
  BY <1>2, <1>3 DEF WaitInv

\* An answer that the screen waits for is of its phase: none is dropped.
LEMMA WaitedIsOfPhase ==
    ASSUME WaitInv, NEW m \in InFlight, m.number \in chat.waits
    PROVE  m.kind \in Kinds /\ chat.phase = BusyPhase(m.kind) /\ chat.waits = {m.number}
<1>1. chat.phase # "idle"
  BY DEF WaitInv, WaitsOK
<1>2. PICK w \in InFlight : chat.phase = BusyPhase(w.kind) /\ chat.waits = {w.number}
  BY <1>1 DEF WaitInv, WaitsOK
<1>3. m.number = w.number
  BY <1>2
<1>4. m.kind = w.kind /\ m.kind \in Kinds
  BY <1>3 DEF WaitInv, NumbersOK
<1> QED
  BY <1>2, <1>3, <1>4

\* The ends of a request: each of them leaves the screen idle.
LEMMA AppliedIsIdle ==
    ASSUME WaitInv, NEW m \in InFlight, m.number \in chat.waits
    PROVE  /\ \A failure : LET after == ApplyFailure(failure, m.kind)
                           IN  /\ DOMAIN after = DOMAIN chat /\ after.phase = "idle"
                               /\ after.waits = chat.waits
           /\ m.kind = "turn" => LET after == ApplyTurn(m)
                                 IN  /\ DOMAIN after = DOMAIN chat /\ after.phase = "idle"
                                     /\ after.waits = chat.waits
<1>1. m.kind \in Kinds /\ chat.phase = BusyPhase(m.kind)
  BY WaitedIsOfPhase
<1>2. ASSUME NEW failure
      PROVE  LET after == ApplyFailure(failure, m.kind)
             IN  /\ DOMAIN after = DOMAIN chat /\ after.phase = "idle"
                 /\ after.waits = chat.waits
  BY <1>1 DEF ApplyFailure, WaitInv, IsScreen
<1>3. ASSUME m.kind = "turn"
      PROVE  LET after == ApplyTurn(m)
             IN  /\ DOMAIN after = DOMAIN chat /\ after.phase = "idle"
                 /\ after.waits = chat.waits
  BY <1>1, <1>3 DEF ApplyTurn, BusyPhase, WaitInv, IsScreen
<1> QED
  BY <1>2, <1>3

\* Steps of the screen.
LEMMA ScreenKeeps == ASSUME WaitInv, Screen PROVE WaitInv'
<1>0. DOMAIN NewChat = {"entries", "history", "draft", "phase", "waits"}
      /\ NewChat.phase = "idle" /\ NewChat.waits = {}
  BY DEF NewChat
<1>1. chat.phase = "idle" => chat.waits = {}
  BY DEF WaitInv, WaitsOK
<1>2. CASE BeginTurn
  <2> DEFINE shown == [chat EXCEPT !.entries = Append(@, Said(asked'))]
  <2>1. chat.phase = "idle" /\ Send("turn", asked', shown)
    BY <1>2 DEF BeginTurn
  <2>2. DOMAIN shown = DOMAIN chat /\ shown.waits = {}
    BY <1>1, <2>1 DEF WaitInv, IsScreen
  <2>3. "turn" \in Kinds
    BY DEF Kinds
  <2> HIDE DEF shown
  <2> QED
    BY <2>1, <2>2, <2>3, SendKeeps
<1>3. CASE Retry
  <2>1. chat.phase = "idle" /\ Send("turn", MessageAt(chat.entries, Len(chat.entries)), chat)
    BY <1>3 DEF Retry
  <2>2. "turn" \in Kinds
    BY DEF Kinds
  <2> QED
    BY <1>1, <2>1, <2>2, SendKeeps
<1>4. CASE BeginSave
  <2>1. chat.phase = "idle" /\ Send("save", chat.draft, chat)
    BY <1>4 DEF BeginSave
  <2>2. "save" \in Kinds
    BY DEF Kinds
  <2> QED
    BY <1>1, <2>1, <2>2, SendKeeps
<1>5. CASE NewConversation \/ Leave
  <2>1. /\ chat'.phase = "idle" /\ chat'.waits = {}
        /\ DOMAIN chat' = {"entries", "history", "draft", "phase", "waits"}
    BY <1>0, <1>1, <1>5 DEF NewConversation, Leave, NewChat
  <2>2. sent' = sent /\ InFlight' \subseteq InFlight
    BY <1>5 DEF NewConversation, Leave, wire, InFlight
  <2>3. IsScreen' /\ WaitsOK'
    BY <2>1 DEF IsScreen, WaitsOK
  <2>4. NumbersOK'
    BY <2>2 DEF WaitInv, NumbersOK
  <2> QED
    BY <2>3, <2>4 DEF WaitInv
<1> QED
  BY <1>2, <1>3, <1>4, <1>5 DEF Screen

\* Steps of the network.
LEMMA NetworkKeeps == ASSUME WaitInv, Network PROVE WaitInv'
<1>0. DOMAIN NewChat = DOMAIN chat /\ NewChat.phase = "idle" /\ NewChat.waits = {}
  BY DEF NewChat, WaitInv, IsScreen
<1>1. ASSUME NEW a \in answers, Receive(a) PROVE WaitInv'
  <2> DEFINE after == IF a.outcome # "ok" THEN ApplyFailure(a.outcome, a.kind)
                      ELSE IF a.kind = "turn" THEN ApplyTurn(a) ELSE NewChat
  <2>1. /\ a \in InFlight /\ a.number \in chat.waits
        /\ chat' = [after EXCEPT !.waits = @ \ {a.number}]
        /\ sent' = sent /\ InFlight' \subseteq InFlight
    BY <1>1 DEF Receive, Heard, InFlight
  <2>2. chat.waits = {a.number}
    BY <2>1, WaitedIsOfPhase
  <2>3. DOMAIN after = DOMAIN chat /\ after.phase = "idle"
        /\ after.waits \subseteq {a.number}
    BY <1>0, <2>1, <2>2, AppliedIsIdle
  <2> HIDE DEF after
  <2> QED
    BY <2>1, <2>3, HearingKeeps
<1>2. ASSUME NEW a \in answers, NavigationFails(a) PROVE WaitInv'
  <2> DEFINE after == ApplyFailure("network_error", "save")
  <2>1. /\ a \in InFlight /\ a.number \in chat.waits /\ a.kind = "save"
        /\ chat' = [after EXCEPT !.waits = @ \ {a.number}]
        /\ sent' = sent /\ InFlight' \subseteq InFlight
    BY <1>2 DEF NavigationFails, Heard, InFlight
  <2>2. DOMAIN after = DOMAIN chat /\ after.phase = "idle"
        /\ after.waits \subseteq {a.number}
    BY <2>1, WaitedIsOfPhase, AppliedIsIdle
  <2> HIDE DEF after
  <2> QED
    BY <2>1, <2>2, HearingKeeps
<1>3. ASSUME NEW m \in requests \cup answers, Disconnect(m) PROVE WaitInv'
  <2> DEFINE after == ApplyFailure("network_error", m.kind)
  <2>1. /\ m \in InFlight /\ m.number \in chat.waits
        /\ chat' = [after EXCEPT !.waits = @ \ {m.number}]
        /\ sent' = sent /\ InFlight' \subseteq InFlight
    BY <1>3 DEF Disconnect, InFlight
  <2>2. DOMAIN after = DOMAIN chat /\ after.phase = "idle"
        /\ after.waits \subseteq {m.number}
    BY <2>1, WaitedIsOfPhase, AppliedIsIdle
  <2> HIDE DEF after
  <2> QED
    BY <2>1, <2>2, HearingKeeps
<1> QED
  BY <1>1, <1>2, <1>3 DEF Network

\* Every step keeps the invariant.
LEMMA WaitInvKept == WaitInv /\ [Next]_vars => WaitInv'
<1> SUFFICES ASSUME WaitInv, [Next]_vars PROVE WaitInv'
  OBVIOUS
<1>1. CASE Serve
  <2>1. PICK m \in requests : \E outcome : Reply(m, outcome)
    BY <1>1 DEF Serve, RefuseTurn, Turn, SavePack
  <2> QED
    BY <2>1, ReplyKeeps
<1>2. CASE Pass \/ UNCHANGED vars
  <2>1. UNCHANGED <<chat, requests, answers, sent>>
    BY <1>2 DEF Pass, vars, wire
  <2> QED
    BY <2>1 DEF WaitInv, IsScreen, NumbersOK, WaitsOK, InFlight
<1> QED
  BY <1>1, <1>2, ScreenKeeps, NetworkKeeps DEF Next

\* A chat screen is busy only while a request of its phase will still be
\* answered (the phases of applyTurn, applyDraft and applyFailure, and the
\* isPending guards): it never stays locked.
THEOREM NeverStaysLocked == Spec => []NeverLocked
<1>1. Init => WaitInv
  BY DEF Init, NewChat, WaitInv, IsScreen, NumbersOK, WaitsOK, InFlight
<1>2. WaitInv => NeverLocked
  <2> SUFFICES ASSUME WaitInv, NEW kind \in Kinds, chat.phase = BusyPhase(kind)
      PROVE Pending(kind)
    BY DEF NeverLocked
  <2>1. PICK m \in InFlight : chat.phase = BusyPhase(m.kind) /\ chat.waits = {m.number}
    BY DEF WaitInv, WaitsOK, BusyPhase, Kinds
  <2>2. m.kind = kind
    BY <2>1 DEF WaitInv, NumbersOK, BusyPhase, Kinds
  <2> QED
    BY <2>1, <2>2 DEF Pending, InFlight
<1> QED
  BY <1>1, <1>2, WaitInvKept, PTL DEF Spec

-----------------------------------------------------------------------------
(* The spend has a cap.                                                    *)

MyGrants == {g \in grants : g.key = Me}

\* A window opens with its first attempt.
OpensWithFirst == \A g \in grants : g.place = 1 => g.at = g.start

\* Each call of the model has a grant of its own, of the same moment.
CallsGranted ==
    Limit > 0 => \E f \in Injection(calls, MyGrants) : \A c \in calls : f[c].at = c.at

SpendInv == LimiterInv /\ OpensWithFirst /\ CallsGranted

\* What an attempt of the learner does to the grants.
LEMMA AttemptGrants ==
    ASSUME LimiterInv, NEW allowed \in BOOLEAN, Acquire(Me, allowed), Limit > 0
    PROVE  /\ ~allowed => grants' = grants
           /\ allowed => \E new : /\ grants' = grants \cup {new} /\ new \notin grants
                                  /\ new.key = Me /\ new.at = clock
                                  /\ new.place = 1 => new.start = clock
<1>0. ~(Limit <= 0)
  BY LimiterAssumption
<1>1. ~allowed => grants' = grants
  BY <1>0, Zenon DEF Acquire
<1>2. ASSUME allowed
      PROVE  \E new : /\ grants' = grants \cup {new} /\ new \notin grants
                      /\ new.key = Me /\ new.at = clock
                      /\ new.place = 1 => new.start = clock
  <2> DEFINE c == Counted(Me)
             new == [key |-> Me, at |-> clock, start |-> c.start, place |-> c.count]
  <2>1. Allows(Me) /\ grants' = grants \cup {new}
    BY <1>0, <1>2, Zenon DEF Acquire
  <2>2. /\ DOMAIN Live = {j \in DOMAIN windows : ~Expired(j)}
        /\ \A j \in DOMAIN Live : Live[j] = windows[j]
    BY DEF Live
  <2>3. /\ clock \in Nat /\ grants \subseteq Grant
        /\ \A j \in DOMAIN windows :
              windows[j].start \in 0 .. clock /\ windows[j].count \in 1 .. Limit
    BY DEF LimiterInv, LimiterTypeOK
  <2>4. \/ /\ Me \in DOMAIN windows /\ ~Expired(Me)
           /\ c.start = windows[Me].start /\ c.count = windows[Me].count + 1
        \/ /\ Me \in DOMAIN windows => Expired(Me)
           /\ c.start = clock /\ c.count = 1
    BY <2>2 DEF Counted
  <2>5. new.key = Me /\ new.at = clock /\ new.start = c.start /\ new.place = c.count
    OBVIOUS
  <2> HIDE DEF new, c
  <2>6. new.place = 1 => new.start = clock
    BY <2>3, <2>4, <2>5
  <2>7. new \notin grants
    <3> SUFFICES ASSUME new \in grants PROVE FALSE
      OBVIOUS
    <3>1. new \in Grant
      BY <2>3
    <3>2. new.start \in Nat /\ new.place \in Nat
      BY <3>1 DEF Grant
    <3>3. \/ /\ Me \in DOMAIN windows
             /\ new.start = windows[Me].start
             /\ new.place <= windows[Me].count
          \/ /\ new.start + Window <= clock
             /\ Me \in DOMAIN windows => new.start + Window <= windows[Me].start
      BY <2>5 DEF LimiterInv, LiveOrPast
    <3>4. CASE /\ Me \in DOMAIN windows /\ ~Expired(Me)
               /\ c.start = windows[Me].start /\ c.count = windows[Me].count + 1
      BY <2>3, <2>5, <3>2, <3>3, <3>4, LimiterAssumption
    <3>5. CASE (Me \in DOMAIN windows => Expired(Me)) /\ c.start = clock /\ c.count = 1
      BY <2>3, <2>5, <3>2, <3>3, <3>5, LimiterAssumption DEF Expired
    <3> QED
      BY <2>4, <3>4, <3>5
  <2> QED
    BY <2>1, <2>5, <2>6, <2>7
<1> QED
  BY <1>1, <1>2

\* A call that a turn makes takes the grant the turn was given.
LEMMA CallsKeepGrants ==
    ASSUME CallsGranted, Limit > 0, NEW new, new \notin grants, grants' = grants \cup {new},
           new.key = Me, NEW call, calls' \subseteq calls \cup {call}, calls \subseteq calls',
           call.at = new.at
    PROVE  CallsGranted'
<1>1. PICK f \in Injection(calls, MyGrants) : \A c \in calls : f[c].at = c.at
  BY DEF CallsGranted
<1>2. MyGrants' = MyGrants \cup {new} /\ new \notin MyGrants
  BY DEF MyGrants
<1>3. /\ f \in [calls -> MyGrants]
      /\ \A a, b \in calls : f[a] = f[b] => a = b
  BY <1>1 DEF Injection, IsInjective
<1> DEFINE g == [c \in calls' |-> IF c \in calls THEN f[c] ELSE new]
<1>4. g \in [calls' -> MyGrants']
  BY <1>2, <1>3
<1>5. \A a, b \in calls' : g[a] = g[b] => a = b
  BY <1>2, <1>3
<1>6. \A c \in calls' : g[c].at = c.at
  BY <1>1
<1> HIDE DEF g
<1>7. g \in Injection(calls', MyGrants')
  BY <1>4, <1>5 DEF Injection, IsInjective
<1> QED
  BY <1>6, <1>7 DEF CallsGranted

\* Grants that no call takes leave the calls theirs.
LEMMA MoreGrants ==
    ASSUME CallsGranted, grants \subseteq grants', calls' = calls
    PROVE  CallsGranted'
<1> SUFFICES ASSUME Limit > 0
             PROVE  \E f \in Injection(calls, MyGrants') : \A c \in calls : f[c].at = c.at
  BY DEF CallsGranted
<1>1. PICK f \in Injection(calls, MyGrants) : \A c \in calls : f[c].at = c.at
  BY DEF CallsGranted
<1>2. MyGrants \subseteq MyGrants'
  BY DEF MyGrants
<1>3. f \in Injection(calls, MyGrants')
  BY <1>1, <1>2 DEF Injection, IsInjective
<1> QED
  BY <1>1, <1>3

\* Every step keeps the grants of the calls.
LEMMA SpendStep == SpendInv /\ [Next]_vars => SpendInv'
<1> SUFFICES ASSUME SpendInv, [Next]_vars PROVE SpendInv'
  OBVIOUS
<1>1. LimiterInv'
  <2>1. [Tick \/ \E k \in Keys : Attempt(k)]_<<windows, clock, grants>>
    BY ChatStep
  <2>2. CASE UNCHANGED <<windows, clock, grants>>
    BY <2>2 DEF SpendInv, LimiterInv, LimiterTypeOK, GrantsInWindow, PlacesDistinct,
                LiveOrPast, WindowsApart
  <2> QED
    BY <2>1, <2>2, TickKeeps, AttemptKeeps DEF SpendInv
<1>2. ASSUME grants' = grants, calls' = calls
      PROVE  OpensWithFirst' /\ CallsGranted'
  BY <1>2, MoreGrants DEF SpendInv, OpensWithFirst
<1>3. CASE UNCHANGED vars
  BY <1>1, <1>2, <1>3 DEF SpendInv, vars, server
<1>4. CASE Screen
  <2>1. grants' = grants /\ calls' = calls
    BY <1>4 DEF Screen, BeginTurn, Retry, NewConversation, BeginSave, Leave, Send, server
  <2> QED
    BY <1>1, <1>2, <2>1 DEF SpendInv
<1>5. CASE Network
  <2>1. grants' = grants /\ calls' = calls
    BY <1>5 DEF Network, Receive, NavigationFails, Heard, Disconnect, server
  <2> QED
    BY <1>1, <1>2, <2>1 DEF SpendInv
<1>6. CASE Pass
  <2>1. grants' = grants /\ calls' = calls
    BY <1>6 DEF Pass, Tick, limiter
  <2> QED
    BY <1>1, <1>2, <2>1 DEF SpendInv
<1>7. CASE Serve
  <2>1. PICK m \in requests : RefuseTurn(m) \/ Turn(m) \/ SavePack(m)
    BY <1>7 DEF Serve
  <2>2. CASE RefuseTurn(m) \/ SavePack(m)
    <3>1. grants' = grants /\ calls' = calls
      BY <2>2 DEF RefuseTurn, SavePack, limiter
    <3> QED
      BY <1>1, <1>2, <3>1 DEF SpendInv
  <2>3. CASE Turn(m)
    <3>1. \E allowed \in BOOLEAN :
            /\ Acquire(Me, allowed)
            /\ ~allowed => calls' = calls
            /\ allowed => calls' = Called(m) \/ calls' = calls
      BY <2>3, Zenon DEF Turn
    <3>2. PICK allowed \in BOOLEAN :
            /\ Acquire(Me, allowed)
            /\ ~allowed => calls' = calls
            /\ allowed => calls' = Called(m) \/ calls' = calls
      BY <3>1
    <3>3. CASE ~(Limit > 0)
      <4>1. Limit <= 0
        BY <3>3, LimiterAssumption
      <4>2. grants' = grants
        BY <3>2, <4>1, Zenon DEF Acquire
      <4>3. OpensWithFirst' /\ CallsGranted'
        BY <3>3, <4>2 DEF SpendInv, OpensWithFirst, CallsGranted
      <4> QED
        BY <1>1, <4>3 DEF SpendInv
    <3>4. CASE Limit > 0 /\ ~allowed
      <4>1. grants' = grants /\ calls' = calls
        BY <3>2, <3>4, AttemptGrants DEF SpendInv
      <4> QED
        BY <1>1, <1>2, <4>1 DEF SpendInv
    <3>5. CASE Limit > 0 /\ allowed
      <4>1. PICK new : /\ grants' = grants \cup {new} /\ new \notin grants
                       /\ new.key = Me /\ new.at = clock
                       /\ new.place = 1 => new.start = clock
        BY <3>2, <3>5, AttemptGrants DEF SpendInv
      <4>2. OpensWithFirst'
        BY <4>1 DEF SpendInv, OpensWithFirst
      <4>3. CallsGranted'
        <5> DEFINE call == [number |-> m.number, at |-> clock]
        <5>1. calls' \subseteq calls \cup {call} /\ calls \subseteq calls' /\ call.at = new.at
          BY <3>2, <3>5, <4>1 DEF Called
        <5> HIDE DEF call
        <5> QED
          BY <3>5, <4>1, <5>1, CallsKeepGrants DEF SpendInv
      <4> QED
        BY <1>1, <4>2, <4>3 DEF SpendInv
    <3> QED
      BY <3>3, <3>4, <3>5
  <2> QED
    BY <2>1, <2>2, <2>3
<1> QED
  BY <1>3, <1>4, <1>5, <1>6, <1>7 DEF Next

\* The calls of a span have places of their own: those of the window that opens
\* within the span, and after them all but the first one of the window before.
LEMMA SpanHolds ==
    ASSUME SpendInv, Limit > 0, NEW t \in Nat
    PROVE  Cardinality({c \in calls : t <= c.at /\ c.at < t + Window}) <= 2 * Limit - 1
<1> DEFINE S == {c \in calls : t <= c.at /\ c.at < t + Window}
<1>1. PICK f \in Injection(calls, MyGrants) : \A c \in calls : f[c].at = c.at
  BY DEF SpendInv, CallsGranted
<1>2. /\ f \in [calls -> MyGrants]
      /\ \A a, b \in calls : f[a] = f[b] => a = b
  BY <1>1 DEF Injection, IsInjective
<1> DEFINE place(c) == IF f[c].start >= t THEN f[c].place ELSE Limit + f[c].place - 1
           F == [c \in S |-> place(c)]
<1>3. ASSUME NEW c \in S
      PROVE  /\ f[c] \in grants /\ f[c].key = Me
             /\ f[c].start \in Nat /\ f[c].place \in 1 .. Limit
             /\ f[c].start < t + Window /\ t < f[c].start + Window
             /\ f[c].start < t => f[c].place # 1
  <2>1. f[c] \in grants /\ f[c].key = Me /\ f[c].at = c.at
    BY <1>1, <1>2 DEF MyGrants
  <2>2. /\ f[c].start \in Nat /\ f[c].place \in Nat \ {0} /\ f[c].at \in Nat
    BY <2>1 DEF SpendInv, LimiterInv, LimiterTypeOK, Grant
  <2>3. /\ f[c].place <= Limit /\ f[c].start <= f[c].at /\ f[c].at < f[c].start + Window
    BY <2>1 DEF SpendInv, LimiterInv, GrantsInWindow
  <2>4. f[c].place = 1 => f[c].at = f[c].start
    BY <2>1 DEF SpendInv, OpensWithFirst
  <2>5. t <= f[c].at /\ f[c].at < t + Window
    BY <2>1
  <2> QED
    BY <2>1, <2>2, <2>3, <2>4, <2>5, LimiterAssumption
<1>4. F \in [S -> 1 .. 2 * Limit - 1]
  <2>1. ASSUME NEW c \in S PROVE place(c) \in 1 .. 2 * Limit - 1
    <3>1. f[c].start \in Nat /\ f[c].place \in 1 .. Limit /\ (f[c].start < t => f[c].place # 1)
      BY <1>3
    <3> QED
      BY <3>1, LimiterAssumption
  <2> HIDE DEF place
  <2> QED
    BY <2>1
<1>5. ASSUME NEW a \in S, NEW b \in S, place(a) = place(b)
      PROVE  a = b
  <2>1. /\ f[a] \in grants /\ f[a].key = Me /\ f[a].start \in Nat /\ f[a].place \in 1 .. Limit
        /\ f[a].start < t + Window /\ t < f[a].start + Window
        /\ f[a].start < t => f[a].place # 1
    BY <1>3
  <2>2. /\ f[b] \in grants /\ f[b].key = Me /\ f[b].start \in Nat /\ f[b].place \in 1 .. Limit
        /\ f[b].start < t + Window /\ t < f[b].start + Window
        /\ f[b].start < t => f[b].place # 1
    BY <1>3
  <2>3. (f[a].start >= t) <=> (f[b].start >= t)
    BY <1>5, <2>1, <2>2, LimiterAssumption
  <2>4. f[a].place = f[b].place
    BY <1>5, <2>1, <2>2, <2>3, LimiterAssumption
  <2>5. f[a].start = f[b].start
    <3>1. /\ f[a].start < f[b].start => f[a].start + Window <= f[b].start
          /\ f[b].start < f[a].start => f[b].start + Window <= f[a].start
      BY <2>1, <2>2 DEF SpendInv, LimiterInv, WindowsApart
    <3> QED
      BY <2>1, <2>2, <2>3, <3>1, LimiterAssumption
  <2>6. f[a] = f[b]
    BY <2>1, <2>2, <2>4, <2>5 DEF SpendInv, LimiterInv, PlacesDistinct
  <2> QED
    BY <1>2, <2>6
<1>6. F \in Injection(S, 1 .. 2 * Limit - 1)
  <2>1. \A a, b \in S : F[a] = F[b] => a = b
    BY <1>5
  <2> HIDE DEF F
  <2> QED
    BY <1>4, <2>1 DEF Injection, IsInjective
<1>7. /\ IsFiniteSet(1 .. 2 * Limit - 1)
      /\ Cardinality(1 .. 2 * Limit - 1) = 2 * Limit - 1
  <2>1. 1 \in Int /\ 2 * Limit - 1 \in Int /\ ~(1 > 2 * Limit - 1)
    BY LimiterAssumption
  <2> QED
    BY <2>1, FS_Interval
<1> HIDE DEF F, S
<1>8. Cardinality(S) <= 2 * Limit - 1
  BY <1>6, <1>7, FS_Injection
<1> QED
  BY <1>8 DEF S

\* Whatever turns fail, are sent again or are abandoned, the model is called
\* less than twice as often as the limit in any Window seconds (the attempt is
\* counted before anything that may fail).
THEOREM SpendIsAlwaysCapped == Spec => []SpendIsCapped
<1>1. Init => SpendInv
  <2> SUFFICES ASSUME Init PROVE SpendInv
    OBVIOUS
  <2>1. LimiterInv /\ grants = {} /\ calls = {}
    BY LimiterStarts DEF Init, LimiterInit
  <2>2. [c \in {} |-> 0] \in Injection({}, MyGrants)
    BY DEF Injection, IsInjective
  <2>3. OpensWithFirst /\ CallsGranted
    BY <2>1, <2>2 DEF OpensWithFirst, CallsGranted
  <2> QED
    BY <2>1, <2>3 DEF SpendInv
<1>2. SpendInv => SpendIsCapped
  <2> SUFFICES ASSUME SpendInv, Limit > 0, NEW t \in 0 .. clock
               PROVE  Cardinality({c \in calls : t <= c.at /\ c.at < t + Window}) <= 2 * Limit - 1
    BY DEF SpendIsCapped
  <2>1. t \in Nat
    OBVIOUS
  <2> QED
    BY <2>1, SpanHolds
<1> QED
  BY <1>1, <1>2, SpendStep, PTL DEF Spec

-----------------------------------------------------------------------------
(* A draft is saved as often as it was asked.                              *)

\* The screen may ask once more to save its draft: nothing is being saved, or
\* what was asked has failed.
MaySave == chat.phase = "saving" =>
    \E a \in answers : a.number \in chat.waits /\ a.outcome # "ok"

\* The chances of a draft to be saved: the requests it was saved by, those the
\* server still has, and the one that the screen may send.
Chances(d) ==
    {p.number : p \in {q \in saved : q.draft = d}}
    \cup {m.number : m \in {n \in requests : n.kind = "save" /\ n.about = d}}
    \cup {n \in {0} : chat.draft = d /\ MaySave}

\* Drafts have the numbers of requests that were sent.
DraftsOK ==
    /\ chat.draft \in 0 .. sent
    /\ saved \subseteq [draft : 1 .. sent, number : 1 .. sent]
    /\ \A m \in requests : m.number # 0 /\ (m.kind = "save" => m.about \in 1 .. sent)

\* The draft that a turn will bring cannot have been saved.
FreshTurn ==
    \A m \in InFlight : m.kind = "turn" /\ m.number \in chat.waits => Chances(m.number) = {}

AtMost(S, n) == IsFiniteSet(S) /\ Cardinality(S) <= n

ChancesCounted == failures \in Nat /\ \A d : d # 0 => AtMost(Chances(d), 1 + failures)

SaveInv == WaitInv /\ DraftsOK /\ FreshTurn /\ ChancesCounted

\* Where a chance of a draft comes from.
LEMMA ChancesAre ==
    ASSUME NEW d, NEW n
    PROVE  n \in Chances(d) <=> \/ \E p \in saved : p.draft = d /\ p.number = n
                                \/ \E m \in requests : /\ m.kind = "save" /\ m.about = d
                                                       /\ m.number = n
                                \/ n = 0 /\ chat.draft = d /\ MaySave
BY DEF Chances

\* The same after a step.
LEMMA ChancesBecome ==
    ASSUME NEW d, NEW n
    PROVE  n \in Chances(d)' <=> \/ \E p \in saved' : p.draft = d /\ p.number = n
                                 \/ \E m \in requests' : /\ m.kind = "save" /\ m.about = d
                                                         /\ m.number = n
                                 \/ n = 0 /\ chat'.draft = d /\ MaySave'
BY DEF Chances

\* A set that loses elements, or gains one.
LEMMA AtMostSubset ==
    ASSUME NEW S, NEW n \in Nat, AtMost(S, n), NEW T, T \subseteq S
    PROVE  AtMost(T, n)
<1>1. IsFiniteSet(T) /\ Cardinality(T) <= Cardinality(S)
  BY FS_Subset DEF AtMost
<1>2. Cardinality(T) \in Nat /\ Cardinality(S) \in Nat
  BY <1>1, FS_CardinalityType DEF AtMost
<1> QED
  BY <1>1, <1>2 DEF AtMost

\* A set that gains an element is larger by one at most.
LEMMA AtMostAdd ==
    ASSUME NEW S, NEW n \in Nat, AtMost(S, n), NEW x, NEW T, T \subseteq S \cup {x}
    PROVE  AtMost(T, n + 1)
<1>1. /\ IsFiniteSet(S \cup {x})
      /\ Cardinality(S \cup {x}) = IF x \in S THEN Cardinality(S) ELSE Cardinality(S) + 1
  BY FS_AddElement DEF AtMost
<1>2. Cardinality(S) \in Nat /\ Cardinality(S) <= n
  BY FS_CardinalityType DEF AtMost
<1>3. AtMost(S \cup {x}, n + 1)
  BY <1>1, <1>2 DEF AtMost
<1> QED
  BY <1>3, AtMostSubset

\* A set of which one element gives way to another.
LEMMA AtMostReplace ==
    ASSUME NEW S, NEW n \in Nat, AtMost(S, n), NEW x \in S, NEW y, NEW T,
           T \subseteq (S \ {x}) \cup {y}
    PROVE  AtMost(T, n)
<1>1. IsFiniteSet(S \ {x}) /\ Cardinality(S \ {x}) = Cardinality(S) - 1
  BY FS_RemoveElement DEF AtMost
<1>2. Cardinality(S) \in Nat /\ Cardinality(S) <= n /\ Cardinality(S \ {x}) \in Nat
  BY <1>1, FS_CardinalityType DEF AtMost
<1>3. n - 1 \in Nat /\ AtMost(S \ {x}, n - 1)
  BY <1>1, <1>2 DEF AtMost
<1>4. AtMost(T, (n - 1) + 1)
  BY <1>3, AtMostAdd
<1> QED
  BY <1>4

\* Steps that add no chance, or one for a failure.
LEMMA CountKeeps ==
    ASSUME ChancesCounted, failures' \in {failures, failures + 1},
           \A d : d # 0 => IF failures' = failures THEN Chances(d)' \subseteq Chances(d)
                           ELSE Chances(d)' \subseteq Chances(d) \cup {0}
    PROVE  ChancesCounted'
<1>1. failures \in Nat /\ failures' \in Nat
  BY DEF ChancesCounted
<1>2. ASSUME NEW d, d # 0 PROVE AtMost(Chances(d)', 1 + failures')
  <2>1. AtMost(Chances(d), 1 + failures) /\ 1 + failures \in Nat
    BY <1>1, <1>2 DEF ChancesCounted
  <2>2. CASE failures' = failures
    BY <1>2, <2>1, <2>2, AtMostSubset
  <2>3. CASE failures' # failures
    <3>1. Chances(d)' \subseteq Chances(d) \cup {0}
      BY <1>2, <2>3
    <3>2. AtMost(Chances(d)', (1 + failures) + 1)
      BY <2>1, <3>1, AtMostAdd
    <3>0. failures' = failures + 1
      BY <2>3
    <3>3. (1 + failures) + 1 = 1 + failures'
      BY <1>1, <3>0
    <3> QED
      BY <3>2, <3>3
  <2> QED
    BY <2>2, <2>3
<1> QED
  BY <1>1, <1>2 DEF ChancesCounted, AtMost

\* A request for a turn, from an idle screen.
LEMMA TurnSentKeeps ==
    ASSUME SaveInv, chat.phase = "idle", NEW about, NEW shown,
           DOMAIN shown = DOMAIN chat, shown.waits = {}, shown.draft = chat.draft,
           Send("turn", about, shown)
    PROVE  DraftsOK' /\ FreshTurn' /\ ChancesCounted'
<1> DEFINE m == [number |-> sent', kind |-> "turn", about |-> about,
                 history |-> chat.history]
<1>1. /\ sent \in Nat /\ sent' = sent + 1 /\ requests' = requests \cup {m}
      /\ answers' = answers /\ saved' = saved /\ failures' = failures
      /\ chat' = [shown EXCEPT !.phase = BusyPhase("turn"), !.waits = @ \cup {sent'}]
  BY DEF Send, SaveInv, WaitInv, NumbersOK, server
<1>2. m.number = sent' /\ m.kind = "turn"
  OBVIOUS
<1>3. /\ chat'.phase = "sending" /\ chat'.waits = {sent'} /\ chat'.draft = chat.draft
  BY <1>1 DEF BusyPhase, SaveInv, WaitInv, IsScreen
<1> HIDE DEF m
<1>4. DraftsOK'
  BY <1>1, <1>2, <1>3 DEF SaveInv, DraftsOK
<1>5. \A d : Chances(d)' \subseteq Chances(d)
  <2>1. MaySave /\ MaySave'
    BY <1>3 DEF MaySave
  <2> QED
    BY <1>1, <1>2, <1>3, <2>1, ChancesAre, ChancesBecome
<1>6. ChancesCounted'
  BY <1>1, <1>5, CountKeeps DEF SaveInv
<1>7. Chances(sent') = {}
  <2>1. sent' # 0 /\ ~(sent' <= sent)
    BY <1>1
  <2> QED
    BY <1>1, <2>1, ChancesAre DEF SaveInv, DraftsOK
<1>8. FreshTurn'
  <2> SUFFICES ASSUME NEW n \in InFlight', n.number \in chat'.waits
               PROVE  Chances(n.number)' = {}
    BY DEF FreshTurn
  <2>1. n.number = sent'
    BY <1>3
  <2> QED
    BY <1>5, <1>7, <2>1
<1> QED
  BY <1>4, <1>6, <1>8

\* The request to save the draft takes the chance of the screen.
LEMMA SaveSentKeeps ==
    ASSUME SaveInv, BeginSave
    PROVE  DraftsOK' /\ FreshTurn' /\ ChancesCounted'
<1> DEFINE m == [number |-> sent', kind |-> "save", about |-> chat.draft,
                 history |-> chat.history]
<1>1. /\ sent \in Nat /\ sent' = sent + 1 /\ requests' = requests \cup {m}
      /\ answers' = answers /\ saved' = saved /\ failures' = failures
      /\ chat' = [chat EXCEPT !.phase = BusyPhase("save"), !.waits = @ \cup {sent'}]
      /\ chat.phase = "idle" /\ chat.draft # 0
  BY DEF BeginSave, Send, SaveInv, WaitInv, NumbersOK, server
<1>2. m.number = sent' /\ m.kind = "save" /\ m.about = chat.draft
  OBVIOUS
<1>3. chat'.phase = "saving" /\ chat'.waits = {sent'} /\ chat'.draft = chat.draft
  BY <1>1 DEF BusyPhase, SaveInv, WaitInv, IsScreen, WaitsOK
<1> HIDE DEF m
<1>4. DraftsOK'
  BY <1>1, <1>2, <1>3 DEF SaveInv, DraftsOK
<1>5. sent' # 0 /\ \A n \in InFlight : n.number # sent'
  BY <1>1 DEF SaveInv, WaitInv, NumbersOK
<1>6. FreshTurn'
  BY <1>1, <1>2, <1>3, <1>5 DEF FreshTurn, InFlight
<1>7. MaySave /\ ~MaySave'
  BY <1>1, <1>3, <1>5 DEF MaySave, InFlight
<1>8. ASSUME NEW d, d # 0 PROVE AtMost(Chances(d)', 1 + failures')
  <2>1. AtMost(Chances(d), 1 + failures) /\ 1 + failures \in Nat
    BY <1>8 DEF SaveInv, ChancesCounted
  <2>2. CASE d = chat.draft
    <3>1. 0 \in Chances(d)
      BY <1>7, <2>2, ChancesAre
    <3>2. \A n \in Chances(d)' : n \in Chances(d) \cup {sent'}
      BY <1>1, <1>2, <1>7, ChancesAre, ChancesBecome
    <3>3. 0 \notin Chances(d)'
      BY <1>1, <1>2, <1>5, <1>7, ChancesBecome DEF SaveInv, DraftsOK
    <3>4. Chances(d)' \subseteq (Chances(d) \ {0}) \cup {sent'}
      BY <3>2, <3>3
    <3>5. AtMost(Chances(d)', 1 + failures)
      BY <2>1, <3>1, <3>4, AtMostReplace
    <3> QED
      BY <1>1, <3>5
  <2>3. CASE d # chat.draft
    <3>1. Chances(d)' \subseteq Chances(d)
      BY <1>1, <1>2, <1>7, <2>3, ChancesAre, ChancesBecome
    <3> QED
      BY <1>1, <2>1, <3>1, AtMostSubset
  <2> QED
    BY <2>2, <2>3
<1>9. ChancesCounted'
  BY <1>1, <1>8 DEF SaveInv, ChancesCounted, AtMost
<1> QED
  BY <1>4, <1>6, <1>9

\* A new chat has no draft.
LEMMA NewChatKeeps ==
    ASSUME SaveInv, chat'.draft = 0, chat'.waits = {}, requests' = requests,
           saved' = saved, sent' = sent, failures' = failures
    PROVE  DraftsOK' /\ FreshTurn' /\ ChancesCounted'
<1>1. sent \in Nat
  BY DEF SaveInv, WaitInv, NumbersOK
<1>2. DraftsOK' /\ FreshTurn'
  BY <1>1 DEF SaveInv, DraftsOK, FreshTurn
<1>3. \A d : d # 0 => Chances(d)' \subseteq Chances(d)
  BY ChancesAre, ChancesBecome
<1> QED
  BY <1>2, <1>3, CountKeeps DEF SaveInv

\* What the server answers.  For a turn nothing else changes; a request to save
\* becomes the pack that it saved, or may have to be sent again.
LEMMA ServedKeeps ==
    ASSUME SaveInv, NEW m \in requests, NEW outcome, Reply(m, outcome),
           \/ m.kind = "turn" /\ saved' = saved
           \/ /\ m.kind = "save" /\ outcome # "rate_limited"
              /\ saved' \in {saved, saved \cup {[draft |-> m.about, number |-> m.number]}}
    PROVE  DraftsOK' /\ FreshTurn' /\ ChancesCounted'
<1> DEFINE history == IF m.kind = "turn" THEN Append(m.history, m.about) ELSE <<>>
           a == [number |-> m.number, kind |-> m.kind, about |-> m.about,
                 outcome |-> outcome, history |-> history]
           pack == [draft |-> m.about, number |-> m.number]
<1>1. /\ chat' = chat /\ sent' = sent /\ requests' = requests \ {m}
      /\ failures' = IF outcome \in {"ok", "rate_limited"} THEN failures ELSE failures + 1
  BY DEF Reply
<1>2. IF m.number \in chat.waits THEN answers' = answers \cup {a} ELSE answers' = answers
  BY DEF Reply
<1>3. a.number = m.number /\ a.kind = m.kind /\ a.outcome = outcome
  OBVIOUS
<1>4. pack.draft = m.about /\ pack.number = m.number
  OBVIOUS
<1>5. saved' = saved \/ (m.kind = "save" /\ saved' = saved \cup {pack})
  OBVIOUS
<1>6. m \in InFlight /\ sent \in Nat /\ m.number \in 1 .. sent
  BY DEF InFlight, SaveInv, WaitInv, NumbersOK, DraftsOK
<1>7. DraftsOK'
  <2>1. m.kind = "save" => pack \in [draft : 1 .. sent, number : 1 .. sent]
    BY <1>6 DEF SaveInv, DraftsOK
  <2> HIDE DEF a, history, pack
  <2> QED
    BY <1>1, <1>5, <2>1 DEF SaveInv, DraftsOK
<1> HIDE DEF a, history, pack
<1>8. ASSUME NEW d, NEW n \in Chances(d)', n # 0
      PROVE  n \in Chances(d)
  BY <1>1, <1>4, <1>5, <1>8, ChancesAre, ChancesBecome
<1>9. ASSUME MaySave', ~MaySave
      PROVE  m.kind = "save" /\ outcome # "ok" /\ chat.phase = "saving"
  <2>1. PICK b \in answers' : b.number \in chat.waits /\ b.outcome # "ok"
    BY <1>1, <1>9 DEF MaySave
  <2>2. b = a /\ b \notin answers /\ m.number \in chat.waits
    BY <1>2, <1>9, <2>1 DEF MaySave
  <2>3. chat.phase = BusyPhase(m.kind) /\ m.kind \in Kinds
    BY <1>6, <2>2, WaitedIsOfPhase DEF SaveInv
  <2>4. chat.phase = "saving"
    BY <1>9 DEF MaySave
  <2> QED
    BY <1>3, <2>1, <2>2, <2>3, <2>4 DEF BusyPhase, Kinds
<1>10. ChancesCounted'
  <2>1. ASSUME NEW d
        PROVE  IF failures' = failures THEN Chances(d)' \subseteq Chances(d)
               ELSE Chances(d)' \subseteq Chances(d) \cup {0}
    <3>1. CASE MaySave' => MaySave
      BY <1>1, <1>8, <3>1, ChancesAre, ChancesBecome
    <3>2. CASE MaySave' /\ ~MaySave
      <4>1. failures' = failures + 1 /\ failures \in Nat
        BY <1>1, <1>9, <3>2 DEF SaveInv, ChancesCounted
      <4>2. failures' # failures
        BY <4>1
      <4> QED
        BY <1>8, <4>2
    <3> QED
      BY <3>1, <3>2
  <2>2. failures' \in {failures, failures + 1}
    BY <1>1
  <2> QED
    BY <2>1, <2>2, CountKeeps DEF SaveInv
<1>11. FreshTurn'
  <2> SUFFICES ASSUME NEW t \in InFlight', t.kind = "turn", t.number \in chat.waits
               PROVE  Chances(t.number)' = {}
    BY <1>1 DEF FreshTurn
  <2>1. \E u \in InFlight : u.kind = "turn" /\ u.number = t.number
    BY <1>1, <1>2, <1>3, <1>6 DEF InFlight
  <2>2. Chances(t.number) = {} /\ chat.phase = "sending"
    BY <2>1, WaitedIsOfPhase DEF SaveInv, FreshTurn, BusyPhase
  <2>3. MaySave
    BY <2>2 DEF MaySave
  <2> QED
    BY <1>1, <1>8, <2>2, <2>3, ChancesAre, ChancesBecome
<1> QED
  BY <1>7, <1>10, <1>11

\* The end of a request that the screen waits for, without a new draft: an
\* answer that is a failure, or one that the screen sees fail now.
LEMMA FailedKeeps ==
    ASSUME SaveInv, chat'.draft = chat.draft, chat'.waits = {},
           saved' = saved, requests' \subseteq requests, sent' = sent,
           \/ failures' = failures /\ MaySave
           \/ failures' = failures + 1
    PROVE  DraftsOK' /\ FreshTurn' /\ ChancesCounted'
<1>1. DraftsOK' /\ FreshTurn'
  BY DEF SaveInv, DraftsOK, FreshTurn
<1>2. \A d : IF failures' = failures THEN Chances(d)' \subseteq Chances(d)
             ELSE Chances(d)' \subseteq Chances(d) \cup {0}
  <2>1. failures' = failures => MaySave
    BY DEF SaveInv, ChancesCounted
  <2>2. \A d : \A n \in Chances(d)' : n \in Chances(d) \/ (n = 0 /\ failures' # failures)
    BY <2>1, ChancesAre, ChancesBecome
  <2> QED
    BY <2>2
<1>3. ChancesCounted'
  BY <1>2, CountKeeps DEF SaveInv
<1> QED
  BY <1>1, <1>3

\* A turn brings its draft, which nobody could save before.
LEMMA DraftKeeps ==
    ASSUME SaveInv, NEW m \in InFlight, m.kind = "turn", m.number \in chat.waits,
           chat'.draft = m.number, chat'.waits = {},
           saved' = saved, requests' = requests, sent' = sent, failures' = failures
    PROVE  DraftsOK' /\ FreshTurn' /\ ChancesCounted'
<1>1. DraftsOK' /\ FreshTurn'
  BY DEF SaveInv, WaitInv, NumbersOK, DraftsOK, FreshTurn
<1>2. Chances(m.number) = {}
  BY DEF SaveInv, FreshTurn
<1>3. ASSUME NEW d, d # 0 PROVE AtMost(Chances(d)', 1 + failures')
  <2>1. AtMost(Chances(d), 1 + failures) /\ failures \in Nat
    BY <1>3 DEF SaveInv, ChancesCounted
  <2>2. CASE d = m.number
    <3>1. Chances(d)' \subseteq {} \cup {0}
      BY <1>2, <2>2, ChancesAre, ChancesBecome
    <3>2. AtMost({}, failures)
      BY <2>1, FS_EmptySet DEF AtMost
    <3>3. AtMost(Chances(d)', failures + 1)
      BY <2>1, <3>1, <3>2, AtMostAdd
    <3>4. failures + 1 = 1 + failures'
      BY <2>1
    <3> QED
      BY <3>3, <3>4
  <2>3. CASE d # m.number
    <3>1. Chances(d)' \subseteq Chances(d)
      BY <2>3, ChancesAre, ChancesBecome
    <3>2. 1 + failures \in Nat /\ 1 + failures' = 1 + failures
      BY <2>1
    <3> QED
      BY <2>1, <3>1, <3>2, AtMostSubset
  <2> QED
    BY <2>2, <2>3
<1>4. ChancesCounted'
  BY <1>3 DEF SaveInv, ChancesCounted, AtMost
<1> QED
  BY <1>1, <1>4

\* Every step keeps the count of chances.
LEMMA SaveStep == SaveInv /\ [Next]_vars => SaveInv'
<1> SUFFICES ASSUME SaveInv, [Next]_vars PROVE DraftsOK' /\ FreshTurn' /\ ChancesCounted'
  BY WaitInvKept DEF SaveInv
<1>0. /\ DOMAIN NewChat = DOMAIN chat /\ NewChat.draft = 0 /\ NewChat.waits = {}
      /\ DOMAIN chat = {"entries", "history", "draft", "phase", "waits"}
      /\ chat.phase = "idle" => chat.waits = {}
  BY DEF NewChat, SaveInv, WaitInv, IsScreen, WaitsOK
<1>1. CASE BeginTurn
  <2> DEFINE shown == [chat EXCEPT !.entries = Append(@, Said(asked'))]
  <2>1. chat.phase = "idle" /\ Send("turn", asked', shown)
    BY <1>1 DEF BeginTurn
  <2>2. DOMAIN shown = DOMAIN chat /\ shown.waits = {} /\ shown.draft = chat.draft
    BY <1>0, <2>1
  <2> HIDE DEF shown
  <2> QED
    BY <2>1, <2>2, TurnSentKeeps
<1>2. CASE Retry
  <2>1. chat.phase = "idle" /\ Send("turn", MessageAt(chat.entries, Len(chat.entries)), chat)
    BY <1>2 DEF Retry
  <2> QED
    BY <1>0, <2>1, TurnSentKeeps
<1>3. CASE BeginSave
  BY <1>3, SaveSentKeeps
<1>4. CASE NewConversation \/ Leave
  <2>1. chat'.draft = 0 /\ chat'.waits = {}
    BY <1>0, <1>4 DEF NewConversation, Leave, NewChat
  <2>2. requests' = requests /\ saved' = saved /\ sent' = sent /\ failures' = failures
    BY <1>4 DEF NewConversation, Leave, wire, server
  <2> QED
    BY <2>1, <2>2, NewChatKeeps
<1>5. CASE Serve
  <2>1. PICK m \in requests : RefuseTurn(m) \/ Turn(m) \/ SavePack(m)
    BY <1>5 DEF Serve
  <2>2. CASE RefuseTurn(m) \/ Turn(m)
    <3>1. m.kind = "turn" /\ saved' = saved /\ \E outcome : Reply(m, outcome)
      BY <2>2 DEF RefuseTurn, Turn
    <3> QED
      BY <3>1, ServedKeeps
  <2>3. CASE SavePack(m)
    <3>1. PICK outcome \in {"ok", "provider_failure", "save_rejected", "unauthenticated"} :
            /\ Reply(m, outcome)
            /\ saved' \in {saved, saved \cup {[draft |-> m.about, number |-> m.number]}}
      BY <2>3 DEF SavePack
    <3> QED
      BY <2>3, <3>1, ServedKeeps DEF SavePack
  <2> QED
    BY <2>1, <2>2, <2>3
<1>6. ASSUME NEW a \in answers, Receive(a)
      PROVE  DraftsOK' /\ FreshTurn' /\ ChancesCounted'
  <2>1. /\ a \in InFlight /\ a.number \in chat.waits /\ failures' = failures
        /\ saved' = saved /\ requests' = requests /\ sent' = sent
    BY <1>6 DEF Receive, Heard, InFlight, server
  <2>2. a.kind \in Kinds /\ chat.phase = BusyPhase(a.kind) /\ chat.waits = {a.number}
    BY <2>1, WaitedIsOfPhase DEF SaveInv
  <2>3. CASE a.outcome # "ok"
    <3>1. chat' = [ApplyFailure(a.outcome, a.kind) EXCEPT !.waits = @ \ {a.number}]
      BY <1>6, <2>3 DEF Receive, Heard
    <3>2. chat'.draft = chat.draft /\ chat'.waits = {}
      BY <1>0, <2>2, <3>1 DEF ApplyFailure
    <3>3. MaySave
      BY <2>1, <2>3 DEF MaySave
    <3> QED
      BY <2>1, <3>2, <3>3, FailedKeeps
  <2>4. CASE a.outcome = "ok" /\ a.kind = "turn"
    <3>1. chat' = [ApplyTurn(a) EXCEPT !.waits = @ \ {a.number}]
      BY <1>6, <2>4 DEF Receive, Heard
    <3>2. chat.phase = "sending"
      BY <2>2, <2>4 DEF BusyPhase
    <3>3. chat'.draft = a.number /\ chat'.waits = {}
      BY <1>0, <2>2, <3>1, <3>2 DEF ApplyTurn
    <3> QED
      BY <2>1, <2>4, <3>3, DraftKeeps
  <2>5. CASE a.outcome = "ok" /\ a.kind # "turn"
    <3>1. chat' = [NewChat EXCEPT !.waits = @ \ {a.number}]
      BY <1>6, <2>5 DEF Receive, Heard
    <3>2. chat'.draft = 0 /\ chat'.waits = {}
      BY <3>1 DEF NewChat
    <3> QED
      BY <2>1, <3>2, NewChatKeeps
  <2> QED
    BY <2>3, <2>4, <2>5
<1>7. ASSUME NEW a \in answers, NavigationFails(a)
      PROVE  DraftsOK' /\ FreshTurn' /\ ChancesCounted'
  <2>1. /\ a \in InFlight /\ a.number \in chat.waits /\ failures' = failures + 1
        /\ saved' = saved /\ requests' \subseteq requests /\ sent' = sent
        /\ chat' = [ApplyFailure("network_error", "save") EXCEPT !.waits = @ \ {a.number}]
    BY <1>7 DEF NavigationFails, Heard, InFlight, server
  <2>2. chat.waits = {a.number}
    BY <2>1, WaitedIsOfPhase DEF SaveInv
  <2>3. chat'.draft = chat.draft /\ chat'.waits = {}
    BY <1>0, <2>1, <2>2 DEF ApplyFailure
  <2> QED
    BY <2>1, <2>3, FailedKeeps
<1>8. ASSUME NEW m \in requests \cup answers, Disconnect(m)
      PROVE  DraftsOK' /\ FreshTurn' /\ ChancesCounted'
  <2>1. /\ m \in InFlight /\ m.number \in chat.waits /\ failures' = failures + 1
        /\ saved' = saved /\ requests' \subseteq requests /\ sent' = sent
        /\ chat' = [ApplyFailure("network_error", m.kind) EXCEPT !.waits = @ \ {m.number}]
    BY <1>8 DEF Disconnect, InFlight, server
  <2>2. chat.waits = {m.number}
    BY <2>1, WaitedIsOfPhase DEF SaveInv
  <2>3. chat'.draft = chat.draft /\ chat'.waits = {}
    BY <1>0, <2>1, <2>2 DEF ApplyFailure
  <2> QED
    BY <2>1, <2>3, FailedKeeps
<1>9. CASE Pass \/ UNCHANGED vars
  <2>1. UNCHANGED <<chat, requests, answers, sent, failures, saved>>
    BY <1>9 DEF Pass, vars, wire, server
  <2>2. \A d : Chances(d)' = Chances(d)
    BY <2>1 DEF Chances, MaySave
  <2>3. DraftsOK' /\ FreshTurn'
    BY <2>1, <2>2 DEF SaveInv, DraftsOK, FreshTurn, InFlight
  <2> QED
    BY <2>1, <2>2, <2>3, CountKeeps DEF SaveInv
<1> QED
  BY <1>1, <1>2, <1>3, <1>4, <1>5, <1>6, <1>7, <1>8, <1>9 DEF Next, Screen, Network

\* A draft is saved once, and at most once more for each failure that hid that
\* it had been saved or kept the screen from leaving (the isPending guard of
\* the save, and what the screen makes of its answers).
THEOREM SavesAreAsked == Spec => []SavedAsAsked
<1>1. Init => SaveInv
  <2> SUFFICES ASSUME Init PROVE SaveInv
    OBVIOUS
  <2>1. WaitInv
    BY DEF Init, NewChat, WaitInv, IsScreen, NumbersOK, WaitsOK, InFlight
  <2>2. /\ chat.draft = 0 /\ requests = {} /\ answers = {} /\ saved = {}
        /\ sent = 0 /\ failures = 0
    BY DEF Init, NewChat
  <2>3. \A d : d # 0 => Chances(d) = {}
    BY <2>2, ChancesAre
  <2>4. AtMost({}, 1 + 0)
    BY FS_EmptySet DEF AtMost
  <2>5. DraftsOK /\ FreshTurn /\ ChancesCounted
    BY <2>2, <2>3, <2>4 DEF DraftsOK, FreshTurn, InFlight, ChancesCounted
  <2> QED
    BY <2>1, <2>5 DEF SaveInv
<1>2. SaveInv => SavedAsAsked
  <2> SUFFICES ASSUME SaveInv, NEW pack \in saved
      PROVE  Cardinality({other \in saved : other.draft = pack.draft}) <= 1 + failures
    BY DEF SavedAsAsked
  <2> DEFINE S == {other \in saved : other.draft = pack.draft}
             f == [p \in S |-> p.number]
  <2>1. pack.draft # 0
    BY DEF SaveInv, DraftsOK
  <2>2. IsFiniteSet(Chances(pack.draft)) /\ Cardinality(Chances(pack.draft)) <= 1 + failures
    BY <2>1 DEF SaveInv, ChancesCounted, AtMost
  <2>3. ASSUME NEW p \in S, NEW q \in S, p.number = q.number PROVE p = q
    <3>1. p \in [draft : 1 .. sent, number : 1 .. sent]
          /\ q \in [draft : 1 .. sent, number : 1 .. sent]
          /\ p.draft = q.draft
      BY DEF SaveInv, DraftsOK
    <3> QED
      BY <2>3, <3>1
  <2>4. \A p \in S : p.number \in Chances(pack.draft)
    BY ChancesAre
  <2>5. f \in Injection(S, Chances(pack.draft))
    BY <2>3, <2>4 DEF Injection, IsInjective
  <2> HIDE DEF f, S
  <2>6. IsFiniteSet(S) /\ Cardinality(S) <= Cardinality(Chances(pack.draft))
    BY <2>2, <2>5, FS_Injection
  <2>7. Cardinality(S) \in Nat /\ Cardinality(Chances(pack.draft)) \in Nat /\ failures \in Nat
    BY <2>2, <2>6, FS_CardinalityType DEF SaveInv, ChancesCounted
  <2>8. Cardinality(S) <= 1 + failures
    BY <2>2, <2>6, <2>7
  <2> QED
    BY <2>8 DEF S
<1> QED
  BY <1>1, <1>2, SaveStep, PTL DEF Spec

-----------------------------------------------------------------------------
(* A transcript that grows.                                                *)

IsSeq(s) == s \in Seq(Range(s))

\* Up to every entry there is a message, the last of which MessageAt takes.
Rooted(s) == \A i \in DOMAIN s : Max(MessagesTo(s, i)) \in MessagesTo(s, i)

\* h holds what the answers in s are about, in their order, and each of them is
\* about the last message before it.
Paired(s, h) ==
    /\ Len(h) = Cardinality(Answers(s))
    /\ \A i \in Answers(s) :
         /\ h[Cardinality(Answers(s) \cap 1 .. i)] = s[i].about
         /\ MessageAt(s, i) = s[i].about

\* The last message of s.
LastMessage(s) == MessageAt(s, Len(s))

\* What it is to append.
LEMMA AppendIs ==
    ASSUME NEW s, IsSeq(s), NEW e
    PROVE  /\ IsSeq(Append(s, e))
           /\ Len(s) \in Nat /\ DOMAIN s = 1 .. Len(s)
           /\ Len(Append(s, e)) = Len(s) + 1 /\ DOMAIN Append(s, e) = 1 .. Len(s) + 1
           /\ \A i \in 1 .. Len(s) : Append(s, e)[i] = s[i]
           /\ Append(s, e)[Len(s) + 1] = e
<1> DEFINE S == Range(s) \cup {e}
           t == Append(s, e)
<1>1. s \in Seq(S)
  <2>1. Range(s) \subseteq S
    OBVIOUS
  <2> HIDE DEF S
  <2> QED BY <2>1 DEF IsSeq
<1>2. t \in Seq(S) /\ Len(t) = Len(s) + 1 /\ Len(s) \in Nat
  <2> HIDE DEF S
  <2>1. e \in S
    BY DEF S
  <2> QED BY <1>1, <2>1
<1>3. /\ DOMAIN s = 1 .. Len(s) /\ DOMAIN t = 1 .. Len(s) + 1
      /\ \A i \in 1 .. Len(s) : t[i] = s[i]
      /\ t[Len(s) + 1] = e
  <2> HIDE DEF S
  <2>1. e \in S
    BY DEF S
  <2> QED BY <1>1, <1>2, <2>1
<1>4. t \in [1 .. Len(s) + 1 -> Range(t)]
  <2> HIDE DEF t
  <2>1. t \in [1 .. Len(s) + 1 -> S]
    BY <1>2, <1>3
  <2> QED BY <1>3, <2>1 DEF Range
<1>5. t \in Seq(Range(t))
  <2> HIDE DEF t
  <2> QED BY <1>2, <1>4
<1> QED BY <1>2, <1>3, <1>5 DEF IsSeq

\* The entries before stay under the message they were under.
LEMMA MessagesStay ==
    ASSUME NEW s, IsSeq(s), Rooted(s), NEW e, NEW i \in DOMAIN s
    PROVE  /\ MessagesTo(Append(s, e), i) = MessagesTo(s, i)
           /\ MessageAt(Append(s, e), i) = MessageAt(s, i)
<1> DEFINE t == Append(s, e)
<1>1. i \in 1 .. Len(s) /\ Len(s) \in Nat /\ \A j \in 1 .. Len(s) : t[j] = s[j]
  BY AppendIs
<1>2. \A j \in 1 .. i : t[j] = s[j]
  BY <1>1
<1> HIDE DEF t
<1>3. MessagesTo(t, i) = MessagesTo(s, i)
  BY <1>2 DEF MessagesTo
<1>4. Max(MessagesTo(s, i)) \in 1 .. i
  BY DEF Rooted, MessagesTo
<1>5. t[Max(MessagesTo(t, i))] = s[Max(MessagesTo(s, i))]
  BY <1>2, <1>3, <1>4
<1> QED BY <1>3, <1>5 DEF MessageAt, t

\* A message becomes the last one.
LEMMA MessageAdds ==
    ASSUME NEW s, IsSeq(s), Rooted(s), NEW e, e.role = "user"
    PROVE  /\ Rooted(Append(s, e)) /\ Answers(Append(s, e)) = Answers(s)
           /\ LastMessage(Append(s, e)) = e.about
<1> DEFINE t == Append(s, e)
           n == Len(s) + 1
<1>1. /\ Len(s) \in Nat /\ DOMAIN s = 1 .. Len(s) /\ Len(t) = n /\ DOMAIN t = 1 .. n
      /\ \A i \in 1 .. Len(s) : t[i] = s[i]
      /\ t[n] = e
  BY AppendIs
<1>2. \A i \in DOMAIN s : MessagesTo(t, i) = MessagesTo(s, i)
  BY MessagesStay
<1> HIDE DEF t
<1>3. n \in MessagesTo(t, n) /\ MessagesTo(t, n) \subseteq 1 .. n
  BY <1>1 DEF MessagesTo
<1>4. Max(MessagesTo(t, n)) = n
  <2>1. \A y \in MessagesTo(t, n) : n >= y
    BY <1>1, <1>3
  <2>2. \A x \in MessagesTo(t, n) : (\A y \in MessagesTo(t, n) : x >= y) => x = n
    BY <1>1, <1>3
  <2> QED BY <1>3, <2>1, <2>2 DEF Max
<1>5. Rooted(t)
  <2> SUFFICES ASSUME NEW i \in 1 .. n PROVE Max(MessagesTo(t, i)) \in MessagesTo(t, i)
    BY <1>1 DEF Rooted
  <2>1. CASE i = n
    BY <1>3, <1>4, <2>1
  <2>2. CASE i # n
    BY <1>1, <1>2, <2>2 DEF Rooted
  <2> QED BY <2>1, <2>2
<1>6. Answers(t) = Answers(s)
  BY <1>1 DEF Answers
<1>7. LastMessage(t) = e.about
  BY <1>1, <1>4 DEF LastMessage, MessageAt
<1> QED BY <1>5, <1>6, <1>7 DEF t

\* Any other entry comes under the last message.
LEMMA OtherAdds ==
    ASSUME NEW s, IsSeq(s), Rooted(s), s # <<>>, NEW e, e.role # "user"
    PROVE  /\ Rooted(Append(s, e)) /\ LastMessage(Append(s, e)) = LastMessage(s)
           /\ e.role # "answer" => Answers(Append(s, e)) = Answers(s)
           /\ e.role = "answer" => Answers(Append(s, e)) = Answers(s) \cup {Len(s) + 1}
<1> DEFINE t == Append(s, e)
           n == Len(s) + 1
<1>1. /\ Len(s) \in Nat /\ DOMAIN s = 1 .. Len(s) /\ Len(t) = n /\ DOMAIN t = 1 .. n
      /\ \A i \in 1 .. Len(s) : t[i] = s[i]
      /\ t[n] = e
  BY AppendIs
<1>2. \A i \in DOMAIN s : /\ MessagesTo(t, i) = MessagesTo(s, i)
                          /\ MessageAt(t, i) = MessageAt(s, i)
  BY MessagesStay
<1>3. Len(s) \in DOMAIN s
  BY <1>1 DEF IsSeq
<1> HIDE DEF t
<1>4. MessagesTo(t, n) = MessagesTo(t, Len(s))
  BY <1>1 DEF MessagesTo
<1>5. Rooted(t)
  <2> SUFFICES ASSUME NEW i \in 1 .. n PROVE Max(MessagesTo(t, i)) \in MessagesTo(t, i)
    BY <1>1 DEF Rooted
  <2>1. CASE i = n
    BY <1>2, <1>3, <1>4, <2>1 DEF Rooted
  <2>2. CASE i # n
    BY <1>1, <1>2, <2>2 DEF Rooted
  <2> QED BY <2>1, <2>2
<1>6. LastMessage(t) = LastMessage(s)
  BY <1>1, <1>2, <1>3, <1>4 DEF LastMessage, MessageAt
<1>7. e.role # "answer" => Answers(t) = Answers(s)
  BY <1>1 DEF Answers
<1>8. e.role = "answer" => Answers(t) = Answers(s) \cup {n}
  BY <1>1 DEF Answers
<1> QED BY <1>5, <1>6, <1>7, <1>8 DEF t

\* What is no answer leaves the answers and their history in step.
LEMMA PairedKeeps ==
    ASSUME NEW s, IsSeq(s), Rooted(s), NEW h, Paired(s, h), NEW e,
           Answers(Append(s, e)) = Answers(s)
    PROVE  Paired(Append(s, e), h)
<1> DEFINE t == Append(s, e)
<1>1. DOMAIN s = 1 .. Len(s) /\ \A i \in 1 .. Len(s) : t[i] = s[i]
  BY AppendIs
<1>2. \A i \in Answers(s) : i \in DOMAIN s
  BY DEF Answers
<1>3. \A i \in Answers(s) : t[i] = s[i] /\ MessageAt(t, i) = MessageAt(s, i)
  BY <1>1, <1>2, MessagesStay
<1> HIDE DEF t
<1> QED BY <1>3 DEF Paired, t

\* An answer to the last message goes at the end of the history.
LEMMA PairedGrows ==
    ASSUME NEW s, IsSeq(s), Rooted(s), s # <<>>, NEW h, IsSeq(h), Paired(s, h),
           NEW e, e.role = "answer", e.about = LastMessage(s)
    PROVE  Paired(Append(s, e), Append(h, e.about))
<1> DEFINE t == Append(s, e)
           g == Append(h, e.about)
           n == Len(s) + 1
           A == Answers(s)
           B == Answers(t)
<1>1. /\ Len(s) \in Nat /\ DOMAIN s = 1 .. Len(s) /\ Len(t) = n
      /\ \A i \in 1 .. Len(s) : t[i] = s[i]
      /\ t[n] = e
  BY AppendIs
<1>2. /\ Len(h) \in Nat /\ Len(g) = Len(h) + 1
      /\ \A i \in 1 .. Len(h) : g[i] = h[i]
      /\ g[Len(h) + 1] = e.about
  BY AppendIs
<1>3. B = A \cup {n} /\ LastMessage(t) = e.about
  BY OtherAdds
<1>4. \A i \in DOMAIN s : MessageAt(t, i) = MessageAt(s, i)
  BY MessagesStay
<1>5. A \subseteq 1 .. Len(s)
  BY <1>1 DEF Answers
<1> HIDE DEF t, g, A, B
<1>6. IsFiniteSet(A)
  <2>1. IsFiniteSet(1 .. Len(s))
    BY <1>1, FS_Interval
  <2> QED BY <1>5, <2>1, FS_Subset
<1>7. Cardinality(A) = Len(h) /\ Cardinality(B) = Len(h) + 1
  <2>1. n \notin A
    BY <1>1, <1>5
  <2>2. Cardinality(A) = Len(h)
    BY DEF Paired, A
  <2> QED BY <1>3, <1>6, <2>1, <2>2, FS_AddElement
<1>8. ASSUME NEW i \in A
      PROVE  g[Cardinality(B \cap 1 .. i)] = t[i].about /\ MessageAt(t, i) = t[i].about
  <2>1. B \cap 1 .. i = A \cap 1 .. i
    BY <1>1, <1>3, <1>5
  <2>2. /\ IsFiniteSet(A \cap 1 .. i) /\ i \in A \cap 1 .. i
        /\ Cardinality(A \cap 1 .. i) <= Cardinality(A)
    <3>1. i \in 1 .. i
      BY <1>1, <1>5
    <3> QED BY <1>6, <3>1, FS_Intersection
  <2>3. Cardinality(A \cap 1 .. i) \in Nat /\ Cardinality(A \cap 1 .. i) # 0
    BY <2>2, FS_CardinalityType, FS_EmptySet
  <2>4. Cardinality(A \cap 1 .. i) \in 1 .. Len(h)
    BY <1>2, <1>7, <2>2, <2>3
  <2>5. h[Cardinality(A \cap 1 .. i)] = s[i].about /\ MessageAt(s, i) = s[i].about
    BY DEF Paired, A
  <2>6. i \in 1 .. Len(s)
    BY <1>5
  <2> QED BY <1>1, <1>2, <1>4, <2>1, <2>4, <2>5, <2>6
<1>9. g[Cardinality(B \cap 1 .. n)] = t[n].about /\ MessageAt(t, n) = t[n].about
  <2>1. B \cap 1 .. n = B
    <3>1. \A i \in B : i \in 1 .. n
      BY <1>1, <1>3, <1>5
    <3> QED BY <3>1
  <2> QED BY <1>1, <1>2, <1>3, <1>7, <2>1 DEF LastMessage
<1>10. Paired(t, g)
  BY <1>2, <1>3, <1>7, <1>8, <1>9 DEF Paired, B
<1> QED BY <1>10 DEF t, g

-----------------------------------------------------------------------------
(* The conversation.                                                       *)

\* The transcript is in order, and one that is sent or saved is not empty.
TalkOK ==
    /\ IsSeq(chat.entries) /\ IsSeq(chat.history)
    /\ Rooted(chat.entries) /\ Paired(chat.entries, chat.history)
    /\ chat.phase # "idle" \/ chat.draft # 0 => chat.entries # <<>>

\* Nothing was said yet with the number that the next message gets.
TopicsOK ==
    /\ asked \in Nat
    /\ \A i \in Answers(chat.entries) : chat.entries[i].about \in 1 .. asked
    /\ chat.entries # <<>> => LastMessage(chat.entries) \in 1 .. asked

\* A turn that the screen waits for is about its last message, and its answer
\* brings the history of the screen back with that message behind it.
TurnsOK ==
    /\ \A m \in requests : m.kind = "turn" /\ m.number \in chat.waits =>
         m.about = LastMessage(chat.entries) /\ m.history = chat.history
    /\ \A a \in answers : a.kind = "turn" /\ a.number \in chat.waits =>
         /\ a.about = LastMessage(chat.entries)
         /\ a.history = Append(chat.history, a.about)

\* In the practice chat the last message has no answer while a turn is awaited
\* or the last entry is none.
OnceOK ==
    feature = "practice" =>
        /\ chat.phase # "saving"
        /\ AnsweredOnce
        /\ chat.entries # <<>> =>
             \/ chat.phase # "sending" /\ chat.entries[Len(chat.entries)].role = "answer"
             \/ \A i \in Answers(chat.entries) :
                   chat.entries[i].about # LastMessage(chat.entries)

TalkInv == WaitInv /\ TalkOK /\ TopicsOK /\ TurnsOK /\ OnceOK

\* A screen that waits for nothing waits for no turn.
LEMMA NoTurns == ASSUME WaitInv', chat'.phase = "idle" PROVE TurnsOK'
<1>1. chat'.waits = {}
  BY DEF WaitInv, WaitsOK
<1> QED BY <1>1 DEF TurnsOK

\* A new conversation.
LEMMA FreshKeeps ==
    ASSUME WaitInv', asked \in Nat, asked' = asked, chat'.phase = "idle",
           chat'.entries = <<>>, chat'.history = <<>>, chat'.draft = 0
    PROVE  TalkInv'
<1>1. Answers(<<>>) = {} /\ Len(<<>>) = 0 /\ DOMAIN <<>> = {}
  BY DEF Answers
<1>2. IsSeq(<<>>)
  BY DEF IsSeq
<1>3. TalkOK'
  BY <1>1, <1>2, FS_EmptySet DEF TalkOK, Rooted, Paired
<1>4. TopicsOK' /\ OnceOK'
  BY <1>1 DEF TopicsOK, OnceOK, AnsweredOnce
<1> QED BY <1>3, <1>4, NoTurns DEF TalkInv

\* A new message, sent from an idle screen.
LEMMA MessageKeeps ==
    ASSUME TalkInv, WaitInv', chat.phase = "idle", feature' = feature,
           asked' = asked + 1, answers' = answers, chat'.phase = "sending",
           chat'.entries = Append(chat.entries, Said(asked')),
           chat'.history = chat.history,
           NEW m, m.about = asked', m.history = chat.history,
           requests' = requests \cup {m}, chat'.waits = {m.number},
           \A n \in InFlight : n.number # m.number
    PROVE  TalkInv'
<1> DEFINE s == chat.entries
           e == Said(asked')
           t == Append(s, e)
<1>1. e.role = "user" /\ e.about = asked'
  BY DEF Said
<1>2. IsSeq(s) /\ Rooted(s) /\ Paired(s, chat.history) /\ IsSeq(chat.history)
  BY DEF TalkInv, TalkOK
<1> HIDE DEF e
<1>3. /\ IsSeq(t) /\ Len(s) \in Nat /\ DOMAIN s = 1 .. Len(s)
      /\ Len(t) = Len(s) + 1 /\ DOMAIN t = 1 .. Len(s) + 1
      /\ \A i \in 1 .. Len(s) : t[i] = s[i]
      /\ t[Len(s) + 1] = e
  BY <1>2, AppendIs
<1>4. Rooted(t) /\ Answers(t) = Answers(s) /\ LastMessage(t) = asked'
  BY <1>1, <1>2, MessageAdds
<1>5. Paired(t, chat.history)
  BY <1>2, <1>4, PairedKeeps
<1>6. chat'.entries = t
  BY DEF e
<1> HIDE DEF t
<1>7. t # <<>>
  BY <1>3
<1>8. TalkOK'
  BY <1>2, <1>3, <1>4, <1>5, <1>6, <1>7 DEF TalkOK
<1>9. Answers(s) \subseteq 1 .. Len(s)
  BY <1>3 DEF Answers
<1>10. asked \in Nat /\ \A i \in Answers(s) : s[i].about \in 1 .. asked
  BY DEF TalkInv, TopicsOK
<1>11. \A i \in Answers(s) : t[i] = s[i] /\ t[i].about \in 1 .. asked
  BY <1>3, <1>9, <1>10
<1>12. TopicsOK'
  <2>1. asked' \in Nat /\ asked' \in 1 .. asked' /\ \A k \in 1 .. asked : k \in 1 .. asked'
    BY <1>10
  <2>2. \A i \in Answers(t) : t[i].about \in 1 .. asked'
    BY <1>4, <1>11, <2>1
  <2> QED BY <1>4, <1>6, <2>1, <2>2 DEF TopicsOK
<1>13. TurnsOK'
  BY <1>4, <1>6 DEF TurnsOK, InFlight
<1>14. OnceOK'
  <2> SUFFICES ASSUME feature = "practice" PROVE OnceOK'
    BY DEF OnceOK
  <2>1. ASSUME NEW i \in DOMAIN t, NEW j \in DOMAIN t, t[i].role = "answer", t[i] = t[j]
        PROVE  i = j
    <3>1. i \in Answers(t) /\ j \in Answers(t)
      BY <2>1 DEF Answers
    <3>2. i \in DOMAIN s /\ j \in DOMAIN s /\ s[i] = s[j] /\ s[i].role = "answer"
      BY <1>3, <1>4, <1>9, <2>1, <3>1
    <3> QED BY <3>2 DEF TalkInv, OnceOK, AnsweredOnce
  <2>2. AnsweredOnce'
    BY <1>6, <2>1 DEF AnsweredOnce
  <2>3. \A i \in Answers(t) : t[i].about # LastMessage(t)
    BY <1>4, <1>10, <1>11
  <2> QED BY <1>6, <2>2, <2>3 DEF OnceOK
<1> QED BY <1>8, <1>12, <1>13, <1>14 DEF TalkInv

\* The last message once more: the entries are those there were, the last one
\* of the practice chat a failure.
LEMMA AgainKeeps ==
    ASSUME TalkInv, WaitInv', chat.phase = "idle", feature' = feature,
           asked' = asked, answers' = answers, chat'.phase = "sending",
           chat'.entries = chat.entries, chat'.history = chat.history,
           chat.entries # <<>>,
           feature = "practice" => chat.entries[Len(chat.entries)].role # "answer",
           NEW m, m.about = LastMessage(chat.entries), m.history = chat.history,
           requests' = requests \cup {m}, chat'.waits = {m.number},
           \A n \in InFlight : n.number # m.number
    PROVE  TalkInv'
<1>1. TalkOK' /\ TopicsOK'
  BY DEF TalkInv, TalkOK, TopicsOK
<1>2. TurnsOK'
  BY DEF TurnsOK, InFlight
<1>3. OnceOK'
  BY DEF TalkInv, OnceOK, AnsweredOnce
<1> QED BY <1>1, <1>2, <1>3 DEF TalkInv

\* A failure is shown, at the end of the request that the screen waited for.
LEMMA FailureKeeps ==
    ASSUME TalkInv, WaitInv', chat.phase # "idle", feature' = feature,
           asked' = asked, chat'.phase = "idle", chat'.history = chat.history,
           NEW e, e.role = "error", chat'.entries = Append(chat.entries, e)
    PROVE  TalkInv'
<1> DEFINE s == chat.entries
           t == Append(s, e)
<1>1. IsSeq(s) /\ Rooted(s) /\ Paired(s, chat.history) /\ IsSeq(chat.history) /\ s # <<>>
  BY DEF TalkInv, TalkOK
<1>2. /\ IsSeq(t) /\ Len(s) \in Nat /\ DOMAIN s = 1 .. Len(s)
      /\ Len(t) = Len(s) + 1 /\ DOMAIN t = 1 .. Len(s) + 1
      /\ \A i \in 1 .. Len(s) : t[i] = s[i]
      /\ t[Len(s) + 1] = e
  BY <1>1, AppendIs
<1>3. Rooted(t) /\ Answers(t) = Answers(s) /\ LastMessage(t) = LastMessage(s)
  BY <1>1, OtherAdds
<1>4. Paired(t, chat.history)
  BY <1>1, <1>3, PairedKeeps
<1>5. chat'.entries = t
  OBVIOUS
<1> HIDE DEF t
<1>6. t # <<>>
  BY <1>2
<1>7. TalkOK'
  BY <1>1, <1>2, <1>3, <1>4, <1>5, <1>6 DEF TalkOK
<1>8. \A i \in Answers(s) : t[i] = s[i] /\ i \in DOMAIN s
  BY <1>2 DEF Answers
<1>9. TopicsOK'
  BY <1>1, <1>3, <1>5, <1>8 DEF TalkInv, TopicsOK
<1>10. OnceOK'
  <2> SUFFICES ASSUME feature = "practice" PROVE OnceOK'
    BY DEF OnceOK
  <2>1. ASSUME NEW i \in DOMAIN t, NEW j \in DOMAIN t, t[i].role = "answer", t[i] = t[j]
        PROVE  i = j
    <3>1. i \in Answers(t) /\ j \in Answers(t)
      BY <2>1 DEF Answers
    <3>2. i \in DOMAIN s /\ j \in DOMAIN s /\ s[i] = s[j] /\ s[i].role = "answer"
      BY <1>3, <1>8, <2>1, <3>1
    <3> QED BY <3>2 DEF TalkInv, OnceOK, AnsweredOnce
  <2>2. AnsweredOnce'
    BY <1>5, <2>1 DEF AnsweredOnce
  <2>3. chat.phase = "sending"
    BY DEF TalkInv, OnceOK, WaitInv, IsScreen
  <2>4. \A i \in Answers(s) : s[i].about # LastMessage(s)
    BY <1>1, <2>3 DEF TalkInv, OnceOK
  <2>5. \A i \in Answers(t) : t[i].about # LastMessage(t)
    BY <1>3, <1>8, <2>4
  <2> QED BY <1>5, <2>2, <2>5 DEF OnceOK
<1> QED BY <1>7, <1>9, <1>10, NoTurns DEF TalkInv

\* The answer to a turn is shown.
LEMMA AnswerKeeps ==
    ASSUME TalkInv, WaitInv', chat.phase = "sending", feature' = feature,
           asked' = asked, chat'.phase = "idle",
           NEW a \in answers, a.kind = "turn", a.number \in chat.waits,
           chat'.entries = Append(chat.entries, Answered(a.about)),
           chat'.history = a.history
    PROVE  TalkInv'
<1> DEFINE s == chat.entries
           e == Answered(a.about)
           t == Append(s, e)
           h == Append(chat.history, e.about)
<1>1. e.role = "answer" /\ e.about = a.about
  BY DEF Answered
<1>2. IsSeq(s) /\ Rooted(s) /\ Paired(s, chat.history) /\ IsSeq(chat.history) /\ s # <<>>
  BY DEF TalkInv, TalkOK
<1>3. e.about = LastMessage(s) /\ chat'.history = h
  BY <1>1 DEF TalkInv, TurnsOK
<1>4. chat'.entries = t
  OBVIOUS
<1> HIDE DEF e
<1>5. /\ IsSeq(t) /\ Len(s) \in Nat /\ DOMAIN s = 1 .. Len(s)
      /\ Len(t) = Len(s) + 1 /\ DOMAIN t = 1 .. Len(s) + 1
      /\ \A i \in 1 .. Len(s) : t[i] = s[i]
      /\ t[Len(s) + 1] = e
  BY <1>2, AppendIs
<1>6. /\ Rooted(t) /\ Answers(t) = Answers(s) \cup {Len(s) + 1}
      /\ LastMessage(t) = LastMessage(s)
  BY <1>1, <1>2, OtherAdds
<1>7. Paired(t, h)
  BY <1>1, <1>2, <1>3, PairedGrows
<1>8. IsSeq(h)
  BY <1>2, AppendIs
<1> HIDE DEF t, h
<1>9. t # <<>>
  BY <1>5
<1>10. TalkOK'
  BY <1>3, <1>4, <1>5, <1>6, <1>7, <1>8, <1>9 DEF TalkOK
<1>11. \A i \in Answers(s) : t[i] = s[i] /\ i \in DOMAIN s
  BY <1>5 DEF Answers
<1>12. LastMessage(s) \in 1 .. asked /\ \A i \in Answers(s) : s[i].about \in 1 .. asked
  BY <1>2 DEF TalkInv, TopicsOK
<1>13. \A i \in Answers(t) : t[i].about \in 1 .. asked
  BY <1>3, <1>5, <1>6, <1>11, <1>12
<1>14. TopicsOK'
  BY <1>4, <1>6, <1>12, <1>13 DEF TalkInv, TopicsOK
<1>15. OnceOK'
  <2> SUFFICES ASSUME feature = "practice" PROVE OnceOK'
    BY DEF OnceOK
  <2>1. \A i \in Answers(s) : s[i].about # LastMessage(s)
    BY <1>2 DEF TalkInv, OnceOK
  <2>2. ASSUME NEW i \in DOMAIN t, NEW j \in DOMAIN t, t[i].role = "answer", t[i] = t[j]
        PROVE  i = j
    <3>1. i \in Answers(t) /\ j \in Answers(t) /\ t[i].about = t[j].about
      BY <2>2 DEF Answers
    <3>2. CASE i \in Answers(s) /\ j \in Answers(s)
      <4>1. i \in DOMAIN s /\ j \in DOMAIN s /\ s[i] = s[j] /\ s[i].role = "answer"
        BY <1>11, <2>2, <3>2
      <4> QED BY <4>1 DEF TalkInv, OnceOK, AnsweredOnce
    <3>3. CASE ~(i \in Answers(s) /\ j \in Answers(s))
      BY <1>3, <1>5, <1>6, <1>11, <2>1, <3>1, <3>3
    <3> QED BY <3>2, <3>3
  <2>3. AnsweredOnce'
    BY <1>4, <2>2 DEF AnsweredOnce
  <2>4. t[Len(t)].role = "answer"
    BY <1>1, <1>5
  <2> QED BY <1>4, <2>3, <2>4 DEF OnceOK
<1> QED BY <1>10, <1>14, <1>15, NoTurns DEF TalkInv

\* Each ending of a request that the screen waited for.
LEMMA EndKeeps ==
    ASSUME TalkInv, WaitInv', NEW m \in InFlight, m.number \in chat.waits, NEW failure,
           chat' = [ApplyFailure(failure, m.kind) EXCEPT !.waits = @ \ {m.number}],
           feature' = feature, asked' = asked
    PROVE  TalkInv'
<1>1. m.kind \in Kinds /\ chat.phase = BusyPhase(m.kind)
  BY WaitedIsOfPhase DEF TalkInv
<1>2. chat.phase # "idle"
  BY <1>1 DEF BusyPhase
<1>3. DOMAIN chat = {"entries", "history", "draft", "phase", "waits"}
  BY DEF TalkInv, WaitInv, IsScreen
<1>4. /\ chat'.phase = "idle" /\ chat'.history = chat.history
      /\ chat'.entries = Append(chat.entries, Failed(failure, m.kind))
  BY <1>1, <1>3 DEF ApplyFailure
<1>5. Failed(failure, m.kind).role = "error"
  BY DEF Failed
<1> QED BY <1>2, <1>4, <1>5, FailureKeeps

\* The server answers: an answer that is waited for brings back what the turn
\* it answers took along.
LEMMA AnsweringKeeps ==
    ASSUME TalkInv, WaitInv', NEW m \in requests, NEW outcome, Reply(m, outcome)
    PROVE  TalkInv'
<1> DEFINE history == IF m.kind = "turn" THEN Append(m.history, m.about) ELSE <<>>
           a == [number |-> m.number, kind |-> m.kind, about |-> m.about,
                 outcome |-> outcome, history |-> history]
<1>1. /\ chat' = chat /\ feature' = feature /\ asked' = asked
      /\ requests' = requests \ {m}
  BY DEF Reply
<1>2. IF m.number \in chat.waits THEN answers' = answers \cup {a} ELSE answers' = answers
  BY DEF Reply
<1>3. /\ a.number = m.number /\ a.kind = m.kind /\ a.about = m.about
      /\ a.kind = "turn" => a.history = Append(m.history, m.about)
  OBVIOUS
<1> HIDE DEF a, history
<1>4. TurnsOK'
  BY <1>1, <1>2, <1>3 DEF TalkInv, TurnsOK
<1>5. TalkOK' /\ TopicsOK' /\ OnceOK'
  BY <1>1 DEF TalkInv, TalkOK, TopicsOK, OnceOK, AnsweredOnce
<1> QED BY <1>4, <1>5 DEF TalkInv

\* Every step keeps the conversation in order.
LEMMA TalkStep == TalkInv /\ [Next]_vars => TalkInv'
<1> SUFFICES ASSUME TalkInv, [Next]_vars PROVE TalkInv'
  OBVIOUS
<1>0. /\ WaitInv' /\ WaitInv /\ asked \in Nat
      /\ DOMAIN chat = {"entries", "history", "draft", "phase", "waits"}
      /\ chat.phase = "idle" => chat.waits = {}
      /\ sent \in Nat /\ \A n \in InFlight : n.number # sent + 1
  BY WaitInvKept DEF TalkInv, TopicsOK, WaitInv, IsScreen, WaitsOK, NumbersOK
<1>1. CASE BeginTurn
  <2> DEFINE shown == [chat EXCEPT !.entries = Append(@, Said(asked'))]
             m == [number |-> sent', kind |-> "turn", about |-> asked',
                   history |-> chat.history]
  <2>1. chat.phase = "idle" /\ asked' = asked + 1 /\ Send("turn", asked', shown)
    BY <1>1 DEF BeginTurn
  <2>2. /\ feature' = feature /\ answers' = answers /\ sent' = sent + 1
        /\ requests' = requests \cup {m}
        /\ chat' = [shown EXCEPT !.phase = "sending", !.waits = @ \cup {sent'}]
    BY <2>1 DEF Send, BusyPhase
  <2>3. /\ chat'.phase = "sending" /\ chat'.history = chat.history
        /\ chat'.entries = Append(chat.entries, Said(asked'))
        /\ chat'.waits = {sent'}
    BY <1>0, <2>1, <2>2
  <2>4. m.number = sent' /\ m.about = asked' /\ m.history = chat.history
    OBVIOUS
  <2> HIDE DEF m, shown
  <2> QED BY <1>0, <2>1, <2>2, <2>3, <2>4, MessageKeeps, ZenonT(30)
<1>2. CASE Retry
  <2> DEFINE topic == MessageAt(chat.entries, Len(chat.entries))
             m == [number |-> sent', kind |-> "turn", about |-> topic,
                   history |-> chat.history]
  <2>1. /\ chat.phase = "idle" /\ asked' = asked /\ Send("turn", topic, chat)
        /\ \E i \in DOMAIN chat.entries : OffersRetry(i)
    BY <1>2 DEF Retry
  <2>2. /\ feature' = feature /\ answers' = answers /\ sent' = sent + 1
        /\ requests' = requests \cup {m}
        /\ chat' = [chat EXCEPT !.phase = "sending", !.waits = @ \cup {sent'}]
    BY <2>1 DEF Send, BusyPhase
  <2>3. /\ chat'.phase = "sending" /\ chat'.history = chat.history
        /\ chat'.entries = chat.entries /\ chat'.waits = {sent'}
    BY <1>0, <2>1, <2>2
  <2>4. m.number = sent' /\ m.about = LastMessage(chat.entries) /\ m.history = chat.history
    BY DEF LastMessage
  <2>5. /\ chat.entries # <<>>
        /\ feature = "practice" => chat.entries[Len(chat.entries)].role # "answer"
    BY <2>1 DEF OffersRetry
  <2> HIDE DEF m, topic
  <2> QED BY <1>0, <2>1, <2>2, <2>3, <2>4, <2>5, AgainKeeps
<1>3. CASE NewConversation \/ Leave
  <2>1. /\ asked' = asked /\ chat'.phase = "idle" /\ chat'.entries = <<>>
        /\ chat'.history = <<>> /\ chat'.draft = 0
    BY <1>3 DEF NewConversation, Leave, NewChat, wire
  <2> QED BY <1>0, <2>1, FreshKeeps
<1>4. CASE BeginSave
  <2> DEFINE m == [number |-> sent', kind |-> "save", about |-> chat.draft,
                   history |-> chat.history]
  <2>1. /\ feature = "generation" /\ chat.phase = "idle" /\ chat.draft # 0
        /\ asked' = asked /\ Send("save", chat.draft, chat)
    BY <1>4 DEF BeginSave
  <2>2. /\ feature' = feature /\ answers' = answers /\ sent' = sent + 1
        /\ requests' = requests \cup {m}
        /\ chat' = [chat EXCEPT !.phase = "saving", !.waits = @ \cup {sent'}]
    BY <2>1 DEF Send, BusyPhase
  <2>3. /\ chat'.phase = "saving" /\ chat'.history = chat.history
        /\ chat'.entries = chat.entries /\ chat'.waits = {sent'}
    BY <1>0, <2>1, <2>2
  <2>4. m.kind = "save"
    OBVIOUS
  <2> HIDE DEF m
  <2>5. TalkOK' /\ TopicsOK' /\ OnceOK'
    BY <2>1, <2>2, <2>3 DEF TalkInv, TalkOK, TopicsOK, OnceOK
  <2>6. TurnsOK'
    BY <1>0, <2>2, <2>3, <2>4 DEF TurnsOK, InFlight
  <2> QED BY <1>0, <2>5, <2>6 DEF TalkInv
<1>5. CASE Serve
  <2>1. PICK m \in requests : RefuseTurn(m) \/ Turn(m) \/ SavePack(m)
    BY <1>5 DEF Serve
  <2>2. \E outcome : Reply(m, outcome)
    BY <2>1 DEF RefuseTurn, Turn, SavePack
  <2> QED BY <1>0, <2>2, AnsweringKeeps
<1>6. ASSUME NEW a \in answers, Receive(a) PROVE TalkInv'
  <2>1. /\ a \in InFlight /\ a.number \in chat.waits
        /\ feature' = feature /\ asked' = asked
    BY <1>6 DEF Receive, Heard, InFlight
  <2>2. a.kind \in Kinds /\ chat.phase = BusyPhase(a.kind) /\ chat.waits = {a.number}
    BY <1>0, <2>1, WaitedIsOfPhase
  <2>3. CASE a.outcome # "ok"
    <3>1. chat' = [ApplyFailure(a.outcome, a.kind) EXCEPT !.waits = @ \ {a.number}]
      BY <1>6, <2>3 DEF Receive, Heard
    <3> QED BY <1>0, <2>1, <3>1, EndKeeps
  <2>4. CASE a.outcome = "ok" /\ a.kind = "turn"
    <3>1. chat' = [ApplyTurn(a) EXCEPT !.waits = @ \ {a.number}]
      BY <1>6, <2>4 DEF Receive, Heard
    <3>2. chat.phase = "sending"
      BY <2>2, <2>4 DEF BusyPhase
    <3>3. /\ chat'.phase = "idle" /\ chat'.history = a.history
          /\ chat'.entries = Append(chat.entries, Answered(a.about))
      BY <1>0, <3>1, <3>2 DEF ApplyTurn
    <3> QED BY <1>0, <2>1, <2>4, <3>2, <3>3, AnswerKeeps
  <2>5. CASE a.outcome = "ok" /\ a.kind # "turn"
    <3>1. chat' = [NewChat EXCEPT !.waits = @ \ {a.number}]
      BY <1>6, <2>5 DEF Receive, Heard
    <3>2. /\ chat'.phase = "idle" /\ chat'.entries = <<>> /\ chat'.history = <<>>
          /\ chat'.draft = 0
      BY <3>1 DEF NewChat
    <3> QED BY <1>0, <2>1, <3>2, FreshKeeps
  <2> QED BY <2>3, <2>4, <2>5
<1>7. ASSUME NEW a \in answers, NavigationFails(a) PROVE TalkInv'
  <2>1. /\ a \in InFlight /\ a.number \in chat.waits /\ feature' = feature /\ asked' = asked
        /\ chat' = [ApplyFailure("network_error", a.kind) EXCEPT !.waits = @ \ {a.number}]
    BY <1>7 DEF NavigationFails, Heard, InFlight
  <2> QED BY <1>0, <2>1, EndKeeps
<1>8. ASSUME NEW m \in requests \cup answers, Disconnect(m) PROVE TalkInv'
  <2>1. /\ m \in InFlight /\ m.number \in chat.waits /\ feature' = feature /\ asked' = asked
        /\ chat' = [ApplyFailure("network_error", m.kind) EXCEPT !.waits = @ \ {m.number}]
    BY <1>8 DEF Disconnect, InFlight
  <2> QED BY <1>0, <2>1, EndKeeps
<1>9. CASE Pass \/ UNCHANGED vars
  <2>1. UNCHANGED <<feature, chat, requests, answers, asked>>
    BY <1>9 DEF Pass, vars, wire
  <2> QED BY <1>0, <2>1 DEF TalkInv, TalkOK, TopicsOK, TurnsOK, OnceOK, AnsweredOnce
<1> QED
  BY <1>1, <1>2, <1>3, <1>4, <1>5, <1>6, <1>7, <1>8, <1>9 DEF Next, Screen, Network

\* Every conversation stays in order, whatever fails, is sent again or is late.
THEOREM TalkInvariant == Spec => []TalkInv
<1>1. Init => TalkInv
  <2> SUFFICES ASSUME Init PROVE TalkInv
    OBVIOUS
  <2>1. WaitInv
    BY DEF Init, NewChat, WaitInv, IsScreen, NumbersOK, WaitsOK, InFlight
  <2>2. /\ chat.entries = <<>> /\ chat.history = <<>> /\ chat.draft = 0
        /\ chat.phase = "idle" /\ requests = {} /\ answers = {} /\ asked = 0
    BY DEF Init, NewChat
  <2>3. Answers(<<>>) = {} /\ Len(<<>>) = 0 /\ DOMAIN <<>> = {} /\ IsSeq(<<>>)
    BY DEF Answers, IsSeq
  <2>4. TalkOK
    BY <2>2, <2>3, FS_EmptySet DEF TalkOK, Rooted, Paired
  <2>5. TopicsOK /\ TurnsOK /\ OnceOK
    BY <2>2, <2>3 DEF TopicsOK, TurnsOK, OnceOK, AnsweredOnce
  <2> QED BY <2>1, <2>4, <2>5 DEF TalkInv
<1> QED BY <1>1, TalkStep, PTL DEF Spec

\* The history that the model is sent is the transcript on the screen, each
\* answer under the message that it answers (applyTurn, applyFailure).
THEOREM TranscriptStaysTrue == Spec => []TranscriptIsTrue
<1>1. TalkInv => TranscriptIsTrue
  <2> SUFFICES ASSUME TalkInv, NEW i \in Answers(chat.entries)
      PROVE  MessagesTo(chat.entries, i) # {}
    BY DEF TalkInv, TalkOK, Paired, TranscriptIsTrue
  <2>1. i \in DOMAIN chat.entries
    BY DEF Answers
  <2> QED BY <2>1 DEF TalkInv, TalkOK, Rooted
<1> QED BY <1>1, TalkInvariant, PTL

\* In the practice chat no message is answered twice: the last failure alone has
\* a button, and the message before it had no answer (PracticeScreen).
THEOREM TutorNeverRepeats == Spec => []TutorAnswersOnce
<1>1. TalkInv => TutorAnswersOnce
  BY DEF TalkInv, OnceOK, TutorAnswersOnce
<1> QED BY <1>1, TalkInvariant, PTL
=============================================================================
