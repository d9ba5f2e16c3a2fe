-------------------------------- MODULE Chats --------------------------------
(***************************************************************************)
(* A conversation with the practice tutor, or with the generator of packs: *)
(* the screen that holds it, the server that answers a turn, and the       *)
(* limiter of billed requests between them.                                *)
(*                                                                         *)
(* The server keeps nothing of a conversation: a turn carries its history, *)
(* here the messages that were answered, and brings a longer one back.     *)
(* Leaving the screen and coming back starts a conversation of its own.    *)
(***************************************************************************)
EXTENDS RateLimit, FiniteSets, SequencesExt

CONSTANTS
    Me,             \* the learner
    Features,       \* the chats looked at
    MaxHistory,     \* the longest history the request model accepts
    MaxRequests,    \* bound: requests sent
    MaxFailures,    \* bound: failures of the server, the model or the network
    MaxTime         \* bound: the clock

ASSUME ChatAssumption ==
    /\ Me \in Keys
    /\ Features \subseteq {"practice", "generation"}
    /\ {MaxHistory, MaxRequests, MaxFailures, MaxTime} \subseteq Nat

VARIABLES
    feature,    \* which chat it is
    chat,       \* the state of the screen
    requests,   \* what the server has not answered
    answers,    \* the answers on their way
    sent,       \* how many requests were sent; they are numbered from 1
    asked,      \* how many messages were written, likewise
    failures,   \* how many failures there were
    saved,      \* the packs the server holds: the draft and the request of each
    calls       \* history: when the model was called, for which request

wire == <<requests, answers, sent, asked, failures>>
server == <<windows, clock, grants, saved, calls>>
vars == <<feature, chat, wire, server>>

Kinds == {"turn", "save"}

\* RETRYABLE.
Retryable == {"provider_failure", "network_error"}
Failures == Retryable \cup
    {"rate_limited", "disabled", "save_rejected", "invalid_history", "unauthenticated"}

Said(about) == [role |-> "user", about |-> about]
Answered(about) == [role |-> "answer", about |-> about]
Failed(kind, source) == [role |-> "error", failure |-> kind, source |-> source]

\* waits: the requests of this screen that are pending.  draft: the request
\* that brought the working draft.
NewChat == [entries |-> <<>>, history |-> <<>>, draft |-> 0, phase |-> "idle",
            waits |-> {}]

BusyPhase(kind) == IF kind = "turn" THEN "sending" ELSE "saving"

\* isPending of the mutation of a kind.
Pending(kind) ==
    \E m \in requests \cup answers : m.kind = kind /\ m.number \in chat.waits

\* The messages up to an entry, and the last of them (lastUserTopic).
MessagesTo(entries, i) == {j \in 1 .. i : entries[j].role = "user"}
MessageAt(entries, i) == entries[Max(MessagesTo(entries, i))].about

Init ==
    /\ LimiterInit
    /\ feature \in Features
    /\ chat = NewChat
    /\ requests = {} /\ answers = {}
    /\ sent = 0 /\ asked = 0 /\ failures = 0
    /\ saved = {} /\ calls = {}

-----------------------------------------------------------------------------
(* The screen.                                                             *)

\* mutate(): the request, and the screen in its busy phase.
Send(kind, about, shown) ==
    /\ sent < MaxRequests
    /\ sent' = sent + 1
    /\ requests' = requests \cup
         {[number |-> sent', kind |-> kind, about |-> about, history |-> chat.history]}
    /\ chat' = [shown EXCEPT !.phase = BusyPhase(kind), !.waits = @ \cup {sent'}]
    /\ UNCHANGED <<feature, answers, failures, server>>

\* Mutant: neither of the two guards.
MutantBeginTurn ==
    /\ asked' = asked + 1
    /\ Send("turn", asked', [chat EXCEPT !.entries = Append(@, Said(asked'))])

\* submitMessage, submitTopic.
BeginTurn ==
    /\ chat.phase = "idle" /\ ~Pending("turn")
    /\ asked' = asked + 1
    /\ Send("turn", asked', [chat EXCEPT !.entries = Append(@, Said(asked'))])

\* Mutant: a failure that is not the last entry keeps its button.
MutantOffersRetry(i) ==
    LET e == chat.entries[i]
    IN  e.role = "error" /\ e.source = "turn" /\ e.failure \in Retryable

\* The failures with a button: in the practice chat only the last entry.
OffersRetry(i) ==
    LET e == chat.entries[i]
    IN  /\ e.role = "error" /\ e.source = "turn" /\ e.failure \in Retryable
        /\ feature = "practice" => i = Len(chat.entries)

\* Try again: the last message once more, with the history of now.
Retry ==
    /\ \E i \in DOMAIN chat.entries : OffersRetry(i)
    /\ chat.phase = "idle" /\ ~Pending("turn")
    /\ Send("turn", MessageAt(chat.entries, Len(chat.entries)), chat)
    /\ UNCHANGED asked

NewConversation ==
    /\ feature = "practice" /\ chat.phase = "idle" /\ chat.entries # <<>>
    /\ chat' = [NewChat EXCEPT !.waits = chat.waits]
    /\ UNCHANGED <<feature, wire, server>>

\* Mutant: a second tap before the phase has changed.
MutantBeginSave ==
    /\ feature = "generation" /\ chat.phase # "sending" /\ chat.draft # 0
    /\ Send("save", chat.draft, chat)
    /\ UNCHANGED asked

BeginSave ==
    /\ feature = "generation" /\ chat.phase = "idle" /\ ~Pending("save")
    /\ chat.draft # 0
    /\ Send("save", chat.draft, chat)
    /\ UNCHANGED asked

\* The screen is left, and opened again: the state was the component's.
Leave ==
    /\ chat # NewChat
    /\ chat' = NewChat
    /\ answers' = {}
    /\ UNCHANGED <<feature, requests, sent, asked, failures, server>>

-----------------------------------------------------------------------------
(* The server.                                                             *)

\* The answer to m, if the screen still waits for it.
Reply(m, outcome) ==
    /\ requests' = requests \ {m}
    /\ answers' = answers \cup
         {[number |-> m.number, kind |-> m.kind, about |-> m.about, outcome |-> outcome,
           history |-> IF m.kind = "turn" THEN Append(m.history, m.about) ELSE <<>>] :
            n \in chat.waits \cap {m.number}}
    /\ failures' = IF outcome \in {"ok", "rate_limited"} THEN failures ELSE failures + 1
    /\ failures' <= MaxFailures
    /\ UNCHANGED <<feature, chat, sent, asked, clock>>

\* The session has expired, or the history is longer than the request model
\* allows: neither gets as far as the limiter.
RefuseTurn(m) ==
    /\ m.kind = "turn"
    /\ Reply(m, IF Len(m.history) > MaxHistory THEN "invalid_history"
                ELSE "unauthenticated")
    /\ UNCHANGED <<limiter, saved, calls>>

\* The endings of a turn that the limiter allows: the model answers; it fails,
\* or an override is refused with 403; the override is not selectable; no
\* model is configured.
Endings == {"ok", "provider_failure", "invalid_history", "disabled"}

Called(m) == calls \cup {[number |-> m.number, at |-> clock]}

\* Mutant: only a turn that succeeds is counted.
MutantTurn(m) ==
    /\ m.kind = "turn" /\ Len(m.history) <= MaxHistory
    /\ \E ending \in Endings :
         /\ Reply(m, ending)
         /\ calls' = IF ending \in {"ok", "provider_failure"} THEN Called(m) ELSE calls
         /\ IF ending = "ok" THEN Acquire(Me, TRUE) ELSE UNCHANGED limiter
    /\ UNCHANGED saved

\* POST /practice/turn, POST /generation/draft: the attempt is counted before
\* anything that may fail.
Turn(m) ==
    /\ m.kind = "turn" /\ Len(m.history) <= MaxHistory
    /\ \/ /\ Acquire(Me, FALSE)
          /\ Reply(m, "rate_limited")
          /\ UNCHANGED calls
       \/ /\ Acquire(Me, TRUE)
          /\ \E ending \in Endings :
               /\ Reply(m, ending)
               /\ calls' = IF ending \in {"ok", "provider_failure"} THEN Called(m)
                           ELSE calls
    /\ UNCHANGED saved

\* POST /generation/packs: the pack is created; or it is, and the answer still
\* fails; or the corpus lacks a character, the session has expired, ...
SavePack(m) ==
    /\ m.kind = "save"
    /\ \E outcome \in {"ok", "provider_failure", "save_rejected", "unauthenticated"} :
         /\ Reply(m, outcome)
         /\ \/ outcome \in {"ok", "provider_failure"}
               /\ saved' = saved \cup {[draft |-> m.about, number |-> m.number]}
            \/ outcome # "ok" /\ UNCHANGED saved
    /\ UNCHANGED <<limiter, calls>>

Pass == /\ clock < MaxTime
        /\ Tick
        /\ UNCHANGED <<feature, chat, wire, saved, calls>>

-----------------------------------------------------------------------------
(* What the screen makes of an answer.                                     *)

\* applyTurn, applyDraft: nothing unless a turn is awaited.
ApplyTurn(a) ==
    IF chat.phase = "sending"
    THEN [chat EXCEPT !.entries = Append(@, Answered(a.about)), !.history = a.history,
                      !.draft = a.number, !.phase = "idle"]
    ELSE chat

\* applyFailure: nothing unless the phase is that of the source.
ApplyFailure(failure, kind) ==
    IF chat.phase = BusyPhase(kind)
    THEN [chat EXCEPT !.entries = Append(@, Failed(failure, kind)), !.phase = "idle"]
    ELSE chat

Heard(a, after) ==
    /\ chat' = [after EXCEPT !.waits = @ \ {a.number}]
    /\ answers' = answers \ {a}
    /\ UNCHANGED <<feature, requests, sent, asked, server>>

\* A pack that is saved is navigated to, which leaves this screen.
Receive(a) ==
    /\ a.number \in chat.waits
    /\ Heard(a, IF a.outcome # "ok" THEN ApplyFailure(a.outcome, a.kind)
                ELSE IF a.kind = "turn" THEN ApplyTurn(a) ELSE NewChat)
    /\ UNCHANGED failures

\* Mutant: nobody catches it.
MutantNavigationFails(a) ==
    /\ a.number \in chat.waits /\ a.kind = "save" /\ a.outcome = "ok"
    /\ failures < MaxFailures
    /\ failures' = failures + 1
    /\ Heard(a, chat)

\* The page of the saved pack does not load.
NavigationFails(a) ==
    /\ a.number \in chat.waits /\ a.kind = "save" /\ a.outcome = "ok"
    /\ failures < MaxFailures
    /\ failures' = failures + 1
    /\ Heard(a, ApplyFailure("network_error", "save"))

\* The connection breaks: fetch rejects, and what the server does with the
\* request, or has done, is not known.
Disconnect(m) ==
    /\ m.number \in chat.waits
    /\ failures < MaxFailures
    /\ failures' = failures + 1
    /\ chat' = [ApplyFailure("network_error", m.kind) EXCEPT !.waits = @ \ {m.number}]
    /\ answers' = answers \ {m}
    /\ requests' \in {requests, requests \ {m}}
    /\ UNCHANGED <<feature, sent, asked, server>>

-----------------------------------------------------------------------------
Screen == BeginTurn \/ Retry \/ NewConversation \/ BeginSave \/ Leave

Serve == \E m \in requests : RefuseTurn(m) \/ Turn(m) \/ SavePack(m)

Network == (\E a \in answers : Receive(a) \/ NavigationFails(a))
           \/ \E m \in requests \cup answers : Disconnect(m)

Next == Screen \/ Serve \/ Network \/ Pass

Spec == Init /\ [][Next]_vars

-----------------------------------------------------------------------------
(* Properties.                                                             *)

Answers(entries) == {i \in DOMAIN entries : entries[i].role = "answer"}

\* The conversation the model has been part of is the one on the screen, with
\* each answer under the message it answers, whatever failed, was sent again or
\* came late ("Failures never discard the conversation").
TranscriptIsTrue ==
    /\ Len(chat.history) = Cardinality(Answers(chat.entries))
    /\ \A i \in Answers(chat.entries) :
         /\ chat.history[Cardinality(Answers(chat.entries) \cap 1 .. i)] = chat.entries[i].about
         /\ MessagesTo(chat.entries, i) # {}
         /\ MessageAt(chat.entries, i) = chat.entries[i].about

\* A message is answered once: what was sent again had not been answered.
AnsweredOnce == \A i, j \in DOMAIN chat.entries :
    chat.entries[i].role = "answer" /\ chat.entries[i] = chat.entries[j] => i = j

\* In the practice chat, where only the last failure can be retried.
TutorAnswersOnce == feature = "practice" => AnsweredOnce

\* A screen is busy only while a request of the phase it is in will still be
\* answered: it never stays locked.
NeverLocked ==
    \A kind \in Kinds : chat.phase = BusyPhase(kind) => Pending(kind)

\* A draft is saved once, and once more at most for each failure that hid that
\* it had been saved or kept the screen from leaving.
SavedAsAsked ==
    \A pack \in saved :
        Cardinality({other \in saved : other.draft = pack.draft}) <= 1 + failures

\* In any Window seconds the model is called less than twice as often as the
\* limit, whatever turns fail: a window opens with a call, so that two windows
\* which both meet the span do not fit all of their calls into it.
SpendIsCapped ==
    Limit > 0 => \A t \in 0 .. clock :
        Cardinality({c \in calls : t <= c.at /\ c.at < t + Window}) <= 2 * Limit - 1
=============================================================================
