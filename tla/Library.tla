------------------------------ MODULE Library ------------------------------
(***************************************************************************)
(* The pack library, the bench and the pack screens over the cache of      *)
(* TanStack Query: optimistic toggles that are rolled back, changes made   *)
(* on a pack's own screen, the queries they invalidate, and the answers,   *)
(* failures and losses of the requests in any order.                       *)
(*                                                                         *)
(* The query library is external: its cache is modelled as version 5 (the  *)
(* one package.json asks for) is documented to treat the calls the screens *)
(* make.  A cache entry is never dropped for its age (gcTime), and a query *)
(* older than staleTime may be fetched again at any mount or focus.        *)
(*                                                                         *)
(* A behaviour follows one query of the cache, any one: no entry of it     *)
(* depends on another but by what the learner sees there and clicks, and   *)
(* on a screen that is not followed the learner may see and click anything *)
(* the screen allows for some state of the server.                         *)
(***************************************************************************)
EXTENDS Integers, FiniteSets, Sequences

CONSTANTS
    GlobalPacks,   \* the curated packs
    OwnedPacks,    \* the packs of this learner
    MaxMutations,  \* bound: the changes the learner makes
    MaxFailures    \* bound: the changes that fail or whose answer is lost

ASSUME LibraryAssumption ==
    /\ GlobalPacks \cap OwnedPacks = {}
    /\ MaxMutations \in Nat /\ MaxFailures \in Nat

VARIABLES
    on,        \* global packs: the effective setting; owned packs: they exist
    progress,  \* some activity of the pack is completed
    key,       \* the query that is followed
    entry,     \* its entry in the cache
    mounted,   \* its screen is shown, not another
    mutation,  \* the changes the learner made, in their order
    failures   \* those that failed

server == <<on, progress>>
client == <<key, entry, mounted>>
vars == <<server, client, mutation, failures>>

Packs == GlobalPacks \cup OwnedPacks

\* The query keys: ["library"], ["packs"] (the bench) and ["pack", id].
Library == <<"library", 0>>
Bench == <<"packs", 0>>
Detail(p) == <<"pack", p>>
Keys == {Library, Bench} \cup {Detail(p) : p \in Packs}

\* A screen that mounts none of them.
Elsewhere == <<"other", 0>>

\* list_library, list_visible and get_visible: what is enabled, and of packs
\* that may be practised whether there is progress.
LibraryView == on \cap GlobalPacks
BenchView == {<<p, p \in progress>> : p \in on}
DetailView(p) == <<p \in on, p \in progress>>

View ==
    CASE key = Library -> LibraryView
      [] key = Bench   -> BenchView
      [] OTHER         -> DetailView(key[2])

-----------------------------------------------------------------------------
(* The cache.  An entry has its data ({} before the first answer, {d}      *)
(* after), is valid or invalidated, and may have a request under way that  *)
(* the server has answered or not.  Two marks are history: the data is in  *)
(* doubt when the client could not learn of a change or does not ask       *)
(* after it, and a request is old when such news came after it was sent.   *)

NoEntry == [data |-> {}, valid |-> FALSE, step |-> "idle", answer |-> {},
            old |-> FALSE, doubt |-> FALSE]

Running(e) == e.step # "idle"

Stop(e) == [e EXCEPT !.step = "idle", !.answer = {}, !.old = FALSE]
Ask(e) == [Stop(e) EXCEPT !.step = "asked"]

\* fetch without cancelRefetch: a request that is under way is joined.
Fetch(e) == IF Running(e) THEN e ELSE Ask(e)

\* invalidateQueries: a query that is mounted is asked again, and a request
\* of it that is under way is dropped unless it is the first one.
Invalidated(e) ==
    LET stale == [e EXCEPT !.valid = FALSE]
    IN  IF mounted /\ ~(Running(e) /\ e.data = {})
        THEN Ask(stale)
        ELSE [stale EXCEPT !.old = Running(e)]

\* setQueryData: what was invalidated counts as fresh again, and a request
\* that is under way goes on.
Written(e, data) == IF e.data = {} THEN e ELSE [e EXCEPT !.data = {data}, !.valid = TRUE]

\* The client is not told: the data it has, or will get, is in doubt.
Doubted(e) == [e EXCEPT !.doubt = TRUE, !.old = Running(e)]

The(S) == CHOOSE x \in S : TRUE

-----------------------------------------------------------------------------
(* The changes.                                                            *)

Kinds == {"toggle", "set", "reset", "complete", "remove", "save"}

\* A mutation: its kind, its pack and the value it sets; whether the server
\* has done it; whether its answer is awaited ("sent"), it failed but may
\* still arrive ("lost"), or it is over; the snapshot a toggle rolls back to;
\* and history: nothing else has touched the library since it was sent.
Mutations ==
    [kind : Kinds, pack : Packs, value : BOOLEAN, done : BOOLEAN,
     step : {"sent", "lost", "over"}, previous : SUBSET SUBSET GlobalPacks, alone : BOOLEAN]

Sent == {k \in DOMAIN mutation : mutation[k].step = "sent"}

\* The queries whose view a change may alter.
Touched(m) ==
    CASE m.kind \in {"toggle", "set"} -> {Library, Bench, Detail(m.pack)}
      [] OTHER                        -> {Bench, Detail(m.pack)}

\* The queries that are invalidated when the change is answered.
News(m) ==
    CASE m.kind = "toggle"               -> {Bench, Library}
      [] m.kind = "set"                  -> {Bench, Library, Detail(m.pack)}
      [] m.kind = "complete"             -> {Bench, Detail(m.pack)}
      [] m.kind \in {"reset", "remove"}  -> {Bench}
      [] m.kind = "save"                 -> {}

\* The queries a change alters that are not told, though the client knows.
Untold(m) ==
    CASE m.kind = "toggle" -> {Detail(m.pack)}
      [] m.kind = "save"   -> {Bench}
      [] OTHER             -> {}

Overlap(m, n) == (Touched(m) \cap Touched(n)) \ {Bench} # {}

\* What the server can do of a change, and what it makes of it.  The answer of
\* a reset or a completion carries the progress as it is then.
Possible(m) == m.pack \in OwnedPacks => (m.pack \in on <=> m.kind # "save")

Do(m) ==
    /\ on' = CASE m.kind \in {"toggle", "set"} ->
                    IF m.value THEN on \cup {m.pack} ELSE on \ {m.pack}
               [] m.kind = "save"   -> on \cup {m.pack}
               [] m.kind = "remove" -> on \ {m.pack}
               [] OTHER             -> on
    /\ progress' = CASE m.kind = "complete" -> progress \cup {m.pack}
                     [] m.kind \in {"reset", "remove"} -> progress \ {m.pack}
                     [] OTHER -> progress

Init ==
    /\ on \in SUBSET Packs /\ progress = {}
    /\ key \in Keys /\ entry = NoEntry /\ mounted = FALSE
    /\ mutation = <<>>
    /\ failures = 0

-----------------------------------------------------------------------------
(* The query.                                                              *)

\* Mounting its screen, or coming back to the window, asks for data that is
\* missing, invalid or older than staleTime, which any may be.
Show ==
    \E refetch \in {TRUE, entry.data = {} \/ ~entry.valid} :
        /\ refetch \/ ~mounted
        /\ mounted' = TRUE
        /\ entry' = IF refetch THEN Fetch(entry) ELSE entry
        /\ mutation' = [k \in DOMAIN mutation |-> [mutation[k] EXCEPT !.alone = @ /\ ~refetch]]
        /\ UNCHANGED <<server, key, failures>>

Leave ==
    /\ mounted
    /\ mounted' = FALSE
    /\ UNCHANGED <<server, key, entry, mutation, failures>>

\* The server answers the query; a pack that does not exist is a 404.
Answer ==
    /\ entry.step = "asked"
    /\ key \in {Detail(p) : p \in OwnedPacks} => key[2] \in on
    /\ entry' = [entry EXCEPT !.step = "answered", !.answer = {View}]
    /\ UNCHANGED <<server, key, mounted, mutation, failures>>

\* The answer arrives: the data is replaced and counts as fresh.
Arrive ==
    /\ entry.step = "answered"
    /\ entry' = [NoEntry EXCEPT !.data = entry.answer, !.valid = TRUE, !.doubt = entry.old]
    /\ UNCHANGED <<server, key, mounted, mutation, failures>>

\* The query fails, its retry included: the data stays as it is.
FailQuery ==
    /\ Running(entry)
    /\ entry' = Stop(entry)
    /\ UNCHANGED <<server, key, mounted, mutation, failures>>

-----------------------------------------------------------------------------
(* The mutations.                                                          *)

NewMutation(kind, p, value) ==
    [kind |-> kind, pack |-> p, value |-> value, done |-> FALSE, step |-> "sent",
     previous |-> {}, alone |-> TRUE]

\* A change is sent: it and those under way that it meets are no longer alone.
Sending(m) ==
    LET met == {k \in Sent : Overlap(mutation[k], m)}
    IN  /\ Len(mutation) < MaxMutations
        /\ mutation' = Append([k \in DOMAIN mutation |->
                                 [mutation[k] EXCEPT !.alone = @ /\ k \notin met]],
                              [m EXCEPT !.alone = met = {}])
        /\ UNCHANGED <<server, key, mounted, failures>>

Flipped(shown, p, value) == IF value THEN shown \cup {p} ELSE shown \ {p}

\* Mutant: a request that is under way is not cancelled.
MutantToggle(p) ==
    IF key # Library
    THEN ~mounted /\ UNCHANGED entry
         /\ \E value \in BOOLEAN : Sending(NewMutation("toggle", p, value))
    ELSE /\ mounted
         /\ \E shown \in entry.data :
              LET value == p \notin shown
              IN  /\ Sending([NewMutation("toggle", p, value) EXCEPT !.previous = entry.data])
                  /\ entry' = Written(entry, Flipped(shown, p, value))

\* onMutate of the library's toggle: the query is stopped, its data kept for
\* a roll-back, and the pack flipped in it.
Toggle(p) ==
    IF key # Library
    THEN ~mounted /\ UNCHANGED entry
         /\ \E value \in BOOLEAN : Sending(NewMutation("toggle", p, value))
    ELSE /\ mounted
         /\ \E shown \in entry.data :
              LET value == p \notin shown
              IN  /\ Sending([NewMutation("toggle", p, value) EXCEPT !.previous = entry.data])
                  /\ entry' = Written(Stop(entry), Flipped(shown, p, value))

\* The pack's own screen or one of its activities, which mount the same query.
\* isPending disables a button of the mounted screen only: one who leaves and
\* comes back, or plays another activity, sends a second change.
OnPackScreen(p) ==
    /\ IF key = Detail(p) THEN mounted /\ entry.data # {} ELSE ~mounted
    /\ UNCHANGED entry

SetEnabled(p) ==
    /\ OnPackScreen(p)
    /\ \E value \in BOOLEAN :
         /\ key = Detail(p) => value = ~The(entry.data)[1]
         /\ Sending(NewMutation("set", p, value))

ResetProgress(p) == OnPackScreen(p) /\ Sending(NewMutation("reset", p, FALSE))

CompleteActivity(p) == OnPackScreen(p) /\ Sending(NewMutation("complete", p, FALSE))

RemovePack(p) == OnPackScreen(p) /\ Sending(NewMutation("remove", p, FALSE))

\* The save of a generated pack.
SavePack(p) ==
    /\ ~mounted
    /\ p \notin on /\ \A k \in DOMAIN mutation : mutation[k].pack # p
    /\ Sending(NewMutation("save", p, FALSE))
    /\ UNCHANGED entry

\* The server does what was asked.  If the client has given up on it, the data
\* it may alter is in doubt, and the changes under way that it meets are not
\* alone.
Commit(k) ==
    LET m == mutation[k]
        lost == m.step = "lost"
        met == IF lost THEN {j \in Sent : Overlap(mutation[j], m)} ELSE {}
    IN  /\ m.step # "over" /\ ~m.done /\ Possible(m)
        /\ Do(m)
        /\ mutation' = [j \in DOMAIN mutation |->
               IF j # k THEN [mutation[j] EXCEPT !.alone = @ /\ j \notin met]
               ELSE [m EXCEPT !.done = TRUE,
                              !.value = IF m.kind \in {"reset", "complete"}
                                        THEN m.pack \in progress' ELSE @,
                              !.step = IF lost THEN "over" ELSE @]]
        /\ entry' = IF lost /\ key \in Touched(m) THEN Doubted(entry) ELSE entry
        /\ UNCHANGED <<key, mounted, failures>>

\* setQueryData with the progress of the answer.  Other parts of the data that
\* were invalidated are fresh again with it; and of the answers of two changes
\* that were under way together the last to arrive may be the first given.
Patched(m) ==
    IF entry.data = {} THEN [entry EXCEPT !.old = Running(entry)]
    ELSE [Written(entry, <<The(entry.data)[1], m.value>>) EXCEPT
            !.doubt = @ \/ ~entry.valid \/ ~m.alone, !.old = Running(entry)]

\* onSuccess and onSettled.
Refreshed(m) ==
    LET patched == key = Detail(m.pack) /\ m.kind \in {"reset", "complete"}
        written == IF patched THEN Patched(m) ELSE entry
    IN  IF key = Detail(m.pack) /\ m.kind = "remove" THEN NoEntry
        ELSE IF key \in News(m) THEN Invalidated(written)
        ELSE IF key \in Untold(m) THEN Doubted(written)
        ELSE written

\* The screen the change leads to.
Target(m) ==
    CASE m.kind = "set" /\ ~m.value -> Bench
      [] m.kind = "save"            -> Detail(m.pack)
      [] m.kind = "remove"          -> Elsewhere
      [] OTHER                      -> key

Succeed(k) ==
    LET m == mutation[k]
    IN  /\ m.step = "sent" /\ m.done
        /\ entry' = Refreshed(m)
        /\ mounted' = (mounted /\ Target(m) = key)
        /\ mutation' = [mutation EXCEPT ![k].step = "over"]
        /\ UNCHANGED <<server, key, failures>>

\* Mutant: the queries are refreshed when a toggle succeeds, not when it fails.
MutantRolledBack(m) ==
    IF m.kind = "toggle" /\ key \in News(m)
    THEN IF m.previous = {} THEN entry ELSE Written(entry, The(m.previous))
    ELSE IF m.done /\ key \in Touched(m) THEN Doubted(entry) ELSE entry

\* onError and onSettled.  Only a toggle has them: another change that was
\* done, and whose answer was lost, leaves the data in doubt.
RolledBack(m) ==
    IF m.kind = "toggle" /\ key \in News(m)
    THEN Invalidated(IF m.previous = {} THEN entry ELSE Written(entry, The(m.previous)))
    ELSE IF m.done /\ key \in Touched(m) THEN Doubted(entry) ELSE entry

\* A refusal (the pack is gone), a failure, or a lost answer.
Fail(k) ==
    LET m == mutation[k]
        refused == ~m.done /\ ~Possible(m)
    IN  /\ m.step = "sent"
        /\ failures < MaxFailures \/ refused
        /\ failures' = IF refused THEN failures ELSE failures + 1
        /\ entry' = RolledBack(m)
        /\ mutation' = [mutation EXCEPT ![k].step = IF m.done \/ refused THEN "over" ELSE "lost"]
        /\ UNCHANGED <<server, key, mounted>>

-----------------------------------------------------------------------------
Learner ==
    \/ Show \/ Leave
    \/ \E p \in GlobalPacks : Toggle(p) \/ SetEnabled(p)
    \/ \E p \in Packs : ResetProgress(p) \/ CompleteActivity(p)
    \/ \E p \in OwnedPacks : RemovePack(p) \/ SavePack(p)

Query == Answer \/ Arrive \/ FailQuery
Changes == \E k \in DOMAIN mutation : Commit(k) \/ Succeed(k) \/ Fail(k)

Next == Learner \/ Query \/ Changes

Spec == Init /\ [][Next]_vars

-----------------------------------------------------------------------------
(* Properties.                                                             *)

\* Data that counts as fresh, with nothing under way that could correct it, is
\* what the server has, unless the client could not learn that it is not: the
\* library and the bench in whatever order toggles were done, answered, failed
\* and rolled back (packs.library.tsx, onError and onSettled), and the screens
\* of packs, where a reset and a completion write their answer into the cache
\* as well (packs.$packId.tsx).
CacheIsTrue ==
    LET quiet == \A k \in Sent : key \notin Touched(mutation[k])
    IN  entry.valid /\ ~Running(entry) /\ ~entry.doubt /\ quiet => entry.data = {View}

\* A toggle that is under way alone is shown as made: no answer to an earlier
\* request of the library takes it back (the cancelQueries of onMutate).
OptimismHolds ==
    \A k \in Sent :
        LET m == mutation[k]
        IN  key = Library /\ m.kind = "toggle" /\ m.alone =>
              \A shown \in entry.data : m.value = (m.pack \in shown)
=============================================================================
