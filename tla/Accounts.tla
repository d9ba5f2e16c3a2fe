------------------------------ MODULE Accounts ------------------------------
(***************************************************************************)
(* Sign-in and the feature flags of an account.  Callbacks of the identity *)
(* provider overlap: each looks its identity up, and either provisions a   *)
(* user under the first name that is free or refreshes the e-mail address  *)
(* of the one it found.  The address makes an administrator, who sets the  *)
(* flags of others.                                                        *)
(*                                                                         *)
(* A user name is a sequence: the normalised name, and a suffix once there *)
(* is one ("ann-2" is <<"ann", 2>>, whoever asked for it).  Users are never *)
(* deleted.  What the callback refreshes for display only is left out.     *)
(***************************************************************************)
EXTENDS Integers, FiniteSets, Sequences

CONSTANTS
    Identities,     \* (issuer, subject) pairs
    Browsers,
    PeopleAt,       \* the identities that sign in with each browser
    None,           \* an address that is not there
    AdminEmails,    \* those of a domain in ADMIN_EMAIL_DOMAINS
    ClaimsOf,       \* what the provider may say of an identity: sets of
                    \* [name, email, verified]
    Flags,          \* the flags some release registers
    Releases,       \* what a release may register: subsets of Flags
    CodeDefaults,   \* FLAG_DEFAULTS
    Settings,       \* feature_flag_default_map, a function on some of the keys
    AdminFlags,     \* ADMIN_DEFAULT_FLAGS
    MaxEvents       \* bound: claims that change, overrides asked for, restarts

ASSUME AccountsAssumption ==
    /\ None \notin AdminEmails
    /\ PeopleAt \in [Browsers -> SUBSET Identities]
    /\ Releases \subseteq SUBSET Flags
    /\ CodeDefaults \in [Flags -> BOOLEAN]
    /\ \A f \in DOMAIN Settings : Settings[f] \in BOOLEAN

VARIABLES
    claims,      \* what the provider says of each identity now
    vouched,     \* history: the addresses it gave and did not mark unverified
    users,       \* the users: {} or {[name, email]} of each identity
    cookie,      \* the user the session cookie of a browser names
    request,     \* the request of a browser
    registered,  \* known_flag_keys of the release that runs
    overrides,   \* user_feature_overrides
    events

tables == <<users, overrides>>
vars == <<claims, vouched, tables, cookie, request, registered, events>>

Users == {i \in Identities : users[i] # {}}

\* A request's step; of a callback the identity, its claims, the users there
\* were at its look-up, the address it loaded and the suffix it is at; of an
\* administrator's change the user, the flag and the value.
NoRequest == [step |-> "idle"]

Vouched(c) == IF c.verified THEN {c.email} ELSE {}

Init ==
    /\ claims \in {c \in [Identities -> UNION {ClaimsOf[i] : i \in Identities}] :
                     \A i \in Identities : c[i] \in ClaimsOf[i]}
    /\ vouched = [i \in Identities |-> Vouched(claims[i])]
    /\ users = [i \in Identities |-> {}]
    /\ cookie = [b \in Browsers |-> {}]
    /\ request = [b \in Browsers |-> NoRequest]
    /\ registered \in Releases
    /\ overrides = [u \in {} |-> TRUE]
    /\ events = 0

-----------------------------------------------------------------------------
(* The provider.                                                           *)

Event == events < MaxEvents /\ events' = events + 1

ChangeClaims(i) ==
    /\ Event
    /\ \E c \in ClaimsOf[i] \ {claims[i]} :
         /\ claims' = [claims EXCEPT ![i] = c]
         /\ vouched' = [vouched EXCEPT ![i] = @ \cup Vouched(c)]
    /\ UNCHANGED <<tables, cookie, request, registered>>

-----------------------------------------------------------------------------
(* The callback.                                                           *)

\* Mutant: an address marked unverified is kept.
MutantTrusted(c) == c.email

\* email_verified false drops the address; it may still have named the user.
Trusted(c) == IF c.verified THEN c.email ELSE None

\* The code is exchanged for a token: its claims are what is signed in with.
Callback(b, i) ==
    /\ request[b].step \in {"idle", "failed"}
    /\ request' = [request EXCEPT ![b] =
                     [step |-> "lookup", who |-> i, base |-> claims[i].name,
                      email |-> Trusted(claims[i]), seen |-> {}, loaded |-> None, suffix |-> 1]]
    /\ UNCHANGED <<claims, vouched, tables, cookie, registered, events>>

\* get_by_identity.
LookUp(b) ==
    LET r == request[b]
    IN  /\ r.step = "lookup"
        /\ \/ /\ r.who \notin Users
              /\ request' = [request EXCEPT ![b] = [r EXCEPT !.step = "name", !.seen = Users]]
           \/ \E u \in users[r.who] :
                request' = [request EXCEPT ![b] = [r EXCEPT !.step = "refresh", !.loaded = u.email]]
        /\ UNCHANGED <<claims, vouched, tables, cookie, registered, events>>

Candidate(r) == IF r.suffix = 1 THEN r.base ELSE Append(r.base, r.suffix)

Named(i, name) == \E u \in users[i] : u.name = name

Taken(name) == \E i \in Identities : Named(i, name)

\* Mutant: the suffix is not counted up.
MutantFindName(b) ==
    /\ request[b].step = "name"
    /\ request' = [request EXCEPT ![b] =
                     IF Taken(Candidate(@)) THEN [@ EXCEPT !.suffix = 2]
                     ELSE [@ EXCEPT !.step = "create"]]
    /\ UNCHANGED <<claims, vouched, tables, cookie, registered, events>>

\* Mutant: only the bare name is looked for.
MutantFindNameOnce(b) ==
    /\ request[b].step = "name"
    /\ request' = [request EXCEPT ![b].step = "create",
                                  ![b].suffix = IF Taken(Candidate(request[b])) THEN 2 ELSE 1]
    /\ UNCHANGED <<claims, vouched, tables, cookie, registered, events>>

\* One turn of the loop of _available_username.
FindName(b) ==
    LET r == request[b]
    IN  /\ r.step = "name"
        /\ request' = [request EXCEPT ![b] =
                         IF Taken(Candidate(r)) THEN [r EXCEPT !.suffix = r.suffix + 1]
                         ELSE [r EXCEPT !.step = "create"]]
        /\ UNCHANGED <<claims, vouched, tables, cookie, registered, events>>

\* The answer sets the cookie, if it arrives.
Answered(b) ==
    /\ request' = [request EXCEPT ![b] = NoRequest]
    /\ cookie' \in {cookie, [cookie EXCEPT ![b] = {request[b].who}]}

\* The insertion and the commit.  Both unique indexes are checked; nothing
\* catches the IntegrityError of either, so the callback answers 500.
Create(b) ==
    LET r == request[b]
    IN  /\ r.step = "create"
        /\ IF r.who \in Users \/ Taken(Candidate(r))
           THEN /\ request' = [request EXCEPT ![b].step = "failed"]
                /\ UNCHANGED <<users, cookie>>
           ELSE /\ users' = [users EXCEPT ![r.who] = {[name |-> Candidate(r), email |-> r.email]}]
                /\ Answered(b)
        /\ UNCHANGED <<claims, vouched, overrides, registered, events>>

\* The refresh and the commit: the session writes the address only if it is
\* not the one it loaded.
Refresh(b) ==
    LET r == request[b]
    IN  /\ r.step = "refresh"
        /\ users' = IF r.email = r.loaded THEN users
                    ELSE [users EXCEPT ![r.who] = {[u EXCEPT !.email = r.email] : u \in @}]
        /\ Answered(b)
        /\ UNCHANGED <<claims, vouched, overrides, registered, events>>

\* logout.
Logout(b) ==
    /\ request[b].step \in {"idle", "failed"}
    /\ cookie[b] # {}
    /\ cookie' = [cookie EXCEPT ![b] = {}]
    /\ UNCHANGED <<claims, vouched, tables, request, registered, events>>

\* A request under way ends before its commit.
Abort(b) ==
    /\ request[b].step \notin {"idle", "failed"}
    /\ request' = [request EXCEPT ![b] = NoRequest]
    /\ UNCHANGED <<claims, vouched, tables, cookie, registered, events>>

-----------------------------------------------------------------------------
(* Feature flags.                                                          *)

IsAdmin(i) == \E u \in users[i] : u.email \in AdminEmails

\* effective_defaults: settings over code, for the registered flags only.
Default(f) == IF f \in DOMAIN Settings THEN Settings[f] ELSE CodeDefaults[f]

\* resolve_for_user: the override, else the default of the user's class.
Resolved(i) ==
    [f \in registered |-> IF <<i, f>> \in DOMAIN overrides THEN overrides[<<i, f>>]
                          ELSE (IsAdmin(i) /\ f \in AdminFlags) \/ Default(f)]

\* get_optional_current_user: the user the cookie names, if there is one.
CurrentUser(b) == cookie[b] \cap Users

\* An administrator asks to set or to clear the override of a user: the cookie
\* is resolved and the flag looked up before the change is made.
AskOverride(b, i, f, value) ==
    /\ Event
    /\ request[b].step \in {"idle", "failed"}
    /\ \E admin \in CurrentUser(b) : IsAdmin(admin)
    /\ f \in registered
    /\ request' = [request EXCEPT ![b] = [step |-> "override", user |-> i, flag |-> f, value |-> value]]
    /\ UNCHANGED <<claims, vouched, tables, cookie, registered>>

\* set_user_override, an upsert under the lock of the user (404 if there is
\* none), and clear_user_override, for which an absent one is cleared as well.
ApplyOverride(b) ==
    LET r == request[b]
        row == <<r.user, r.flag>>
    IN  /\ r.step = "override"
        /\ overrides' =
             IF r.value = {} THEN [u \in DOMAIN overrides \ {row} |-> overrides[u]]
             ELSE IF r.user \notin Users THEN overrides
             ELSE [u \in DOMAIN overrides \cup {row} |->
                     IF u = row THEN CHOOSE value \in r.value : TRUE ELSE overrides[u]]
        /\ request' = [request EXCEPT ![b] = NoRequest]
        /\ UNCHANGED <<claims, vouched, users, cookie, registered, events>>

\* A release with other flags is started: the requests under way end, cookies
\* and overrides stay, those of flags it does not register too.
Deploy ==
    /\ Event
    /\ registered' \in Releases \ {registered}
    /\ request' = [b \in Browsers |-> NoRequest]
    /\ UNCHANGED <<claims, vouched, tables, cookie>>

-----------------------------------------------------------------------------
Server(b) == LookUp(b) \/ FindName(b) \/ Create(b) \/ Refresh(b) \/ ApplyOverride(b)

Next ==
    \/ \E i \in Identities : ChangeClaims(i)
    \/ \E b \in Browsers :
         \/ Server(b) \/ Logout(b) \/ Abort(b)
         \/ \E i \in PeopleAt[b] : Callback(b, i)
         \/ \E i \in Identities, f \in Flags, value \in {{}, {TRUE}, {FALSE}} :
              AskOverride(b, i, f, value)
    \/ Deploy

\* The server goes on with a request it has begun.
Spec == Init /\ [][Next]_vars /\ \A b \in Browsers : WF_vars(Server(b))

-----------------------------------------------------------------------------
(* Properties.                                                             *)

\* A sign-in fails only if another one took its identity or its name while it
\* went on: whoever tries again finds a user or a name, whatever names, plain
\* or with a suffix, others have taken before (_available_username).
FailsOnlyIfRaced ==
    \A b \in Browsers :
        LET r == request[b]
        IN  r.step = "failed" =>
              \E i \in Users \ r.seen : i = r.who \/ Named(i, Candidate(r))

\* A callback is answered: the search for a free name ends, though the names
\* it would take next may go to others meanwhile.
SignInEnds ==
    \A b \in Browsers :
        request[b].step \in {"lookup", "name", "create", "refresh"} ~>
            request[b].step \in {"idle", "failed"}

VouchedAdmin(i) == vouched[i] \cap AdminEmails # {}

\* A flag that is off by default is on for those alone for whom it was set, or
\* whom the provider itself has vouched for as administrators, however sign-ins
\* overlap and addresses change; an override holds for everyone; and without an
\* administrator there is none (auth.md, feature_flags.py).
FlagsEarned ==
    /\ \A i \in Users : \A f \in registered :
         IF <<i, f>> \in DOMAIN overrides THEN Resolved(i)[f] = overrides[<<i, f>>]
         ELSE Resolved(i)[f] /\ ~Default(f) => f \in AdminFlags /\ VouchedAdmin(i)
    /\ DOMAIN overrides # {} => \E i \in Users : VouchedAdmin(i)
=============================================================================
