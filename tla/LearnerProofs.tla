--------------------------- MODULE LearnerProofs ---------------------------
(***************************************************************************)
(* Theorems about what is kept of a learner: sign-in and the feature       *)
(* flags, for every set of people, browsers, claims, flags and releases,   *)
(* and the counters of progress, for every log, place and goal.           *)
(* The two components share no state; each has its invariant and theorems. *)
(***************************************************************************)
EXTENDS Accounts, Progress, FiniteSetTheorems, WellFoundedInduction, TLAPS

-----------------------------------------------------------------------------
(* Sign-in and the feature flags: the shape of the state.                  *)

AllClaims == UNION {ClaimsOf[i] : i \in Identities}
Names == {c.name : c \in AllClaims}
Emails == {c.email : c \in AllClaims} \cup {None}
UserNames == Names \cup {Append(n, k) : n \in Names, k \in Nat}

Callbacks ==
    [step : {"lookup", "name", "create", "refresh", "failed"}, who : Identities,
     base : Names, email : Emails, seen : SUBSET Identities, loaded : Emails, suffix : Nat]

Orders ==
    [step : {"override"}, user : Identities, flag : Flags, value : {{}, {TRUE}, {FALSE}}]

Shape ==
    /\ claims \in [Identities -> AllClaims]
    /\ vouched \in [Identities -> SUBSET Emails]
    /\ users \in [Identities -> SUBSET [name : UserNames, email : Emails]]
    /\ request \in [Browsers -> {NoRequest} \cup Callbacks \cup Orders]

\* Whom the provider has vouched for: what is claimed now, what a callback
\* carries and what is stored.
VouchInv ==
    /\ \A i \in Identities : Vouched(claims[i]) \subseteq vouched[i]
    /\ \A b \in Browsers : request[b] \in Callbacks =>
         request[b].email \in vouched[request[b].who] \cup {None}
    /\ \A i \in Identities : \A u \in users[i] : u.email \in vouched[i] \cup {None}

\* Some administrator was vouched for, once there is or may be an override.
OrderInv ==
    DOMAIN overrides # {} \/ (\E b \in Browsers : request[b].step = "override") =>
        \E i \in Users : VouchedAdmin(i)

FlagInv == Shape /\ VouchInv /\ OrderInv

\* A name that was free stays free but for users who were not there: a user is
\* never renamed and never deleted.
Known(rows) == {i \in Identities : rows[i] # {}}
Has(rows, i, name) == \E u \in rows[i] : u.name = name

Undisturbed(r, rows) ==
    /\ r.step \in {"name", "create", "failed"} => r.seen \subseteq Known(rows) /\ r.who \notin r.seen
    /\ r.step = "create" => \A i \in r.seen : ~Has(rows, i, Candidate(r))
    /\ r.step = "failed" =>
         \E i \in Known(rows) \ r.seen : i = r.who \/ Has(rows, i, Candidate(r))

RaceInv == \A b \in Browsers : Undisturbed(request[b], users)

-----------------------------------------------------------------------------

\* The table and the callbacks start with their shape.
LEMMA ShapeInit == Init => Shape
<1> SUFFICES ASSUME Init PROVE Shape
    OBVIOUS
<1>1. claims \in [Identities -> AllClaims]
    BY DEF Init, AllClaims
<1>2. \A i \in Identities : Vouched(claims[i]) \subseteq Emails
    BY <1>1 DEF Vouched, Emails
<1>3. vouched \in [Identities -> SUBSET Emails]
    BY <1>2 DEF Init
<1>4. users \in [Identities -> SUBSET [name : UserNames, email : Emails]]
    BY DEF Init
<1>5. request \in [Browsers -> {NoRequest} \cup Callbacks \cup Orders]
    BY DEF Init
<1> QED
    BY <1>1, <1>3, <1>4, <1>5 DEF Shape

\* The step of a request tells a callback from a change asked for.
LEMMA RequestKinds ==
    ASSUME Shape, NEW b \in Browsers
    PROVE  /\ request[b].step \in {"lookup", "name", "create", "refresh", "failed"} => request[b] \in Callbacks
           /\ request[b].step = "override" => request[b] \in Orders
           /\ request[b].step \in {"idle", "lookup", "name", "create", "refresh", "failed", "override"}
<1>1. request[b] \in {NoRequest} \cup Callbacks \cup Orders
    BY DEF Shape
<1>2. CASE request[b] = NoRequest
    BY <1>2 DEF NoRequest
<1>3. CASE request[b] \in Callbacks
    BY <1>3 DEF Callbacks
<1>4. CASE request[b] \in Orders
    BY <1>4 DEF Orders
<1> QED
    BY <1>1, <1>2, <1>3, <1>4

\* No step breaks the shape.
LEMMA ShapeNext == Shape /\ [Next]_vars => Shape'
<1> SUFFICES ASSUME Shape, [Next]_vars PROVE Shape'
    OBVIOUS
<1> USE DEF Shape
<1>1. ASSUME NEW i \in Identities, ChangeClaims(i) PROVE Shape'
    <2>1. PICK c \in ClaimsOf[i] : claims' = [claims EXCEPT ![i] = c]
                                   /\ vouched' = [vouched EXCEPT ![i] = @ \cup Vouched(c)]
        BY <1>1 DEF ChangeClaims
    <2>2. c \in AllClaims
        BY DEF AllClaims
    <2>3. Vouched(c) \subseteq Emails
        BY <2>2 DEF Vouched, Emails
    <2> QED
        BY <1>1, <2>1, <2>2, <2>3 DEF ChangeClaims, tables
<1>2. ASSUME NEW b \in Browsers, NEW i \in Identities, Callback(b, i) PROVE Shape'
    <2>1. claims[i] \in AllClaims
        OBVIOUS
    <2>2. claims[i].name \in Names /\ Trusted(claims[i]) \in Emails /\ None \in Emails
        BY <2>1 DEF Names, Emails, Trusted
    <2>3. [step |-> "lookup", who |-> i, base |-> claims[i].name,
           email |-> Trusted(claims[i]), seen |-> {}, loaded |-> None, suffix |-> 1] \in Callbacks
        BY <2>2 DEF Callbacks
    <2> QED
        BY <1>2, <2>3 DEF Callback, tables
<1>3. ASSUME NEW b \in Browsers, LookUp(b) PROVE Shape'
    <2>1. request[b] \in Callbacks
        BY <1>3, RequestKinds DEF LookUp
    <2>2. CASE request' = [request EXCEPT ![b] = [request[b] EXCEPT !.step = "name", !.seen = Users]]
        <3>1. [request[b] EXCEPT !.step = "name", !.seen = Users] \in Callbacks
            BY <2>1 DEF Callbacks, Users
        <3> QED
            BY <1>3, <2>2, <3>1 DEF LookUp, tables
    <2>3. ASSUME NEW u \in users[request[b].who],
                 request' = [request EXCEPT ![b] = [request[b] EXCEPT !.step = "refresh", !.loaded = u.email]]
          PROVE  Shape'
        <3>1. u.email \in Emails
            BY <2>1 DEF Callbacks
        <3>2. [request[b] EXCEPT !.step = "refresh", !.loaded = u.email] \in Callbacks
            BY <2>1, <3>1 DEF Callbacks
        <3> QED
            BY <1>3, <2>3, <3>2 DEF LookUp, tables
    <2> QED
        BY <1>3, <2>2, <2>3 DEF LookUp
<1>4. ASSUME NEW b \in Browsers, FindName(b) PROVE Shape'
    <2>1. request[b] \in Callbacks
        BY <1>4, RequestKinds DEF FindName
    <2>2. /\ [request[b] EXCEPT !.suffix = request[b].suffix + 1] \in Callbacks
          /\ [request[b] EXCEPT !.step = "create"] \in Callbacks
        BY <2>1 DEF Callbacks
    <2> QED
        BY <1>4, <2>2 DEF FindName, tables
<1>5. ASSUME NEW b \in Browsers, Create(b) PROVE Shape'
    <2>1. request[b] \in Callbacks
        BY <1>5, RequestKinds DEF Create
    <2>2. [request[b] EXCEPT !.step = "failed"] \in Callbacks
        BY <2>1 DEF Callbacks
    <2>3. Candidate(request[b]) \in UserNames
        BY <2>1 DEF Callbacks, Candidate, UserNames
    <2>4. {[name |-> Candidate(request[b]), email |-> request[b].email]}
              \subseteq [name : UserNames, email : Emails]
        BY <2>1, <2>3 DEF Callbacks
    <2>5. CASE request' = [request EXCEPT ![b].step = "failed"] /\ UNCHANGED users
        BY <1>5, <2>2, <2>5 DEF Create
    <2>6. CASE /\ users' = [users EXCEPT ![request[b].who] =
                              {[name |-> Candidate(request[b]), email |-> request[b].email]}]
               /\ request' = [request EXCEPT ![b] = NoRequest]
        BY <1>5, <2>4, <2>6 DEF Create
    <2> QED
        BY <1>5, <2>5, <2>6 DEF Create, Answered
<1>6. ASSUME NEW b \in Browsers, Refresh(b) PROVE Shape'
    <2>1. request[b] \in Callbacks
        BY <1>6, RequestKinds DEF Refresh
    <2>2. request' = [request EXCEPT ![b] = NoRequest]
        BY <1>6 DEF Refresh, Answered
    <2>3. {[u EXCEPT !.email = request[b].email] : u \in users[request[b].who]}
              \subseteq [name : UserNames, email : Emails]
        BY <2>1 DEF Callbacks
    <2> QED
        BY <1>6, <2>2, <2>3 DEF Refresh
<1>7. ASSUME NEW b \in Browsers, Logout(b) PROVE Shape'
    BY <1>7 DEF Logout, tables
<1>8. ASSUME NEW b \in Browsers, Abort(b) PROVE Shape'
    BY <1>8 DEF Abort, tables
<1>9. ASSUME NEW b \in Browsers, NEW i \in Identities, NEW f \in Flags,
             NEW value \in {{}, {TRUE}, {FALSE}}, AskOverride(b, i, f, value)
      PROVE  Shape'
    <2>1. [step |-> "override", user |-> i, flag |-> f, value |-> value] \in Orders
        BY DEF Orders
    <2> QED
        BY <1>9, <2>1 DEF AskOverride, tables
<1>10. ASSUME NEW b \in Browsers, ApplyOverride(b) PROVE Shape'
    BY <1>10 DEF ApplyOverride
<1>11. CASE Deploy
    BY <1>11 DEF Deploy, tables
<1>12. CASE UNCHANGED vars
    BY <1>12 DEF vars, tables
<1> QED
    BY <1>1, <1>2, <1>3, <1>4, <1>5, <1>6, <1>7, <1>8, <1>9, <1>10, <1>11, <1>12, AccountsAssumption
    DEF Next, Server

-----------------------------------------------------------------------------
(* The flags.                                                              *)

\* At first nothing is stored that the provider has not given.
LEMMA VouchInit == Init => VouchInv
<1> SUFFICES ASSUME Init PROVE VouchInv
    OBVIOUS
<1>1. \A b \in Browsers : request[b] \notin Callbacks
    BY DEF Init, NoRequest, Callbacks
<1> QED
    BY <1>1 DEF Init, VouchInv, Vouched

\* What was vouched for stays so: an action that leaves the provider and the
\* users alone has the requests to care about only.
LEMMA VouchNext == Shape /\ VouchInv /\ [Next]_vars => VouchInv'
<1> SUFFICES ASSUME Shape, VouchInv, [Next]_vars PROVE VouchInv'
    OBVIOUS
<1>s. Shape'
    BY ShapeNext
<1>q. ASSUME UNCHANGED <<claims, vouched, users>>,
             \A b \in Browsers : request'[b] \in Callbacks =>
                 request'[b].email \in vouched[request'[b].who] \cup {None}
      PROVE  VouchInv'
    BY <1>q DEF VouchInv, Vouched
<1>1. ASSUME NEW i \in Identities, ChangeClaims(i) PROVE VouchInv'
    <2>1. PICK c \in ClaimsOf[i] : claims' = [claims EXCEPT ![i] = c]
                                   /\ vouched' = [vouched EXCEPT ![i] = @ \cup Vouched(c)]
        BY <1>1 DEF ChangeClaims
    <2>2. \A j \in Identities : vouched[j] \subseteq vouched'[j]
        BY <2>1 DEF Shape
    <2>3. \A j \in Identities : Vouched(claims'[j]) \subseteq vouched'[j]
        BY <2>1, <2>2 DEF Shape, VouchInv
    <2>4. UNCHANGED <<users, request>>
        BY <1>1 DEF ChangeClaims, tables
    <2>5. \A b \in Browsers : request[b] \in Callbacks => request[b].who \in Identities
        BY DEF Callbacks
    <2>6. \A b \in Browsers : request[b] \in Callbacks =>
              request[b].email \in vouched'[request[b].who] \cup {None}
        BY <2>2, <2>5 DEF VouchInv
    <2>7. \A j \in Identities : \A u \in users[j] : u.email \in vouched'[j] \cup {None}
        BY <2>2 DEF VouchInv
    <2> QED
        BY <2>3, <2>4, <2>6, <2>7 DEF VouchInv, Vouched
<1>2. ASSUME NEW b \in Browsers, NEW i \in Identities, Callback(b, i) PROVE VouchInv'
    <2>1. Trusted(claims[i]) \in vouched[i] \cup {None}
        BY DEF Trusted, Vouched, VouchInv
    <2>2. request'[b].who = i /\ request'[b].email = Trusted(claims[i])
        BY <1>2 DEF Callback, Shape
    <2>3. \A c \in Browsers \ {b} : request'[c] = request[c]
        BY <1>2 DEF Callback, Shape
    <2> QED
        BY <1>2, <1>q, <2>1, <2>2, <2>3 DEF Callback, tables, VouchInv
<1>3. ASSUME NEW b \in Browsers, LookUp(b) \/ FindName(b) PROVE VouchInv'
    <2>1. request[b] \in Callbacks
        BY <1>3, RequestKinds DEF LookUp, FindName
    <2>2. request'[b].who = request[b].who /\ request'[b].email = request[b].email
        <3>1. CASE LookUp(b)
            BY <2>1, <3>1, ZenonT(30) DEF LookUp, Shape, Callbacks
        <3>2. CASE FindName(b)
            BY <2>1, <3>2 DEF FindName, Shape, Callbacks
        <3> QED
            BY <1>3, <3>1, <3>2
    <2>3. \A c \in Browsers \ {b} : request'[c] = request[c]
        BY <1>3 DEF LookUp, FindName, Shape
    <2> QED
        BY <1>3, <1>q, <2>1, <2>2, <2>3 DEF LookUp, FindName, tables, VouchInv
<1>4. ASSUME NEW b \in Browsers, Create(b) PROVE VouchInv'
    <2>1. request[b] \in Callbacks /\ request[b].who \in Identities
        BY <1>4, RequestKinds DEF Create, Callbacks
    <2>2. \A c \in Browsers \ {b} : request'[c] = request[c]
        BY <1>4 DEF Create, Answered, Shape
    <2>3. CASE request' = [request EXCEPT ![b].step = "failed"] /\ UNCHANGED users
        <3>1. request'[b].who = request[b].who /\ request'[b].email = request[b].email
            BY <2>1, <2>3 DEF Shape, Callbacks
        <3> QED
            BY <1>4, <1>q, <2>1, <2>2, <2>3, <3>1 DEF Create, VouchInv
    <2>4. CASE /\ users' = [users EXCEPT ![request[b].who] =
                              {[name |-> Candidate(request[b]), email |-> request[b].email]}]
               /\ request' = [request EXCEPT ![b] = NoRequest]
        <3>1. request'[b] \notin Callbacks
            BY <2>4 DEF Shape, NoRequest, Callbacks
        <3>2. \A i \in Identities : \A u \in users'[i] : u.email \in vouched[i] \cup {None}
            BY <2>1, <2>4 DEF Shape, VouchInv
        <3>3. UNCHANGED <<claims, vouched>>
            BY <1>4 DEF Create
        <3> QED
            BY <2>2, <3>1, <3>2, <3>3 DEF VouchInv, Vouched
    <2> QED
        BY <1>4, <2>3, <2>4 DEF Create, Answered
<1>5. ASSUME NEW b \in Browsers, Refresh(b) PROVE VouchInv'
    <2>1. request[b] \in Callbacks /\ request[b].who \in Identities
        BY <1>5, RequestKinds DEF Refresh, Callbacks
    <2>2. request' = [request EXCEPT ![b] = NoRequest] /\ UNCHANGED <<claims, vouched>>
        BY <1>5 DEF Refresh, Answered
    <2>3. request'[b] \notin Callbacks /\ \A c \in Browsers \ {b} : request'[c] = request[c]
        BY <2>2 DEF Shape, NoRequest, Callbacks
    <2>4. \A i \in Identities : \A u \in users'[i] : u.email \in vouched[i] \cup {None}
        <3>1. \A u \in users[request[b].who] :
                  [u EXCEPT !.email = request[b].email].email = request[b].email
            BY <2>1 DEF Shape
        <3> QED
            BY <1>5, <2>1, <3>1 DEF Refresh, Shape, VouchInv
    <2> QED
        BY <2>2, <2>3, <2>4 DEF VouchInv, Vouched
<1>6. ASSUME NEW b \in Browsers, Logout(b) PROVE VouchInv'
    BY <1>6, <1>q DEF Logout, tables, VouchInv
<1>7. ASSUME NEW b \in Browsers,
             Abort(b) \/ ApplyOverride(b) \/
               \E i \in Identities, f \in Flags, value \in {{}, {TRUE}, {FALSE}} :
                  AskOverride(b, i, f, value)
      PROVE  VouchInv'
    <2>1. \A c \in Browsers \ {b} : request'[c] = request[c]
        BY <1>7 DEF Abort, ApplyOverride, AskOverride, Shape
    <2>2. request'[b].step \in {"idle", "override"}
        <3>1. CASE Abort(b)
            BY <3>1 DEF Abort, Shape, NoRequest
        <3>2. CASE ApplyOverride(b)
            BY <3>2 DEF ApplyOverride, Shape, NoRequest
        <3>3. CASE \E i \in Identities, f \in Flags, value \in {{}, {TRUE}, {FALSE}} :
                     AskOverride(b, i, f, value)
            BY <3>3 DEF AskOverride, Shape
        <3> QED
            BY <1>7, <3>1, <3>2, <3>3
    <2>3. request'[b] \notin Callbacks
        BY <2>2 DEF Callbacks
    <2> QED
        BY <1>7, <1>q, <2>1, <2>3 DEF Abort, ApplyOverride, AskOverride, tables, VouchInv
<1>8. CASE Deploy
    <2>1. \A b \in Browsers : request'[b] \notin Callbacks
        BY <1>8 DEF Deploy, NoRequest, Callbacks
    <2> QED
        BY <1>8, <1>q, <2>1 DEF Deploy, tables
<1>9. CASE UNCHANGED vars
    BY <1>9, <1>q DEF vars, tables, VouchInv
<1> QED
    BY <1>1, <1>2, <1>3, <1>4, <1>5, <1>6, <1>7, <1>8, <1>9, AccountsAssumption DEF Next, Server

\* An administrator who is signed in was vouched for.
LEMMA AdminsVouched ==
    ASSUME VouchInv, NEW i \in Identities, IsAdmin(i)
    PROVE  i \in Users /\ VouchedAdmin(i)
BY AccountsAssumption DEF VouchInv, IsAdmin, Users, VouchedAdmin

\* Whom the provider has vouched for stays vouched for.
LEMMA VouchedStay ==
    ASSUME Shape, [Next]_vars, NEW i \in Users, VouchedAdmin(i)
    PROVE  i \in Users' /\ VouchedAdmin(i)'
<1>1. \A j \in Identities : vouched[j] \subseteq vouched'[j]
    BY ZenonT(30) DEF Shape, Next, Server, ChangeClaims, Callback, LookUp, FindName, Create, Refresh,
           Logout, Abort, AskOverride, ApplyOverride, Deploy, tables, vars
<1>2. users'[i] # {}
    <2>1. CASE UNCHANGED users
        BY <2>1 DEF Users
    <2>2. ASSUME NEW b \in Browsers, Create(b) PROVE users'[i] # {}
        BY <2>2 DEF Create, Users, Shape
    <2>3. ASSUME NEW b \in Browsers, Refresh(b) PROVE users'[i] # {}
        <3>1. PICK u \in users[i] : TRUE
            BY DEF Users
        <3>2. CASE users' = users
            BY <3>1, <3>2
        <3>3. CASE users' = [users EXCEPT ![request[b].who] =
                               {[v EXCEPT !.email = request[b].email] : v \in @}]
            <4>1. users'[i] \in {users[i], {[v EXCEPT !.email = request[b].email] : v \in users[i]}}
                BY <3>3 DEF Shape, Users
            <4> QED
                BY <3>1, <4>1
        <3> QED
            BY <2>3, <3>2, <3>3 DEF Refresh
    <2> QED
        BY <2>1, <2>2, <2>3
        DEF Next, Server, ChangeClaims, Callback, LookUp, FindName, Logout, Abort,
            AskOverride, ApplyOverride, Deploy, tables, vars
<1> QED
    BY <1>1, <1>2 DEF VouchedAdmin, Users

\* No step leaves an override that nobody entitled had asked for.
LEMMA OrderNext == Shape /\ VouchInv /\ OrderInv /\ [Next]_vars => OrderInv'
<1> SUFFICES ASSUME Shape, VouchInv, OrderInv, [Next]_vars PROVE OrderInv'
    OBVIOUS
<1>s. Shape'
    BY ShapeNext
<1>v. ASSUME DOMAIN overrides # {} \/ \E b \in Browsers : request[b].step = "override"
      PROVE  OrderInv'
    BY <1>v, VouchedStay DEF OrderInv
<1>q. ASSUME overrides' = overrides,
             \A b \in Browsers : request'[b].step = "override" => request[b].step = "override"
      PROVE  OrderInv'
    BY <1>q, <1>v DEF OrderInv
<1>1. ASSUME NEW i \in Identities, ChangeClaims(i) PROVE OrderInv'
    BY <1>1, <1>q DEF ChangeClaims, tables
<1>2. ASSUME NEW b \in Browsers, NEW i \in Identities, Callback(b, i) PROVE OrderInv'
    BY <1>2, <1>q DEF Callback, tables, Shape
<1>3. ASSUME NEW b \in Browsers, LookUp(b) PROVE OrderInv'
    BY <1>3, <1>q, RequestKinds, ZenonT(30) DEF LookUp, tables, Shape, Callbacks
<1>4. ASSUME NEW b \in Browsers, FindName(b) PROVE OrderInv'
    BY <1>4, <1>q, RequestKinds DEF FindName, tables, Shape, Callbacks
<1>5. ASSUME NEW b \in Browsers, Create(b) PROVE OrderInv'
    BY <1>5, <1>q, RequestKinds DEF Create, Answered, Shape, Callbacks, NoRequest
<1>6. ASSUME NEW b \in Browsers, Refresh(b) PROVE OrderInv'
    BY <1>6, <1>q DEF Refresh, Answered, Shape, NoRequest
<1>7. ASSUME NEW b \in Browsers, Logout(b) \/ Abort(b) PROVE OrderInv'
    BY <1>7, <1>q DEF Logout, Abort, tables, Shape, NoRequest
<1>8. ASSUME NEW b \in Browsers, NEW i \in Identities, NEW f \in Flags,
             NEW value \in {{}, {TRUE}, {FALSE}}, AskOverride(b, i, f, value)
      PROVE  OrderInv'
    <2>1. PICK admin \in CurrentUser(b) : IsAdmin(admin)
        BY <1>8 DEF AskOverride
    <2>2. admin \in Users /\ VouchedAdmin(admin)
        BY <2>1, AdminsVouched DEF CurrentUser, Users
    <2> QED
        BY <2>2, VouchedStay DEF OrderInv
<1>9. ASSUME NEW b \in Browsers, ApplyOverride(b) PROVE OrderInv'
    BY <1>9, <1>v DEF ApplyOverride
<1>10. CASE Deploy
    BY <1>10, <1>q DEF Deploy, tables, NoRequest
<1>11. CASE UNCHANGED vars
    BY <1>11, <1>q DEF vars, tables
<1> QED
    BY <1>1, <1>2, <1>3, <1>4, <1>5, <1>6, <1>7, <1>8, <1>9, <1>10, <1>11, AccountsAssumption
    DEF Next, Server

\* The invariant says what is asked of flags.
LEMMA FlagsFollow == FlagInv => FlagsEarned
<1> SUFFICES ASSUME FlagInv PROVE FlagsEarned
    OBVIOUS
<1>1. ASSUME NEW i \in Users, NEW f \in registered, <<i, f>> \in DOMAIN overrides
      PROVE  Resolved(i)[f] = overrides[<<i, f>>]
    BY <1>1 DEF Resolved
<1>2. ASSUME NEW i \in Users, NEW f \in registered, <<i, f>> \notin DOMAIN overrides,
             Resolved(i)[f], ~Default(f)
      PROVE  f \in AdminFlags /\ VouchedAdmin(i)
    <2>1. IsAdmin(i) /\ f \in AdminFlags
        BY <1>2, Zenon DEF Resolved
    <2> QED
        BY <2>1, AdminsVouched DEF FlagInv, Users
<1>3. DOMAIN overrides # {} => \E i \in Users : VouchedAdmin(i)
    BY DEF FlagInv, OrderInv
<1> QED
    BY <1>1, <1>2, <1>3 DEF FlagsEarned

\* A flag that is off by default is on for those alone for whom it was set, or
\* whom the provider has vouched for as administrators, for every provider and
\* every set of flags and releases (services/feature_flags.py, services/auth.py).
THEOREM FlagsEarnedAlways == Spec => []FlagsEarned
<1>1. Init => FlagInv
    BY ShapeInit, VouchInit DEF FlagInv, OrderInv, Init, NoRequest
<1>2. FlagInv /\ [Next]_vars => FlagInv'
    BY ShapeNext, VouchNext, OrderNext DEF FlagInv
<1> QED
    BY <1>1, <1>2, FlagsFollow, PTL DEF Spec

-----------------------------------------------------------------------------
(* The names.                                                              *)

\* No user goes away, and none is renamed.
LEMMA NamesStay ==
    ASSUME Shape, [Next]_vars, NEW i \in Users
    PROVE  i \in Users' /\ {u.name : u \in users'[i]} = {u.name : u \in users[i]}
<1>1. CASE users'[i] = users[i]
    BY <1>1 DEF Users
<1>2. ASSUME NEW b \in Browsers, Create(b) PROVE users'[i] = users[i]
    BY <1>2 DEF Create, Users, Shape
<1>3. ASSUME NEW b \in Browsers, Refresh(b), users'[i] # users[i]
      PROVE  i \in Users' /\ {u.name : u \in users'[i]} = {u.name : u \in users[i]}
    <2> DEFINE Fresh(u) == [u EXCEPT !.email = request[b].email]
    <2>1. users'[i] = {Fresh(u) : u \in users[i]}
        BY <1>3 DEF Refresh, Users, Shape
    <2>2. \A u \in users[i] : Fresh(u).name = u.name
        BY DEF Shape, Users
    <2>3. i \in Users'
        BY <2>1 DEF Users
    <2> HIDE DEF Fresh
    <2> QED
        BY <2>1, <2>2, <2>3
<1> QED
    BY <1>1, <1>2, <1>3
    DEF Next, Server, ChangeClaims, Callback, LookUp, FindName, Logout, Abort,
        AskOverride, ApplyOverride, Deploy, tables, vars

\* What a callback has seen of the table stays so, as no user is deleted or renamed.
LEMMA UndisturbedStays ==
    ASSUME Shape, [Next]_vars, NEW r, Undisturbed(r, users)
    PROVE  Undisturbed(r, users')
<1>1. \A i \in Known(users) : i \in Known(users')
    BY NamesStay DEF Known, Users
<1>2. \A i \in Known(users) : \A name : Has(users', i, name) <=> Has(users, i, name)
    <2> TAKE i \in Known(users)
    <2> TAKE name
    <2>1. {u.name : u \in users'[i]} = {u.name : u \in users[i]}
        BY NamesStay DEF Known, Users
    <2> QED
        BY <2>1 DEF Has
<1> QED
    BY <1>1, <1>2 DEF Undisturbed

\* No step breaks what a callback relies on between look-up and insertion.
LEMMA RaceNext == Shape /\ RaceInv /\ [Next]_vars => RaceInv'
<1> SUFFICES ASSUME Shape, RaceInv, [Next]_vars PROVE RaceInv'
    OBVIOUS
<1>r. ASSUME NEW b \in Browsers,
             \A c \in Browsers \ {b} : request'[c] = request[c],
             Undisturbed(request'[b], users')
      PROVE  RaceInv'
    BY <1>r, UndisturbedStays DEF RaceInv
<1>q. ASSUME NEW b \in Browsers,
             \A c \in Browsers \ {b} : request'[c] = request[c],
             request'[b].step \notin {"name", "create", "failed"} \/ request'[b] = request[b]
      PROVE  RaceInv'
    <2>1. Undisturbed(request'[b], users')
        <3>1. CASE request'[b] = request[b]
            BY <3>1, UndisturbedStays DEF RaceInv
        <3>2. CASE request'[b].step \notin {"name", "create", "failed"}
            BY <3>2 DEF Undisturbed
        <3> QED
            BY <1>q, <3>1, <3>2
    <2> QED
        BY <1>q, <1>r, <2>1
<1>1. CASE UNCHANGED request
    BY <1>1, UndisturbedStays DEF RaceInv
<1>2. ASSUME NEW b \in Browsers, LookUp(b) PROVE RaceInv'
    <2>1. request[b] \in Callbacks
        BY <1>2, RequestKinds DEF LookUp
    <2>2. \A c \in Browsers \ {b} : request'[c] = request[c]
        BY <1>2 DEF LookUp, Shape
    <2>3. CASE request'[b].step = "refresh"
        BY <1>q, <2>2, <2>3
    <2>4. CASE /\ request[b].who \notin Users
               /\ request' = [request EXCEPT ![b] = [request[b] EXCEPT !.step = "name", !.seen = Users]]
        <3>1. request'[b].step = "name" /\ request'[b].seen = Users /\ request'[b].who \notin Users
            BY <2>1, <2>4 DEF Shape, Callbacks
        <3>2. Known(users') = Users
            BY <1>2 DEF LookUp, tables, Users, Known
        <3> QED
            BY <1>r, <2>2, <3>1, <3>2 DEF Undisturbed
    <2> QED
        BY <1>2, <2>1, <2>3, <2>4 DEF LookUp, Shape, Callbacks
<1>3. ASSUME NEW b \in Browsers, FindName(b) PROVE RaceInv'
    <2>1. request[b] \in Callbacks /\ request[b].step = "name"
        BY <1>3, RequestKinds DEF FindName
    <2>2. request[b].seen \subseteq Known(users) /\ request[b].who \notin request[b].seen
        BY <2>1 DEF RaceInv, Undisturbed
    <2>3. \A c \in Browsers \ {b} : request'[c] = request[c]
        BY <1>3 DEF FindName, Shape
    <2>4. UNCHANGED users
        BY <1>3 DEF FindName, tables
    <2>5. CASE /\ Taken(Candidate(request[b]))
               /\ request' = [request EXCEPT ![b] = [request[b] EXCEPT !.suffix = request[b].suffix + 1]]
        <3>1. /\ request'[b].step = "name" /\ request'[b].seen = request[b].seen
              /\ request'[b].who = request[b].who
            BY <2>1, <2>5 DEF Shape, Callbacks
        <3> QED
            BY <1>r, <2>2, <2>3, <2>4, <3>1 DEF Undisturbed
    <2>6. CASE /\ ~Taken(Candidate(request[b]))
               /\ request' = [request EXCEPT ![b] = [request[b] EXCEPT !.step = "create"]]
        <3>1. /\ request'[b].step = "create" /\ request'[b].seen = request[b].seen
              /\ request'[b].who = request[b].who
              /\ Candidate(request'[b]) = Candidate(request[b])
            BY <2>1, <2>6 DEF Shape, Callbacks, Candidate
        <3>2. \A i \in request[b].seen : ~Has(users, i, Candidate(request[b]))
            BY <2>1, <2>6 DEF Taken, Named, Has, Callbacks
        <3> QED
            BY <1>r, <2>2, <2>3, <2>4, <3>1, <3>2 DEF Undisturbed
    <2> QED
        BY <1>3, <2>5, <2>6 DEF FindName
<1>4. ASSUME NEW b \in Browsers, Create(b) PROVE RaceInv'
    <2>1. request[b] \in Callbacks /\ request[b].step = "create"
        BY <1>4, RequestKinds DEF Create
    <2>2. \A c \in Browsers \ {b} : request'[c] = request[c]
        BY <1>4 DEF Create, Answered, Shape
    <2>3. CASE request' = [request EXCEPT ![b] = NoRequest]
        BY <1>q, <2>2, <2>3 DEF Shape, NoRequest
    <2>4. CASE /\ request[b].who \in Users \/ Taken(Candidate(request[b]))
               /\ request' = [request EXCEPT ![b].step = "failed"]
               /\ UNCHANGED users
        <3>1. /\ request'[b].step = "failed" /\ request'[b].seen = request[b].seen
              /\ request'[b].who = request[b].who
              /\ Candidate(request'[b]) = Candidate(request[b])
            BY <2>1, <2>4 DEF Shape, Callbacks, Candidate
        <3>2. /\ request[b].seen \subseteq Known(users) /\ request[b].who \notin request[b].seen
              /\ \A i \in request[b].seen : ~Has(users, i, Candidate(request[b]))
            BY <2>1 DEF RaceInv, Undisturbed
        <3>3. \E i \in Known(users) \ request[b].seen :
                 i = request[b].who \/ Has(users, i, Candidate(request[b]))
            BY <2>4, <3>2 DEF Taken, Named, Has, Users, Known
        <3> QED
            BY <1>r, <2>2, <2>4, <3>1, <3>2, <3>3 DEF Undisturbed
    <2> QED
        BY <1>4, <2>3, <2>4 DEF Create, Answered
<1>5. ASSUME NEW b \in Browsers,
             \/ \E i \in Identities : Callback(b, i)
             \/ Refresh(b) \/ Abort(b) \/ ApplyOverride(b)
             \/ \E i \in Identities, f \in Flags, value \in {{}, {TRUE}, {FALSE}} :
                   AskOverride(b, i, f, value)
      PROVE  RaceInv'
    <2>1. \A c \in Browsers \ {b} : request'[c] = request[c]
        BY <1>5 DEF Callback, Refresh, Answered, Abort, ApplyOverride, AskOverride, Shape
    <2>2. request'[b].step \in {"idle", "lookup", "override"}
        <3>1. ASSUME NEW i \in Identities, Callback(b, i) PROVE request'[b].step = "lookup"
            BY <3>1 DEF Callback, Shape
        <3>2. CASE Refresh(b) \/ Abort(b) \/ ApplyOverride(b)
            BY <3>2 DEF Refresh, Answered, Abort, ApplyOverride, Shape, NoRequest
        <3>3. CASE \E i \in Identities, f \in Flags, value \in {{}, {TRUE}, {FALSE}} :
                     AskOverride(b, i, f, value)
            BY <3>3 DEF AskOverride, Shape
        <3> QED
            BY <1>5, <3>1, <3>2, <3>3
    <2> QED
        BY <1>q, <2>1, <2>2
<1>6. CASE Deploy
    BY <1>6 DEF Deploy, RaceInv, Undisturbed, NoRequest
<1> QED
    BY <1>1, <1>2, <1>3, <1>4, <1>5, <1>6, AccountsAssumption
    DEF Next, Server, ChangeClaims, Logout, vars

\* A sign-in fails only if another one took its identity or its name while it
\* went on, for any number of people, browsers and names
\* (AuthService._available_username, the two unique indexes of users).
THEOREM FailsOnlyIfRacedAlways == Spec => []FailsOnlyIfRaced
<1>1. Init => Shape /\ RaceInv
    BY ShapeInit DEF RaceInv, Undisturbed, Init, NoRequest
<1>2. Shape /\ RaceInv /\ [Next]_vars => (Shape /\ RaceInv)'
    BY ShapeNext, RaceNext
<1>3. RaceInv => FailsOnlyIfRaced
    BY DEF RaceInv, Undisturbed, Known, Has, Users, Named, FailsOnlyIfRaced
<1> QED
    BY <1>1, <1>2, <1>3, PTL DEF Spec

-----------------------------------------------------------------------------
(* The counters of progress: least and greatest.                           *)

\* A finite, nonempty set of integers has a greatest member: one with the least
\* set of members above it.
LEMMA GreatestExists ==
    ASSUME NEW S, S \subseteq Int, IsFiniteSet(S), S # {}
    PROVE  \E x \in S : \A y \in S : x >= y
<1> DEFINE Above(x) == {y \in S : y > x}
           Family == {Above(x) : x \in S}
<1>1. IsWellFoundedOn(StrictSubsetOrdering(S), FiniteSubsetsOf(S))
  BY FS_StrictSubsetOrderingWellFounded
<1>2. Family \subseteq FiniteSubsetsOf(S) /\ Family # {}
  <2>1. Family \subseteq FiniteSubsetsOf(S)
    BY FS_FiniteSubsetsOfFinite
  <2> QED BY <2>1
<1>3. PICK A \in Family : \A B \in Family : <<B, A>> \notin StrictSubsetOrdering(S)
  <2> HIDE DEF Family
  <2> QED BY <1>1, <1>2, WFMin
<1>4. PICK x \in S : A = Above(x)
  OBVIOUS
<1>5. ASSUME NEW y \in S, ~(x >= y) PROVE FALSE
  <2>1. x \in Int /\ y \in Int /\ y > x
    BY <1>5
  <2>2. Above(y) \subseteq Above(x) /\ y \in Above(x) /\ y \notin Above(y)
    <3>1. ASSUME NEW z \in S, z > y PROVE z > x
      BY <2>1, <3>1
    <3>2. Above(y) \subseteq Above(x)
      BY <3>1
    <3>3. y \in Above(x) /\ y \notin Above(y)
      BY <2>1
    <3> QED BY <3>2, <3>3
  <2>3. Above(y) \in SUBSET S /\ Above(x) \in SUBSET S /\ Above(y) \in Family
    OBVIOUS
  <2>4. <<Above(y), Above(x)>> \in StrictSubsetOrdering(S)
    <3> HIDE DEF Above
    <3> QED BY <2>2, <2>3 DEF StrictSubsetOrdering
  <2> QED BY <1>3, <1>4, <2>3, <2>4
<1> QED BY <1>5

\* The greatest of a set is the one it says.
LEMMA MaxIs ==
    ASSUME NEW S, S \subseteq Int, NEW x \in S, \A y \in S : x >= y
    PROVE  Max(S) = x
<1>1. \A z \in S : (\A y \in S : z >= y) => z = x
  OBVIOUS
<1> QED BY <1>1 DEF Max

\* So is the least.
LEMMA MinIs ==
    ASSUME NEW S, S \subseteq Int, NEW x \in S, \A y \in S : x <= y
    PROVE  Min(S) = x
<1>1. \A z \in S : (\A y \in S : z <= y) => z = x
  OBVIOUS
<1> QED BY <1>1 DEF Min

\* A finite set has them.
LEMMA MaxExists ==
    ASSUME NEW S, S \subseteq Int, IsFiniteSet(S), S # {}
    PROVE  Max(S) \in S /\ \A y \in S : Max(S) >= y
<1>1. PICK x \in S : \A y \in S : x >= y
  BY GreatestExists
<1> QED BY <1>1, MaxIs

\* The least is the greatest of the opposites.
LEMMA MinExists ==
    ASSUME NEW S, S \subseteq Int, IsFiniteSet(S), S # {}
    PROVE  Min(S) \in S /\ \A y \in S : Min(S) <= y
<1> DEFINE Back == {-x : x \in S}
           f == [x \in S |-> -x]
<1>1. f \in Surjection(S, Back)
  BY DEF Surjection
<1>2. IsFiniteSet(Back) /\ Back \subseteq Int /\ Back # {}
  <2>1. IsFiniteSet(Back)
    <3> HIDE DEF f, Back
    <3> QED BY <1>1, FS_Surjection
  <2>2. Back \subseteq Int /\ Back # {}
    <3>1. \A x \in S : x \in Int /\ -x \in Int
      OBVIOUS
    <3>2. PICK x \in S : TRUE
      OBVIOUS
    <3>3. -x \in Back
      OBVIOUS
    <3> QED BY <3>1, <3>3
  <2> HIDE DEF Back
  <2> QED BY <2>1, <2>2
<1>3. PICK m \in Back : \A y \in Back : m >= y
  <2> HIDE DEF Back
  <2> QED BY <1>2, GreatestExists
<1>4. PICK x \in S : m = -x
  OBVIOUS
<1>5. \A y \in S : x <= y
  <2> TAKE y \in S
  <2>1. -x >= -y
    BY <1>3, <1>4
  <2> QED BY <2>1
<1> HIDE DEF Back, f
<1> QED BY <1>5, MinIs

-----------------------------------------------------------------------------
(* Runs of days.                                                           *)

\* Days in a row up to one.
InARow(days, day, n) == day - n + 1 .. day \subseteq days

\* Going back from a day, there is a first one that is not among finitely many.
LEMMA GapExists ==
    ASSUME NEW days, days \subseteq Int, IsFiniteSet(days), NEW day \in Int
    PROVE  \E n \in Nat : InARow(days, day, n) /\ day - n \notin days
<1>1. PICK x \in Int : x <= day /\ x \notin days
  <2>1. CASE days = {}
    BY <2>1
  <2>2. CASE days # {}
    <3>1. PICK m \in days : \A y \in days : m <= y
      BY <2>2, MinExists
    <3>2. m - 1 \notin days /\ m - 1 \in Int
      BY <3>1
    <3>3. day < m => day \notin days
      BY <3>1
    <3> QED BY <3>1, <3>2, <3>3
  <2> QED BY <2>1, <2>2
<1> DEFINE S == {y \in x .. day : y \notin days}
<1>2. S \subseteq Int /\ IsFiniteSet(S) /\ S # {}
  <2>1. IsFiniteSet(x .. day)
    BY FS_Interval
  <2>2. S \subseteq x .. day /\ x \in S /\ S \subseteq Int
    BY <1>1
  <2> HIDE DEF S
  <2> QED BY <2>1, <2>2, FS_Subset
<1>3. PICK m \in S : \A y \in S : m >= y
  <2> HIDE DEF S
  <2> QED BY <1>2, GreatestExists
<1>4. day - m \in Nat /\ InARow(days, day, day - m) /\ day - (day - m) \notin days
  BY <1>1, <1>3 DEF InARow
<1> QED BY <1>4

\* The length of a run is the one that both starts and stops right.
RunLength(days, day) == CHOOSE n \in Nat : InARow(days, day, n) /\ day - n \notin days

\* What it is, and what it is a day later.
LEMMA RunLengthIs ==
    ASSUME NEW days, days \subseteq Int, IsFiniteSet(days), NEW day \in Int
    PROVE  /\ RunLength(days, day) \in Nat /\ InARow(days, day, RunLength(days, day))
           /\ \A n \in Nat : InARow(days, day, n) <=> n <= RunLength(days, day)
           /\ RunLength(days, day) = IF day \in days THEN 1 + RunLength(days, day - 1) ELSE 0
<1> DEFINE Ends(d, n) == InARow(days, d, n) /\ d - n \notin days
<1>1. ASSUME NEW d \in Int
      PROVE  RunLength(days, d) \in Nat /\ Ends(d, RunLength(days, d))
  BY <1>1, GapExists DEF RunLength
<1>2. ASSUME NEW d \in Int, NEW n \in Nat, Ends(d, n), NEW k \in Nat
      PROVE  InARow(days, d, k) <=> k <= n
  BY <1>2 DEF InARow
<1>3. ASSUME NEW d \in Int, NEW n \in Nat, NEW k \in Nat, Ends(d, n), Ends(d, k)
      PROVE  n = k
  BY <1>2, <1>3
<1>4. ASSUME day \in days PROVE Ends(day, 1 + RunLength(days, day - 1))
  <2> DEFINE r == RunLength(days, day - 1)
  <2>1. r \in Nat /\ Ends(day - 1, r)
    BY <1>1
  <2> HIDE DEF r
  <2>2. day - (1 + r) + 1 .. day = (day - 1 - r + 1 .. day - 1) \cup {day}
    BY <2>1
  <2>3. day - (1 + r) = day - 1 - r
    BY <2>1
  <2>4. Ends(day, 1 + r)
    BY <1>4, <2>1, <2>2, <2>3 DEF InARow
  <2> QED BY <2>4 DEF r
<1>5. ASSUME day \notin days PROVE Ends(day, 0)
  BY <1>5 DEF InARow
<1>6. InARow(days, day, RunLength(days, day))
  BY <1>1
<1> HIDE DEF Ends
<1>7. 1 + RunLength(days, day - 1) \in Nat
  BY <1>1
<1> QED BY <1>1, <1>2, <1>3, <1>4, <1>5, <1>6, <1>7

\* _run_ending_at computes it: the recursion has one solution on finitely many
\* days.
LEMMA RunIsLength ==
    ASSUME NEW days, days \subseteq Int, IsFiniteSet(days), NEW day \in Int
    PROVE  RunEndingAt(days, day) = RunLength(days, day)
<1> DEFINE Solves(f) == f = [d \in Int |-> IF d \in days THEN 1 + f[d - 1] ELSE 0]
           g == [d \in Int |-> RunLength(days, d)]
           length == CHOOSE f : Solves(f)
<1>1. Solves(g)
  <2>1. \A d \in Int : d - 1 \in Int /\ g[d] = IF d \in days THEN 1 + g[d - 1] ELSE 0
    <3> TAKE d \in Int
    <3>1. d - 1 \in Int
      OBVIOUS
    <3>2. g[d] = RunLength(days, d) /\ g[d - 1] = RunLength(days, d - 1)
      BY <3>1
    <3> HIDE DEF g
    <3> QED BY <3>1, <3>2, RunLengthIs
  <2> QED BY <2>1
<1>2. Solves(length)
  <2> HIDE DEF g, Solves
  <2> QED BY <1>1
<1>3. RunEndingAt(days, day) = length[day]
  BY DEF RunEndingAt
<1> HIDE DEF length
<1>4. \A d \in Int : length[d] = IF d \in days THEN 1 + length[d - 1] ELSE 0
  BY <1>2
<1> DEFINE Bad == {d \in days : length[d] # RunLength(days, d)}
<1>5. Bad = {}
  <2> SUFFICES ASSUME Bad # {} PROVE FALSE
    OBVIOUS
  <2>1. Bad \subseteq Int /\ IsFiniteSet(Bad)
    <3>1. Bad \subseteq days
      OBVIOUS
    <3> HIDE DEF Bad
    <3> QED BY <3>1, FS_Subset
  <2>2. PICK b \in Bad : \A y \in Bad : b <= y
    <3> HIDE DEF Bad
    <3> QED BY <2>1, MinExists
  <2>3. b \in Int /\ b - 1 \in Int /\ b - 1 \notin Bad /\ b \in days
    BY <2>2
  <2>4. length[b - 1] = RunLength(days, b - 1)
    <3>1. CASE b - 1 \in days
      BY <2>3, <3>1
    <3>2. CASE b - 1 \notin days
      BY <1>4, <2>3, <3>2, RunLengthIs
    <3> QED BY <3>1, <3>2
  <2> QED BY <1>4, <2>2, <2>3, <2>4, RunLengthIs, ZenonT(30)
<1>6. CASE day \in days
  BY <1>3, <1>5, <1>6
<1>7. CASE day \notin days
  BY <1>3, <1>4, <1>7, RunLengthIs
<1> QED BY <1>6, <1>7

\* A run of n days holds n days.
LEMMA RunIsShort ==
    ASSUME NEW days, days \subseteq Int, IsFiniteSet(days), NEW day \in Int,
           NEW all, IsFiniteSet(all), days \subseteq all
    PROVE  RunLength(days, day) <= Cardinality(all) /\ Cardinality(all) \in Nat
<1> DEFINE n == RunLength(days, day)
           run == day - n + 1 .. day
<1>1. n \in Nat /\ run \subseteq days
  BY RunLengthIs DEF InARow
<1> HIDE DEF n
<1>2. day - n + 1 \in Int /\ day \in Int
  BY <1>1
<1>3. Cardinality(run) = n
  <2>1. Cardinality(run) = IF day - n + 1 > day THEN 0 ELSE day - (day - n + 1) + 1
    BY <1>2, FS_Interval
  <2> QED BY <1>1, <2>1
<1>4. Cardinality(run) <= Cardinality(all) /\ Cardinality(all) \in Nat
  <2> HIDE DEF run
  <2> QED BY <1>1, FS_Subset, FS_CardinalityType
<1> QED BY <1>3, <1>4 DEF n

\* More days make no shorter runs.
LEMMA RunsGrow ==
    ASSUME NEW days, NEW more, days \subseteq more, more \subseteq Int, IsFiniteSet(more),
           NEW day \in Int
    PROVE  RunEndingAt(days, day) <= RunEndingAt(more, day)
<1>1. days \subseteq Int /\ IsFiniteSet(days)
  BY FS_Subset
<1>2. InARow(days, day, RunLength(days, day)) /\ RunLength(days, day) \in Nat
  BY <1>1, RunLengthIs
<1>3. InARow(more, day, RunLength(days, day))
  BY <1>2 DEF InARow
<1>4. RunLength(days, day) <= RunLength(more, day)
  BY <1>2, <1>3, RunLengthIs
<1> QED BY <1>1, <1>4, RunIsLength

-----------------------------------------------------------------------------
(* Days.                                                                   *)

\* Quotient and remainder.
LEMMA Divided ==
    ASSUME NEW n \in Int, NEW m \in Nat \ {0}
    PROVE  /\ n \div m \in Int /\ n % m \in 0 .. m - 1
           /\ n = m * (n \div m) + (n % m)
<1>1. n \in Int /\ m \in Int /\ m > 0
  OBVIOUS
<1> QED BY <1>1, Z3

\* Of two multiples the greater is greater by that much at least.
LEMMA MultiplesApart ==
    ASSUME NEW a \in Int, NEW b \in Int, NEW m \in Nat \ {0}, a < b
    PROVE  m * a + m <= m * b
<1>1. b - a - 1 \in Nat
  OBVIOUS
<1>2. m * (b - a - 1) >= 0
  BY <1>1
<1>3. m * (b - a - 1) = m * b - m * a - m
  OBVIOUS
<1>4. m * b \in Int /\ m * a \in Int
  OBVIOUS
<1> QED BY <1>2, <1>3, <1>4

\* The quotient is the number of the multiple that is not passed.
LEMMA QuotientIs ==
    ASSUME NEW n \in Int, NEW m \in Nat \ {0}, NEW q \in Int
    PROVE  /\ q <= n \div m <=> m * q <= n
           /\ n \div m < q <=> n < m * q
<1> DEFINE d == n \div m
<1>1. d \in Int /\ m * d <= n /\ n < m * d + m
  <2>1. n % m >= 0 /\ n % m < m /\ n % m \in Int
    BY Divided
  <2>2. n = m * d + (n % m) /\ d \in Int /\ m * d \in Int
    BY Divided
  <2> HIDE DEF d
  <2> QED BY <2>1, <2>2
<1> HIDE DEF d
<1>2. m * q \in Int /\ m * d \in Int
  BY <1>1
<1>3. q < d => m * q + m <= m * d
  BY <1>1, MultiplesApart
<1>4. d < q => m * d + m <= m * q
  BY <1>1, MultiplesApart
<1>5. q = d => m * q = m * d
  OBVIOUS
<1>6. (q <= d <=> m * q <= n) /\ (d < q <=> n < m * q)
  BY <1>1, <1>2, <1>3, <1>4, <1>5
<1> QED BY <1>6 DEF d

\* A later hour is on no earlier day, and the next one on the same or the next.
LEMMA DaysInOrder ==
    ASSUME NEW h \in Int, NEW i \in Int, NEW tz \in Int, h <= i
    PROVE  /\ LocalDay(h, tz) \in Int /\ LocalDay(i, tz) \in Int
           /\ LocalDay(h, tz) <= LocalDay(i, tz)
           /\ i = h + 1 => LocalDay(i, tz) <= LocalDay(h, tz) + 1
<1> DEFINE a == LocalDay(h, tz)
           b == LocalDay(i, tz)
<1>0. DayHours \in Nat \ {0} /\ h - tz \in Int /\ i - tz \in Int
  BY ProgressAssumption
<1>1. a \in Int /\ b \in Int
  BY <1>0, Divided DEF LocalDay
<1>2. a <= b
  <2>1. DayHours * a <= h - tz
    BY <1>0, <1>1, QuotientIs DEF LocalDay
  <2>2. DayHours * a \in Int /\ DayHours * a <= i - tz
    BY <1>0, <1>1, <2>1
  <2> QED BY <1>0, <1>1, <2>2, QuotientIs DEF LocalDay
<1>3. ASSUME i = h + 1 PROVE b <= a + 1
  <2>1. h - tz < DayHours * (a + 1)
    <3>1. a + 1 \in Int /\ a < a + 1
      BY <1>1
    <3> QED BY <1>0, <3>1, QuotientIs DEF LocalDay
  <2>2. DayHours * (a + 2) = DayHours * (a + 1) + DayHours /\ DayHours * (a + 1) \in Int
    <3> HIDE DEF a
    <3> QED BY <1>0, <1>1
  <2>3. i - tz < DayHours * (a + 2)
    <3> HIDE DEF a
    <3> QED BY <1>0, <1>3, <2>1, <2>2
  <2>4. a + 2 \in Int
    BY <1>1
  <2>5. b < a + 2
    BY <1>0, <2>3, <2>4, QuotientIs DEF LocalDay
  <2> HIDE DEF a, b
  <2> QED BY <1>1, <2>5
<1> QED BY <1>1, <1>2, <1>3

\* A day is a whole number.
LEMMA DayIsWhole ==
    ASSUME NEW h \in Int, NEW tz \in Int
    PROVE  LocalDay(h, tz) \in Int
<1>1. h <= h
  OBVIOUS
<1> QED BY <1>1, DaysInOrder

\* The calendar holds the day that the clock starts on at UTC.
LEMMA CalendarIs ==
    /\ Calendar \subseteq Int /\ IsFiniteSet(Calendar) /\ Calendar # {}
<1> DEFINE S == Offsets \cup {0}
<1>1. S \subseteq Int /\ IsFiniteSet(S) /\ 0 \in S
  <2>1. IsFiniteSet(S)
    BY ProgressAssumption, FS_Union, FS_Singleton
  <2> QED BY <2>1, ProgressAssumption
<1> HIDE DEF S
<1>2. Max(S) \in Int /\ Max(S) >= 0 /\ Min(S) \in Int /\ Min(S) <= 0
  BY <1>1, MaxExists, MinExists
<1>3. DayHours \in Nat \ {0} /\ MaxHour \in Nat
  BY ProgressAssumption
<1> DEFINE first == LocalDay(0, Max(S))
           last == LocalDay(MaxHour, Min(S))
<1>4. first \in Int /\ last \in Int
  <2>1. 0 - Max(S) \in Int /\ MaxHour - Min(S) \in Int
    BY <1>2, <1>3
  <2> QED BY <1>3, <2>1, Divided DEF LocalDay
<1>5. first <= 0 /\ 0 <= last
  <2>1. 0 - Max(S) \in Int /\ 0 - Max(S) < DayHours * 1 /\ DayHours * 0 <= MaxHour - Min(S)
        /\ MaxHour - Min(S) \in Int
    BY <1>2, <1>3
  <2>2. first < 1 /\ 0 <= last
    BY <1>3, <2>1, QuotientIs DEF LocalDay
  <2> HIDE DEF first, last
  <2> QED BY <1>4, <2>2
<1>6. Calendar = first .. last
  BY DEF Calendar, S
<1> HIDE DEF first, last
<1>7. IsFiniteSet(first .. last) /\ 0 \in first .. last
  BY <1>4, <1>5, FS_Interval
<1> QED BY <1>4, <1>6, <1>7

-----------------------------------------------------------------------------
(* Counts.                                                                 *)

Logs == [Hours -> 0 .. MaxPerHour]
Counts == [Calendar -> Nat]

\* The rows of a log are finitely many, and the days are counted.
LEMMA CountsTyped ==
    ASSUME NEW rows, NEW tz
    PROVE  DailyCompletionCounts(rows, tz) \in Counts /\ IsFiniteSet(Rows(rows))
<1>1. IsFiniteSet(Hours) /\ IsFiniteSet(1 .. MaxPerHour)
  <2>1. 0 \in Int /\ 1 \in Int /\ MaxHour \in Int /\ MaxPerHour \in Int
    BY ProgressAssumption
  <2> QED BY <2>1, FS_Interval DEF Hours
<1>2. IsFiniteSet(Hours \X (1 .. MaxPerHour))
  BY <1>1, FS_Product
<1>3. IsFiniteSet(Rows(rows))
  BY <1>2, FS_Subset DEF Rows
<1>4. ASSUME NEW d PROVE Cardinality({row \in Rows(rows) : LocalDay(row[1], tz) = d}) \in Nat
  <2>1. {row \in Rows(rows) : LocalDay(row[1], tz) = d} \subseteq Rows(rows)
    OBVIOUS
  <2>2. IsFiniteSet({row \in Rows(rows) : LocalDay(row[1], tz) = d})
    BY <1>3, <2>1, FS_Subset
  <2> QED BY <2>2, FS_CardinalityType
<1> QED BY <1>3, <1>4 DEF DailyCompletionCounts, Counts

\* More completions are on no day less.
LEMMA CountsGrow ==
    ASSUME NEW rows \in Logs, NEW more \in Logs, \A h \in Hours : more[h] >= rows[h], NEW tz,
           NEW d \in Calendar
    PROVE  DailyCompletionCounts(rows, tz)[d] <= DailyCompletionCounts(more, tz)[d]
<1> DEFINE A == {row \in Rows(rows) : LocalDay(row[1], tz) = d}
           B == {row \in Rows(more) : LocalDay(row[1], tz) = d}
<1>1. Rows(rows) \subseteq Rows(more)
  <2> SUFFICES ASSUME NEW row \in Hours \X (1 .. MaxPerHour), row[2] <= rows[row[1]]
               PROVE  row[2] <= more[row[1]]
    BY DEF Rows
  <2>1. row[1] \in Hours /\ row[2] \in Nat /\ rows[row[1]] \in Nat /\ more[row[1]] \in Nat
    BY DEF Logs
  <2> QED BY <2>1
<1>2. A \subseteq B /\ B \subseteq Rows(more)
  BY <1>1
<1>3. IsFiniteSet(B)
  <2> HIDE DEF B
  <2> QED BY <1>2, CountsTyped, FS_Subset
<1>4. Cardinality(A) <= Cardinality(B)
  <2> HIDE DEF A, B
  <2> QED BY <1>2, <1>3, FS_Subset
<1> QED BY <1>4 DEF DailyCompletionCounts

\* Nothing is counted on a day without a completion.
LEMMA NothingCounted ==
    ASSUME NEW rows \in Logs, NEW tz, NEW d \in Calendar,
           \A h \in Hours : LocalDay(h, tz) = d => rows[h] = 0
    PROVE  DailyCompletionCounts(rows, tz)[d] = 0
<1>1. {row \in Rows(rows) : LocalDay(row[1], tz) = d} = {}
  <2> SUFFICES ASSUME NEW row \in Hours \X (1 .. MaxPerHour), row[2] <= rows[row[1]],
                      LocalDay(row[1], tz) = d
               PROVE  FALSE
    BY DEF Rows
  <2>1. row[1] \in Hours /\ row[2] >= 1 /\ row[2] \in Nat
    OBVIOUS
  <2> QED BY <2>1
<1> QED BY <1>1, FS_EmptySet DEF DailyCompletionCounts

\* The days with the goal are finitely many.
LEMMA GoalsTyped ==
    ASSUME NEW counts \in Counts
    PROVE  /\ GoalDays(counts) \subseteq Calendar /\ GoalDays(counts) \subseteq Int
           /\ IsFiniteSet(GoalDays(counts))
<1>1. GoalDays(counts) \subseteq Calendar
  BY DEF GoalDays, Counts
<1> QED BY <1>1, CalendarIs, FS_Subset

-----------------------------------------------------------------------------
(* Streaks.                                                                *)

\* The runs up to a day, as the properties count them.
Runs(counts, last) ==
    {n \in 0 .. Cardinality(Calendar) : last - n + 1 .. last \subseteq GoalDays(counts)}

\* They are the longest one and the shorter ones.
LEMMA RunsAre ==
    ASSUME NEW counts \in Counts, NEW day \in Int
    PROVE  LET run == RunEndingAt(GoalDays(counts), day)
           IN  /\ run \in 0 .. Cardinality(Calendar) /\ Runs(counts, day) = 0 .. run
               /\ run = IF day \in GoalDays(counts)
                        THEN 1 + RunEndingAt(GoalDays(counts), day - 1) ELSE 0
<1> DEFINE G == GoalDays(counts)
           run == RunEndingAt(G, day)
<1>1. G \subseteq Calendar /\ G \subseteq Int /\ IsFiniteSet(G) /\ IsFiniteSet(Calendar)
  BY GoalsTyped, CalendarIs
<1> HIDE DEF G
<1>2. day - 1 \in Int
  OBVIOUS
<1>3. run = RunLength(G, day) /\ RunEndingAt(G, day - 1) = RunLength(G, day - 1)
  BY <1>1, <1>2, RunIsLength
<1>4. run \in Nat /\ run <= Cardinality(Calendar) /\ Cardinality(Calendar) \in Nat
  <2> HIDE DEF run
  <2>1. RunLength(G, day) \in Nat
    BY <1>1, RunLengthIs
  <2>2. RunLength(G, day) <= Cardinality(Calendar) /\ Cardinality(Calendar) \in Nat
    BY <1>1, RunIsShort
  <2> QED BY <1>3, <2>1, <2>2
<1>5. \A n \in Nat : day - n + 1 .. day \subseteq G <=> n <= run
  <2> HIDE DEF run
  <2>1. \A n \in Nat : InARow(G, day, n) <=> n <= RunLength(G, day)
    BY <1>1, RunLengthIs
  <2> QED BY <1>3, <2>1 DEF InARow
<1>6. run = IF day \in G THEN 1 + RunEndingAt(G, day - 1) ELSE 0
  BY <1>1, <1>3, RunLengthIs
<1> HIDE DEF run
<1>7. Runs(counts, day) = 0 .. run
  BY <1>4, <1>5 DEF Runs, G
<1> QED BY <1>4, <1>6, <1>7 DEF G, run

\* The current streak is the longest run up to today or yesterday.
LEMMA CurrentIs ==
    ASSUME NEW counts \in Counts, NEW today \in Int
    PROVE  /\ Current(counts, today) \in Nat
           /\ Current(counts, today) >= RunEndingAt(GoalDays(counts), today)
           /\ Current(counts, today) >= RunEndingAt(GoalDays(counts), today - 1)
           /\ \/ Current(counts, today) = RunEndingAt(GoalDays(counts), today)
              \/ Current(counts, today) = RunEndingAt(GoalDays(counts), today - 1)
           /\ Current(counts, today) = Max(Runs(counts, today) \cup Runs(counts, today - 1))
<1> DEFINE G == GoalDays(counts)
           c == Current(counts, today)
           a == RunEndingAt(G, today)
           b == RunEndingAt(G, today - 1)
<1>1. /\ a \in Nat /\ Runs(counts, today) = 0 .. a
      /\ a = IF today \in G THEN 1 + b ELSE 0
  BY RunsAre
<1>2. b \in Nat /\ Runs(counts, today - 1) = 0 .. b
  <2>1. today - 1 \in Int
    OBVIOUS
  <2> QED BY <2>1, RunsAre
<1>3. c = IF today \in G THEN a ELSE b
  BY DEF Current, Anchor
<1> HIDE DEF G, a, b, c
<1>4. c \in Nat /\ c >= a /\ c >= b /\ (c = a \/ c = b)
  BY <1>1, <1>2, <1>3
<1>5. Max(0 .. a \cup 0 .. b) = c
  <2>1. c \in 0 .. a \cup 0 .. b /\ 0 .. a \cup 0 .. b \subseteq Int
    BY <1>1, <1>2, <1>4
  <2>2. \A y \in 0 .. a \cup 0 .. b : c >= y
    BY <1>1, <1>2, <1>4
  <2> QED BY <2>1, <2>2, MaxIs
<1> QED BY <1>1, <1>2, <1>4, <1>5 DEF G, a, b, c

\* The best streak is the longest run there is.
LEMMA BestIs ==
    ASSUME NEW counts \in Counts
    PROVE  /\ Best(counts) \in Nat
           /\ \A d \in GoalDays(counts) : RunEndingAt(GoalDays(counts), d) <= Best(counts)
           /\ \/ Best(counts) = 0
              \/ \E d \in GoalDays(counts) : Best(counts) = RunEndingAt(GoalDays(counts), d)
           /\ Best(counts) = Max(UNION {Runs(counts, d) : d \in Calendar})
<1> DEFINE G == GoalDays(counts)
           N == Cardinality(Calendar)
           S == {0} \cup {RunEndingAt(G, d) : d \in G}
           U == UNION {Runs(counts, d) : d \in Calendar}
           best == Max(S)
<1>1. G \subseteq Calendar /\ G \subseteq Int /\ Calendar \subseteq Int /\ Calendar # {} /\ N \in Nat
  BY GoalsTyped, CalendarIs, FS_CardinalityType
<1>2. \A d \in Calendar : RunEndingAt(G, d) \in 0 .. N /\ Runs(counts, d) = 0 .. RunEndingAt(G, d)
  BY <1>1, RunsAre
<1>3. \A d \in Calendar : d \notin G => RunEndingAt(G, d) = 0
  BY <1>1, RunsAre
<1> HIDE DEF G, N
<1>4. S \subseteq 0 .. N /\ S \subseteq Int /\ IsFiniteSet(S) /\ S # {}
  <2>1. S \subseteq 0 .. N
    BY <1>1, <1>2
  <2>2. IsFiniteSet(0 .. N)
    BY <1>1, FS_Interval
  <2>3. S # {}
    OBVIOUS
  <2>4. 0 .. N \subseteq Int
    BY <1>1
  <2> HIDE DEF S
  <2>5. IsFiniteSet(S)
    BY <2>1, <2>2, FS_Subset
  <2> QED BY <2>1, <2>3, <2>4, <2>5
<1>5. best \in S /\ \A y \in S : best >= y
  <2> HIDE DEF S
  <2> QED BY <1>4, MaxExists
<1> HIDE DEF best
<1>6. best \in Nat /\ best \in 0 .. N
  BY <1>1, <1>4, <1>5
<1>7. best \in U
  <2>1. CASE best = 0
    <3>1. PICK d \in Calendar : TRUE
      BY <1>1
    <3>2. 0 \in Runs(counts, d)
      BY <1>2
    <3> QED BY <2>1, <3>2
  <2>2. CASE best # 0
    <3>1. PICK d \in G : best = RunEndingAt(G, d)
      BY <1>5, <2>2
    <3>2. d \in Calendar /\ best \in Runs(counts, d)
      BY <1>1, <1>2, <1>6, <3>1
    <3> QED BY <3>2
  <2> QED BY <2>1, <2>2
<1>8. ASSUME NEW y \in U PROVE y \in Int /\ best >= y
  <2>1. PICK d \in Calendar : y \in Runs(counts, d)
    BY <1>8
  <2>2. y \in 0 .. RunEndingAt(G, d) /\ RunEndingAt(G, d) \in Nat
    BY <1>2, <2>1
  <2>3. RunEndingAt(G, d) \in S
    BY <1>3
  <2>4. best >= RunEndingAt(G, d)
    BY <1>5, <2>3
  <2> QED BY <1>6, <2>2, <2>4
<1>9. Max(U) = best
  <2> HIDE DEF U
  <2> QED BY <1>7, <1>8, MaxIs
<1>10. Best(counts) = best
  BY DEF Best, BestRun, best, G
<1>11. \A d \in G : RunEndingAt(G, d) <= best
  <2> TAKE d \in G
  <2>1. RunEndingAt(G, d) \in S /\ RunEndingAt(G, d) \in Int
    BY <1>1, <1>2
  <2> QED BY <1>5, <1>6, <2>1
<1>12. best = 0 \/ \E d \in G : best = RunEndingAt(G, d)
  BY <1>5
<1> QED BY <1>6, <1>9, <1>10, <1>11, <1>12 DEF G

\* The next milestone is the first of them after the streak: of the first ones,
\* or every fifty after the last of these.
LEMMA NextMilestoneIs ==
    ASSUME NEW streak \in Nat
    PROVE  LET milestones == ToSet(MILESTONES)
                 \cup {k * Fifty : k \in Last(MILESTONES) \div Fifty .. streak + 1}
           IN  NextMilestone(streak) = Min({m \in milestones : m > streak})
<1> DEFINE T == ToSet(MILESTONES)
           last == Last(MILESTONES)
           K == {k * Fifty : k \in last \div Fifty .. streak + 1}
           ahead == {m \in T : m > streak}
           A == {m \in T \cup K : m > streak}
<1>1. /\ MILESTONES \in Seq(Nat \ {0}) /\ MILESTONES # <<>> /\ Fifty \in Nat \ {0}
      /\ \A i, j \in DOMAIN MILESTONES : i < j => MILESTONES[i] < MILESTONES[j]
  BY ProgressAssumption
<1>2. /\ Len(MILESTONES) \in Nat \ {0} /\ DOMAIN MILESTONES = 1 .. Len(MILESTONES)
      /\ last = MILESTONES[Len(MILESTONES)]
  BY <1>1 DEF Last
<1>3. T \subseteq Nat /\ last \in T /\ \A m \in T : m <= last
  <2>1. T = {MILESTONES[i] : i \in 1 .. Len(MILESTONES)}
    BY <1>2 DEF ToSet
  <2>2. \A i \in 1 .. Len(MILESTONES) : MILESTONES[i] \in Nat \ {0}
    BY <1>1, <1>2
  <2>3. \A i \in 1 .. Len(MILESTONES) : MILESTONES[i] <= MILESTONES[Len(MILESTONES)]
    <3> TAKE i \in 1 .. Len(MILESTONES)
    <3>1. CASE i = Len(MILESTONES)
      BY <1>2, <2>2, <3>1
    <3>2. CASE i # Len(MILESTONES)
      <4>1. i < Len(MILESTONES) /\ Len(MILESTONES) \in DOMAIN MILESTONES /\ i \in DOMAIN MILESTONES
        <5> DEFINE n == Len(MILESTONES)
        <5>1. n \in Nat \ {0} /\ DOMAIN MILESTONES = 1 .. n /\ i \in 1 .. n /\ i # n
          BY <1>2, <3>2
        <5> HIDE DEF n
        <5>2. i < n /\ n \in 1 .. n
          BY <5>1
        <5> QED BY <5>1, <5>2 DEF n
      <4>2. MILESTONES[i] < MILESTONES[Len(MILESTONES)]
        BY <1>1, <4>1
      <4> QED BY <1>2, <2>2, <4>1, <4>2
    <3> QED BY <3>1, <3>2
  <2>4. Len(MILESTONES) \in 1 .. Len(MILESTONES)
    BY <1>2
  <2> HIDE DEF T, last
  <2> QED BY <1>2, <2>1, <2>2, <2>3, <2>4
<1>4. IsFiniteSet(T)
  <2>1. MILESTONES \in Surjection(1 .. Len(MILESTONES), T)
    <3>1. MILESTONES \in [1 .. Len(MILESTONES) -> T]
      BY <1>1, <1>2 DEF ToSet
    <3> QED BY <1>2, <3>1 DEF Surjection, ToSet
  <2>2. IsFiniteSet(1 .. Len(MILESTONES))
    BY <1>2, FS_Interval
  <2> QED BY <2>1, <2>2, FS_Surjection
<1>5. last % Fifty = 0
  BY ProgressAssumption
<1> HIDE DEF T, last
<1> DEFINE q == last \div Fifty
<1>6. q \in Int /\ last = Fifty * q
  <2>1. last \in Int
    BY <1>3
  <2>2. q \in Int /\ last = Fifty * q + (last % Fifty) /\ Fifty * q \in Int
    <3>1. Fifty \in Nat \ {0}
      BY <1>1
    <3>2. q \in Int /\ last = Fifty * q + (last % Fifty)
      BY <2>1, <3>1, Divided
    <3> HIDE DEF q
    <3> QED BY <3>1, <3>2
  <2> HIDE DEF q
  <2> QED BY <1>5, <2>2
<1> HIDE DEF q
<1>7. \A k \in q .. streak + 1 : k * Fifty \in Int /\ last <= k * Fifty
  <2> TAKE k \in q .. streak + 1
  <2>1. k \in Int /\ k * Fifty = Fifty * k /\ Fifty * k \in Int /\ Fifty * q \in Int
    BY <1>1, <1>6
  <2>2. q < k => Fifty * q + Fifty <= Fifty * k
    BY <1>1, <1>6, <2>1, MultiplesApart
  <2>3. q = k => Fifty * q = Fifty * k
    OBVIOUS
  <2> QED BY <1>1, <1>6, <2>1, <2>2, <2>3
<1>8. K = {k * Fifty : k \in q .. streak + 1}
  BY DEF q
<1> HIDE DEF K
<1>9. A \subseteq Int
  <2>1. K \subseteq Int /\ T \subseteq Int
    BY <1>3, <1>7, <1>8
  <2> QED BY <2>1
<1>10. CASE ahead # {}
  <2>1. IsFiniteSet(ahead) /\ ahead \subseteq Int
    <3>1. ahead \subseteq T
      OBVIOUS
    <3>2. T \subseteq Int
      BY <1>3
    <3> HIDE DEF ahead
    <3>3. IsFiniteSet(ahead)
      BY <1>4, <3>1, FS_Subset
    <3> QED BY <3>1, <3>2, <3>3
  <2>2. Min(ahead) \in ahead /\ \A y \in ahead : Min(ahead) <= y
    <3> HIDE DEF ahead
    <3> QED BY <1>10, <2>1, MinExists
  <2>3. Min(ahead) \in A /\ Min(ahead) <= last /\ Min(ahead) \in Int
    <3>1. Min(ahead) \in T /\ Min(ahead) > streak
      <4> DEFINE least == Min(ahead)
      <4>1. least \in ahead
        BY <2>2
      <4> HIDE DEF least
      <4>2. least \in T /\ least > streak
        BY <4>1
      <4> QED BY <4>2 DEF least
    <3> DEFINE least == Min(ahead)
    <3>2. least \in T /\ least > streak
      BY <3>1
    <3> HIDE DEF least
    <3>3. least \in A /\ least <= last /\ least \in Int
      BY <1>3, <3>2
    <3> QED BY <3>3 DEF least
  <2>4. \A y \in A : Min(ahead) <= y
    <3> TAKE y \in A
    <3>1. CASE y \in T
      BY <2>2, <3>1
    <3>2. CASE y \in K
      <4>1. y \in Int /\ last <= y /\ last \in Int
        BY <1>3, <1>7, <1>8, <3>2
      <4> QED BY <2>3, <4>1
    <3> QED BY <3>1, <3>2
  <2>5. Min(A) = Min(ahead)
    <3> HIDE DEF A, ahead
    <3> QED BY <1>9, <2>3, <2>4, MinIs
  <2>6. NextMilestone(streak) = Min(ahead)
    BY <1>10 DEF NextMilestone, T
  <2> QED BY <2>5, <2>6 DEF A, K, T, last
<1>11. CASE ahead = {}
  <2> DEFINE p == streak \div Fifty
  <2>1. p \in Int /\ p <= streak /\ q <= p
    <3>1. p \in Int
      BY <1>1, Divided
    <3>2. last <= streak /\ last \in Int
      BY <1>3, <1>11
    <3>3. q <= p
      BY <1>1, <1>6, <3>2, QuotientIs
    <3>4. streak < Fifty * (streak + 1)
      <4>1. 0 < streak + 1 => Fifty * 0 + Fifty <= Fifty * (streak + 1)
        BY <1>1, MultiplesApart
      <4>2. CASE Fifty = 1
        BY <4>2
      <4>3. CASE Fifty # 1
        <5>1. Fifty * (streak + 1) - (streak + 1) = (Fifty - 1) * (streak + 1)
          BY <1>1
        <5>2. (Fifty - 1) * (streak + 1) \in Nat
          BY <1>1
        <5>3. Fifty * (streak + 1) \in Int
          BY <1>1
        <5> QED BY <5>1, <5>2, <5>3
      <4> QED BY <4>2, <4>3
    <3>5. p < streak + 1
      <4>1. streak + 1 \in Int /\ streak \in Int /\ Fifty \in Nat \ {0}
        BY <1>1
      <4> QED BY <3>4, <4>1, QuotientIs
    <3> HIDE DEF p
    <3> QED BY <3>1, <3>3, <3>5
  <2>2. \A k \in Int : streak < Fifty * k <=> p + 1 <= k
    <3> TAKE k \in Int
    <3>1. p < k <=> streak < Fifty * k
      BY <1>1, QuotientIs
    <3> HIDE DEF p
    <3> QED BY <2>1, <3>1
  <2> DEFINE first == (p + 1) * Fifty
  <2>3. NextMilestone(streak) = first
    BY <1>11 DEF NextMilestone, T
  <2> HIDE DEF p
  <2>4. p + 1 \in q .. streak + 1 /\ first = Fifty * (p + 1) /\ first \in Int
    BY <1>1, <1>6, <2>1
  <2>5. first > streak
    BY <2>1, <2>2, <2>4
  <2>6. first \in A
    BY <1>8, <2>4, <2>5
  <2>7. \A y \in A : first <= y
    <3> TAKE y \in A
    <3>1. y \in K /\ y > streak
      BY <1>11
    <3>2. PICK k \in q .. streak + 1 : y = k * Fifty
      BY <1>8, <3>1
    <3>3. k \in Int /\ y = Fifty * k /\ Fifty * k \in Int /\ Fifty * (p + 1) \in Int /\ p + 1 \in Int
      BY <1>1, <1>6, <2>1, <3>2
    <3>4. p + 1 <= k
      BY <2>2, <3>1, <3>3
    <3>5. p + 1 < k => Fifty * (p + 1) + Fifty <= Fifty * k
      BY <1>1, <3>3, MultiplesApart
    <3>6. p + 1 = k => Fifty * (p + 1) = Fifty * k
      OBVIOUS
    <3> HIDE DEF first
    <3> QED BY <1>1, <2>4, <3>3, <3>4, <3>5, <3>6
  <2>8. Min(A) = first
    <3> HIDE DEF A, first
    <3> QED BY <1>9, <2>6, <2>7, MinIs
  <2> QED BY <2>3, <2>8 DEF A, K, T, last
<1> QED BY <1>10, <1>11

-----------------------------------------------------------------------------
(* What is answered.                                                       *)

\* The streaks of an answer are runs, and its milestone is the next.
StreaksRight(a) ==
    /\ a.current = Max(Runs(a.counts, a.today) \cup Runs(a.counts, a.today - 1))
    /\ a.of = "summary" =>
         LET milestones == ToSet(MILESTONES)
               \cup {k * Fifty : k \in Last(MILESTONES) \div Fifty .. a.current + 1}
         IN  /\ a.best = Max(UNION {Runs(a.counts, d) : d \in Calendar})
             /\ a.milestone = Min({m \in milestones : m > a.current})

\* The heat map of a summary shows what was counted.
MonthRight(s) ==
    s.browser = s.today =>
        /\ \A d \in DOMAIN s.counts : d > s.today => s.counts[d] = 0
        /\ \A d \in DOMAIN s.month :
             /\ s.month[d].count = CountOn(s.counts, d)
             /\ s.month[d].level = DAILY_GOAL_TARGET <=> d \in GoalDays(s.counts)
        /\ s.active = Cardinality({d \in DOMAIN s.month : s.month[d].count > 0})

\* The ink is deepest exactly if the goal is met.
LEMMA InkIs ==
    ASSUME NEW count \in Nat
    PROVE  BucketLevel(count) = DAILY_GOAL_TARGET <=> count >= DAILY_GOAL_TARGET
<1> DEFINE least == IF count < DAILY_GOAL_TARGET THEN count ELSE DAILY_GOAL_TARGET
<1>1. DAILY_GOAL_TARGET \in Nat \ {0}
  BY ProgressAssumption
<1>2. Min({count, DAILY_GOAL_TARGET}) = least
  <2>1. {count, DAILY_GOAL_TARGET} \subseteq Int /\ least \in {count, DAILY_GOAL_TARGET}
    BY <1>1
  <2>2. \A y \in {count, DAILY_GOAL_TARGET} : least <= y
    BY <1>1
  <2> HIDE DEF least
  <2> QED BY <2>1, <2>2, MinIs
<1>3. Max({0, least}) = least
  <2>1. {0, least} \subseteq Int /\ least \in {0, least} /\ \A y \in {0, least} : least >= y
    BY <1>1
  <2> HIDE DEF least
  <2> QED BY <2>1, MaxIs
<1>4. BucketLevel(count) = least
  BY <1>2, <1>3 DEF BucketLevel
<1> QED BY <1>1, <1>4

\* The heat map of a month, drawn on the day it was counted to.
LEMMA MonthIs ==
    ASSUME NEW counts \in Counts, NEW today \in Int,
           \A d \in Calendar : d > today => counts[d] = 0,
           NEW s, s.counts = counts, s.today = today, s.browser = today,
           s.month = MonthCells(Activity(counts, today), today),
           s.active = ActiveDays(Activity(counts, today), today)
    PROVE  MonthRight(s)
<1> DEFINE activity == Activity(counts, today)
           month == MonthCells(activity, today)
           first == (today \div MonthDays) * MonthDays
<1>1. MonthDays \in Nat \ {0} /\ Window \in Nat /\ MonthDays <= Window
      /\ DAILY_GOAL_TARGET \in Nat \ {0}
  BY ProgressAssumption
<1>2. DOMAIN counts = Calendar /\ \A d \in Calendar : counts[d] \in Nat
  BY DEF Counts
<1>3. /\ DOMAIN activity = today - Window + 1 .. today
      /\ \A d \in DOMAIN activity :
           /\ activity[d].count = CountOn(counts, d)
           /\ activity[d].level = BucketLevel(CountOn(counts, d))
  BY DEF Activity
<1>4. /\ DOMAIN month = first .. today
      /\ \A d \in DOMAIN month : d \in DOMAIN activity => month[d] = activity[d]
  BY DEF MonthCells
<1>5. first \in Int /\ today < first + MonthDays /\ first <= today
  <2> DEFINE q == today \div MonthDays
  <2>1. q \in Int /\ today = MonthDays * q + (today % MonthDays) /\ today % MonthDays \in 0 .. MonthDays - 1
    BY <1>1, Divided
  <2>2. first = q * MonthDays
    OBVIOUS
  <2> HIDE DEF q, first
  <2>3. first = MonthDays * q /\ first \in Int
    BY <1>1, <2>1, <2>2
  <2> HIDE DEF first
  <2> QED BY <1>1, <2>1, <2>3
<1> HIDE DEF activity, month, first
<1>6. \A d \in DOMAIN month : d \in Int /\ d \in DOMAIN activity
  BY <1>1, <1>3, <1>4, <1>5
<1>7. \A d \in Int : CountOn(counts, d) \in Nat
  BY <1>2 DEF CountOn
<1>8. ASSUME NEW d \in DOMAIN month
      PROVE  /\ month[d].count = CountOn(counts, d)
             /\ month[d].level = DAILY_GOAL_TARGET <=> d \in GoalDays(counts)
  <2>1. month[d].count = CountOn(counts, d) /\ month[d].level = BucketLevel(CountOn(counts, d))
    BY <1>3, <1>4, <1>6, <1>8
  <2>2. BucketLevel(CountOn(counts, d)) = DAILY_GOAL_TARGET <=> CountOn(counts, d) >= DAILY_GOAL_TARGET
    BY <1>6, <1>7, <1>8, InkIs
  <2>3. CountOn(counts, d) >= DAILY_GOAL_TARGET <=> d \in GoalDays(counts)
    BY <1>1, <1>2 DEF CountOn, GoalDays
  <2> QED BY <2>1, <2>2, <2>3
<1>9. {d \in DOMAIN activity : d \div MonthDays = today \div MonthDays /\ activity[d].count > 0}
        = {d \in DOMAIN month : month[d].count > 0}
  <2>1. \A d \in Int : d <= today => (d \div MonthDays = today \div MonthDays <=> first <= d)
    <3> TAKE d \in Int
    <3> HAVE d <= today
    <3> DEFINE q == today \div MonthDays
               p == d \div MonthDays
    <3>1. q \in Int /\ p \in Int /\ first = MonthDays * q
      <4>1. q \in Int /\ p \in Int
        BY <1>1, Divided
      <4>2. first = q * MonthDays
        BY DEF first
      <4> HIDE DEF q, p
      <4> QED BY <1>1, <4>1, <4>2
    <3>2. q <= p <=> first <= d
      <4>1. q <= p <=> MonthDays * q <= d
        BY <1>1, <3>1, QuotientIs
      <4> HIDE DEF q, p
      <4> QED BY <3>1, <4>1
    <3>3. p <= q
      <4>1. MonthDays * p <= d
        BY <1>1, <3>1, QuotientIs
      <4>2. MonthDays * p <= today
        <5> HIDE DEF p, q
        <5>1. MonthDays * p \in Int
          BY <1>1, <3>1
        <5> QED BY <4>1, <5>1
      <4> QED BY <1>1, <3>1, <4>2, QuotientIs
    <3> HIDE DEF p, q
    <3>4. p = q <=> first <= d
      BY <3>1, <3>2, <3>3
    <3> QED BY <3>4 DEF p, q
  <2>2. \A d \in DOMAIN activity : d \in Int /\ d <= today
    BY <1>1, <1>3
  <2>3. \A d : d \in DOMAIN month <=> d \in DOMAIN activity /\ d \div MonthDays = today \div MonthDays
    BY <1>4, <1>5, <1>6, <2>1, <2>2
  <2> QED BY <1>4, <1>6, <2>3
<1>10. s.active = Cardinality({d \in DOMAIN month : month[d].count > 0})
  BY <1>9 DEF ActiveDays, activity
<1>11. s.month = month
  BY DEF month, activity
<1> QED BY <1>2, <1>8, <1>10, <1>11 DEF MonthRight

-----------------------------------------------------------------------------
(* The invariant.                                                          *)

\* What a request has read stays good for what it will answer: nothing was done
\* after the day it is in.
Asked(r) ==
    \/ /\ r.of = "summary" /\ r.counts \in Counts /\ r.tz \in Offsets
       /\ \A d \in Calendar : d > LocalDay(now, r.tz) => r.counts[d] = 0
    \/ r.of = "path" /\ r.today \in Int

ProgressInv ==
    /\ log \in Logs /\ now \in Hours /\ offset \in Offsets
    /\ \A h \in Hours : h > now => log[h] = 0
    /\ \A r \in pending : Asked(r)
    /\ StreaksAreRuns /\ MonthIsTrue

\* Hours and offsets are whole.
LEMMA TimesTyped == Hours \subseteq Int /\ Offsets \subseteq Int
BY ProgressAssumption DEF Hours

\* A log of the past has nothing on the days to come.
LEMMA NothingToCome ==
    ASSUME NEW rows \in Logs, NEW hour \in Hours, \A h \in Hours : h > hour => rows[h] = 0,
           NEW tz \in Offsets
    PROVE  \A d \in Calendar :
             d > LocalDay(hour, tz) => DailyCompletionCounts(rows, tz)[d] = 0
<1> SUFFICES ASSUME NEW d \in Calendar, d > LocalDay(hour, tz)
             PROVE  DailyCompletionCounts(rows, tz)[d] = 0
  OBVIOUS
<1>1. \A h \in Hours : LocalDay(h, tz) = d => h > hour
  <2> SUFFICES ASSUME NEW h \in Hours, LocalDay(h, tz) = d, ~(h > hour) PROVE FALSE
    OBVIOUS
  <2>1. h \in Int /\ hour \in Int /\ tz \in Int /\ h <= hour /\ d \in Int
    BY TimesTyped, CalendarIs
  <2>2. LocalDay(h, tz) <= LocalDay(hour, tz) /\ LocalDay(hour, tz) \in Int
    BY <2>1, DaysInOrder
  <2> QED BY <2>1, <2>2
<1> QED BY <1>1, NothingCounted

\* No answer is right, whatever is asked.
LEMMA NoAnswerRight == answer' = {} => StreaksAreRuns' /\ MonthIsTrue'
BY DEF StreaksAreRuns, MonthIsTrue, Summaries

\* The path's counters are right.
LEMMA PathAnswerRight ==
    ASSUME NEW rows, NEW today \in Int, answer' = {PathAnswer(rows, today)}
    PROVE  StreaksAreRuns' /\ MonthIsTrue'
<1> DEFINE a == PathAnswer(rows, today)
           counts == DailyCompletionCounts(rows, 0)
<1>1. counts \in Counts
  BY CountsTyped
<1>2. a.of = "path" /\ a.counts = counts /\ a.today = today /\ a.current = Current(counts, today)
  BY DEF PathAnswer
<1> HIDE DEF a, counts
<1>3. StreaksRight(a)
  BY <1>1, <1>2, CurrentIs DEF StreaksRight
<1>4. answer' = {a} /\ Summaries' = {}
  BY <1>2 DEF a, Summaries
<1>5. StreaksAreRuns'
  BY <1>3, <1>4 DEF StreaksAreRuns, StreaksRight, Runs, Summaries
<1>6. MonthIsTrue'
  BY <1>4 DEF MonthIsTrue
<1> QED BY <1>5, <1>6

\* The summary is right, for the request that has waited for it.
LEMMA SummaryRight == ProgressInv /\ AnswerSummary => StreaksAreRuns' /\ MonthIsTrue'
<1> SUFFICES ASSUME ProgressInv, AnswerSummary PROVE StreaksAreRuns' /\ MonthIsTrue'
  OBVIOUS
<1>1. PICK r \in pending : /\ r.of = "summary"
         /\ LET today == Today(r.tz)
                browser == LocalDay(now, offset)
                current == Current(r.counts, today)
                activity == Activity(r.counts, today)
            IN  answer' = {[of |-> "summary", counts |-> r.counts, today |-> today,
                            current |-> current, completed |-> CountOn(r.counts, today),
                            best |-> Best(r.counts), milestone |-> NextMilestone(current),
                            browser |-> browser, month |-> MonthCells(activity, browser),
                            active |-> ActiveDays(activity, browser)]}
  BY DEF AnswerSummary
<1> DEFINE counts == r.counts
           today == LocalDay(now, r.tz)
           browser == LocalDay(now, offset)
           activity == Activity(counts, today)
           s == [of |-> "summary", counts |-> counts, today |-> today,
                 current |-> Current(counts, today), completed |-> CountOn(counts, today),
                 best |-> Best(counts), milestone |-> NextMilestone(Current(counts, today)),
                 browser |-> browser, month |-> MonthCells(activity, browser),
                 active |-> ActiveDays(activity, browser)]
<1>2. answer' = {s}
  BY <1>1 DEF Today
<1>3. /\ counts \in Counts /\ r.tz \in Offsets
      /\ \A d \in Calendar : d > today => counts[d] = 0
  BY <1>1 DEF ProgressInv, Asked
<1>4. today \in Int
  <2>1. r.tz \in Int /\ now \in Int
    BY <1>3, TimesTyped DEF ProgressInv
  <2> QED BY <2>1, DayIsWhole
<1>5. /\ s.of = "summary" /\ s.counts = counts /\ s.today = today /\ s.browser = browser
      /\ s.current = Current(counts, today) /\ s.best = Best(counts)
      /\ s.milestone = NextMilestone(Current(counts, today))
      /\ s.month = MonthCells(Activity(counts, today), browser)
      /\ s.active = ActiveDays(Activity(counts, today), browser)
  OBVIOUS
<1> HIDE DEF counts, today, browser, s
<1>6. StreaksRight(s)
  <2>1. /\ s.current \in Nat
        /\ s.current = Max(Runs(s.counts, s.today) \cup Runs(s.counts, s.today - 1))
    BY <1>3, <1>4, <1>5, CurrentIs
  <2>2. s.best = Max(UNION {Runs(s.counts, d) : d \in Calendar})
    BY <1>3, <1>5, BestIs
  <2>3. s.milestone = NextMilestone(s.current)
    BY <1>5
  <2> QED BY <2>1, <2>2, <2>3, NextMilestoneIs DEF StreaksRight
<1>7. MonthRight(s)
  <2>1. CASE browser = today
    BY <1>3, <1>4, <1>5, <2>1, MonthIs
  <2>2. CASE browser # today
    BY <1>5, <2>2 DEF MonthRight
  <2> QED BY <2>1, <2>2
<1>8. Summaries' = {s}
  BY <1>2, <1>5 DEF Summaries
<1>9. StreaksAreRuns'
  <2>1. \A a \in answer' : StreaksRight(a)
    BY <1>2, <1>6
  <2>2. \A a \in Summaries' : a.of = "summary"
    BY <1>8, <1>5
  <2> HIDE <1>2, <1>8
  <2>3. Summaries' \subseteq answer'
    BY DEF Summaries
  <2> QED BY <2>1, <2>2, <2>3 DEF StreaksAreRuns, StreaksRight, Runs
<1>10. MonthIsTrue'
  BY <1>2, <1>7 DEF MonthIsTrue, MonthRight, Summaries
<1> QED BY <1>9, <1>10

\* Requests that wait while the log, the learner and the clock move on.
LEMMA AskedStays ==
    ASSUME ProgressInv, now' \in Hours, now' >= now, NEW r \in pending
    PROVE  Asked(r)'
<1>1. CASE r.of = "summary"
  <2>1. /\ r.counts \in Counts /\ r.tz \in Offsets
        /\ \A d \in Calendar : d > LocalDay(now, r.tz) => r.counts[d] = 0
    BY <1>1 DEF ProgressInv, Asked
  <2>2. /\ now \in Int /\ now' \in Int /\ now <= now' /\ r.tz \in Int /\ Calendar \subseteq Int
    BY <2>1, TimesTyped, CalendarIs DEF ProgressInv
  <2>3. /\ LocalDay(now, r.tz) <= LocalDay(now', r.tz)
        /\ LocalDay(now, r.tz) \in Int /\ LocalDay(now', r.tz) \in Int
    BY <2>2, DaysInOrder
  <2>4. \A d \in Calendar : d > LocalDay(now', r.tz) => d > LocalDay(now, r.tz)
    BY <2>2, <2>3
  <2> QED BY <1>1, <2>1, <2>4 DEF Asked, LocalDay, Counts, Calendar
<1>2. CASE r.of # "summary"
  BY <1>2 DEF ProgressInv, Asked
<1> QED BY <1>1, <1>2

\* The invariant holds when nothing has been done.
LEMMA ProgressStarts == ProgressInit => ProgressInv
<1> SUFFICES ASSUME ProgressInit PROVE ProgressInv
  OBVIOUS
<1>1. 0 \in Hours /\ 0 \in 0 .. MaxPerHour
  BY ProgressAssumption DEF Hours
<1>2. StreaksAreRuns /\ MonthIsTrue
  BY DEF ProgressInit, StreaksAreRuns, MonthIsTrue, Summaries
<1> QED BY <1>1, <1>2 DEF ProgressInit, ProgressInv, Logs

\* Every step keeps it.
LEMMA ProgressSteps == ProgressInv /\ [ProgressNext]_progressVars => ProgressInv'
<1> SUFFICES ASSUME ProgressInv, [ProgressNext]_progressVars PROVE ProgressInv'
  OBVIOUS
<1>1. /\ log \in Logs /\ now \in Hours /\ offset \in Offsets /\ Hours \subseteq Int
      /\ Offsets \subseteq Int /\ \A h \in Hours : h > now => log[h] = 0
      /\ MaxPerHour \in Nat /\ MaxHour \in Nat
  BY TimesTyped, ProgressAssumption DEF ProgressInv
<1>2. LocalDay(now, 0) \in Int
  BY <1>1, DaysInOrder
<1>3. \A r \in pending : now' = now => Asked(r)'
  BY <1>1, AskedStays
<1>4. CASE Complete
  <2>1. /\ log' = [log EXCEPT ![now] = @ + 1] /\ log[now] < MaxPerHour
        /\ now' = now /\ offset' = offset /\ pending' = pending
        /\ answer' = {} \/ answer' = {PathAnswer(log', LocalDay(now, 0))}
    BY <1>4 DEF Complete
  <2>2. log' \in Logs /\ \A h \in Hours : h > now => log'[h] = 0
    BY <1>1, <2>1 DEF Logs
  <2>3. StreaksAreRuns' /\ MonthIsTrue'
    BY <1>2, <2>1, NoAnswerRight, PathAnswerRight
  <2> QED BY <1>1, <1>3, <2>1, <2>2, <2>3 DEF ProgressInv, Hours, Logs
<1>5. CASE ResetProgress
  <2>1. PICK h \in Hours : log[h] > 0 /\ log' = [log EXCEPT ![h] = 0]
    BY <1>5 DEF ResetProgress
  <2>2. log' \in Logs /\ \A i \in Hours : i > now => log'[i] = 0
    BY <1>1, <2>1 DEF Logs
  <2>3. now' = now /\ offset' = offset /\ pending' = pending /\ answer' = {}
    BY <1>5 DEF ResetProgress
  <2> QED BY <1>1, <1>3, <2>2, <2>3, NoAnswerRight DEF ProgressInv, Hours, Logs
<1>6. CASE Tick
  <2>1. /\ now' = now + 1 /\ now < MaxHour /\ log' = log /\ offset' = offset /\ pending' = pending
        /\ answer' = {}
    BY <1>6 DEF Tick
  <2>2. now' \in Hours /\ now' >= now
    BY <1>1, <2>1 DEF Hours
  <2>3. \A r \in pending : Asked(r)'
    BY <2>2, AskedStays
  <2>4. \A h \in Hours : h > now' => log[h] = 0
    BY <1>1, <2>1
  <2> QED BY <1>1, <2>1, <2>2, <2>3, <2>4, NoAnswerRight DEF ProgressInv, Hours, Logs
<1>7. CASE Travel
  <2>1. /\ offset' \in Offsets /\ answer' = {} /\ log' = log /\ now' = now /\ pending' = pending
    BY <1>7 DEF Travel
  <2> QED BY <1>1, <1>3, <2>1, NoAnswerRight DEF ProgressInv, Hours, Logs
<1>8. CASE AskSummary
  <2> DEFINE r == [of |-> "summary", counts |-> DailyCompletionCounts(log, offset), tz |-> offset]
  <2>1. /\ pending' = {r} /\ answer' = {} /\ log' = log /\ now' = now /\ offset' = offset
    BY <1>8 DEF AskSummary
  <2>2. r.of = "summary" /\ r.counts = DailyCompletionCounts(log, offset) /\ r.tz = offset
    OBVIOUS
  <2> HIDE DEF r
  <2>3. r.counts \in Counts /\ \A d \in Calendar : d > LocalDay(now, r.tz) => r.counts[d] = 0
    BY <1>1, <2>2, CountsTyped, NothingToCome
  <2>4. ASSUME NEW q \in pending'
        PROVE  Asked(q)'
    <3>1. /\ q.of = "summary" /\ q.tz \in Offsets /\ q.counts \in Counts
          /\ \A d \in Calendar : d > LocalDay(now, q.tz) => q.counts[d] = 0
      BY <1>1, <2>1, <2>2, <2>3
    <3> QED BY <2>1, <3>1 DEF Asked, LocalDay, Counts, Calendar
  <2> QED BY <1>1, <2>1, <2>4, NoAnswerRight DEF ProgressInv, Hours, Logs
<1>9. CASE AnswerSummary
  <2>1. pending' = {} /\ log' = log /\ now' = now /\ offset' = offset
    BY <1>9 DEF AnswerSummary
  <2> QED BY <1>1, <1>9, <2>1, SummaryRight DEF ProgressInv, Hours, Logs
<1>10. CASE AskPath
  <2> DEFINE r == [of |-> "path", today |-> LocalDay(now, 0)]
  <2>1. /\ pending' = {r} /\ answer' = {} /\ log' = log /\ now' = now /\ offset' = offset
    BY <1>10 DEF AskPath
  <2>2. ASSUME NEW q \in pending'
        PROVE  Asked(q)'
    <3>1. q.of = "path" /\ q.today \in Int
      BY <1>2, <2>1
    <3> QED BY <3>1 DEF Asked
  <2> HIDE DEF r
  <2> QED BY <1>1, <2>1, <2>2, NoAnswerRight DEF ProgressInv, Hours, Logs
<1>11. CASE AnswerPath
  <2>1. PICK r \in pending : r.of = "path" /\ answer' = {PathAnswer(log, r.today)}
    BY <1>11 DEF AnswerPath
  <2>2. pending' = {} /\ log' = log /\ now' = now /\ offset' = offset
    BY <1>11 DEF AnswerPath
  <2>3. r.today \in Int
    BY <2>1 DEF ProgressInv, Asked
  <2> QED BY <1>1, <2>1, <2>2, <2>3, PathAnswerRight DEF ProgressInv, Hours, Logs
<1>12. CASE Fail
  <2>1. pending' = {} /\ answer' = {} /\ log' = log /\ now' = now /\ offset' = offset
    BY <1>12 DEF Fail
  <2> QED BY <1>1, <2>1, NoAnswerRight DEF ProgressInv, Hours, Logs
<1>13. CASE UNCHANGED progressVars
  <2>1. /\ pending' = pending /\ answer' = answer /\ log' = log /\ now' = now /\ offset' = offset
    BY <1>13 DEF progressVars
  <2>2. StreaksAreRuns' /\ MonthIsTrue'
    BY <2>1 DEF ProgressInv, StreaksAreRuns, MonthIsTrue, Summaries
  <2> QED BY <1>1, <1>3, <2>1, <2>2 DEF ProgressInv, Hours, Logs
<1> QED BY <1>4, <1>5, <1>6, <1>7, <1>8, <1>9, <1>10, <1>11, <1>12, <1>13 DEF ProgressNext

\* The inductive invariant: the log has nothing to come, and neither has what a
\* request has read; what is answered is right.
THEOREM ProgressInvariant == ProgressSpec => []ProgressInv
<1> QED BY ProgressStarts, ProgressSteps, PTL DEF ProgressSpec

\* The streaks that are answered are runs of days with the goal, as long as can
\* be, and the milestone is the first one after the current streak
\* (compute_streaks, next_milestone).
THEOREM StreaksAreAlwaysRuns == ProgressSpec => []StreaksAreRuns
<1>1. ProgressInv => StreaksAreRuns
  BY DEF ProgressInv
<1> QED BY <1>1, ProgressInvariant, PTL

\* The heat map of the month shows every day with what was done on it, and
\* nothing later than today, unless the learner travels while the request is
\* under way (get_summary, currentMonth).
THEOREM MonthIsAlwaysTrue == ProgressSpec => []MonthIsTrue
<1>1. ProgressInv => MonthIsTrue
  BY DEF ProgressInv
<1> QED BY <1>1, ProgressInvariant, PTL

-----------------------------------------------------------------------------
(* No streak is lost but by a day missed.                                  *)

\* More completions, at the same or a later time of the same day or the next,
\* keep the streaks.
LEMMA StreaksGrow ==
    ASSUME NEW rows \in Logs, NEW more \in Logs, \A h \in Hours : more[h] >= rows[h],
           NEW tz, NEW today \in Int, NEW later \in {today, today + 1}
    PROVE  LET before == DailyCompletionCounts(rows, tz)
               after == DailyCompletionCounts(more, tz)
           IN  /\ Best(after) >= Best(before)
               /\ \/ Current(after, later) >= Current(before, today)
                  \/ later > today /\ today \notin GoalDays(before)
<1> DEFINE before == DailyCompletionCounts(rows, tz)
           after == DailyCompletionCounts(more, tz)
           G == GoalDays(before)
           H == GoalDays(after)
<1>1. before \in Counts /\ after \in Counts
  BY CountsTyped
<1>2. \A d \in Calendar : before[d] <= after[d]
  BY CountsGrow
<1> HIDE DEF before, after
<1>3. G \subseteq H
  <2>1. \A d \in Calendar : before[d] \in Nat /\ after[d] \in Nat
    BY <1>1 DEF Counts
  <2>2. DOMAIN before = Calendar /\ DOMAIN after = Calendar
    BY <1>1 DEF Counts
  <2>3. DAILY_GOAL_TARGET \in Nat
    BY ProgressAssumption
  <2> QED BY <1>2, <2>1, <2>2, <2>3 DEF GoalDays
<1>4. H \subseteq Int /\ IsFiniteSet(H) /\ H \subseteq Calendar /\ G \subseteq Calendar
  BY <1>1, GoalsTyped
<1>5. ASSUME NEW d \in Int
      PROVE  /\ RunEndingAt(G, d) <= RunEndingAt(H, d)
             /\ RunEndingAt(G, d) \in Nat /\ RunEndingAt(H, d) \in Nat
  <2>1. RunEndingAt(G, d) \in Nat /\ RunEndingAt(H, d) \in Nat
    BY <1>1, <1>5, RunsAre
  <2> HIDE DEF G, H
  <2> QED BY <1>3, <1>4, <1>5, <2>1, RunsGrow
<1>6. /\ Best(before) \in Nat /\ Best(after) \in Nat
      /\ \A d \in H : RunEndingAt(H, d) <= Best(after)
      /\ Best(before) = 0 \/ \E d \in G : Best(before) = RunEndingAt(G, d)
  BY <1>1, BestIs
<1>7. ASSUME NEW t \in Int
      PROVE  /\ Current(before, t) \in Nat /\ Current(after, t) \in Nat
             /\ Current(after, t) >= RunEndingAt(H, t) /\ Current(after, t) >= RunEndingAt(H, t - 1)
             /\ \/ Current(before, t) = RunEndingAt(G, t)
                \/ Current(before, t) = RunEndingAt(G, t - 1)
             /\ t \in G => Current(before, t) = RunEndingAt(G, t)
  <2>1. t \in G => Current(before, t) = RunEndingAt(G, t)
    BY DEF Current, Anchor
  <2> QED BY <1>1, <1>7, <2>1, CurrentIs
<1> HIDE DEF G, H
<1>8. Best(after) >= Best(before)
  <2>1. CASE Best(before) = 0
    BY <1>6, <2>1
  <2>2. CASE Best(before) # 0
    <3>1. PICK d \in G : Best(before) = RunEndingAt(G, d)
      BY <1>6, <2>2
    <3>2. d \in H /\ d \in Int
      BY <1>3, <1>4
    <3>3. RunEndingAt(H, d) <= Best(after)
      BY <1>6, <3>2
    <3> QED BY <1>5, <1>6, <3>1, <3>2, <3>3
  <2> QED BY <2>1, <2>2
<1>9. CASE later = today
  <2>1. today - 1 \in Int
    OBVIOUS
  <2>2. Current(after, today) >= Current(before, today)
    BY <1>5, <1>7, <2>1, SMTT(30)
  <2> QED BY <1>8, <1>9, <2>2 DEF before, after
<1>10. CASE later = today + 1 /\ today \in G
  <2>1. today + 1 \in Int /\ today + 1 - 1 = today
    OBVIOUS
  <2>2. Current(after, today + 1) >= RunEndingAt(H, today) /\ Current(after, today + 1) \in Nat
    <3> DEFINE t == today + 1
    <3>1. t \in Int /\ t - 1 = today
      OBVIOUS
    <3> HIDE DEF t
    <3>2. Current(after, t) >= RunEndingAt(H, t - 1) /\ Current(after, t) \in Nat
      BY <1>7, <3>1
    <3> QED BY <3>1, <3>2 DEF t
  <2>3. Current(before, today) = RunEndingAt(G, today)
    BY <1>7, <1>10
  <2>4. Current(after, later) >= Current(before, today)
    BY <1>5, <1>10, <2>2, <2>3
  <2> QED BY <1>8, <2>4 DEF before, after
<1>11. CASE later = today + 1 /\ today \notin G
  BY <1>8, <1>11 DEF before, after, G
<1> QED BY <1>9, <1>10, <1>11

\* A learner who stays and resets nothing loses no best streak, and a current
\* one only by a whole local day without the goal (compute_streaks).
THEOREM StreaksAreKept == ProgressSpec => StreakKept
<1>1. ProgressInv /\ ProgressInv' /\ [ProgressNext]_progressVars =>
        [pending = {} /\ offset' = offset /\ (\A h \in Hours : log'[h] >= log[h]) =>
           LET before == DailyCompletionCounts(log, offset)
               after == DailyCompletionCounts(log', offset)
               today == LocalDay(now, offset)
               later == LocalDay(now', offset)
           IN  /\ Best(after) >= Best(before)
               /\ \/ Current(after, later) >= Current(before, today)
                  \/ later > today /\ today \notin GoalDays(before)]_<<log, now, offset>>
  <2> SUFFICES ASSUME ProgressInv, ProgressInv', [ProgressNext]_progressVars, offset' = offset,
                      \A h \in Hours : log'[h] >= log[h], ~UNCHANGED <<log, now, offset>>
               PROVE  LET before == DailyCompletionCounts(log, offset)
                          after == DailyCompletionCounts(log', offset)
                          today == LocalDay(now, offset)
                          later == LocalDay(now', offset)
                      IN  /\ Best(after) >= Best(before)
                          /\ \/ Current(after, later) >= Current(before, today)
                             \/ later > today /\ today \notin GoalDays(before)
    OBVIOUS
  <2>1. now' = now \/ now' = now + 1
    BY DEF ProgressNext, progressVars, Complete, ResetProgress, Tick, Travel, AskSummary, AnswerSummary, AskPath,
           AnswerPath, Fail
  <2>2. log \in Logs /\ log' \in Logs /\ now \in Int /\ now' \in Int /\ offset \in Int
    BY <2>1, TimesTyped DEF ProgressInv, Logs, Hours
  <2> DEFINE today == LocalDay(now, offset)
             later == LocalDay(now', offset)
  <2>3. today \in Int /\ later \in {today, today + 1}
    <3>1. now <= now'
      BY <2>1, <2>2
    <3>2. /\ today \in Int /\ later \in Int /\ today <= later
          /\ now' = now + 1 => later <= today + 1
      BY <2>2, <3>1, DaysInOrder
    <3>3. now' = now => later = today
      OBVIOUS
    <3> HIDE DEF today, later
    <3> QED BY <2>1, <3>2, <3>3
  <2> HIDE DEF today, later
  <2>4. LET before == DailyCompletionCounts(log, offset)
            after == DailyCompletionCounts(log', offset)
        IN  /\ Best(after) >= Best(before)
            /\ \/ Current(after, later) >= Current(before, today)
               \/ later > today /\ today \notin GoalDays(before)
    BY <2>2, <2>3, StreaksGrow
  <2> QED BY <2>4 DEF today, later
<1> QED BY <1>1, ProgressInvariant, PTL DEF ProgressSpec, StreakKept
=============================================================================
