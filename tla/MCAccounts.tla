----------------------------- MODULE MCAccounts -----------------------------
(* Two people who are both called Ann, the first with the address of an    *)
(* administrator that may be unverified, and one who is called "ann-2".    *)
EXTENDS Accounts, TLC

CONSTANTS ann, bea, cat, root, plain, dark, b1, b2

MCClaims ==
    (ann :> {[name |-> <<"ann">>, email |-> root, verified |-> TRUE],
             [name |-> <<"ann">>, email |-> root, verified |-> FALSE]})
    @@ (bea :> {[name |-> <<"ann">>, email |-> plain, verified |-> TRUE]})
    @@ (cat :> {[name |-> <<"ann", 2>>, email |-> None, verified |-> TRUE]})

\* The first person signs in twice at once, or races each of the others.
MCPeople == (b1 :> {ann, bea}) @@ (b2 :> {ann, cat})

\* The one flag is off by a setting, and a release may not have it.
MCReleases == {{dark}, {}}
MCCode == dark :> TRUE
MCSettings == dark :> FALSE
=============================================================================
