----------------------------- MODULE MCAccounts -----------------------------
(***************************************************************************)
(* Values of the constants of Accounts for TLC.                            *)
(***************************************************************************)
EXTENDS Accounts, TLC

CONSTANTS root, bob, p1, r1, i1, i2

NoUsers == [e \in Emails |-> None]

Admin(password) == [role |-> "admin", status |-> "active", password |-> password]

\* A fresh database, and one that already has an admin, which is not the one of
\* the configuration.
FreshOrInUse == {NoUsers, [NoUsers EXCEPT ![bob] = Admin(p1)]}

InUse == {[e \in Emails |-> Admin(p1)]}

OneInstance == [r \in Requests |-> i1]

TwoInstances == [r \in Requests |-> IF r = r1 THEN i1 ELSE i2]

NewAccounts == {[role |-> "admin", password |-> p1]}

NoNewAccounts == {}

Patch(role, status) == [role |-> role, status |-> status]

\* Demote (to an unknown role), promote, disable.
MostUpdates ==
    {Patch("other", ""), Patch("admin", ""), Patch("", "disabled")}

NoUpdates == {}

SameInstance == Permutations(Requests) \cup Permutations(SessionIds)

SameSessions == Permutations(SessionIds)

\* Nothing is claimed of what follows.
NotYetContended == ~contended

=============================================================================
