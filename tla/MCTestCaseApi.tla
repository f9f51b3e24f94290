---------------------------- MODULE MCTestCaseApi ----------------------------
(***************************************************************************)
(* Values for the constants of TestCaseApi.                                *)
(***************************************************************************)
EXTENDS TestCaseApi, TLC

CONSTANTS owner, stranger, admin, body1, body2, script1, res1

Owner == [userID |-> owner, isAdmin |-> FALSE]
Stranger == [userID |-> stranger, isAdmin |-> FALSE]
Admin == [userID |-> admin, isAdmin |-> TRUE]
Anonymous == [userID |-> NoUser, isAdmin |-> FALSE]
\* An admin who comes with a client token.
AdminToken == [userID |-> admin, isAdmin |-> FALSE]

OwnerOnly == {Owner}
OwnerAndStranger == {Owner, Stranger}

File(type, body) == [type |-> type, payload |-> [scope |-> "none", body |-> body]]
Snapshot(scope, body) ==
    [type |-> "environment", payload |-> [scope |-> scope, body |-> body]]

CanonicalUploads == {File("result", body1), File("script", body1), Snapshot("execution", body1)}
SerialUploads ==
    {File("result", body1), File("", body1), Snapshot("context", body1), Snapshot("none", body1)}
OneUpload == {File("result", body1)}
OnePlain == {File("log", body1)}

NoPatch == [name |-> None, testType |-> None, visibility |-> None]
SetType(t) == [NoPatch EXCEPT !.testType = t]
SetVisible(v) == [NoPatch EXCEPT !.visibility = v]
LifecyclePatches == {SetType("bench"), SetVisible("private"), SetVisible("public")}
AllPatches ==
    LifecyclePatches \cup {SetType("generic"), SetType(""), SetVisible("secret"),
                           [SetType("bench") EXCEPT !.visibility = "public"]}
NoPatches == {}

Types == {"generic", "bench"}
OneType == {"generic"}
BothVisibilities == {"", "private"}
OnlyPublic == {""}
AnyBody == {"", "public", "private", "secret"}

\* With one case, the properties checked under this bound say nothing once that
\* case is raced, and raced never shrinks: what lies beyond need not be explored.
NotYetRaced == raced = {}

Symmetry == Permutations(Requests)
===============================================================================
