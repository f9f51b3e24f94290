------------------------- MODULE PublicationLifecycle -------------------------
(***************************************************************************)
(* What kish promises about the life of a test case, from the package      *)
(* comment of internal/domain/testcase/testcase.go: a case is created as a *)
(* private draft; only a draft can be published, and once; the test type   *)
(* changes only while it is a draft, the visibility only while it is       *)
(* published; a deleted case never comes back.                             *)
(***************************************************************************)
CONSTANTS
    Cases,      \* case ids
    TestTypes,  \* test types
    None        \* test type of a case that does not exist

VARIABLES
    stage,      \* [Cases -> Stages]
    testType    \* [Cases -> TestTypes \cup {None}]

vars == <<stage, testType>>

Published == {"public", "private"}
Stages == {"absent", "draft", "gone"} \cup Published

Init ==
    \* Cases that exist before the system starts were written by older
    \* releases and count as published and private.
    /\ stage \in [Cases -> {"absent", "private"}]
    /\ testType \in [Cases -> TestTypes \cup {None}]
    /\ \A c \in Cases : stage[c] = "absent" <=> testType[c] = None

Create(c) ==
    /\ stage[c] = "absent"
    /\ stage' = [stage EXCEPT ![c] = "draft"]
    /\ \E t \in TestTypes : testType' = [testType EXCEPT ![c] = t]

Retype(c) ==
    /\ stage[c] = "draft"
    /\ \E t \in TestTypes : testType' = [testType EXCEPT ![c] = t]
    /\ UNCHANGED stage

Publish(c) ==
    /\ stage[c] = "draft"
    /\ \E v \in Published : stage' = [stage EXCEPT ![c] = v]
    /\ UNCHANGED testType

SetVisibility(c) ==
    /\ stage[c] \in Published
    /\ \E v \in Published : stage' = [stage EXCEPT ![c] = v]
    /\ UNCHANGED testType

Delete(c) ==
    /\ stage[c] \in Published \cup {"draft"}
    /\ stage' = [stage EXCEPT ![c] = "gone"]
    /\ testType' = [testType EXCEPT ![c] = None]

Next ==
    \E c \in Cases :
        Create(c) \/ Retype(c) \/ Publish(c) \/ SetVisibility(c) \/ Delete(c)

Spec == Init /\ [][Next]_vars
===============================================================================
