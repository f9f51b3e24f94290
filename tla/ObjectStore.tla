----------------------------- MODULE ObjectStore -----------------------------
(***************************************************************************)
(* What the artifact service needs of its content store (the port          *)
(* ObjectStore of application/artifact/ports.go): every call takes effect  *)
(* at one moment while it runs, a put wholly or not at all, and a get      *)
(* answers with the whole object of that moment.  A call that fails, or    *)
(* dies with its process, may have taken effect.                           *)
(***************************************************************************)
CONSTANTS
    Keys,
    Contents,
    Callers,
    None        \* no object

VARIABLES
    stored,     \* [Keys -> Contents \cup {None}]
    calls       \* the call each caller is making

vars == <<stored, calls>>

Operations == {"put", "get", "delete"}

Idle == [phase |-> "idle", operation |-> None, key |-> None, content |-> None]

Init ==
    /\ stored = [k \in Keys |-> None]
    /\ calls = [p \in Callers |-> Idle]

Begin(p) ==
    /\ calls[p].phase = "idle"
    /\ \E operation \in Operations, k \in Keys, c \in Contents \cup {None} :
          /\ operation = "put" <=> c # None
          /\ calls' = [calls EXCEPT ![p] = [phase |-> "running", operation |-> operation,
                                            key |-> k, content |-> c]]
    /\ UNCHANGED stored

\* The moment a call takes effect; from then on a get has its answer.
Take(p) ==
    /\ calls[p].phase = "running"
    /\ LET k == calls[p].key IN
       \/ /\ calls[p].operation = "get"
          /\ calls' = [calls EXCEPT ![p].phase = "taken", ![p].content = stored[k]]
          /\ UNCHANGED stored
       \/ /\ calls[p].operation # "get"
          /\ calls' = [calls EXCEPT ![p].phase = "taken"]
          /\ stored' = [stored EXCEPT ![k] = calls[p].content]

\* The call returns, or fails.
End(p) ==
    /\ calls[p].phase # "idle"
    /\ calls' = [calls EXCEPT ![p] = Idle]
    /\ UNCHANGED stored

\* The process dies.
Crash ==
    /\ calls' = [p \in Callers |-> Idle]
    /\ UNCHANGED stored

Next ==
    \/ \E p \in Callers : Begin(p) \/ Take(p) \/ End(p)
    \/ Crash

Spec == Init /\ [][Next]_vars
===============================================================================
