---------------------------- MODULE MCClientTokens ----------------------------
(***************************************************************************)
(* Values of the constants of ClientTokens for TLC.                        *)
(***************************************************************************)
EXTENDS ClientTokens, Naturals, TLC

\* A token for a while, and two inputs that are refused.
MixedInputs ==
    {[scopes |-> {"testcase:read"}, expires |-> TRUE, unlimited |-> FALSE],
     [scopes |-> {"other"}, expires |-> FALSE, unlimited |-> TRUE],
     [scopes |-> {"testcase:read"}, expires |-> FALSE, unlimited |-> FALSE]}

\* One token is handed over, once.
OneShared == Cardinality(UNION {shared[u] : u \in Users}) <= 1

Symmetry == Permutations(Requests) \cup Permutations(TokenIds) \cup Permutations(Users)
===============================================================================
