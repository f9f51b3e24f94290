----------------------------- MODULE ClientTokens -----------------------------
(***************************************************************************)
(* Client tokens: their life in the client_tokens collection (application/ *)
(* clienttoken), and how the middleware turns the bearer of a request into *)
(* the principal its endpoint works for.                                   *)
(*                                                                         *)
(* Users send requests with a bearer they hold: the access token of their  *)
(* login, if they have one, or a raw client token.  The endpoints that     *)
(* manage client tokens are modelled in full; of all others, only what     *)
(* they ask of the principal ("read" and "write").  Each call of the       *)
(* database is a step.  A handler that refuses a request ends it without   *)
(* effect, as a failing call does (Abort); a failing lookup leaves the     *)
(* request anonymous, and a failing touch is ignored.                      *)
(***************************************************************************)
EXTENDS FiniteSets

CONSTANTS
    None,
    Users,
    TokenIds,     \* bounds the tokens ever created
    Requests,     \* request slots
    CreateInputs  \* what clients ask for when they create a token

Scopes == {"testcase:read", "testcase:write"}

\* What CreateToken stores of its input; clients may send what is not valid.
Input == [scopes : SUBSET (Scopes \cup {"other"}), expires : BOOLEAN, unlimited : BOOLEAN]

ASSUME CreateInputsAssumption == CreateInputs \subseteq Input
ASSUME JWTAssumption == "jwt" \notin TokenIds
ASSUME NoneAssumption == None \notin Users \cup TokenIds

VARIABLES
    tokens,     \* the client_tokens collection
    requests,   \* the requests being served
    known,      \* the raw client tokens each user has seen
    shared      \* history: those the user was given by another one

vars == <<tokens, requests, known, shared>>

-----------------------------------------------------------------------------
\* A token.  expires: it has an expires_at; expired: that has passed; encrypted:
\* the raw token is stored too, which older records lack.
Token ==
    [owner : Users, scopes : SUBSET Scopes, expires : BOOLEAN, unlimited : BOOLEAN,
     encrypted : BOOLEAN, expired : BOOLEAN, revoked : BOOLEAN]

ASSUME NoneIsNoToken == None \notin Token

Stored(t) == tokens[t] # None

IsValid(token) ==
    /\ ~token.revoked
    /\ ~token.unlimited => ~token.expired

Principal ==
    [method : {"anonymous", "jwt", "client_token"}, user : Users \cup {None},
     scopes : SUBSET Scopes]

Anonymous == [method |-> "anonymous", user |-> None, scopes |-> {}]
JWTPrincipal(u) == [method |-> "jwt", user |-> u, scopes |-> {}]
TokenPrincipal(token) ==
    [method |-> "client_token", user |-> token.owner, scopes |-> token.scopes]

Targeted == {"reveal", "revoke"}
Operations == {"create", "list", "read", "write"} \cup Targeted

ASSUME NoneIsNoOperation == None \notin Operations

Request ==
    [at : {"idle", "lookup", "touch", "serve", "revoke"},
     actor : Users \cup {None},                \* who sent it
     bearer : TokenIds \cup {"jwt", None},
     operation : Operations \cup {None},
     target : TokenIds \cup {None},            \* the token to reveal or revoke
     principal : Principal,
     late : BOOLEAN]                           \* history: came with an invalid token

Idle == [at |-> "idle", actor |-> None, bearer |-> None, operation |-> None,
         target |-> None, principal |-> Anonymous, late |-> FALSE]

At(r, step) == requests[r].at = step
Finish(r) == requests' = [requests EXCEPT ![r] = Idle]

-----------------------------------------------------------------------------
\* The middleware and the guards of the routes.

RequireAuthenticated(principal) == principal.method # "anonymous"

\* The endpoints of client tokens refuse client tokens.
RequireJWT(principal) == principal.method = "jwt"

\* No route asks for a scope.
Admitted(operation, principal) ==
    CASE operation = "read"  -> TRUE
      [] operation = "write" -> RequireAuthenticated(principal)
      [] OTHER               -> RequireJWT(principal)

\* The request, with its principal, reaches the handler or is refused.
Enter(r, req, principal) ==
    requests' = [requests EXCEPT
        ![r] = IF Admitted(req.operation, principal)
                 THEN [req EXCEPT !.at = "serve", !.bearer = None, !.principal = principal]
                 ELSE Idle]

\* A request about one token names a token that exists; any other is refused.
Receives(u, bearer, operation, target) ==
    /\ bearer \in known[u] \cup {"jwt"}
    /\ IF operation \in Targeted THEN target \in TokenIds /\ Stored(target) ELSE target = None

\* A request with an access token that verifies.  No call of the database is made.
ReceiveJWT(r, u, operation, target) ==
    /\ At(r, "idle")
    /\ Receives(u, "jwt", operation, target)
    /\ Enter(r, [Idle EXCEPT !.actor = u, !.operation = operation, !.target = target],
             JWTPrincipal(u))
    /\ UNCHANGED <<tokens, known, shared>>

\* A request with a raw client token.
ReceiveToken(r, u, t, operation, target) ==
    /\ At(r, "idle")
    /\ Receives(u, t, operation, target)
    /\ requests' = [requests EXCEPT ![r] =
           [Idle EXCEPT !.at = "lookup", !.actor = u, !.bearer = t,
                        !.operation = operation, !.target = target,
                        !.late = ~IsValid(tokens[t])]]
    /\ UNCHANGED <<tokens, known, shared>>

\* Fault: the validity of the record is not checked.
LookupUnchecked(r) ==
    /\ At(r, "lookup")
    /\ requests' = [requests EXCEPT
           ![r].at = "touch", ![r].principal = TokenPrincipal(tokens[requests[r].bearer])]
    /\ UNCHANGED <<tokens, known, shared>>

\* LookupByRawToken: find the record by its hash and check it.
Lookup(r) ==
    /\ At(r, "lookup")
    /\ LET token == tokens[requests[r].bearer]
       IN  /\ IsValid(token)
           /\ requests' = [requests EXCEPT ![r].at = "touch",
                                           ![r].principal = TokenPrincipal(token)]
    /\ UNCHANGED <<tokens, known, shared>>

\* An invalid token, or a failing lookup: the bearer is no JWT either, so the
\* request goes on as an anonymous one.
LookupFails(r) ==
    /\ At(r, "lookup")
    /\ Enter(r, requests[r], Anonymous)
    /\ UNCHANGED <<tokens, known, shared>>

\* Fault: the record is written back as the lookup found it, not revoked.
TouchWholeRecord(r) ==
    /\ At(r, "touch")
    /\ tokens' = [tokens EXCEPT ![requests[r].bearer].revoked = FALSE]
    /\ Enter(r, requests[r], requests[r].principal)
    /\ UNCHANGED <<known, shared>>

\* TouchLastUsed sets last_used_at and updated_at, which are left out here.
Touch(r) ==
    /\ At(r, "touch")
    /\ Enter(r, requests[r], requests[r].principal)
    /\ UNCHANGED <<tokens, known, shared>>

-----------------------------------------------------------------------------
\* The handlers of client tokens.

Serving(r, operation) == At(r, "serve") /\ requests[r].operation = operation

\* The answer shows raw tokens to whoever sent the request.
Show(r, raw) == known' = [known EXCEPT ![requests[r].actor] = @ \cup raw]

\* Fault: the scopes are not validated.
ValidInputAnyScope(in) ==
    /\ in.unlimited \/ in.expires
    /\ in.scopes # {}

ValidInput(in) ==
    /\ in.unlimited \/ in.expires
    /\ in.scopes \subseteq Scopes
    /\ in.scopes # {}

\* POST client-tokens.  Ids and raw tokens are random; expires_at may be past.
CreateToken(r) ==
    /\ Serving(r, "create")
    /\ \E t \in TokenIds, in \in CreateInputs, expired \in BOOLEAN :
          /\ ~Stored(t)
          /\ ValidInput(in)
          /\ expired => in.expires
          /\ tokens' = [tokens EXCEPT ![t] =
                [owner |-> requests[r].principal.user, scopes |-> in.scopes,
                 expires |-> in.expires, unlimited |-> in.unlimited, encrypted |-> TRUE,
                 expired |-> expired, revoked |-> FALSE]]
          /\ Show(r, {t})
    /\ Finish(r)
    /\ UNCHANGED shared

\* Fault: the owner is not compared with the caller.
MayRevealAny(token, u) == IsValid(token) /\ token.encrypted

\* RevealToken's checks; the ciphertext may still fail to decrypt (Abort).
MayReveal(token, u) == token.owner = u /\ IsValid(token) /\ token.encrypted

\* GET client-tokens/{token_id}.
RevealToken(r) ==
    /\ Serving(r, "reveal")
    /\ MayReveal(tokens[requests[r].target], requests[r].principal.user)
    /\ Show(r, {requests[r].target})
    /\ Finish(r)
    /\ UNCHANGED <<tokens, shared>>

\* The raw tokens in a list: stored and not revoked, but expired ones too.
RawTokenFor(token) == ~token.revoked /\ token.encrypted

\* GET client-tokens.
ListTokens(r) ==
    /\ Serving(r, "list")
    /\ Show(r, {t \in TokenIds : /\ Stored(t)
                                 /\ tokens[t].owner = requests[r].principal.user
                                 /\ RawTokenFor(tokens[t])})
    /\ Finish(r)
    /\ UNCHANGED <<tokens, shared>>

\* DELETE client-tokens/{token_id}: find and compare the owner, then $set.
RevokeFind(r) ==
    /\ Serving(r, "revoke")
    /\ tokens[requests[r].target].owner = requests[r].principal.user
    /\ requests' = [requests EXCEPT ![r].at = "revoke"]
    /\ UNCHANGED <<tokens, known, shared>>

RevokeWrite(r) ==
    /\ At(r, "revoke")
    /\ tokens' = [tokens EXCEPT ![requests[r].target].revoked = TRUE]
    /\ Finish(r)
    /\ UNCHANGED <<known, shared>>

\* The handler refuses, a call fails, the client hangs up; or a request to the
\* other services (TestCaseApi, Accounts) is answered.
Abort(r) ==
    /\ ~At(r, "idle")
    /\ Finish(r)
    /\ UNCHANGED <<tokens, known, shared>>

-----------------------------------------------------------------------------
\* Around the requests.

\* The expires_at of a token passes.
Expire(t) ==
    /\ Stored(t) /\ tokens[t].expires
    /\ tokens' = [tokens EXCEPT ![t].expired = TRUE]
    /\ UNCHANGED <<requests, known, shared>>

\* A user hands a raw token to a colleague or a build machine.
Share(u, v, t) ==
    /\ u # v
    /\ t \in known[u]
    /\ known' = [known EXCEPT ![v] = @ \cup {t}]
    /\ shared' = [shared EXCEPT ![v] = @ \cup {t}]
    /\ UNCHANGED <<tokens, requests>>

\* A token made before raw tokens were stored; its owner kept a copy.
LegacyToken(u) ==
    [owner |-> u, scopes |-> Scopes, expires |-> FALSE, unlimited |-> TRUE,
     encrypted |-> FALSE, expired |-> FALSE, revoked |-> FALSE]

Init ==
    /\ tokens \in [TokenIds -> {None} \cup {LegacyToken(u) : u \in Users}]
    /\ requests = [r \in Requests |-> Idle]
    /\ known = [u \in Users |-> {t \in TokenIds : Stored(t) /\ tokens[t].owner = u}]
    /\ shared = [u \in Users |-> {}]

Receive(r) ==
    \E u \in Users, operation \in Operations, target \in TokenIds \cup {None} :
        \/ ReceiveJWT(r, u, operation, target)
        \/ \E t \in TokenIds : ReceiveToken(r, u, t, operation, target)

Serve(r) ==
    \/ Lookup(r) \/ LookupFails(r) \/ Touch(r)
    \/ CreateToken(r) \/ RevealToken(r) \/ ListTokens(r)
    \/ RevokeFind(r) \/ RevokeWrite(r)

Next ==
    \/ \E r \in Requests : Receive(r) \/ Serve(r) \/ Abort(r)
    \/ \E t \in TokenIds : Expire(t)
    \/ \E u, v \in Users, t \in TokenIds : Share(u, v, t)

Spec == Init /\ [][Next]_vars

-----------------------------------------------------------------------------
\* Properties.

\* A request has the fields its next call needs, and the tokens it names exist.
RequestOK(req) ==
    /\ req.at # "idle" => req.actor \in Users /\ req.operation \in Operations
    /\ req.at \in {"lookup", "touch"} => req.bearer \in TokenIds /\ Stored(req.bearer)
    /\ req.operation \in Targeted => req.target \in TokenIds /\ Stored(req.target)
    /\ req.at = "revoke" => req.operation = "revoke"
    /\ req.at \in {"serve", "revoke"} => Admitted(req.operation, req.principal)
    /\ req.principal.method = "anonymous" <=> req.principal.user = None

\* Every variable has its type, and raw tokens are of records that exist.
TypeOK ==
    /\ tokens \in [TokenIds -> Token \cup {None}]
    /\ requests \in [Requests -> Request]
    /\ \A r \in Requests : RequestOK(requests[r])
    /\ known \in [Users -> SUBSET TokenIds]
    /\ shared \in [Users -> SUBSET TokenIds]
    /\ \A u \in Users : \A t \in known[u] : Stored(t)

\* Revocation and expiry are final, whatever lookups and touches of the token
\* are under way: an invalid token is never valid again.
InvalidStaysInvalid ==
    [][\A t \in TokenIds : Stored(t) /\ ~IsValid(tokens[t])
         => Stored(t)' /\ ~IsValid(tokens[t])']_vars

\* A request that came with a revoked or expired token never acts for a user,
\* whatever happened while it was looked up.
InvalidTokensAreRefused ==
    \A r \in Requests : requests[r].late => requests[r].principal = Anonymous

\* Nobody learns a raw token of another user through the API, not even who holds
\* one of that user's tokens and works in his name: foreign tokens were handed
\* over.  So a user who revokes what he gave away has shut out those who held it.
ForeignTokensWereShared ==
    \A u \in Users : \A t \in known[u] : tokens[t].owner = u \/ t \in shared[u]

===============================================================================
