--------------------------- MODULE ClientTokensProofs ---------------------------
(***************************************************************************)
(* Proofs about ClientTokens: types, and what an invalid token and a token *)
(* of somebody else are good for.                                          *)
(***************************************************************************)
EXTENDS ClientTokens, TLAPS

-----------------------------------------------------------------------------
\* The inductive invariant.

\* A login acts for the user who sent the request.
ActsForSender(req) == req.principal.method = "jwt" => req.principal.user = req.actor

\* A request that came with an invalid token stays without a principal.
Refused(req) ==
    req.late => /\ req.principal = Anonymous
                /\ req.at = "lookup" => ~IsValid(tokens[req.bearer])

Known == \A u \in Users : \A t \in known[u] : tokens[t].owner = u \/ t \in shared[u]

TokenInv ==
    /\ TypeOK
    /\ \A r \in Requests : ActsForSender(requests[r]) /\ Refused(requests[r])
    /\ Known

-----------------------------------------------------------------------------
\* The collection.

LEMMA TokenWriter ==
    ASSUME Next
    PROVE  \/ UNCHANGED tokens
           \/ \E r \in Requests : CreateToken(r) \/ RevokeWrite(r)
           \/ \E t \in TokenIds : Expire(t)
<1>1. ASSUME NEW r \in Requests, Receive(r)
      PROVE  UNCHANGED tokens
  BY <1>1 DEF Receive, ReceiveJWT, ReceiveToken
<1>2. ASSUME NEW r \in Requests, Serve(r)
      PROVE  UNCHANGED tokens \/ CreateToken(r) \/ RevokeWrite(r)
  BY <1>2 DEF Serve, Lookup, LookupFails, Touch, RevealToken, ListTokens, RevokeFind
<1>3. QED
  BY <1>1, <1>2 DEF Next, Abort, Share

\* Tokens stay, with their owner, and never become valid again.
LEMMA TokensStep ==
    ASSUME TypeOK, Next
    PROVE  /\ tokens' \in [TokenIds -> Token \cup {None}]
           /\ \A t \in TokenIds : Stored(t) =>
                 /\ tokens'[t] # None
                 /\ tokens'[t].owner = tokens[t].owner
                 /\ ~IsValid(tokens[t]) => ~IsValid(tokens'[t])
<1> DEFINE Kept(t) == Stored(t) =>
                 /\ tokens'[t] # None
                 /\ tokens'[t].owner = tokens[t].owner
                 /\ ~IsValid(tokens[t]) => ~IsValid(tokens'[t])
           Good == /\ tokens' \in [TokenIds -> Token \cup {None}]
                   /\ \A t \in TokenIds : Kept(t)
<1> SUFFICES Good
  OBVIOUS
<1>1. /\ tokens \in [TokenIds -> Token \cup {None}]
      /\ requests \in [Requests -> Request]
      /\ \A r \in Requests : RequestOK(requests[r])
  BY DEF TypeOK
<1>2. CASE UNCHANGED tokens
  BY <1>1, <1>2 DEF Stored
<1>3. ASSUME NEW r \in Requests, CreateToken(r)
      PROVE  Good
  <2>1. PICK t \in TokenIds, in \in CreateInputs, expired \in BOOLEAN :
           /\ ~Stored(t)
           /\ ValidInput(in)
           /\ tokens' = [tokens EXCEPT ![t] =
                [owner |-> requests[r].principal.user, scopes |-> in.scopes,
                 expires |-> in.expires, unlimited |-> in.unlimited, encrypted |-> TRUE,
                 expired |-> expired, revoked |-> FALSE]]
    BY <1>3 DEF CreateToken
  <2> DEFINE new == [owner |-> requests[r].principal.user, scopes |-> in.scopes,
                     expires |-> in.expires, unlimited |-> in.unlimited, encrypted |-> TRUE,
                     expired |-> expired, revoked |-> FALSE]
  <2>2. requests[r].principal.user \in Users
    <3>1. requests[r].principal.method = "jwt"
      BY <1>1, <1>3 DEF CreateToken, Serving, At, RequestOK, Admitted, RequireJWT, Targeted
    <3>2. requests[r].principal.user # None /\ requests[r].principal \in Principal
      BY <1>1, <3>1 DEF RequestOK, Request
    <3>3. QED
      BY <3>2 DEF Principal
  <2>3. new \in Token
    BY <2>1, <2>2, CreateInputsAssumption DEF Token, Input, ValidInput
  <2>4. QED
    BY <1>1, <2>1, <2>3 DEF Stored
<1>4. ASSUME NEW r \in Requests, RevokeWrite(r)
      PROVE  Good
  <2> DEFINE t == requests[r].target
  <2>1. t \in TokenIds /\ Stored(t)
    BY <1>1, <1>4 DEF RevokeWrite, At, RequestOK, Targeted
  <2>2. tokens[t] \in Token
    BY <1>1, <2>1 DEF Stored
  <2>3. tokens' = [tokens EXCEPT ![t] = [tokens[t] EXCEPT !.revoked = TRUE]]
    BY <1>4 DEF RevokeWrite
  <2>4. [tokens[t] EXCEPT !.revoked = TRUE] \in Token
    BY <2>2 DEF Token
  <2>5. QED
    BY <1>1, <2>1, <2>2, <2>3, <2>4, NoneIsNoToken DEF Stored, Token, IsValid
<1>5. ASSUME NEW t \in TokenIds, Expire(t)
      PROVE  Good
  <2>1. Stored(t) /\ tokens[t] \in Token
    BY <1>1, <1>5 DEF Expire, Stored
  <2>2. tokens' = [tokens EXCEPT ![t] = [tokens[t] EXCEPT !.expired = TRUE]]
    BY <1>5 DEF Expire
  <2>3. [tokens[t] EXCEPT !.expired = TRUE] \in Token
    BY <2>1 DEF Token
  <2>4. QED
    BY <1>1, <2>1, <2>2, <2>3, NoneIsNoToken DEF Stored, Token, IsValid
<1>6. QED
  BY <1>2, <1>3, <1>4, <1>5, TokenWriter

-----------------------------------------------------------------------------
\* The requests.

\* A request goes on with a principal, or ends.
LEMMA Entered ==
    ASSUME TypeOK, NEW r \in Requests, NEW req \in Request, NEW principal \in Principal,
           RequestOK(req), req.at # "idle",
           ActsForSender([req EXCEPT !.principal = principal]),
           principal.method = "anonymous" <=> principal.user = None,
           req.late => principal = Anonymous,
           Enter(r, req, principal)
    PROVE  /\ requests' \in [Requests -> Request]
           /\ RequestOK(requests'[r])
           /\ ActsForSender(requests'[r])
           /\ Refused(requests'[r])
           /\ \A q \in Requests \ {r} : requests'[q] = requests[q]
<1> DEFINE next == [req EXCEPT !.at = "serve", !.bearer = None, !.principal = principal]
<1>1. requests \in [Requests -> Request]
  BY DEF TypeOK
<1>2. Idle \in Request /\ RequestOK(Idle) /\ ActsForSender(Idle) /\ Refused(Idle)
  BY NoneIsNoOperation
     DEF Idle, Request, RequestOK, ActsForSender, Refused, Anonymous, Principal, Operations
<1>3. CASE Admitted(req.operation, principal)
  <2>1. requests' = [requests EXCEPT ![r] = next]
    BY <1>3 DEF Enter
  <2>2. next \in Request
    BY DEF Request
  <2>3. /\ next.at = "serve" /\ next.operation = req.operation /\ next.target = req.target
        /\ next.actor = req.actor /\ next.principal = principal /\ next.late = req.late
    BY DEF Request
  <2>4. RequestOK(next)
    BY <1>3, <2>3 DEF RequestOK
  <2>5. ActsForSender(next) /\ Refused(next)
    BY <2>3 DEF ActsForSender, Refused, Request
  <2>6. QED
    BY <1>1, <2>1, <2>2, <2>4, <2>5
<1>4. CASE ~Admitted(req.operation, principal)
  BY <1>1, <1>2, <1>4 DEF Enter
<1>5. QED
  BY <1>3, <1>4

\* Every step leaves the requests fit for their next call, against the tokens of before.
LEMMA RequestsStep ==
    ASSUME TokenInv, Next
    PROVE  /\ requests' \in [Requests -> Request]
           /\ \A r \in Requests : /\ RequestOK(requests'[r])
                                  /\ ActsForSender(requests'[r])
                                  /\ Refused(requests'[r])
<1> DEFINE Fit(req) == RequestOK(req) /\ ActsForSender(req) /\ Refused(req)
           Good == /\ requests' \in [Requests -> Request]
                   /\ \A r \in Requests : Fit(requests'[r])
<1> SUFFICES Good
  OBVIOUS
<1>1. /\ TypeOK
      /\ tokens \in [TokenIds -> Token \cup {None}]
      /\ requests \in [Requests -> Request]
      /\ known \in [Users -> SUBSET TokenIds]
      /\ \A u \in Users : \A t \in known[u] : Stored(t)
      /\ \A r \in Requests : Fit(requests[r])
  BY DEF TokenInv, TypeOK
<1>2. Idle \in Request /\ Fit(Idle)
  BY NoneIsNoOperation
     DEF Idle, Request, RequestOK, ActsForSender, Refused, Anonymous, Principal, Operations
<1>3. ASSUME NEW r \in Requests, NEW req \in Request, Fit(req),
             requests' = [requests EXCEPT ![r] = req]
      PROVE  Good
  BY <1>1, <1>3
<1>4. ASSUME NEW r \in Requests, Finish(r)
      PROVE  Good
  BY <1>2, <1>3, <1>4 DEF Finish
<1>5. ASSUME NEW r \in Requests,
             /\ requests' \in [Requests -> Request]
             /\ RequestOK(requests'[r])
             /\ ActsForSender(requests'[r])
             /\ Refused(requests'[r])
             /\ \A q \in Requests \ {r} : requests'[q] = requests[q]
      PROVE  Good
  BY <1>1, <1>5
<1>6. ASSUME NEW r \in Requests, NEW u \in Users, NEW operation \in Operations,
             NEW target \in TokenIds \cup {None}, ReceiveJWT(r, u, operation, target)
      PROVE  Good
  <2> DEFINE req == [Idle EXCEPT !.actor = u, !.operation = operation, !.target = target]
             entering == [req EXCEPT !.at = "serve", !.bearer = None,
                                     !.principal = JWTPrincipal(u)]
  <2>1. requests' = [requests EXCEPT ![r] = IF Admitted(operation, JWTPrincipal(u))
                                              THEN entering ELSE Idle]
    BY <1>6 DEF ReceiveJWT, Enter, Idle
  <2>2. /\ entering.at = "serve" /\ entering.operation = operation /\ entering.actor = u
        /\ entering.target = target /\ entering.principal = JWTPrincipal(u)
        /\ entering.late = FALSE
    BY DEF Idle
  <2>3. JWTPrincipal(u) \in Principal /\ JWTPrincipal(u).method = "jwt" /\ JWTPrincipal(u).user = u
    BY DEF JWTPrincipal, Principal
  <2>4. entering \in Request
    BY <2>3 DEF Idle, Request
  <2>5. operation \in Targeted => target \in TokenIds /\ Stored(target)
    BY <1>6 DEF ReceiveJWT, Receives
  <2>6. Admitted(operation, JWTPrincipal(u)) => RequestOK(entering)
    BY <2>2, <2>3, <2>5, NoneAssumption DEF RequestOK
  <2>7. ActsForSender(entering) /\ Refused(entering)
    BY <2>2, <2>3 DEF ActsForSender, Refused
  <2> HIDE DEF entering
  <2>8. QED
    BY <1>2, <1>3, <2>1, <2>4, <2>6, <2>7
<1>7. ASSUME NEW r \in Requests, NEW u \in Users, NEW operation \in Operations,
             NEW target \in TokenIds \cup {None}, NEW t \in TokenIds,
             ReceiveToken(r, u, t, operation, target)
      PROVE  Good
  <2> DEFINE req == [Idle EXCEPT !.at = "lookup", !.actor = u, !.bearer = t,
                                 !.operation = operation, !.target = target,
                                 !.late = ~IsValid(tokens[t])]
  <2>1. requests' = [requests EXCEPT ![r] = req]
    BY <1>7 DEF ReceiveToken
  <2>2. /\ req.at = "lookup" /\ req.operation = operation /\ req.actor = u
        /\ req.target = target /\ req.bearer = t /\ req.principal = Anonymous
        /\ req.late = ~IsValid(tokens[t])
    BY DEF Idle
  <2>3. t \in known[u] /\ (operation \in Targeted => target \in TokenIds /\ Stored(target))
    BY <1>7, JWTAssumption DEF ReceiveToken, Receives
  <2>4. (~IsValid(tokens[t])) \in BOOLEAN
    OBVIOUS
  <2>5. req \in Request
    BY <2>4 DEF Idle, Request, Anonymous, Principal
  <2>6. RequestOK(req)
    BY <1>1, <2>2, <2>3 DEF RequestOK, Anonymous
  <2>7. ActsForSender(req)
    BY <2>2 DEF ActsForSender, Anonymous
  <2>8. req.late => ~IsValid(tokens[t])
    BY <2>2
  <2>9. Refused(req)
    BY <2>2, <2>8 DEF Refused
  <2> HIDE DEF req
  <2>10. QED
    BY <1>3, <2>1, <2>5, <2>6, <2>7, <2>9
<1>8. ASSUME NEW r \in Requests, Lookup(r)
      PROVE  Good
  <2> DEFINE old == requests[r]
             token == tokens[old.bearer]
             req == [old EXCEPT !.at = "touch", !.principal = TokenPrincipal(token)]
  <2>1. /\ old.at = "lookup"
        /\ IsValid(token)
        /\ requests' = [requests EXCEPT ![r] = req]
    BY <1>8 DEF Lookup, At
  <2>2. old \in Request /\ Fit(old)
    BY <1>1
  <2>3. token \in Token
    BY <1>1, <2>1, <2>2 DEF RequestOK, Stored
  <2>4. /\ TokenPrincipal(token) \in Principal
        /\ TokenPrincipal(token).method = "client_token"
        /\ TokenPrincipal(token).user # None
    BY <2>3, NoneAssumption DEF TokenPrincipal, Principal, Token
  <2>5. /\ req.at = "touch" /\ req.operation = old.operation /\ req.actor = old.actor
        /\ req.target = old.target /\ req.bearer = old.bearer /\ req.late = old.late
        /\ req.principal = TokenPrincipal(token)
    BY <2>2 DEF Request
  <2>6. req \in Request
    BY <2>2, <2>4 DEF Request
  <2>7. RequestOK(req)
    BY <2>1, <2>2, <2>4, <2>5 DEF RequestOK
  <2>8. ~old.late
    BY <2>1, <2>2 DEF Refused
  <2>9. ActsForSender(req) /\ Refused(req)
    BY <2>4, <2>5, <2>8 DEF ActsForSender, Refused
  <2> HIDE DEF req
  <2>10. QED
    BY <1>3, <2>1, <2>6, <2>7, <2>9
<1>9. ASSUME NEW r \in Requests, LookupFails(r)
      PROVE  Good
  <2>1. /\ requests[r] \in Request
        /\ RequestOK(requests[r])
        /\ requests[r].at = "lookup"
        /\ Enter(r, requests[r], Anonymous)
    BY <1>1, <1>9 DEF LookupFails, At
  <2>2. /\ Anonymous \in Principal
        /\ Anonymous.method = "anonymous" /\ Anonymous.user = None
    BY DEF Anonymous, Principal
  <2>3. ActsForSender([requests[r] EXCEPT !.principal = Anonymous])
    BY <2>1, <2>2 DEF ActsForSender, Request
  <2>4. QED
    BY <1>1, <1>5, <2>1, <2>2, <2>3, Entered
<1>10. ASSUME NEW r \in Requests, Touch(r)
       PROVE  Good
  <2> DEFINE principal == requests[r].principal
  <2>1. /\ requests[r] \in Request
        /\ Fit(requests[r])
        /\ requests[r].at = "touch"
        /\ Enter(r, requests[r], principal)
    BY <1>1, <1>10 DEF Touch, At
  <2>2. principal \in Principal /\ (principal.method = "anonymous" <=> principal.user = None)
    BY <2>1 DEF Request, RequestOK
  <2>3. ActsForSender([requests[r] EXCEPT !.principal = principal])
    BY <2>1 DEF ActsForSender, Request
  <2>4. requests[r].late => principal = Anonymous
    BY <2>1 DEF Refused
  <2>5. QED
    BY <1>1, <1>5, <2>1, <2>2, <2>3, <2>4, Entered
<1>11. ASSUME NEW r \in Requests, RevokeFind(r)
       PROVE  Good
  <2> DEFINE old == requests[r]
             req == [old EXCEPT !.at = "revoke"]
  <2>1. /\ old \in Request
        /\ Fit(old)
        /\ old.at = "serve" /\ old.operation = "revoke"
        /\ requests' = [requests EXCEPT ![r] = req]
    BY <1>1, <1>11 DEF RevokeFind, Serving, At
  <2>2. /\ req \in Request
        /\ req.at = "revoke" /\ req.operation = old.operation /\ req.actor = old.actor
        /\ req.target = old.target /\ req.late = old.late /\ req.principal = old.principal
    BY <2>1 DEF Request
  <2>3. Fit(req)
    BY <2>1, <2>2 DEF RequestOK, ActsForSender, Refused
  <2> HIDE DEF req
  <2>4. QED
    BY <1>3, <2>1, <2>2, <2>3
<1>12. CASE UNCHANGED requests
  BY <1>1, <1>12
<1>13. ASSUME NEW r \in Requests, Serve(r)
       PROVE  Good
  BY <1>4, <1>8, <1>9, <1>10, <1>11, <1>13
     DEF Serve, CreateToken, RevealToken, ListTokens, RevokeWrite
<1>14. ASSUME NEW r \in Requests, Receive(r)
       PROVE  Good
  BY <1>6, <1>7, <1>14 DEF Receive
<1>15. QED
  BY <1>4, <1>12, <1>13, <1>14 DEF Next, Abort, Expire, Share

-----------------------------------------------------------------------------
\* Who knows which token.

LEMMA KnownWriter ==
    ASSUME Next
    PROVE  \/ UNCHANGED <<known, shared>>
           \/ \E r \in Requests : CreateToken(r) \/ RevealToken(r) \/ ListTokens(r)
           \/ \E u, v \in Users, t \in TokenIds : Share(u, v, t)
<1>1. ASSUME NEW r \in Requests, Receive(r)
      PROVE  UNCHANGED <<known, shared>>
  BY <1>1 DEF Receive, ReceiveJWT, ReceiveToken
<1>2. ASSUME NEW r \in Requests, Serve(r)
      PROVE  UNCHANGED <<known, shared>> \/ CreateToken(r) \/ RevealToken(r) \/ ListTokens(r)
  BY <1>2 DEF Serve, Lookup, LookupFails, Touch, RevokeFind, RevokeWrite
<1>3. QED
  BY <1>1, <1>2 DEF Next, Abort, Expire

\* Users see tokens of their own, or are given them.
LEMMA KnownStep ==
    ASSUME TokenInv, Next
    PROVE  /\ known' \in [Users -> SUBSET TokenIds]
           /\ shared' \in [Users -> SUBSET TokenIds]
           /\ \A u \in Users : \A t \in known'[u] :
                 /\ tokens'[t] # None
                 /\ tokens'[t].owner = u \/ t \in shared'[u]
<1> DEFINE Good == /\ known' \in [Users -> SUBSET TokenIds]
                   /\ shared' \in [Users -> SUBSET TokenIds]
                   /\ \A u \in Users : \A t \in known'[u] :
                         /\ tokens'[t] # None
                         /\ tokens'[t].owner = u \/ t \in shared'[u]
<1> SUFFICES Good
  OBVIOUS
<1>1. /\ TypeOK
      /\ requests \in [Requests -> Request]
      /\ known \in [Users -> SUBSET TokenIds]
      /\ shared \in [Users -> SUBSET TokenIds]
      /\ \A u \in Users : \A t \in known[u] : Stored(t)
      /\ \A u \in Users : \A t \in known[u] : tokens[t].owner = u \/ t \in shared[u]
      /\ \A r \in Requests : RequestOK(requests[r]) /\ ActsForSender(requests[r])
  BY DEF TokenInv, TypeOK, Known
<1>2. \A t \in TokenIds : Stored(t) => tokens'[t] # None /\ tokens'[t].owner = tokens[t].owner
  BY <1>1, TokensStep
<1>3. CASE UNCHANGED <<known, shared>>
  BY <1>1, <1>2, <1>3
<1>4. ASSUME NEW r \in Requests, NEW raw \in SUBSET TokenIds, Show(r, raw), UNCHANGED shared,
             requests[r].actor \in Users,
             \A t \in raw : tokens'[t] # None /\ tokens'[t].owner = requests[r].actor
      PROVE  Good
  <2>1. known' = [known EXCEPT ![requests[r].actor] = @ \cup raw]
    BY <1>4 DEF Show
  <2>2. known' \in [Users -> SUBSET TokenIds]
    BY <1>1, <1>4, <2>1
  <2>3. \A u \in Users : \A t \in known'[u] : t \in known[u] \/ (t \in raw /\ u = requests[r].actor)
    BY <1>1, <1>4, <2>1
  <2>4. QED
    BY <1>1, <1>2, <1>4, <2>2, <2>3
<1>5. ASSUME NEW r \in Requests, requests[r].at = "serve",
             requests[r].operation \in {"create", "reveal", "list"}
      PROVE  /\ requests[r].actor \in Users
             /\ requests[r].principal.user = requests[r].actor
  <2>1. requests[r].principal.method = "jwt"
    BY <1>1, <1>5 DEF RequestOK, Admitted, RequireJWT
  <2>2. QED
    BY <1>1, <1>5, <2>1 DEF RequestOK, ActsForSender
<1>6. ASSUME NEW r \in Requests, CreateToken(r)
      PROVE  Good
  <2>1. PICK t \in TokenIds, in \in CreateInputs, expired \in BOOLEAN :
           /\ ~Stored(t)
           /\ ValidInput(in)
           /\ tokens' = [tokens EXCEPT ![t] =
                [owner |-> requests[r].principal.user, scopes |-> in.scopes,
                 expires |-> in.expires, unlimited |-> in.unlimited, encrypted |-> TRUE,
                 expired |-> expired, revoked |-> FALSE]]
           /\ Show(r, {t})
    BY <1>6 DEF CreateToken
  <2>2. /\ requests[r].actor \in Users
        /\ requests[r].principal.user = requests[r].actor
    BY <1>5, <1>6 DEF CreateToken, Serving, At
  <2>3. /\ tokens \in [TokenIds -> Token \cup {None}]
        /\ tokens' \in [TokenIds -> Token \cup {None}]
    BY <1>1, TokensStep DEF TypeOK
  <2>4. tokens'[t].owner = requests[r].actor /\ UNCHANGED shared
    BY <1>6, <2>1, <2>2, <2>3 DEF CreateToken
  <2>5. tokens'[t] # None
    <3> DEFINE new == [owner |-> requests[r].principal.user, scopes |-> in.scopes,
                       expires |-> in.expires, unlimited |-> in.unlimited, encrypted |-> TRUE,
                       expired |-> expired, revoked |-> FALSE]
    <3>1. tokens'[t] = new
      BY <2>1, <2>3
    <3>2. new \in Token
      BY <1>1, <2>1, <2>2, CreateInputsAssumption DEF Token, Input, ValidInput
    <3>3. QED
      BY <3>1, <3>2, NoneIsNoToken
  <2>6. QED
    BY <1>4, <2>1, <2>2, <2>4, <2>5
<1>7. ASSUME NEW r \in Requests, RevealToken(r)
      PROVE  Good
  <2> DEFINE t == requests[r].target
  <2>1. /\ requests[r].actor \in Users
        /\ requests[r].principal.user = requests[r].actor
    BY <1>5, <1>7 DEF RevealToken, Serving, At
  <2>2. t \in TokenIds /\ Stored(t) /\ tokens[t].owner = requests[r].actor
    BY <1>1, <1>7, <2>1 DEF RevealToken, Serving, At, RequestOK, Targeted, MayReveal
  <2>3. {t} \in SUBSET TokenIds /\ Show(r, {t}) /\ UNCHANGED shared
    BY <1>7, <2>2 DEF RevealToken
  <2>4. QED
    BY <1>2, <1>4, <2>1, <2>2, <2>3
<1>8. ASSUME NEW r \in Requests, ListTokens(r)
      PROVE  Good
  <2> DEFINE raw == {t \in TokenIds : /\ Stored(t)
                                      /\ tokens[t].owner = requests[r].principal.user
                                      /\ RawTokenFor(tokens[t])}
  <2>1. /\ requests[r].actor \in Users
        /\ requests[r].principal.user = requests[r].actor
    BY <1>5, <1>8 DEF ListTokens, Serving, At
  <2>2. raw \in SUBSET TokenIds /\ Show(r, raw) /\ UNCHANGED shared
    BY <1>8 DEF ListTokens
  <2>3. \A t \in raw : tokens'[t] # None /\ tokens'[t].owner = requests[r].actor
    BY <1>2, <2>1
  <2> HIDE DEF raw
  <2>4. QED
    BY <1>4, <2>1, <2>2, <2>3
<1>9. ASSUME NEW u \in Users, NEW v \in Users, NEW t \in TokenIds, Share(u, v, t)
      PROVE  Good
  <2>1. /\ t \in known[u]
        /\ known' = [known EXCEPT ![v] = @ \cup {t}]
        /\ shared' = [shared EXCEPT ![v] = @ \cup {t}]
    BY <1>9 DEF Share
  <2>2. Stored(t)
    BY <1>1, <2>1
  <2>3. known' \in [Users -> SUBSET TokenIds] /\ shared' \in [Users -> SUBSET TokenIds]
    BY <1>1, <2>1
  <2>4. ASSUME NEW w \in Users, NEW t2 \in known'[w]
        PROVE  Stored(t2) /\ t2 \in TokenIds /\ (tokens[t2].owner = w \/ t2 \in shared'[w])
    BY <1>1, <2>1, <2>2, <2>4
  <2>5. QED
    BY <1>2, <2>3, <2>4
<1>10. QED
  BY <1>3, <1>6, <1>7, <1>8, <1>9, KnownWriter

-----------------------------------------------------------------------------
\* The theorems.

LEMMA TokenInit == Init => TokenInv
<1> SUFFICES ASSUME Init
             PROVE  TokenInv
  OBVIOUS
<1>1. \A u \in Users : LegacyToken(u) \in Token
  BY DEF LegacyToken, Token
<1>2. tokens \in [TokenIds -> Token \cup {None}]
  BY <1>1 DEF Init
<1>3. Idle \in Request /\ RequestOK(Idle) /\ ActsForSender(Idle) /\ Refused(Idle)
  BY NoneIsNoOperation
     DEF Idle, Request, RequestOK, ActsForSender, Refused, Anonymous, Principal, Operations
<1>4. /\ \A r \in Requests : requests[r] = Idle
      /\ requests \in [Requests -> Request]
  BY <1>3 DEF Init
<1>5. /\ known \in [Users -> SUBSET TokenIds]
      /\ shared \in [Users -> SUBSET TokenIds]
      /\ \A u \in Users : \A t \in known[u] : Stored(t) /\ tokens[t].owner = u
  BY DEF Init
<1>6. QED
  BY <1>2, <1>3, <1>4, <1>5 DEF TokenInv, TypeOK, Known

LEMMA TokenStep == TokenInv /\ [Next]_vars => TokenInv'
<1>1. CASE TokenInv /\ UNCHANGED vars
  BY <1>1 DEF vars, TokenInv, TypeOK, RequestOK, Stored, Refused, Known
<1>2. ASSUME TokenInv, Next
      PROVE  TokenInv'
  <2>1. /\ tokens' \in [TokenIds -> Token \cup {None}]
        /\ \A t \in TokenIds : Stored(t) =>
              /\ tokens'[t] # None
              /\ ~IsValid(tokens[t]) => ~IsValid(tokens'[t])
    BY <1>2, TokensStep DEF TokenInv
  <2>2. /\ requests' \in [Requests -> Request]
        /\ \A r \in Requests : /\ RequestOK(requests'[r])
                               /\ ActsForSender(requests'[r])
                               /\ Refused(requests'[r])
    BY <1>2, RequestsStep
  <2>3. ASSUME NEW r \in Requests
        PROVE  RequestOK(requests[r])'
    BY <2>1, <2>2 DEF RequestOK, Stored
  <2>4. ASSUME NEW r \in Requests
        PROVE  Refused(requests[r])'
    <3>1. requests'[r].at = "lookup" => requests'[r].bearer \in TokenIds /\ Stored(requests'[r].bearer)
      BY <2>2 DEF RequestOK
    <3>2. QED
      BY <2>1, <2>2, <3>1 DEF Refused
  <2>5. /\ known' \in [Users -> SUBSET TokenIds]
        /\ shared' \in [Users -> SUBSET TokenIds]
        /\ \A u \in Users : \A t \in known'[u] :
              /\ tokens'[t] # None
              /\ tokens'[t].owner = u \/ t \in shared'[u]
    BY <1>2, KnownStep
  <2>6. TypeOK'
    BY <2>1, <2>2, <2>3, <2>5 DEF TypeOK, Stored
  <2>7. \A r \in Requests : ActsForSender(requests[r])'
    BY <2>2 DEF ActsForSender
  <2>8. QED
    BY <2>4, <2>5, <2>6, <2>7 DEF TokenInv, Known
<1>3. QED
  BY <1>1, <1>2

\* Every reachable state is well typed, and every request in flight has what its next
\* call needs (application/clienttoken, middleware/auth.go).
THEOREM TokenTypes == Spec => []TypeOK
<1>1. TokenInv => TypeOK
  BY DEF TokenInv
<1>2. QED
  BY <1>1, TokenInit, TokenStep, PTL DEF Spec

\* A token that is expired or revoked stays so: no touch, creation, reveal or second
\* revocation brings it back (infrastructure/mongodb/clienttoken_repo.go).
THEOREM InvalidForGood == Spec => InvalidStaysInvalid
<1> DEFINE Good == \A t \in TokenIds : Stored(t) /\ ~IsValid(tokens[t])
                                         => Stored(t)' /\ ~IsValid(tokens[t])'
<1>1. TokenInv /\ [Next]_vars => [Good]_vars
  <2> SUFFICES ASSUME TokenInv, Next, NEW t \in TokenIds, Stored(t), ~IsValid(tokens[t])
               PROVE  Stored(t)' /\ ~IsValid(tokens[t])'
    OBVIOUS
  <2>1. tokens'[t] # None /\ ~IsValid(tokens'[t])
    BY TokensStep DEF TokenInv
  <2>2. QED
    BY <2>1 DEF Stored, IsValid
<1>2. QED
  BY <1>1, TokenInit, TokenStep, PTL DEF Spec, InvalidStaysInvalid

\* A request that came with a revoked or expired token never works for its owner, at
\* whatever moment it looks the token up (middleware/auth.go, Authenticate).
THEOREM InvalidRefused == Spec => []InvalidTokensAreRefused
<1>1. TokenInv => InvalidTokensAreRefused
  BY DEF TokenInv, Refused, InvalidTokensAreRefused
<1>2. QED
  BY <1>1, TokenInit, TokenStep, PTL DEF Spec

\* Users hold no raw token of somebody else that they were not given: neither reveal
\* nor list shows one (application/clienttoken/service.go).
THEOREM TokensStayWithOwners == Spec => []ForeignTokensWereShared
<1>1. TokenInv => ForeignTokensWereShared
  BY DEF TokenInv, Known, ForeignTokensWereShared
<1>2. QED
  BY <1>1, TokenInit, TokenStep, PTL DEF Spec

=============================================================================
