---------------------------- MODULE AccountsProofs ----------------------------
(***************************************************************************)
(* Proofs about Accounts: types, and that a system with an admin keeps one *)
(* as long as guarded updates do not overlap; then what logins, refreshes  *)
(* and password changes reflect, the rotation of refresh tokens, and the   *)
(* first admin.                                                            *)
(***************************************************************************)
EXTENDS Accounts, FiniteSetTheorems, TLAPS

-----------------------------------------------------------------------------
\* The inductive invariants.

\* What a request in flight knows, against the users us and the sessions ss.
RequestOK(req, us, ss) ==
    /\ req \in Request
    /\ req.at # "idle" => req.user \in Emails /\ us[req.user] # None
    /\ req.at \in UpdateSteps => req.input \in UpdateInputs /\ req.role = "admin"
    /\ req.at \in {"login:insert", "refresh:revoke", "refresh:insert"} => req.role \in Roles
    /\ req.at = "password:write" => req.new \in Passwords
    /\ req.at \in {"logout:revoke"} \cup RefreshSteps
         => req.session \in SessionIds /\ ss[req.session] # None

TypeInv ==
    /\ TypeOK
    /\ \A r \in Requests : RequestOK(requests[r], users, sessions)

\* An admin token is in someone's hands, or a request acts or was checked with one.
AdminPower ==
    \/ \E t \in tokens : t.role = "admin"
    \/ \E r \in Requests : requests[r].at # "idle" /\ requests[r].role = "admin"

\* While guarded updates have not overlapped, there is one at most, and past its
\* guard it has another admin than its user to rely on.
AdminInv ==
    /\ TypeInv
    /\ ~contended =>
         /\ AdminPower => Admins # {}
         /\ \A q, r \in Requests : Guarding(q) /\ Guarding(r) => q = r
         /\ \A r \in Requests :
              Guarding(r) /\ At(r, "update:write") => \E e \in Admins : e # requests[r].user

-----------------------------------------------------------------------------
\* Who writes what.

LEMMA UserWriter ==
    ASSUME Next
    PROVE  \/ UNCHANGED users
           \/ \E r \in Requests : UpdateWrite(r) \/ PasswordWrite(r)
           \/ \E r \in Requests, e \in Emails, in \in CreateInputs : CreateUser(r, e, in)
           \/ \E i \in Instances : BootstrapCreate(i)
<1>1. ASSUME NEW r \in Requests, Receive(r)
      PROVE  \/ UNCHANGED users
             \/ \E e \in Emails, in \in CreateInputs : CreateUser(r, e, in)
  BY <1>1 DEF Receive, UpdateReceive, LoginReceive, RefreshReceive, LogoutReceive,
              PasswordReceive
<1>2. ASSUME NEW r \in Requests, Serve(r)
      PROVE  UNCHANGED users \/ UpdateWrite(r) \/ PasswordWrite(r)
  BY <1>2 DEF Serve, UpdateFind, UpdateCount, LoginInsert, RefreshLoad, RefreshRevoke,
              RefreshInsert, LogoutRevoke, IssueTokens
<1>3. QED
  BY <1>1, <1>2 DEF Next, Abort, Start, BootstrapCount, BootstrapFail, Restart,
                    ExpireSession, ExpireToken

LEMMA SessionWriter ==
    ASSUME Next
    PROVE  \/ UNCHANGED <<sessions, tokens>>
           \/ \E r \in Requests : LoginInsert(r) \/ RefreshInsert(r)
           \/ \E r \in Requests : RefreshRevoke(r) \/ LogoutRevoke(r)
           \/ \E s \in SessionIds : ExpireSession(s)
           \/ \E t \in tokens : ExpireToken(t)
<1>1. ASSUME NEW r \in Requests, Receive(r)
      PROVE  UNCHANGED <<sessions, tokens>>
  BY <1>1 DEF Receive, CreateUser, UpdateReceive, LoginReceive, RefreshReceive,
              LogoutReceive, PasswordReceive
<1>2. ASSUME NEW r \in Requests, Serve(r)
      PROVE  \/ UNCHANGED <<sessions, tokens>>
             \/ LoginInsert(r) \/ RefreshInsert(r) \/ RefreshRevoke(r) \/ LogoutRevoke(r)
  BY <1>2 DEF Serve, UpdateFind, UpdateCount, UpdateWrite, RefreshLoad, PasswordWrite
<1>3. QED
  BY <1>1, <1>2 DEF Next, Abort, Start, BootstrapCount, BootstrapCreate, BootstrapFail, Restart

\* Every step writes the history.
LEMMA Observed ==
    ASSUME Next
    PROVE  Observe
<1>1. ASSUME NEW r \in Requests, Receive(r)
      PROVE  Observe
  BY <1>1 DEF Receive, CreateUser, UpdateReceive, LoginReceive, RefreshReceive, LogoutReceive,
              PasswordReceive
<1>2. ASSUME NEW r \in Requests, Serve(r)
      PROVE  Observe
  BY <1>2 DEF Serve, UpdateFind, UpdateCount, UpdateWrite, LoginInsert, RefreshLoad,
              RefreshRevoke, RefreshInsert, IssueTokens, LogoutRevoke, PasswordWrite
<1>3. QED
  BY <1>1, <1>2 DEF Next, Abort, Start, BootstrapCount, BootstrapCreate, BootstrapFail,
                    Restart, ExpireSession, ExpireToken

-----------------------------------------------------------------------------
\* Types.

\* Accounts stay and have their type.
LEMMA UsersGrow ==
    ASSUME TypeInv, Next
    PROVE  /\ users' \in Users
           /\ \A e \in Emails : Account(e) => users'[e] # None
<1> DEFINE Grown(e, new) == /\ new \in User
                            /\ users' = [users EXCEPT ![e] = new]
<1>1. users \in Users
  BY DEF TypeInv, TypeOK
<1>2. ASSUME NEW e \in Emails, NEW new, Grown(e, new)
      PROVE  /\ users' \in Users
             /\ \A f \in Emails : Account(f) => users'[f] # None
  BY <1>1, <1>2, NoneIsNoValue DEF Users, Account
<1>3. CASE UNCHANGED users
  BY <1>1, <1>3 DEF Account
<1>4. ASSUME NEW r \in Requests, UpdateWrite(r)
      PROVE  \E e \in Emails : \E new : Grown(e, new)
  <2> DEFINE u == requests[r].user
             in == requests[r].input
             new == [users[u] EXCEPT !.role = IF in.role = "" THEN @ ELSE in.role,
                                     !.status = IF in.status = "" THEN @ ELSE in.status]
  <2>1. requests[r].at = "update:write" /\ RequestOK(requests[r], users, sessions)
    BY <1>4 DEF TypeInv, UpdateWrite, At
  <2>2. u \in Emails /\ users[u] \in User /\ in \in UpdateInputs
    BY <1>1, <2>1 DEF RequestOK, UpdateSteps, Users
  <2>3. new \in User
    BY <2>2, UpdateInputsAreDecoded DEF User
  <2>4. users' = [users EXCEPT ![u] = new]
    BY <1>1, <1>4, <2>2 DEF UpdateWrite, Users, User
  <2>5. QED
    BY <2>2, <2>3, <2>4
<1>5. ASSUME NEW r \in Requests, PasswordWrite(r)
      PROVE  \E e \in Emails : \E new : Grown(e, new)
  <2> DEFINE u == requests[r].user
             new == [users[u] EXCEPT !.password = requests[r].new]
  <2>1. requests[r].at = "password:write" /\ RequestOK(requests[r], users, sessions)
    BY <1>5 DEF TypeInv, PasswordWrite, At
  <2>2. u \in Emails /\ users[u] \in User /\ requests[r].new \in Passwords
    BY <1>1, <2>1 DEF RequestOK, Users
  <2>3. new \in User
    BY <2>2 DEF User
  <2>4. users' = [users EXCEPT ![u] = new]
    BY <1>5 DEF PasswordWrite
  <2>5. QED
    BY <2>2, <2>3, <2>4
<1>6. ASSUME NEW r \in Requests, NEW e \in Emails, NEW in \in CreateInputs, CreateUser(r, e, in)
      PROVE  \E new : Grown(e, new)
  <2> DEFINE new == [role |-> in.role, status |-> "active", password |-> in.password]
  <2>1. new \in User
    BY CreateInputsAreValid DEF User, Roles, Statuses
  <2>2. users' = [users EXCEPT ![e] = new]
    BY <1>6 DEF CreateUser
  <2>3. QED
    BY <2>1, <2>2
<1>7. ASSUME NEW i \in Instances, BootstrapCreate(i), ~UNCHANGED users
      PROVE  \E e \in Emails : \E new : Grown(e, new)
  <2> DEFINE new == [role |-> "admin", status |-> "active", password |-> BootstrapPassword]
  <2>1. new \in User
    BY BootstrapConfig DEF User, Roles, Statuses
  <2>2. users' = [users EXCEPT ![BootstrapEmail] = new]
    BY <1>7 DEF BootstrapCreate
  <2>3. QED
    BY <2>1, <2>2, BootstrapConfig
<1> HIDE DEF Grown
<1>8. QED
  BY <1>2, <1>3, <1>4, <1>5, <1>6, <1>7, UserWriter

\* Sessions stay, have their type and belong to accounts; so do access tokens.
LEMMA SessionsGrow ==
    ASSUME TypeInv, Next
    PROVE  /\ sessions' \in [SessionIds -> Session \cup {None}]
           /\ \A s \in SessionIds : Stored(s) => sessions'[s] # None
           /\ \A s \in SessionIds : sessions'[s] # None => Account(sessions'[s].user)
           /\ tokens' \subseteq Claims
           /\ \A t \in tokens' : Account(t.user)
<1> DEFINE Written(s, new) == /\ new \in Session
                              /\ Account(new.user)
                              /\ sessions' = [sessions EXCEPT ![s] = new]
           Sessions == /\ sessions' \in [SessionIds -> Session \cup {None}]
                       /\ \A s \in SessionIds : Stored(s) => sessions'[s] # None
                       /\ \A s \in SessionIds : sessions'[s] # None => Account(sessions'[s].user)
           Tokens == /\ tokens' \subseteq Claims
                     /\ \A t \in tokens' : Account(t.user)
<1>1. /\ sessions \in [SessionIds -> Session \cup {None}]
      /\ \A s \in SessionIds : Stored(s) => Account(sessions[s].user)
      /\ tokens \subseteq Claims
      /\ \A t \in tokens : Account(t.user)
  BY DEF TypeInv, TypeOK
<1>2. ASSUME NEW s \in SessionIds, NEW new, Written(s, new)
      PROVE  Sessions
  BY <1>1, <1>2, NoneIsNoValue DEF Stored
<1>3. ASSUME NEW s \in SessionIds, Stored(s), Revoke(s)
      PROVE  Sessions
  <2> DEFINE new == [sessions[s] EXCEPT !.revoked = TRUE]
  <2>1. new \in Session /\ Account(new.user)
    BY <1>1, <1>3 DEF Stored, Session
  <2>2. sessions' = [sessions EXCEPT ![s] = new]
    BY <1>3 DEF Revoke
  <2>3. QED
    BY <1>2, <2>1, <2>2
<1>4. ASSUME NEW s \in SessionIds, ExpireSession(s)
      PROVE  Sessions /\ Tokens
  <2> DEFINE new == [sessions[s] EXCEPT !.expired = TRUE]
  <2>1. new \in Session /\ Account(new.user)
    BY <1>1, <1>4 DEF ExpireSession, Stored, Session
  <2>2. sessions' = [sessions EXCEPT ![s] = new]
    BY <1>4 DEF ExpireSession
  <2>3. QED
    BY <1>1, <1>2, <1>4, <2>1, <2>2 DEF ExpireSession
<1>5. ASSUME NEW r \in Requests, LoginInsert(r) \/ RefreshInsert(r)
      PROVE  Sessions /\ Tokens
  <2>1. /\ requests[r].at \in {"login:insert", "refresh:insert"}
        /\ RequestOK(requests[r], users, sessions)
    BY <1>5 DEF TypeInv, LoginInsert, RefreshInsert, At
  <2>2. requests[r].user \in Emails /\ Account(requests[r].user) /\ requests[r].role \in Roles
    BY <2>1 DEF RequestOK, Account
  <2>3. PICK s \in SessionIds, login \in SessionIds : IssueTokens(r, s, login)
    <3>1. CASE LoginInsert(r)
      BY <3>1 DEF LoginInsert
    <3>2. CASE RefreshInsert(r)
      <4>1. requests[r].session \in SessionIds /\ Stored(requests[r].session)
        BY <2>1, <3>2 DEF RefreshInsert, At, RequestOK, RefreshSteps, Stored
      <4>2. sessions[requests[r].session].login \in SessionIds
        BY <1>1, <4>1 DEF Stored, Session
      <4>3. QED
        BY <3>2, <4>2 DEF RefreshInsert
    <3>3. QED
      BY <1>5, <3>1, <3>2
  <2> DEFINE new == [user |-> requests[r].user, login |-> login,
                     revoked |-> FALSE, expired |-> FALSE]
             token == [user |-> requests[r].user, role |-> requests[r].role]
  <2>4. new \in Session /\ Account(new.user) /\ token \in Claims
    BY <2>2, <2>3 DEF Session, Claims
  <2>5. sessions' = [sessions EXCEPT ![s] = new] /\ tokens' = tokens \cup {token}
    BY <2>3 DEF IssueTokens
  <2>6. Sessions
    BY <1>2, <2>4, <2>5
  <2>7. Tokens
    BY <1>1, <2>2, <2>4, <2>5
  <2>8. QED
    BY <2>6, <2>7
<1>6. ASSUME NEW r \in Requests, RefreshRevoke(r) \/ LogoutRevoke(r)
      PROVE  Sessions /\ Tokens
  <2>1. /\ requests[r].at \in {"refresh:revoke", "logout:revoke"}
        /\ RequestOK(requests[r], users, sessions)
    BY <1>6 DEF TypeInv, RefreshRevoke, LogoutRevoke, At
  <2>2. requests[r].session \in SessionIds /\ Stored(requests[r].session)
    BY <2>1 DEF RequestOK, RefreshSteps, Stored
  <2>3. Revoke(requests[r].session) /\ UNCHANGED tokens
    BY <1>6 DEF RefreshRevoke, LogoutRevoke
  <2>4. QED
    BY <1>1, <1>3, <2>2, <2>3
<1>7. CASE UNCHANGED <<sessions, tokens>>
  BY <1>1, <1>7 DEF Stored
<1>8. ASSUME NEW t \in tokens, ExpireToken(t)
      PROVE  Sessions /\ Tokens
  BY <1>1, <1>8 DEF ExpireToken, Stored
<1>9. QED
  BY <1>4, <1>5, <1>6, <1>7, <1>8, SessionWriter

\* What a request knows outlives what others write.
LEMMA KnowledgeKept ==
    ASSUME NEW req, NEW us, NEW ss, NEW us2, NEW ss2, RequestOK(req, us, ss),
           \A e \in Emails : us[e] # None => us2[e] # None,
           \A s \in SessionIds : ss[s] # None => ss2[s] # None
    PROVE  RequestOK(req, us2, ss2)
  BY DEF RequestOK

\* Every step gives the request it serves what its next call needs.
LEMMA RequestsStep ==
    ASSUME TypeInv, Next
    PROVE  /\ requests' \in [Requests -> Request]
           /\ \A r \in Requests : RequestOK(requests'[r], users, sessions)
<1> DEFINE OK(req) == RequestOK(req, users, sessions)
           Requests2 == /\ requests' \in [Requests -> Request]
                        /\ \A r \in Requests : OK(requests'[r])
<1> SUFFICES Requests2
  OBVIOUS
<1>1. /\ requests \in [Requests -> Request]
      /\ \A r \in Requests : OK(requests[r])
      /\ users \in Users
      /\ sessions \in [SessionIds -> Session \cup {None}]
      /\ \A s \in SessionIds : Stored(s) => Account(sessions[s].user)
      /\ tokens \subseteq Claims
      /\ \A t \in tokens : Account(t.user)
  BY DEF TypeInv, TypeOK
<1>2. OK(Idle)
  BY DEF RequestOK, Idle, Request, Steps, UpdateSteps, RefreshSteps
<1>3. ASSUME NEW r \in Requests, NEW req, OK(req), requests' = [requests EXCEPT ![r] = req]
      PROVE  Requests2
  BY <1>1, <1>3 DEF RequestOK
<1>4. ASSUME NEW r \in Requests, Finish(r)
      PROVE  Requests2
  BY <1>2, <1>3, <1>4 DEF Finish
<1>5. CASE UNCHANGED requests
  BY <1>1, <1>5
<1>6. ASSUME NEW r \in Requests, Receive(r)
      PROVE  Requests2
  <2>1. ASSUME NEW req, OK(req), Accept(r, req)
        PROVE  Requests2
    BY <1>3, <2>1 DEF Accept
  <2>2. ASSUME NEW e \in Emails, NEW in \in UpdateInputs, UpdateReceive(r, e, in)
        PROVE  Requests2
    <3> DEFINE req == [Idle EXCEPT
                         !.at = IF MayRemoveAdmin(in) THEN "update:find" ELSE "update:write",
                         !.user = e, !.role = "admin", !.input = in]
    <3>1. OK(req)
      BY <2>2 DEF UpdateReceive, Account, RequestOK, Idle, Request, Steps, UpdateSteps,
                  RefreshSteps, Roles
    <3>2. QED
      BY <2>1, <2>2, <3>1 DEF UpdateReceive
  <2>3. ASSUME NEW e \in Emails, NEW p \in Passwords, LoginReceive(r, e, p)
        PROVE  Requests2
    <3> DEFINE req == [Idle EXCEPT !.at = "login:insert", !.user = e, !.role = users[e].role,
                                   !.current = p]
    <3>1. Account(e) /\ users[e].role \in Roles
      BY <1>1, <2>3 DEF LoginReceive, Account, Users, User
    <3>2. OK(req)
      BY <3>1 DEF Account, RequestOK, Idle, Request, Steps, UpdateSteps, RefreshSteps
    <3>3. QED
      BY <2>1, <2>3, <3>2 DEF LoginReceive
  <2>4. ASSUME NEW s \in SessionIds, NEW step \in {"refresh:load", "logout:revoke"}, Stored(s),
               Accept(r, [Idle EXCEPT !.at = step, !.user = sessions[s].user, !.session = s])
        PROVE  Requests2
    <3> DEFINE req == [Idle EXCEPT !.at = step, !.user = sessions[s].user, !.session = s]
    <3>1. sessions[s].user \in Emails /\ Account(sessions[s].user)
      BY <1>1, <2>4 DEF Stored, Session
    <3>2. OK(req)
      BY <2>4, <3>1 DEF Account, Stored, RequestOK, Idle, Request, Steps, UpdateSteps, RefreshSteps
    <3>3. QED
      BY <2>1, <2>4, <3>2
  <2>5. ASSUME NEW t \in tokens, NEW current \in Passwords, NEW new \in Passwords,
               PasswordReceive(r, t, current, new)
        PROVE  Requests2
    <3> DEFINE req == [Idle EXCEPT !.at = "password:write", !.user = t.user, !.role = t.role,
                                   !.current = current, !.new = new]
    <3>1. t.user \in Emails /\ t.role \in Roles /\ Account(t.user)
      BY <1>1 DEF Claims
    <3>2. OK(req)
      BY <3>1 DEF Account, RequestOK, Idle, Request, Steps, UpdateSteps, RefreshSteps
    <3>3. QED
      BY <2>1, <2>5, <3>2 DEF PasswordReceive
  <2>6. QED
    BY <1>5, <1>6, <2>2, <2>3, <2>4, <2>5
       DEF Receive, CreateUser, RefreshReceive, LogoutReceive
<1>7. ASSUME NEW r \in Requests, Serve(r)
      PROVE  Requests2
  <2> DEFINE old == requests[r]
  <2>1. OK(old) /\ old \in Request
    BY <1>1
  <2>2. CASE UpdateFind(r) \/ UpdateCount(r)
    <3>1. old.at \in UpdateSteps
      BY <2>2 DEF UpdateFind, UpdateCount, At, UpdateSteps
    <3>2. ASSUME NEW step \in UpdateSteps, Advance(r, step)
          PROVE  Requests2
      <4>1. requests' = [requests EXCEPT ![r] = [old EXCEPT !.at = step]]
        BY <3>2 DEF Advance
      <4>2. OK([old EXCEPT !.at = step])
        BY <2>1, <3>1 DEF RequestOK, Request, Steps, UpdateSteps, RefreshSteps
      <4>3. QED
        BY <1>3, <4>1, <4>2
    <3>3. QED
      BY <1>4, <2>2, <3>2 DEF UpdateFind, UpdateCount, UpdateSteps
  <2>3. CASE RefreshLoad(r)
    <3> DEFINE req == [old EXCEPT !.at = "refresh:revoke", !.role = users[old.user].role]
    <3>1. old.at = "refresh:load"
      BY <2>3 DEF RefreshLoad, At
    <3>2. users[old.user].role \in Roles
      BY <1>1, <2>1, <3>1 DEF RequestOK, Users, User
    <3>3. OK(req)
      BY <2>1, <3>1, <3>2 DEF RequestOK, Request, Steps, UpdateSteps, RefreshSteps
    <3>4. Finish(r) \/ requests' = [requests EXCEPT ![r] = req]
      BY <2>3 DEF RefreshLoad
    <3>5. QED
      BY <1>3, <1>4, <3>3, <3>4
  <2>4. CASE RefreshRevoke(r)
    <3> DEFINE req == [old EXCEPT !.at = "refresh:insert"]
    <3>1. old.at = "refresh:revoke" /\ requests' = [requests EXCEPT ![r] = req]
      BY <2>4 DEF RefreshRevoke, At, Advance
    <3>2. OK(req)
      BY <2>1, <3>1 DEF RequestOK, Request, Steps, UpdateSteps, RefreshSteps
    <3>3. QED
      BY <1>3, <3>1, <3>2
  <2>5. QED
    BY <1>4, <1>7, <2>2, <2>3, <2>4
       DEF Serve, UpdateWrite, LoginInsert, RefreshInsert, IssueTokens, LogoutRevoke,
           PasswordWrite
<1>8. ASSUME NEW i \in Instances, Restart(i)
      PROVE  Requests2
  <2>1. requests' = [r \in Requests |-> IF Home[r] = i THEN Idle ELSE requests[r]]
    BY <1>8 DEF Restart
  <2>2. Idle \in Request
    BY <1>2 DEF RequestOK
  <2>3. QED
    BY <1>1, <1>2, <2>1, <2>2
<1>9. QED
  BY <1>4, <1>5, <1>6, <1>7, <1>8
     DEF Next, Abort, Start, BootstrapCount, BootstrapCreate, BootstrapFail, ExpireSession,
         ExpireToken

\* The history variables keep their types.
LEMMA HistoryStep ==
    ASSUME TypeInv, Next
    PROVE  /\ during' \in [Requests -> SUBSET User]
           /\ contended' \in BOOLEAN
           /\ shared' \subseteq SessionIds
<1>1. Observe
  BY Observed
<1>2. ASSUME NEW r \in Requests, requests'[r].at # "idle"
      PROVE  users'[requests'[r].user] \in User
  <2>1. requests'[r].user \in Emails /\ users[requests'[r].user] # None
    BY <1>2, RequestsStep DEF RequestOK
  <2>2. QED
    BY <2>1, UsersGrow DEF Account, Users
<1>3. during \in [Requests -> SUBSET User] /\ contended \in BOOLEAN /\ shared \subseteq SessionIds
  BY DEF TypeInv, TypeOK
<1>4. during' \in [Requests -> SUBSET User]
  BY <1>1, <1>2, <1>3 DEF Observe
<1>5. QED
  BY <1>1, <1>3, <1>4 DEF Observe

LEMMA TypeInit == Init => TypeInv
<1> SUFFICES ASSUME Init
             PROVE  TypeInv
  OBVIOUS
<1>1. RequestOK(Idle, users, sessions)
  BY DEF RequestOK, Idle, Request, Steps, UpdateSteps, RefreshSteps
<1>2. \A r \in Requests : requests[r] = Idle
  BY DEF Init
<1>3. requests \in [Requests -> Request]
  BY <1>1 DEF Init, RequestOK
<1>4. \A s \in SessionIds : ~Stored(s)
  BY DEF Init, Stored
<1>5. \A r \in Requests : requests[r].at = "idle"
  BY <1>2 DEF Idle
<1>6. /\ users \in Users
      /\ sessions \in [SessionIds -> Session \cup {None}]
      /\ during \in [Requests -> SUBSET User]
  BY InitialUsersAreUsers DEF Init
<1>7. QED
  BY <1>1, <1>2, <1>3, <1>4, <1>5, <1>6 DEF Init, TypeInv, TypeOK, At, RefreshSteps

LEMMA TypeStep == TypeInv /\ [Next]_vars => TypeInv'
<1>1. CASE TypeInv /\ UNCHANGED vars
  BY <1>1 DEF vars, history, TypeInv, TypeOK, RequestOK, At, Stored, Account
<1>2. CASE TypeInv /\ Next
  <2>1. /\ requests' \in [Requests -> Request]
        /\ \A r \in Requests : RequestOK(requests'[r], users, sessions)
    BY <1>2, RequestsStep
  <2>2. /\ users' \in Users
        /\ \A e \in Emails : users[e] # None => users'[e] # None
    BY <1>2, UsersGrow DEF Account
  <2>3. /\ sessions' \in [SessionIds -> Session \cup {None}]
        /\ \A s \in SessionIds : sessions[s] # None => sessions'[s] # None
        /\ \A s \in SessionIds : sessions'[s] # None => users[sessions'[s].user] # None
        /\ tokens' \subseteq Claims
        /\ \A t \in tokens' : users[t.user] # None
    BY <1>2, SessionsGrow DEF Stored, Account
  <2>4. \A r \in Requests : RequestOK(requests'[r], users', sessions')
    BY <2>1, <2>2, <2>3, KnowledgeKept
  <2>5. instances' \in [Instances -> {"count", "create", "up"}]
    <3>1. instances \in [Instances -> {"count", "create", "up"}]
      BY <1>2 DEF TypeInv, TypeOK
    <3>2. ASSUME NEW i \in Instances, Start(i) \/ Restart(i)
          PROVE  instances' \in [Instances -> {"count", "create", "up"}]
      BY <3>1, <3>2 DEF Start, Restart, BootstrapCount, BootstrapCreate, BootstrapFail
    <3>3. ASSUME NEW r \in Requests, Receive(r) \/ Serve(r) \/ Abort(r)
          PROVE  UNCHANGED instances
      BY <3>3 DEF Receive, Serve, Abort, CreateUser, UpdateReceive, LoginReceive,
                  RefreshReceive, LogoutReceive, PasswordReceive, UpdateFind, UpdateCount,
                  UpdateWrite, LoginInsert, RefreshLoad, RefreshRevoke, RefreshInsert,
                  IssueTokens, LogoutRevoke, PasswordWrite
    <3>4. QED
      BY <1>2, <3>1, <3>2, <3>3 DEF Next, ExpireSession, ExpireToken
  <2>6. \A s \in SessionIds : sessions'[s] # None => users'[sessions'[s].user] # None
    BY <2>2, <2>3 DEF Session
  <2>7. \A t \in tokens' : users'[t.user] # None
    BY <2>2, <2>3 DEF Claims
  <2>8. \A r \in Requests : requests'[r].at # "idle" => users'[requests'[r].user] # None
    BY <2>4 DEF RequestOK
  <2>9. \A r \in Requests : \/ requests'[r].at = "logout:revoke"
                            \/ requests'[r].at \in RefreshSteps
                            => sessions'[requests'[r].session] # None
    BY <2>4 DEF RequestOK
  <2>10. TypeOK'
    BY <1>2, <2>1, <2>2, <2>3, <2>5, <2>6, <2>7, <2>8, <2>9, HistoryStep
       DEF TypeOK, At, Stored, Account
  <2>11. QED
    BY <2>4, <2>10 DEF TypeInv
<1>3. QED
  BY <1>1, <1>2

\* Every reachable state is well typed, and every request in flight finds the account
\* and the session it names (application/auth, application/user).
THEOREM AccountTypes == Spec => []TypeOK
<1>1. TypeInv => TypeOK
  BY DEF TypeInv
<1>2. QED
  BY <1>1, TypeInit, TypeStep, PTL DEF Spec

-----------------------------------------------------------------------------
\* The last admin.

LEMMA AdminInit == Init => AdminInv
  BY TypeInit DEF Init, AdminInv, AdminPower, Guarding, Idle, UpdateSteps

\* Two guarded updates at once are noticed.
LEMMA OneGuarding ==
    ASSUME Next, ~contended', NEW q \in Requests, NEW r \in Requests, Guarding(q)', Guarding(r)'
    PROVE  q = r /\ ~contended
  BY Observed DEF Observe

\* Only a guarded update takes an account out of the admins.
LEMMA AdminsKept ==
    ASSUME TypeInv, Next
    PROVE  \/ Admins \subseteq Admins'
           \/ \E r \in Requests : /\ UpdateWrite(r)
                                  /\ Guarding(r)
                                  /\ \A e \in Admins : e # requests[r].user => e \in Admins'
<1>1. users \in Users
  BY DEF TypeInv, TypeOK
<1>2. CASE UNCHANGED users
  BY <1>2 DEF Admins, Account
<1>3. ASSUME NEW r \in Requests, UpdateWrite(r)
      PROVE  \/ Admins \subseteq Admins'
             \/ Guarding(r) /\ \A e \in Admins : e # requests[r].user => e \in Admins'
  <2> DEFINE u == requests[r].user
             in == requests[r].input
  <2>1. requests[r].at = "update:write" /\ RequestOK(requests[r], users, sessions)
    BY <1>3 DEF TypeInv, UpdateWrite, At
  <2>2. u \in Emails /\ users[u] \in User
    BY <1>1, <2>1 DEF RequestOK, Users
  <2>3. \A e \in Emails : e # u => users'[e] = users[e]
    BY <1>1, <1>3 DEF UpdateWrite, Users
  <2>4. \A e \in Admins : e # u => e \in Admins'
    BY <2>3 DEF Admins, Account
  <2>5. ASSUME in.role \in {"", "admin"}, u \in Admins
        PROVE  u \in Admins'
    <3>1. users'[u].role = "admin"
      BY <1>1, <1>3, <2>2, <2>5 DEF UpdateWrite, Users, User, Admins
    <3>2. users'[u] # None
      BY <2>2, UsersGrow, <2>5 DEF Admins, Account
    <3>3. QED
      BY <2>2, <3>1, <3>2 DEF Admins, Account
  <2>6. CASE in.role \in {"", "admin"}
    BY <2>4, <2>5, <2>6
  <2>7. CASE in.role \notin {"", "admin"}
    BY <2>1, <2>4, <2>7 DEF Guarding, MayRemoveAdmin, UpdateSteps
  <2>8. QED
    BY <2>6, <2>7
<1>4. ASSUME NEW r \in Requests, PasswordWrite(r)
      PROVE  Admins \subseteq Admins'
  <2>1. \A e \in Emails : Account(e) => users'[e].role = users[e].role
    BY <1>1, <1>4 DEF PasswordWrite, Users, User, Account
  <2>2. QED
    BY <2>1, UsersGrow DEF Admins, Account
<1>5. ASSUME NEW r \in Requests, NEW e \in Emails, NEW in \in CreateInputs, CreateUser(r, e, in)
      PROVE  Admins \subseteq Admins'
  BY <1>1, <1>5 DEF CreateUser, Users, Admins, Account
<1>6. ASSUME NEW i \in Instances, BootstrapCreate(i)
      PROVE  Admins \subseteq Admins'
  BY <1>1, <1>6 DEF BootstrapCreate, Users, Admins, Account
<1>7. QED
  BY <1>2, <1>3, <1>4, <1>5, <1>6, UserWriter

\* Until updates overlap, a step from a state with an admin leads to one.
LEMMA AnAdminRemains ==
    ASSUME AdminInv, Next, ~contended', Admins # {}
    PROVE  Admins' # {}
<1>1. TypeInv /\ ~contended
  BY Observed DEF AdminInv, Observe
<1>2. ASSUME NEW r \in Requests, UpdateWrite(r), Guarding(r),
             \A e \in Admins : e # requests[r].user => e \in Admins'
      PROVE  Admins' # {}
  BY <1>1, <1>2 DEF AdminInv, UpdateWrite
<1>3. QED
  BY <1>1, <1>2, AdminsKept

\* The count tells whether there is another admin.
LEMMA AnotherAdmin ==
    ASSUME NEW u, ~(CountByRole <= 1)
    PROVE  \E e \in Admins : e # u
<1>1. SUFFICES ASSUME Admins \subseteq {u}
               PROVE  FALSE
  OBVIOUS
<1>2. IsFiniteSet({u}) /\ Cardinality({u}) = 1
  BY FS_Singleton
<1>3. Cardinality(Admins) <= 1 
  BY <1>1, <1>2, FS_Subset
<1>4. QED
  BY <1>3 DEF CountByRole

\* The steps of the other requests leave a request alone, or end it.
LEMMA OtherRequests ==
    ASSUME TypeInv, NEW r \in Requests, Receive(r) \/ Serve(r) \/ Abort(r)
    PROVE  \A q \in Requests \ {r} : requests'[q] = requests[q]
<1>1. requests \in [Requests -> Request]
  BY DEF TypeInv, TypeOK
<1>2. ASSUME Receive(r)
      PROVE  \A q \in Requests \ {r} : requests'[q] = requests[q]
  BY <1>1, <1>2 DEF Receive, CreateUser, UpdateReceive, LoginReceive, RefreshReceive,
                    LogoutReceive, PasswordReceive, Accept
<1>3. ASSUME Serve(r)
      PROVE  \A q \in Requests \ {r} : requests'[q] = requests[q]
  BY <1>1, <1>3 DEF Serve, UpdateFind, UpdateCount, UpdateWrite, LoginInsert, RefreshLoad,
                    RefreshRevoke, RefreshInsert, IssueTokens, LogoutRevoke, PasswordWrite,
                    Advance, Finish
<1>4. QED
  BY <1>1, <1>2, <1>3 DEF Abort, Finish

\* Nobody comes by the power of an admin but from an admin account, or a token that has it.
LEMMA PowerSource ==
    ASSUME TypeInv, Next, AdminPower'
    PROVE  AdminPower \/ Admins # {}
<1>1. /\ requests \in [Requests -> Request]
      /\ \A r \in Requests : RequestOK(requests[r], users, sessions)
  BY DEF TypeInv, TypeOK
<1>2. ASSUME NEW t \in tokens', t.role = "admin", t \notin tokens
      PROVE  AdminPower
  <2>1. PICK r \in Requests : LoginInsert(r) \/ RefreshInsert(r)
    BY <1>2, SessionWriter DEF RefreshRevoke, LogoutRevoke, ExpireSession, ExpireToken
  <2>2. /\ requests[r].at \in {"login:insert", "refresh:insert"}
        /\ tokens' = tokens \cup {[user |-> requests[r].user, role |-> requests[r].role]}
    BY <2>1 DEF LoginInsert, RefreshInsert, IssueTokens, At
  <2>3. requests[r].role = "admin"
    BY <1>2, <2>2
  <2>4. QED
    BY <2>2, <2>3 DEF AdminPower
<1>3. ASSUME NEW q \in Requests, requests'[q].at # "idle", requests'[q].role = "admin",
             requests'[q] # requests[q]
      PROVE  AdminPower \/ Admins # {}
  <2>1. ASSUME NEW r \in Requests, Receive(r), r = q
        PROVE  AdminPower \/ Admins # {}
    <3>1. ASSUME NEW e \in Emails, NEW in \in UpdateInputs, UpdateReceive(r, e, in)
          PROVE  AdminPower
      BY <3>1 DEF UpdateReceive, AdminTokens, AdminPower
    <3>2. ASSUME NEW e \in Emails, NEW p \in Passwords, LoginReceive(r, e, p)
          PROVE  Admins # {}
      <4>1. Account(e) /\ requests'[r].role = users[e].role
        BY <1>1, <3>2 DEF LoginReceive, Accept, Idle
      <4>2. QED
        BY <1>3, <2>1, <4>1 DEF Admins
    <3>3. ASSUME NEW s \in SessionIds, RefreshReceive(r, s) \/ LogoutReceive(r, s)
          PROVE  FALSE
      <4>1. requests'[r].role = None
        BY <1>1, <3>3 DEF RefreshReceive, LogoutReceive, Accept, Idle
      <4>2. QED
        BY <1>3, <2>1, <4>1, NoneIsNoValue DEF Roles
    <3>4. ASSUME NEW t \in tokens, NEW current \in Passwords, NEW new \in Passwords,
                 PasswordReceive(r, t, current, new)
          PROVE  AdminPower
      <4>1. requests'[r].role = t.role
        BY <1>1, <3>4 DEF PasswordReceive, Accept, Idle
      <4>2. QED
        BY <1>3, <2>1, <4>1 DEF AdminPower
    <3>5. QED
      BY <1>3, <2>1, <3>1, <3>2, <3>3, <3>4 DEF Receive, CreateUser
  <2>2. ASSUME NEW r \in Requests, Serve(r), r = q
        PROVE  AdminPower \/ Admins # {}
    <3>1. CASE RefreshLoad(r)
      <4>1. requests[r].at = "refresh:load"
        BY <3>1 DEF RefreshLoad, At
      <4>2. Account(requests[r].user) /\ requests[r].user \in Emails
        BY <1>1, <4>1 DEF RequestOK, Account
      <4>3. requests'[r].at # "idle" => requests'[r].role = users[requests[r].user].role
        BY <1>1, <3>1 DEF RefreshLoad, Finish, Idle, Request
      <4>4. QED
        BY <1>3, <2>2, <4>2, <4>3 DEF Admins
    <3>2. CASE UpdateFind(r) \/ UpdateCount(r) \/ RefreshRevoke(r)
      <4>1. requests[r].at # "idle"
        BY <3>2 DEF UpdateFind, UpdateCount, RefreshRevoke, At
      <4>2. ASSUME NEW step, Advance(r, step)
            PROVE  requests'[r].role = requests[r].role
        BY <1>1, <4>2 DEF Advance, Request
      <4>3. Finish(r) \/ \E step : Advance(r, step)
        BY <3>2 DEF UpdateFind, UpdateCount, RefreshRevoke
      <4>4. QED
        BY <1>1, <1>3, <2>2, <4>1, <4>2, <4>3 DEF AdminPower, Finish, Idle
    <3>3. CASE Finish(r)
      BY <1>1, <1>3, <2>2, <3>3 DEF Finish, Idle
    <3>4. QED
      BY <2>2, <3>1, <3>2, <3>3
         DEF Serve, UpdateWrite, LoginInsert, RefreshInsert, IssueTokens, LogoutRevoke,
             PasswordWrite
  <2>3. ASSUME NEW r \in Requests, Abort(r), r = q
        PROVE  FALSE
    BY <1>1, <1>3, <2>3 DEF Abort, Finish, Idle
  <2>4. ASSUME NEW i \in Instances, Restart(i)
        PROVE  FALSE
    BY <1>3, <2>4 DEF Restart, Idle
  <2>5. ASSUME UNCHANGED requests
        PROVE  FALSE
    BY <1>3, <2>5
  <2>6. QED
    BY <1>3, <2>1, <2>2, <2>3, <2>4, <2>5, OtherRequests
       DEF Next, Start, BootstrapCount, BootstrapCreate, BootstrapFail, ExpireSession,
           ExpireToken
<1>4. QED
  BY <1>2, <1>3 DEF AdminPower

\* A step that brings a guarded update to its write, or leaves it there.
LEMMA GuardPassed ==
    ASSUME AdminInv, Next, ~contended, NEW r \in Requests, Guarding(r)', At(r, "update:write")'
    PROVE  \E e \in Admins : e # requests'[r].user
<1>1. /\ TypeInv
      /\ requests \in [Requests -> Request]
      /\ \A q \in Requests : RequestOK(requests[q], users, sessions)
      /\ AdminPower => Admins # {}
  BY DEF AdminInv, TypeInv, TypeOK
<1>2. CASE requests'[r] = requests[r]
  BY <1>2 DEF AdminInv, Guarding, At
<1>3. ASSUME NEW in \in UpdateInputs, NEW e \in Emails, UpdateReceive(r, e, in)
      PROVE  FALSE
  <2>1. /\ requests'[r].at = IF MayRemoveAdmin(in) THEN "update:find" ELSE "update:write"
        /\ requests'[r].input = in
    BY <1>1, <1>3 DEF UpdateReceive, Accept, Idle
  <2>2. QED
    BY <2>1 DEF Guarding, At
<1>4. ASSUME Receive(r), requests'[r] # requests[r]
      PROVE  FALSE
  BY <1>1, <1>3, <1>4 DEF Receive, CreateUser, LoginReceive, RefreshReceive, LogoutReceive,
                          PasswordReceive, Accept, Idle, At
<1>5. ASSUME UpdateFind(r) \/ UpdateCount(r)
      PROVE  \E e \in Admins : e # requests'[r].user
  <2>1. requests[r].at \in {"update:find", "update:count"}
    BY <1>5 DEF UpdateFind, UpdateCount, At
  <2>2. requests[r].role = "admin" /\ requests[r].user \in Emails
    BY <1>1, <2>1 DEF RequestOK, UpdateSteps
  <2>3. Admins # {}
    BY <1>1, <2>1, <2>2 DEF AdminPower
  <2>4. Advance(r, "update:write")
    BY <1>1, <1>5 DEF UpdateFind, UpdateCount, Advance, Finish, Idle, At, Request
  <2>5. requests'[r].user = requests[r].user
    BY <1>1, <2>4 DEF Advance, Request
  <2>6. CASE UpdateFind(r)
    <3>1. users[requests[r].user].role # "admin"
      BY <1>1, <2>4, <2>6 DEF UpdateFind, Advance, At, Request
    <3>2. QED
      BY <2>3, <2>5, <3>1 DEF Admins
  <2>7. CASE UpdateCount(r)
    <3>1. ~(CountByRole <= 1)
      BY <1>1, <2>4, <2>7 DEF UpdateCount, Advance, Finish, Idle, At, Request
    <3>2. QED
      BY <2>5, <3>1, AnotherAdmin
  <2>8. QED
    BY <1>5, <2>6, <2>7
<1>6. ASSUME RefreshLoad(r) \/ RefreshRevoke(r)
      PROVE  FALSE
  <2>1. CASE RefreshLoad(r)
    BY <1>1, <2>1 DEF RefreshLoad, Finish, Idle, At, Request
  <2>2. CASE RefreshRevoke(r)
    BY <1>1, <2>2 DEF RefreshRevoke, Advance, At, Request
  <2>3. QED
    BY <1>6, <2>1, <2>2
<1>7. ASSUME Finish(r)
      PROVE  FALSE
  BY <1>1, <1>7 DEF Finish, Idle, At
<1>8. ASSUME Serve(r)
      PROVE  \E e \in Admins : e # requests'[r].user
  BY <1>5, <1>6, <1>7, <1>8 DEF Serve, UpdateWrite, LoginInsert, RefreshInsert, IssueTokens,
                                LogoutRevoke, PasswordWrite
<1>9. ASSUME NEW i \in Instances, Restart(i), requests'[r] # requests[r]
      PROVE  FALSE
  BY <1>9 DEF Restart, Idle, At
<1>10. QED
  BY <1>1, <1>2, <1>4, <1>7, <1>8, <1>9, OtherRequests
     DEF Next, Abort, Start, BootstrapCount, BootstrapCreate, BootstrapFail, ExpireSession,
         ExpireToken

LEMMA AdminStep == AdminInv /\ [Next]_vars => AdminInv'
<1>1. CASE AdminInv /\ UNCHANGED vars
  <2>1. TypeInv'
    BY <1>1, TypeStep DEF AdminInv
  <2>2. QED
    BY <1>1, <2>1 DEF vars, history, AdminInv, AdminPower, Guarding, Admins, Account, At
<1>2. ASSUME AdminInv, Next
      PROVE  AdminInv'
  <2>1. TypeInv /\ TypeInv'
    BY <1>2, TypeStep DEF AdminInv
  <2>2. ASSUME ~contended'
        PROVE  /\ AdminPower' => Admins' # {}
               /\ \A q, r \in Requests : Guarding(q)' /\ Guarding(r)' => q = r
               /\ \A r \in Requests : Guarding(r)' /\ At(r, "update:write")'
                    => \E e \in Admins' : e # requests'[r].user
    <3>1. ~contended
      BY <1>2, <2>2, Observed DEF Observe
    <3>2. AdminPower' => Admins' # {}
      BY <1>2, <2>1, <2>2, <3>1, PowerSource, AnAdminRemains DEF AdminInv
    <3>3. \A q, r \in Requests : Guarding(q)' /\ Guarding(r)' => q = r
      BY <1>2, <2>2, OneGuarding
    <3>4. ASSUME NEW r \in Requests, Guarding(r)', At(r, "update:write")'
          PROVE  \E e \in Admins' : e # requests'[r].user
      <4>1. PICK e \in Admins : e # requests'[r].user
        BY <1>2, <3>1, <3>4, GuardPassed
      <4>2. CASE Admins \subseteq Admins'
        BY <4>1, <4>2
      <4>3. ASSUME NEW q \in Requests, UpdateWrite(q), Guarding(q)
            PROVE  FALSE
        <5>1. requests \in [Requests -> Request]
          BY <2>1 DEF TypeInv, TypeOK
        <5>2. requests'[q].at = "idle"
          BY <4>3, <5>1 DEF UpdateWrite, Finish, Idle
        <5>3. q # r
          BY <3>4, <5>2 DEF At
        <5>4. requests'[r] = requests[r]
          BY <4>3, <5>1, <5>3 DEF UpdateWrite, Finish
        <5>5. Guarding(r)
          BY <3>4, <5>4 DEF Guarding
        <5>6. QED
          BY <1>2, <3>1, <4>3, <5>3, <5>5 DEF AdminInv
      <4>4. QED
        BY <1>2, <2>1, <4>2, <4>3, AdminsKept
    <3>5. QED
      BY <3>2, <3>3, <3>4
  <2>3. QED
    BY <2>1, <2>2 DEF AdminInv
<1>3. QED
  BY <1>1, <1>2

\* guardLastAdmin (application/user/service.go) keeps an admin in every system that
\* has one, as long as guarded updates do not overlap: for any number of users and
\* of other requests at once, through failures and restarts.
THEOREM LastAdminKept == Spec => AdminRemains
<1>1. AdminInv /\ [Next]_vars => [~contended' /\ Admins # {} => Admins' # {}]_vars
  BY AnAdminRemains
<1>2. QED
  BY <1>1, AdminInit, AdminStep, PTL DEF Spec, AdminRemains

-----------------------------------------------------------------------------
\* What a request has learned from the account states seen while it ran.

Known(req, seen) ==
    /\ req.at = "login:insert"
         => \E a \in seen : a.status # "disabled" /\ a.role = req.role /\ a.password = req.current
    /\ req.at \in {"refresh:revoke", "refresh:insert"}
         => \E a \in seen : a.status # "disabled" /\ a.role = req.role
    /\ req.at = "password:write" => \E a \in seen : a.password = req.current

KnownInv ==
    /\ TypeInv
    /\ \A r \in Requests : Known(requests[r], during[r])

LEMMA KnownGrows ==
    ASSUME NEW req, NEW seen, NEW seen2, seen \subseteq seen2, Known(req, seen)
    PROVE  Known(req, seen2)
  BY DEF Known

\* A request in flight remembers the account as every step leaves it.
LEMMA SeenAfter ==
    ASSUME Next, NEW r \in Requests, requests'[r].at # "idle"
    PROVE  during'[r] = during[r] \cup {users'[requests'[r].user]}
  BY Observed DEF Observe

\* Only its own calls bring a request to another step.
LEMMA OwnSteps ==
    ASSUME TypeInv, Next, NEW r \in Requests, requests'[r] # requests[r]
    PROVE  requests'[r].at = "idle" \/ Receive(r) \/ Serve(r)
<1>1. requests \in [Requests -> Request]
  BY DEF TypeInv, TypeOK
<1>2. ASSUME Abort(r)
      PROVE  requests'[r].at = "idle"
  BY <1>1, <1>2 DEF Abort, Finish, Idle
<1>3. ASSUME NEW i \in Instances, Restart(i)
      PROVE  requests'[r].at = "idle"
  BY <1>3 DEF Restart, Idle
<1>4. QED
  BY <1>2, <1>3, OtherRequests
     DEF Next, Start, BootstrapCount, BootstrapCreate, BootstrapFail, ExpireSession, ExpireToken

\* The steps that end with a decision about an account.
LEMMA Learned ==
    ASSUME KnownInv, Next, NEW r \in Requests, Receive(r) \/ Serve(r),
           requests'[r] # requests[r]
    PROVE  Known(requests'[r], during'[r])
<1> DEFINE req == requests'[r]
           account == users'[req.user]
<1>1. /\ requests \in [Requests -> Request]
      /\ users \in Users
      /\ RequestOK(requests[r], users, sessions)
      /\ Known(requests[r], during[r])
  BY DEF KnownInv, TypeInv, TypeOK
<1>2. CASE req.at \notin {"login:insert", "refresh:revoke", "refresh:insert", "password:write"}
  BY <1>2 DEF Known
<1>3. req.at # "idle" => account \in during'[r] /\ during[r] \subseteq during'[r]
  BY SeenAfter
<1>4. ASSUME NEW e \in Emails, NEW p \in Passwords, LoginReceive(r, e, p)
      PROVE  Known(req, during'[r])
  <2>1. req = [Idle EXCEPT !.at = "login:insert", !.user = e, !.role = users[e].role,
                           !.current = p]
    BY <1>1, <1>4 DEF LoginReceive, Accept
  <2>2. req.at = "login:insert" /\ req.user = e /\ req.role = users[e].role /\ req.current = p
    BY <2>1 DEF Idle
  <2>3. account = users[e] /\ users[e].status # "disabled" /\ users[e].password = p
    BY <1>4, <2>2 DEF LoginReceive, Disabled
  <2>4. QED
    BY <1>3, <2>2, <2>3 DEF Known
<1>5. ASSUME NEW t \in tokens, NEW current \in Passwords, NEW new \in Passwords,
             PasswordReceive(r, t, current, new)
      PROVE  Known(req, during'[r])
  <2>1. req = [Idle EXCEPT !.at = "password:write", !.user = t.user, !.role = t.role,
                           !.current = current, !.new = new]
    BY <1>1, <1>5 DEF PasswordReceive, Accept
  <2>2. req.at = "password:write" /\ req.user = t.user /\ req.current = current
    BY <2>1 DEF Idle
  <2>3. account.password = current
    BY <1>5, <2>2 DEF PasswordReceive
  <2>4. QED
    BY <1>3, <2>2, <2>3 DEF Known
<1>6. CASE Receive(r)
  <2>1. ASSUME NEW e \in Emails, NEW in \in UpdateInputs, UpdateReceive(r, e, in)
        PROVE  req.at \in UpdateSteps
    BY <1>1, <2>1 DEF UpdateReceive, Accept, Idle, UpdateSteps
  <2>2. ASSUME NEW s \in SessionIds, RefreshReceive(r, s) \/ LogoutReceive(r, s)
        PROVE  req.at \in {"refresh:load", "logout:revoke"}
    BY <1>1, <2>2 DEF RefreshReceive, LogoutReceive, Accept, Idle
  <2>3. QED
    BY <1>2, <1>4, <1>5, <1>6, <2>1, <2>2 DEF Receive, CreateUser, UpdateSteps
<1>7. CASE RefreshLoad(r) /\ req.at # "idle"
  <2>1. requests[r].at = "refresh:load"
    BY <1>7 DEF RefreshLoad, At
  <2>2. ~Disabled(requests[r].user)
    BY <1>1, <1>7 DEF RefreshLoad, Finish, Idle
  <2>3. req = [requests[r] EXCEPT !.at = "refresh:revoke", !.role = users[requests[r].user].role]
    BY <1>1, <1>7, <2>2 DEF RefreshLoad
  <2>4. req.at = "refresh:revoke" /\ req.user = requests[r].user /\ req.role = users[req.user].role
    BY <1>1, <2>3 DEF Request
  <2>5. account = users[req.user]
    BY <1>7 DEF RefreshLoad
  <2>6. QED
    BY <1>3, <2>2, <2>4, <2>5 DEF Known, Disabled
<1>8. CASE RefreshRevoke(r)
  <2>1. requests[r].at = "refresh:revoke"
    BY <1>8 DEF RefreshRevoke, At
  <2>2. req = [requests[r] EXCEPT !.at = "refresh:insert"]
    BY <1>1, <1>8 DEF RefreshRevoke, Advance
  <2>3. req.at = "refresh:insert" /\ req.role = requests[r].role
    BY <1>1, <2>2 DEF Request
  <2>4. PICK a \in during[r] : a.status # "disabled" /\ a.role = req.role
    BY <1>1, <2>1, <2>3 DEF Known
  <2>5. QED
    BY <1>3, <2>3, <2>4 DEF Known
<1>9. CASE UpdateFind(r) \/ UpdateCount(r)
  BY <1>1, <1>2, <1>9 DEF UpdateFind, UpdateCount, Advance, Finish, Idle, Request
<1>10. CASE Finish(r)
  BY <1>1, <1>2, <1>10 DEF Finish, Idle
<1>11. CASE Serve(r)
  BY <1>2, <1>7, <1>8, <1>9, <1>10, <1>11
     DEF Serve, UpdateWrite, LoginInsert, RefreshInsert, IssueTokens, LogoutRevoke, PasswordWrite
<1>12. QED
  BY <1>6, <1>11

LEMMA KnownInit == Init => KnownInv
  BY TypeInit DEF Init, KnownInv, Known, Idle

LEMMA KnownStep == KnownInv /\ [Next]_vars => KnownInv'
<1>1. CASE KnownInv /\ UNCHANGED vars
  <2>1. TypeInv'
    BY <1>1, TypeStep DEF KnownInv
  <2>2. QED
    BY <1>1, <2>1 DEF vars, history, KnownInv
<1>2. ASSUME KnownInv, Next
      PROVE  KnownInv'
  <2>1. TypeInv /\ TypeInv'
    BY <1>2, TypeStep DEF KnownInv
  <2>2. ASSUME NEW r \in Requests
        PROVE  Known(requests'[r], during'[r])
    <3>1. CASE requests'[r].at = "idle"
      BY <3>1 DEF Known
    <3>2. CASE requests'[r].at # "idle" /\ requests'[r] = requests[r]
      <4>1. Known(requests[r], during[r]) /\ during[r] \subseteq during'[r]
        BY <1>2, <3>2, SeenAfter DEF KnownInv
      <4>2. QED
        BY <3>2, <4>1, KnownGrows
    <3>3. CASE requests'[r].at # "idle" /\ requests'[r] # requests[r]
      BY <1>2, <2>1, <3>3, OwnSteps, Learned
    <3>4. QED
      BY <3>1, <3>2, <3>3
  <2>3. QED
    BY <2>1, <2>2 DEF KnownInv
<1>3. QED
  BY <1>1, <1>2

-----------------------------------------------------------------------------
\* Logins, refreshes and passwords.

\* Sessions are only stored together with the tokens of a login or a refresh.
LEMMA SessionsStoredBy ==
    ASSUME TypeInv, Next, NEW s \in SessionIds, ~Stored(s), Stored(s)'
    PROVE  \E r \in Requests :
              /\ LoginInsert(r) \/ RefreshInsert(r)
              /\ sessions'[s].user = requests[r].user
              /\ LoginInsert(r) => sessions'[s].login = s
              /\ RefreshInsert(r) => sessions'[s].login = sessions[requests[r].session].login
              /\ tokens' = tokens \cup {[user |-> requests[r].user, role |-> requests[r].role]}
              /\ \A s2 \in SessionIds : s2 # s => sessions'[s2] = sessions[s2]
              /\ Finish(r)
<1>1. /\ sessions \in [SessionIds -> Session \cup {None}]
      /\ \A r \in Requests : RequestOK(requests[r], users, sessions)
  BY DEF TypeInv, TypeOK
<1>2. ASSUME NEW r \in Requests, NEW s2 \in SessionIds, NEW l, IssueTokens(r, s2, l)
      PROVE  /\ s2 = s
             /\ sessions'[s].user = requests[r].user
             /\ sessions'[s].login = l
             /\ tokens' = tokens \cup {[user |-> requests[r].user, role |-> requests[r].role]}
             /\ \A s3 \in SessionIds : s3 # s => sessions'[s3] = sessions[s3]
             /\ Finish(r)
  BY <1>1, <1>2 DEF IssueTokens, Stored
<1>3. ASSUME NEW r \in Requests, LoginInsert(r)
      PROVE  /\ sessions'[s].user = requests[r].user
             /\ sessions'[s].login = s
             /\ tokens' = tokens \cup {[user |-> requests[r].user, role |-> requests[r].role]}
             /\ \A s2 \in SessionIds : s2 # s => sessions'[s2] = sessions[s2]
             /\ Finish(r)
             /\ ~RefreshInsert(r)
  BY <1>2, <1>3 DEF LoginInsert, RefreshInsert, At
<1>4. ASSUME NEW r \in Requests, RefreshInsert(r)
      PROVE  /\ sessions'[s].user = requests[r].user
             /\ sessions'[s].login = sessions[requests[r].session].login
             /\ tokens' = tokens \cup {[user |-> requests[r].user, role |-> requests[r].role]}
             /\ \A s2 \in SessionIds : s2 # s => sessions'[s2] = sessions[s2]
             /\ Finish(r)
             /\ ~LoginInsert(r)
  BY <1>2, <1>4 DEF LoginInsert, RefreshInsert, At
<1>5. ASSUME NEW s2 \in SessionIds, Stored(s2), \E new : sessions' = [sessions EXCEPT ![s2] = new]
      PROVE  FALSE
  BY <1>1, <1>5 DEF Stored
<1>6. ASSUME NEW r \in Requests, RefreshRevoke(r) \/ LogoutRevoke(r)
      PROVE  FALSE
  <2>1. requests[r].at \in {"refresh:revoke", "logout:revoke"}
    BY <1>6 DEF RefreshRevoke, LogoutRevoke, At
  <2>2. requests[r].session \in SessionIds /\ Stored(requests[r].session)
    BY <1>1, <2>1 DEF RequestOK, RefreshSteps, Stored
  <2>3. Revoke(requests[r].session)
    BY <1>6 DEF RefreshRevoke, LogoutRevoke
  <2>4. QED
    BY <1>5, <2>2, <2>3 DEF Revoke
<1>7. ASSUME NEW s2 \in SessionIds, ExpireSession(s2)
      PROVE  FALSE
  BY <1>5, <1>7 DEF ExpireSession
<1>8. QED
  BY <1>3, <1>4, <1>6, <1>7, SessionWriter DEF Stored, ExpireToken

LEMMA TokensStep ==
    ASSUME KnownInv, Next, NEW s \in SessionIds, ~Stored(s), Stored(s)'
    PROVE  \E r \in Requests, account \in User :
              /\ account \in during[r]
              /\ requests[r].user = sessions'[s].user
              /\ account.status # "disabled"
              /\ tokens' = tokens \cup {[user |-> sessions'[s].user, role |-> account.role]}
              /\ At(r, "login:insert") => account.password = requests[r].current
<1>1. PICK r \in Requests :
         /\ LoginInsert(r) \/ RefreshInsert(r)
         /\ sessions'[s].user = requests[r].user
         /\ tokens' = tokens \cup {[user |-> requests[r].user, role |-> requests[r].role]}
  BY SessionsStoredBy DEF KnownInv
<1>2. /\ requests[r].at \in {"login:insert", "refresh:insert"}
      /\ Known(requests[r], during[r])
      /\ during[r] \subseteq User
  BY <1>1 DEF LoginInsert, RefreshInsert, At, KnownInv, TypeInv, TypeOK
<1>3. PICK a \in during[r] :
         /\ a.status # "disabled" /\ a.role = requests[r].role
         /\ requests[r].at = "login:insert" => a.password = requests[r].current
  BY <1>2 DEF Known
<1>4. QED
  BY <1>1, <1>2, <1>3 DEF At

\* Tokens are issued only for what the account was at a moment of the request: with
\* the role it had then, and not while it was disabled (application/auth/service.go,
\* Login and Refresh). Any number of updates, logins and refreshes may interleave.
THEOREM LoginsReflectAccounts == Spec => TokensReflectAccounts
<1> DEFINE Good ==
      \A s \in SessionIds : ~Stored(s) /\ Stored(s)' =>
         \E r \in Requests, account \in User :
            /\ account \in during[r]
            /\ requests[r].user = sessions'[s].user
            /\ account.status # "disabled"
            /\ tokens' = tokens \cup {[user |-> sessions'[s].user, role |-> account.role]}
            /\ At(r, "login:insert") => account.password = requests[r].current
<1>1. KnownInv /\ [Next]_vars => [Good]_vars
  BY TokensStep
<1>2. QED
  BY <1>1, KnownInit, KnownStep, PTL DEF Spec, TokensReflectAccounts

LEMMA PasswordStep ==
    ASSUME KnownInv, Next, NEW e \in Emails, Account(e), users'[e].password # users[e].password
    PROVE  \E r \in Requests :
              /\ At(r, "password:write")
              /\ requests[r].user = e
              /\ requests[r].current \in {account.password : account \in during[r]}
<1>1. /\ users \in Users
      /\ \A r \in Requests : RequestOK(requests[r], users, sessions)
      /\ \A r \in Requests : Known(requests[r], during[r])
  BY DEF KnownInv, TypeInv, TypeOK
<1>2. ASSUME NEW r \in Requests, UpdateWrite(r)
      PROVE  FALSE
  <2>1. requests[r].at = "update:write"
    BY <1>2 DEF UpdateWrite, At
  <2>2. requests[r].user \in Emails /\ Account(requests[r].user)
    BY <1>1, <2>1 DEF RequestOK, Account
  <2>3. users[requests[r].user] \in User
    BY <1>1, <2>2 DEF Users, Account
  <2>4. users'[e].password = users[e].password
    BY <1>1, <1>2, <2>3 DEF UpdateWrite, Users, User, Account
  <2>5. QED
    BY <2>4
<1>3. ASSUME NEW r \in Requests, NEW f \in Emails, NEW in \in CreateInputs, CreateUser(r, f, in)
      PROVE  FALSE
  BY <1>1, <1>3 DEF CreateUser, Users, Account
<1>4. ASSUME NEW i \in Instances, BootstrapCreate(i)
      PROVE  FALSE
  BY <1>1, <1>4 DEF BootstrapCreate, Users, Account
<1>5. PICK r \in Requests : PasswordWrite(r)
  BY <1>2, <1>3, <1>4, UserWriter
<1>6. requests[r].at = "password:write"
  BY <1>5 DEF PasswordWrite, At
<1>7. requests[r].user = e
  BY <1>1, <1>5 DEF PasswordWrite, Users
<1>8. PICK a \in during[r] : a.password = requests[r].current
  BY <1>1, <1>6 DEF Known
<1>9. QED
  BY <1>6, <1>7, <1>8 DEF At

\* Only the user changes a password, with one that was current while the request ran
\* (application/user/service.go, ChangePassword): neither an update nor a second
\* creation nor the bootstrap of another instance overwrites it.
THEOREM PasswordsAreTheUsers == Spec => PasswordChangesAreAuthorized
<1> DEFINE Good ==
      \A e \in Emails : Account(e) /\ users'[e].password # users[e].password =>
         \E r \in Requests :
            /\ At(r, "password:write")
            /\ requests[r].user = e
            /\ requests[r].current \in {account.password : account \in during[r]}
<1>1. KnownInv /\ [Next]_vars => [Good]_vars
  BY PasswordStep
<1>2. QED
  BY <1>1, KnownInit, KnownStep, PTL DEF Spec, PasswordChangesAreAuthorized

-----------------------------------------------------------------------------
\* Rotation.

Usable(s) == Stored(s) /\ IsValid(s)

\* A stored session keeps its login, and is never valid again.
LEMMA SessionsPersist ==
    ASSUME TypeInv, Next, NEW s \in SessionIds, Stored(s)
    PROVE  /\ Stored(s)'
           /\ sessions'[s].login = sessions[s].login
           /\ Usable(s)' => Usable(s)
<1>1. /\ sessions \in [SessionIds -> Session \cup {None}]
      /\ \A r \in Requests : RequestOK(requests[r], users, sessions)
  BY DEF TypeInv, TypeOK
<1>2. Stored(s)'
  BY SessionsGrow DEF Stored
<1>3. CASE sessions'[s] = sessions[s]
  BY <1>2, <1>3 DEF Usable, Stored, IsValid
<1>4. ASSUME NEW s2 \in SessionIds, Revoke(s2)
      PROVE  sessions'[s].login = sessions[s].login /\ (Usable(s)' => Usable(s))
  BY <1>1, <1>4 DEF Revoke, Stored, Session, Usable, IsValid
<1>5. ASSUME NEW s2 \in SessionIds, ExpireSession(s2)
      PROVE  sessions'[s].login = sessions[s].login /\ (Usable(s)' => Usable(s))
  BY <1>1, <1>5 DEF ExpireSession, Stored, Session, Usable, IsValid
<1>6. ASSUME NEW r \in Requests, NEW s2 \in SessionIds, NEW l, IssueTokens(r, s2, l)
      PROVE  sessions'[s] = sessions[s]
  BY <1>1, <1>6 DEF IssueTokens, Stored
<1>7. ASSUME NEW r \in Requests, LoginInsert(r) \/ RefreshInsert(r)
      PROVE  sessions'[s] = sessions[s]
  BY <1>6, <1>7 DEF LoginInsert, RefreshInsert
<1>8. ASSUME NEW r \in Requests, RefreshRevoke(r) \/ LogoutRevoke(r)
      PROVE  sessions'[s].login = sessions[s].login /\ (Usable(s)' => Usable(s))
  <2>1. requests[r].at \in {"refresh:revoke", "logout:revoke"}
    BY <1>8 DEF RefreshRevoke, LogoutRevoke, At
  <2>2. requests[r].session \in SessionIds
    BY <1>1, <2>1 DEF RequestOK, RefreshSteps
  <2>3. QED
    BY <1>4, <1>8, <2>2 DEF RefreshRevoke, LogoutRevoke
<1>9. QED
  BY <1>2, <1>3, <1>5, <1>7, <1>8, SessionWriter DEF ExpireToken

\* A refresh is new, and its session was usable, or it was under way for that session.
LEMMA RefreshesStep ==
    ASSUME TypeInv, Next, NEW r \in Requests, requests'[r].at \in RefreshSteps
    PROVE  LET s == requests'[r].session
           IN  /\ s \in SessionIds
               /\ Stored(s)
               /\ \/ requests[r].at \in RefreshSteps /\ requests[r].session = s
                  \/ /\ requests[r].at = "idle"
                     /\ requests'[r].at = "refresh:load"
                     /\ Usable(s)
                     /\ UNCHANGED sessions
<1>1. /\ requests \in [Requests -> Request]
      /\ \A q \in Requests : RequestOK(requests[q], users, sessions)
  BY DEF TypeInv, TypeOK
<1>2. requests'[r].session \in SessionIds /\ Stored(requests'[r].session)
  BY RequestsStep DEF RequestOK, Stored
<1>3. CASE requests'[r] = requests[r]
  BY <1>2, <1>3
<1>4. ASSUME NEW s \in SessionIds, RefreshReceive(r, s)
      PROVE  /\ requests'[r].session = s
             /\ requests[r].at = "idle"
             /\ requests'[r].at = "refresh:load"
             /\ Usable(s)
             /\ UNCHANGED sessions
  BY <1>1, <1>4 DEF RefreshReceive, Accept, Serving, At, Idle, Usable
<1>5. ASSUME NEW s \in SessionIds, LogoutReceive(r, s)
      PROVE  FALSE
  BY <1>1, <1>5 DEF LogoutReceive, Accept, Idle, RefreshSteps
<1>6. ASSUME NEW e \in Emails, NEW in \in UpdateInputs, UpdateReceive(r, e, in)
      PROVE  FALSE
  BY <1>1, <1>6 DEF UpdateReceive, Accept, Idle, RefreshSteps
<1>7. ASSUME NEW e \in Emails, NEW p \in Passwords, LoginReceive(r, e, p)
      PROVE  FALSE
  BY <1>1, <1>7 DEF LoginReceive, Accept, Idle, RefreshSteps
<1>8. ASSUME NEW t \in tokens, NEW current \in Passwords, NEW new \in Passwords,
             PasswordReceive(r, t, current, new)
      PROVE  FALSE
  BY <1>1, <1>8 DEF PasswordReceive, Accept, Idle, RefreshSteps
<1>9. CASE Receive(r) /\ requests'[r] # requests[r]
  BY <1>2, <1>4, <1>5, <1>6, <1>7, <1>8, <1>9 DEF Receive, CreateUser
<1>10. CASE UpdateFind(r) \/ UpdateCount(r)
  BY <1>1, <1>10 DEF UpdateFind, UpdateCount, Advance, Finish, Idle, Request, RefreshSteps
<1>11. CASE RefreshLoad(r)
  BY <1>1, <1>2, <1>11 DEF RefreshLoad, At, Finish, Idle, Request, RefreshSteps
<1>12. CASE RefreshRevoke(r)
  BY <1>1, <1>2, <1>12 DEF RefreshRevoke, At, Advance, Request, RefreshSteps
<1>13. CASE Finish(r)
  BY <1>1, <1>13 DEF Finish, Idle, RefreshSteps
<1>14. CASE Serve(r)
  BY <1>10, <1>11, <1>12, <1>13, <1>14
     DEF Serve, UpdateWrite, LoginInsert, RefreshInsert, IssueTokens, LogoutRevoke, PasswordWrite
<1>15. QED
  BY <1>3, <1>9, <1>14, OwnSteps DEF RefreshSteps

\* No step brings a login back that is over.
LEMMA EndedStep ==
    ASSUME TypeInv, Next, NEW l \in SessionIds, Ended(l)
    PROVE  Ended(l)'
<1>1. /\ Stored(l)
      /\ \A s \in SessionIds : Usable(s) => sessions[s].login # l
      /\ \A r \in Requests : ~Refreshing(r, l)
  BY DEF Ended, Usable
<1>2. Stored(l)'
  BY <1>1, SessionsPersist
<1>3. ASSUME NEW s \in SessionIds, Usable(s)', sessions'[s].login = l
      PROVE  FALSE
  <2>1. CASE Stored(s)
    BY <1>1, <1>3, <2>1, SessionsPersist
  <2>2. CASE ~Stored(s)
    <3>1. PICK r \in Requests :
             /\ LoginInsert(r) \/ RefreshInsert(r)
             /\ LoginInsert(r) => sessions'[s].login = s
             /\ RefreshInsert(r) => sessions'[s].login = sessions[requests[r].session].login
      BY <1>3, <2>2, SessionsStoredBy DEF Usable
    <3>2. CASE LoginInsert(r)
      BY <1>1, <1>3, <2>2, <3>1, <3>2
    <3>3. CASE RefreshInsert(r)
      <4>1. requests[r].at \in RefreshSteps
        BY <3>3 DEF RefreshInsert, At, RefreshSteps
      <4>2. QED
        BY <1>1, <1>3, <3>1, <3>3, <4>1 DEF Refreshing
    <3>4. QED
      BY <3>1, <3>2, <3>3
  <2>3. QED
    BY <2>1, <2>2
<1>4. ASSUME NEW r \in Requests, Refreshing(r, l)'
      PROVE  FALSE
  <2> DEFINE s == requests'[r].session
  <2>1. requests'[r].at \in RefreshSteps /\ sessions'[s].login = l
    BY <1>4 DEF Refreshing
  <2>2. /\ s \in SessionIds
        /\ Stored(s)
        /\ Usable(s) \/ (requests[r].at \in RefreshSteps /\ requests[r].session = s)
    BY <2>1, RefreshesStep
  <2>3. sessions[s].login = l
    BY <2>1, <2>2, SessionsPersist
  <2>4. QED
    BY <1>1, <2>2, <2>3 DEF Refreshing
<1>5. QED
  BY <1>2, <1>3, <1>4 DEF Ended, Usable

\* When no session of a login can be used and none of its refreshes is under way, no
\* request can make it usable again (application/auth/service.go, Refresh and Logout).
THEOREM EndedLogins == Spec => EndedLoginStaysEnded
<1>1. TypeInv /\ [Next]_vars => [\A l \in SessionIds : Ended(l) => Ended(l)']_vars
  BY EndedStep
<1>2. QED
  BY <1>1, TypeInit, TypeStep, PTL DEF Spec, EndedLoginStaysEnded

-----------------------------------------------------------------------------
\* At most one usable session per login, unless two refreshes with it overlapped.

Rotated(l) ==
    /\ \A q, r \in Requests : Refreshing(q, l) /\ Refreshing(r, l) => q = r
    /\ \A s1, s2 \in SessionIds :
         /\ Usable(s1) /\ sessions[s1].login = l
         /\ Usable(s2) /\ sessions[s2].login = l
         => s1 = s2
    /\ \A r \in Requests, s \in SessionIds :
         Refreshing(r, l) /\ Usable(s) /\ sessions[s].login = l
           => s = requests[r].session /\ ~At(r, "refresh:insert")

RotationInv ==
    /\ TypeInv
    /\ \A s \in SessionIds : Stored(s) => Stored(sessions[s].login)
    /\ \A l \in SessionIds \ shared : Rotated(l)

\* A refresh that is about to insert has revoked the session it came with.
LEMMA InsertAfterRevoke ==
    ASSUME TypeInv, Next, NEW r \in Requests, requests'[r].at = "refresh:insert",
           requests'[r] # requests[r]
    PROVE  RefreshRevoke(r)
<1>1. requests \in [Requests -> Request]
  BY DEF TypeInv, TypeOK
<1>2. requests[r].at # "idle" \/ requests'[r].at = "refresh:load"
  BY RefreshesStep DEF RefreshSteps
<1>3. ~Receive(r)
  <2>1. ASSUME Receive(r)
        PROVE  requests[r].at = "idle" \/ requests'[r] = requests[r]
    BY <2>1 DEF Receive, CreateUser, UpdateReceive, LoginReceive, RefreshReceive,
                LogoutReceive, PasswordReceive, Accept, Serving, At
  <2>2. QED
    BY <1>2, <2>1
<1>4. ASSUME UpdateFind(r) \/ UpdateCount(r) \/ RefreshLoad(r) \/ Finish(r)
      PROVE  FALSE
  BY <1>1, <1>4 DEF UpdateFind, UpdateCount, RefreshLoad, Advance, Finish, Idle, Request
<1>5. Serve(r)
  BY <1>3, OwnSteps
<1>6. QED
  BY <1>4, <1>5 DEF Serve, UpdateWrite, LoginInsert, RefreshInsert, IssueTokens, LogoutRevoke,
                    PasswordWrite

\* A new session of a login that no two refreshes shared: it is the login itself, or the
\* only refresh of it is done, and no other session of it can be used.
LEMMA NewSession ==
    ASSUME RotationInv, Next, NEW s \in SessionIds, ~Stored(s), Stored(s)',
           NEW l \in SessionIds \ shared, sessions'[s].login = l
    PROVE  /\ \A s2 \in SessionIds : Usable(s2) => sessions[s2].login # l
           /\ \A s2 \in SessionIds : s2 # s => sessions'[s2] = sessions[s2]
           /\ \A r \in Requests : ~Refreshing(r, l)'
<1>1. /\ TypeInv
      /\ requests \in [Requests -> Request]
      /\ sessions \in [SessionIds -> Session \cup {None}]
      /\ \A q \in Requests : RequestOK(requests[q], users, sessions)
      /\ \A s2 \in SessionIds : Stored(s2) => Stored(sessions[s2].login)
      /\ \A s2 \in SessionIds : Stored(s2) => sessions[s2].login \in SessionIds
  BY DEF RotationInv, TypeInv, TypeOK, Stored, Session
<1>2. PICK q \in Requests :
         /\ LoginInsert(q) \/ RefreshInsert(q)
         /\ LoginInsert(q) => l = s
         /\ RefreshInsert(q) => l = sessions[requests[q].session].login
         /\ \A s2 \in SessionIds : s2 # s => sessions'[s2] = sessions[s2]
         /\ Finish(q)
  BY <1>1, SessionsStoredBy
<1>3. requests'[q].at = "idle"
  BY <1>1, <1>2 DEF Finish, Idle
<1>4. ASSUME NEW r \in Requests, Refreshing(r, l)'
      PROVE  /\ r # q
             /\ Stored(l)
             /\ Refreshing(r, l)
  <2>1. requests'[r].at \in RefreshSteps /\ sessions'[requests'[r].session].login = l
    BY <1>4 DEF Refreshing
  <2>2. r # q
    BY <1>3, <2>1 DEF RefreshSteps
  <2>3. requests'[r] = requests[r]
    BY <1>1, <1>2, <2>2 DEF Finish
  <2>4. requests[r].session \in SessionIds /\ Stored(requests[r].session)
    BY <1>1, <2>1, <2>3, RefreshesStep
  <2>5. sessions[requests[r].session].login = l
    BY <1>1, <2>1, <2>3, <2>4, SessionsPersist
  <2>6. QED
    BY <1>1, <2>1, <2>2, <2>3, <2>4, <2>5 DEF Refreshing
<1>5. CASE LoginInsert(q)
  <2>1. l = s
    BY <1>2, <1>5
  <2>2. \A s2 \in SessionIds : Usable(s2) => sessions[s2].login # l
    BY <1>1, <2>1 DEF Usable
  <2>3. \A r \in Requests : ~Refreshing(r, l)'
    BY <1>4, <2>1
  <2>4. QED
    BY <1>2, <2>1, <2>2, <2>3
<1>6. CASE RefreshInsert(q)
  <2>1. requests[q].at = "refresh:insert" /\ l = sessions[requests[q].session].login
    BY <1>2, <1>6 DEF RefreshInsert, At
  <2>2. requests[q].session \in SessionIds /\ Stored(requests[q].session)
    BY <1>1, <2>1 DEF RequestOK, RefreshSteps, Stored
  <2>3. l \in SessionIds \ shared /\ Stored(l) /\ Refreshing(q, l)
    BY <1>1, <2>1, <2>2 DEF Refreshing, RefreshSteps
  <2>4. Rotated(l)
    BY <2>3 DEF RotationInv
  <2>5. \A s2 \in SessionIds : Usable(s2) => sessions[s2].login # l
    BY <2>1, <2>3, <2>4 DEF Rotated, At
  <2>6. \A r \in Requests : ~Refreshing(r, l)'
    BY <1>4, <2>3, <2>4 DEF Rotated
  <2>7. QED
    BY <1>2, <2>5, <2>6
<1>7. QED
  BY <1>2, <1>5, <1>6

LEMMA RotatedStep ==
    ASSUME RotationInv, Next, NEW l \in SessionIds, l \notin shared'
    PROVE  Rotated(l)'
<1>1. /\ TypeInv
      /\ requests \in [Requests -> Request]
      /\ sessions \in [SessionIds -> Session \cup {None}]
  BY DEF RotationInv, TypeInv, TypeOK
<1>2. Observe /\ l \notin shared
  BY Observed DEF Observe
<1>3. Rotated(l)
  BY <1>2 DEF RotationInv
<1>4. ASSUME NEW s \in SessionIds, Usable(s)', sessions'[s].login = l, Stored(s)
      PROVE  Usable(s) /\ sessions[s].login = l
  BY <1>1, <1>4, SessionsPersist
<1>5. ASSUME NEW s \in SessionIds, Usable(s)', sessions'[s].login = l, ~Stored(s)
      PROVE  /\ \A s2 \in SessionIds : Usable(s2)' /\ sessions'[s2].login = l => s2 = s
             /\ \A r \in Requests : ~Refreshing(r, l)'
  <2>1. /\ \A s2 \in SessionIds : Usable(s2) => sessions[s2].login # l
        /\ \A s2 \in SessionIds : s2 # s => sessions'[s2] = sessions[s2]
        /\ \A r \in Requests : ~Refreshing(r, l)'
    BY <1>1, <1>2, <1>5, NewSession DEF Usable
  <2>2. ASSUME NEW s2 \in SessionIds, Usable(s2)', sessions'[s2].login = l, s2 # s
        PROVE  FALSE
    BY <2>1, <2>2 DEF Usable, Stored, IsValid
  <2>3. QED
    BY <2>1, <2>2
<1>6. \A q, r \in Requests : Refreshing(q, l)' /\ Refreshing(r, l)' => q = r
  BY <1>2 DEF Observe
<1>7. ASSUME NEW s1 \in SessionIds, NEW s2 \in SessionIds,
             Usable(s1)', sessions'[s1].login = l, Usable(s2)', sessions'[s2].login = l
      PROVE  s1 = s2
  BY <1>3, <1>4, <1>5, <1>7 DEF Rotated
<1>8. ASSUME NEW r \in Requests, NEW s \in SessionIds,
             Refreshing(r, l)', Usable(s)', sessions'[s].login = l
      PROVE  s = requests'[r].session /\ ~At(r, "refresh:insert")'
  <2>1. PICK s0 \in SessionIds :
           /\ s0 = requests'[r].session
           /\ requests'[r].at \in RefreshSteps
           /\ sessions'[s0].login = l
    BY <1>1, <1>8, RefreshesStep DEF Refreshing
  <2>2. /\ Stored(s0)
        /\ \/ requests[r].at \in RefreshSteps /\ requests[r].session = s0
           \/ /\ requests'[r].at = "refresh:load"
              /\ Usable(s0)
    BY <1>1, <2>1, RefreshesStep
  <2>3. Usable(s) /\ sessions[s].login = l
    BY <1>4, <1>5, <1>8
  <2>4. sessions[s0].login = l
    BY <1>1, <2>1, <2>2, SessionsPersist
  <2>5. CASE requests[r].at \in RefreshSteps /\ requests[r].session = s0
    <3>1. Refreshing(r, l)
      BY <2>4, <2>5 DEF Refreshing
    <3>2. s = s0 /\ ~At(r, "refresh:insert")
      BY <1>3, <2>3, <2>5, <3>1 DEF Rotated
    <3>3. ASSUME requests'[r].at = "refresh:insert"
          PROVE  FALSE
      <4>1. RefreshRevoke(r)
        BY <1>1, <3>2, <3>3, InsertAfterRevoke DEF At
      <4>2. Revoke(s0)
        BY <2>5, <4>1 DEF RefreshRevoke
      <4>3. ~IsValid(s0)'
        BY <1>1, <2>2, <4>2 DEF Revoke, IsValid, Stored, Session
      <4>4. QED
        BY <1>8, <3>2, <4>3 DEF Usable
    <3>4. QED
      BY <2>1, <3>2, <3>3 DEF At
  <2>6. CASE requests'[r].at = "refresh:load" /\ Usable(s0)
    <3>1. s = s0
      BY <1>3, <2>3, <2>4, <2>6 DEF Rotated
    <3>2. QED
      BY <2>1, <2>6, <3>1 DEF At
  <2>7. QED
    BY <2>2, <2>5, <2>6
<1>9. QED
  BY <1>6, <1>7, <1>8 DEF Rotated

LEMMA RotationInit == Init => RotationInv
  BY TypeInit DEF Init, RotationInv, Rotated, Refreshing, Usable, Stored, Idle, RefreshSteps

LEMMA RotationStep == RotationInv /\ [Next]_vars => RotationInv'
<1>1. CASE RotationInv /\ UNCHANGED vars
  <2>1. TypeInv'
    BY <1>1, TypeStep DEF RotationInv
  <2>2. QED
    BY <1>1, <2>1
       DEF vars, history, RotationInv, Rotated, Refreshing, Usable, Stored, IsValid, At
<1>2. ASSUME RotationInv, Next
      PROVE  RotationInv'
  <2>1. TypeInv /\ TypeInv' /\ shared \subseteq SessionIds
    BY <1>2, TypeStep DEF RotationInv, TypeInv, TypeOK
  <2>2. ASSUME NEW s \in SessionIds, sessions'[s] # None
        PROVE  sessions'[sessions'[s].login] # None
    <3>1. /\ Stored(s) => Stored(sessions[s].login) /\ sessions[s].login \in SessionIds
          /\ \A r \in Requests : RequestOK(requests[r], users, sessions)
          /\ \A s2 \in SessionIds : Stored(s2) => /\ Stored(sessions[s2].login)
                                                  /\ sessions[s2].login \in SessionIds
      BY <1>2 DEF RotationInv, TypeInv, TypeOK, Stored, Session
    <3>2. CASE Stored(s)
      BY <1>2, <2>1, <3>1, <3>2, SessionsPersist DEF Stored
    <3>3. CASE ~Stored(s)
      <4>1. PICK q \in Requests :
               /\ LoginInsert(q) \/ RefreshInsert(q)
               /\ LoginInsert(q) => sessions'[s].login = s
               /\ RefreshInsert(q) => sessions'[s].login = sessions[requests[q].session].login
        BY <1>2, <2>1, <2>2, <3>3, SessionsStoredBy DEF Stored
      <4>2. CASE LoginInsert(q)
        BY <2>2, <4>1, <4>2
      <4>3. CASE RefreshInsert(q)
        <5>1. requests[q].at = "refresh:insert"
          BY <4>3 DEF RefreshInsert, At
        <5>2. requests[q].session \in SessionIds /\ Stored(requests[q].session)
          BY <3>1, <5>1 DEF RequestOK, RefreshSteps, Stored
        <5>3. QED
          BY <1>2, <2>1, <3>1, <4>1, <4>3, <5>2, SessionsPersist DEF Stored
      <4>4. QED
        BY <4>1, <4>2, <4>3
    <3>4. QED
      BY <3>2, <3>3
  <2>3. \A l \in SessionIds : l \notin shared' => Rotated(l)'
    BY <1>2, RotatedStep
  <2>4. QED
    BY <2>1, <2>2, <2>3 DEF RotationInv, Stored
<1>3. QED
  BY <1>1, <1>2

\* However logins, refreshes, logouts and failures interleave, a login has at most one
\* session that can be used, unless two refreshes of it overlapped
\* (application/auth/service.go, Refresh: the old session is revoked before the new one
\* is stored).
THEOREM RotationKeepsOneSession == Spec => []OneUsableSession
<1>1. RotationInv => OneUsableSession
  <2> SUFFICES ASSUME RotationInv, NEW s1 \in SessionIds, NEW s2 \in SessionIds,
                      Stored(s1), IsValid(s1), Stored(s2), IsValid(s2),
                      sessions[s1].login = sessions[s2].login, sessions[s1].login \notin shared
               PROVE  s1 = s2
    BY DEF OneUsableSession
  <2>1. sessions[s1].login \in SessionIds
    BY DEF RotationInv, TypeInv, TypeOK, Stored, Session
  <2>2. Rotated(sessions[s1].login)
    BY <2>1 DEF RotationInv
  <2>3. QED
    BY <2>2 DEF Rotated, Usable
<1>2. QED
  BY <1>1, RotationInit, RotationStep, PTL DEF Spec

-----------------------------------------------------------------------------
\* The first admin.

\* An instance that is about to create the admin counted none, and until updates overlap
\* there is none still, or another instance was first.
BootInv ==
    /\ AdminInv
    /\ ~contended => \A i \in Instances :
         instances[i] = "create" => Admins = {} \/ Account(BootstrapEmail)

LEMMA NobodyCounted ==
    ASSUME ~(CountByRole > 0)
    PROVE  Admins = {}
<1>1. IsFiniteSet(Admins)
  BY EmailsAreFinite, FS_Subset DEF Admins
<1>2. Cardinality(Admins) \in Nat
  BY <1>1, FS_CardinalityType
<1>3. Cardinality(Admins) = 0
  BY <1>2 DEF CountByRole
<1>4. QED
  BY <1>1, <1>3, FS_EmptySet

LEMMA InstanceSteps ==
    ASSUME TypeInv, Next, NEW i \in Instances, instances'[i] # instances[i]
    PROVE  \/ Restart(i)
           \/ BootstrapCount(i)
           \/ BootstrapCreate(i)
           \/ BootstrapFail(i)
<1>1. instances \in [Instances -> {"count", "create", "up"}]
  BY DEF TypeInv, TypeOK
<1>2. ASSUME NEW r \in Requests, Receive(r)
      PROVE  UNCHANGED instances
  BY <1>2 DEF Receive, CreateUser, UpdateReceive, LoginReceive, RefreshReceive,
              LogoutReceive, PasswordReceive
<1>3. ASSUME NEW r \in Requests, Serve(r)
      PROVE  UNCHANGED instances
  BY <1>3 DEF Serve, UpdateFind, UpdateCount, UpdateWrite, LoginInsert, RefreshLoad,
              RefreshRevoke, RefreshInsert, IssueTokens, LogoutRevoke, PasswordWrite
<1>4. ASSUME NEW j \in Instances, j # i, Start(j) \/ Restart(j)
      PROVE  FALSE
  BY <1>1, <1>4 DEF Start, Restart, BootstrapCount, BootstrapCreate, BootstrapFail
<1>5. PICK j \in Instances : Start(j) \/ Restart(j)
  BY <1>2, <1>3 DEF Next, Abort, ExpireSession, ExpireToken
<1>6. QED
  BY <1>4, <1>5 DEF Start

\* Without an admin and without anything an admin was given, only bootstrap makes one.
LEMMA NoAdminComes ==
    ASSUME AdminInv, Next, ~contended, Admins = {}
    PROVE  Admins' = {} \/ users'[BootstrapEmail] # None
<1>1. /\ TypeInv
      /\ users \in Users
      /\ ~AdminPower
      /\ \A r \in Requests : RequestOK(requests[r], users, sessions)
  BY DEF AdminInv, TypeInv, TypeOK
<1>2. CASE UNCHANGED users
  BY <1>2 DEF Admins, Account
<1>3. ASSUME NEW r \in Requests, UpdateWrite(r)
      PROVE  FALSE
  <2>1. requests[r].at = "update:write" /\ requests[r].role = "admin"
    BY <1>1, <1>3 DEF UpdateWrite, At, RequestOK, UpdateSteps
  <2>2. QED
    BY <1>1, <2>1 DEF AdminPower
<1>4. ASSUME NEW r \in Requests, PasswordWrite(r)
      PROVE  Admins' = {}
  <2>1. requests[r].at = "password:write"
    BY <1>4 DEF PasswordWrite, At
  <2>2. requests[r].user \in Emails /\ Account(requests[r].user)
    BY <1>1, <2>1 DEF RequestOK, Account
  <2>3. users[requests[r].user] \in User
    BY <1>1, <2>2 DEF Users, Account
  <2>4. \A e \in Emails : users'[e] # None => users[e] # None /\ users'[e].role = users[e].role
    BY <1>1, <1>4, <2>2, <2>3 DEF PasswordWrite, Users, User, Account
  <2>5. QED
    BY <2>4 DEF Admins, Account
<1>5. ASSUME NEW r \in Requests, NEW e \in Emails, NEW in \in CreateInputs, CreateUser(r, e, in)
      PROVE  FALSE
  BY <1>1, <1>5 DEF CreateUser, AdminTokens, AdminPower
<1>6. ASSUME NEW i \in Instances, BootstrapCreate(i)
      PROVE  users'[BootstrapEmail] # None
  <2>1. CASE Account(BootstrapEmail)
    BY <1>6, <2>1 DEF BootstrapCreate, Account
  <2>2. CASE ~Account(BootstrapEmail)
    <3> DEFINE new == [role |-> "admin", status |-> "active", password |-> BootstrapPassword]
    <3>1. new \in User
      BY BootstrapConfig DEF User, Roles, Statuses
    <3>2. users'[BootstrapEmail] = new
      BY <1>1, <1>6, <2>2, BootstrapConfig DEF BootstrapCreate, Users
    <3>3. QED
      BY <3>1, <3>2, NoneIsNoValue
  <2>3. QED
    BY <2>1, <2>2
<1>7. QED
  BY <1>2, <1>3, <1>4, <1>5, <1>6, UserWriter

LEMMA BootInit == Init => BootInv
  BY AdminInit DEF Init, BootInv

LEMMA BootStep == BootInv /\ [Next]_vars => BootInv'
<1>1. CASE BootInv /\ UNCHANGED vars
  <2>1. AdminInv'
    BY <1>1, AdminStep DEF BootInv
  <2>2. QED
    BY <1>1, <2>1 DEF vars, history, BootInv, Admins, Account
<1>2. ASSUME BootInv, Next
      PROVE  BootInv'
  <2>1. AdminInv /\ AdminInv' /\ TypeInv
    BY <1>2, AdminStep DEF BootInv, AdminInv
  <2>2. ASSUME ~contended', NEW i \in Instances, instances'[i] = "create"
        PROVE  Admins' = {} \/ users'[BootstrapEmail] # None
    <3>1. ~contended
      BY <1>2, <2>2, Observed DEF Observe
    <3>2. CASE instances[i] = "create" /\ Account(BootstrapEmail)
      BY <1>2, <2>1, <3>2, UsersGrow, BootstrapConfig
    <3>3. CASE instances[i] = "create" /\ Admins = {}
      BY <1>2, <2>1, <3>1, <3>3, NoAdminComes
    <3>4. CASE instances[i] # "create"
      <4>1. instances \in [Instances -> {"count", "create", "up"}]
        BY <2>1 DEF TypeInv, TypeOK
      <4>2. BootstrapCount(i)
        BY <1>2, <2>1, <2>2, <3>4, <4>1, InstanceSteps
           DEF Restart, BootstrapCreate, BootstrapFail
      <4>3. Admins = {}
        BY <2>2, <4>1, <4>2, NobodyCounted DEF BootstrapCount
      <4>4. QED
        BY <4>2, <4>3 DEF BootstrapCount, Admins, Account
    <3>5. QED
      BY <1>2, <3>1, <3>2, <3>3, <3>4 DEF BootInv
  <2>3. QED
    BY <2>1, <2>2 DEF BootInv, Account
<1>3. QED
  BY <1>1, <1>2

\* However many instances start at once, or again, bootstrap creates its admin only
\* in a system that has none (application/bootstrap/service.go, Run).
THEOREM BootstrapOnlyFirst == Spec => BootstrapMakesTheFirstAdmin
<1> DEFINE Good ==
      \A i \in Instances :
         instances[i] = "create" /\ instances'[i] = "up" /\ users' # users
           => Admins = {} \/ contended
<1>1. ASSUME BootInv, Next, NEW i \in Instances,
             instances[i] = "create", instances'[i] = "up", users' # users, ~contended
      PROVE  Admins = {}
  <2>1. BootstrapCreate(i)
    BY <1>1, InstanceSteps DEF BootInv, AdminInv, Restart, BootstrapCount, BootstrapFail
  <2>2. ~Account(BootstrapEmail)
    BY <1>1, <2>1 DEF BootstrapCreate
  <2>3. QED
    BY <1>1, <2>2 DEF BootInv
<1>2. BootInv /\ [Next]_vars => [Good]_vars
  BY <1>1
<1>3. QED
  BY <1>2, BootInit, BootStep, PTL DEF Spec, BootstrapMakesTheFirstAdmin
=============================================================================
