------------------------------ MODULE Accounts ------------------------------
(***************************************************************************)
(* User accounts, logins and the bootstrap of the first admin: the         *)
(* services of application/user, application/auth and application/         *)
(* bootstrap over the collections users and sessions.                      *)
(*                                                                         *)
(* An account is named by its email, which the database keeps unique and   *)
(* nothing changes; the generated id stands for it one to one. A request   *)
(* reads, decides and writes in separate calls of the database, so the     *)
(* calls of several requests, and of the instances of the service,         *)
(* interleave. Each request is served by one instance and dies with it.    *)
(***************************************************************************)
EXTENDS Integers, FiniteSets

CONSTANTS
    None,               \* no account, no session
    Emails,
    Passwords,
    SessionIds,         \* bounds the sessions ever created
    Requests,           \* bounds the requests in flight
    Instances,
    Home,               \* the instance that serves a request
    BootstrapEnabled,
    BootstrapEmail,
    BootstrapPassword,
    InitialUsers,       \* what the database may hold at the first start
    CreateInputs,       \* bodies of POST users
    UpdateInputs,       \* bodies of PATCH users; "" leaves a field alone
    Endpoints           \* the endpoints that clients call

Roles == {"admin", "developer", "other"}

Statuses == {"active", "disabled", "other"}

User == [role : Roles, status : Statuses, password : Passwords]

Claims == [user : Emails, role : Roles]

\* "login" is the session that the login created: rotation keeps it. The code
\* does not store it.
Session == [user : Emails, login : SessionIds, revoked : BOOLEAN, expired : BOOLEAN]

Users == [Emails -> User \cup {None}]

ASSUME NoneIsNoValue ==
    None \notin User /\ None \notin Session /\ None \notin SessionIds /\ None \notin Roles

ASSUME EmailsAreFinite == IsFiniteSet(Emails)

ASSUME HomeIsAnInstance == Home \in [Requests -> Instances]

ASSUME BootstrapConfig ==
    /\ BootstrapEnabled \in BOOLEAN
    /\ BootstrapEmail \in Emails
    /\ BootstrapPassword \in Passwords

ASSUME InitialUsersAreUsers == InitialUsers \subseteq Users

\* CreateUser accepts the two roles it knows.
ASSUME CreateInputsAreValid ==
    CreateInputs \subseteq [role : {"admin", "developer"}, password : Passwords]

\* UpdateUser takes any role and any status.
ASSUME UpdateInputsAreDecoded ==
    UpdateInputs \subseteq [role : Roles \cup {""}, status : Statuses \cup {""}]

UpdateSteps == {"update:find", "update:count", "update:write"}

RefreshSteps == {"refresh:load", "refresh:revoke", "refresh:insert"}

Steps == {"idle", "login:insert", "logout:revoke", "password:write"}
            \cup UpdateSteps \cup RefreshSteps

\* The local variables of a request: "role" is what its access token says, or
\* what the token it is about to issue will say; "current" the password it
\* presents; "session" the refresh token it uses.
Request == [at : Steps, user : Emails \cup {None}, role : Roles \cup {None},
            current : Passwords \cup {None}, new : Passwords \cup {None},
            input : UpdateInputs \cup {None}, session : SessionIds \cup {None}]

Idle == [at |-> "idle", user |-> None, role |-> None, current |-> None, new |-> None,
         input |-> None, session |-> None]

VARIABLES
    users,      \* the collection users
    sessions,   \* the collection sessions
    tokens,     \* claims of the unexpired access tokens in clients' hands
    requests,
    instances,  \* how far each instance has started
    during,     \* history: the states of its user's account while a request ran
    contended,  \* history: two updates that may remove an admin have overlapped
    shared      \* history: logins of which two refreshes have overlapped

history == <<during, contended, shared>>

vars == <<users, sessions, tokens, requests, instances, history>>

-----------------------------------------------------------------------------
\* What the database answers.

Account(e) == users[e] # None

Admins == {e \in Emails : Account(e) /\ users[e].role = "admin"}

CountByRole == Cardinality(Admins)

Disabled(e) == users[e].status = "disabled"

Stored(s) == sessions[s] # None

IsValid(s) == ~sessions[s].revoked /\ ~sessions[s].expired

Revoke(s) == sessions' = [sessions EXCEPT ![s].revoked = TRUE]

\* Whether the update goes through the guard of the last admin.
MayRemoveAdmin(in) ==
    \/ in.role \notin {"", "admin"}
    \/ in.status = "disabled"

-----------------------------------------------------------------------------
\* History: what every step adds, from the state that it leads to.

Guarding(r) == requests[r].at \in UpdateSteps /\ MayRemoveAdmin(requests[r].input)

Refreshing(r, l) ==
    /\ requests[r].at \in RefreshSteps
    /\ sessions[requests[r].session].login = l

Observe ==
    /\ during' = [r \in Requests |->
                    IF requests'[r].at = "idle" THEN {}
                    ELSE during[r] \cup {users'[requests'[r].user]}]
    /\ contended' = (contended \/ \E q, r \in Requests : q # r /\ Guarding(q)' /\ Guarding(r)')
    /\ shared' = shared \cup
          {l \in SessionIds :
             \E q, r \in Requests : q # r /\ Refreshing(q, l)' /\ Refreshing(r, l)'}

-----------------------------------------------------------------------------
\* Requests.

At(r, step) == requests[r].at = step

Serving(r) == At(r, "idle") /\ instances[Home[r]] = "up"

Accept(r, req) == Serving(r) /\ requests' = [requests EXCEPT ![r] = req]

Advance(r, step) == requests' = [requests EXCEPT ![r].at = step]

Finish(r) == requests' = [requests EXCEPT ![r] = Idle]

\* RequireAdmin and RequireJWT look at the claims of the token, not at the account.
AdminTokens == {t \in tokens : t.role = "admin"}

\* POST /api/users: one insert, refused when the email is taken.
CreateUser(r, e, in) ==
    /\ Serving(r)
    /\ AdminTokens # {}
    /\ ~Account(e)
    /\ users' = [users EXCEPT ![e] = [role |-> in.role, status |-> "active",
                                      password |-> in.password]]
    /\ UNCHANGED <<sessions, tokens, requests, instances>>
    /\ Observe

-----------------------------------------------------------------------------
\* PATCH and DELETE /api/users/{user_id}; DELETE disables. (PATCH /api/me takes a
\* display name only, which the model leaves out.)

UpdateReceive(r, e, in) ==
    /\ AdminTokens # {}
    /\ Account(e)
    /\ Accept(r, [Idle EXCEPT
                    !.at = IF MayRemoveAdmin(in) THEN "update:find" ELSE "update:write",
                    !.user = e, !.role = "admin", !.input = in])
    /\ UNCHANGED <<users, sessions, tokens, instances>>
    /\ Observe

UpdateFind(r) ==
    /\ At(r, "update:find")
    /\ Advance(r, IF users[requests[r].user].role = "admin" THEN "update:count"
                                                            ELSE "update:write")
    /\ UNCHANGED <<users, sessions, tokens, instances>>
    /\ Observe

\* Fault: refuses only when no admin is left at all.
UpdateCountOffByOne(r) ==
    /\ At(r, "update:count")
    /\ IF CountByRole < 1 THEN Finish(r) ELSE Advance(r, "update:write")
    /\ UNCHANGED <<users, sessions, tokens, instances>>
    /\ Observe

UpdateCount(r) ==
    /\ At(r, "update:count")
    /\ IF CountByRole <= 1 THEN Finish(r) ELSE Advance(r, "update:write")
    /\ UNCHANGED <<users, sessions, tokens, instances>>
    /\ Observe

\* Fault: empty fields are applied as well.
UpdateWriteAllFields(r) ==
    /\ At(r, "update:write")
    /\ users' = [users EXCEPT ![requests[r].user].role = requests[r].input.role,
                              ![requests[r].user].status = requests[r].input.status]
    /\ Finish(r)
    /\ UNCHANGED <<sessions, tokens, instances>>
    /\ Observe

UpdateWrite(r) ==
    /\ At(r, "update:write")
    /\ LET in == requests[r].input
       IN  users' = [users EXCEPT
                       ![requests[r].user].role = IF in.role = "" THEN @ ELSE in.role,
                       ![requests[r].user].status = IF in.status = "" THEN @ ELSE in.status]
    /\ Finish(r)
    /\ UNCHANGED <<sessions, tokens, instances>>
    /\ Observe

-----------------------------------------------------------------------------
\* POST /api/auth/login.

\* Fault: the password is not verified.
LoginReceiveUnverified(r, e, password) ==
    /\ Account(e)
    /\ ~Disabled(e)
    /\ Accept(r, [Idle EXCEPT !.at = "login:insert", !.user = e, !.role = users[e].role,
                              !.current = password])
    /\ UNCHANGED <<users, sessions, tokens, instances>>
    /\ Observe

\* Fault: a disabled account is let in.
LoginReceiveDisabled(r, e, password) ==
    /\ Account(e)
    /\ users[e].password = password
    /\ Accept(r, [Idle EXCEPT !.at = "login:insert", !.user = e, !.role = users[e].role,
                              !.current = password])
    /\ UNCHANGED <<users, sessions, tokens, instances>>
    /\ Observe

\* The lookup by email and the checks.
LoginReceive(r, e, password) ==
    /\ Account(e)
    /\ ~Disabled(e)
    /\ users[e].password = password
    /\ Accept(r, [Idle EXCEPT !.at = "login:insert", !.user = e, !.role = users[e].role,
                              !.current = password])
    /\ UNCHANGED <<users, sessions, tokens, instances>>
    /\ Observe

\* The session is stored, and both tokens are returned.
IssueTokens(r, s, login) ==
    /\ ~Stored(s)
    /\ sessions' = [sessions EXCEPT ![s] = [user |-> requests[r].user, login |-> login,
                                            revoked |-> FALSE, expired |-> FALSE]]
    /\ tokens' = tokens \cup {[user |-> requests[r].user, role |-> requests[r].role]}
    /\ Finish(r)
    /\ UNCHANGED <<users, instances>>
    /\ Observe

LoginInsert(r) ==
    /\ At(r, "login:insert")
    /\ \E s \in SessionIds : IssueTokens(r, s, s)

-----------------------------------------------------------------------------
\* POST /api/auth/refresh.

\* Fault: an expired or revoked session is accepted.
RefreshReceiveAny(r, s) ==
    /\ Stored(s)
    /\ Accept(r, [Idle EXCEPT !.at = "refresh:load", !.user = sessions[s].user,
                              !.session = s])
    /\ UNCHANGED <<users, sessions, tokens, instances>>
    /\ Observe

\* The lookup by hash and the check of the session.
RefreshReceive(r, s) ==
    /\ Stored(s)
    /\ IsValid(s)
    /\ Accept(r, [Idle EXCEPT !.at = "refresh:load", !.user = sessions[s].user,
                              !.session = s])
    /\ UNCHANGED <<users, sessions, tokens, instances>>
    /\ Observe

RefreshLoad(r) ==
    /\ At(r, "refresh:load")
    /\ IF Disabled(requests[r].user)
         THEN Finish(r)
         ELSE requests' = [requests EXCEPT ![r].at = "refresh:revoke",
                                           ![r].role = users[requests[r].user].role]
    /\ UNCHANGED <<users, sessions, tokens, instances>>
    /\ Observe

\* Fault: the old session stays.
RefreshRevokeSkipped(r) ==
    /\ At(r, "refresh:revoke")
    /\ Advance(r, "refresh:insert")
    /\ UNCHANGED <<users, sessions, tokens, instances>>
    /\ Observe

RefreshRevoke(r) ==
    /\ At(r, "refresh:revoke")
    /\ Revoke(requests[r].session)
    /\ Advance(r, "refresh:insert")
    /\ UNCHANGED <<users, tokens, instances>>
    /\ Observe

RefreshInsert(r) ==
    /\ At(r, "refresh:insert")
    /\ \E s \in SessionIds : IssueTokens(r, s, sessions[requests[r].session].login)

-----------------------------------------------------------------------------
\* POST /api/auth/logout and POST /api/me/password.

\* Any authenticated caller may log a session out, one with a client token too, so
\* no access token is asked for here.
LogoutReceive(r, s) ==
    /\ Stored(s)
    /\ Accept(r, [Idle EXCEPT !.at = "logout:revoke", !.user = sessions[s].user,
                              !.session = s])
    /\ UNCHANGED <<users, sessions, tokens, instances>>
    /\ Observe

LogoutRevoke(r) ==
    /\ At(r, "logout:revoke")
    /\ Revoke(requests[r].session)
    /\ Finish(r)
    /\ UNCHANGED <<users, tokens, instances>>
    /\ Observe

\* Fault: the current password is not verified.
PasswordReceiveUnverified(r, t, current, new) ==
    /\ Accept(r, [Idle EXCEPT !.at = "password:write", !.user = t.user, !.role = t.role,
                              !.current = current, !.new = new])
    /\ UNCHANGED <<users, sessions, tokens, instances>>
    /\ Observe

\* The lookup and the verification of the current password. A disabled user
\* with an unexpired access token is not refused.
PasswordReceive(r, t, current, new) ==
    /\ users[t.user].password = current
    /\ Accept(r, [Idle EXCEPT !.at = "password:write", !.user = t.user, !.role = t.role,
                              !.current = current, !.new = new])
    /\ UNCHANGED <<users, sessions, tokens, instances>>
    /\ Observe

PasswordWrite(r) ==
    /\ At(r, "password:write")
    /\ users' = [users EXCEPT ![requests[r].user].password = requests[r].new]
    /\ Finish(r)
    /\ UNCHANGED <<sessions, tokens, instances>>
    /\ Observe

-----------------------------------------------------------------------------
\* Bootstrap, before an instance serves.

\* Fault: existing admins are not counted.
BootstrapCountIgnored(i) ==
    /\ instances[i] = "count"
    /\ instances' = [instances EXCEPT ![i] = IF BootstrapEnabled THEN "create" ELSE "up"]
    /\ UNCHANGED <<users, sessions, tokens, requests>>
    /\ Observe

BootstrapCount(i) ==
    /\ instances[i] = "count"
    /\ instances' = [instances EXCEPT ![i] =
                        IF CountByRole > 0 \/ ~BootstrapEnabled THEN "up" ELSE "create"]
    /\ UNCHANGED <<users, sessions, tokens, requests>>
    /\ Observe

\* A conflict of the email counts as success.
BootstrapCreate(i) ==
    /\ instances[i] = "create"
    /\ users' = IF Account(BootstrapEmail)
                  THEN users
                  ELSE [users EXCEPT ![BootstrapEmail] =
                           [role |-> "admin", status |-> "active",
                            password |-> BootstrapPassword]]
    /\ instances' = [instances EXCEPT ![i] = "up"]
    /\ UNCHANGED <<sessions, tokens, requests>>
    /\ Observe

\* A failing call: it is logged, and the instance serves all the same.
BootstrapFail(i) ==
    /\ instances[i] \in {"count", "create"}
    /\ instances' = [instances EXCEPT ![i] = "up"]
    /\ UNCHANGED <<users, sessions, tokens, requests>>
    /\ Observe

-----------------------------------------------------------------------------
\* Failures and time.

\* A call fails or the client hangs up.
Abort(r) ==
    /\ ~At(r, "idle")
    /\ Finish(r)
    /\ UNCHANGED <<users, sessions, tokens, instances>>
    /\ Observe

\* An instance dies with its requests and is started again.
Restart(i) ==
    /\ instances' = [instances EXCEPT ![i] = "count"]
    /\ requests' = [r \in Requests |-> IF Home[r] = i THEN Idle ELSE requests[r]]
    /\ UNCHANGED <<users, sessions, tokens>>
    /\ Observe

ExpireSession(s) ==
    /\ Stored(s)
    /\ sessions' = [sessions EXCEPT ![s].expired = TRUE]
    /\ UNCHANGED <<users, tokens, requests, instances>>
    /\ Observe

ExpireToken(t) ==
    /\ tokens' = tokens \ {t}
    /\ UNCHANGED <<users, sessions, requests, instances>>
    /\ Observe

-----------------------------------------------------------------------------
Init ==
    /\ users \in InitialUsers
    /\ sessions = [s \in SessionIds |-> None]
    /\ tokens = {}
    /\ requests = [r \in Requests |-> Idle]
    /\ instances = [i \in Instances |-> "count"]
    /\ during = [r \in Requests |-> {}]
    /\ contended = FALSE
    /\ shared = {}

Receive(r) ==
    \/ "create" \in Endpoints /\ \E e \in Emails, in \in CreateInputs : CreateUser(r, e, in)
    \/ "update" \in Endpoints /\ \E e \in Emails, in \in UpdateInputs : UpdateReceive(r, e, in)
    \/ "login" \in Endpoints /\ \E e \in Emails, p \in Passwords : LoginReceive(r, e, p)
    \/ "refresh" \in Endpoints /\ \E s \in SessionIds : RefreshReceive(r, s)
    \/ "logout" \in Endpoints /\ \E s \in SessionIds : LogoutReceive(r, s)
    \/ /\ "password" \in Endpoints
       /\ \E t \in tokens, current, new \in Passwords : PasswordReceive(r, t, current, new)

Serve(r) ==
    \/ UpdateFind(r) \/ UpdateCount(r) \/ UpdateWrite(r)
    \/ LoginInsert(r)
    \/ RefreshLoad(r) \/ RefreshRevoke(r) \/ RefreshInsert(r)
    \/ LogoutRevoke(r)
    \/ PasswordWrite(r)

Start(i) == BootstrapCount(i) \/ BootstrapCreate(i) \/ BootstrapFail(i)

Next ==
    \/ \E r \in Requests : Receive(r) \/ Serve(r) \/ Abort(r)
    \/ \E i \in Instances : Start(i) \/ Restart(i)
    \/ \E s \in SessionIds : ExpireSession(s)
    \/ \E t \in tokens : ExpireToken(t)

Spec == Init /\ [][Next]_vars

-----------------------------------------------------------------------------
\* Properties.

\* Every variable has its type; a request in flight has the fields its next call
\* needs, and the account and the session it names exist.
TypeOK ==
    /\ users \in Users
    /\ sessions \in [SessionIds -> Session \cup {None}]
    /\ tokens \subseteq Claims
    /\ requests \in [Requests -> Request]
    /\ instances \in [Instances -> {"count", "create", "up"}]
    /\ during \in [Requests -> SUBSET User]
    /\ contended \in BOOLEAN
    /\ shared \subseteq SessionIds
    /\ \A t \in tokens : Account(t.user)
    /\ \A s \in SessionIds : Stored(s) => Account(sessions[s].user)
    /\ \A r \in Requests : ~At(r, "idle") => Account(requests[r].user)
    /\ \A r \in Requests :
         At(r, "logout:revoke") \/ requests[r].at \in RefreshSteps => Stored(requests[r].session)

\* guardLastAdmin works if its calls do not overlap with those of another guarded
\* update: whatever logins, promotions, new accounts, restarts and failures come
\* between them, a system that has an admin account keeps one. (The count
\* includes disabled admins, so does this property.)
AdminRemains == [][~contended' /\ Admins # {} => Admins' # {}]_vars

\* A login or a refresh succeeds on an account that was enabled, had the role in
\* the token and, for a login, had the password presented, all at one moment
\* while the request ran. In particular none succeeds for an account that was
\* disabled all the time, and a changed password does not work any more.
TokensReflectAccounts ==
    [][\A s \in SessionIds : ~Stored(s) /\ Stored(s)' =>
         \E r \in Requests, account \in User :
            /\ account \in during[r]
            /\ requests[r].user = sessions'[s].user
            /\ account.status # "disabled"
            /\ tokens' = tokens \cup {[user |-> sessions'[s].user, role |-> account.role]}
            /\ At(r, "login:insert") => account.password = requests[r].current]_vars

\* Nobody changes the password of an account but the user, who presented a
\* password that was current while the request ran: not an update, not a second
\* creation of the account, not a bootstrap.
PasswordChangesAreAuthorized ==
    [][\A e \in Emails : Account(e) /\ users'[e].password # users[e].password =>
         \E r \in Requests :
            /\ At(r, "password:write")
            /\ requests[r].user = e
            /\ requests[r].current \in {account.password : account \in during[r]}]_vars

\* Rotation: unless two refreshes with it overlapped, a login has at most one
\* session that can be used.
OneUsableSession ==
    \A s1, s2 \in SessionIds :
        /\ Stored(s1) /\ IsValid(s1)
        /\ Stored(s2) /\ IsValid(s2)
        /\ sessions[s1].login = sessions[s2].login
        /\ sessions[s1].login \notin shared
        => s1 = s2

Ended(l) ==
    /\ Stored(l)
    /\ \A s \in SessionIds : Stored(s) /\ sessions[s].login = l => ~IsValid(s)
    /\ \A r \in Requests : ~Refreshing(r, l)

\* When no session of a login can be used any more and no refresh of it is under
\* way, the login is over for good, in every interleaving.
EndedLoginStaysEnded == [][\A l \in SessionIds : Ended(l) => Ended(l)']_vars

\* However many instances start together or again, bootstrap adds an account only
\* to a system without an admin (unless overlapping updates removed the last one,
\* and an access token of a former admin made a new one).
BootstrapMakesTheFirstAdmin ==
    [][\A i \in Instances :
         instances[i] = "create" /\ instances'[i] = "up" /\ users' # users
           => Admins = {} \/ contended]_vars

=============================================================================
