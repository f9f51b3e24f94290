# A TLA+ model of kish

kish collects what is needed to reproduce a test run: a command line tool takes
snapshots of the environment and uploads them with results and scripts; a
backend (`kish api`) keeps the test cases in MongoDB and the files in an object
store, publishes them, and manages the accounts of its users. This directory
holds a TLA+ model of the backend and of the two commands, the TLC configurations
that check it on small instances, and TLAPS proofs.

All paths below are relative to `src/internal/`.

## 1. Inventory

| Component | State | Operations | Correct when |
|---|---|---|---|
| Test case aggregate (`domain/testcase`) and its document (`infrastructure/mongodb/testcase_repo.go`) | one document per case: name, test type, status, visibility, owner, references to artifacts | set or replace a reference, read an old document, write a whole document, patch fields, set status | references are unique per scope and per script; the default scope fits them; old documents are admin-only |
| Test case service and handler (`application/testcase`, `interfaces/http/handler/testcase.go`) | none of its own | create, get, list, PATCH, publish, delete | drafts are private, publication is final, only owner and admins write, deleted cases stay deleted |
| Artifact service and handler (`application/artifact`, `handler/artifact.go`) | none of its own | put, get, list, delete | record and content agree; result and execution environment of a published case are frozen |
| Artifact records (`mongodb/artifact_repo.go`) | one record per case and name | upsert, find, list, delete | every record belongs to a case |
| Object stores (`infrastructure/storage`) | content per key | put, get, delete | a reader never sees half a file |
| Identity middleware (`middleware/auth.go`) and routes | none | resolve a bearer token to a principal, guards per route | a client token never acts as admin |
| Users, bootstrap (`application/user`, `application/bootstrap`) | one document per user, unique email | create, update, disable, change password, bootstrap admin | an active admin remains |
| Sessions (`application/auth`) | one document per refresh token | login, refresh (rotation), logout | a refresh token works once; disabled users are out |
| Client tokens (`application/clienttoken`) | one document per token | create, reveal, list, revoke, look up | revoked and expired tokens are refused |
| `kish upload` (`cli/upload.go`) | none; talks to the API | build the list of files, create or reuse a case, upload one by one | all files arrive, or the user learns which did not |
| `kish detect` (`cli/detect.go`, `application/detect`) | none | run collectors with timeouts, write a snapshot | a failing collector is recorded and stops nothing |
| Configuration, cryptography, DTOs | none | parse, hash, encrypt, encode | - |

**Interaction.** A request passes the identity middleware, its handler and one
service; the service makes a sequence of calls to the repositories and the
object store. Each call is atomic (one MongoDB document, one rename or S3 PUT),
the sequence is not: there are no transactions, no locks, no version numbers
and no retries, every request runs on its own goroutine, and several `kish api`
processes may share the stores. The services share state only through the
stores.

**What is hard.** Everything a service decides on was true when it read it.
PUT artifact is the extreme case: it reads the case, streams the body into the
store for as long as the upload takes, then writes the *whole* case back from
the copy it read. Between any two calls another request can run, the client can
hang up (which cancels the context of the remaining calls), a store call can
fail or the process can die; nothing is undone. Reads have the same shape: the
right to read is checked on one copy of the case, record and content come from
two more calls. On the client's side, a lost answer does not say whether the
server has done the work, or will do it later; and `kish detect` depends on
commands that fail or hang. `PROJECT.json` lists the hazards with their lines.

## 2. Modules

| Module | Contents |
|---|---|
| `TestCaseDocument` | Data and rules without state: the aggregate and its operations, the stored document and what reading one yields, artifact types, who may manage a case, what a published case still accepts |
| `PublicationLifecycle` | Abstract: what the package comment of `domain/testcase` promises about the life of a case |
| `TestCaseApi` | The state machine: the three stores and the requests in flight, one action per store call of every mutating endpoint |
| `ReadAccess` | Extends `TestCaseApi` with readers: every call of GET on a case and its artifacts as a step, GET and the list filter as functions of the collection |
| `UploadCli` | Extends `TestCaseApi` with the process of `kish upload` and with another client of the same case |
| `Accounts` | Users, sessions, access tokens and bootstrap, one action per database call |
| `ClientTokens` | Client tokens, how a bearer becomes a principal, the guards of the routes |
| `ObjectStore` | Abstract: the port that the artifact service uses, with atomic puts, gets and deletes |
| `ContentStores` | Its two implementations: the local directory by calls of the file system, S3 by calls of the client |
| `Detect` | One run of `kish detect`: every command, file and decision of the six collectors, and other runs in the same directory |
| `MCTestCaseApi`, `MCReadAccess`, `MCUploadCli`, `MCAccounts`, `MCClientTokens`, `MCContentStores`, `MCDetect` | Values of the constants for TLC, symmetry, bounds |
| `TestCaseApiProofs` | Lemmas about the aggregate's operations; theorems about `TestCaseApi`: types and references |
| `TestCaseSafetyProofs` | Theorems about `TestCaseApi`: access, publication, content, the lifecycle, the work a request has left |
| `ReadAccessProofs` | Theorems about `ReadAccess` |
| `UploadCliProofs` | Theorems about `UploadCli`, which rest on those about `TestCaseApi` |
| `AccountsProofs` | Theorems about `Accounts` |
| `ClientTokensProofs` | Theorems about `ClientTokens` |
| `ContentStoresProofs` | Theorems about `ContentStores`, with the refinement of `ObjectStore` |
| `DetectProofs` | Theorems about `Detect` |

Three modules compose: `ReadAccess` and `UploadCli` run their processes against
the actions of `TestCaseApi`, which uses its object store as `ObjectStore`
states it; that the stores behave so is what `ContentStores` is about.

### How the state corresponds to the code

- `testCases[c]` is the document with `_id` c, `None` if there is none. Name,
  description and tags are one field (`name`): every rule treats them alike.
  Timestamps, sizes and media types are left out. Status and visibility may be
  `"missing"`, as in documents older than these fields; `FromDocument` is what
  a read makes of them. The inline artifacts of such documents are ignored: the
  API never writes them.
- `artifacts[c][n]` is the record with the unique key (case, name); of it, type
  and digest are kept. `objects[c][n]` is the content under
  `testcases/{c}/artifacts/{n}`: a payload, that is, a body and, if it is an
  environment snapshot, the scope it states.
- `requests[r]` is one request being served: `at` names the store call it makes
  next, the other fields are its local variables (`seen` is the copy of the case
  it read). `Idle` slots are free.
- `issued`, `raced` and `torn` are history variables. They are never read by a
  step that models code: `issued` stands for the freshness of generated ids,
  `raced` collects the cases that were written on a publication state (status,
  visibility) that had changed since the request read it, `torn` the artifacts
  whose two writes overlapped with other ones or were cut short.

### How the actions correspond to the code

| Endpoint | Actions, in order |
|---|---|
| POST testcases | `CreateMetadata` (one insert) |
| POST publish | `PublishReceive` (read and checks), `PublishWrite` (UpdateStatus) |
| PATCH testcase | `UpdateReceive`, `UpdateWrite` (UpdatePartial) |
| PUT artifact | `PutReceive`, `PutAuthorize` (CheckOwnership, not for admins), `PutLoad` (FindByID and the publication rule), `PutStore` (PutObject), `PutMeta` (Upsert), `PutLink` (Update, for snapshots, results and scripts) |
| DELETE artifact | `DropReceive`, `DropAuthorize`, `DropFind`, `DropGuard` (for results and snapshots), `DropObject`, `DropMeta` |
| DELETE testcase | `DeleteReceive` (read and checks), `DeleteList`, then `DeleteObject` and `DeleteMeta` per artifact, `DeleteCase` |
| any | `Abort`: a call fails, the client hangs up, or the process dies |

A read that is followed by nothing but checks is part of the accepting action: a
request that is refused there changes nothing and is not modelled as a step.
Reads on which later writes depend are steps of their own. DELETE testcase
removes the artifacts in the order of their names; the model takes any order,
which allows more. The two reads that publish and PATCH make after their write
only fill the response.

### `ReadAccess`

`Readable(c, p)` is the check of GET on a stored document, `Listed` the result of
the list endpoint: `buildListFilter` for the selector, with what the handler adds
for callers who are not admins, on the raw fields. A list with a search text
gives MongoDB two `$or` keys in one document; both are taken to apply.
`reads[g]` is one read: `at` names the next call, `record` and `content` are what
it has got. Its other fields are history: whether the case was readable at some
moment since the request came (`permitted`), whether it was not (`hidden`),
whether the artifact was removed, torn or half-written meanwhile (`disturbed`),
and whether its name came from a reference (`followed`). `removed` is history
too.

| Endpoint | Actions, in order |
|---|---|
| GET artifacts of a case | `ListArtifacts`, `CheckReadable`, `ListRecords` |
| GET artifact | `GetArtifact`, `CheckReadable`, `FindRecord`, `GetObject` |
| GET case, and then what it refers to | `GetCase`, `Follow`, then as GET artifact |

`Follow` is what a browser or `kish` does with the case it was given: it asks
later for the artifacts the case refers to.

### `UploadCli`

`cli` is the process: its flags, the case it created or was given, the number of
the artifact to send next and the request slot in which the server works on it.
`Invocations` are the command lines; `Artifacts(flags)` the list `runUpload`
builds from one, in its order: snapshot, result, scripts, other files. `Start`
refuses a command line whose files cannot all be read. `CreateCase` is a POST
whose answer may get lost (then the case exists and its id is never learned),
`CreateFails` one that creates nothing. `Send` puts a PUT into a free slot of the server, `SendFails` does not
reach it, `Served` is each step of that PUT, the last of which answers, or the
answer is lost. `Kill` ends the command at any moment; a PUT under way stays in
its slot and may finish, or not, at any later time. `OthersSend` and
`OthersServed` are another client, and what killed runs left behind. `meddled`
is history: the names (or the case itself) that anybody but this run has written
since it began.

### `Accounts`

- `users[e]` is the document whose unique email is e; the generated id stands
  for it one to one and emails never change, so one name is enough. Display
  names are left out, and with them PATCH /api/me, which changes nothing else.
  Role and status may be `"other"`: PATCH does not validate them.
- `sessions[s]` is a refresh token; `login`, the session that the login created,
  is history. `tokens` holds the claims of the access tokens that have not
  expired. A client may use any session and any token it was ever given.
- `instances[i]` is how far `kish api` process i has started: `"count"` and
  `"create"` are the two calls of bootstrap, `"up"` serves. `Home[r]` is the
  process of request slot r; `Restart` ends its requests.
- `during`, `contended` and `shared` are history: the states of the account a
  request is about since the request came; whether two guarded updates
  overlapped; the logins of which two refreshes overlapped. `Observe` writes them
  in every step.

| Endpoint | Actions, in order |
|---|---|
| POST users | `CreateUser` (one insert) |
| PATCH, DELETE users | `UpdateReceive`, `UpdateFind` and `UpdateCount` (the guard, for demotions and disabling), `UpdateWrite` |
| POST login | `LoginReceive` (lookup and checks), `LoginInsert` |
| POST refresh | `RefreshReceive` (lookup and check), `RefreshLoad`, `RefreshRevoke`, `RefreshInsert` |
| POST logout | `LogoutReceive`, `LogoutRevoke` |
| POST me/password | `PasswordReceive` (lookup and verification), `PasswordWrite` |
| start of a process | `BootstrapCount`, `BootstrapCreate`, or `BootstrapFail` |

### `ClientTokens`

`tokens[t]` is the document of a token; the id stands for the raw token, its hash
and its ciphertext. `encrypted` is FALSE in records from before the ciphertext
was stored (`LegacyToken`). Time appears as `Expire`. `requests[r]` has what the
request came with (`bearer`), who sent it (`actor`), and the principal it got.
`known[u]` are the raw tokens user u has seen and can come with, `shared[u]`
(history) those another user gave him (`Share`). A request's field `late` is
history too: its token was invalid already when it came.

| Step | Actions, in order |
|---|---|
| any request with a bearer | `ReceiveJWT`, or `ReceiveToken`, `Lookup` or `LookupFails`, `Touch` |
| POST token | `CreateToken` |
| GET tokens, GET token/reveal | `ListTokens`, `RevealToken` |
| DELETE token | `RevokeFind`, `RevokeWrite` |
| all other endpoints | end as a `"read"` or `"write"` once the guards have admitted them |
| any | `Abort` |

### `ContentStores`

`calls[p]` is a call of the port under way. `files` are the contents of the files
(i-nodes), `dir` maps keys to files, `temps` are the temporary names, `bucket` is
what S3 has. `backend` is the store the configuration names.
`PutCreate`, `PutCopy` (one piece), `PutRename` and `PutFails` are the steps of a
local put; `GetStat`, `GetOpen`, `GetRead` and `GetClose` of a get, whose body is
read by the caller piece by piece; `PutSend` and `GetFetch` are the requests to
S3; `Delete` is one call in both. `Return` hands the result over, `Fail` is an
error before anything happened, `Crash` ends all calls and leaves the directory
as it is. A file that has lost its name exists until its last reader closes it.
`orphans` (history) are the temporary files that crashes left.

### `Detect`

`proc` is the run: the step it is at, the reports of the collectors so far, the
raw files its snapshot refers to, what has failed, and whether a command hangs.
`machine` is the set of tools installed. Each collector is a list of steps; each
command, file access and parser may fail where the code handles an error
(`Fails`), be it by a warning, by a status, by a fallback or by going on as if
nothing were the matter. A command may hang until its timeout (`Hang`), and it may
leave a process behind that keeps the pipe open (`Block`, `Unblock`); the upload,
whose HTTP client has no timeout, may wait for its answer (`Unanswered`,
`Answered`). `Finish` is what `runDetect` does with the snapshot, and a run that is
killed (`Kill`) leaves nothing but its files. `Tick` is the clock, whose seconds are in the
names of the raw files, and `OtherRun` another run that writes one file.

### Faults

Definitions introduced with a comment `Fault:` are not part of the
specification. Each is a variant of the definition after it with a plausible
mistake in it, and is used to see that the properties notice.

## 3. What is checked

Sizes are those of `tlc -workers 2` on a small machine.

| Configuration | Question | Instance | Distinct states |
|---|---|---|---|
| `TestCaseApi_race` | Do drafts stay private, and is publication final, when publish, PATCH and uploads of result, script and execution snapshot interleave? | 1 case, 1 name, 2 requests, 2 test types | 939 000 up to the first stale write |
| `TestCaseApi_serial` | One request at a time, with failures: is the publication lifecycle implemented, do all artifact records have a case? | every endpoint, valid and invalid inputs, 2 names | 417 000 |
| `TestCaseApi_answered` | Does every request end while uploads keep coming? Does one that was authorised long ago write to somebody else's case? | fair; PUT and DELETE artifact, DELETE testcase; the owner and a stranger, 2 names, 2 requests | 80 000 |
| `ReadAccess_reads` | Can a reader get what he may never read, half of an artifact, or a dead reference? Do list and GET agree? | every writing endpoint but POST (which needs no second step), owner, admin, admin with a client token and anonymous as writers; owner and anonymous as readers; 1 reader, 1 writer | 510 000 |
| `UploadCli_upload` | Does success of `kish upload` mean that everything is stored? | 2 runs of the command, with and without a case id, a result and a script of one name; killed and cut off anywhere; another client that uploads and deletes | 1 710 000 |
| `Accounts_admins` | Does an admin remain when accounts are created, promoted, demoted and disabled? Does bootstrap only add the first one? Are tokens issued only for what an account was while the request ran? | 2 users, 2 instances that start and restart with a request each, a fresh database and one in use | 481 000 up to the first overlap of guarded updates |
| `Accounts_sessions` | Has a login one usable session, and does it stay over when it is? Who can change a password, and what does it open? | 1 user, 2 passwords, 3 sessions, 2 requests | 293 000 |
| `ClientTokens_tokens` | Can an invalid token act, or become valid again? Who gets to see a raw token? | 2 users, 2 tokens, 2 requests, one token handed over once | 629 000 |
| `ContentStores_stores` | Do both stores implement the port? Does a reader see whole objects, and who leaves temporary files? | 3 callers, 1 key, 2 contents of 2 pieces, 3 files | 83 000 |
| `Detect_detect` | Does each collector report honestly, does the run end, and is the snapshot kept? | fair; any 2 operations fail or hang, 3 sets of tools, 2 seconds, one file of another run | 619 000 |

`DraftIsPrivate` and `PublicationIsFinal` are stated for cases that no request
has written on a stale publication state; what the proviso excludes is exactly
what the violations below show. The configuration `race` therefore stops
exploring at the first stale write (`NotYetRaced`): with one case, both
properties are true of everything beyond, because `raced` never shrinks.
`ContentMatchesMetadata` excludes in the same way artifacts whose last two
writers overlapped, and includes that a later request which runs alone repairs
them. `PublicationIsFinal` includes the hazard that looks worst in the code, a
result uploaded to a draft that is published during the upload: its link write
is stale, so the proviso applies, and every link write that is *not* stale
carries the published facts over unchanged.

`AdminRemains` says that `guardLastAdmin` works when no two updates that go
through it overlap, whatever other requests do; `OneUsableSession` excludes
logins of which two refreshes overlapped, in which both can pass the check
before either revokes. `Accounts_admins` stops at overlapping updates because
nothing is claimed of what follows.

`AnswersWerePermitted` is what three separate calls can give: the answer may be
older than the moment it arrives, but not older than the request.
`AnswersAreWhole` and `ReferencesResolve` exclude artifacts that a writer had
half-written, had torn or had removed while the reader worked; the second
excludes a case that was hidden meanwhile, too. `ListsAgreeWithGet` excepts
documents without a status from one direction (see below).

`SuccessMeansStored` speaks of the names that nobody but this run wrote since it
began. Requests of an earlier, killed run that write late count as others; that
one of them can overwrite the file of the run that reports success is a fact of
HTTP and not an error of the command. If the case was not written either, it
refers to the file.

`InvalidTokensAreRefused` takes the moment at which the request came as the
reference: a token that is revoked while its request is being looked up may
still be used once. `ForeignTokensWereShared` says that a user knows a raw token
of another one only if it was handed to him.

`ImplementsObjectStore` is the refinement of `ObjectStore`: `Take`, the moment at
which the abstract store acts, is the rename of a put (or the request to S3), the
open of a get (or its stat, if that finds nothing), the remove of a delete.

`OnlyManagersWrite` compares the writer with the owner the case has when it is
written, which may be long after the request was authorised. It holds because a
case never changes its owner and an id never comes back after a deletion: were ids
reused (`CreateMetadataReusingIds`), an upload authorised for the old case would
write to the new one of somebody else, which takes the two requests of `answered`.

In `Detect`, `StatusesAreHonest` says that a collector reports success only if no
step of its own failed, and anything else only if one did or a tool it asks for is
missing. It excepts, in both directions, the five steps (`Silent`) whose failure
leaves no trace in the status or the warnings:

| Step | Code | After a failure |
|---|---|---|
| `gethostname` | `linux_system.go:92` | the `hostname` command is asked, and when it answers nothing is noted |
| `dockerenv` | `container.go:58` | whatever the error of the `Stat` is, the data says that this is no container |
| `cgroup` | `container.go:67` | the raw data lacks the file |
| `rocm version` | `rocm.go:49` | the data says that the version is unknown |
| `prefix` | `python_packages.go:76` | the data has no `sys.executable` and no `sys.prefix` |

Lines that a parser passes over as unusable, without an error, are not steps.
`RawFilesAreTimely` says that a raw file the snapshot refers to may have been
overwritten, but only by a run whose collector started in the same second.

`ImplementsLifecycle` is the refinement of `PublicationLifecycle` under the
mapping `StageOf`: absent, draft, private, public, gone; a draft that is public
is mapped to a stage the abstract specification does not have.

**Bounds.** One case suffices because no action relates two cases. Two requests
are enough for every race found, as each hazard is one decision overtaken by one
write. The servers have no counters: retries are new requests, and a request slot
can be reused for ever, so the depth is not bounded, and a third request can
repair what two overlapping ones left. Sessions and client tokens are never
deleted, so the number of ids bounds the logins and tokens of a run: three
sessions allow two logins one of which is refreshed, or two rotations of one, and
every pair of them at once; two tokens allow one of each user, or two of one.
`OneShared` lets one token be handed over; nothing depends on several. `MaxRuns`
allows a failed upload and its repetition, `CliSlots` a request that the first
one left behind. In the stores, three callers are two writers and a reader,
each with a file of his own. In `Detect`, `MaxFaults` = 2 lets two collectors
fail, or one command fail and another hang, `MaxSecond` and `MaxOthers` let
another run write in the same second and in another one. Where requests, tokens,
users, sessions, callers or files are interchangeable they are symmetric (never
in a run with a liveness property).

**Fairness.** Two runs need it. `answered` assumes weak fairness of each request's
next call: the Go runtime schedules every runnable goroutine, and each store call
returns or fails. `detect` assumes weak fairness of the run's own next step
(`Step`): the process is scheduled and the timeout of a command fires
(`runner.go`). No fairness is assumed of clients, of failures, of servers, or of
what a command leaves behind: `DetectEnds` therefore ends in the alternatives that
such a process holds the pipe, or that the server has not answered the upload.

**Deadlock** is checked but in `detect` and `names`: a run of a command ends, and
the number of runs is bounded. The API can always be called.

### What does not hold

Two sentences of the repository have a run that refutes them.

| Configuration | Sentence | What happens |
|---|---|---|
| `TestCaseApi_draft_public` | "draft TestCases are always private" (`domain/testcase/testcase.go:19`) | An upload reads the draft; the case is published; a PATCH of the visibility is accepted; the upload's link write restores status draft; the PATCH sets visibility public. |
| `UploadCli_names` | "uploads each file as a named artifact" (`cli/upload.go:55`) | The base name goes into the URL as it is (`:309`): `run#1.log` and `run#2.log` both arrive as `run`, and the second replaces the first. The command reports success. |

The models show the following as well; each is a short sequence of the actions
named, and no property states the opposite.

Cases and artifacts:

- "result and exec env are immutable" (`domain/testcase/testcase.go:11-12`): an
  upload of type other under the name of the result is accepted after the
  publication and replaces its content, because the rule looks at the type of
  the upload (`application/artifact/service.go:85`; `PutLoad`, `PutStore`).
- "test_type can only be edited while status=draft" (`testcase.go:21`):
  a PATCH that saw the draft is written after the publication (`UpdateReceive`,
  `PublishWrite`, `UpdateWrite`).
- "SHA256 is the hex-encoded SHA-256 digest of the stored content"
  (`domain/artifact/artifact.go:69`): a replacement stores the content and fails
  before the record (`PutStore`, `Abort`).
- Two uploads to one case each write the whole case back from the copy they read
  before, so the reference that one of them has linked is lost when the other links
  (`PutLoad` twice, `PutLink` twice); record and content are there, but the case
  does not name the artifact.
- An old document without a status counts as private and published. PATCH can make
  it public, and GET then shows it to everybody, while the list filter, which
  looks at the stored fields (`testcase_repo.go:248`), finds it for admins only
  (`UpdateWrite`, `Listed`).

Accounts and tokens:

- "returns ErrLastAdmin when the pending update would leave the system with zero
  active admin users" (`application/user/service.go:158`): disabled admins are
  counted (`:183`), so the last active one can be disabled (`UpdateCount`).
- "ErrLastAdmin is returned when an operation would leave the system with no
  admin" (`:16`): two demotions both count two admins and both write
  (`UpdateCount` twice, `UpdateWrite` twice).
- "All existing sessions are revoked when a user is disabled"
  (`domain/user/user.go:33`): nothing revokes them (`UpdateWrite`); they work
  again when the account is enabled. Nor does the lookup of a client token look
  at the user (`application/clienttoken/service.go:195`): the tokens of a disabled
  user go on working.
- "If no admin user exists and bootstrap is enabled, it creates the initial admin
  account" (`application/bootstrap/service.go:3`): when the email belongs to a
  former admin, the conflict counts as success (`:123`; `BootstrapCreate`).
- The scopes of a client token (`domain/clienttoken/clienttoken.go:16`) restrict
  nothing: no route uses `RequireScope` (`middleware/auth.go:183`; `Admitted`).

Commands:

- Files with the same base name are one artifact for `kish upload`, and the last
  one stays (`SameName` in `MCUploadCli`; `SuccessMeansStored` speaks of the last
  file sent under a name). When they are a result and a script, the case refers to that
  one artifact as both.
- "partial indicates the collector collected some data but one or more sub-steps
  failed" (`domain/environment/types.go:85`): after the five failures above the
  status is success (`ROCm`, `Container`, `LinuxSystem`, `PythonPackages`).
- The uploads of `kish detect` and `kish upload` use the default HTTP client, which
  has no timeout (`cli/upload.go:325`): a server that accepts the connection and never
  answers holds the command until it is killed (`Unanswered`).
- "slow or hanging commands do not block detection indefinitely"
  (`infrastructure/command/runner.go:42`): they do if a process that the command has
  started keeps its output open after the kill (`Block`).
- With `--case-id` and without `--output`, a snapshot whose upload fails is lost;
  that the API or the token is missing is noticed only after the detection
  (`Finish`). In both cases the command reports the failure.

## 4. What is proved

For any sets of cases, names, callers, users, tokens, uploads, patches and keys,
and any number of concurrent requests, readers and calls:

| Theorem | Module | Statement |
|---|---|---|
| `TypeCorrect` | `TestCaseApiProofs` | `Spec => []TypeOK` |
| `RefsCorrect` | `TestCaseApiProofs` | `Spec => []RefsAreConsistent` |
| `OnlyManagers` | `TestCaseSafetyProofs` | `Spec => OnlyManagersWrite` |
| `DeletionIsFinal` | `TestCaseSafetyProofs` | `Spec => DeletedStaysDeleted` |
| `DraftsPrivate` | `TestCaseSafetyProofs` | `Spec => []DraftIsPrivate` |
| `PublicationFinal` | `TestCaseSafetyProofs` | `Spec => PublicationIsFinal` |
| `ContentAgrees` | `TestCaseSafetyProofs` | `Spec => []ContentMatchesMetadata` |
| `RecordsGoWithTheirCase` | `TestCaseSafetyProofs` | `Spec /\ []NoOverlap => []ArtifactsBelongToCases` |
| `UnracedImplementLifecycle` | `TestCaseSafetyProofs` | `Spec /\ [](raced = {}) => ImplementsLifecycle`, that is, `Lifecycle!Spec` |
| `RequestsImplementLifecycle` | `TestCaseSafetyProofs` | `Spec /\ []NoOverlap => ImplementsLifecycle` |
| `OneRequestAtATime` | `TestCaseSafetyProofs` | with one request slot, `Spec => []ArtifactsBelongToCases /\ ImplementsLifecycle` |
| `FewerCallsLeft` | `TestCaseSafetyProofs` | every step of a request at work but the listing of a deletion lowers `CallsLeft` |
| `ReadTypes` | `ReadAccessProofs` | `ReadSpec => []ReadTypeOK` |
| `ListsAgree` | `ReadAccessProofs` | `ReadSpec => []ListsAgreeWithGet` |
| `AnswersPermitted` | `ReadAccessProofs` | `ReadSpec => []AnswersWerePermitted` |
| `AnswersWhole` | `ReadAccessProofs` | `ReadSpec => []AnswersAreWhole` |
| `ReferencesAreGood` | `ReadAccessProofs` | `ReadSpec => []ReferencesResolve` |
| `CliTypeCorrect` | `UploadCliProofs` | `CliSpec => []CliTypeOK` |
| `CommandBreaksNothing` | `UploadCliProofs` | `CliSpec =>` the six properties of concurrent requests above, from `RefsAreConsistent` to `ContentMatchesMetadata` |
| `SuccessStored` | `UploadCliProofs` | `CliSpec => []SuccessMeansStored` |
| `AccountTypes` | `AccountsProofs` | `Spec => []TypeOK` |
| `LastAdminKept` | `AccountsProofs` | `Spec => AdminRemains` |
| `LoginsReflectAccounts` | `AccountsProofs` | `Spec => TokensReflectAccounts` |
| `PasswordsAreTheUsers` | `AccountsProofs` | `Spec => PasswordChangesAreAuthorized` |
| `EndedLogins` | `AccountsProofs` | `Spec => EndedLoginStaysEnded` |
| `RotationKeepsOneSession` | `AccountsProofs` | `Spec => []OneUsableSession` |
| `BootstrapOnlyFirst` | `AccountsProofs` | `Spec => BootstrapMakesTheFirstAdmin` |
| `TokenTypes` | `ClientTokensProofs` | `Spec => []TypeOK` |
| `InvalidForGood` | `ClientTokensProofs` | `Spec => InvalidStaysInvalid` |
| `InvalidRefused` | `ClientTokensProofs` | `Spec => []InvalidTokensAreRefused` |
| `TokensStayWithOwners` | `ClientTokensProofs` | `Spec => []ForeignTokensWereShared` |
| `StoreTypes` | `ContentStoresProofs` | `Spec => []TypeOK` |
| `WholeObjects` | `ContentStoresProofs` | `Spec => []ReadersSeeWholeObjects` |
| `TempFiles` | `ContentStoresProofs` | `Spec => []OnlyCrashesLeaveTempFiles` |
| `StoresImplement` | `ContentStoresProofs` | `Spec => ImplementsObjectStore`, that is, `Store!Spec` |
| `DetectTypeCorrect` | `DetectProofs` | `Spec => []TypeOK` |
| `EveryCollectorHasReported` | `DetectProofs` | `Spec => []EveryCollectorReports` |
| `ReportsAreHonest` | `DetectProofs` | `Spec => []StatusesAreHonest` |
| `RawFilesAreOfTheirSecond` | `DetectProofs` | `Spec => []RawFilesAreTimely` |
| `SuccessfulRunsAreKept` | `DetectProofs` | `Spec => []SuccessMeansKept` |

The assumptions are those the modules name: the empty user id is not a user,
`None` is none of the values it stands beside (`NoneIsNoValue`, `NoneIsNoDocument`, `NoneAsFlag`,
`NoneIsNoOperation`, `NoneIsNoToken`, `NoneIsNoData` and others), bootstrap has a
complete configuration, the set of emails is finite (`EmailsAreFinite`, for the
count of admins), `"generic"` is a test type and `""` is not, `"jwt"` is not the
id of a client token, an object has at least one piece, the values of `--output`
are not the base names of the raw files and of the default snapshot
(`OutputsAssumption`), and the inputs and command lines have the shape the
handlers and flag parsers decode (`InvocationsAssumption` and others).

**The argument.** Types and references need one inductive invariant, `TypeInv`:
neither is inductive alone, because a link write stores what a request *read*.
`WellFormed` therefore says what a request knows at each step: the snapshot it
carries is a test case with consistent references, and the checks it passed
still hold of that snapshot. It is preserved because only the request itself
changes its fields, and it gives every write what it needs. `ReplaceRequest`
and `AdvanceOK` carry that argument through the steps, `TestCasesOK` and
`ContentOK` treat the stores. The first part of `TestCaseApiProofs` has the lemmas on
sequences of references: `UpsertRefEntries` says what overwriting the first
match or appending yields, `LinkedRefs` that linking keeps references
consistent, `LinkedKeepsFacts` that linking what a published case still accepts
leaves its result and execution environment alone.

All of this is proved of `AnyStep`, which is `Next` without the bounds a run puts
on endpoints and uploads: any client may send any upload to any endpoint. `Next`
is a case of it (`NextIsAnyStep`), and so are the steps of `kish upload`
(`CommandSteps`), whose uploads are files of its own.

More invariants, each a strengthening of `TypeInv`, carry the other safety
theorems. All were model-checked before they were proved.

- `AccessInv`: a request past its ownership check may write the case it names,
  as the case stands *now* and not only as it stood when it was read, because an
  owner is assigned at creation and carried over by every write; or the case is
  gone and its id is spent. Together with
  "the id of a case that exists was issued" it gives `OnlyManagers` and
  `DeletionIsFinal`: every write but the creation is guarded by the existence of
  the document, and a create takes an id not issued yet.
- `LifeInv`: while a case is not in `raced`, what an upload, a publish or a
  PATCH has read of it and is about to decide on still holds (`SeenHolds`): a
  draft was private, and a published case has the facts it had.
  `UnracedWrite` is the core: a write that leaves the case out of `raced` keeps
  a published case published, with its test type, result and execution
  environment. The two theorems follow with `LinkedKeepsFacts`.
- `ContentInv`: until an artifact is torn, at most one request is between its
  two writes; during that time the object is what the record will say, and
  otherwise record and object match. `ObjectWritten`, `MetaWritten` and
  `NothingWritten` treat the three kinds of step.
- `LifeInv` also carries the refinement of `PublicationLifecycle`: in behaviours
  without a stale write (`[](raced = {})`), whatever else overlaps,
  `LifecycleStep` maps every step to one of the abstract specification or to a
  stutter, by the one case it writes (`OneCaseMoves`, `CaseMoves`).
- `SerialInv` is for behaviours in which the requests of a case never overlap
  (`NoOverlap`; requests of different cases may): what a request has read of its
  case is what the case is, and a deletion has listed every record that is left
  (`Undisturbed`). So no write is stale, and the case goes only after its
  records. Without the hypothesis both statements are false, an upload that
  overlaps a deletion leaves a record behind, and the theorems therefore state
  it. `OneRequestAtATime` discharges it for one request slot.
- `WorkInv` has what `FewerCallsLeft` counts: a deletion's list is finite and
  contains the artifact it is at.

For `Accounts`, `TypeInv` says again what a request knows (`RequestOK`): the
account and the session it names exist, because neither is ever deleted, and the
fields its next call uses are set. `AdminInv` is the argument for the last admin:
while guarded updates have not overlapped, there is one at most, and when it is
past its guard there is an admin besides the account it is about to change. The
guard gives that in two ways: the count found two admins, or the account was no
admin and, since an admin's token is needed to get here, somebody else was
(`AdminPower`, `PowerSource`: such a token comes from an admin account or from
another token's power). Nobody but that one update takes admins away
(`AdminsKept`), so the other admin is still there when it writes.

Three more invariants extend it. `KnownInv` says that what a request has learned
of an account, and so what it will put into a token or accept as the current
password, was true of one of the states in `during`: the account is read after
the request came, and `Observe` records every state since. `RotationInv` says of
a login whose refreshes have not overlapped that one refresh of it at most is
under way, that one session of it at most is usable, and that a usable session is
the one the refresh came with, while it has not yet revoked it. `BootInv` says
that an instance past its count finds no admin, or the bootstrap account in
place, whose unique email then stops the insert. `EndedLogins` needs only
`TypeInv`.

For `ClientTokens`, `TokenInv` says what a request holds:
a login acts for its sender (`ActsForSender`), a request whose token was invalid
on arrival never gets past the lookup (`Refused`, because invalid tokens stay so),
and the raw tokens a user knows are his own or shared with him (`Known`): create,
list and reveal show the caller's own records, and a request that came with a
client token, which may be shared, is not admitted to them.

For `ReadAccess`, every behaviour of `ReadSpec` is one of `Spec` with readers on
top, so the invariants above hold; `ReadInv` adds `ReadOK` to `ContentInv`: a read
past its check was permitted, and the record it holds is the artifact's unless
it is marked disturbed, because whoever changes it is halfway or leaves the
artifact torn or removed, which `Watched` notes; with `ContentInv` the object then
matches it. `RefInv` is the argument for references: an
artifact that a case, or the copy a request will write back, refers to has a
record, or had one that was removed (`RefsRecorded`, `SeenRecorded`): the record
is written before the link, by the same request. `ListsAgree` needs no history:
it is the type invariant of the documents and the two definitions.

For `ContentStores`, `Inv` joins four facts: the arguments of a call stay
(`ArgsOK`), a local call never has parts of the other store (`BackendOK`), a put
has written a prefix of its content and a get has read a prefix of what it opened
(`ProgressOK`), and names are owned (`NameOK`: the file of a put has a temporary
name that no other call knows, a file under the name of a key is whole). The last
is the core: it is why a rename publishes a whole object, why the file a reader
holds never changes, and why a failing put can remove its file without harm. Under
the refinement mapping each step of the stores is a step of `ObjectStore` or a
stutter: `PutCreate`, `PutCopy` and `GetRead` are
stutter, `Return`, `Fail`, `PutFails` and `GetClose` end a call.

For `UploadCli`, `CommandIsAClient` says that every behaviour of `CliSpec` is one
of `AnySpec`, which gives `CommandBreaksNothing`. `ProgressInv` is the argument
for `SuccessMeansStored`: it adds to `AccessInv` that the artifacts before the
next one are stored (`Stored`: record, content, and the reference in the case,
each unless somebody else wrote it), and that the request the command waits for
has done the part of the work its position says (`UnderWay`). `LinkRefers` and
`LinkKeepsOthers` say why the link write of a later file, which writes the whole
case back from a copy, keeps the references to the earlier ones: the copy was
read after they were made, or somebody else has written the case since, which
`meddled` notes. `LastMoves` treats two files of one name.

For `Detect`, `Inv` has three parts. `RunOK` counts the reports by the step the
run is at (`Served`) and says of each report, and of the warning of the collector
at work, what has failed in it so far, the `Silent` steps apart: the proof is what
shows that there are no more than those five, since a step that is left out of
`Silent` must be told by a status or a warning on every path; `FilesOK` that a
file named for a second was written by a collector that had started in it, which
holds of every run in the directory; `KeptOK` that what the run refers to, or has
written, is there: files are replaced and never removed.

### What is only model-checked

- `EveryRequestEnds` and `DetectEnds`: liveness under fairness is out of the
  prover's reach. What makes a request end is proved: `FewerCallsLeft` says that
  each call leaves it fewer, whatever other requests do. That the next call can
  always be made, and therefore is, is what TLC checks.
- The two violations of section 3.

All models are written without recursion, with folds, functions and quantifiers.

## 5. Not modelled

- Cryptography, configuration, the encoding of requests, answers and documents
  (JSON, BSON), name validation, limits, paging and sorting of lists, the display
  names of owners, CORS, logging, error texts: they have no state, and no
  property here depends on them. `Names` are the names `ValidateArtifactName`
  accepts; hashes and ciphertexts stand for what they are made from.
- The repetition of a case id: an id is the second of its creation and 16 random
  bits (`generateCaseID`), and the model takes it as never used before. An insert
  of an id in use fails; one that was deleted within the same second could return.
- The inline artifacts of old documents: the API never writes them.
- Graceful shutdown (`cli/api.go`): to the services, a request that is cut off is
  an `Abort`, and one that is waited for is an ordinary one.
- `RevokeAllByUserID`: nothing calls it.
- MongoDB itself: a call is atomic and either happens or not. A call that happened
  but whose answer was lost is covered by `Abort` at the next step. The same holds
  of S3 calls; the retries of its client are part of one call.
- A crash of the machine (as against the process): the local store never syncs a
  file, so what survives is up to the file system. A failure to remove a temporary
  file after a failed put, which the code ignores, is not modelled either.
- Keys: `StorageKeyFor` makes only keys that `safeJoin` and `validateKey` accept.
- What the parsers of the collectors extract from output. `os.WriteFile` in
  `Detect` is taken as atomic, since nobody reads these files during a run.
- `Accounts` and `ClientTokens` are not composed: the code relates them by the
  user id only, and never checks one against the other (section 3).

## 6. Plan

| # | Modules | State |
|---|---|---|
| 1 | `TestCaseDocument`, `TestCaseApi`, `PublicationLifecycle` | modelled; all safety properties proved, with the refinement |
| 2 | `Accounts` | modelled, all properties proved |
| 3 | `ClientTokens` | modelled, all properties proved |
| 4 | `ReadAccess` | modelled, all properties proved |
| 5 | `ObjectStore`, `ContentStores` | modelled, all properties proved, with the refinement |
| 6 | `UploadCli` | modelled, all properties proved |
| 7 | `Detect` | modelled, all safety properties proved |

Left to prove: that a run of `kish detect` works through its list of steps without
going back, as `FewerCallsLeft` says of requests; and under which schedules of
several requests, other than one after the other, records go with their case.
