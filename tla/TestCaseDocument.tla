--------------------------- MODULE TestCaseDocument ---------------------------
(***************************************************************************)
(* The TestCase aggregate (internal/domain/testcase), its document in the  *)
(* test_cases collection (internal/infrastructure/mongodb), the artifact   *)
(* types, and the rules the services decide on: who may manage or read a   *)
(* case, which artifacts are frozen once it is published.  No state.       *)
(*                                                                         *)
(* Timestamps, sizes and media types are left out; name, description and   *)
(* tags, which every rule treats alike, are one field, name.               *)
(***************************************************************************)
EXTENDS Naturals, Sequences

CONSTANTS
    Users,       \* user ids
    NoUser,      \* the empty user id: anonymous callers, owner of legacy cases
    Cases,       \* case ids
    Names,       \* artifact names that ValidateArtifactName accepts
    Labels,      \* values of name/description/tags
    TestTypes,   \* non-empty test types, "generic" among them
    Bodies,      \* what distinguishes the contents of two files
    None         \* an absent document, reference or field (a nil pointer)

ASSUME NoUserAssumption == NoUser \notin Users
ASSUME GenericAssumption == "generic" \in TestTypes /\ "" \notin TestTypes
ASSUME NoneAssumption == None \notin TestTypes /\ None \notin {"private", "public"}

-----------------------------------------------------------------------------
\* Identities, states and values.

\* The identity middleware resolves for a request.  A client token carries no
\* role, so an admin's client token yields isAdmin = FALSE.
Principal == [userID : Users \cup {NoUser}, isAdmin : BOOLEAN]
IsAnonymous(p) == p.userID = NoUser

Statuses == {"draft", "published"}
Visibilities == {"private", "public"}
ArtifactTypes == {"environment", "result", "script", "raw", "log", "other"}

\* Canonical scopes; an uploaded snapshot may also spell "context" for
\* supporting.  "none" stands for a file that is no valid snapshot at all.
Scopes == {"execution", "supporting"}
RawScopes == Scopes \cup {"context", "none"}

\* The content of a file.  A snapshot states its own scope.
Payload == [scope : RawScopes, body : Bodies]

\* SHA-256 of a payload: equal digests mean equal contents.
Digest == {"sha256"} \X Payload
Sha256(payload) == <<"sha256", payload>>

\* NormalizeEnvironmentScope, for the scopes it accepts.
NormalizeEnvironmentScope(scope) == IF scope = "context" THEN "supporting" ELSE scope

\* ParseSnapshot succeeds exactly on payloads that hold a known scope.
IsSnapshot(payload) == payload.scope # "none"

\* An empty X-Kish-Artifact-Type means other.
ArtifactTypeOrOther(t) == IF t = "" THEN "other" ELSE t

ArtifactMeta == [type : ArtifactTypes, digest : Digest]

ASSUME NoneIsNoValue == None \notin Payload /\ None \notin ArtifactMeta

-----------------------------------------------------------------------------
\* The aggregate and the stored document.

EnvironmentRef == [scope : Scopes, artifact : Names, digest : Digest]
ArtifactRef == [artifact : Names, digest : Digest]

TestCase ==
    [name : Labels, testType : TestTypes,
     status : Statuses, visibility : Visibilities,
     owner : Users \cup {NoUser},
     environments : Seq(EnvironmentRef), defaultScope : {"", "execution"},
     result : ArtifactRef \cup {None}, scripts : Seq(ArtifactRef)]

\* A document may predate status and visibility: both are then missing.
Document ==
    [name : Labels, testType : TestTypes,
     status : Statuses \cup {"missing"}, visibility : Visibilities \cup {"missing"},
     owner : Users \cup {NoUser},
     environments : Seq(EnvironmentRef), defaultScope : {"", "execution"},
     result : ArtifactRef \cup {None}, scripts : Seq(ArtifactRef)]

ASSUME NoneIsNoDocument == None \notin Document

IsDraft(tc) == tc.status = "draft"
IsPublished(tc) == tc.status = "published"
IsPubliclyReadable(tc) == IsPublished(tc) /\ tc.visibility = "public"

\* Indices of the references that agree with ref on field key.
Same(refs, key, ref) == {i \in DOMAIN refs : refs[i][key] = ref[key]}

\* Fault: a reference is always appended.
AppendRef(refs, key, ref) == Append(refs, ref)

\* Overwrite the first reference that agrees with ref on key, or append ref.
UpsertRef(refs, key, ref) ==
    IF Same(refs, key, ref) = {}
      THEN Append(refs, ref)
      ELSE LET first == CHOOSE i \in Same(refs, key, ref) :
                            \A j \in Same(refs, key, ref) : i <= j
           IN  [refs EXCEPT ![first] = ref]

HasExecutionEnvironment(refs) == \E i \in DOMAIN refs : refs[i].scope = "execution"

DefaultEnvironmentScope(refs) == IF HasExecutionEnvironment(refs) THEN "execution" ELSE ""

SetEnvironmentArtifact(tc, ref) ==
    LET refs == UpsertRef(tc.environments, "scope", ref)
    IN  [tc EXCEPT !.environments = refs,
                   !.defaultScope = DefaultEnvironmentScope(refs)]

SetTestResultArtifact(tc, ref) == [tc EXCEPT !.result = ref]

UpsertTestScriptArtifact(tc, ref) ==
    [tc EXCEPT !.scripts = UpsertRef(tc.scripts, "artifact", ref)]

\* No two references agree on field key.
UniqueBy(refs, key) ==
    \A i, j \in DOMAIN refs : refs[i][key] = refs[j][key] => i = j

\* One snapshot per scope, each script once, and a default scope that fits.
RefsConsistent(tc) ==
    /\ UniqueBy(tc.environments, "scope")
    /\ UniqueBy(tc.scripts, "artifact")
    /\ tc.defaultScope = DefaultEnvironmentScope(tc.environments)

\* Reading a document: missing or unknown status and visibility become
\* published and private, and an empty default scope is derived again.
FromDocument(doc) ==
    [doc EXCEPT
        !.status = IF doc.status \in Statuses THEN doc.status ELSE "published",
        !.visibility = IF doc.visibility \in Visibilities THEN doc.visibility ELSE "private",
        !.defaultScope = IF doc.defaultScope = ""
                           THEN DefaultEnvironmentScope(doc.environments)
                           ELSE doc.defaultScope]

\* What Update writes over doc: all fields of tc but the owner (and created_at).
WithUpdateFields(doc, tc) == [tc EXCEPT !.owner = doc.owner]

NewTestCase(label, testType, owner) ==
    [name |-> label, testType |-> IF testType = "" THEN "generic" ELSE testType,
     status |-> "draft", visibility |-> "private", owner |-> owner,
     environments |-> <<>>, defaultScope |-> "", result |-> None, scripts |-> <<>>]

-----------------------------------------------------------------------------
\* The rules of the services.

\* Mutating a case: admins, or its owner; a case without owner is admin-only.
CanManage(tc, p) ==
    \/ p.isAdmin
    \/ /\ tc.owner # NoUser
       /\ p.userID # NoUser
       /\ tc.owner = p.userID

\* Uploads a published case still accepts.
CanWritePublishedArtifact(type, payload) ==
    CASE type = "result" -> FALSE
      [] type = "environment" -> NormalizeEnvironmentScope(payload.scope) = "supporting"
      [] OTHER -> TRUE

\* Artifact types whose deletion publication forbids.
IsImmutableOnPublished(type) == type \in {"result", "environment"}

\* Types that PutArtifact links into the case.
IsLinked(type) == type \in {"environment", "result", "script"}

\* linkArtifactToTestCase up to the write: the snapshot with the new reference.
Linked(tc, name, meta, payload) ==
    LET ref == [artifact |-> name, digest |-> meta.digest]
    IN  CASE meta.type = "environment" ->
               SetEnvironmentArtifact(tc,
                   [scope |-> NormalizeEnvironmentScope(payload.scope),
                    artifact |-> name, digest |-> meta.digest])
          [] meta.type = "result" -> SetTestResultArtifact(tc, ref)
          [] meta.type = "script" -> UpsertTestScriptArtifact(tc, ref)

\* Publish with an empty visibility means public.
VisibilityOrPublic(v) == IF v = "" THEN "public" ELSE v

\* The result and execution environment a case refers to.
ExecutionRefs(tc) == {i \in DOMAIN tc.environments : tc.environments[i].scope = "execution"}
CanonicalFacts(tc) ==
    [result |-> tc.result,
     execution |-> {tc.environments[i] : i \in ExecutionRefs(tc)}]
===============================================================================
