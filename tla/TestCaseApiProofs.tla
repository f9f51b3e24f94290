--------------------------- MODULE TestCaseApiProofs ---------------------------
(***************************************************************************)
(* Proofs about TestCaseApi, for any number of cases, artifact names,      *)
(* callers, uploads and concurrent requests, after lemmas about the        *)
(* operators on test case documents.                                       *)
(***************************************************************************)
EXTENDS TestCaseApi, NaturalsInduction, SequenceTheorems, TLAPS

-----------------------------------------------------------------------------
\* The operators on test case documents.

\* Setting one entry of a list of references leaves a list of references,
\* whether or not the index lies in the list (SetEnvironmentArtifact and
\* UpsertTestScriptArtifact write refs[i]).
LEMMA ExceptType ==
    ASSUME NEW S, NEW refs \in Seq(S), NEW ref \in S, NEW i
    PROVE  [refs EXCEPT ![i] = ref] \in Seq(S)
<1>1. CASE i \in 1..Len(refs)
  BY <1>1, ExceptSeq
<1>2. CASE i \notin 1..Len(refs)
  <2>1. DOMAIN refs = 1..Len(refs)
    OBVIOUS
  <2>2. [refs EXCEPT ![i] = ref] = refs
    BY <1>2, <2>1
  <2>3. QED
    BY <2>2
<1>3. QED
  BY <1>1, <1>2

\* Upserting a reference yields a list of references of the same kind.
LEMMA UpsertRefType ==
    ASSUME NEW S, NEW refs \in Seq(S), NEW ref \in S, NEW key
    PROVE  UpsertRef(refs, key, ref) \in Seq(S)
  BY ExceptType, AppendProperties DEF UpsertRef

\* Reading a stored document, legacy ones included, yields a test case.
LEMMA FromDocumentType ==
    ASSUME NEW doc \in Document
    PROVE  FromDocument(doc) \in TestCase
  BY DEF FromDocument, Document, TestCase, Statuses, Visibilities, DefaultEnvironmentScope

\* What a repository writes back is a document.
LEMMA TestCaseIsDocument == TestCase \subseteq Document
  BY DEF TestCase, Document

LEMMA NewTestCaseType ==
    ASSUME NEW label \in Labels, NEW t \in TestTypes \cup {""}, NEW u \in Users \cup {NoUser}
    PROVE  NewTestCase(label, t, u) \in TestCase
<1>1. <<>> \in Seq(EnvironmentRef) /\ <<>> \in Seq(ArtifactRef)
  BY EmptySeq
<1>2. (IF t = "" THEN "generic" ELSE t) \in TestTypes
  BY GenericAssumption
<1>3. QED
  BY <1>1, <1>2 DEF NewTestCase, TestCase, Statuses, Visibilities

\* Linking an uploaded artifact into a test case yields a test case.
LEMMA LinkedType ==
    ASSUME NEW tc \in TestCase, NEW name \in Names, NEW meta \in ArtifactMeta,
           NEW payload \in Payload,
           IsLinked(meta.type),
           meta.type = "environment" => IsSnapshot(payload)
    PROVE  Linked(tc, name, meta, payload) \in TestCase
<1> DEFINE ref == [artifact |-> name, digest |-> meta.digest]
           env == [scope |-> NormalizeEnvironmentScope(payload.scope),
                   artifact |-> name, digest |-> meta.digest]
<1>1. ref \in ArtifactRef
  BY DEF ArtifactRef, ArtifactMeta
<1>2. CASE meta.type = "environment"
  <2>1. env \in EnvironmentRef
    BY <1>2 DEF EnvironmentRef, ArtifactMeta, Payload, RawScopes, Scopes, IsSnapshot,
                NormalizeEnvironmentScope
  <2>2. UpsertRef(tc.environments, "scope", env) \in Seq(EnvironmentRef)
    BY <2>1, UpsertRefType DEF TestCase
  <2>3. SetEnvironmentArtifact(tc, env) \in TestCase
    BY <2>2 DEF SetEnvironmentArtifact, TestCase, DefaultEnvironmentScope
  <2>4. QED
    BY <1>2, <2>3 DEF Linked
<1>3. CASE meta.type = "result"
  <2>1. SetTestResultArtifact(tc, ref) \in TestCase
    BY <1>1 DEF SetTestResultArtifact, TestCase
  <2>2. QED
    BY <1>3, <2>1 DEF Linked
<1>4. CASE meta.type = "script"
  <2>1. UpsertRef(tc.scripts, "artifact", ref) \in Seq(ArtifactRef)
    BY <1>1, UpsertRefType DEF TestCase
  <2>2. UpsertTestScriptArtifact(tc, ref) \in TestCase
    BY <2>1 DEF UpsertTestScriptArtifact, TestCase
  <2>3. QED
    BY <1>4, <2>2 DEF Linked
<1>5. QED
  BY <1>2, <1>3, <1>4 DEF IsLinked

-----------------------------------------------------------------------------
\* In a list without duplicates at most one reference agrees with ref, so it is
\* the one UpsertRef overwrites.
LEMMA SameIsFirst ==
    ASSUME NEW S, NEW refs \in Seq(S), NEW ref \in S, NEW key,
           UniqueBy(refs, key), NEW i \in Same(refs, key, ref)
    PROVE  /\ i \in 1..Len(refs)
           /\ Same(refs, key, ref) = {i}
           /\ UpsertRef(refs, key, ref) = [refs EXCEPT ![i] = ref]
<1>1. i \in 1..Len(refs)
  BY DEF Same
<1>2. \A j \in Same(refs, key, ref) : j = i
  BY DEF Same, UniqueBy
<1>3. Same(refs, key, ref) = {i}
  BY <1>2
<1>4. (CHOOSE k \in Same(refs, key, ref) : \A j \in Same(refs, key, ref) : k <= j) = i
  BY <1>1, <1>3
<1>5. QED
  BY <1>1, <1>3, <1>4 DEF UpsertRef

\* UpsertRef keeps a list free of duplicates, adds nothing but ref and drops
\* nothing but a reference that agrees with it.
LEMMA UpsertRefEntries ==
    ASSUME NEW S, NEW refs \in Seq(S), NEW ref \in S, NEW key, UniqueBy(refs, key)
    PROVE  LET new == UpsertRef(refs, key, ref)
           IN  /\ UniqueBy(new, key)
               /\ \A i \in DOMAIN new : new[i] # ref => i \in DOMAIN refs /\ refs[i] = new[i]
               /\ \A i \in DOMAIN refs : refs[i][key] # ref[key]
                                         => i \in DOMAIN new /\ new[i] = refs[i]
<1> DEFINE new == UpsertRef(refs, key, ref)
<1>1. CASE Same(refs, key, ref) = {}
  <2>1. new = Append(refs, ref)
    BY <1>1 DEF UpsertRef
  <2>2. /\ DOMAIN refs = 1..Len(refs)
        /\ DOMAIN new = 1..(Len(refs) + 1)
        /\ \A i \in 1..Len(refs) : new[i] = refs[i]
        /\ new[Len(refs) + 1] = ref
    BY <2>1, AppendProperties
  <2>3. \A i \in 1..Len(refs) : refs[i][key] # ref[key]
    BY <1>1, <2>2 DEF Same
  <2>4. UniqueBy(new, key)
    <3> SUFFICES ASSUME NEW i \in DOMAIN new, NEW j \in DOMAIN new, new[i][key] = new[j][key]
                 PROVE  i = j
      BY DEF UniqueBy
    <3>1. CASE i \in 1..Len(refs) /\ j \in 1..Len(refs)
      BY <3>1, <2>2 DEF UniqueBy
    <3>2. CASE i = Len(refs) + 1 \/ j = Len(refs) + 1
      BY <3>2, <2>2, <2>3
    <3>3. QED
      BY <3>1, <3>2, <2>2
  <2>5. QED
    BY <2>2, <2>4
<1>2. CASE Same(refs, key, ref) # {}
  <2>1. PICK k \in Same(refs, key, ref) : TRUE
    BY <1>2
  <2>2. /\ k \in 1..Len(refs)
        /\ new = [refs EXCEPT ![k] = ref]
        /\ refs[k][key] = ref[key]
    BY <2>1, SameIsFirst DEF Same
  <2>3. /\ DOMAIN refs = 1..Len(refs)
        /\ DOMAIN new = 1..Len(refs)
        /\ \A i \in 1..Len(refs) : new[i] = IF i = k THEN ref ELSE refs[i]
    BY <2>2
  <2>4. \A i \in 1..Len(refs) : new[i][key] = refs[i][key]
    BY <2>2, <2>3
  <2>5. UniqueBy(new, key)
    BY <2>3, <2>4 DEF UniqueBy
  <2>6. QED
    BY <2>2, <2>3, <2>5
<1>3. QED
  BY <1>1, <1>2

\* The fields of a document as it is read.
LEMMA FromDocumentFields ==
    ASSUME NEW doc \in Document
    PROVE  LET tc == FromDocument(doc)
           IN  /\ tc.environments = doc.environments
               /\ tc.scripts = doc.scripts
               /\ tc.result = doc.result
               /\ tc.owner = doc.owner
               /\ tc.testType = doc.testType
               /\ tc.status = IF doc.status \in Statuses THEN doc.status ELSE "published"
               /\ tc.visibility = IF doc.visibility \in Visibilities THEN doc.visibility
                                                                  ELSE "private"
               /\ tc.defaultScope = IF doc.defaultScope = ""
                                      THEN DefaultEnvironmentScope(doc.environments)
                                      ELSE doc.defaultScope
  BY DEF FromDocument, Document

\* Reading a document that was written from a test case gives that test case.
LEMMA FromDocumentOfTestCase ==
    ASSUME NEW tc \in TestCase, RefsConsistent(tc)
    PROVE  FromDocument(tc) = tc
  BY DEF FromDocument, TestCase, RefsConsistent, DefaultEnvironmentScope

\* The three setters keep the references of a test case consistent.
LEMMA LinkedRefs ==
    ASSUME NEW tc \in TestCase, NEW name \in Names, NEW meta \in ArtifactMeta,
           NEW payload \in Payload,
           IsLinked(meta.type),
           meta.type = "environment" => IsSnapshot(payload),
           RefsConsistent(tc)
    PROVE  RefsConsistent(Linked(tc, name, meta, payload))
<1> DEFINE ref == [artifact |-> name, digest |-> meta.digest]
           env == [scope |-> NormalizeEnvironmentScope(payload.scope),
                   artifact |-> name, digest |-> meta.digest]
<1>1. ref \in ArtifactRef
  BY DEF ArtifactRef, ArtifactMeta
<1>2. CASE meta.type = "environment"
  <2>1. env \in EnvironmentRef
    BY <1>2 DEF EnvironmentRef, ArtifactMeta, Payload, RawScopes, Scopes, IsSnapshot,
                NormalizeEnvironmentScope
  <2> DEFINE refs == UpsertRef(tc.environments, "scope", env)
  <2>2. UniqueBy(refs, "scope")
    <3>1. tc.environments \in Seq(EnvironmentRef) /\ UniqueBy(tc.environments, "scope")
      BY DEF TestCase, RefsConsistent
    <3>2. QED
      BY <2>1, <3>1, UpsertRefEntries
  <2>3. Linked(tc, name, meta, payload)
          = [tc EXCEPT !.environments = refs, !.defaultScope = DefaultEnvironmentScope(refs)]
    BY <1>2 DEF Linked, SetEnvironmentArtifact
  <2>4. QED
    BY <2>2, <2>3 DEF RefsConsistent, TestCase
<1>3. CASE meta.type = "result"
  BY <1>3 DEF Linked, SetTestResultArtifact, RefsConsistent, TestCase
<1>4. CASE meta.type = "script"
  <2>1. UniqueBy(UpsertRef(tc.scripts, "artifact", ref), "artifact")
    <3>1. tc.scripts \in Seq(ArtifactRef) /\ UniqueBy(tc.scripts, "artifact")
      BY DEF TestCase, RefsConsistent
    <3>2. QED
      BY <1>1, <3>1, UpsertRefEntries
  <2>2. Linked(tc, name, meta, payload)
          = [tc EXCEPT !.scripts = UpsertRef(tc.scripts, "artifact", ref)]
    BY <1>4 DEF Linked, UpsertTestScriptArtifact
  <2>3. QED
    BY <2>1, <2>2 DEF RefsConsistent, TestCase
<1>5. QED
  BY <1>2, <1>3, <1>4 DEF IsLinked

\* An upload that a published case accepts leaves its canonical facts alone, and
\* no upload changes status, visibility, owner or test type of the snapshot.
LEMMA LinkedKeepsFacts ==
    ASSUME NEW tc \in TestCase, NEW name \in Names, NEW meta \in ArtifactMeta,
           NEW payload \in Payload,
           IsLinked(meta.type),
           meta.type = "environment" => IsSnapshot(payload),
           RefsConsistent(tc)
    PROVE  LET new == Linked(tc, name, meta, payload)
           IN  /\ new.status = tc.status
               /\ new.visibility = tc.visibility
               /\ new.testType = tc.testType
               /\ CanWritePublishedArtifact(meta.type, payload)
                    => CanonicalFacts(new) = CanonicalFacts(tc)
<1> DEFINE new == Linked(tc, name, meta, payload)
           ref == [artifact |-> name, digest |-> meta.digest]
           env == [scope |-> NormalizeEnvironmentScope(payload.scope),
                   artifact |-> name, digest |-> meta.digest]
<1>1. CASE meta.type = "environment"
  <2> DEFINE refs == UpsertRef(tc.environments, "scope", env)
  <2>1. env \in EnvironmentRef
    BY <1>1 DEF EnvironmentRef, ArtifactMeta, Payload, RawScopes, Scopes, IsSnapshot,
                NormalizeEnvironmentScope
  <2>2. new = [tc EXCEPT !.environments = refs, !.defaultScope = DefaultEnvironmentScope(refs)]
    BY <1>1 DEF Linked, SetEnvironmentArtifact
  <2>3. /\ new.environments = refs
        /\ new.result = tc.result
        /\ new.status = tc.status
        /\ new.visibility = tc.visibility
        /\ new.testType = tc.testType
    BY <2>2 DEF TestCase
  <2>4. ASSUME CanWritePublishedArtifact(meta.type, payload)
        PROVE  CanonicalFacts(new) = CanonicalFacts(tc)
    <3>1. env.scope = "supporting"
      BY <1>1, <2>4 DEF CanWritePublishedArtifact
    <3>2. /\ \A i \in DOMAIN refs : refs[i] # env
                => i \in DOMAIN tc.environments /\ tc.environments[i] = refs[i]
          /\ \A i \in DOMAIN tc.environments : tc.environments[i].scope # "supporting"
                => i \in DOMAIN refs /\ refs[i] = tc.environments[i]
      <4>1. tc.environments \in Seq(EnvironmentRef) /\ UniqueBy(tc.environments, "scope")
        BY DEF TestCase, RefsConsistent
      <4>2. QED
        BY <2>1, <3>1, <4>1, UpsertRefEntries
    <3>3. {refs[i] : i \in ExecutionRefs(new)}
            = {tc.environments[i] : i \in ExecutionRefs(tc)}
      BY <2>3, <3>1, <3>2 DEF ExecutionRefs
    <3>4. QED
      BY <2>3, <3>3 DEF CanonicalFacts
  <2>5. QED
    BY <2>3, <2>4
<1>2. CASE meta.type = "result"
  BY <1>2 DEF Linked, SetTestResultArtifact, TestCase, CanWritePublishedArtifact
<1>3. CASE meta.type = "script"
  BY <1>3 DEF Linked, UpsertTestScriptArtifact, TestCase, CanonicalFacts, ExecutionRefs
<1>4. QED
  BY <1>1, <1>2, <1>3 DEF IsLinked

-----------------------------------------------------------------------------
\* The inductive invariant, first part: types, and what a request knows at each
\* step.  The checks made before a step still hold of what the request read.

\* Steps of a request that carries a snapshot of its case.
Deciding == {"publish", "update", "put:store", "put:meta", "put:link"}

WellFormed(req) ==
    /\ req.at # "idle" => req.caller \in Principals /\ req.case \in Cases
    /\ req.at = "publish" => req.visibility \in Visibilities /\ IsDraft(req.seen)
    /\ req.at = "update" => req.patch \in Patches /\ PatchAllowed(req.seen, req.patch)
    /\ req.at \in PutSteps => req.upload \in Upload
    /\ req.at \in PutSteps \cup DropSteps \cup {"delete:meta"} => req.name \in Names
    /\ req.at \in {"put:store", "put:meta", "put:link"} => PutAllowed(req.seen, req.upload)
    /\ req.at = "put:link" => IsLinked(ArtifactTypeOrOther(req.upload.type))
    /\ req.at \in Deciding => req.seen \in TestCase /\ RefsConsistent(req.seen)

\* A request of any client, at any endpoint and with any upload, and a step of a
\* server that gets such requests: what Endpoints and Uploads leave out of a run
\* is proved about as well.
Arrive(r) ==
    \E p \in Principals, c \in Cases :
        \/ \E body \in PublishBodies : PublishReceive(r, p, c, body)
        \/ \E patch \in Patches : UpdateReceive(r, p, c, patch)
        \/ \E n \in Names, upload \in Upload : PutReceive(r, p, c, n, upload)
        \/ \E n \in Names : DropReceive(r, p, c, n)
        \/ DeleteReceive(r, p, c)

AnyStep ==
    \/ Create
    \/ \E r \in Requests : Arrive(r) \/ Serve(r) \/ Abort(r)

\* The lemmas named Any... are about this specification, which the server of
\* Spec refines and so does the one `kish upload` talks to.
AnySpec == Init /\ [][AnyStep]_vars

TypeInv ==
    /\ TypeOK
    /\ RefsAreConsistent
    /\ \A r \in Requests : WellFormed(requests[r])

-----------------------------------------------------------------------------
\* Facts about requests and documents that the steps below rest on.

LEMMA StepIsAnyStep == Next => AnyStep
<1>1. ASSUME NEW r \in Requests, Receive(r)
      PROVE  Arrive(r)
  BY <1>1, UploadsAssumption DEF Receive, Arrive
<1>2. QED
  BY <1>1 DEF Next, AnyStep

LEMMA NextIsAnyStep == [Next]_vars => [AnyStep]_vars
  BY StepIsAnyStep

LEMMA SpecIsAny == Spec => AnySpec
  BY NextIsAnyStep, PTL DEF Spec, AnySpec

LEMMA IdleOK == Idle \in Request /\ WellFormed(Idle)
  BY DEF Idle, Request, Steps, WellFormed, PutSteps, DropSteps, DeleteSteps, Deciding

\* The requests stay well-formed when one of them is replaced by a
\* well-formed one.
LEMMA ReplaceRequest ==
    ASSUME TypeInv, NEW r \in Requests, NEW req \in Request, WellFormed(req),
           requests' = [requests EXCEPT ![r] = req]
    PROVE  /\ requests' \in [Requests -> Request]
           /\ \A s \in Requests : WellFormed(requests'[s])
  BY DEF TypeInv, TypeOK

\* A request that ends keeps them well-formed.
LEMMA FinishOK ==
    ASSUME TypeInv, NEW r \in Requests, Finish(r)
    PROVE  /\ requests' \in [Requests -> Request]
           /\ \A s \in Requests : WellFormed(requests'[s])
  BY IdleOK, ReplaceRequest DEF Finish

\* A document keeps its type under the writes of publish and patch, and
\* its references, type and owner under that of publish.
LEMMA PublishedType ==
    ASSUME NEW doc \in Document, NEW v \in Visibilities
    PROVE  LET new == [doc EXCEPT !.status = "published", !.visibility = v]
           IN  /\ new \in Document
               /\ FromDocument(new) = [FromDocument(doc) EXCEPT !.status = "published",
                                                                !.visibility = v]
  BY DEF Document, Statuses, Visibilities, FromDocument

LEMMA PatchedType ==
    ASSUME NEW doc \in Document, NEW patch \in Patches, NEW tc \in TestCase,
           PatchAllowed(tc, patch)
    PROVE  LET new == Patched(doc, patch)
           IN  /\ new \in Document
               /\ FromDocument(new).environments = FromDocument(doc).environments
               /\ FromDocument(new).scripts = FromDocument(doc).scripts
               /\ FromDocument(new).result = FromDocument(doc).result
               /\ FromDocument(new).defaultScope = FromDocument(doc).defaultScope
               /\ FromDocument(new).status = FromDocument(doc).status
               /\ FromDocument(new).owner = FromDocument(doc).owner
               /\ FromDocument(new).testType =
                    IF patch.testType = None THEN FromDocument(doc).testType ELSE patch.testType
               /\ FromDocument(new).visibility =
                    IF patch.visibility = None THEN FromDocument(doc).visibility
                                               ELSE patch.visibility
<1>1. /\ patch.name \in Labels \cup {None}
      /\ patch.testType \in TestTypes \cup {None}
      /\ patch.visibility \in Visibilities \cup {None}
  BY PatchesAssumption DEF Patch, PatchAllowed
<1>2. Patched(doc, patch) \in Document
  BY <1>1 DEF Patched, Document
<1> DEFINE new == Patched(doc, patch)
<1>3. /\ new.environments = doc.environments
      /\ new.scripts = doc.scripts
      /\ new.result = doc.result
      /\ new.defaultScope = doc.defaultScope
      /\ new.status = doc.status
      /\ new.owner = doc.owner
      /\ new.testType = IF patch.testType = None THEN doc.testType ELSE patch.testType
      /\ new.visibility = IF patch.visibility = None THEN doc.visibility ELSE patch.visibility
  BY DEF Patched, Document
<1> HIDE DEF new
<1>4. QED
  BY <1>1, <1>2, <1>3, FromDocumentFields DEF new

\* The metadata and the payload of an upload that passed the checks.
LEMMA UploadType ==
    ASSUME NEW upload \in Upload
    PROVE  /\ upload.payload \in Payload
           /\ MetaOf(upload) \in ArtifactMeta
           /\ MetaOf(upload).type = ArtifactTypeOrOther(upload.type)
  BY DEF Upload, MetaOf, ArtifactMeta, ArtifactTypeOrOther, ArtifactTypes, Digest, Sha256

\* The document a link write stores, given what the request knows.
LinkDocument(doc, req) ==
    WithUpdateFields(doc, Linked(req.seen, req.name, MetaOf(req.upload), req.upload.payload))

LEMMA LinkType ==
    ASSUME NEW doc \in Document, NEW req \in Request, WellFormed(req), req.at = "put:link"
    PROVE  LET new == LinkDocument(doc, req)
           IN  /\ new \in TestCase
               /\ RefsConsistent(new)
               /\ FromDocument(new) = new
               /\ new.owner = doc.owner
               /\ new.status = req.seen.status
               /\ new.visibility = req.seen.visibility
               /\ new.testType = req.seen.testType
               /\ IsPublished(req.seen) => CanonicalFacts(new) = CanonicalFacts(req.seen)
<1> DEFINE meta == MetaOf(req.upload)
           linked == Linked(req.seen, req.name, meta, req.upload.payload)
<1>1. /\ req.seen \in TestCase /\ RefsConsistent(req.seen)
      /\ req.name \in Names
      /\ req.upload \in Upload
      /\ PutAllowed(req.seen, req.upload)
      /\ IsLinked(meta.type)
  BY UploadType DEF WellFormed, PutSteps, Deciding
<1>2. /\ meta \in ArtifactMeta
      /\ req.upload.payload \in Payload
      /\ meta.type = "environment" => IsSnapshot(req.upload.payload)
      /\ IsPublished(req.seen) => CanWritePublishedArtifact(meta.type, req.upload.payload)
  BY <1>1, UploadType DEF PutAllowed
<1> HIDE DEF meta
<1>3. linked \in TestCase
  BY <1>1, <1>2, LinkedType
<1>4. RefsConsistent(linked)
  BY <1>1, <1>2, LinkedRefs
<1>5. /\ linked.status = req.seen.status
      /\ linked.visibility = req.seen.visibility
      /\ linked.testType = req.seen.testType
      /\ IsPublished(req.seen) => CanonicalFacts(linked) = CanonicalFacts(req.seen)
  BY <1>1, <1>2, LinkedKeepsFacts
<1> DEFINE new == [linked EXCEPT !.owner = doc.owner]
<1>6. LinkDocument(doc, req) = new
  BY DEF LinkDocument, WithUpdateFields, meta
<1> HIDE DEF linked
<1>7. /\ new \in TestCase
      /\ new.environments = linked.environments
      /\ new.scripts = linked.scripts
      /\ new.defaultScope = linked.defaultScope
      /\ new.result = linked.result
      /\ new.status = linked.status
      /\ new.visibility = linked.visibility
      /\ new.testType = linked.testType
      /\ new.owner = doc.owner
  BY <1>3 DEF TestCase, Document
<1> HIDE DEF new
<1>8. RefsConsistent(new)
  BY <1>4, <1>7 DEF RefsConsistent
<1>9. CanonicalFacts(new) = CanonicalFacts(linked)
  BY <1>7 DEF CanonicalFacts, ExecutionRefs
<1>10. QED
  BY <1>5, <1>6, <1>7, <1>8, <1>9, FromDocumentOfTestCase

-----------------------------------------------------------------------------
\* The first part of the invariant is inductive.

\* A case without references has consistent ones.
LEMMA EmptyRefs ==
    /\ UniqueBy(<<>>, "scope") /\ UniqueBy(<<>>, "artifact")
    /\ DefaultEnvironmentScope(<<>>) = ""
<1>1. DOMAIN <<>> = {}
  OBVIOUS
<1>2. QED
  BY <1>1 DEF UniqueBy, DefaultEnvironmentScope, HasExecutionEnvironment

LEMMA TypeInit == Init => TypeInv
<1> SUFFICES ASSUME Init PROVE TypeInv
  OBVIOUS
<1>1. testCases \in [Cases -> Document \cup {None}] /\ RefsAreConsistent
  <2>1. ASSUME NEW label \in Labels, NEW t \in TestTypes
        PROVE  LegacyDocument(label, t) \in Document /\ RefsConsistent(FromDocument(LegacyDocument(label, t)))
    <3> DEFINE doc == LegacyDocument(label, t)
    <3>1. NewTestCase(label, t, NoUser) \in TestCase
      BY NewTestCaseType
    <3>2. doc \in Document
      BY <3>1 DEF LegacyDocument, TestCase, Document
    <3>3. /\ doc.environments = <<>>
          /\ doc.scripts = <<>>
          /\ doc.defaultScope = ""
      BY DEF LegacyDocument, NewTestCase
    <3> HIDE DEF doc
    <3>4. /\ FromDocument(doc).environments = <<>>
          /\ FromDocument(doc).scripts = <<>>
          /\ FromDocument(doc).defaultScope = DefaultEnvironmentScope(<<>>)
      BY <3>2, <3>3, FromDocumentFields
    <3>5. QED
      BY <3>2, <3>4, EmptyRefs DEF RefsConsistent, doc
  <2>2. QED
    BY <2>1 DEF Init, RefsAreConsistent, Exists, View
<1>2. /\ artifacts \in [Cases -> [Names -> ArtifactMeta \cup {None}]]
      /\ objects \in [Cases -> [Names -> Payload \cup {None}]]
      /\ issued \in SUBSET Cases /\ raced \in SUBSET Cases
      /\ torn \in SUBSET (Cases \X Names)
  BY DEF Init
<1>3. requests \in [Requests -> Request] /\ \A r \in Requests : WellFormed(requests[r])
  BY IdleOK DEF Init
<1>4. QED
  BY <1>1, <1>2, <1>3 DEF TypeInv, TypeOK

\* What the services read of a stored case is a case with consistent references.
LEMMA ViewType ==
    ASSUME TypeInv, NEW c \in Cases, testCases[c] # None
    PROVE  /\ testCases[c] \in Document
           /\ FromDocument(testCases[c]) \in TestCase
           /\ RefsConsistent(FromDocument(testCases[c]))
  BY FromDocumentType DEF TypeInv, TypeOK, RefsAreConsistent, Exists, View

\* A request that a handler has just accepted knows what its first step needs.
LEMMA ReceiveOK ==
    ASSUME TypeInv, NEW r \in Requests, Arrive(r)
    PROVE  /\ requests' \in [Requests -> Request]
           /\ \A s \in Requests : WellFormed(requests'[s])
<1> DEFINE Kept == /\ requests' \in [Requests -> Request]
                   /\ \A s \in Requests : WellFormed(requests'[s])
<1> PICK p \in Principals, c \in Cases :
        \/ \E body \in PublishBodies : PublishReceive(r, p, c, body)
        \/ \E patch \in Patches : UpdateReceive(r, p, c, patch)
        \/ \E n \in Names, upload \in Upload : PutReceive(r, p, c, n, upload)
        \/ \E n \in Names : DropReceive(r, p, c, n)
        \/ DeleteReceive(r, p, c)
  BY DEF Arrive
<1> DEFINE tc == FromDocument(testCases[c])
<1>1. testCases[c] # None => tc \in TestCase /\ RefsConsistent(tc)
  BY ViewType
<1> HIDE DEF tc
<1>2. ASSUME NEW body \in PublishBodies, PublishReceive(r, p, c, body)
      PROVE  Kept
  <2> DEFINE v == VisibilityOrPublic(body)
             req == [Idle EXCEPT !.at = "publish", !.caller = p, !.case = c,
                                 !.visibility = v, !.seen = tc]
  <2>1. requests' = [requests EXCEPT ![r] = req]
    BY <1>2 DEF PublishReceive, Accept, tc
  <2>2. tc \in TestCase /\ RefsConsistent(tc) /\ IsDraft(tc) /\ v \in Visibilities
    BY <1>1, <1>2 DEF PublishReceive, tc
  <2> HIDE DEF v
  <2>3. req \in Request
    BY <2>2 DEF Idle, Request, Steps
  <2>4. /\ req.at = "publish" /\ req.caller = p /\ req.case = c
        /\ req.visibility = v /\ req.seen = tc
    BY DEF Idle
  <2> HIDE DEF req
  <2>5. WellFormed(req)
    BY <2>2, <2>4 DEF WellFormed, PutSteps, DropSteps, Deciding
  <2>6. QED
    BY <2>1, <2>3, <2>5, ReplaceRequest
<1>3. ASSUME NEW patch \in Patches, UpdateReceive(r, p, c, patch)
      PROVE  Kept
  <2> DEFINE req == [Idle EXCEPT !.at = "update", !.caller = p, !.case = c,
                                 !.patch = patch, !.seen = tc]
  <2>1. requests' = [requests EXCEPT ![r] = req]
    BY <1>3 DEF UpdateReceive, Accept, tc
  <2>2. tc \in TestCase /\ RefsConsistent(tc) /\ PatchAllowed(tc, patch)
    BY <1>1, <1>3 DEF UpdateReceive, tc
  <2>3. req \in Request
    BY <2>2 DEF Idle, Request, Steps
  <2>4. /\ req.at = "update" /\ req.caller = p /\ req.case = c
        /\ req.patch = patch /\ req.seen = tc
    BY DEF Idle
  <2> HIDE DEF req
  <2>5. WellFormed(req)
    BY <2>2, <2>4 DEF WellFormed, PutSteps, DropSteps, Deciding
  <2>6. QED
    BY <2>1, <2>3, <2>5, ReplaceRequest
<1>4. ASSUME NEW n \in Names, NEW upload \in Upload, PutReceive(r, p, c, n, upload)
      PROVE  Kept
  <2> DEFINE step == FirstStep(p, "put:authorize", "put:load")
             req == [Idle EXCEPT !.at = step, !.caller = p, !.case = c,
                                 !.name = n, !.upload = upload]
  <2>1. requests' = [requests EXCEPT ![r] = req]
    BY <1>4 DEF PutReceive, Accept
  <2>2. step \in {"put:authorize", "put:load"}
    BY DEF FirstStep
  <2> HIDE DEF step
  <2>3. req \in Request
    BY <2>2 DEF Idle, Request, Steps, PutSteps
  <2>4. req.at = step /\ req.caller = p /\ req.case = c /\ req.name = n /\ req.upload = upload
    BY DEF Idle
  <2> HIDE DEF req
  <2>5. WellFormed(req)
    BY <2>2, <2>4 DEF WellFormed, PutSteps, DropSteps, Deciding
  <2>6. QED
    BY <2>1, <2>3, <2>5, ReplaceRequest
<1>5. ASSUME NEW n \in Names, DropReceive(r, p, c, n)
      PROVE  Kept
  <2> DEFINE step == FirstStep(p, "drop:authorize", "drop:find")
             req == [Idle EXCEPT !.at = step, !.caller = p, !.case = c, !.name = n]
  <2>1. requests' = [requests EXCEPT ![r] = req]
    BY <1>5 DEF DropReceive, Accept
  <2>2. step \in {"drop:authorize", "drop:find"}
    BY DEF FirstStep
  <2> HIDE DEF step
  <2>3. req \in Request
    BY <2>2 DEF Idle, Request, Steps, DropSteps
  <2>4. req.at = step /\ req.caller = p /\ req.case = c /\ req.name = n
    BY DEF Idle
  <2> HIDE DEF req
  <2>5. WellFormed(req)
    BY <2>2, <2>4 DEF WellFormed, PutSteps, DropSteps, Deciding
  <2>6. QED
    BY <2>1, <2>3, <2>5, ReplaceRequest
<1>6. ASSUME DeleteReceive(r, p, c)
      PROVE  Kept
  <2> DEFINE req == [Idle EXCEPT !.at = "delete:list", !.caller = p, !.case = c]
  <2>1. requests' = [requests EXCEPT ![r] = req]
    BY <1>6 DEF DeleteReceive, Accept
  <2>2. req \in Request
    BY DEF Idle, Request, Steps, DeleteSteps
  <2>3. req.at = "delete:list" /\ req.caller = p /\ req.case = c
    BY DEF Idle
  <2> HIDE DEF req
  <2>4. WellFormed(req)
    BY <2>3 DEF WellFormed, PutSteps, DropSteps, Deciding
  <2>5. QED
    BY <2>1, <2>2, <2>4, ReplaceRequest
<1>7. QED
  BY <1>2, <1>3, <1>4, <1>5, <1>6

\* A request that goes on to step `to` with what it has stays well-formed, if it
\* knows what `to` needs.
LEMMA AdvanceOK ==
    ASSUME TypeInv, NEW r \in Requests, NEW from \in Steps, NEW to \in Steps,
           At(r, from), Advance(r, to),
           \/ <<from, to>> \in {<<"put:authorize", "put:load">>, <<"put:store", "put:meta">>,
                                <<"drop:authorize", "drop:find">>, <<"drop:find", "drop:guard">>,
                                <<"drop:find", "drop:object">>, <<"drop:guard", "drop:object">>,
                                <<"drop:object", "drop:meta">>}
           \/ /\ <<from, to>> = <<"put:meta", "put:link">>
              /\ IsLinked(MetaOf(requests[r].upload).type)
    PROVE  /\ requests' \in [Requests -> Request]
           /\ \A s \in Requests : WellFormed(requests'[s])
<1> DEFINE old == requests[r]
           new == [old EXCEPT !.at = to]
<1>1. old \in Request /\ WellFormed(old) /\ old.at = from
  BY DEF TypeInv, TypeOK, At
<1>2. requests' = [requests EXCEPT ![r] = new]
  BY DEF Advance, TypeInv, TypeOK
<1>3. from = "put:meta" => MetaOf(old.upload).type = ArtifactTypeOrOther(old.upload.type)
  BY <1>1, UploadType DEF WellFormed, PutSteps
<1> HIDE DEF old
<1>4. /\ new \in Request
      /\ new.at = to /\ new.caller = old.caller /\ new.case = old.case
      /\ new.name = old.name /\ new.upload = old.upload /\ new.seen = old.seen
  BY <1>1 DEF Request
<1> HIDE DEF new
<1>5. WellFormed(new)
  BY <1>1, <1>3, <1>4 DEF WellFormed, PutSteps, DropSteps, Deciding, old
<1>6. QED
  BY <1>2, <1>4, <1>5, ReplaceRequest

\* Every step of a request leaves it knowing what its next step needs.
LEMMA ServeOK ==
    ASSUME TypeInv, NEW r \in Requests, Serve(r)
    PROVE  /\ requests' \in [Requests -> Request]
           /\ \A s \in Requests : WellFormed(requests'[s])
<1> DEFINE Kept == /\ requests' \in [Requests -> Request]
                   /\ \A s \in Requests : WellFormed(requests'[s])
           old == requests[r]
<1>1. old \in Request /\ WellFormed(old)
  BY DEF TypeInv, TypeOK
<1>2. Finish(r) => Kept
  BY FinishOK
<1> SUFFICES Kept
  OBVIOUS
<1> HIDE DEF Kept, old
<1>3. CASE PublishWrite(r) \/ UpdateWrite(r) \/ PutLink(r) \/ DropMeta(r) \/ DeleteCase(r)
  BY <1>2, <1>3 DEF PublishWrite, UpdateWrite, PutLink, DropMeta, DeleteCase
<1>4. CASE PutAuthorize(r)
  <2>1. At(r, "put:authorize") /\ (Advance(r, "put:load") \/ Finish(r))
    BY <1>4 DEF PutAuthorize, CheckOwnership
  <2>2. Advance(r, "put:load") => Kept
    BY <2>1, AdvanceOK DEF Kept, Steps, PutSteps
  <2>3. QED
    BY <1>2, <2>1, <2>2
<1>5. CASE DropAuthorize(r)
  <2>1. At(r, "drop:authorize") /\ (Advance(r, "drop:find") \/ Finish(r))
    BY <1>5 DEF DropAuthorize, CheckOwnership
  <2>2. Advance(r, "drop:find") => Kept
    BY <2>1, AdvanceOK DEF Kept, Steps, DropSteps
  <2>3. QED
    BY <1>2, <2>1, <2>2
<1>6. CASE PutLoad(r)
  <2> DEFINE doc == testCases[old.case]
             tc == FromDocument(doc)
             new == [old EXCEPT !.at = "put:store", !.seen = tc]
  <2>1. old.at = "put:load" /\ old.case \in Cases
    BY <1>1, <1>6 DEF PutLoad, At, old, WellFormed
  <2>2. CASE doc # None /\ PutAllowed(tc, old.upload)
    <3>1. tc \in TestCase /\ RefsConsistent(tc)
      BY <2>1, <2>2, ViewType
    <3>2. requests' = [requests EXCEPT ![r] = new]
      BY <1>6, <2>2 DEF PutLoad, old, TypeInv, TypeOK
    <3> HIDE DEF tc
    <3>3. /\ new \in Request
          /\ new.at = "put:store" /\ new.caller = old.caller /\ new.case = old.case
          /\ new.name = old.name /\ new.upload = old.upload /\ new.seen = tc
      BY <1>1, <3>1 DEF Request, Steps, PutSteps
    <3> HIDE DEF new
    <3>4. WellFormed(new)
      BY <1>1, <2>1, <2>2, <3>1, <3>3 DEF WellFormed, PutSteps, DropSteps, Deciding
    <3>5. QED
      BY <3>2, <3>3, <3>4, ReplaceRequest DEF Kept
  <2>3. CASE ~(doc # None /\ PutAllowed(tc, old.upload))
    BY <1>2, <1>6, <2>3 DEF PutLoad, old
  <2>4. QED
    BY <2>2, <2>3
<1>7. CASE PutStore(r)
  BY <1>7, AdvanceOK DEF PutStore, Kept, Steps, PutSteps
<1>8. CASE PutMeta(r)
  <2>1. CASE IsLinked(MetaOf(requests[r].upload).type)
    <3>1. At(r, "put:meta") /\ Advance(r, "put:link")
      BY <1>8, <2>1 DEF PutMeta
    <3>2. QED
      BY <2>1, <3>1, AdvanceOK DEF Kept, Steps, PutSteps
  <2>2. CASE ~IsLinked(MetaOf(requests[r].upload).type)
    BY <1>2, <1>8, <2>2 DEF PutMeta
  <2>3. QED
    BY <2>1, <2>2
<1>9. CASE DropFind(r)
  <2>1. /\ At(r, "drop:find")
        /\ Finish(r) \/ Advance(r, "drop:guard") \/ Advance(r, "drop:object")
    BY <1>9 DEF DropFind
  <2>2. Advance(r, "drop:guard") => Kept
    BY <2>1, AdvanceOK DEF Kept, Steps, DropSteps
  <2>3. Advance(r, "drop:object") => Kept
    BY <2>1, AdvanceOK DEF Kept, Steps, DropSteps
  <2>4. QED
    BY <1>2, <2>1, <2>2, <2>3
<1>10. CASE DropGuard(r)
  <2>1. At(r, "drop:guard") /\ (Finish(r) \/ Advance(r, "drop:object"))
    BY <1>10 DEF DropGuard
  <2>2. Advance(r, "drop:object") => Kept
    BY <2>1, AdvanceOK DEF Kept, Steps, DropSteps
  <2>3. QED
    BY <1>2, <2>1, <2>2
<1>11. CASE DropObject(r)
  BY <1>11, AdvanceOK DEF DropObject, Kept, Steps, DropSteps
<1>12. CASE DeleteList(r) \/ DeleteMeta(r)
  <2>1. PICK rest \in SUBSET Names : DeleteRest(r, rest)
    <3>1. old.pending \ {old.name} \in SUBSET Names
      BY <1>1 DEF Request
    <3>2. QED
      BY <1>12, <3>1 DEF DeleteList, DeleteMeta, old
  <2> DEFINE step == IF rest = {} THEN "delete:case" ELSE "delete:object"
             new == [old EXCEPT !.at = step, !.name = None, !.pending = rest]
  <2>2. requests' = [requests EXCEPT ![r] = new]
    BY <2>1 DEF DeleteRest, old, TypeInv, TypeOK
  <2>3. old.at # "idle"
    BY <1>12 DEF DeleteList, DeleteMeta, At, old
  <2>4. step \in {"delete:case", "delete:object"} /\ step \in Steps
    BY DEF Steps, DeleteSteps
  <2> HIDE DEF step
  <2>5. new \in Request /\ new.at = step /\ new.caller = old.caller /\ new.case = old.case
    BY <1>1, <2>4 DEF Request
  <2> HIDE DEF new
  <2>6. WellFormed(new)
    BY <1>1, <2>3, <2>4, <2>5 DEF WellFormed, PutSteps, DropSteps, Deciding
  <2>7. QED
    BY <2>2, <2>5, <2>6, ReplaceRequest DEF Kept
<1>13. CASE DeleteObject(r)
  <2>1. PICK n \in old.pending :
            requests' = [requests EXCEPT ![r].at = "delete:meta", ![r].name = n]
    BY <1>13 DEF DeleteObject, old
  <2> DEFINE new == [old EXCEPT !.at = "delete:meta", !.name = n]
  <2>2. requests' = [requests EXCEPT ![r] = new]
    BY <2>1 DEF old, TypeInv, TypeOK
  <2>3. old.at = "delete:object" /\ n \in Names
    BY <1>1, <1>13 DEF DeleteObject, At, old, Request
  <2>4. /\ new \in Request /\ new.at = "delete:meta" /\ new.name = n
        /\ new.caller = old.caller /\ new.case = old.case
    BY <1>1, <2>3 DEF Request, Steps, DeleteSteps
  <2> HIDE DEF new
  <2>5. WellFormed(new)
    BY <1>1, <2>3, <2>4 DEF WellFormed, PutSteps, DropSteps, Deciding
  <2>6. QED
    BY <2>2, <2>4, <2>5, ReplaceRequest DEF Kept
<1>14. QED
  BY <1>3, <1>4, <1>5, <1>6, <1>7, <1>8, <1>9, <1>10, <1>11, <1>12, <1>13 DEF Serve

\* A write to a case that stores a document with consistent references keeps the
\* collection well-typed and every case's references consistent.
LEMMA UpdateOneOK ==
    ASSUME TypeInv, NEW c \in Cases, NEW doc, UpdateOne(c, doc),
           testCases[c] # None => doc \in Document /\ RefsConsistent(FromDocument(doc))
    PROVE  testCases' \in [Cases -> Document \cup {None}] /\ RefsAreConsistent'
<1>1. testCases \in [Cases -> Document \cup {None}] /\ RefsAreConsistent
  BY DEF TypeInv, TypeOK
<1>2. testCases' = [testCases EXCEPT ![c] = IF testCases[c] = None THEN None ELSE doc]
  BY <1>1 DEF UpdateOne
<1>3. ASSUME NEW d \in Cases
      PROVE  /\ testCases'[d] \in Document \cup {None}
             /\ testCases'[d] # None => RefsConsistent(FromDocument(testCases'[d]))
  BY <1>1, <1>2 DEF RefsAreConsistent, Exists, View
<1>4. QED
  BY <1>1, <1>2, <1>3 DEF RefsAreConsistent, Exists, View

\* A step keeps the case documents well-typed and their references consistent.
LEMMA TestCasesOK ==
    ASSUME TypeInv, AnyStep
    PROVE  testCases' \in [Cases -> Document \cup {None}] /\ RefsAreConsistent'
<1> DEFINE Kept == testCases' \in [Cases -> Document \cup {None}] /\ RefsAreConsistent'
<1>1. testCases \in [Cases -> Document \cup {None}] /\ RefsAreConsistent
  BY DEF TypeInv, TypeOK
<1>2. ASSUME UNCHANGED testCases PROVE Kept
  BY <1>1, <1>2 DEF RefsAreConsistent, Exists, View
<1> SUFFICES Kept
  OBVIOUS
<1> HIDE DEF Kept
<1>3. CASE Create
  <2>1. PICK p \in Principals, c \in Cases, label \in Labels, testType \in TestTypes \cup {""} :
            CreateMetadata(p, c, label, testType)
    BY <1>3 DEF Create
  <2> DEFINE new == NewTestCase(label, testType, p.userID)
  <2>2. new \in TestCase
    BY PrincipalsAssumption, NewTestCaseType DEF Principal
  <2>3. testCases' = [testCases EXCEPT ![c] = new]
    BY <2>1 DEF CreateMetadata
  <2>4. new.environments = <<>> /\ new.scripts = <<>> /\ new.defaultScope = ""
    BY DEF NewTestCase
  <2> HIDE DEF new
  <2>5. RefsConsistent(new)
    BY <2>4, EmptyRefs DEF RefsConsistent
  <2>6. new \in Document /\ FromDocument(new) = new
    BY <2>2, <2>5, TestCaseIsDocument, FromDocumentOfTestCase
  <2>7. ASSUME NEW d \in Cases
        PROVE  /\ testCases'[d] \in Document \cup {None}
               /\ testCases'[d] # None => RefsConsistent(FromDocument(testCases'[d]))
    BY <1>1, <2>3, <2>5, <2>6 DEF RefsAreConsistent, Exists, View
  <2>8. QED
    BY <1>1, <2>3, <2>7 DEF Kept, RefsAreConsistent, Exists, View
<1>4. ASSUME NEW r \in Requests, Arrive(r)
      PROVE  Kept
  BY <1>2, <1>4
     DEF Arrive, PublishReceive, UpdateReceive, PutReceive, DropReceive, DeleteReceive, stores
<1>5. ASSUME NEW r \in Requests, Serve(r)
      PROVE  Kept
  <2> DEFINE req == requests[r]
             c == req.case
             doc == testCases[c]
  <2>1. req \in Request /\ WellFormed(req)
    BY DEF TypeInv, TypeOK
  <2>2. CASE PublishWrite(r)
    <3>1. c \in Cases /\ req.visibility \in Visibilities
      BY <2>1, <2>2 DEF PublishWrite, At, WellFormed
    <3> DEFINE new == [doc EXCEPT !.status = "published", !.visibility = req.visibility]
    <3>2. UpdateOne(c, new)
      BY <2>2 DEF PublishWrite
    <3>3. ASSUME doc # None
          PROVE  new \in Document /\ RefsConsistent(FromDocument(new))
      <4>1. doc \in Document /\ FromDocument(doc) \in TestCase /\ RefsConsistent(FromDocument(doc))
        BY <3>1, <3>3, ViewType
      <4>2. /\ new \in Document
            /\ FromDocument(new) = [FromDocument(doc) EXCEPT !.status = "published",
                                                             !.visibility = req.visibility]
        BY <3>1, <4>1, PublishedType
      <4> HIDE DEF new
      <4>3. /\ FromDocument(new).environments = FromDocument(doc).environments
            /\ FromDocument(new).scripts = FromDocument(doc).scripts
            /\ FromDocument(new).defaultScope = FromDocument(doc).defaultScope
        BY <4>1, <4>2 DEF TestCase
      <4>4. QED
        BY <4>1, <4>2, <4>3 DEF RefsConsistent
    <3>4. QED
      BY <3>1, <3>2, <3>3, UpdateOneOK DEF Kept
  <2>3. CASE UpdateWrite(r)
    <3>1. c \in Cases /\ req.patch \in Patches /\ req.seen \in TestCase /\ PatchAllowed(req.seen, req.patch)
      BY <2>1, <2>3 DEF UpdateWrite, At, WellFormed, Deciding
    <3> DEFINE new == Patched(doc, req.patch)
    <3>2. UpdateOne(c, new)
      BY <2>3 DEF UpdateWrite
    <3>3. ASSUME doc # None
          PROVE  new \in Document /\ RefsConsistent(FromDocument(new))
      <4>1. doc \in Document /\ RefsConsistent(FromDocument(doc))
        BY <3>1, <3>3, ViewType
      <4>2. /\ new \in Document
            /\ FromDocument(new).environments = FromDocument(doc).environments
            /\ FromDocument(new).scripts = FromDocument(doc).scripts
            /\ FromDocument(new).defaultScope = FromDocument(doc).defaultScope
        BY <3>1, <4>1, PatchedType
      <4>3. QED
        BY <4>1, <4>2 DEF RefsConsistent
    <3>4. QED
      BY <3>1, <3>2, <3>3, UpdateOneOK DEF Kept
  <2>4. CASE PutLink(r)
    <3>1. c \in Cases /\ req.at = "put:link"
      BY <2>1, <2>4 DEF PutLink, At, WellFormed
    <3> DEFINE new == LinkDocument(doc, req)
    <3>2. UpdateOne(c, new)
      BY <2>4 DEF PutLink, LinkDocument
    <3>3. ASSUME doc # None
          PROVE  new \in Document /\ RefsConsistent(FromDocument(new))
      <4>1. doc \in Document
        BY <3>1, <3>3, ViewType
      <4>2. new \in TestCase /\ RefsConsistent(new) /\ FromDocument(new) = new
        BY <2>1, <3>1, <4>1, LinkType
      <4>3. QED
        BY <4>2, TestCaseIsDocument
    <3>4. QED
      BY <3>1, <3>2, <3>3, UpdateOneOK DEF Kept
  <2>5. CASE DeleteCase(r)
    <3>1. testCases' = [testCases EXCEPT ![c] = None]
      BY <2>5 DEF DeleteCase
    <3>2. QED
      BY <1>1, <3>1 DEF Kept, RefsAreConsistent, Exists, View
  <2>6. CASE \/ PutAuthorize(r) \/ PutLoad(r) \/ PutStore(r) \/ PutMeta(r)
             \/ DropAuthorize(r) \/ DropFind(r) \/ DropGuard(r) \/ DropObject(r) \/ DropMeta(r)
             \/ DeleteList(r) \/ DeleteObject(r) \/ DeleteMeta(r)
    BY <1>2, <2>6
       DEF PutAuthorize, PutLoad, PutStore, PutMeta, DropAuthorize, DropFind, DropGuard,
           DropObject, DropMeta, DeleteList, DeleteObject, DeleteMeta, CheckOwnership, stores
  <2>7. QED
    BY <1>5, <2>2, <2>3, <2>4, <2>5, <2>6 DEF Serve
<1>6. ASSUME NEW r \in Requests, Abort(r)
      PROVE  Kept
  BY <1>2, <1>6 DEF Abort, stores
<1>7. QED
  BY <1>3, <1>4, <1>5, <1>6 DEF AnyStep

\* A step keeps the artifact records, the objects and the history well-typed.
LEMMA ContentOK ==
    ASSUME TypeInv, AnyStep
    PROVE  /\ artifacts' \in [Cases -> [Names -> ArtifactMeta \cup {None}]]
           /\ objects' \in [Cases -> [Names -> Payload \cup {None}]]
           /\ issued' \in SUBSET Cases
           /\ raced' \in SUBSET Cases
           /\ torn' \in SUBSET (Cases \X Names)
<1> DEFINE Kept == /\ artifacts' \in [Cases -> [Names -> ArtifactMeta \cup {None}]]
                   /\ objects' \in [Cases -> [Names -> Payload \cup {None}]]
                   /\ issued' \in SUBSET Cases
                   /\ raced' \in SUBSET Cases
                   /\ torn' \in SUBSET (Cases \X Names)
<1>1. /\ artifacts \in [Cases -> [Names -> ArtifactMeta \cup {None}]]
      /\ objects \in [Cases -> [Names -> Payload \cup {None}]]
      /\ issued \in SUBSET Cases
      /\ raced \in SUBSET Cases
      /\ torn \in SUBSET (Cases \X Names)
  BY DEF TypeInv, TypeOK
<1>2. ASSUME UNCHANGED <<artifacts, objects, history>>
      PROVE  Kept
  BY <1>1, <1>2 DEF history
<1>3. ASSUME NEW r \in Requests, NoteRace(r), requests[r].case \in Cases,
             UNCHANGED <<artifacts, objects, issued, torn>>
      PROVE  Kept
  BY <1>1, <1>3 DEF NoteRace
<1>4. ASSUME NEW r \in Requests, NEW c \in Cases, NEW n \in Names,
             NEW content \in Payload \cup {None}, WriteObject(r, c, n, content),
             UNCHANGED <<artifacts, issued, raced>>
      PROVE  Kept
  <2>1. objects' \in [Cases -> [Names -> Payload \cup {None}]]
    BY <1>1, <1>4 DEF WriteObject
  <2>2. torn' \in SUBSET (Cases \X Names)
    BY <1>1, <1>4 DEF WriteObject
  <2>3. QED
    BY <1>1, <1>4, <2>1, <2>2
<1>5. ASSUME NEW c \in Cases, NEW n \in Names, NEW meta \in ArtifactMeta \cup {None},
             WriteMeta(c, n, meta), UNCHANGED <<objects, history>>
      PROVE  Kept
  BY <1>1, <1>5 DEF WriteMeta, history
<1> SUFFICES Kept
  OBVIOUS
<1> HIDE DEF Kept
<1>6. CASE Create
  <2>1. PICK c \in Cases : issued' = issued \cup {c} /\ UNCHANGED <<artifacts, objects, raced, torn>>
    BY <1>6 DEF Create, CreateMetadata
  <2>2. QED
    BY <1>1, <2>1 DEF Kept
<1>7. ASSUME NEW r \in Requests, Arrive(r)
      PROVE  Kept
  BY <1>2, <1>7
     DEF Arrive, PublishReceive, UpdateReceive, PutReceive, DropReceive, DeleteReceive, stores
<1>8. ASSUME NEW r \in Requests, Serve(r)
      PROVE  Kept
  <2> DEFINE req == requests[r]
  <2>1. req \in Request /\ WellFormed(req)
    BY DEF TypeInv, TypeOK
  <2>2. CASE PublishWrite(r) \/ UpdateWrite(r) \/ PutLink(r)
    <3>1. req.case \in Cases
      BY <2>1, <2>2 DEF PublishWrite, UpdateWrite, PutLink, At, WellFormed
    <3>2. QED
      BY <1>3, <2>2, <3>1 DEF PublishWrite, UpdateWrite, PutLink
  <2>3. CASE PutStore(r)
    <3>1. req.case \in Cases /\ req.name \in Names /\ req.upload \in Upload
      BY <2>1, <2>3 DEF PutStore, At, WellFormed, PutSteps
    <3>2. req.upload.payload \in Payload
      BY <3>1, UploadType
    <3>3. QED
      BY <1>4, <2>3, <3>1, <3>2 DEF PutStore
  <2>4. CASE PutMeta(r)
    <3>1. req.case \in Cases /\ req.name \in Names /\ req.upload \in Upload
      BY <2>1, <2>4 DEF PutMeta, At, WellFormed, PutSteps
    <3>2. MetaOf(req.upload) \in ArtifactMeta
      BY <3>1, UploadType
    <3>3. QED
      BY <1>5, <2>4, <3>1, <3>2 DEF PutMeta
  <2>5. CASE DropObject(r)
    <3>1. req.case \in Cases /\ req.name \in Names
      BY <2>1, <2>5 DEF DropObject, At, WellFormed, DropSteps
    <3>2. QED
      BY <1>4, <2>5, <3>1 DEF DropObject
  <2>6. CASE DropMeta(r) \/ DeleteMeta(r)
    <3>1. req.case \in Cases /\ req.name \in Names
      BY <2>1, <2>6 DEF DropMeta, DeleteMeta, At, WellFormed, DropSteps
    <3>2. QED
      BY <1>5, <2>6, <3>1 DEF DropMeta, DeleteMeta
  <2>7. CASE DeleteObject(r)
    <3>1. req.case \in Cases /\ req.pending \in SUBSET Names
      BY <2>1, <2>7 DEF DeleteObject, At, WellFormed, Request
    <3>2. PICK n \in req.pending : WriteObject(r, req.case, n, None)
      BY <2>7 DEF DeleteObject
    <3>3. QED
      BY <1>4, <2>7, <3>1, <3>2 DEF DeleteObject
  <2>8. CASE \/ PutAuthorize(r) \/ PutLoad(r) \/ DropAuthorize(r) \/ DropFind(r)
             \/ DropGuard(r) \/ DeleteList(r) \/ DeleteCase(r)
    BY <1>2, <2>8
       DEF PutAuthorize, PutLoad, DropAuthorize, DropFind, DropGuard, DeleteList, DeleteCase,
           CheckOwnership, stores
  <2>9. QED
    BY <1>8, <2>2, <2>3, <2>4, <2>5, <2>6, <2>7, <2>8 DEF Serve
<1>9. ASSUME NEW r \in Requests, Abort(r)
      PROVE  Kept
  BY <1>1, <1>9 DEF Kept, Abort, stores
<1>10. QED
  BY <1>6, <1>7, <1>8, <1>9 DEF AnyStep

LEMMA TypeStep == TypeInv /\ [AnyStep]_vars => TypeInv'
<1> SUFFICES ASSUME TypeInv, [AnyStep]_vars PROVE TypeInv'
  OBVIOUS
<1>1. CASE AnyStep
  <2>1. /\ requests' \in [Requests -> Request]
        /\ \A s \in Requests : WellFormed(requests'[s])
    <3>1. CASE Create
      BY <3>1 DEF Create, CreateMetadata, TypeInv, TypeOK
    <3>2. ASSUME NEW r \in Requests, Abort(r)
          PROVE  /\ requests' \in [Requests -> Request]
                 /\ \A s \in Requests : WellFormed(requests'[s])
      BY <3>2, FinishOK DEF Abort
    <3>3. QED
      BY <1>1, <3>1, <3>2, ReceiveOK, ServeOK DEF AnyStep
  <2>2. QED
    BY <1>1, <2>1, TestCasesOK, ContentOK DEF TypeInv, TypeOK
<1>2. CASE UNCHANGED vars
  BY <1>2 DEF vars, TypeInv, TypeOK, RefsAreConsistent, Exists, View
<1>3. QED
  BY <1>1, <1>2

\* The stores and the requests keep their types: what the handlers write is what
\* the readers of a document, of a record or of a file can decode.
THEOREM TypeCorrect == Spec => []TypeOK
<1>1. TypeInv => TypeOK
  BY DEF TypeInv
<1>2. QED
  BY <1>1, TypeInit, TypeStep, NextIsAnyStep, PTL DEF Spec

LEMMA AnyRefsCorrect == AnySpec => []RefsAreConsistent
<1>1. TypeInv => RefsAreConsistent
  BY DEF TypeInv
<1>2. QED
  BY <1>1, TypeInit, TypeStep, PTL DEF AnySpec

\* However many uploads run at once and however their whole-document link writes
\* overwrite each other, no case ever refers to two snapshots of one scope, twice
\* to one script, or states a default scope for which it has no snapshot.
THEOREM RefsCorrect == Spec => []RefsAreConsistent
  BY AnyRefsCorrect, SpecIsAny, PTL
=============================================================================
