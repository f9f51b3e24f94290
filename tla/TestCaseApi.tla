------------------------------ MODULE TestCaseApi ------------------------------
(***************************************************************************)
(* The test case and artifact endpoints of `kish api`: the HTTP handlers,  *)
(* the application services behind them, and the three stores they share,  *)
(* the test_cases and artifacts collections and the object store.          *)
(*                                                                         *)
(* Every handler runs on its own goroutine (or in another process) without *)
(* locks or transactions, so a request is a small program whose steps are  *)
(* its store calls, and the calls of different requests interleave.  Each  *)
(* call is atomic.  requests[r].at names the call request r makes next.    *)
(*                                                                         *)
(* A request that a check rejects returns right there and changes no       *)
(* store: the checks made when a request is accepted are guards of the     *)
(* accepting action, and later ones end the request (Finish).              *)
(***************************************************************************)
EXTENDS TestCaseDocument

CONSTANTS
    Requests,      \* request slots: how many requests may run at once
    Principals,    \* the callers
    Uploads,       \* uploads callers make, a subset of Upload
    Patches,       \* PATCH bodies callers send, a subset of Patch
    PublishBodies, \* visibilities publish requests ask for
    Endpoints      \* the endpoints clients call: what a model bounds

\* An upload is the artifact type header ("" if missing) and the body.
Upload == [type : ArtifactTypes \cup {""}, payload : Payload]

\* A patch: None leaves the field alone; clients may send values that are not valid.
Patch == [name : Labels \cup {None},
          testType : TestTypes \cup {None, ""},
          visibility : Visibilities \cup {None, "secret"}]

ASSUME PrincipalsAssumption == Principals \subseteq Principal
ASSUME UploadsAssumption == Uploads \subseteq Upload
ASSUME PatchesAssumption == Patches \subseteq Patch
ASSUME PublishBodiesAssumption == PublishBodies \subseteq Visibilities \cup {"", "secret"}

ASSUME EndpointsAssumption == Endpoints \subseteq {"publish", "update", "put", "drop", "delete"}

VARIABLES
    testCases,  \* the test_cases collection
    artifacts,  \* the artifacts collection, unique on case and name
    objects,    \* the object store, under the key of case and name
    requests,   \* the requests being served
    \* History variables: they record what happened and guide no step.
    issued,     \* case ids that have been given out
    raced,      \* cases written on a publication state that had changed meanwhile
    torn        \* artifacts whose content was written without its own metadata

stores == <<testCases, artifacts, objects>>
history == <<issued, raced, torn>>
vars == <<testCases, artifacts, objects, requests, issued, raced, torn>>

-----------------------------------------------------------------------------
\* Requests.

PutSteps == {"put:authorize", "put:load", "put:store", "put:meta", "put:link"}
DropSteps == {"drop:authorize", "drop:find", "drop:guard", "drop:object", "drop:meta"}
DeleteSteps == {"delete:list", "delete:object", "delete:meta", "delete:case"}
Steps == {"idle", "publish", "update"} \cup PutSteps \cup DropSteps \cup DeleteSteps

Idle == [at |-> "idle", caller |-> None, case |-> None, name |-> None,
         upload |-> None, patch |-> None, visibility |-> None,
         seen |-> None, pending |-> {}]

Request ==
    [at : Steps,
     caller : Principals \cup {None},
     case : Cases \cup {None},
     name : Names \cup {None},
     upload : Upload \cup {None},
     patch : Patches \cup {None},
     visibility : Visibilities \cup {None},
     seen : TestCase \cup {None},   \* the case as the request read it
     pending : SUBSET Names]        \* artifacts DeleteTestCase has still to remove

At(r, step) == requests[r].at = step

\* Between writing (or removing) an object and its metadata.
Halfway(r, c, n) ==
    /\ requests[r].at \in {"put:meta", "drop:meta", "delete:meta"}
    /\ requests[r].case = c
    /\ requests[r].name = n

Accept(r, req) ==
    /\ At(r, "idle")
    /\ requests' = [requests EXCEPT ![r] = req]

Advance(r, step) == requests' = [requests EXCEPT ![r].at = step]

Finish(r) == requests' = [requests EXCEPT ![r] = Idle]

-----------------------------------------------------------------------------
\* The stores.

\* Mongo's UpdateOne without upsert: a document that is gone stays gone.
UpdateOne(c, doc) ==
    testCases' = [testCases EXCEPT ![c] = IF @ = None THEN None ELSE doc]

\* The stored publication state is no longer the one request r decided on.
Stale(r) ==
    LET c == requests[r].case IN
    /\ testCases[c] # None
    /\ LET now == FromDocument(testCases[c])
           seen == requests[r].seen
       IN  now.status # seen.status \/ now.visibility # seen.visibility

NoteRace(r) ==
    raced' = IF Stale(r) THEN raced \cup {requests[r].case} ELSE raced

\* PutObject and DeleteObject; the content is torn until its metadata follows,
\* if another request is halfway through the same artifact.
WriteObject(r, c, n, content) ==
    /\ objects' = [objects EXCEPT ![c][n] = content]
    /\ torn' = IF \E s \in Requests : s # r /\ Halfway(s, c, n)
                 THEN torn \cup {<<c, n>>}
                 ELSE torn \ {<<c, n>>}

WriteMeta(c, n, meta) == artifacts' = [artifacts EXCEPT ![c][n] = meta]

-----------------------------------------------------------------------------
\* Fault: ids do not hold the time, and that of a deleted case comes again.
CreateMetadataReusingIds(p, c, label, testType) ==
    /\ ~IsAnonymous(p)
    /\ testCases[c] = None
    /\ testCases' = [testCases EXCEPT ![c] = NewTestCase(label, testType, p.userID)]
    /\ issued' = issued \cup {c}
    /\ UNCHANGED <<artifacts, objects, requests, raced, torn>>

\* POST /testcases.  The one write is the insert.  generateCaseID gives a new
\* id, or one whose insert the unique _id rejects, which changes nothing.
CreateMetadata(p, c, label, testType) ==
    /\ ~IsAnonymous(p)
    /\ c \notin issued
    /\ testCases' = [testCases EXCEPT ![c] = NewTestCase(label, testType, p.userID)]
    /\ issued' = issued \cup {c}
    /\ UNCHANGED <<artifacts, objects, requests, raced, torn>>

-----------------------------------------------------------------------------
\* POST /testcases/{id}/publish: read, check, then set status and visibility.
PublishReceive(r, p, c, body) ==
    /\ ~IsAnonymous(p)
    /\ VisibilityOrPublic(body) \in Visibilities
    /\ testCases[c] # None
    /\ CanManage(FromDocument(testCases[c]), p)
    /\ IsDraft(FromDocument(testCases[c]))
    /\ Accept(r, [Idle EXCEPT !.at = "publish", !.caller = p, !.case = c,
                              !.visibility = VisibilityOrPublic(body),
                              !.seen = FromDocument(testCases[c])])
    /\ UNCHANGED <<stores, history>>

PublishWrite(r) ==
    /\ At(r, "publish")
    /\ LET c == requests[r].case
       IN  UpdateOne(c, [testCases[c] EXCEPT !.status = "published",
                                             !.visibility = requests[r].visibility])
    /\ NoteRace(r)
    /\ Finish(r)
    /\ UNCHANGED <<artifacts, objects, issued, torn>>

-----------------------------------------------------------------------------
\* Fault: the visibility of a draft can be patched.
PatchAllowedOnDrafts(tc, patch) ==
    /\ patch.testType # None => IsDraft(tc) /\ patch.testType # ""
    /\ patch.visibility # None => patch.visibility \in Visibilities

\* Fault: the visibility is not validated.
PatchAllowedUnvalidated(tc, patch) ==
    /\ patch.testType # None => IsDraft(tc) /\ patch.testType # ""
    /\ patch.visibility # None => IsPublished(tc)

\* Fault: the test type can be patched at any stage.
PatchAllowedAnyStage(tc, patch) ==
    /\ patch.testType # None => patch.testType # ""
    /\ patch.visibility # None => IsPublished(tc) /\ patch.visibility \in Visibilities

\* PATCH /testcases/{id}: read, check, then set the fields of the patch.
PatchAllowed(tc, patch) ==
    /\ patch.testType # None => IsDraft(tc) /\ patch.testType # ""
    /\ patch.visibility # None => IsPublished(tc) /\ patch.visibility \in Visibilities

UpdateReceive(r, p, c, patch) ==
    /\ ~IsAnonymous(p)
    /\ testCases[c] # None
    /\ CanManage(FromDocument(testCases[c]), p)
    /\ PatchAllowed(FromDocument(testCases[c]), patch)
    /\ Accept(r, [Idle EXCEPT !.at = "update", !.caller = p, !.case = c,
                              !.patch = patch,
                              !.seen = FromDocument(testCases[c])])
    /\ UNCHANGED <<stores, history>>

Patched(doc, patch) ==
    [doc EXCEPT !.name = IF patch.name = None THEN @ ELSE patch.name,
                !.testType = IF patch.testType = None THEN @ ELSE patch.testType,
                !.visibility = IF patch.visibility = None THEN @ ELSE patch.visibility]

UpdateWrite(r) ==
    /\ At(r, "update")
    /\ LET c == requests[r].case
       IN  UpdateOne(c, Patched(testCases[c], requests[r].patch))
    /\ NoteRace(r)
    /\ Finish(r)
    /\ UNCHANGED <<artifacts, objects, issued, torn>>

-----------------------------------------------------------------------------
\* Fault: any caller passes the check of a case that exists.
CheckExistenceOnly(r, authorize, next) ==
    /\ At(r, authorize)
    /\ IF testCases[requests[r].case] # None THEN Advance(r, next) ELSE Finish(r)
    /\ UNCHANGED <<stores, history>>

\* The artifact handlers check ownership with a read of their own, before the
\* service reads the case again.  Admins skip that check.
FirstStep(p, authorize, next) == IF p.isAdmin THEN next ELSE authorize

CheckOwnership(r, authorize, next) ==
    /\ At(r, authorize)
    /\ LET doc == testCases[requests[r].case]
       IN  IF doc # None /\ doc.owner = requests[r].caller.userID
             THEN Advance(r, next)
             ELSE Finish(r)
    /\ UNCHANGED <<stores, history>>

\* PUT /testcases/{id}/artifacts/{name}.
PutReceive(r, p, c, n, upload) ==
    /\ ~IsAnonymous(p)
    /\ Accept(r, [Idle EXCEPT !.at = FirstStep(p, "put:authorize", "put:load"),
                              !.caller = p, !.case = c, !.name = n, !.upload = upload])
    /\ UNCHANGED <<stores, history>>

PutAuthorize(r) == CheckOwnership(r, "put:authorize", "put:load")

\* Fault: the publication rule is forgotten.
PutAllowedAnyStage(tc, upload) ==
    ArtifactTypeOrOther(upload.type) = "environment" => IsSnapshot(upload.payload)

\* The upload passes the snapshot parser and the publication rule.
PutAllowed(tc, upload) ==
    LET type == ArtifactTypeOrOther(upload.type) IN
    /\ type = "environment" => IsSnapshot(upload.payload)
    /\ IsPublished(tc) => CanWritePublishedArtifact(type, upload.payload)

PutLoad(r) ==
    /\ At(r, "put:load")
    /\ LET doc == testCases[requests[r].case]
       IN  IF doc # None /\ PutAllowed(FromDocument(doc), requests[r].upload)
             THEN requests' = [requests EXCEPT ![r].at = "put:store",
                                               ![r].seen = FromDocument(doc)]
             ELSE Finish(r)
    /\ UNCHANGED <<stores, history>>

PutStore(r) ==
    /\ At(r, "put:store")
    /\ WriteObject(r, requests[r].case, requests[r].name, requests[r].upload.payload)
    /\ Advance(r, "put:meta")
    /\ UNCHANGED <<testCases, artifacts, issued, raced>>

\* The metadata record of an upload; its digest is of the body this request read.
MetaOf(upload) ==
    [type |-> ArtifactTypeOrOther(upload.type), digest |-> Sha256(upload.payload)]

\* Fault: a record that exists is left as it is.
PutMetaInsertOnly(r) ==
    /\ At(r, "put:meta")
    /\ LET meta == MetaOf(requests[r].upload)
           old == artifacts[requests[r].case][requests[r].name]
       IN  /\ WriteMeta(requests[r].case, requests[r].name, IF old = None THEN meta ELSE old)
           /\ IF IsLinked(meta.type) THEN Advance(r, "put:link") ELSE Finish(r)
    /\ UNCHANGED <<testCases, objects, history>>

\* Fault: the error of a failed write is not returned.
PutMetaErrorIgnored(r) ==
    /\ At(r, "put:meta")
    /\ LET meta == MetaOf(requests[r].upload)
       IN  /\ \/ WriteMeta(requests[r].case, requests[r].name, meta)
              \/ UNCHANGED artifacts
           /\ IF IsLinked(meta.type) THEN Advance(r, "put:link") ELSE Finish(r)
    /\ UNCHANGED <<testCases, objects, history>>

PutMeta(r) ==
    /\ At(r, "put:meta")
    /\ LET meta == MetaOf(requests[r].upload)
       IN  /\ WriteMeta(requests[r].case, requests[r].name, meta)
           /\ IF IsLinked(meta.type) THEN Advance(r, "put:link") ELSE Finish(r)
    /\ UNCHANGED <<testCases, objects, history>>

\* Fault: the link write inserts the case if it is gone.
PutLinkUpsert(r) ==
    /\ At(r, "put:link")
    /\ LET req == requests[r]
       IN  testCases' = [testCases EXCEPT ![req.case] =
               Linked(req.seen, req.name, MetaOf(req.upload), req.upload.payload)]
    /\ NoteRace(r)
    /\ Finish(r)
    /\ UNCHANGED <<artifacts, objects, issued, torn>>

\* The case is written back whole, as read in PutLoad plus the new reference.
PutLink(r) ==
    /\ At(r, "put:link")
    /\ LET req == requests[r]
           linked == Linked(req.seen, req.name, MetaOf(req.upload), req.upload.payload)
       IN  UpdateOne(req.case, WithUpdateFields(testCases[req.case], linked))
    /\ NoteRace(r)
    /\ Finish(r)
    /\ UNCHANGED <<artifacts, objects, issued, torn>>

-----------------------------------------------------------------------------
\* DELETE /testcases/{id}/artifacts/{name}.  The reference in the case stays.
DropReceive(r, p, c, n) ==
    /\ ~IsAnonymous(p)
    /\ Accept(r, [Idle EXCEPT !.at = FirstStep(p, "drop:authorize", "drop:find"),
                              !.caller = p, !.case = c, !.name = n])
    /\ UNCHANGED <<stores, history>>

DropAuthorize(r) == CheckOwnership(r, "drop:authorize", "drop:find")

DropFind(r) ==
    /\ At(r, "drop:find")
    /\ LET meta == artifacts[requests[r].case][requests[r].name]
       IN  IF meta = None THEN Finish(r)
           ELSE Advance(r, IF IsImmutableOnPublished(meta.type)
                             THEN "drop:guard" ELSE "drop:object")
    /\ UNCHANGED <<stores, history>>

\* A missing case does not stop the deletion, a published one does.
DropGuard(r) ==
    /\ At(r, "drop:guard")
    /\ LET doc == testCases[requests[r].case]
       IN  IF doc # None /\ IsPublished(FromDocument(doc))
             THEN Finish(r)
             ELSE Advance(r, "drop:object")
    /\ UNCHANGED <<stores, history>>

DropObject(r) ==
    /\ At(r, "drop:object")
    /\ WriteObject(r, requests[r].case, requests[r].name, None)
    /\ Advance(r, "drop:meta")
    /\ UNCHANGED <<testCases, artifacts, issued, raced>>

DropMeta(r) ==
    /\ At(r, "drop:meta")
    /\ WriteMeta(requests[r].case, requests[r].name, None)
    /\ Finish(r)
    /\ UNCHANGED <<testCases, objects, history>>

-----------------------------------------------------------------------------
\* DELETE /testcases/{id}: the artifacts listed once, one after the other, then
\* the case.  (The code takes them in name order; the model in any order.)
DeleteReceive(r, p, c) ==
    /\ ~IsAnonymous(p)
    /\ testCases[c] # None
    /\ CanManage(FromDocument(testCases[c]), p)
    /\ Accept(r, [Idle EXCEPT !.at = "delete:list", !.caller = p, !.case = c])
    /\ UNCHANGED <<stores, history>>

\* The artifacts that are left decide the next call.
DeleteRest(r, rest) ==
    requests' = [requests EXCEPT
                    ![r].at = IF rest = {} THEN "delete:case" ELSE "delete:object",
                    ![r].name = None,
                    ![r].pending = rest]

\* Fault: the service was built without the artifact cleanup.
DeleteListSkipped(r) ==
    /\ At(r, "delete:list")
    /\ Advance(r, "delete:case")
    /\ UNCHANGED <<stores, history>>

DeleteList(r) ==
    /\ At(r, "delete:list")
    /\ DeleteRest(r, {n \in Names : artifacts[requests[r].case][n] # None})
    /\ UNCHANGED <<stores, history>>

DeleteObject(r) ==
    /\ At(r, "delete:object")
    /\ \E n \in requests[r].pending :
          /\ WriteObject(r, requests[r].case, n, None)
          /\ requests' = [requests EXCEPT ![r].at = "delete:meta", ![r].name = n]
    /\ UNCHANGED <<testCases, artifacts, issued, raced>>

\* Fault: the artifacts are listed again after each one.
DeleteMetaRelists(r) ==
    /\ At(r, "delete:meta")
    /\ WriteMeta(requests[r].case, requests[r].name, None)
    /\ DeleteRest(r, {n \in Names : artifacts'[requests[r].case][n] # None})
    /\ UNCHANGED <<testCases, objects, history>>

DeleteMeta(r) ==
    /\ At(r, "delete:meta")
    /\ WriteMeta(requests[r].case, requests[r].name, None)
    /\ DeleteRest(r, requests[r].pending \ {requests[r].name})
    /\ UNCHANGED <<testCases, objects, history>>

DeleteCase(r) ==
    /\ At(r, "delete:case")
    /\ testCases' = [testCases EXCEPT ![requests[r].case] = None]
    /\ Finish(r)
    /\ UNCHANGED <<artifacts, objects, history>>

-----------------------------------------------------------------------------
\* A store call fails, the client hangs up (its context is cancelled) or the
\* process dies.  Nothing is retried or undone.
Abort(r) ==
    /\ ~At(r, "idle")
    /\ torn' = torn \cup {key \in Cases \X Names : Halfway(r, key[1], key[2])}
    /\ Finish(r)
    /\ UNCHANGED <<stores, issued, raced>>

-----------------------------------------------------------------------------
\* The router hands a request to the handler of its endpoint.
Receive(r) ==
    \E p \in Principals, c \in Cases :
        \/ /\ "publish" \in Endpoints
           /\ \E body \in PublishBodies : PublishReceive(r, p, c, body)
        \/ /\ "update" \in Endpoints
           /\ \E patch \in Patches : UpdateReceive(r, p, c, patch)
        \/ /\ "put" \in Endpoints
           /\ \E n \in Names, upload \in Uploads : PutReceive(r, p, c, n, upload)
        \/ /\ "drop" \in Endpoints
           /\ \E n \in Names : DropReceive(r, p, c, n)
        \/ /\ "delete" \in Endpoints
           /\ DeleteReceive(r, p, c)

\* The next call of a request being served.
Serve(r) ==
    \/ PublishWrite(r)
    \/ UpdateWrite(r)
    \/ PutAuthorize(r) \/ PutLoad(r) \/ PutStore(r) \/ PutMeta(r) \/ PutLink(r)
    \/ DropAuthorize(r) \/ DropFind(r) \/ DropGuard(r) \/ DropObject(r) \/ DropMeta(r)
    \/ DeleteList(r) \/ DeleteObject(r) \/ DeleteMeta(r) \/ DeleteCase(r)

Create ==
    \E p \in Principals, c \in Cases, label \in Labels, testType \in TestTypes \cup {""} :
        CreateMetadata(p, c, label, testType)

\* A case written before status, visibility and owners existed.
LegacyDocument(label, testType) ==
    [NewTestCase(label, testType, NoUser) EXCEPT !.status = "missing",
                                                 !.visibility = "missing"]

Init ==
    /\ testCases \in [Cases -> {None} \cup
                        {LegacyDocument(label, t) : label \in Labels, t \in TestTypes}]
    /\ artifacts = [c \in Cases |-> [n \in Names |-> None]]
    /\ objects = [c \in Cases |-> [n \in Names |-> None]]
    /\ requests = [r \in Requests |-> Idle]
    /\ issued = {c \in Cases : testCases[c] # None}
    /\ raced = {}
    /\ torn = {}

Next ==
    \/ Create
    \/ \E r \in Requests : Receive(r) \/ Serve(r) \/ Abort(r)

Spec == Init /\ [][Next]_vars

\* The runtime schedules every handler and the stores answer its calls.
FairSpec == Spec /\ \A r \in Requests : WF_vars(Serve(r))

-----------------------------------------------------------------------------
\* Properties.

\* The stores and the requests hold what the code's types allow.
TypeOK ==
    /\ testCases \in [Cases -> Document \cup {None}]
    /\ artifacts \in [Cases -> [Names -> ArtifactMeta \cup {None}]]
    /\ objects \in [Cases -> [Names -> Payload \cup {None}]]
    /\ requests \in [Requests -> Request]
    /\ issued \in SUBSET Cases
    /\ raced \in SUBSET Cases
    /\ torn \in SUBSET (Cases \X Names)

Exists(c) == testCases[c] # None
View(c) == FromDocument(testCases[c])

\* "draft TestCases are always private", as long as no request wrote the case
\* on a publication state that another request had changed since it read it.
DraftIsPrivate ==
    \A c \in Cases \ raced :
        Exists(c) /\ IsDraft(View(c)) => View(c).visibility = "private"

\* With the same proviso, publication is final: the case stays published, its
\* test type is frozen, and so are the result and the execution environment it
\* refers to, whatever uploads were in flight when it was published.
PublicationIsFinal ==
    [][\A c \in Cases \ raced' :
         Exists(c) /\ Exists(c)' /\ IsPublished(View(c))
           => /\ IsPublished(View(c))'
              /\ View(c).testType' = View(c).testType
              /\ CanonicalFacts(View(c))' = CanonicalFacts(View(c))]_vars

\* A step that changes a case, its artifacts or their content is taken for a
\* caller who may manage the case at that moment, however long ago the request
\* was authorised and whatever ran in between.
OnlyManagersWrite ==
    [][\A c \in Cases :
         /\ Exists(c)
         /\ \/ testCases'[c] # testCases[c]
            \/ artifacts'[c] # artifacts[c]
            \/ objects'[c] # objects[c]
         => \E r \in Requests :
              /\ requests'[r] # requests[r]
              /\ requests[r].case = c
              /\ CanManage(View(c), requests[r].caller)]_vars

\* A late write of a request that read the case before it was deleted does not
\* bring it back.
DeletedStaysDeleted ==
    [][\A c \in issued : ~Exists(c) => ~Exists(c)']_vars

\* However link writes interleave, a case refers to one snapshot per scope and
\* once to each script, and its default scope names a snapshot it has.
RefsAreConsistent ==
    \A c \in Cases : Exists(c) => RefsConsistent(View(c))

\* Metadata and content agree for every artifact that nobody is halfway through,
\* unless its last writers overlapped or one died between its two writes.  A
\* later upload or deletion that runs alone repairs the artifact.
ContentMatchesMetadata ==
    \A c \in Cases, n \in Names :
        (<<c, n>> \notin torn /\ \A r \in Requests : ~Halfway(r, c, n))
          => IF artifacts[c][n] = None
               THEN objects[c][n] = None
               ELSE /\ objects[c][n] # None
                    /\ artifacts[c][n].digest = Sha256(objects[c][n])

\* Every listed artifact belongs to a case that exists.  Holds when requests
\* are served one at a time, failures included: DeleteTestCase removes the case
\* last, and a deletion cut short can be repeated.
ArtifactsBelongToCases ==
    \A c \in Cases : ~Exists(c) => \A n \in Names : artifacts[c][n] = None

\* Every accepted request ends, however many others keep arriving: a deletion
\* works through the artifacts it listed once.
EveryRequestEnds ==
    \A r \in Requests : ~At(r, "idle") ~> At(r, "idle")

\* The publication stage of a case, for the refinement.
StageOf(c) ==
    IF ~Exists(c) THEN IF c \in issued THEN "gone" ELSE "absent"
    ELSE IF IsPublished(View(c)) THEN View(c).visibility
    ELSE IF View(c).visibility = "private" THEN "draft" ELSE "public draft"

Lifecycle == INSTANCE PublicationLifecycle WITH
    stage <- [c \in Cases |-> StageOf(c)],
    testType <- [c \in Cases |-> IF Exists(c) THEN View(c).testType ELSE None]

\* Requests served one at a time implement the publication lifecycle.
ImplementsLifecycle == Lifecycle!Spec

-----------------------------------------------------------------------------
\* What the documentation says and the code does not keep.

\* "draft TestCases are always private" (testcase.go:19).
DraftsAreAlwaysPrivate ==
    \A c \in Cases : Exists(c) /\ IsDraft(View(c)) => View(c).visibility = "private"
===============================================================================
