------------------------- MODULE TestCaseSafetyProofs -------------------------
(***************************************************************************)
(* Proofs of the safety properties of TestCaseApi, for any number of       *)
(* cases, callers, uploads and concurrent requests, on top of the types    *)
(* and the well-formed requests of TestCaseApiProofs.                      *)
(***************************************************************************)
EXTENDS TestCaseApiProofs, FiniteSetTheorems

-----------------------------------------------------------------------------
\* The inductive invariants.

\* What the first check of a request established is still true when it writes:
\* the caller manages the case, or the case is gone for good.
MayWrite(req) ==
    \/ req.at \in {"put:authorize", "drop:authorize"}
    \/ req.caller.isAdmin
    \/ req.case \in issued /\ (Exists(req.case) => CanManage(View(req.case), req.caller))

AccessInv ==
    /\ TypeInv
    /\ \A c \in Cases : Exists(c) => c \in issued
    /\ \A r \in Requests :
         requests[r].at # "idle" => ~IsAnonymous(requests[r].caller) /\ MayWrite(requests[r])

\* As long as a case is not raced, a request about to write it has seen a draft
\* that was private, or the publication facts the case still has.
SeenHolds(req) ==
    /\ req.case \in issued
    /\ IsDraft(req.seen) => req.seen.visibility = "private"
    /\ IsPublished(req.seen) /\ Exists(req.case)
         => /\ IsPublished(View(req.case))
            /\ View(req.case).testType = req.seen.testType
            /\ CanonicalFacts(View(req.case)) = CanonicalFacts(req.seen)

LifeInv ==
    /\ AccessInv
    /\ DraftIsPrivate
    /\ \A r \in Requests :
         requests[r].at \in Deciding /\ requests[r].case \notin raced => SeenHolds(requests[r])

\* Until the content of an artifact is torn, one request at most is between its
\* two writes, and the object is what its metadata will say.
NextContent(req) == IF req.at = "put:meta" THEN req.upload.payload ELSE None

Matches(c, n) ==
    IF artifacts[c][n] = None
      THEN objects[c][n] = None
      ELSE /\ objects[c][n] # None
           /\ artifacts[c][n].digest = Sha256(objects[c][n])

MetaSteps == {"put:meta", "drop:meta", "delete:meta"}

Consistent(c, n) == <<c, n>> \notin torn =>
    /\ \A r, s \in Requests : Halfway(r, c, n) /\ Halfway(s, c, n) => r = s
    /\ \A r \in Requests : Halfway(r, c, n) => objects[c][n] = NextContent(requests[r])
    /\ (\A r \in Requests : ~Halfway(r, c, n)) => Matches(c, n)

ContentInv == TypeInv /\ \A c \in Cases, n \in Names : Consistent(c, n)

-----------------------------------------------------------------------------
\* What one step does.

\* A step of a request replaces that request and no other.
LEMMA OneRequestSteps ==
    ASSUME NEW r \in Requests, Arrive(r) \/ Serve(r) \/ Abort(r),
           requests \in [Requests -> Request]
    PROVE  \A s \in Requests \ {r} : requests'[s] = requests[s]
<1>1. CASE Arrive(r)
  BY <1>1 DEF Arrive, PublishReceive, UpdateReceive, PutReceive, DropReceive,
              DeleteReceive, Accept
<1>2. CASE Serve(r)
  BY <1>2 DEF Serve, PublishWrite, UpdateWrite, PutAuthorize, PutLoad, PutStore, PutMeta,
              PutLink, DropAuthorize, DropFind, DropGuard, DropObject, DropMeta, DeleteList,
              DeleteObject, DeleteMeta, DeleteCase, CheckOwnership, Advance, Finish, DeleteRest
<1>3. CASE Abort(r)
  BY <1>3 DEF Abort, Finish
<1>4. QED
  BY <1>1, <1>2, <1>3

\* What is left of a deletion decides its next step.
LEMMA RestStep ==
    ASSUME NEW r \in Requests, requests[r] \in Request,
           requests \in [Requests -> Request],
           NEW rest, DeleteRest(r, rest)
    PROVE  requests'[r].at \in {"delete:case", "delete:object"}
<1>1. PICK step : /\ requests' = [requests EXCEPT ![r].at = step, ![r].name = None,
                                                  ![r].pending = rest]
                  /\ step = (IF rest = {} THEN "delete:case" ELSE "delete:object")
  BY DEF DeleteRest
<1>2. requests'[r].at = step
  BY <1>1 DEF Request
<1>3. QED
  BY <1>1, <1>2

\* A case changes when it is created, or in the last step of a request for it,
\* and then it existed.
LEMMA CaseWriter ==
    ASSUME TypeInv, [AnyStep]_vars, NEW c \in Cases, testCases'[c] # testCases[c]
    PROVE  \/ \E p \in Principals, label \in Labels, t \in TestTypes \cup {""} :
                 CreateMetadata(p, c, label, t)
           \/ \E r \in Requests :
                 /\ requests[r].case = c
                 /\ Exists(c)
                 /\ PublishWrite(r) \/ UpdateWrite(r) \/ PutLink(r) \/ DeleteCase(r)
<1>1. testCases \in [Cases -> Document \cup {None}]
  BY DEF TypeInv, TypeOK
<1>2. CASE Create
  BY <1>1, <1>2 DEF Create, CreateMetadata
<1>3. ASSUME NEW r \in Requests, Arrive(r) \/ Abort(r)
      PROVE  FALSE
  BY <1>3 DEF Arrive, PublishReceive, UpdateReceive, PutReceive, DropReceive,
              DeleteReceive, Abort, stores
<1>4. ASSUME NEW r \in Requests, Serve(r)
      PROVE  /\ requests[r].case = c
             /\ Exists(c)
             /\ PublishWrite(r) \/ UpdateWrite(r) \/ PutLink(r) \/ DeleteCase(r)
  <2>1. PublishWrite(r) \/ UpdateWrite(r) \/ PutLink(r) \/ DeleteCase(r)
    BY <1>4 DEF Serve, PutAuthorize, PutLoad, PutStore, PutMeta, DropAuthorize, DropFind,
                DropGuard, DropObject, DropMeta, DeleteList, DeleteObject, DeleteMeta,
                CheckOwnership, stores
  <2>2. \/ \E doc : UpdateOne(requests[r].case, doc)
        \/ testCases' = [testCases EXCEPT ![requests[r].case] = None]
    BY <2>1 DEF PublishWrite, UpdateWrite, PutLink, DeleteCase
  <2>3. requests[r].case = c /\ Exists(c)
    BY <1>1, <2>2 DEF UpdateOne, Exists
  <2>4. QED
    BY <2>1, <2>3
<1>5. CASE UNCHANGED vars
  BY <1>5 DEF vars
<1>6. QED
  BY <1>2, <1>3, <1>4, <1>5 DEF AnyStep

\* What the three writers leave of a case, as its readers see it.
LEMMA WrittenCase ==
    ASSUME TypeInv, NEW r \in Requests, NEW c \in Cases, requests[r].case = c, Exists(c)
    PROVE  LET new == FromDocument(testCases'[c])
               old == View(c)
               req == requests[r]
           IN  /\ PublishWrite(r) =>
                    /\ new.owner = old.owner
                    /\ IsPublished(new)
               /\ UpdateWrite(r) =>
                    /\ new.owner = old.owner
                    /\ new.status = old.status
                    /\ ~IsPublished(req.seen) => new.visibility = old.visibility
                    /\ ~IsDraft(req.seen) => new.testType = old.testType
                    /\ CanonicalFacts(new) = CanonicalFacts(old)
               /\ PutLink(r) =>
                    /\ new.owner = old.owner
                    /\ new.status = req.seen.status
                    /\ new.visibility = req.seen.visibility
                    /\ new.testType = req.seen.testType
                    /\ IsPublished(req.seen) => CanonicalFacts(new) = CanonicalFacts(req.seen)
<1> DEFINE new == FromDocument(testCases'[c])
           old == View(c)
           req == requests[r]
           doc == testCases[c]
<1>1. /\ req \in Request /\ WellFormed(req)
      /\ testCases \in [Cases -> Document \cup {None}]
  BY DEF TypeInv, TypeOK
<1>2. doc \in Document /\ old \in TestCase /\ RefsConsistent(old) /\ old = FromDocument(doc)
  BY ViewType DEF Exists, View
<1>3. ASSUME NEW d, UpdateOne(c, d)
      PROVE  new = FromDocument(d)
  BY <1>1, <1>3 DEF UpdateOne, Exists
<1>4. ASSUME PublishWrite(r)
      PROVE  new.owner = old.owner /\ IsPublished(new)
  <2>1. req.visibility \in Visibilities
    BY <1>1, <1>4 DEF PublishWrite, At, WellFormed
  <2>2. UpdateOne(c, [doc EXCEPT !.status = "published", !.visibility = req.visibility])
    BY <1>4 DEF PublishWrite
  <2>3. new = [old EXCEPT !.status = "published", !.visibility = req.visibility]
    BY <1>2, <1>3, <2>1, <2>2, PublishedType
  <2> HIDE DEF new, old
  <2>4. QED
    BY <1>2, <2>3 DEF TestCase, IsPublished
<1>5. ASSUME UpdateWrite(r)
      PROVE  /\ new.owner = old.owner
             /\ new.status = old.status
             /\ ~IsPublished(req.seen) => new.visibility = old.visibility
             /\ ~IsDraft(req.seen) => new.testType = old.testType
             /\ CanonicalFacts(new) = CanonicalFacts(old)
  <2>1. req.patch \in Patches /\ req.seen \in TestCase /\ PatchAllowed(req.seen, req.patch)
    BY <1>1, <1>5 DEF UpdateWrite, At, WellFormed, Deciding
  <2>2. UpdateOne(c, Patched(doc, req.patch))
    BY <1>5 DEF UpdateWrite
  <2>3. new = FromDocument(Patched(doc, req.patch))
    BY <1>3, <2>2
  <2>4. /\ new.environments = old.environments
        /\ new.result = old.result
        /\ new.owner = old.owner
        /\ new.status = old.status
        /\ new.testType = IF req.patch.testType = None THEN old.testType ELSE req.patch.testType
        /\ new.visibility = IF req.patch.visibility = None THEN old.visibility
                                                           ELSE req.patch.visibility
    BY <1>2, <2>1, <2>3, PatchedType
  <2> HIDE DEF new, old, req
  <2>5. CanonicalFacts(new) = CanonicalFacts(old)
    BY <2>4 DEF CanonicalFacts, ExecutionRefs
  <2>6. QED
    BY <2>1, <2>4, <2>5 DEF PatchAllowed
<1>6. ASSUME PutLink(r)
      PROVE  /\ new.owner = old.owner
             /\ new.status = req.seen.status
             /\ new.visibility = req.seen.visibility
             /\ new.testType = req.seen.testType
             /\ IsPublished(req.seen) => CanonicalFacts(new) = CanonicalFacts(req.seen)
  <2>1. req.at = "put:link" /\ UpdateOne(c, LinkDocument(doc, req))
    BY <1>6 DEF PutLink, At, LinkDocument
  <2>2. new = FromDocument(LinkDocument(doc, req))
    BY <1>3, <2>1
  <2>3. old.owner = doc.owner
    BY <1>2 DEF Document, FromDocument
  <2> HIDE DEF new, old, req
  <2>4. QED
    BY <1>1, <1>2, <2>1, <2>2, <2>3, LinkType
<1>7. QED
  BY <1>4, <1>5, <1>6

\* The requests after a step: idle, as before, just accepted, or further on with
\* the caller, the case, the artifact and the upload they came with.
LEMMA ServedRequest ==
    ASSUME TypeInv, NEW r \in Requests, Serve(r), requests'[r].at # "idle"
    PROVE  /\ requests[r].at # "idle"
           /\ requests'[r].caller = requests[r].caller
           /\ requests'[r].case = requests[r].case
           /\ requests'[r].upload = requests[r].upload
           /\ \/ requests'[r].seen = requests[r].seen
              \/ PutLoad(r) /\ requests'[r].at = "put:store"
<1> DEFINE old == requests[r]
           new == requests'[r]
<1>1. old \in Request /\ requests \in [Requests -> Request]
  BY DEF TypeInv, TypeOK
<1>2. ~Finish(r)
  BY <1>1 DEF Finish, Idle
<1>3. CASE PutLoad(r)
  <2>1. requests' = [requests EXCEPT ![r].at = "put:store",
                                     ![r].seen = FromDocument(testCases[old.case])]
    BY <1>2, <1>3 DEF PutLoad
  <2>2. old.at = "put:load"
    BY <1>3 DEF PutLoad, At
  <2> DEFINE req == [old EXCEPT !.at = "put:store", !.seen = FromDocument(testCases[old.case])]
  <2>3. new = req
    BY <1>1, <2>1
  <2>4. req.at = "put:store" /\ req.caller = old.caller /\ req.case = old.case /\ req.upload = old.upload
    BY <1>1 DEF Request
  <2>5. QED
    BY <1>3, <2>2, <2>3, <2>4
<1>4. CASE DeleteList(r) \/ DeleteMeta(r)
  <2>1. PICK step, rest : requests' = [requests EXCEPT ![r].at = step, ![r].name = None,
                                                       ![r].pending = rest]
    BY <1>4 DEF DeleteList, DeleteMeta, DeleteRest
  <2>2. old.at # "idle"
    BY <1>4 DEF DeleteList, DeleteMeta, At
  <2> DEFINE req == [old EXCEPT !.at = step, !.name = None, !.pending = rest]
  <2>3. new = req
    BY <1>1, <2>1
  <2>4. req.caller = old.caller /\ req.case = old.case /\ req.upload = old.upload /\ req.seen = old.seen
    BY <1>1 DEF Request
  <2>5. QED
    BY <2>2, <2>3, <2>4
<1>5. CASE DeleteObject(r)
  <2>1. PICK n : requests' = [requests EXCEPT ![r].at = "delete:meta", ![r].name = n]
    BY <1>5 DEF DeleteObject
  <2>2. old.at # "idle"
    BY <1>5 DEF DeleteObject, At
  <2> DEFINE req == [old EXCEPT !.at = "delete:meta", !.name = n]
  <2>3. new = req
    BY <1>1, <2>1
  <2>4. req.caller = old.caller /\ req.case = old.case /\ req.upload = old.upload /\ req.seen = old.seen
    BY <1>1 DEF Request
  <2>5. QED
    BY <2>2, <2>3, <2>4
<1>6. CASE \/ PutAuthorize(r) \/ PutStore(r) \/ PutMeta(r) \/ DropAuthorize(r)
           \/ DropFind(r) \/ DropGuard(r) \/ DropObject(r)
  <2>1. old.at # "idle"
    BY <1>6 DEF PutAuthorize, PutStore, PutMeta, DropAuthorize, DropFind, DropGuard,
                DropObject, CheckOwnership, At
  <2>2. PICK step : Advance(r, step)
    BY <1>2, <1>6 DEF PutAuthorize, PutStore, PutMeta, DropAuthorize, DropFind, DropGuard,
                      DropObject, CheckOwnership
  <2> DEFINE req == [old EXCEPT !.at = step]
  <2>3. new = req
    BY <1>1, <2>2 DEF Advance
  <2>4. req.caller = old.caller /\ req.case = old.case /\ req.upload = old.upload /\ req.seen = old.seen
    BY <1>1 DEF Request
  <2>5. QED
    BY <2>1, <2>3, <2>4
<1>7. ~(PublishWrite(r) \/ UpdateWrite(r) \/ PutLink(r) \/ DropMeta(r) \/ DeleteCase(r))
  BY <1>2 DEF PublishWrite, UpdateWrite, PutLink, DropMeta, DeleteCase
<1>8. QED
  BY <1>3, <1>4, <1>5, <1>6, <1>7 DEF Serve

-----------------------------------------------------------------------------
\* Deletion and ownership.

\* Requests issue no case ids.
LEMMA IssuedKept ==
    ASSUME NEW r \in Requests, Arrive(r) \/ Serve(r) \/ Abort(r)
    PROVE  UNCHANGED issued
  BY DEF Arrive, PublishReceive, UpdateReceive, PutReceive, DropReceive, DeleteReceive,
         Abort, Serve, PublishWrite, UpdateWrite, PutAuthorize, PutLoad, PutStore,
         PutMeta, PutLink, DropAuthorize, DropFind, DropGuard, DropObject, DropMeta,
         DeleteList, DeleteObject, DeleteMeta, DeleteCase, CheckOwnership, history

\* A case id is never taken back.
LEMMA IssuedGrows ==
    ASSUME [AnyStep]_vars
    PROVE  issued \subseteq issued'
<1>1. CASE Create
  BY <1>1 DEF Create, CreateMetadata
<1>2. CASE UNCHANGED vars
  BY <1>2 DEF vars
<1>3. QED
  BY <1>1, <1>2, IssuedKept DEF AnyStep

\* A case that was deleted stays deleted, and one that exists keeps its owner.
LEMMA CaseKept ==
    ASSUME AccessInv, [AnyStep]_vars, NEW c \in Cases, c \in issued
    PROVE  /\ ~Exists(c) => testCases'[c] = None
           /\ Exists(c) /\ testCases'[c] # None => FromDocument(testCases'[c]).owner = View(c).owner
<1> SUFFICES ASSUME testCases'[c] # testCases[c]
             PROVE  /\ Exists(c)
                    /\ testCases'[c] # None => FromDocument(testCases'[c]).owner = View(c).owner
  BY DEF Exists, View
<1>1. PICK r \in Requests :
        /\ requests[r].case = c
        /\ Exists(c)
        /\ PublishWrite(r) \/ UpdateWrite(r) \/ PutLink(r) \/ DeleteCase(r)
  BY CaseWriter DEF AccessInv, CreateMetadata
<1>2. CASE DeleteCase(r)
  BY <1>1, <1>2 DEF DeleteCase, AccessInv, TypeInv, TypeOK
<1>3. CASE PublishWrite(r) \/ UpdateWrite(r) \/ PutLink(r)
  BY <1>1, <1>3, WrittenCase DEF AccessInv
<1>4. QED
  BY <1>1, <1>2, <1>3

\* A caller who manages a case, or whose case is gone, still does after a step.
LEMMA ManageKept ==
    ASSUME AccessInv, [AnyStep]_vars, NEW c \in Cases, NEW p, c \in issued,
           Exists(c) => CanManage(View(c), p)
    PROVE  /\ c \in issued'
           /\ testCases'[c] # None => CanManage(FromDocument(testCases'[c]), p)
  BY IssuedGrows, CaseKept DEF CanManage

LEMMA AccessInit == Init => AccessInv
<1> SUFFICES ASSUME Init PROVE AccessInv
  OBVIOUS
<1>1. \A c \in Cases : Exists(c) => c \in issued
  BY DEF Init, Exists
<1>2. \A r \in Requests : requests[r].at = "idle"
  BY DEF Init, Idle
<1>3. QED
  BY <1>1, <1>2, TypeInit DEF AccessInv

\* A request that a handler accepts comes from a known caller who manages the
\* case, or checks that next.
LEMMA ReceivedAccess ==
    ASSUME AccessInv, NEW r \in Requests, Arrive(r)
    PROVE  /\ requests'[r].case \in Cases
           /\ ~IsAnonymous(requests'[r].caller)
           /\ \/ requests'[r].at \in {"put:authorize", "drop:authorize"}
              \/ requests'[r].caller.isAdmin
              \/ /\ Exists(requests'[r].case)
                 /\ CanManage(View(requests'[r].case), requests'[r].caller)
<1>1. requests \in [Requests -> Request]
  BY DEF AccessInv, TypeInv, TypeOK
<1> PICK p \in Principals, c \in Cases :
        \/ \E body \in PublishBodies : PublishReceive(r, p, c, body)
        \/ \E patch \in Patches : UpdateReceive(r, p, c, patch)
        \/ \E n \in Names, upload \in Upload : PutReceive(r, p, c, n, upload)
        \/ \E n \in Names : DropReceive(r, p, c, n)
        \/ DeleteReceive(r, p, c)
  BY DEF Arrive
<1>2. CASE \/ \E body \in PublishBodies : PublishReceive(r, p, c, body)
           \/ \E patch \in Patches : UpdateReceive(r, p, c, patch)
           \/ DeleteReceive(r, p, c)
  <2>1. ~IsAnonymous(p) /\ Exists(c) /\ CanManage(View(c), p)
    BY <1>2 DEF PublishReceive, UpdateReceive, DeleteReceive, Exists, View
  <2>2. requests'[r].caller = p /\ requests'[r].case = c
    <3>1. CASE \E body \in PublishBodies : PublishReceive(r, p, c, body)
      BY <1>1, <3>1 DEF PublishReceive, Accept, Idle
    <3>2. CASE \E patch \in Patches : UpdateReceive(r, p, c, patch)
      BY <1>1, <3>2 DEF UpdateReceive, Accept, Idle
    <3>3. CASE DeleteReceive(r, p, c)
      BY <1>1, <3>3 DEF DeleteReceive, Accept, Idle
    <3>4. QED
      BY <1>2, <3>1, <3>2, <3>3
  <2>3. QED
    BY <2>1, <2>2
<1>3. CASE \/ \E n \in Names, upload \in Upload : PutReceive(r, p, c, n, upload)
           \/ \E n \in Names : DropReceive(r, p, c, n)
  <2>1. ~IsAnonymous(p)
    BY <1>3 DEF PutReceive, DropReceive
  <2>2. /\ requests'[r].caller = p /\ requests'[r].case = c
        /\ ~p.isAdmin => requests'[r].at \in {"put:authorize", "drop:authorize"}
    <3>1. CASE \E n \in Names, upload \in Upload : PutReceive(r, p, c, n, upload)
      BY <1>1, <3>1 DEF PutReceive, Accept, Idle, FirstStep
    <3>2. CASE \E n \in Names : DropReceive(r, p, c, n)
      BY <1>1, <3>2 DEF DropReceive, Accept, Idle, FirstStep
    <3>3. QED
      BY <1>3, <3>1, <3>2
  <2>3. QED
    BY <2>1, <2>2
<1>4. QED
  BY <1>2, <1>3

\* The ownership check passes callers who manage the case, and no step leads
\* back to it.
LEMMA ServedAccess ==
    ASSUME AccessInv, NEW r \in Requests, Serve(r), requests'[r].at # "idle"
    PROVE  \/ requests[r].caller.isAdmin
           \/ /\ requests[r].case \in issued
              /\ Exists(requests[r].case) => CanManage(View(requests[r].case), requests[r].caller)
<1> DEFINE req == requests[r]
           doc == testCases[req.case]
<1>1. /\ req \in Request /\ requests \in [Requests -> Request]
      /\ WellFormed(req)
  BY DEF AccessInv, TypeInv, TypeOK
<1>2. req.at # "idle" /\ ~IsAnonymous(req.caller) /\ MayWrite(req) /\ req.case \in Cases
  BY <1>1, ServedRequest DEF AccessInv, WellFormed
<1>3. CASE PutAuthorize(r) \/ DropAuthorize(r)
  <2>1. ~Finish(r)
    BY <1>1 DEF Finish, Idle
  <2>2. doc # None /\ doc.owner = req.caller.userID
    BY <1>3, <2>1 DEF PutAuthorize, DropAuthorize, CheckOwnership
  <2>3. doc \in Document
    BY <1>2, <2>2 DEF AccessInv, TypeInv, TypeOK
  <2>4. CanManage(View(req.case), req.caller)
    BY <1>2, <2>2, <2>3, FromDocumentFields DEF CanManage, View, IsAnonymous
  <2>5. QED
    BY <1>2, <2>2, <2>4 DEF AccessInv, Exists
<1>4. CASE ~(PutAuthorize(r) \/ DropAuthorize(r))
  <2>1. req.at \notin {"put:authorize", "drop:authorize"}
    BY <1>4 DEF Serve, At, PublishWrite, UpdateWrite, PutLoad, PutStore, PutMeta, PutLink,
                DropFind, DropGuard, DropObject, DropMeta, DeleteList, DeleteObject,
                DeleteMeta, DeleteCase
  <2>2. QED
    BY <1>2, <2>1 DEF MayWrite
<1>5. QED
  BY <1>3, <1>4

LEMMA AccessStep == AccessInv /\ [AnyStep]_vars => AccessInv'
<1> SUFFICES ASSUME AccessInv, [AnyStep]_vars PROVE AccessInv'
  OBVIOUS
<1>1. TypeInv /\ TypeInv'
  BY TypeStep DEF AccessInv
<1>2. ASSUME NEW c \in Cases, testCases'[c] # None
      PROVE  c \in issued'
  <2>1. CASE testCases'[c] = testCases[c]
    BY <1>2, <2>1, IssuedGrows DEF AccessInv, Exists
  <2>2. CASE testCases'[c] # testCases[c]
    BY <1>1, <2>2, CaseWriter, IssuedGrows DEF AccessInv, CreateMetadata
  <2>3. QED
    BY <2>1, <2>2
<1>3. ASSUME NEW s \in Requests, requests'[s].at # "idle"
      PROVE  /\ ~IsAnonymous(requests'[s].caller)
             /\ \/ requests'[s].at \in {"put:authorize", "drop:authorize"}
                \/ requests'[s].caller.isAdmin
                \/ /\ requests'[s].case \in issued'
                   /\ testCases'[requests'[s].case] # None
                        => CanManage(FromDocument(testCases'[requests'[s].case]),
                                     requests'[s].caller)
  <2> DEFINE new == requests'[s]
             old == requests[s]
  <2>1. new.case \in Cases
    BY <1>1, <1>3 DEF TypeInv, WellFormed
  <2>2. CASE new = old
    <3>1. ~IsAnonymous(old.caller) /\ MayWrite(old)
      BY <1>3, <2>2 DEF AccessInv
    <3>2. QED
      BY <2>1, <2>2, <3>1, ManageKept DEF MayWrite
  <2>3. CASE Arrive(s)
    BY <2>1, <2>3, ReceivedAccess, ManageKept DEF AccessInv
  <2>4. CASE Serve(s)
    <3>1. old.at # "idle" /\ new.caller = old.caller /\ new.case = old.case
      BY <1>1, <1>3, <2>4, ServedRequest
    <3>2. ~IsAnonymous(old.caller)
      BY <3>1 DEF AccessInv
    <3>3. \/ old.caller.isAdmin
          \/ old.case \in issued /\ (Exists(old.case) => CanManage(View(old.case), old.caller))
      BY <1>3, <2>4, ServedAccess
    <3>4. QED
      BY <2>1, <3>1, <3>2, <3>3, ManageKept
  <2>5. CASE Abort(s)
    BY <1>1, <1>3, <2>5 DEF Abort, Finish, Idle, TypeInv, TypeOK
  <2>6. new = old \/ Arrive(s) \/ Serve(s) \/ Abort(s)
    <3>1. requests \in [Requests -> Request]
      BY <1>1 DEF TypeInv, TypeOK
    <3>2. QED
      BY <3>1, OneRequestSteps DEF AnyStep, Create, CreateMetadata, vars
  <2>7. QED
    BY <2>2, <2>3, <2>4, <2>5, <2>6
<1>4. QED
  BY <1>1, <1>2, <1>3 DEF AccessInv, MayWrite, Exists, View

LEMMA AnyDeletionIsFinal == AnySpec => DeletedStaysDeleted
<1>1. AccessInv /\ [AnyStep]_vars => [\A c \in issued : ~Exists(c) => ~Exists(c)']_vars
  <2> SUFFICES ASSUME AccessInv, [AnyStep]_vars, NEW c \in issued, ~Exists(c)
               PROVE  testCases'[c] = None
    BY DEF Exists
  <2>1. c \in Cases
    BY DEF AccessInv, TypeInv, TypeOK
  <2>2. QED
    BY <2>1, CaseKept
<1>2. QED
  BY <1>1, AccessInit, AccessStep, PTL DEF AnySpec, DeletedStaysDeleted

\* The link, publish or patch write of a request that read the case before it
\* was deleted does not bring it back.
THEOREM DeletionIsFinal == Spec => DeletedStaysDeleted
  BY AnyDeletionIsFinal, SpecIsAny, PTL

\* A case, the records of its artifacts and their content change in steps of a
\* request for that case only (or when it is created).
LEMMA ContentWriter ==
    ASSUME TypeInv, [AnyStep]_vars, NEW c \in Cases,
           artifacts'[c] # artifacts[c] \/ objects'[c] # objects[c]
    PROVE  \E r \in Requests :
             /\ requests[r].case = c
             /\ \/ PutStore(r) \/ PutMeta(r) \/ DropObject(r) \/ DropMeta(r)
                \/ DeleteObject(r) \/ DeleteMeta(r)
<1>1. /\ artifacts \in [Cases -> [Names -> ArtifactMeta \cup {None}]]
      /\ objects \in [Cases -> [Names -> Payload \cup {None}]]
  BY DEF TypeInv, TypeOK
<1>2. PICK r \in Requests : Serve(r)
  <2>1. ~Create /\ ~UNCHANGED vars
    BY DEF Create, CreateMetadata, vars
  <2>2. ASSUME NEW r \in Requests PROVE ~Arrive(r) /\ ~Abort(r)
    BY DEF Arrive, PublishReceive, UpdateReceive, PutReceive, DropReceive, DeleteReceive,
           Abort, stores
  <2>3. QED
    BY <2>1, <2>2 DEF AnyStep
<1>3. \/ PutStore(r) \/ PutMeta(r) \/ DropObject(r) \/ DropMeta(r)
      \/ DeleteObject(r) \/ DeleteMeta(r)
  BY <1>2 DEF Serve, PublishWrite, UpdateWrite, PutAuthorize, PutLoad, PutLink, DropAuthorize,
              DropFind, DropGuard, DeleteList, DeleteCase, CheckOwnership, stores
<1>4. requests[r].case = c
  BY <1>1, <1>3 DEF PutStore, PutMeta, DropObject, DropMeta, DeleteObject, DeleteMeta,
                    WriteObject, WriteMeta
<1>5. QED
  BY <1>3, <1>4

LEMMA AnyOnlyManagers == AnySpec => OnlyManagersWrite
<1> DEFINE Changed(c) == \/ testCases'[c] # testCases[c]
                         \/ artifacts'[c] # artifacts[c]
                         \/ objects'[c] # objects[c]
<1>1. ASSUME AccessInv, [AnyStep]_vars, NEW c \in Cases, Exists(c), Changed(c)
      PROVE  \E r \in Requests :
               /\ requests'[r] # requests[r]
               /\ requests[r].case = c
               /\ CanManage(View(c), requests[r].caller)
  <2>1. PICK r \in Requests :
          /\ requests[r].case = c
          /\ \/ PublishWrite(r) \/ UpdateWrite(r) \/ PutLink(r) \/ DeleteCase(r)
             \/ PutStore(r) \/ PutMeta(r) \/ DropObject(r) \/ DropMeta(r)
             \/ DeleteObject(r) \/ DeleteMeta(r)
    <3>1. CASE testCases'[c] # testCases[c]
      BY <1>1, <3>1, CaseWriter DEF AccessInv, CreateMetadata
    <3>2. CASE artifacts'[c] # artifacts[c] \/ objects'[c] # objects[c]
      BY <1>1, <3>2, ContentWriter DEF AccessInv
    <3>3. QED
      BY <1>1, <3>1, <3>2
  <2>2. requests[r].at \notin {"idle", "put:authorize", "drop:authorize"}
    BY <2>1 DEF At, PublishWrite, UpdateWrite, PutLink, DeleteCase, PutStore, PutMeta,
                DropObject, DropMeta, DeleteObject, DeleteMeta
  <2>3. CanManage(View(c), requests[r].caller)
    BY <1>1, <2>1, <2>2 DEF AccessInv, MayWrite, CanManage
  <2>4. requests'[r].at # requests[r].at
    <3>1. requests \in [Requests -> Request] /\ requests[r] \in Request
      BY <1>1 DEF AccessInv, TypeInv, TypeOK
    <3>2. Finish(r) => requests'[r].at = "idle"
      BY <3>1 DEF Finish, Idle
    <3>3. ASSUME NEW step, Advance(r, step) PROVE requests'[r].at = step
      BY <3>1, <3>3 DEF Advance, Request
    <3>4. CASE PublishWrite(r) \/ UpdateWrite(r) \/ PutLink(r) \/ DeleteCase(r) \/ DropMeta(r)
      BY <2>2, <3>2, <3>4 DEF PublishWrite, UpdateWrite, PutLink, DeleteCase, DropMeta
    <3>5. CASE PutStore(r) \/ PutMeta(r) \/ DropObject(r)
      BY <3>2, <3>3, <3>5 DEF PutStore, PutMeta, DropObject, At
    <3>6. CASE DeleteObject(r)
      <4>1. PICK n : requests' = [requests EXCEPT ![r].at = "delete:meta", ![r].name = n]
        BY <3>6 DEF DeleteObject
      <4>2. requests'[r].at = "delete:meta"
        BY <3>1, <4>1 DEF Request
      <4>3. QED
        BY <3>6, <4>2 DEF DeleteObject, At
    <3>7. CASE DeleteMeta(r)
      <4>1. PICK rest : DeleteRest(r, rest)
        BY <3>7 DEF DeleteMeta
      <4>2. requests'[r].at \in {"delete:case", "delete:object"}
        BY <3>1, <4>1, RestStep
      <4>3. QED
        BY <3>7, <4>2 DEF DeleteMeta, At
    <3>8. QED
      BY <2>1, <3>4, <3>5, <3>6, <3>7
  <2>5. QED
    BY <2>1, <2>3, <2>4
<1>2. AccessInv /\ [AnyStep]_vars
        => [\A c \in Cases :
              /\ Exists(c)
              /\ \/ testCases'[c] # testCases[c]
                 \/ artifacts'[c] # artifacts[c]
                 \/ objects'[c] # objects[c]
              => \E r \in Requests :
                   /\ requests'[r] # requests[r]
                   /\ requests[r].case = c
                   /\ CanManage(View(c), requests[r].caller)]_vars
  BY <1>1
<1>3. QED
  BY <1>2, AccessInit, AccessStep, PTL DEF AnySpec, OnlyManagersWrite

\* Whoever changes a case, the record of an artifact or its content manages the
\* case at that moment, although the handlers check it several store calls
\* earlier and other requests run in between.
THEOREM OnlyManagers == Spec => OnlyManagersWrite
  BY AnyOnlyManagers, SpecIsAny, PTL

-----------------------------------------------------------------------------
\* Publication.

\* A request that reaches a step where it has decided had decided before, or has
\* just read its case.
LEMMA ServedDecision ==
    ASSUME TypeInv, NEW r \in Requests, Serve(r), requests'[r].at \in Deciding
    PROVE  \/ requests[r].at \in Deciding /\ requests'[r].seen = requests[r].seen
           \/ /\ Exists(requests[r].case)
              /\ requests'[r].seen = View(requests[r].case)
              /\ UNCHANGED testCases
<1> DEFINE old == requests[r]
<1>1. /\ requests \in [Requests -> Request] /\ old \in Request
      /\ requests'[r].at # "idle"
  BY DEF TypeInv, TypeOK, Deciding
<1>2. ~Finish(r)
  BY <1>1 DEF Finish, Idle
<1>3. CASE PutLoad(r)
  <2>1. /\ Exists(old.case)
        /\ requests' = [requests EXCEPT ![r].at = "put:store",
                                        ![r].seen = FromDocument(testCases[old.case])]
        /\ UNCHANGED testCases
    BY <1>2, <1>3 DEF PutLoad, Exists, stores
  <2>2. requests'[r].seen = View(old.case)
    BY <1>1, <2>1 DEF View, Request
  <2>3. QED
    BY <2>1, <2>2
<1>4. CASE PutStore(r) \/ PutMeta(r)
  <2>1. old.at \in Deciding
    BY <1>4 DEF PutStore, PutMeta, At, Deciding
  <2>2. ~PutLoad(r)
    BY <1>4 DEF PutStore, PutMeta, PutLoad, At
  <2>3. QED
    BY <1>1, <2>1, <2>2, ServedRequest
<1>5. CASE ~(PutLoad(r) \/ PutStore(r) \/ PutMeta(r))
  <2>1. ASSUME NEW step \in Steps \ Deciding, NEW req, requests' = [requests EXCEPT ![r] = req],
               req.at = step
        PROVE  FALSE
    BY <1>1, <2>1
  <2>2. ASSUME NEW step \in Steps \ Deciding, Advance(r, step)
        PROVE  FALSE
    BY <1>1, <2>2 DEF Advance, Request
  <2>3. CASE PutAuthorize(r) \/ DropAuthorize(r) \/ DropFind(r) \/ DropGuard(r) \/ DropObject(r)
    BY <1>2, <2>2, <2>3 DEF PutAuthorize, DropAuthorize, DropFind, DropGuard, DropObject,
                            CheckOwnership, Steps, PutSteps, DropSteps, Deciding
  <2>4. CASE DeleteList(r) \/ DeleteMeta(r)
    <3>1. PICK rest : DeleteRest(r, rest)
      BY <2>4 DEF DeleteList, DeleteMeta
    <3>2. requests'[r].at \in {"delete:case", "delete:object"}
      BY <1>1, <3>1, RestStep
    <3>3. QED
      BY <3>2 DEF Deciding
  <2>5. CASE DeleteObject(r)
    <3>1. PICK n : requests' = [requests EXCEPT ![r].at = "delete:meta", ![r].name = n]
      BY <2>5 DEF DeleteObject
    <3>2. requests'[r].at = "delete:meta"
      BY <1>1, <3>1 DEF Request
    <3>3. QED
      BY <3>2 DEF Deciding
  <2>6. QED
    BY <1>2, <1>5, <2>3, <2>4, <2>5
       DEF Serve, PublishWrite, UpdateWrite, PutLink, DropMeta, DeleteCase
<1>6. QED
  BY <1>3, <1>4, <1>5

\* A handler that decides on a case when it accepts the request has just read it.
LEMMA ReceivedDecision ==
    ASSUME TypeInv, NEW r \in Requests, Arrive(r), requests'[r].at \in Deciding
    PROVE  /\ Exists(requests'[r].case)
           /\ requests'[r].seen = View(requests'[r].case)
           /\ UNCHANGED testCases
<1>1. requests \in [Requests -> Request]
  BY DEF TypeInv, TypeOK
<1> PICK p \in Principals, c \in Cases :
        \/ \E body \in PublishBodies : PublishReceive(r, p, c, body)
        \/ \E patch \in Patches : UpdateReceive(r, p, c, patch)
        \/ \E n \in Names, upload \in Upload : PutReceive(r, p, c, n, upload)
        \/ \E n \in Names : DropReceive(r, p, c, n)
        \/ DeleteReceive(r, p, c)
  BY DEF Arrive
<1>2. CASE \E body \in PublishBodies : PublishReceive(r, p, c, body)
  <2>1. /\ Exists(c) /\ UNCHANGED testCases
        /\ requests'[r].case = c /\ requests'[r].seen = FromDocument(testCases[c])
    BY <1>1, <1>2 DEF PublishReceive, Accept, Idle, Exists, stores
  <2>2. QED
    BY <2>1 DEF View
<1>3. CASE \E patch \in Patches : UpdateReceive(r, p, c, patch)
  <2>1. /\ Exists(c) /\ UNCHANGED testCases
        /\ requests'[r].case = c /\ requests'[r].seen = FromDocument(testCases[c])
    BY <1>1, <1>3 DEF UpdateReceive, Accept, Idle, Exists, stores
  <2>2. QED
    BY <2>1 DEF View
<1>4. CASE \E n \in Names, upload \in Upload : PutReceive(r, p, c, n, upload)
  <2>1. /\ requests'[r].at = FirstStep(p, "put:authorize", "put:load")
        /\ requests'[r].pending = {}
    BY <1>1, <1>4 DEF PutReceive, Accept, Idle
  <2>2. QED
    BY <2>1 DEF FirstStep, Deciding
<1>5. CASE \E n \in Names : DropReceive(r, p, c, n)
  <2>1. /\ requests'[r].at = FirstStep(p, "drop:authorize", "drop:find")
        /\ requests'[r].pending = {}
    BY <1>1, <1>5 DEF DropReceive, Accept, Idle
  <2>2. QED
    BY <2>1 DEF FirstStep, Deciding
<1>6. CASE DeleteReceive(r, p, c)
  BY <1>1, <1>6 DEF DeleteReceive, Accept, Idle, Deciding
<1>7. QED
  BY <1>2, <1>3, <1>4, <1>5, <1>6

\* A raced case stays raced.
LEMMA RacedGrows ==
    ASSUME [AnyStep]_vars
    PROVE  raced \subseteq raced'
<1>1. ASSUME NEW r \in Requests, PublishWrite(r) \/ UpdateWrite(r) \/ PutLink(r)
      PROVE  raced \subseteq raced'
  BY <1>1 DEF PublishWrite, UpdateWrite, PutLink, NoteRace
<1>2. ASSUME NEW r \in Requests, Arrive(r) \/ Serve(r) \/ Abort(r),
             ~(PublishWrite(r) \/ UpdateWrite(r) \/ PutLink(r))
      PROVE  UNCHANGED raced
  BY <1>2 DEF Arrive, PublishReceive, UpdateReceive, PutReceive, DropReceive, DeleteReceive,
              Abort, Serve, PutAuthorize, PutLoad, PutStore, PutMeta, DropAuthorize, DropFind,
              DropGuard, DropObject, DropMeta, DeleteList, DeleteObject, DeleteMeta,
              DeleteCase, CheckOwnership, history
<1>3. QED
  BY <1>1, <1>2 DEF AnyStep, Create, CreateMetadata, vars

\* One step on a case that no stale request wrote: a draft is private, and what
\* was published keeps its publication facts.
LEMMA UnracedWrite ==
    ASSUME LifeInv, [AnyStep]_vars, NEW c \in Cases \ raced', Exists(c), testCases'[c] # None
    PROVE  LET new == FromDocument(testCases'[c])
               old == View(c)
           IN  /\ IsDraft(new) => new.visibility = "private"
               /\ IsPublished(old) => /\ IsPublished(new)
                                      /\ new.testType = old.testType
                                      /\ CanonicalFacts(new) = CanonicalFacts(old)
<1> DEFINE new == FromDocument(testCases'[c])
           old == View(c)
<1>1. TypeInv /\ AccessInv /\ c \notin raced /\ c \in issued
  BY RacedGrows DEF LifeInv, AccessInv
<1>2. IsDraft(old) => old.visibility = "private"
  BY <1>1 DEF LifeInv, DraftIsPrivate
<1>3. CASE testCases'[c] = testCases[c]
  BY <1>2, <1>3 DEF View
<1>4. CASE testCases'[c] # testCases[c]
  <2>1. PICK r \in Requests :
          /\ requests[r].case = c
          /\ PublishWrite(r) \/ UpdateWrite(r) \/ PutLink(r) \/ DeleteCase(r)
    BY <1>1, <1>4, CaseWriter DEF CreateMetadata
  <2> DEFINE req == requests[r]
  <2>2. ~DeleteCase(r)
    BY <1>1, <2>1 DEF DeleteCase, TypeInv, TypeOK
  <2>3. NoteRace(r)
    BY <2>1, <2>2 DEF PublishWrite, UpdateWrite, PutLink
  <2>4. old.status = req.seen.status /\ old.visibility = req.seen.visibility
    BY <2>1, <2>3 DEF NoteRace, Stale, Exists, View
  <2>5. /\ req.at \in Deciding
        /\ WellFormed(req)
    BY <1>1, <2>1, <2>2 DEF PublishWrite, UpdateWrite, PutLink, At, Deciding, TypeInv
  <2>6. SeenHolds(req)
    BY <1>1, <2>1, <2>5 DEF LifeInv
  <2>7. CASE PublishWrite(r)
    <3>1. IsPublished(new)
      BY <1>1, <2>1, <2>7, WrittenCase
    <3>2. IsDraft(req.seen)
      BY <2>5, <2>7 DEF PublishWrite, At, WellFormed
    <3> HIDE DEF new, old
    <3>3. QED
      BY <2>4, <3>1, <3>2 DEF IsDraft, IsPublished, new, old
  <2>8. CASE UpdateWrite(r)
    <3>1. /\ new.status = old.status
          /\ ~IsPublished(req.seen) => new.visibility = old.visibility
          /\ ~IsDraft(req.seen) => new.testType = old.testType
          /\ CanonicalFacts(new) = CanonicalFacts(old)
      BY <1>1, <2>1, <2>8, WrittenCase
    <3> HIDE DEF new, old
    <3>2. QED
      BY <1>2, <2>4, <3>1 DEF IsDraft, IsPublished, new, old
  <2>9. CASE PutLink(r)
    <3>1. /\ new.status = req.seen.status
          /\ new.visibility = req.seen.visibility
          /\ new.testType = req.seen.testType
          /\ IsPublished(req.seen) => CanonicalFacts(new) = CanonicalFacts(req.seen)
      BY <1>1, <2>1, <2>9, WrittenCase
    <3>2. /\ IsDraft(req.seen) => req.seen.visibility = "private"
          /\ IsPublished(req.seen) => /\ old.testType = req.seen.testType
                                      /\ CanonicalFacts(old) = CanonicalFacts(req.seen)
      BY <2>1, <2>6 DEF SeenHolds
    <3> HIDE DEF new, old
    <3>3. QED
      BY <2>4, <3>1, <3>2 DEF IsDraft, IsPublished, new, old
  <2>10. QED
    BY <2>1, <2>2, <2>7, <2>8, <2>9
<1>5. QED
  BY <1>3, <1>4

LEMMA LifeInit == Init => LifeInv
<1> SUFFICES ASSUME Init PROVE LifeInv
  OBVIOUS
<1>1. ASSUME NEW c \in Cases, Exists(c)
      PROVE  ~IsDraft(View(c))
  <2>1. PICK label \in Labels, t \in TestTypes : testCases[c] = LegacyDocument(label, t)
    BY <1>1 DEF Init, Exists
  <2>2. testCases[c].status = "missing" /\ testCases[c] \in Document
    BY <1>1, <2>1, TypeInit DEF LegacyDocument, NewTestCase, TypeInv, TypeOK, Exists
  <2>3. QED
    BY <2>2, FromDocumentFields DEF IsDraft, View, Statuses
<1>2. \A r \in Requests : requests[r].at = "idle"
  BY DEF Init, Idle
<1>3. QED
  BY <1>1, <1>2, AccessInit DEF LifeInv, DraftIsPrivate, Deciding

LEMMA LifeStep == LifeInv /\ [AnyStep]_vars => LifeInv'
<1> SUFFICES ASSUME LifeInv, [AnyStep]_vars PROVE LifeInv'
  OBVIOUS
<1>1. TypeInv /\ AccessInv /\ TypeInv' /\ AccessInv'
  BY AccessStep, TypeStep DEF LifeInv, AccessInv
<1>2. ASSUME NEW c \in Cases \ raced', testCases'[c] # None
      PROVE  IsDraft(FromDocument(testCases'[c]))
               => FromDocument(testCases'[c]).visibility = "private"
  <2>1. CASE Exists(c)
    BY <1>2, <2>1, UnracedWrite
  <2>2. CASE ~Exists(c)
    <3>1. PICK p \in Principals, label \in Labels, t \in TestTypes \cup {""} :
            CreateMetadata(p, c, label, t)
      BY <1>1, <1>2, <2>2, CaseWriter DEF Exists
    <3> DEFINE new == NewTestCase(label, t, p.userID)
    <3>2. testCases'[c] = new
      BY <1>1, <3>1 DEF CreateMetadata, TypeInv, TypeOK
    <3>3. new.visibility = "private"
      BY DEF NewTestCase
    <3>4. new \in Document
      BY PrincipalsAssumption, NewTestCaseType, TestCaseIsDocument DEF Principal
    <3> HIDE DEF new
    <3>5. QED
      BY <3>2, <3>3, <3>4, FromDocumentFields DEF Visibilities
  <2>3. QED
    BY <2>1, <2>2
<1>3. ASSUME NEW c \in Cases \ raced', c \in issued, NEW seen,
             IsPublished(seen) /\ Exists(c) => /\ IsPublished(View(c))
                                               /\ View(c).testType = seen.testType
                                               /\ CanonicalFacts(View(c)) = CanonicalFacts(seen),
             IsPublished(seen), testCases'[c] # None
      PROVE  /\ IsPublished(FromDocument(testCases'[c]))
             /\ FromDocument(testCases'[c]).testType = seen.testType
             /\ CanonicalFacts(FromDocument(testCases'[c])) = CanonicalFacts(seen)
  <2>1. Exists(c)
    BY <1>1, <1>3, CaseKept
  <2>2. QED
    BY <1>3, <2>1, UnracedWrite
<1>4. ASSUME NEW s \in Requests, requests'[s].at \in Deciding, requests'[s].case \notin raced'
      PROVE  LET req == requests'[s] IN
             /\ req.case \in issued'
             /\ IsDraft(req.seen) => req.seen.visibility = "private"
             /\ IsPublished(req.seen) /\ testCases'[req.case] # None
                  => /\ IsPublished(FromDocument(testCases'[req.case]))
                     /\ FromDocument(testCases'[req.case]).testType = req.seen.testType
                     /\ CanonicalFacts(FromDocument(testCases'[req.case]))
                          = CanonicalFacts(req.seen)
  <2> DEFINE new == requests'[s]
             old == requests[s]
             c == new.case
  <2>1. c \in Cases /\ c \notin raced /\ issued \subseteq issued'
    BY <1>1, <1>4, RacedGrows, IssuedGrows DEF TypeInv, WellFormed, Deciding
  <2>2. ASSUME old.at \in Deciding, new.case = old.case, new.seen = old.seen
        PROVE  /\ c \in issued
               /\ IsDraft(new.seen) => new.seen.visibility = "private"
               /\ IsPublished(new.seen) /\ Exists(c)
                    => /\ IsPublished(View(c))
                       /\ View(c).testType = new.seen.testType
                       /\ CanonicalFacts(View(c)) = CanonicalFacts(new.seen)
    BY <2>1, <2>2 DEF LifeInv, SeenHolds
  <2>3. ASSUME Exists(c), new.seen = View(c)
        PROVE  /\ c \in issued
               /\ IsDraft(new.seen) => new.seen.visibility = "private"
               /\ IsPublished(new.seen) /\ Exists(c)
                    => /\ IsPublished(View(c))
                       /\ View(c).testType = new.seen.testType
                       /\ CanonicalFacts(View(c)) = CanonicalFacts(new.seen)
    BY <1>1, <2>1, <2>3 DEF LifeInv, AccessInv, DraftIsPrivate
  <2>4. \/ old.at \in Deciding /\ new.case = old.case /\ new.seen = old.seen
        \/ Exists(c) /\ new.seen = View(c)
    <3>1. CASE new = old
      BY <1>4, <3>1
    <3>2. CASE Arrive(s)
      BY <1>1, <1>4, <3>2, ReceivedDecision
    <3>3. CASE Serve(s)
      <4>1. new.case = old.case
        BY <1>1, <1>4, <3>3, ServedRequest DEF Deciding
      <4>2. QED
        BY <1>1, <1>4, <3>3, <4>1, ServedDecision
    <3>4. CASE Abort(s)
      BY <1>1, <1>4, <3>4 DEF Abort, Finish, Idle, TypeInv, TypeOK, Deciding
    <3>5. new = old \/ Arrive(s) \/ Serve(s) \/ Abort(s)
      <4>1. requests \in [Requests -> Request]
        BY <1>1 DEF TypeInv, TypeOK
      <4>2. QED
        BY <4>1, OneRequestSteps DEF AnyStep, Create, CreateMetadata, vars
    <3>6. QED
      BY <3>1, <3>2, <3>3, <3>4, <3>5
  <2>5. /\ c \in issued
        /\ IsDraft(new.seen) => new.seen.visibility = "private"
        /\ IsPublished(new.seen) /\ Exists(c)
             => /\ IsPublished(View(c))
                /\ View(c).testType = new.seen.testType
                /\ CanonicalFacts(View(c)) = CanonicalFacts(new.seen)
    BY <2>2, <2>3, <2>4
  <2> HIDE DEF new
  <2>6. QED
    BY <1>3, <1>4, <2>1, <2>5 DEF new
<1>5. DraftIsPrivate'
  BY <1>2 DEF DraftIsPrivate, Exists, View
<1>6. QED
  BY <1>1, <1>4, <1>5 DEF LifeInv, SeenHolds, Exists, View

LEMMA AnyDraftsPrivate == AnySpec => []DraftIsPrivate
<1>1. LifeInv => DraftIsPrivate
  BY DEF LifeInv
<1>2. QED
  BY <1>1, LifeInit, LifeStep, PTL DEF AnySpec

\* A draft is private unless a request wrote the case on a publication state
\* that another request had changed since it read it.
THEOREM DraftsPrivate == Spec => []DraftIsPrivate
  BY AnyDraftsPrivate, SpecIsAny, PTL

LEMMA AnyPublicationFinal == AnySpec => PublicationIsFinal
<1>1. LifeInv /\ [AnyStep]_vars
        => [\A c \in Cases \ raced' :
              Exists(c) /\ Exists(c)' /\ IsPublished(View(c))
                => /\ IsPublished(View(c))'
                   /\ View(c).testType' = View(c).testType
                   /\ CanonicalFacts(View(c))' = CanonicalFacts(View(c))]_vars
  BY UnracedWrite DEF Exists, View, IsPublished, CanonicalFacts, ExecutionRefs
<1>2. QED
  BY <1>1, LifeInit, LifeStep, PTL DEF AnySpec, PublicationIsFinal

\* With the same proviso no upload, patch or publication, in whatever order their
\* store calls fall, changes the test type, the result or the execution
\* environment of a published case, or takes the publication back.
THEOREM PublicationFinal == Spec => PublicationIsFinal
  BY AnyPublicationFinal, SpecIsAny, PTL

-----------------------------------------------------------------------------
\* Content and metadata.

\* An artifact stays consistent in a step that leaves it and the requests that
\* are halfway through it alone.
LEMMA ContentKept ==
    ASSUME ContentInv, NEW c \in Cases, NEW n \in Names,
           artifacts'[c][n] = artifacts[c][n], objects'[c][n] = objects[c][n],
           <<c, n>> \notin torn' =>
               /\ <<c, n>> \notin torn
               /\ \A s \in Requests :
                    /\ Halfway(s, c, n)' <=> Halfway(s, c, n)
                    /\ Halfway(s, c, n) => NextContent(requests'[s]) = NextContent(requests[s])
    PROVE  Consistent(c, n)'
<1> SUFFICES ASSUME <<c, n>> \notin torn'
             PROVE  /\ \A r, s \in Requests : Halfway(r, c, n)' /\ Halfway(s, c, n)' => r = s
                    /\ \A r \in Requests :
                         Halfway(r, c, n)' => objects'[c][n] = NextContent(requests'[r])
                    /\ (\A r \in Requests : ~Halfway(r, c, n)') => Matches(c, n)'
  BY DEF Consistent, NextContent
<1>1. /\ \A r, s \in Requests : Halfway(r, c, n) /\ Halfway(s, c, n) => r = s
      /\ \A r \in Requests : Halfway(r, c, n) => objects[c][n] = NextContent(requests[r])
      /\ (\A r \in Requests : ~Halfway(r, c, n)) => Matches(c, n)
  BY DEF ContentInv, Consistent
<1>2. Matches(c, n) => Matches(c, n)'
  BY DEF Matches
<1>3. QED
  BY <1>1, <1>2

\* A request that was not between its two writes and is not after the step leaves
\* every artifact consistent, if it writes neither records nor content.
LEMMA NothingWritten ==
    ASSUME ContentInv, NEW r \in Requests,
           \A s \in Requests \ {r} : requests'[s] = requests[s],
           requests[r].at \notin MetaSteps, requests'[r].at \notin MetaSteps,
           UNCHANGED <<artifacts, objects, torn>>
    PROVE  \A c \in Cases, n \in Names : Consistent(c, n)'
<1> SUFFICES ASSUME NEW c \in Cases, NEW n \in Names PROVE Consistent(c, n)'
  OBVIOUS
<1>1. \A s \in Requests :
        /\ Halfway(s, c, n)' <=> Halfway(s, c, n)
        /\ Halfway(s, c, n) => requests'[s] = requests[s]
  BY DEF Halfway, MetaSteps
<1>2. QED
  BY <1>1, ContentKept

\* Writing (or removing) content makes the writer the one request halfway through
\* the artifact, unless another one is: then the content is torn.
LEMMA ObjectWritten ==
    ASSUME ContentInv, NEW r \in Requests, NEW c \in Cases, NEW n \in Names, NEW content,
           WriteObject(r, c, n, content), artifacts' = artifacts,
           \A s \in Requests \ {r} : requests'[s] = requests[s],
           requests[r].at \notin MetaSteps,
           requests'[r].at \in MetaSteps, requests'[r].case = c, requests'[r].name = n,
           NextContent(requests'[r]) = content
    PROVE  \A d \in Cases, m \in Names : Consistent(d, m)'
<1> SUFFICES ASSUME NEW d \in Cases, NEW m \in Names PROVE Consistent(d, m)'
  OBVIOUS
<1>1. objects \in [Cases -> [Names -> Payload \cup {None}]]
  BY DEF ContentInv, TypeInv, TypeOK
<1>2. CASE d = c /\ m = n
  <2> SUFFICES ASSUME <<c, n>> \notin torn' PROVE Consistent(c, n)'
    BY <1>2 DEF Consistent
  <2>1. \A s \in Requests : Halfway(s, c, n)' <=> s = r
    BY DEF WriteObject, Halfway, MetaSteps
  <2>2. objects'[c][n] = NextContent(requests'[r])
    BY <1>1 DEF WriteObject
  <2>3. QED
    BY <2>1, <2>2 DEF Consistent, NextContent
<1>3. CASE ~(d = c /\ m = n)
  <2>1. objects'[d][m] = objects[d][m] /\ (<<d, m>> \in torn' <=> <<d, m>> \in torn)
    BY <1>1, <1>3 DEF WriteObject
  <2>2. \A s \in Requests :
          /\ Halfway(s, d, m)' <=> Halfway(s, d, m)
          /\ Halfway(s, d, m) => requests'[s] = requests[s]
    BY <1>3 DEF Halfway, MetaSteps
  <2>3. QED
    BY <2>1, <2>2, ContentKept
<1>4. QED
  BY <1>2, <1>3

\* Writing (or removing) the record of content that is not torn completes it.
LEMMA MetaWritten ==
    ASSUME ContentInv, NEW r \in Requests, NEW c \in Cases, NEW n \in Names, NEW meta,
           WriteMeta(c, n, meta), UNCHANGED <<objects, torn>>,
           \A s \in Requests \ {r} : requests'[s] = requests[s],
           Halfway(r, c, n), requests'[r].at \notin MetaSteps,
           IF meta = None
             THEN NextContent(requests[r]) = None
             ELSE /\ NextContent(requests[r]) # None
                  /\ meta.digest = Sha256(NextContent(requests[r]))
    PROVE  \A d \in Cases, m \in Names : Consistent(d, m)'
<1> SUFFICES ASSUME NEW d \in Cases, NEW m \in Names PROVE Consistent(d, m)'
  OBVIOUS
<1>1. artifacts \in [Cases -> [Names -> ArtifactMeta \cup {None}]]
  BY DEF ContentInv, TypeInv, TypeOK
<1>2. CASE d = c /\ m = n
  <2> SUFFICES ASSUME <<c, n>> \notin torn' PROVE Consistent(c, n)'
    BY <1>2 DEF Consistent
  <2>1. /\ \A s \in Requests : Halfway(s, c, n) => s = r
        /\ objects[c][n] = NextContent(requests[r])
    BY DEF ContentInv, Consistent
  <2>2. \A s \in Requests : ~Halfway(s, c, n)'
    BY <2>1 DEF Halfway, MetaSteps
  <2>3. artifacts'[c][n] = meta
    BY <1>1 DEF WriteMeta
  <2>4. Matches(c, n)'
    BY <2>1, <2>3 DEF Matches
  <2>5. QED
    BY <2>2, <2>4 DEF Consistent
<1>3. CASE ~(d = c /\ m = n)
  <2>1. artifacts'[d][m] = artifacts[d][m]
    BY <1>1, <1>3 DEF WriteMeta
  <2>2. \A s \in Requests :
          /\ Halfway(s, d, m)' <=> Halfway(s, d, m)
          /\ Halfway(s, d, m) => requests'[s] = requests[s]
    BY <1>3 DEF Halfway, MetaSteps
  <2>3. QED
    BY <2>1, <2>2, ContentKept
<1>4. QED
  BY <1>2, <1>3

\* The first step of a request that a handler accepts; it has nothing pending.
LEMMA ReceivedStep ==
    ASSUME TypeInv, NEW r \in Requests, Arrive(r)
    PROVE  /\ requests'[r].at \in {"publish", "update", "put:authorize", "put:load",
                                    "drop:authorize", "drop:find", "delete:list"}
           /\ requests'[r].pending = {}
<1>1. requests \in [Requests -> Request]
  BY DEF TypeInv, TypeOK
<1> PICK p \in Principals, c \in Cases :
        \/ \E body \in PublishBodies : PublishReceive(r, p, c, body)
        \/ \E patch \in Patches : UpdateReceive(r, p, c, patch)
        \/ \E n \in Names, upload \in Upload : PutReceive(r, p, c, n, upload)
        \/ \E n \in Names : DropReceive(r, p, c, n)
        \/ DeleteReceive(r, p, c)
  BY DEF Arrive
<1>2. CASE \E body \in PublishBodies : PublishReceive(r, p, c, body)
  BY <1>1, <1>2 DEF PublishReceive, Accept, Idle
<1>3. CASE \E patch \in Patches : UpdateReceive(r, p, c, patch)
  BY <1>1, <1>3 DEF UpdateReceive, Accept, Idle
<1>4. CASE \E n \in Names, upload \in Upload : PutReceive(r, p, c, n, upload)
  <2>1. /\ requests'[r].at = FirstStep(p, "put:authorize", "put:load")
        /\ requests'[r].pending = {}
    BY <1>1, <1>4 DEF PutReceive, Accept, Idle
  <2>2. QED
    BY <2>1 DEF FirstStep
<1>5. CASE \E n \in Names : DropReceive(r, p, c, n)
  <2>1. /\ requests'[r].at = FirstStep(p, "drop:authorize", "drop:find")
        /\ requests'[r].pending = {}
    BY <1>1, <1>5 DEF DropReceive, Accept, Idle
  <2>2. QED
    BY <2>1 DEF FirstStep
<1>6. CASE DeleteReceive(r, p, c)
  BY <1>1, <1>6 DEF DeleteReceive, Accept, Idle
<1>7. QED
  BY <1>2, <1>3, <1>4, <1>5, <1>6

LEMMA ContentInit == Init => ContentInv
  BY TypeInit DEF Init, ContentInv, Consistent, Matches, Halfway, Idle

LEMMA ContentStep == ContentInv /\ [AnyStep]_vars => ContentInv'
<1> SUFFICES ASSUME ContentInv, [AnyStep]_vars PROVE ContentInv'
  OBVIOUS
<1> DEFINE AllConsistent == \A c \in Cases, n \in Names : Consistent(c, n)'
<1>1. TypeInv /\ TypeInv' /\ requests \in [Requests -> Request]
  BY TypeStep DEF ContentInv, TypeInv, TypeOK
<1> SUFFICES AllConsistent
  BY <1>1 DEF ContentInv
<1>2. CASE Create \/ UNCHANGED vars
  BY <1>2, ContentKept DEF Create, CreateMetadata, vars, Halfway
<1>3. ASSUME NEW r \in Requests, Finish(r)
      PROVE  requests'[r].at = "idle"
  BY <1>1, <1>3 DEF Finish, Idle
<1> HIDE DEF AllConsistent
<1>4. ASSUME NEW r \in Requests, Arrive(r)
      PROVE  AllConsistent
  <2>1. \A s \in Requests \ {r} : requests'[s] = requests[s]
    BY <1>1, <1>4, OneRequestSteps
  <2>2. requests[r].at = "idle" /\ UNCHANGED <<artifacts, objects, torn>>
    BY <1>4 DEF Arrive, PublishReceive, UpdateReceive, PutReceive, DropReceive, DeleteReceive,
                Accept, At, stores, history
  <2>3. requests'[r].at \notin MetaSteps
    BY <1>1, <1>4, ReceivedStep DEF MetaSteps
  <2>4. QED
    BY <2>1, <2>2, <2>3, NothingWritten DEF MetaSteps, AllConsistent
<1>5. ASSUME NEW r \in Requests, Abort(r)
      PROVE  AllConsistent
  <2>1. ASSUME NEW c \in Cases, NEW n \in Names
        PROVE  Consistent(c, n)'
    <3>1. \A s \in Requests \ {r} : requests'[s] = requests[s]
      BY <1>1, <1>5, OneRequestSteps
    <3>2. <<c, n>> \notin torn' => <<c, n>> \notin torn /\ ~Halfway(r, c, n)
      BY <1>5 DEF Abort
    <3>3. ~Halfway(r, c, n)'
      BY <1>3, <1>5 DEF Abort, Halfway
    <3>4. \A s \in Requests \ {r} : Halfway(s, c, n)' <=> Halfway(s, c, n)
      BY <3>1 DEF Halfway
    <3>5. UNCHANGED <<artifacts, objects>>
      BY <1>5 DEF Abort, stores
    <3>6. QED
      BY <3>1, <3>2, <3>3, <3>4, <3>5, ContentKept
  <2>2. QED
    BY <2>1 DEF AllConsistent
<1>6. ASSUME NEW r \in Requests, Serve(r)
      PROVE  AllConsistent
  <2> DEFINE old == requests[r]
             new == requests'[r]
  <2>1. /\ old \in Request /\ WellFormed(old)
        /\ \A s \in Requests \ {r} : requests'[s] = requests[s]
    BY <1>1, <1>6, OneRequestSteps DEF TypeInv
  <2>2. ASSUME NEW step, Advance(r, step)
        PROVE  new.at = step /\ new.case = old.case /\ new.name = old.name /\ new.upload = old.upload
    BY <1>1, <2>2 DEF Advance, Request
  <2>3. CASE PutStore(r)
    <3>1. /\ old.at = "put:store" /\ Advance(r, "put:meta")
          /\ WriteObject(r, old.case, old.name, old.upload.payload)
          /\ UNCHANGED artifacts
      BY <2>3 DEF PutStore, At
    <3>2. old.case \in Cases /\ old.name \in Names
      BY <2>1, <3>1 DEF WellFormed, PutSteps
    <3>3. NextContent(new) = old.upload.payload /\ new.at \in MetaSteps /\ old.at \notin MetaSteps
      BY <2>2, <3>1 DEF NextContent, MetaSteps
    <3>4. new.case = old.case /\ new.name = old.name
      BY <2>2, <3>1
    <3>5. QED
      BY <2>1, <3>1, <3>2, <3>3, <3>4, ObjectWritten DEF AllConsistent
  <2>4. CASE DropObject(r)
    <3>1. /\ old.at = "drop:object" /\ Advance(r, "drop:meta")
          /\ WriteObject(r, old.case, old.name, None)
          /\ UNCHANGED artifacts
      BY <2>4 DEF DropObject, At
    <3>2. old.case \in Cases /\ old.name \in Names
      BY <2>1, <3>1 DEF WellFormed, DropSteps
    <3>3. NextContent(new) = None /\ new.at \in MetaSteps /\ old.at \notin MetaSteps
      BY <2>2, <3>1 DEF NextContent, MetaSteps
    <3>4. new.case = old.case /\ new.name = old.name
      BY <2>2, <3>1
    <3>5. QED
      BY <2>1, <3>1, <3>2, <3>3, <3>4, ObjectWritten DEF AllConsistent
  <2>5. CASE DeleteObject(r)
    <3>1. PICK n \in old.pending :
            /\ WriteObject(r, old.case, n, None)
            /\ requests' = [requests EXCEPT ![r].at = "delete:meta", ![r].name = n]
      BY <2>5 DEF DeleteObject
    <3>2. old.at = "delete:object" /\ UNCHANGED artifacts
      BY <2>5 DEF DeleteObject, At
    <3>3. old.case \in Cases /\ n \in Names
      BY <2>1, <3>2 DEF WellFormed, Request
    <3>4. new.at = "delete:meta" /\ new.case = old.case /\ new.name = n
      BY <1>1, <3>1 DEF Request
    <3>5. NextContent(new) = None /\ new.at \in MetaSteps /\ old.at \notin MetaSteps
      BY <3>2, <3>4 DEF NextContent, MetaSteps
    <3>6. QED
      BY <2>1, <3>1, <3>2, <3>3, <3>4, <3>5, ObjectWritten DEF AllConsistent
  <2>6. CASE PutMeta(r)
    <3> DEFINE meta == MetaOf(old.upload)
    <3>1. /\ old.at = "put:meta" /\ (Advance(r, "put:link") \/ Finish(r))
          /\ WriteMeta(old.case, old.name, meta)
          /\ UNCHANGED <<objects, torn>>
      BY <2>6 DEF PutMeta, At, history
    <3>2. old.case \in Cases /\ old.name \in Names /\ old.upload \in Upload
      BY <2>1, <3>1 DEF WellFormed, PutSteps
    <3>3. new.at \notin MetaSteps
      BY <1>3, <2>2, <3>1 DEF MetaSteps
    <3>4. meta # None /\ NextContent(old) # None /\ meta.digest = Sha256(NextContent(old))
      BY <3>1, <3>2, UploadType, NoneIsNoValue DEF NextContent, MetaOf
    <3>5. Halfway(r, old.case, old.name)
      BY <3>1 DEF Halfway
    <3> HIDE DEF meta
    <3>6. QED
      BY <2>1, <3>1, <3>2, <3>3, <3>4, <3>5, MetaWritten DEF AllConsistent
  <2>7. CASE DropMeta(r) \/ DeleteMeta(r)
    <3>1. /\ old.at \in {"drop:meta", "delete:meta"}
          /\ WriteMeta(old.case, old.name, None)
          /\ UNCHANGED <<objects, torn>>
      BY <2>7 DEF DropMeta, DeleteMeta, At, history
    <3>2. old.case \in Cases /\ old.name \in Names
      BY <2>1, <3>1 DEF WellFormed, DropSteps
    <3>3. new.at \notin MetaSteps
      <4>1. CASE DropMeta(r)
        BY <1>3, <4>1 DEF DropMeta, MetaSteps
      <4>2. CASE DeleteMeta(r)
        <5>1. PICK rest : DeleteRest(r, rest)
          BY <4>2 DEF DeleteMeta
        <5>2. requests'[r].at \in {"delete:case", "delete:object"}
          BY <1>1, <5>1, RestStep
        <5>3. QED
          BY <5>2 DEF MetaSteps
      <4>3. QED
        BY <2>7, <4>1, <4>2
    <3>4. NextContent(old) = None /\ Halfway(r, old.case, old.name)
      BY <3>1 DEF NextContent, Halfway
    <3>5. QED
      BY <2>1, <3>1, <3>2, <3>3, <3>4, MetaWritten DEF AllConsistent
  <2>8. CASE \/ PublishWrite(r) \/ UpdateWrite(r) \/ PutAuthorize(r) \/ PutLoad(r) \/ PutLink(r)
             \/ DropAuthorize(r) \/ DropFind(r) \/ DropGuard(r) \/ DeleteList(r) \/ DeleteCase(r)
    <3>1. old.at \notin MetaSteps
      BY <2>8 DEF PublishWrite, UpdateWrite, PutAuthorize, PutLoad, PutLink, DropAuthorize,
                  DropFind, DropGuard, DeleteList, DeleteCase, CheckOwnership, At, MetaSteps
    <3>2. UNCHANGED <<artifacts, objects, torn>>
      BY <2>8 DEF PublishWrite, UpdateWrite, PutAuthorize, PutLoad, PutLink, DropAuthorize,
                  DropFind, DropGuard, DeleteList, DeleteCase, CheckOwnership, stores, history
    <3>3. new.at \notin MetaSteps
      <4>1. CASE PublishWrite(r) \/ UpdateWrite(r) \/ PutLink(r) \/ DeleteCase(r)
        BY <1>3, <4>1 DEF PublishWrite, UpdateWrite, PutLink, DeleteCase, MetaSteps
      <4>2. CASE PutAuthorize(r) \/ DropAuthorize(r) \/ DropFind(r) \/ DropGuard(r)
        BY <1>3, <2>2, <4>2 DEF PutAuthorize, DropAuthorize, DropFind, DropGuard,
                                CheckOwnership, MetaSteps
      <4>3. CASE PutLoad(r)
        <5>1. \/ Finish(r)
              \/ requests' = [requests EXCEPT ![r].at = "put:store",
                                              ![r].seen = FromDocument(testCases[old.case])]
          BY <4>3 DEF PutLoad
        <5>2. new.at \in {"idle", "put:store"}
          BY <1>1, <1>3, <5>1 DEF Request
        <5>3. QED
          BY <5>2 DEF MetaSteps
      <4>4. CASE DeleteList(r)
        <5>1. PICK rest : DeleteRest(r, rest)
          BY <4>4 DEF DeleteList
        <5>2. requests'[r].at \in {"delete:case", "delete:object"}
          BY <1>1, <5>1, RestStep
        <5>3. QED
          BY <5>2 DEF MetaSteps
      <4>5. QED
        BY <2>8, <4>1, <4>2, <4>3, <4>4
    <3>4. QED
      BY <2>1, <3>1, <3>2, <3>3, NothingWritten DEF AllConsistent
  <2>9. QED
    BY <1>6, <2>3, <2>4, <2>5, <2>6, <2>7, <2>8 DEF Serve
<1>7. QED
  BY <1>2, <1>4, <1>5, <1>6 DEF AnyStep, AllConsistent

LEMMA AnyContentAgrees == AnySpec => []ContentMatchesMetadata
<1>1. ContentInv => ContentMatchesMetadata
  BY DEF ContentInv, Consistent, Matches, ContentMatchesMetadata
<1>2. QED
  BY <1>1, ContentInit, ContentStep, PTL DEF AnySpec

\* The record and the content of an artifact that nobody is halfway through agree,
\* unless its last writers overlapped or one died between its two writes: a later
\* upload or deletion that runs alone repairs it.
THEOREM ContentAgrees == Spec => []ContentMatchesMetadata
  BY AnyContentAgrees, SpecIsAny, PTL

-----------------------------------------------------------------------------
\* Requests that do not overlap on a case.

\* No two requests in progress are for the same case.
NoOverlap ==
    \A q, r \in Requests :
        q # r /\ ~At(q, "idle") /\ ~At(r, "idle") => requests[q].case # requests[r].case

\* What a request knows of its case is still so, and a deletion has listed all
\* the records that are left.
Undisturbed(req) ==
    /\ req.at \in Deciding => Exists(req.case) /\ req.seen = View(req.case)
    /\ req.at \in DeleteSteps => Exists(req.case)
    /\ req.at \in {"delete:object", "delete:meta"} =>
         \A n \in Names : artifacts[req.case][n] # None => n \in req.pending
    /\ req.at = "delete:case" => \A n \in Names : artifacts[req.case][n] = None

SerialInv ==
    /\ LifeInv
    /\ raced = {}
    /\ ArtifactsBelongToCases
    /\ \A r \in Requests : Undisturbed(requests[r])

\* A request works on its own case only.
LEMMA OtherCases ==
    ASSUME TypeInv, NEW r \in Requests, Serve(r), NEW c \in Cases, c # requests[r].case
    PROVE  testCases'[c] = testCases[c] /\ artifacts'[c] = artifacts[c]
<1>1. /\ testCases \in [Cases -> Document \cup {None}]
      /\ artifacts \in [Cases -> [Names -> ArtifactMeta \cup {None}]]
  BY DEF TypeInv, TypeOK
<1>2. CASE PublishWrite(r) \/ UpdateWrite(r) \/ PutLink(r) \/ DeleteCase(r)
  BY <1>1, <1>2 DEF PublishWrite, UpdateWrite, PutLink, DeleteCase, UpdateOne
<1>3. CASE PutMeta(r) \/ DropMeta(r) \/ DeleteMeta(r)
  BY <1>1, <1>3 DEF PutMeta, DropMeta, DeleteMeta, WriteMeta
<1>4. CASE \/ PutAuthorize(r) \/ PutLoad(r) \/ PutStore(r)
           \/ DropAuthorize(r) \/ DropFind(r) \/ DropGuard(r) \/ DropObject(r)
           \/ DeleteList(r) \/ DeleteObject(r)
  BY <1>4 DEF PutAuthorize, PutLoad, PutStore, DropAuthorize, DropFind, DropGuard, DropObject,
              DeleteList, DeleteObject, CheckOwnership, stores
<1>5. QED
  BY <1>2, <1>3, <1>4 DEF Serve

\* How a deletion goes on.
LEMMA RestFields ==
    ASSUME NEW r \in Requests, requests \in [Requests -> Request], NEW rest, DeleteRest(r, rest)
    PROVE  /\ requests'[r].at = IF rest = {} THEN "delete:case" ELSE "delete:object"
           /\ requests'[r].case = requests[r].case
           /\ requests'[r].pending = rest
<1>1. PICK step : /\ requests' = [requests EXCEPT ![r].at = step, ![r].name = None,
                                                  ![r].pending = rest]
                  /\ step = (IF rest = {} THEN "delete:case" ELSE "delete:object")
  BY DEF DeleteRest
<1> DEFINE old == requests[r]
           req == [old EXCEPT !.at = step, !.name = None, !.pending = rest]
<1>2. requests'[r] = req /\ old \in Request
  BY <1>1
<1>3. req.at = step /\ req.case = old.case /\ req.pending = rest
  BY <1>2 DEF Request
<1>4. QED
  BY <1>1, <1>2, <1>3

\* A request that goes on knows what its case is.
LEMMA ServedUndisturbed ==
    ASSUME TypeInv, NEW r \in Requests, Undisturbed(requests[r]), Serve(r),
           requests'[r].at # "idle"
    PROVE  LET req == requests'[r] IN
           /\ req.at \in Deciding =>
                testCases'[req.case] # None /\ req.seen = FromDocument(testCases'[req.case])
           /\ req.at \in DeleteSteps => testCases'[req.case] # None
           /\ req.at \in {"delete:object", "delete:meta"} =>
                \A n \in Names : artifacts'[req.case][n] # None => n \in req.pending
           /\ req.at = "delete:case" => \A n \in Names : artifacts'[req.case][n] = None
<1> DEFINE old == requests[r]
           req == requests'[r]
<1>1. /\ requests \in [Requests -> Request] /\ old \in Request /\ WellFormed(old)
      /\ artifacts \in [Cases -> [Names -> ArtifactMeta \cup {None}]]
  BY DEF TypeInv, TypeOK
<1>2. ~Finish(r)
  BY <1>1 DEF Finish, Idle
<1>3. req.case = old.case /\ old.at # "idle" /\ old.case \in Cases
  BY <1>1, ServedRequest DEF WellFormed
<1>4. ASSUME req.at \in Deciding
      PROVE  testCases'[req.case] # None /\ req.seen = FromDocument(testCases'[req.case])
  <2>1. UNCHANGED testCases
    <3>1. ~(PublishWrite(r) \/ UpdateWrite(r) \/ PutLink(r) \/ DeleteCase(r))
      BY <1>2 DEF PublishWrite, UpdateWrite, PutLink, DeleteCase
    <3>2. QED
      BY <3>1 DEF Serve, PutAuthorize, PutLoad, PutStore, PutMeta, DropAuthorize, DropFind,
                  DropGuard, DropObject, DropMeta, DeleteList, DeleteObject, DeleteMeta,
                  CheckOwnership, stores
  <2>2. \/ old.at \in Deciding /\ req.seen = old.seen
        \/ Exists(old.case) /\ req.seen = View(old.case)
    BY <1>4, ServedDecision
  <2>3. QED
    BY <1>3, <2>1, <2>2 DEF Undisturbed, Exists, View
<1>5. CASE DeleteList(r) \/ DeleteObject(r) \/ DeleteMeta(r)
  <2>1. /\ Exists(old.case) /\ UNCHANGED testCases /\ req.at \in DeleteSteps
        /\ req.at \notin Deciding
    <3>1. Exists(old.case) /\ UNCHANGED testCases
      BY <1>5 DEF DeleteList, DeleteObject, DeleteMeta, At, Undisturbed, DeleteSteps, stores
    <3>2. CASE DeleteList(r) \/ DeleteMeta(r)
      BY <1>1, <3>1, <3>2, RestStep DEF DeleteList, DeleteMeta, DeleteSteps, Deciding
    <3>3. CASE DeleteObject(r)
      <4>1. PICK n \in Names : requests' = [requests EXCEPT ![r].at = "delete:meta", ![r].name = n]
        BY <1>1, <3>3 DEF DeleteObject, Request
      <4>2. req.at = "delete:meta"
        BY <1>1, <4>1 DEF Request
      <4>3. QED
        BY <3>1, <4>2 DEF DeleteSteps, Deciding
    <3>4. QED
      BY <1>5, <3>2, <3>3
  <2>2. CASE DeleteList(r)
    <3>1. PICK rest : DeleteRest(r, rest) /\ rest = {n \in Names : artifacts[old.case][n] # None}
      BY <2>2 DEF DeleteList
    <3>2. UNCHANGED artifacts
      BY <2>2 DEF DeleteList, stores
    <3>3. req.at = (IF rest = {} THEN "delete:case" ELSE "delete:object") /\ req.pending = rest
      BY <1>1, <3>1, RestFields
    <3>4. QED
      BY <1>3, <2>1, <3>1, <3>2, <3>3 DEF Exists
  <2>3. CASE DeleteObject(r)
    <3>1. PICK n : requests' = [requests EXCEPT ![r].at = "delete:meta", ![r].name = n]
      BY <2>3 DEF DeleteObject
    <3>2. req.at = "delete:meta" /\ req.pending = old.pending
      BY <1>1, <3>1 DEF Request
    <3>3. old.at = "delete:object" /\ UNCHANGED artifacts
      BY <2>3 DEF DeleteObject, At
    <3>4. QED
      BY <1>3, <2>1, <3>2, <3>3 DEF Exists, Undisturbed
  <2>4. CASE DeleteMeta(r)
    <3>1. PICK rest : DeleteRest(r, rest) /\ rest = old.pending \ {old.name}
      BY <2>4 DEF DeleteMeta
    <3>2. /\ old.at = "delete:meta" /\ old.name \in Names
          /\ artifacts' = [artifacts EXCEPT ![old.case][old.name] = None]
      BY <1>1, <2>4 DEF DeleteMeta, At, WriteMeta, WellFormed
    <3>3. req.at = (IF rest = {} THEN "delete:case" ELSE "delete:object") /\ req.pending = rest
      BY <1>1, <3>1, RestFields
    <3>4. \A n \in Names : artifacts'[old.case][n] # None => n \in rest
      BY <1>1, <1>3, <3>1, <3>2 DEF Undisturbed
    <3>5. QED
      BY <1>3, <2>1, <3>3, <3>4 DEF Exists
  <2>5. QED
    BY <1>5, <2>2, <2>3, <2>4
<1>6. CASE ~(DeleteList(r) \/ DeleteObject(r) \/ DeleteMeta(r))
  <2>1. req.at \notin DeleteSteps
    <3>1. ASSUME NEW step \in Steps \ DeleteSteps, Advance(r, step)
          PROVE  req.at \notin DeleteSteps
      BY <1>1, <3>1 DEF Advance, Request
    <3>2. CASE PutLoad(r)
      <4>1. requests' = [requests EXCEPT ![r].at = "put:store",
                                         ![r].seen = FromDocument(testCases[old.case])]
        BY <1>2, <3>2 DEF PutLoad
      <4>2. req.at = "put:store"
        BY <1>1, <4>1 DEF Request
      <4>3. QED
        BY <4>2 DEF DeleteSteps
    <3>3. CASE \/ PutAuthorize(r) \/ PutStore(r) \/ PutMeta(r) \/ DropAuthorize(r)
               \/ DropFind(r) \/ DropGuard(r) \/ DropObject(r)
      BY <1>2, <3>1, <3>3 DEF PutAuthorize, PutStore, PutMeta, DropAuthorize, DropFind, DropGuard,
                DropObject, CheckOwnership, Steps, PutSteps, DropSteps, DeleteSteps
    <3>4. QED
      BY <1>2, <1>6, <3>2, <3>3 DEF Serve, PublishWrite, UpdateWrite, PutLink, DropMeta, DeleteCase
  <2>2. QED
    BY <1>4, <2>1 DEF DeleteSteps
<1>7. QED
  BY <1>4, <1>5, <1>6

\* A request just accepted has read its case, or not yet looked.
LEMMA ReceivedUndisturbed ==
    ASSUME TypeInv, NEW r \in Requests, Arrive(r)
    PROVE  LET req == requests'[r] IN
           /\ UNCHANGED <<testCases, artifacts, raced>>
           /\ req.at \in Deciding => Exists(req.case) /\ req.seen = View(req.case)
           /\ req.at \in DeleteSteps => Exists(req.case)
           /\ req.at \notin {"delete:object", "delete:meta", "delete:case"}
<1>1. requests \in [Requests -> Request]
  BY DEF TypeInv, TypeOK
<1>2. UNCHANGED <<testCases, artifacts, raced>>
  BY DEF Arrive, PublishReceive, UpdateReceive, PutReceive, DropReceive, DeleteReceive,
         stores, history
<1>3. PICK p \in Principals, c \in Cases :
        \/ \E body \in PublishBodies : PublishReceive(r, p, c, body)
        \/ \E patch \in Patches : UpdateReceive(r, p, c, patch)
        \/ \E n \in Names, upload \in Upload : PutReceive(r, p, c, n, upload)
        \/ \E n \in Names : DropReceive(r, p, c, n)
        \/ DeleteReceive(r, p, c)
  BY DEF Arrive
<1>4. CASE DeleteReceive(r, p, c)
  <2>1. requests'[r].at = "delete:list" /\ requests'[r].case = c /\ Exists(c)
    BY <1>1, <1>4 DEF DeleteReceive, Accept, Idle, Exists
  <2>2. QED
    BY <1>2, <2>1 DEF Deciding
<1>5. CASE ~DeleteReceive(r, p, c)
  <2>1. requests'[r].at \in {"publish", "update", "put:authorize", "put:load", "drop:authorize",
                             "drop:find"}
    <3>1. CASE \E body \in PublishBodies : PublishReceive(r, p, c, body)
      BY <1>1, <3>1 DEF PublishReceive, Accept, Idle
    <3>2. CASE \E patch \in Patches : UpdateReceive(r, p, c, patch)
      BY <1>1, <3>2 DEF UpdateReceive, Accept, Idle
    <3>3. CASE \E n \in Names, upload \in Upload : PutReceive(r, p, c, n, upload)
      BY <1>1, <3>3 DEF PutReceive, Accept, Idle, FirstStep
    <3>4. CASE \E n \in Names : DropReceive(r, p, c, n)
      BY <1>1, <3>4 DEF DropReceive, Accept, Idle, FirstStep
    <3>5. QED
      BY <1>3, <1>5, <3>1, <3>2, <3>3, <3>4
  <2>2. requests'[r].at \notin DeleteSteps
    BY <2>1 DEF DeleteSteps
  <2>3. QED
    BY <1>2, <2>2, ReceivedDecision DEF DeleteSteps
<1>6. QED
  BY <1>4, <1>5

\* No step of a request that knows its case writes on a state that has changed.
LEMMA NothingRaced ==
    ASSUME SerialInv, NEW r \in Requests, Serve(r)
    PROVE  raced' = {}
<1>1. requests[r].at \in Deciding => ~Stale(r)
  BY DEF SerialInv, Undisturbed, Stale, View
<1>2. CASE PublishWrite(r) \/ UpdateWrite(r) \/ PutLink(r)
  BY <1>1, <1>2 DEF PublishWrite, UpdateWrite, PutLink, NoteRace, At, Deciding, SerialInv
<1>3. CASE ~(PublishWrite(r) \/ UpdateWrite(r) \/ PutLink(r))
  BY <1>3 DEF Serve, PutAuthorize, PutLoad, PutStore, PutMeta, DropAuthorize, DropFind, DropGuard,
              DropObject, DropMeta, DeleteList, DeleteObject, DeleteMeta, DeleteCase,
              CheckOwnership, history, SerialInv
<1>4. QED
  BY <1>2, <1>3

\* The three writers store a document.
LEMMA DocumentWritten ==
    ASSUME TypeInv, NEW r \in Requests, PublishWrite(r) \/ UpdateWrite(r) \/ PutLink(r),
           Exists(requests[r].case)
    PROVE  testCases'[requests[r].case] \in Document
<1> DEFINE req == requests[r]
           c == req.case
           doc == testCases[c]
<1>1. /\ req \in Request /\ WellFormed(req)
      /\ testCases \in [Cases -> Document \cup {None}]
  BY DEF TypeInv, TypeOK
<1>2. c \in Cases
  BY <1>1 DEF PublishWrite, UpdateWrite, PutLink, At, WellFormed
<1>3. doc \in Document
  BY <1>1, <1>2 DEF Exists
<1>4. ASSUME NEW new, UpdateOne(c, new)
      PROVE  testCases'[c] = new
  BY <1>1, <1>2, <1>4 DEF UpdateOne, Exists
<1>5. CASE PublishWrite(r)
  <2>1. req.visibility \in Visibilities
    BY <1>1, <1>5 DEF PublishWrite, At, WellFormed
  <2>2. UpdateOne(c, [doc EXCEPT !.status = "published", !.visibility = req.visibility])
    BY <1>5 DEF PublishWrite
  <2>3. [doc EXCEPT !.status = "published", !.visibility = req.visibility] \in Document
    BY <1>3, <2>1, PublishedType
  <2>4. QED
    BY <1>4, <2>2, <2>3
<1>6. CASE UpdateWrite(r)
  <2>1. req.patch \in Patches /\ req.seen \in TestCase /\ PatchAllowed(req.seen, req.patch)
    BY <1>1, <1>6 DEF UpdateWrite, At, WellFormed, Deciding
  <2>2. UpdateOne(c, Patched(doc, req.patch))
    BY <1>6 DEF UpdateWrite
  <2>3. QED
    BY <1>3, <1>4, <2>1, <2>2, PatchedType
<1>7. CASE PutLink(r)
  <2>1. req.at = "put:link" /\ UpdateOne(c, LinkDocument(doc, req))
    BY <1>7 DEF PutLink, At, LinkDocument
  <2>2. LinkDocument(doc, req) \in TestCase
    BY <1>1, <1>3, <2>1, LinkType
  <2>3. QED
    BY <1>4, <2>1, <2>2, TestCaseIsDocument
<1>8. QED
  BY <1>5, <1>6, <1>7

\* A case loses its last record before it goes, and gets none once it is gone.
LEMMA RecordsFollowCase ==
    ASSUME SerialInv, NEW r \in Requests, Serve(r), NEW c \in Cases, testCases'[c] = None,
           NEW n \in Names
    PROVE  artifacts'[c][n] = None
<1> DEFINE old == requests[r]
<1>1. /\ TypeInv /\ WellFormed(old) /\ Undisturbed(old)
      /\ testCases \in [Cases -> Document \cup {None}]
      /\ artifacts \in [Cases -> [Names -> ArtifactMeta \cup {None}]]
  BY DEF SerialInv, LifeInv, AccessInv, TypeInv, TypeOK
<1>2. ~Exists(c) => artifacts[c][n] = None
  BY DEF SerialInv, ArtifactsBelongToCases
<1>3. CASE c # old.case
  BY <1>1, <1>2, <1>3, OtherCases DEF Exists
<1>4. CASE c = old.case /\ DeleteCase(r)
  BY <1>1, <1>4 DEF DeleteCase, At, Undisturbed
<1>5. CASE c = old.case /\ (PublishWrite(r) \/ UpdateWrite(r) \/ PutLink(r))
  <2>1. old.at \in Deciding
    BY <1>5 DEF PublishWrite, UpdateWrite, PutLink, At, Deciding
  <2>2. Exists(c)
    BY <1>1, <1>5, <2>1 DEF Undisturbed
  <2>3. testCases'[c] \in Document
    BY <1>1, <1>5, <2>2, DocumentWritten
  <2>4. QED
    BY <2>3, NoneIsNoDocument
<1>6. CASE c = old.case /\ Exists(c) /\ UNCHANGED testCases
  BY <1>6 DEF Exists
<1>7. CASE c = old.case /\ ~Exists(c) /\ (DropMeta(r) \/ DeleteMeta(r))
  BY <1>1, <1>2, <1>7 DEF DropMeta, DeleteMeta, WriteMeta
<1>8. CASE c = old.case /\ ~Exists(c) /\ PutMeta(r)
  BY <1>1, <1>8 DEF PutMeta, At, Undisturbed, Deciding
<1>9. CASE c = old.case /\ ~Exists(c) /\ UNCHANGED artifacts
  BY <1>2, <1>9
<1>10. \/ PublishWrite(r) \/ UpdateWrite(r) \/ PutLink(r) \/ DeleteCase(r)
       \/ DropMeta(r) /\ UNCHANGED testCases
       \/ DeleteMeta(r) /\ UNCHANGED testCases
       \/ PutMeta(r) /\ UNCHANGED testCases
       \/ UNCHANGED <<testCases, artifacts>>
  BY DEF Serve, PutAuthorize, PutLoad, PutStore, PutMeta, DropAuthorize, DropFind, DropGuard,
         DropObject, DropMeta, DeleteList, DeleteObject, DeleteMeta, CheckOwnership, stores
<1>11. QED
  BY <1>3, <1>4, <1>5, <1>6, <1>7, <1>8, <1>9, <1>10

LEMMA SerialInit == Init => SerialInv
<1> SUFFICES ASSUME Init PROVE SerialInv
  OBVIOUS
<1>1. \A r \in Requests : requests[r].at = "idle"
  BY DEF Init, Idle
<1>2. QED
  BY <1>1, LifeInit DEF SerialInv, Undisturbed, Deciding, DeleteSteps, ArtifactsBelongToCases, Init

LEMMA SerialStep == SerialInv /\ NoOverlap /\ [AnyStep]_vars => SerialInv'
<1> SUFFICES ASSUME SerialInv, NoOverlap, [AnyStep]_vars PROVE SerialInv'
  OBVIOUS
<1>1. /\ LifeInv /\ TypeInv /\ LifeInv' /\ TypeInv' /\ raced = {}
      /\ requests \in [Requests -> Request]
      /\ testCases \in [Cases -> Document \cup {None}]
  BY LifeStep, TypeStep DEF SerialInv, LifeInv, AccessInv, TypeInv, TypeOK
<1> DEFINE Known(s) == LET req == requests'[s] IN
              /\ req.at \in Deciding =>
                   testCases'[req.case] # None /\ req.seen = FromDocument(testCases'[req.case])
              /\ req.at \in DeleteSteps => testCases'[req.case] # None
              /\ req.at \in {"delete:object", "delete:meta"} =>
                   \A n \in Names : artifacts'[req.case][n] # None => n \in req.pending
              /\ req.at = "delete:case" => \A n \in Names : artifacts'[req.case][n] = None
<1>2. ASSUME NEW s \in Requests, requests'[s] = requests[s],
             requests[s].at # "idle" =>
               /\ artifacts'[requests[s].case] = artifacts[requests[s].case]
               /\ Exists(requests[s].case) => testCases'[requests[s].case] = testCases[requests[s].case]
      PROVE  Known(s)
  <2>1. Undisturbed(requests[s])
    BY DEF SerialInv
  <2>2. CASE requests[s].at = "idle"
    BY <1>2, <2>2 DEF Deciding, DeleteSteps
  <2>3. CASE requests[s].at # "idle"
    BY <1>2, <2>1, <2>3 DEF Undisturbed, Exists, View
  <2>4. QED
    BY <2>2, <2>3
<1> DEFINE Done == /\ raced' = {}
                   /\ \A c \in Cases : testCases'[c] = None => \A n \in Names : artifacts'[c][n] = None
                   /\ \A s \in Requests : Known(s)
<1>3. \A c \in Cases : testCases[c] = None => \A n \in Names : artifacts[c][n] = None
  BY DEF SerialInv, ArtifactsBelongToCases, Exists
<1> HIDE DEF Known
<1>4. ASSUME Create
      PROVE  Done
  <2>1. PICK p \in Principals, c \in Cases, label \in Labels, t \in TestTypes \cup {""} :
          CreateMetadata(p, c, label, t)
    BY <1>4 DEF Create
  <2>2. /\ UNCHANGED <<artifacts, requests, raced>>
        /\ \A d \in Cases \ {c} : testCases'[d] = testCases[d]
        /\ ~Exists(c)
    BY <1>1, <2>1 DEF CreateMetadata, LifeInv, AccessInv
  <2>3. ASSUME NEW s \in Requests
        PROVE  Known(s)
    BY <1>1, <1>2, <2>2 DEF TypeInv, WellFormed, Exists
  <2>4. ASSUME NEW d \in Cases, testCases'[d] = None, NEW n \in Names
        PROVE  artifacts'[d][n] = None
    BY <1>3, <2>2, <2>4 DEF Exists
  <2>5. QED
    BY <1>1, <2>2, <2>3, <2>4
<1>5. ASSUME NEW r \in Requests, Arrive(r)
      PROVE  Done
  <2>1. UNCHANGED <<testCases, artifacts, raced>>
    BY <1>1, <1>5, ReceivedUndisturbed
  <2>2. Known(r)
    BY <1>1, <1>5, ReceivedUndisturbed DEF Known, Exists, View
  <2>3. ASSUME NEW s \in Requests \ {r}
        PROVE  Known(s)
    BY <1>1, <1>2, <1>5, <2>1, OneRequestSteps
  <2>4. QED
    BY <1>1, <1>3, <2>1, <2>2, <2>3
<1>6. ASSUME NEW r \in Requests, Serve(r)
      PROVE  Done
  <2>1. raced' = {}
    BY <1>6, NothingRaced
  <2>2. Known(r)
    <3>1. CASE requests'[r].at = "idle"
      BY <3>1 DEF Known, Deciding, DeleteSteps
    <3>2. CASE requests'[r].at # "idle"
      BY <1>1, <1>6, <3>2, ServedUndisturbed DEF Known, SerialInv
    <3>3. QED
      BY <3>1, <3>2
  <2>3. ASSUME NEW s \in Requests \ {r}
        PROVE  Known(s)
    <3>1. requests'[s] = requests[s]
      BY <1>1, <1>6, OneRequestSteps
    <3>2. ASSUME requests[s].at # "idle"
          PROVE  /\ artifacts'[requests[s].case] = artifacts[requests[s].case]
                 /\ testCases'[requests[s].case] = testCases[requests[s].case]
      <4>1. requests[r].at # "idle"
        BY <1>6 DEF Serve, PublishWrite, UpdateWrite, PutAuthorize, PutLoad, PutStore, PutMeta,
              PutLink, DropAuthorize, DropFind, DropGuard, DropObject, DropMeta, DeleteList,
              DeleteObject, DeleteMeta, DeleteCase, CheckOwnership, At
      <4>2. requests[s].case # requests[r].case /\ requests[s].case \in Cases
        BY <1>1, <3>2, <4>1 DEF NoOverlap, At, TypeInv, WellFormed
      <4>3. QED
        BY <1>1, <1>6, <4>2, OtherCases
    <3>3. QED
      BY <1>2, <3>1, <3>2
  <2>4. \A c \in Cases : testCases'[c] = None => \A n \in Names : artifacts'[c][n] = None
    BY <1>6, RecordsFollowCase
  <2>5. QED
    BY <2>1, <2>2, <2>3, <2>4
<1>7. ASSUME NEW r \in Requests, Abort(r)
      PROVE  Done
  <2>1. UNCHANGED <<testCases, artifacts, raced>>
    BY <1>7 DEF Abort, stores
  <2>2. requests'[r].at = "idle"
    BY <1>1, <1>7 DEF Abort, Finish, Idle
  <2>3. Known(r)
    BY <2>2 DEF Known, Deciding, DeleteSteps
  <2>4. ASSUME NEW s \in Requests \ {r}
        PROVE  Known(s)
    BY <1>1, <1>2, <1>7, <2>1, OneRequestSteps
  <2>5. QED
    BY <1>1, <1>3, <2>1, <2>3, <2>4
<1>8. ASSUME UNCHANGED vars
      PROVE  Done
  <2>1. \A s \in Requests : Known(s)
    BY <1>2, <1>8 DEF vars
  <2>2. QED
    BY <1>1, <1>3, <1>8, <2>1 DEF vars
<1>9. Done
  BY <1>4, <1>5, <1>6, <1>7, <1>8 DEF AnyStep
<1>10. QED
  BY <1>1, <1>9 DEF SerialInv, ArtifactsBelongToCases, Undisturbed, Known, Exists, View

-----------------------------------------------------------------------------
\* Requests that do not overlap on a case keep its records with it.

LEMMA SerialHolds == Spec /\ []NoOverlap => []SerialInv
  BY SerialInit, SerialStep, NextIsAnyStep, PTL DEF Spec

\* No artifact of a case outlives it, as long as no two requests for the same
\* case are in progress at a time.  Requests for other cases, failures between
\* two writes and clients that give up do no harm: DeleteTestCase removes the
\* case last, and every writer has found the case after the last deletion began.
THEOREM RecordsGoWithTheirCase == Spec /\ []NoOverlap => []ArtifactsBelongToCases
<1>1. SerialInv => ArtifactsBelongToCases
  BY DEF SerialInv
<1>2. QED
  BY <1>1, SerialHolds, PTL

-----------------------------------------------------------------------------
\* They implement the publication lifecycle.

\* The test type of a case, for the refinement.
TypeOf(c) == IF Exists(c) THEN View(c).testType ELSE None

\* The publication state of a document whose draft is private.
LEMMA ViewFacts ==
    ASSUME NEW doc \in Document,
           IsDraft(FromDocument(doc)) => FromDocument(doc).visibility = "private"
    PROVE  LET view == FromDocument(doc) IN
           /\ view.testType \in TestTypes
           /\ view.visibility \in {"public", "private"}
           /\ IsDraft(view) \/ IsPublished(view)
           /\ ~(IsDraft(view) /\ IsPublished(view))
  BY FromDocumentType DEF TestCase, Statuses, Visibilities, IsDraft, IsPublished

\* A step that changes one case in one of the ways of the lifecycle is one of
\* its steps.
LEMMA OneCaseMoves ==
    ASSUME NEW c \in Cases,
           \A d \in Cases \ {c} : StageOf(d)' = StageOf(d) /\ TypeOf(d)' = TypeOf(d),
           \/ /\ StageOf(c) = "absent" /\ StageOf(c)' = "draft" /\ TypeOf(c)' \in TestTypes
           \/ /\ StageOf(c) = "draft" /\ StageOf(c)' = "draft" /\ TypeOf(c)' \in TestTypes
           \/ /\ StageOf(c) = "draft" /\ StageOf(c)' \in {"public", "private"}
              /\ TypeOf(c)' = TypeOf(c)
           \/ /\ StageOf(c) \in {"public", "private"} /\ StageOf(c)' \in {"public", "private"}
              /\ TypeOf(c)' = TypeOf(c)
           \/ /\ StageOf(c) \in {"public", "private", "draft"} /\ StageOf(c)' = "gone"
              /\ TypeOf(c)' = None
    PROVE  Lifecycle!Next
<1> DEFINE stage == [d \in Cases |-> StageOf(d)]
           type == [d \in Cases |-> TypeOf(d)]
<1>1. /\ stage' = [stage EXCEPT ![c] = StageOf(c)']
      /\ type' = [type EXCEPT ![c] = TypeOf(c)']
      /\ TypeOf(c)' = TypeOf(c) => type' = type
      /\ StageOf(c)' = StageOf(c) => stage' = stage
      /\ stage[c] = StageOf(c)
  OBVIOUS
<1>2. CASE StageOf(c) = "absent" /\ StageOf(c)' = "draft" /\ TypeOf(c)' \in TestTypes
  <2>1. Lifecycle!Create(c)
    BY <1>1, <1>2 DEF Lifecycle!Create, TypeOf
  <2>2. QED
    BY <2>1 DEF Lifecycle!Next
<1>3. CASE StageOf(c) = "draft" /\ StageOf(c)' = "draft" /\ TypeOf(c)' \in TestTypes
  <2>1. Lifecycle!Retype(c)
    BY <1>1, <1>3 DEF Lifecycle!Retype, TypeOf
  <2>2. QED
    BY <2>1 DEF Lifecycle!Next
<1>4. CASE /\ StageOf(c) = "draft" /\ StageOf(c)' \in {"public", "private"}
           /\ TypeOf(c)' = TypeOf(c)
  <2>1. Lifecycle!Publish(c)
    BY <1>1, <1>4 DEF Lifecycle!Publish, Lifecycle!Published, TypeOf
  <2>2. QED
    BY <2>1 DEF Lifecycle!Next
<1>5. CASE /\ StageOf(c) \in {"public", "private"} /\ StageOf(c)' \in {"public", "private"}
           /\ TypeOf(c)' = TypeOf(c)
  <2>1. Lifecycle!SetVisibility(c)
    BY <1>1, <1>5 DEF Lifecycle!SetVisibility, Lifecycle!Published, TypeOf
  <2>2. QED
    BY <2>1 DEF Lifecycle!Next
<1>6. CASE /\ StageOf(c) \in {"public", "private", "draft"} /\ StageOf(c)' = "gone"
           /\ TypeOf(c)' = None
  <2>1. Lifecycle!Delete(c)
    BY <1>1, <1>6 DEF Lifecycle!Delete, Lifecycle!Published, TypeOf
  <2>2. QED
    BY <2>1 DEF Lifecycle!Next
<1>7. QED
  BY <1>2, <1>3, <1>4, <1>5, <1>6

\* The publication state of the other cases stays.
LEMMA OtherStages ==
    ASSUME TypeInv, [AnyStep]_vars, NEW c \in Cases, testCases'[c] # testCases[c],
           NEW d \in Cases \ {c}
    PROVE  StageOf(d)' = StageOf(d) /\ TypeOf(d)' = TypeOf(d)
<1>1. testCases'[d] = testCases[d] /\ (d \in issued' <=> d \in issued)
  <2>1. CASE \E p \in Principals, label \in Labels, t \in TestTypes \cup {""} :
               CreateMetadata(p, c, label, t)
    BY <2>1 DEF CreateMetadata, TypeInv, TypeOK
  <2>2. CASE \E r \in Requests :
               /\ requests[r].case = c
               /\ PublishWrite(r) \/ UpdateWrite(r) \/ PutLink(r) \/ DeleteCase(r)
    <3>1. PICK r \in Requests :
            /\ requests[r].case = c
            /\ PublishWrite(r) \/ UpdateWrite(r) \/ PutLink(r) \/ DeleteCase(r)
      BY <2>2
    <3>2. Serve(r) /\ UNCHANGED issued
      BY <3>1 DEF Serve, PublishWrite, UpdateWrite, PutLink, DeleteCase, history
    <3>3. QED
      BY <3>1, <3>2, OtherCases
  <2>3. QED
    BY <2>1, <2>2, CaseWriter
<1>2. QED
  BY <1>1 DEF StageOf, TypeOf, Exists, View

\* A step that changes a case without racing changes its publication state in
\* one of the ways of the lifecycle.
LEMMA CaseMoves ==
    ASSUME LifeInv, LifeInv', [AnyStep]_vars, NEW c \in Cases \ raced',
           testCases'[c] # testCases[c]
    PROVE  \/ /\ StageOf(c) = "absent" /\ StageOf(c)' = "draft" /\ TypeOf(c)' \in TestTypes
           \/ /\ StageOf(c) = "draft" /\ StageOf(c)' = "draft" /\ TypeOf(c)' \in TestTypes
           \/ /\ StageOf(c) = "draft" /\ StageOf(c)' \in {"public", "private"}
              /\ TypeOf(c)' = TypeOf(c)
           \/ /\ StageOf(c) \in {"public", "private"} /\ StageOf(c)' \in {"public", "private"}
              /\ TypeOf(c)' = TypeOf(c)
           \/ /\ StageOf(c) \in {"public", "private", "draft"} /\ StageOf(c)' = "gone"
              /\ TypeOf(c)' = None
<1> DEFINE Moves == \/ /\ StageOf(c) = "absent" /\ StageOf(c)' = "draft" /\ TypeOf(c)' \in TestTypes
                    \/ /\ StageOf(c) = "draft" /\ StageOf(c)' = "draft" /\ TypeOf(c)' \in TestTypes
                    \/ /\ StageOf(c) = "draft" /\ StageOf(c)' \in {"public", "private"}
                       /\ TypeOf(c)' = TypeOf(c)
                    \/ /\ StageOf(c) \in {"public", "private"}
                       /\ StageOf(c)' \in {"public", "private"}
                       /\ TypeOf(c)' = TypeOf(c)
                    \/ /\ StageOf(c) \in {"public", "private", "draft"} /\ StageOf(c)' = "gone"
                       /\ TypeOf(c)' = None
<1>1. /\ TypeInv /\ AccessInv /\ c \notin raced
      /\ testCases \in [Cases -> Document \cup {None}]
  BY RacedGrows DEF LifeInv, AccessInv, TypeInv, TypeOK
<1> DEFINE old == View(c)
           new == FromDocument(testCases'[c])
<1>2. /\ StageOf(c) = IF testCases[c] = None THEN IF c \in issued THEN "gone" ELSE "absent"
                      ELSE IF IsPublished(old) THEN old.visibility
                      ELSE IF old.visibility = "private" THEN "draft" ELSE "public draft"
      /\ TypeOf(c) = IF testCases[c] = None THEN None ELSE old.testType
  BY DEF StageOf, TypeOf, Exists
<1>3. /\ StageOf(c)' = IF testCases'[c] = None THEN IF c \in issued' THEN "gone" ELSE "absent"
                       ELSE IF IsPublished(new) THEN new.visibility
                       ELSE IF new.visibility = "private" THEN "draft" ELSE "public draft"
      /\ TypeOf(c)' = IF testCases'[c] = None THEN None ELSE new.testType
  BY DEF StageOf, TypeOf, Exists, View
<1>4. ASSUME testCases[c] # None
      PROVE  /\ IsDraft(old) => old.visibility = "private"
             /\ old.testType \in TestTypes
             /\ old.visibility \in {"public", "private"}
             /\ IsDraft(old) \/ IsPublished(old)
             /\ ~(IsDraft(old) /\ IsPublished(old))
  <2>1. IsDraft(old) => old.visibility = "private"
    BY <1>1, <1>4 DEF LifeInv, DraftIsPrivate, Exists
  <2>2. testCases[c] \in Document
    BY <1>1, <1>4
  <2>3. QED
    BY <2>1, <2>2, ViewFacts DEF View
<1>5. ASSUME testCases'[c] # None
      PROVE  /\ IsDraft(new) => new.visibility = "private"
             /\ new.testType \in TestTypes
             /\ new.visibility \in {"public", "private"}
             /\ IsDraft(new) \/ IsPublished(new)
             /\ ~(IsDraft(new) /\ IsPublished(new))
  <2>1. IsDraft(new) => new.visibility = "private"
    BY <1>5 DEF LifeInv, DraftIsPrivate, Exists, View
  <2>2. testCases'[c] \in Document
    BY <1>5 DEF LifeInv, AccessInv, TypeInv, TypeOK
  <2>3. QED
    BY <2>1, <2>2, ViewFacts
<1> HIDE DEF old, new
<1>6. ASSUME NEW p \in Principals, NEW label \in Labels, NEW t \in TestTypes \cup {""},
             CreateMetadata(p, c, label, t)
      PROVE  Moves
  <2>1. c \notin issued /\ testCases'[c] = NewTestCase(label, t, p.userID)
    BY <1>1, <1>6 DEF CreateMetadata
  <2>2. testCases[c] = None
    BY <1>1, <2>1 DEF LifeInv, AccessInv, Exists
  <2>3. testCases'[c] # None /\ IsDraft(new)
    <3>1. testCases'[c] \in TestCase /\ testCases'[c].status = "draft"
      <4>1. p.userID \in Users \cup {NoUser}
        BY PrincipalsAssumption DEF Principal
      <4>2. QED
        <5>1. testCases'[c] \in TestCase
          BY <2>1, <4>1, NewTestCaseType
        <5>2. NewTestCase(label, t, p.userID).status = "draft"
          BY DEF NewTestCase
        <5>3. QED
          BY <2>1, <5>1, <5>2
    <3>2. testCases'[c] \in Document
      BY <3>1, TestCaseIsDocument
    <3>3. QED
      BY <3>1, <3>2, NoneIsNoDocument DEF new, FromDocument, Document, IsDraft, Statuses
  <2>4. QED
    BY <1>2, <1>3, <1>5, <2>1, <2>2, <2>3
<1>7. ASSUME NEW r \in Requests, requests[r].case = c, Exists(c),
             PublishWrite(r) \/ UpdateWrite(r) \/ PutLink(r) \/ DeleteCase(r)
      PROVE  Moves
  <2> DEFINE req == requests[r]
  <2>1. /\ c \in issued /\ UNCHANGED issued /\ testCases[c] # None
        /\ WellFormed(req)
    BY <1>1, <1>7 DEF AccessInv, TypeInv, Exists, PublishWrite, UpdateWrite, PutLink, DeleteCase,
                      history
  <2>2. CASE DeleteCase(r)
    <3>1. testCases'[c] = None
      BY <1>1, <1>7, <2>2 DEF DeleteCase
    <3>2. QED
      BY <1>2, <1>3, <1>4, <2>1, <3>1
  <2>3. ASSUME PublishWrite(r) \/ UpdateWrite(r) \/ PutLink(r)
        PROVE  /\ testCases'[c] # None
               /\ req.seen.status = old.status
               /\ IsPublished(old) => IsPublished(new) /\ new.testType = old.testType
    <3>1. testCases'[c] # None
      BY <1>1, <1>7, <2>3, DocumentWritten, NoneIsNoDocument
    <3>2. req.seen.status = old.status
      BY <1>7, <2>3 DEF old, View, Exists, PublishWrite, UpdateWrite, PutLink, NoteRace, Stale
    <3>3. QED
      BY <1>7, <3>1, <3>2, UnracedWrite DEF old, new
  <2>4. CASE PublishWrite(r)
    <3>1. IsDraft(old)
      BY <2>1, <2>3, <2>4 DEF WellFormed, PublishWrite, At, IsDraft
    <3>2. IsPublished(new) /\ new.testType = old.testType
      <4>1. req.visibility \in Visibilities
        BY <2>1, <2>4 DEF PublishWrite, At, WellFormed
      <4>2. testCases'[c] = [testCases[c] EXCEPT !.status = "published", !.visibility = req.visibility]
        BY <1>1, <1>7, <2>4 DEF PublishWrite, UpdateOne, Exists
      <4>3. new = [old EXCEPT !.status = "published", !.visibility = req.visibility]
        BY <1>1, <2>1, <4>1, <4>2, PublishedType DEF new, old, View
      <4>4. old \in TestCase
        BY <1>1, <2>1, ViewType DEF old, View
      <4>5. QED
        BY <4>3, <4>4 DEF TestCase, IsPublished
    <3>3. QED
      BY <1>2, <1>3, <1>4, <1>5, <2>1, <2>3, <2>4, <3>1, <3>2
  <2>5. CASE UpdateWrite(r)
    <3>1. new.status = old.status
      BY <1>1, <1>7, <2>5, WrittenCase DEF new, old
    <3>2. IsDraft(new) <=> IsDraft(old)
      BY <3>1 DEF IsDraft
    <3>3. QED
      BY <1>2, <1>3, <1>4, <1>5, <2>1, <2>3, <2>5, <3>1, <3>2
  <2>6. CASE PutLink(r)
    <3>1. new.status = old.status
      BY <1>1, <1>7, <2>3, <2>6, WrittenCase DEF new, old
    <3>2. IsDraft(new) <=> IsDraft(old)
      BY <3>1 DEF IsDraft
    <3>3. QED
      BY <1>2, <1>3, <1>4, <1>5, <2>1, <2>3, <2>6, <3>1, <3>2
  <2>7. QED
    BY <1>7, <2>2, <2>4, <2>5, <2>6
<1>8. QED
  BY <1>1, <1>6, <1>7, CaseWriter

LEMMA LifecycleInit == Init => Lifecycle!Init
<1> SUFFICES ASSUME Init PROVE Lifecycle!Init
  OBVIOUS
<1>1. SerialInv
  BY SerialInit
<1>2. ASSUME NEW c \in Cases
      PROVE  \/ StageOf(c) = "absent" /\ TypeOf(c) = None
             \/ StageOf(c) = "private" /\ TypeOf(c) \in TestTypes
  <2>1. CASE testCases[c] = None
    BY <2>1 DEF Init, StageOf, TypeOf, Exists
  <2>2. CASE testCases[c] # None
    <3>1. PICK label \in Labels, t \in TestTypes : testCases[c] = LegacyDocument(label, t)
      BY <2>2 DEF Init
    <3>2. /\ testCases[c] \in Document
          /\ testCases[c].status = "missing" /\ testCases[c].visibility = "missing"
      BY <1>1, <2>2, <3>1
         DEF LegacyDocument, NewTestCase, SerialInv, LifeInv, AccessInv, TypeInv, TypeOK
    <3>3. View(c).status = "published" /\ View(c).visibility = "private"
      BY <3>2 DEF View, FromDocument, Document, Statuses, Visibilities
    <3>4. View(c).testType \in TestTypes
      BY <3>2, FromDocumentType DEF View, TestCase
    <3>5. QED
      BY <2>2, <3>3, <3>4 DEF StageOf, TypeOf, Exists, IsPublished
  <2>3. QED
    BY <2>1, <2>2
<1>3. /\ [c \in Cases |-> StageOf(c)] \in [Cases -> {"absent", "private"}]
      /\ [c \in Cases |-> TypeOf(c)] \in [Cases -> TestTypes \cup {None}]
      /\ \A c \in Cases : StageOf(c) = "absent" <=> TypeOf(c) = None
  BY <1>2, NoneAssumption
<1>4. QED
  BY <1>3 DEF Lifecycle!Init, TypeOf

LEMMA LifecycleStep ==
    LifeInv /\ LifeInv' /\ [AnyStep]_vars /\ raced' = {} => [Lifecycle!Next]_(Lifecycle!vars)
<1> SUFFICES ASSUME LifeInv, LifeInv', [AnyStep]_vars, raced' = {}
             PROVE  Lifecycle!Next \/ UNCHANGED Lifecycle!vars
  OBVIOUS
<1>1. CASE \E c \in Cases : testCases'[c] # testCases[c]
  <2>1. PICK c \in Cases : testCases'[c] # testCases[c]
    BY <1>1
  <2>2. \A d \in Cases \ {c} : StageOf(d)' = StageOf(d) /\ TypeOf(d)' = TypeOf(d)
    BY <2>1, OtherStages DEF LifeInv, AccessInv
  <2>3. QED
    BY <2>1, <2>2, CaseMoves, OneCaseMoves
<1>2. CASE \A c \in Cases : testCases'[c] = testCases[c]
  <2>1. UNCHANGED issued
    <3>1. ASSUME NEW p \in Principals, NEW c \in Cases, NEW label \in Labels,
                 NEW t \in TestTypes \cup {""}, CreateMetadata(p, c, label, t)
          PROVE  FALSE
      <4>1. p.userID \in Users \cup {NoUser}
        BY PrincipalsAssumption DEF Principal
      <4>2. testCases[c] = None
        BY <3>1 DEF CreateMetadata, LifeInv, AccessInv, Exists
      <4>3. testCases'[c] = NewTestCase(label, t, p.userID)
        BY <3>1 DEF CreateMetadata, LifeInv, AccessInv, TypeInv, TypeOK
      <4>4. testCases'[c] \in Document
        BY <4>1, <4>3, NewTestCaseType, TestCaseIsDocument
      <4>5. QED
        BY <1>2, <4>2, <4>4, NoneIsNoDocument
    <3>2. ASSUME NEW r \in Requests, Arrive(r) \/ Serve(r) \/ Abort(r)
          PROVE  UNCHANGED issued
      BY <3>2, IssuedKept
    <3>3. QED
      BY <3>1, <3>2 DEF AnyStep, Create, vars
  <2>2. \A c \in Cases : StageOf(c)' = StageOf(c) /\ TypeOf(c)' = TypeOf(c)
    BY <1>2, <2>1 DEF StageOf, TypeOf, Exists, View
  <2>3. QED
    BY <2>2 DEF Lifecycle!vars, TypeOf
<1>3. QED
  BY <1>1, <1>2

\* As long as no request writes a case on a publication state that has changed
\* since it read it, the service keeps its promise about the life of a case:
\* created as a private draft, published once, retyped only as a draft, shown or
\* hidden only once published, and never back after its deletion, with any
\* number of requests for the same case at once and whatever fails in between.
THEOREM UnracedImplementLifecycle == Spec /\ [](raced = {}) => ImplementsLifecycle
<1>1. Init => Lifecycle!Init
  BY LifecycleInit
<1>2. LifeInv /\ LifeInv' /\ [AnyStep]_vars /\ (raced = {})' => [Lifecycle!Next]_(Lifecycle!vars)
  BY LifecycleStep
<1>3. QED
  BY <1>1, <1>2, LifeInit, LifeStep, NextIsAnyStep, PTL
     DEF Spec, ImplementsLifecycle, Lifecycle!Spec

\* Requests that do not overlap on a case never race.
THEOREM RequestsImplementLifecycle == Spec /\ []NoOverlap => ImplementsLifecycle
<1>1. SerialInv => raced = {}
  BY DEF SerialInv
<1>2. QED
  BY <1>1, SerialHolds, UnracedImplementLifecycle, PTL

\* In particular with one request at a time, the way the runs check it.
THEOREM OneRequestAtATime ==
    ASSUME \A q, r \in Requests : q = r
    PROVE  Spec => []ArtifactsBelongToCases /\ ImplementsLifecycle
<1>1. NoOverlap
  BY DEF NoOverlap
<1>2. QED
  BY <1>1, RecordsGoWithTheirCase, RequestsImplementLifecycle, PTL

-----------------------------------------------------------------------------
\* How much a request has still to do.

\* The store calls a request makes from a step on.  How many a deletion makes is
\* known once it has listed the artifacts: two for each, and the last for the
\* case.
CallsLeft(req) ==
    CASE req.at \in {"put:authorize", "drop:authorize"} -> 5
      [] req.at \in {"put:load", "drop:find"} -> 4
      [] req.at \in {"put:store", "drop:guard"} -> 3
      [] req.at \in {"put:meta", "drop:object"} -> 2
      [] req.at \in {"put:link", "drop:meta", "publish", "update", "delete:case"} -> 1
      [] req.at = "delete:object" -> 2 * Cardinality(req.pending) + 1
      [] req.at = "delete:meta" -> 2 * Cardinality(req.pending)
      [] OTHER -> 0

CaseRecords(c) == {n \in Names : artifacts[c][n] # None}

\* A case has finitely many records at a time, a deletion so many artifacts to
\* remove, and the one it is removing is among them.
WorkInv ==
    /\ TypeInv
    /\ \A c \in Cases : IsFiniteSet(CaseRecords(c))
    /\ \A r \in Requests : /\ IsFiniteSet(requests[r].pending)
                           /\ At(r, "delete:meta") => requests[r].name \in requests[r].pending

\* How a step changes what is pending.
LEMMA PendingStep ==
    ASSUME TypeInv, NEW r \in Requests, Serve(r)
    PROVE  LET old == requests[r]
               new == requests'[r]
           IN  \/ new = Idle
               \/ PutAuthorize(r) /\ new.at = "put:load" /\ new.pending = old.pending
               \/ PutLoad(r) /\ new.at = "put:store" /\ new.pending = old.pending
               \/ PutStore(r) /\ new.at = "put:meta" /\ new.pending = old.pending
               \/ PutMeta(r) /\ new.at = "put:link" /\ new.pending = old.pending
               \/ DropAuthorize(r) /\ new.at = "drop:find" /\ new.pending = old.pending
               \/ DropFind(r) /\ new.at \in {"drop:guard", "drop:object"}
                              /\ new.pending = old.pending
               \/ DropGuard(r) /\ new.at = "drop:object" /\ new.pending = old.pending
               \/ DropObject(r) /\ new.at = "drop:meta" /\ new.pending = old.pending
               \/ DeleteObject(r) /\ new.at = "delete:meta" /\ new.pending = old.pending
                                  /\ new.name \in new.pending
               \/ \E rest : /\ \/ DeleteList(r) /\ rest = CaseRecords(old.case)
                               \/ DeleteMeta(r) /\ rest = old.pending \ {old.name}
                            /\ new.at = IF rest = {} THEN "delete:case" ELSE "delete:object"
                            /\ new.pending = rest
<1> DEFINE old == requests[r]
           new == requests'[r]
<1>1. requests \in [Requests -> Request] /\ old \in Request
  BY DEF TypeInv, TypeOK
<1>2. Finish(r) => new = Idle
  BY <1>1 DEF Finish
<1>3. ASSUME NEW step, Advance(r, step)
      PROVE  new.at = step /\ new.pending = old.pending
  BY <1>1, <1>3 DEF Advance, Request
<1>4. CASE PublishWrite(r) \/ UpdateWrite(r) \/ PutLink(r) \/ DropMeta(r) \/ DeleteCase(r)
  BY <1>2, <1>4 DEF PublishWrite, UpdateWrite, PutLink, DropMeta, DeleteCase
<1>5. CASE PutAuthorize(r)
  BY <1>2, <1>3, <1>5 DEF PutAuthorize, CheckOwnership
<1>6. CASE PutLoad(r)
  <2>1. Finish(r) \/ requests' = [requests EXCEPT ![r].at = "put:store",
                                                  ![r].seen = FromDocument(testCases[old.case])]
    BY <1>6 DEF PutLoad
  <2>2. CASE requests' = [requests EXCEPT ![r].at = "put:store",
                                          ![r].seen = FromDocument(testCases[old.case])]
    <3> PICK seen : seen = FromDocument(testCases[old.case])
      OBVIOUS
    <3>1. new = [old EXCEPT !.at = "put:store", !.seen = seen]
      BY <1>1, <2>2
    <3>2. new.at = "put:store" /\ new.pending = old.pending
      BY <1>1, <3>1 DEF Request
    <3>3. QED
      BY <1>6, <3>2
  <2>3. QED
    BY <1>2, <2>1, <2>2
<1>7. CASE PutStore(r)
  BY <1>3, <1>7 DEF PutStore
<1>8. CASE PutMeta(r)
  BY <1>2, <1>3, <1>8 DEF PutMeta
<1>9. CASE DropAuthorize(r)
  BY <1>2, <1>3, <1>9 DEF DropAuthorize, CheckOwnership
<1>10. CASE DropFind(r)
  <2>1. \/ Finish(r)
        \/ \E step \in {"drop:guard", "drop:object"} : Advance(r, step)
    BY <1>10 DEF DropFind
  <2>2. QED
    BY <1>2, <1>3, <1>10, <2>1
<1>11. CASE DropGuard(r)
  BY <1>2, <1>3, <1>11 DEF DropGuard
<1>12. CASE DropObject(r)
  BY <1>3, <1>12 DEF DropObject
<1>13. CASE DeleteObject(r)
  <2>1. PICK n \in old.pending :
          requests' = [requests EXCEPT ![r].at = "delete:meta", ![r].name = n]
    BY <1>13 DEF DeleteObject
  <2>2. new.at = "delete:meta" /\ new.name = n /\ new.pending = old.pending
    BY <1>1, <2>1 DEF Request
  <2>3. QED
    BY <1>13, <2>1, <2>2
<1>14. CASE DeleteList(r)
  <2>1. DeleteRest(r, CaseRecords(old.case))
    BY <1>14 DEF DeleteList, CaseRecords
  <2>2. QED
    BY <1>1, <1>14, <2>1, RestFields
<1>15. CASE DeleteMeta(r)
  <2>1. DeleteRest(r, old.pending \ {old.name})
    BY <1>15 DEF DeleteMeta
  <2>2. QED
    BY <1>1, <1>15, <2>1, RestFields
<1>16. QED
  BY <1>4, <1>5, <1>6, <1>7, <1>8, <1>9, <1>10, <1>11, <1>12, <1>13, <1>14, <1>15 DEF Serve

LEMMA WorkInit == Init => WorkInv
<1> SUFFICES ASSUME Init PROVE WorkInv
  OBVIOUS
<1>1. \A c \in Cases : CaseRecords(c) = {}
  BY DEF Init, CaseRecords
<1>2. \A r \in Requests : requests[r].pending = {} /\ ~At(r, "delete:meta")
  BY DEF Init, Idle, At
<1>3. QED
  BY <1>1, <1>2, TypeInit, FS_EmptySet DEF WorkInv

\* A step records one artifact more at most.
LEMMA RecordedStep ==
    ASSUME TypeInv, [AnyStep]_vars, NEW c \in Cases, IsFiniteSet(CaseRecords(c))
    PROVE  IsFiniteSet(CaseRecords(c)')
<1>1. artifacts \in [Cases -> [Names -> ArtifactMeta \cup {None}]]
  BY DEF TypeInv, TypeOK
<1>2. artifacts' = artifacts \/ \E d, m, meta : WriteMeta(d, m, meta)
  <2>1. CASE UNCHANGED vars
    BY <2>1 DEF vars
  <2>2. CASE Create
    BY <2>2 DEF Create, CreateMetadata
  <2>3. ASSUME NEW r \in Requests, Arrive(r) \/ Abort(r) PROVE artifacts' = artifacts
    BY <2>3 DEF Arrive, Abort, PublishReceive, UpdateReceive, PutReceive, DropReceive,
                DeleteReceive, stores
  <2>4. ASSUME NEW r \in Requests, Serve(r)
        PROVE  artifacts' = artifacts \/ \E d, m, meta : WriteMeta(d, m, meta)
    <3>1. CASE PutMeta(r) \/ DropMeta(r) \/ DeleteMeta(r)
      BY <3>1 DEF PutMeta, DropMeta, DeleteMeta
    <3>2. CASE ~(PutMeta(r) \/ DropMeta(r) \/ DeleteMeta(r))
      BY <2>4, <3>2 DEF Serve, PublishWrite, UpdateWrite, PutAuthorize, PutLoad, PutStore,
                PutLink, DropAuthorize, DropFind, DropGuard, DropObject, DeleteList,
                DeleteObject, DeleteCase, CheckOwnership, stores
    <3>3. QED
      BY <3>1, <3>2
  <2>5. QED
    BY <2>1, <2>2, <2>3, <2>4 DEF AnyStep
<1>3. CASE artifacts' = artifacts
  BY <1>3 DEF CaseRecords
<1>4. ASSUME NEW d, NEW m, NEW meta, WriteMeta(d, m, meta)
      PROVE  IsFiniteSet(CaseRecords(c)')
  <2>1. CaseRecords(c)' \subseteq CaseRecords(c) \cup {m}
    BY <1>1, <1>4 DEF WriteMeta, CaseRecords
  <2>2. IsFiniteSet(CaseRecords(c) \cup {m})
    BY FS_AddElement
  <2>3. QED
    BY <2>1, <2>2, FS_Subset
<1>5. QED
  BY <1>2, <1>3, <1>4

LEMMA WorkStep == WorkInv /\ [AnyStep]_vars => WorkInv'
<1> SUFFICES ASSUME WorkInv, [AnyStep]_vars PROVE WorkInv'
  OBVIOUS
<1> DEFINE Good(req) == /\ IsFiniteSet(req.pending)
                        /\ req.at = "delete:meta" => req.name \in req.pending
<1>1. TypeInv /\ TypeInv'
  BY TypeStep DEF WorkInv
<1>2. \A c \in Cases : IsFiniteSet(CaseRecords(c)')
  BY RecordedStep DEF WorkInv
<1>3. requests \in [Requests -> Request]
  BY DEF WorkInv, TypeInv, TypeOK
<1>4. \A r \in Requests : Good(requests[r])
  BY DEF WorkInv, At
<1>5. Good(Idle)
  BY FS_EmptySet DEF Idle
<1>6. ASSUME NEW r \in Requests, Arrive(r) \/ Serve(r) \/ Abort(r)
      PROVE  Good(requests'[r])
  <2>1. CASE Arrive(r)
    BY <1>1, <2>1, ReceivedStep, FS_EmptySet
  <2>2. CASE Abort(r)
    BY <1>3, <1>5, <2>2 DEF Abort, Finish
  <2>3. ASSUME NEW rest, \/ DeleteList(r) /\ rest = CaseRecords(requests[r].case)
                         \/ DeleteMeta(r) /\ rest = requests[r].pending \ {requests[r].name}
        PROVE  IsFiniteSet(rest)
    <3>1. DeleteList(r) => requests[r].case \in Cases
      BY <1>1 DEF DeleteList, At, TypeInv, WellFormed
    <3>2. IsFiniteSet(requests[r].pending)
      BY <1>4
    <3>3. IsFiniteSet(requests[r].pending \ {requests[r].name})
      BY <3>2, FS_RemoveElement
    <3>4. QED
      BY <2>3, <3>1, <3>3 DEF WorkInv
  <2>4. CASE Serve(r)
    BY <1>1, <1>4, <1>5, <2>3, <2>4, PendingStep
  <2>5. QED
    BY <1>6, <2>1, <2>2, <2>4
<1>7. ASSUME NEW s \in Requests PROVE Good(requests'[s])
  <2>1. CASE UNCHANGED vars \/ Create
    BY <1>4, <2>1 DEF vars, Create, CreateMetadata
  <2>2. ASSUME NEW r \in Requests, Arrive(r) \/ Serve(r) \/ Abort(r)
        PROVE  Good(requests'[s])
    BY <1>3, <1>4, <1>6, <2>2, OneRequestSteps
  <2>3. QED
    BY <2>1, <2>2 DEF AnyStep
<1>8. QED
  BY <1>1, <1>2, <1>7 DEF WorkInv, At

\* A request at work has a call left, which is all CallsLeft counts.
LEMMA CallsLeftType ==
    ASSUME NEW req \in Request, IsFiniteSet(req.pending),
           req.at = "delete:meta" => req.name \in req.pending
    PROVE  /\ CallsLeft(req) \in Nat
           /\ req.at \notin {"idle", "delete:list"} => CallsLeft(req) > 0
<1>1. Cardinality(req.pending) \in Nat
  BY FS_CardinalityType
<1>2. req.at = "delete:meta" => Cardinality(req.pending) # 0
  BY FS_EmptySet
<1>3. req.at \in Steps
  BY DEF Request
<1>4. CASE req.at \in {"delete:object", "delete:meta"}
  BY <1>1, <1>2, <1>4 DEF CallsLeft
<1>5. CASE req.at \notin {"delete:object", "delete:meta"}
  BY <1>3, <1>5 DEF CallsLeft, Steps, PutSteps, DropSteps, DeleteSteps
<1>6. QED
  BY <1>4, <1>5

\* The next call of a request leaves it fewer than before.
LEMMA ServedCalls ==
    ASSUME WorkInv, WorkInv', NEW r \in Requests, Serve(r), ~At(r, "delete:list")
    PROVE  CallsLeft(requests'[r]) < CallsLeft(requests[r])
<1> DEFINE old == requests[r]
           new == requests'[r]
<1>1. /\ old \in Request /\ new \in Request
      /\ IsFiniteSet(old.pending) /\ IsFiniteSet(new.pending)
      /\ old.at = "delete:meta" => old.name \in old.pending
      /\ new.at = "delete:meta" => new.name \in new.pending
  BY DEF WorkInv, TypeInv, TypeOK, At
<1>2. CallsLeft(old) \in Nat /\ CallsLeft(new) \in Nat
  BY <1>1, CallsLeftType
<1>3. Cardinality(old.pending) \in Nat
  BY <1>1, FS_CardinalityType
<1>4. CASE new = Idle
  <2>1. old.at # "idle"
    BY DEF Serve, PublishWrite, UpdateWrite, PutAuthorize, PutLoad, PutStore, PutMeta,
           PutLink, DropAuthorize, DropFind, DropGuard, DropObject, DropMeta, DeleteList,
           DeleteObject, DeleteMeta, DeleteCase, CheckOwnership, At
  <2>2. CallsLeft(old) > 0
    BY <1>1, <2>1, CallsLeftType DEF At
  <2>3. CallsLeft(new) = 0
    BY <1>4 DEF CallsLeft, Idle
  <2>4. QED
    BY <2>2, <2>3, <1>2
<1>5. CASE \/ PutAuthorize(r) /\ new.at = "put:load"
           \/ PutLoad(r) /\ new.at = "put:store"
           \/ PutStore(r) /\ new.at = "put:meta"
           \/ PutMeta(r) /\ new.at = "put:link"
           \/ DropAuthorize(r) /\ new.at = "drop:find"
           \/ DropFind(r) /\ new.at \in {"drop:guard", "drop:object"}
           \/ DropGuard(r) /\ new.at = "drop:object"
           \/ DropObject(r) /\ new.at = "drop:meta"
  BY <1>5 DEF PutAuthorize, PutLoad, PutStore, PutMeta, DropAuthorize, DropFind, DropGuard,
              DropObject, CheckOwnership, At, CallsLeft
<1>6. CASE DeleteObject(r) /\ new.at = "delete:meta" /\ new.pending = old.pending
  <2>1. old.at = "delete:object"
    BY <1>6 DEF DeleteObject, At
  <2>2. /\ CallsLeft(old) = 2 * Cardinality(old.pending) + 1
        /\ CallsLeft(new) = 2 * Cardinality(old.pending)
    BY <1>6, <2>1 DEF CallsLeft
  <2>3. QED
    BY <1>3, <2>2
<1>7. ASSUME DeleteMeta(r), NEW rest, rest = old.pending \ {old.name},
             new.at = IF rest = {} THEN "delete:case" ELSE "delete:object",
             new.pending = rest
      PROVE  CallsLeft(new) < CallsLeft(old)
  <2>1. old.at = "delete:meta" /\ old.name \in old.pending
    BY <1>1, <1>7 DEF DeleteMeta, At
  <2>2. /\ Cardinality(rest) = Cardinality(old.pending) - 1
        /\ Cardinality(rest) \in Nat
    BY <1>1, <1>7, <2>1, FS_RemoveElement, FS_CardinalityType
  <2>3. CallsLeft(old) = 2 * Cardinality(old.pending)
    BY <2>1 DEF CallsLeft
  <2>4. CallsLeft(new) = 2 * Cardinality(rest) + 1 \/ CallsLeft(new) = 1
    BY <1>7 DEF CallsLeft
  <2>5. QED
    BY <1>3, <2>2, <2>3, <2>4
<1>8. ~DeleteList(r)
  BY DEF DeleteList
<1>9. \/ new = Idle
      \/ \/ PutAuthorize(r) /\ new.at = "put:load"
         \/ PutLoad(r) /\ new.at = "put:store"
         \/ PutStore(r) /\ new.at = "put:meta"
         \/ PutMeta(r) /\ new.at = "put:link"
         \/ DropAuthorize(r) /\ new.at = "drop:find"
         \/ DropFind(r) /\ new.at \in {"drop:guard", "drop:object"}
         \/ DropGuard(r) /\ new.at = "drop:object"
         \/ DropObject(r) /\ new.at = "drop:meta"
      \/ DeleteObject(r) /\ new.at = "delete:meta" /\ new.pending = old.pending
      \/ \E rest : /\ DeleteMeta(r) /\ rest = old.pending \ {old.name}
                   /\ new.at = IF rest = {} THEN "delete:case" ELSE "delete:object"
                   /\ new.pending = rest
  BY <1>8, PendingStep DEF WorkInv
<1>10. QED
  BY <1>4, <1>5, <1>6, <1>7, <1>9

\* A request never works in circles: every call it makes, whatever other requests
\* do in between, leaves it fewer calls than before, and once a deletion has
\* listed the artifacts the number it still makes is bounded however many
\* artifacts keep arriving.  With the fairness of FairSpec it ends.
THEOREM FewerCallsLeft ==
    Spec => [][\A r \in Requests :
                 /\ requests'[r] # requests[r]
                 /\ requests[r].at \notin {"idle", "delete:list"}
                 => /\ CallsLeft(requests'[r]) \in Nat
                    /\ CallsLeft(requests'[r]) < CallsLeft(requests[r])]_vars
<1>1. ASSUME WorkInv, WorkInv', [AnyStep]_vars, NEW r \in Requests,
             requests'[r] # requests[r], requests[r].at \notin {"idle", "delete:list"}
      PROVE  /\ CallsLeft(requests'[r]) \in Nat
             /\ CallsLeft(requests'[r]) < CallsLeft(requests[r])
  <2>1. requests \in [Requests -> Request] /\ requests'[r] \in Request
    BY <1>1 DEF WorkInv, TypeInv, TypeOK
  <2>2. /\ CallsLeft(requests'[r]) \in Nat
        /\ CallsLeft(requests[r]) \in Nat /\ CallsLeft(requests[r]) > 0
    BY <1>1, <2>1, CallsLeftType DEF WorkInv, At
  <2>3. Arrive(r) \/ Serve(r) \/ Abort(r)
    <3>1. ~UNCHANGED vars /\ ~Create
      BY <1>1 DEF vars, Create, CreateMetadata
    <3>2. PICK s \in Requests : Arrive(s) \/ Serve(s) \/ Abort(s)
      BY <1>1, <3>1 DEF AnyStep
    <3>3. s = r
      BY <1>1, <2>1, <3>2, OneRequestSteps
    <3>4. QED
      BY <3>2, <3>3
  <2>4. CASE Arrive(r)
    BY <1>1, <2>4 DEF Arrive, PublishReceive, UpdateReceive, PutReceive, DropReceive,
                      DeleteReceive, Accept, At
  <2>5. CASE Abort(r)
    <3>1. requests'[r] = Idle
      BY <2>1, <2>5 DEF Abort, Finish
    <3>2. CallsLeft(requests'[r]) = 0
      BY <3>1 DEF CallsLeft, Idle
    <3>3. QED
      BY <2>2, <3>2
  <2>6. CASE Serve(r)
    BY <1>1, <2>2, <2>6, ServedCalls DEF At
  <2>7. QED
    BY <2>3, <2>4, <2>5, <2>6
<1> DEFINE Fewer == \A r \in Requests :
                      /\ requests'[r] # requests[r]
                      /\ requests[r].at \notin {"idle", "delete:list"}
                      => /\ CallsLeft(requests'[r]) \in Nat
                         /\ CallsLeft(requests'[r]) < CallsLeft(requests[r])
<1>2. WorkInv /\ WorkInv' /\ [AnyStep]_vars => Fewer
  BY <1>1
<1> HIDE DEF Fewer
<1>3. Spec => [][Fewer]_vars
  BY <1>2, WorkInit, WorkStep, NextIsAnyStep, PTL DEF Spec
<1>4. QED
  BY <1>3 DEF Fewer
=============================================================================
