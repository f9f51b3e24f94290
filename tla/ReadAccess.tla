------------------------------ MODULE ReadAccess ------------------------------
(***************************************************************************)
(* The read endpoints beside the writing ones of TestCaseApi: the case     *)
(* list, GET of a case, the list of its artifacts and GET of an artifact.  *)
(*                                                                         *)
(* A read checks the visibility of the case with one store call and        *)
(* fetches what it answers with others, so that requests that write run in *)
(* between.  GET of a case and the case list are a single call: the answer *)
(* is a function of the collection (Readable, Listed).                     *)
(*                                                                         *)
(* A reader is a client with one request at a time.  It may read a case    *)
(* first and then follow one of its references to an artifact.             *)
(*                                                                         *)
(* Left out: paging and its order, and the display names of owners.        *)
(***************************************************************************)
EXTENDS TestCaseApi

CONSTANTS
    Readers,          \* clients that read
    ReaderPrincipals  \* who they are

ASSUME ReaderPrincipalsAssumption == ReaderPrincipals \subseteq Principal

VARIABLES
    reads,    \* [Readers -> Read], the request of each reader and its answer
    removed   \* history: artifacts whose record was removed and not written since

readVars == <<vars, reads, removed>>

-----------------------------------------------------------------------------
\* What a caller may read.

\* CanRead of the service and checkParentReadable of the artifact handler.
CanRead(tc, p) ==
    \/ p.isAdmin
    \/ IsPubliclyReadable(tc)
    \/ tc.owner # NoUser /\ p.userID # NoUser /\ tc.owner = p.userID

\* GET of a case answers with it (404 otherwise).
Readable(c, p) == testCases[c] # None /\ CanRead(FromDocument(testCases[c]), p)

-----------------------------------------------------------------------------
\* GET /testcases: a filter on the documents as they are stored.

Selectors == {"all", "mine", "drafts", "public", "private"}

StoredAs(doc, status, visibility) == doc.status = status /\ doc.visibility = visibility

\* "Anonymous mine returns nothing".
OwnedByCaller(doc, p) == p.userID # NoUser /\ doc.owner = p.userID

\* Fault: the selector drafts is not restricted to the caller's own.
SelectedAllDrafts(doc, selector, p) ==
    CASE selector = "mine" -> OwnedByCaller(doc, p)
      [] selector = "drafts" -> doc.status = "draft"
      [] selector = "public" -> StoredAs(doc, "published", "public")
      [] selector = "private" ->
            StoredAs(doc, "published", "private") /\ (p.isAdmin \/ OwnedByCaller(doc, p))
      [] OTHER -> p.isAdmin \/ StoredAs(doc, "published", "public") \/ OwnedByCaller(doc, p)

Selected(doc, selector, p) ==
    CASE selector = "mine" -> OwnedByCaller(doc, p)
      [] selector = "drafts" -> doc.status = "draft" /\ (p.isAdmin \/ OwnedByCaller(doc, p))
      [] selector = "public" -> StoredAs(doc, "published", "public")
      [] selector = "private" ->
            StoredAs(doc, "published", "private") /\ (p.isAdmin \/ OwnedByCaller(doc, p))
      [] OTHER -> p.isAdmin \/ StoredAs(doc, "published", "public") \/ OwnedByCaller(doc, p)

\* The search text, None if there is none, is found in the id or the name.
Found(c, search) == search = None \/ search \in {c, testCases[c].name}

Listed(selector, search, p) ==
    {c \in Cases : testCases[c] # None /\ Selected(testCases[c], selector, p) /\ Found(c, search)}

-----------------------------------------------------------------------------
\* Readers.

Read ==
    [at : {"idle", "case", "list:check", "list:records", "get:check", "get:record",
           "get:object", "listed", "served", "missing"},
     caller : ReaderPrincipals \cup {None},
     case : Cases \cup {None},
     name : Names \cup {None},
     record : ArtifactMeta \cup {None},  \* the record GetArtifact found
     content : Payload \cup {None},      \* the content it answered with
     \* History:
     followed : BOOLEAN,   \* the reader took the name from a reference of the case
     permitted : BOOLEAN,  \* it could have read the case at some moment of its request
     hidden : BOOLEAN,     \* it could not, at some moment since it began
     disturbed : BOOLEAN]  \* the artifact was torn, removed or half written meanwhile

NoRead == [at |-> "idle", caller |-> None, case |-> None, name |-> None,
           record |-> None, content |-> None,
           followed |-> FALSE, permitted |-> FALSE, hidden |-> FALSE, disturbed |-> FALSE]

\* Artifacts whose record and content need not be there or agree.
Unsettled(c, n) ==
    \/ <<c, n>> \in torn \cup removed
    \/ \E r \in Requests : Halfway(r, c, n)

\* What readers may read, and what they must not rely on, at one moment.
ReadableNow == {key \in Cases \X ReaderPrincipals : Readable(key[1], key[2])}
UnsettledNow == {key \in Cases \X Names : Unsettled(key[1], key[2])}

\* What the history fields of a read note of a moment.
Watched(read, readable, unsettled) ==
    IF read.at \in {"idle", "listed", "served", "missing"} THEN read
    ELSE LET permitted == <<read.case, read.caller>> \in readable
         IN  [read EXCEPT !.permitted = @ \/ permitted,
                          !.hidden = @ \/ ~permitted,
                          !.disturbed = @ \/ <<read.case, read.name>> \in unsettled]

Reads(g, step) == reads[g].at = step

Update(g, read) ==
    /\ reads' = [reads EXCEPT ![g] = read]
    /\ UNCHANGED <<vars, removed>>

Answer(g, status) == Update(g, [reads[g] EXCEPT !.at = status])

\* A request for the artifacts of a case, or for one of them.
Begin(g, p, c, n, step) ==
    Update(g, Watched([NoRead EXCEPT !.at = step, !.caller = p, !.case = c, !.name = n],
                      ReadableNow, UnsettledNow))

ListArtifacts(g, p, c) ==
    /\ Reads(g, "idle")
    /\ Begin(g, p, c, None, "list:check")

GetArtifact(g, p, c, n) ==
    /\ Reads(g, "idle")
    /\ Begin(g, p, c, n, "get:check")

\* The artifacts a case refers to.
References(tc) ==
    LET refs == {tc.environments[i] : i \in DOMAIN tc.environments}
                  \cup {tc.scripts[i] : i \in DOMAIN tc.scripts}
                  \cup ({tc.result} \ {None})
    IN  {ref.artifact : ref \in refs}

\* GET of a case that answers with it; the reader will follow one of its references.
GetCase(g, p, c, n) ==
    /\ Reads(g, "idle")
    /\ Readable(c, p)
    /\ n \in References(FromDocument(testCases[c]))
    /\ Begin(g, p, c, n, "case")

Follow(g) ==
    /\ Reads(g, "case")
    /\ Update(g, [reads[g] EXCEPT !.at = "get:check", !.followed = TRUE])

\* Fault: only the existence of the case is checked.
CheckExists(g, step, next) ==
    /\ Reads(g, step)
    /\ IF testCases[reads[g].case] # None THEN Answer(g, next) ELSE Answer(g, "missing")

\* checkParentReadable reads the case once.
CheckReadable(g, step, next) ==
    /\ Reads(g, step)
    /\ IF Readable(reads[g].case, reads[g].caller) THEN Answer(g, next) ELSE Answer(g, "missing")

\* The records of the case, one query.
ListRecords(g) ==
    /\ Reads(g, "list:records")
    /\ Answer(g, "listed")

\* Fault: a record that is not found is not noticed.
FindRecordUnchecked(g) ==
    /\ Reads(g, "get:record")
    /\ Update(g, [reads[g] EXCEPT !.at = "get:object",
                                 !.record = artifacts[reads[g].case][reads[g].name]])

FindRecord(g) ==
    /\ Reads(g, "get:record")
    /\ LET record == artifacts[reads[g].case][reads[g].name]
       IN  IF record = None THEN Answer(g, "missing")
           ELSE Update(g, [reads[g] EXCEPT !.at = "get:object", !.record = record])

\* A record without content answers 404.  The content type and length come from
\* the record.
GetObject(g) ==
    /\ Reads(g, "get:object")
    /\ LET content == objects[reads[g].case][reads[g].name]
       IN  IF content = None THEN Answer(g, "missing")
           ELSE Update(g, [reads[g] EXCEPT !.at = "served", !.content = content])

\* The client has the answer, hangs up, or a store call failed (500).
End(g) ==
    /\ ~Reads(g, "idle")
    /\ Update(g, NoRead)

ReadNext ==
    \E g \in Readers :
        \/ \E p \in ReaderPrincipals, c \in Cases :
              \/ ListArtifacts(g, p, c)
              \/ \E n \in Names : GetArtifact(g, p, c, n) \/ GetCase(g, p, c, n)
        \/ Follow(g)
        \/ CheckReadable(g, "list:check", "list:records") \/ ListRecords(g)
        \/ CheckReadable(g, "get:check", "get:record") \/ FindRecord(g) \/ GetObject(g)
        \/ End(g)

\* A step of TestCaseApi while the readers watch.
WriteNext ==
    /\ Next
    /\ removed' = {key \in Cases \X Names :
                      /\ artifacts'[key[1]][key[2]] = None
                      /\ key \in removed \/ artifacts[key[1]][key[2]] # None}
    /\ reads' = [g \in Readers |-> Watched(reads[g], ReadableNow', UnsettledNow')]

ReadInit ==
    /\ Init
    /\ reads = [g \in Readers |-> NoRead]
    /\ removed = {}

ReadSpec == ReadInit /\ [][WriteNext \/ ReadNext]_readVars

-----------------------------------------------------------------------------
\* Properties.

\* The readers hold what the handlers' types allow; an answer has a record, which
\* the handler dereferences, and content.
ReadTypeOK ==
    /\ reads \in [Readers -> Read]
    /\ \A g \in Readers :
          Reads(g, "served") => reads[g].record # None /\ reads[g].content # None
    /\ removed \in SUBSET (Cases \X Names)

\* "The repository must never return TestCases that the caller is not allowed to
\* see": the list filter, written on the stored fields, and GET, which decides on
\* the fields a read derives from them, agree for every caller and selector, on
\* every document the writing endpoints leave behind, old ones included.  The
\* selector all leaves nothing out that GET shows, but for documents without a
\* status.
ListsAgreeWithGet ==
    \A p \in Principals :
        /\ \A selector \in Selectors, search \in Labels \cup {None} :
              \A c \in Listed(selector, search, p) : Readable(c, p)
        /\ \A c \in Cases :
              Readable(c, p) /\ testCases[c].status # "missing" => c \in Listed("all", None, p)

\* However publish, PATCH and delete run between the calls of a read, no caller
\* is answered with artifacts of a case that it could not have read at any
\* moment of that request.
AnswersWerePermitted ==
    \A g \in Readers : reads[g].at \in {"listed", "served"} => reads[g].permitted

\* The record and the content of an answer, fetched one after the other, belong
\* together unless a writer was halfway through the artifact meanwhile or had
\* left it torn.
AnswersAreWhole ==
    \A g \in Readers :
        Reads(g, "served") /\ ~reads[g].disturbed
          => reads[g].record.digest = Sha256(reads[g].content)

\* A reader that follows a reference of the case it was shown finds the artifact,
\* unless someone removed it (the reference stays behind), a writer was halfway
\* through it or left it torn, or the case was hidden or deleted meanwhile.
ReferencesResolve ==
    \A g \in Readers :
        Reads(g, "missing") /\ reads[g].followed => reads[g].disturbed \/ reads[g].hidden
===============================================================================
