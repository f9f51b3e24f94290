---------------------------- MODULE ReadAccessProofs ----------------------------
(***************************************************************************)
(* Proofs about ReadAccess: what readers are shown while any number of     *)
(* requests of TestCaseApi write, and that list and GET agree.             *)
(***************************************************************************)
EXTENDS ReadAccess, TestCaseSafetyProofs

-----------------------------------------------------------------------------
\* The inductive invariant.

Checking == {"case", "list:check", "get:check"}
Fetching == {"list:records", "get:record", "get:object"}
Answered == {"listed", "served"}
OfArtifact == {"case", "get:check", "get:record", "get:object", "served"}

\* What holds of a read, if its caller may read the cases in readable, the
\* artifacts in unsettled cannot be relied on, and the records are records.
ReadOK(read, readable, unsettled, records) ==
    /\ read.at # "idle" => read.caller \in ReaderPrincipals /\ read.case \in Cases
    /\ read.at \in OfArtifact => read.name \in Names
    /\ read.at \in Checking /\ <<read.case, read.caller>> \in readable => read.permitted
    /\ read.at \in Fetching \cup Answered => read.permitted
    /\ read.at \in Checking \cup Fetching /\ ~read.disturbed
         => <<read.case, read.name>> \notin unsettled
    /\ read.at \in {"get:object", "served"} => read.record # None
    /\ read.at = "get:object" /\ ~read.disturbed
         => read.record = records[read.case][read.name]
    /\ read.at = "served" => read.content # None
    /\ read.at = "served" /\ ~read.disturbed => read.record.digest = Sha256(read.content)

ReadInv ==
    /\ ContentInv
    /\ reads \in [Readers -> Read]
    /\ removed \in SUBSET (Cases \X Names)
    /\ \A g \in Readers : ReadOK(reads[g], ReadableNow, UnsettledNow, artifacts)

-----------------------------------------------------------------------------
\* Writing steps.

\* Reads that are answered watch no more.
LEMMA WatchedIgnored ==
    ASSUME NEW read \in Read, NEW readable, NEW unsettled,
           read.at \notin Checking \cup Fetching
    PROVE  Watched(read, readable, unsettled) = read
  BY DEF Watched, Read, Checking, Fetching

\* What a moment that a read watches changes of it.
LEMMA WatchedMoment ==
    ASSUME NEW read \in Read, NEW readable, NEW unsettled,
           read.at \in Checking \cup Fetching
    PROVE  LET new == Watched(read, readable, unsettled)
           IN  /\ new \in Read
               /\ new.at = read.at /\ new.caller = read.caller /\ new.case = read.case
               /\ new.name = read.name /\ new.record = read.record
               /\ new.content = read.content /\ new.followed = read.followed
               /\ new.permitted <=> read.permitted \/ <<read.case, read.caller>> \in readable
               /\ new.hidden <=> read.hidden \/ <<read.case, read.caller>> \notin readable
               /\ new.disturbed <=> read.disturbed \/ <<read.case, read.name>> \in unsettled
<1>1. PICK permitted \in BOOLEAN :
         permitted <=> read.permitted \/ <<read.case, read.caller>> \in readable
  <2>1. CASE read.permitted \/ <<read.case, read.caller>> \in readable
    BY <2>1
  <2>2. CASE ~(read.permitted \/ <<read.case, read.caller>> \in readable)
    BY <2>2
  <2>3. QED
    BY <2>1, <2>2
<1>2. PICK hidden \in BOOLEAN :
         hidden <=> read.hidden \/ <<read.case, read.caller>> \notin readable
  <2>1. CASE read.hidden \/ <<read.case, read.caller>> \notin readable
    BY <2>1
  <2>2. CASE ~(read.hidden \/ <<read.case, read.caller>> \notin readable)
    BY <2>2
  <2>3. QED
    BY <2>1, <2>2
<1>3. PICK disturbed \in BOOLEAN :
         disturbed <=> read.disturbed \/ <<read.case, read.name>> \in unsettled
  <2>1. CASE read.disturbed \/ <<read.case, read.name>> \in unsettled
    BY <2>1
  <2>2. CASE ~(read.disturbed \/ <<read.case, read.name>> \in unsettled)
    BY <2>2
  <2>3. QED
    BY <2>1, <2>2
<1> DEFINE new == [read EXCEPT !.permitted = permitted,
                               !.hidden = hidden,
                               !.disturbed = disturbed]
<1>4. Watched(read, readable, unsettled) = new
  <2>1. permitted = (read.permitted \/ <<read.case, read.caller>> \in readable)
    BY <1>1
  <2>2. hidden = (read.hidden \/ ~(<<read.case, read.caller>> \in readable))
    BY <1>2
  <2>3. disturbed = (read.disturbed \/ <<read.case, read.name>> \in unsettled)
    BY <1>3
  <2>4. QED
    BY <2>1, <2>2, <2>3 DEF Watched, Checking, Fetching
<1>5. /\ new \in Read
      /\ new.at = read.at /\ new.caller = read.caller /\ new.case = read.case
      /\ new.name = read.name /\ new.record = read.record
      /\ new.content = read.content /\ new.followed = read.followed
      /\ new.permitted = permitted /\ new.hidden = hidden /\ new.disturbed = disturbed
  BY DEF Read
<1> HIDE DEF new
<1>6. QED
  BY <1>1, <1>2, <1>3, <1>4, <1>5

\* And what it leaves alone.
LEMMA WatchedFields ==
    ASSUME NEW read \in Read, NEW readable, NEW unsettled,
           read.at \in Checking \cup Fetching
    PROVE  LET new == Watched(read, readable, unsettled)
           IN  /\ new \in Read
               /\ new.at = read.at /\ new.caller = read.caller /\ new.case = read.case
               /\ new.name = read.name /\ new.record = read.record
               /\ new.content = read.content /\ new.followed = read.followed
<1> DEFINE new == Watched(read, readable, unsettled)
<1>1. new \in Read
  BY WatchedMoment
<1>2. /\ new.at = read.at /\ new.caller = read.caller /\ new.case = read.case
      /\ new.name = read.name /\ new.record = read.record
      /\ new.content = read.content /\ new.followed = read.followed
  BY DEF Watched, Read, Checking, Fetching
<1>3. QED
  BY <1>1, <1>2

\* What a moment that a read watches notes in it.
LEMMA WatchedHistory ==
    ASSUME NEW read \in Read, NEW readable, NEW unsettled,
           read.at \in Checking \cup Fetching
    PROVE  LET new == Watched(read, readable, unsettled)
           IN  /\ new.permitted <=> read.permitted \/ <<read.case, read.caller>> \in readable
               /\ new.hidden <=> read.hidden \/ <<read.case, read.caller>> \notin readable
               /\ new.disturbed <=> read.disturbed \/ <<read.case, read.name>> \in unsettled
  BY WatchedMoment

\* What a read may rely on outlives a moment it watches.
LEMMA WatchedOK ==
    ASSUME NEW read \in Read, NEW readable, NEW unsettled, NEW records,
           NEW readable2, NEW unsettled2, NEW records2,
           ReadOK(read, readable, unsettled, records),
           \A c \in Cases, n \in Names :
              <<c, n>> \notin unsettled => records2[c][n] = records[c][n]
    PROVE  /\ Watched(read, readable2, unsettled2) \in Read
           /\ ReadOK(Watched(read, readable2, unsettled2), readable2, unsettled2, records2)
<1> DEFINE new == Watched(read, readable2, unsettled2)
<1>1. CASE read.at \in Checking \cup Fetching
  <2>1. /\ new \in Read
        /\ new.at = read.at /\ new.caller = read.caller /\ new.case = read.case
        /\ new.name = read.name /\ new.record = read.record
        /\ new.permitted <=> read.permitted \/ <<read.case, read.caller>> \in readable2
        /\ new.disturbed <=> read.disturbed \/ <<read.case, read.name>> \in unsettled2
    BY <1>1, WatchedFields, WatchedHistory
  <2> HIDE DEF new
  <2>2. ReadOK(new, readable2, unsettled2, records2)
    BY <1>1, <2>1 DEF ReadOK, Checking, Fetching, OfArtifact, Answered
  <2>3. QED
    BY <2>1, <2>2 DEF new
<1>2. CASE read.at \notin Checking \cup Fetching
  <2>1. new = read
    BY <1>2, WatchedIgnored
  <2> HIDE DEF new
  <2>2. ReadOK(read, readable2, unsettled2, records2)
    BY <1>2 DEF ReadOK, Checking, Fetching, OfArtifact, Answered
  <2>3. QED
    BY <2>1, <2>2 DEF new
<1>3. QED
  BY <1>1, <1>2

\* The record of an artifact that is settled does not change.
LEMMA SettledRecords ==
    ASSUME ContentInv, AnyStep, NEW c \in Cases, NEW n \in Names, <<c, n>> \notin UnsettledNow
    PROVE  artifacts'[c][n] = artifacts[c][n]
<1>1. /\ TypeInv
      /\ artifacts \in [Cases -> [Names -> ArtifactMeta \cup {None}]]
  BY DEF ContentInv, TypeInv, TypeOK
<1>2. \A r \in Requests : ~Halfway(r, c, n)
  BY DEF UnsettledNow, Unsettled
<1>3. CASE artifacts'[c] = artifacts[c]
  BY <1>3
<1>4. CASE artifacts'[c] # artifacts[c]
  <2>1. PICK r \in Requests :
           /\ requests[r].case = c
           /\ \/ PutStore(r) \/ PutMeta(r) \/ DropObject(r) \/ DropMeta(r)
              \/ DeleteObject(r) \/ DeleteMeta(r)
    BY <1>1, <1>4, ContentWriter
  <2>2. PutMeta(r) \/ DropMeta(r) \/ DeleteMeta(r)
    BY <1>4, <2>1 DEF PutStore, DropObject, DeleteObject
  <2>3. requests[r].name # n
    BY <1>2, <2>1, <2>2 DEF PutMeta, DropMeta, DeleteMeta, At, Halfway
  <2>4. QED
    BY <1>1, <2>1, <2>2, <2>3 DEF PutMeta, DropMeta, DeleteMeta, WriteMeta
<1>5. QED
  BY <1>3, <1>4

LEMMA WriteStep == ReadInv /\ WriteNext => ReadInv'
<1> SUFFICES ASSUME ReadInv, WriteNext
             PROVE  ReadInv'
  OBVIOUS
<1>1. ContentInv /\ ContentInv'
  BY ContentStep, StepIsAnyStep DEF ReadInv, WriteNext
<1>2. removed' \in SUBSET (Cases \X Names)
  BY DEF WriteNext
<1>3. \A g \in Readers : reads'[g] = Watched(reads[g], ReadableNow', UnsettledNow')
  BY DEF WriteNext
<1>4. ASSUME NEW g \in Readers
      PROVE  /\ reads'[g] \in Read
             /\ ReadOK(reads'[g], ReadableNow', UnsettledNow', artifacts')
  <2>1. reads[g] \in Read /\ ReadOK(reads[g], ReadableNow, UnsettledNow, artifacts)
    BY DEF ReadInv
  <2>2. \A c \in Cases, n \in Names :
           <<c, n>> \notin UnsettledNow => artifacts'[c][n] = artifacts[c][n]
    BY <1>1, SettledRecords, StepIsAnyStep DEF WriteNext
  <2>3. PICK read, readable, unsettled, records :
           /\ read = reads[g] /\ records = artifacts
           /\ readable = ReadableNow /\ unsettled = UnsettledNow
    OBVIOUS
  <2>4. PICK readable2, unsettled2, records2 :
           /\ readable2 = ReadableNow' /\ unsettled2 = UnsettledNow'
           /\ records2 = artifacts'
    OBVIOUS
  <2>5. /\ Watched(read, readable2, unsettled2) \in Read
        /\ ReadOK(Watched(read, readable2, unsettled2), readable2, unsettled2, records2)
    <3>1. read \in Read /\ ReadOK(read, readable, unsettled, records)
      BY <2>1, <2>3
    <3>2. \A c \in Cases, n \in Names :
             <<c, n>> \notin unsettled => records2[c][n] = records[c][n]
      BY <2>2, <2>3, <2>4
    <3>3. QED
      BY <3>1, <3>2, WatchedOK
  <2>6. QED
    BY <1>3, <2>3, <2>4, <2>5
<1>5. reads' \in [Readers -> Read]
  BY <1>4 DEF WriteNext
<1>6. QED
  BY <1>1, <1>2, <1>4, <1>5 DEF ReadInv

-----------------------------------------------------------------------------
\* Reading steps.

LEMMA UpdateOK ==
    ASSUME ReadInv, NEW g \in Readers, NEW new \in Read, Update(g, new),
           ReadOK(new, ReadableNow, UnsettledNow, artifacts)
    PROVE  ReadInv'
<1>1. /\ reads \in [Readers -> Read]
      /\ reads' = [reads EXCEPT ![g] = new]
      /\ UNCHANGED <<vars, removed>>
  BY DEF ReadInv, Update
<1>2. ContentInv'
  BY <1>1, ContentStep DEF ReadInv
<1>3. ReadableNow' = ReadableNow /\ UnsettledNow' = UnsettledNow /\ artifacts' = artifacts
  BY <1>1 DEF ReadableNow, Readable, UnsettledNow, Unsettled, Halfway, vars
<1>4. \A h \in Readers : ReadOK(reads'[h], ReadableNow, UnsettledNow, artifacts)
  BY <1>1 DEF ReadInv
<1>5. \A h \in Readers : ReadOK(reads'[h], ReadableNow', UnsettledNow', artifacts')
  BY <1>3, <1>4
<1>6. reads' \in [Readers -> Read] /\ removed' \in SUBSET (Cases \X Names)
  BY <1>1 DEF ReadInv
<1>7. QED
  BY <1>2, <1>5, <1>6 DEF ReadInv

LEMMA BeginOK ==
    ASSUME ReadInv, NEW g \in Readers, NEW p \in ReaderPrincipals, NEW c \in Cases,
           NEW n \in Names \cup {None}, NEW step \in Checking,
           step \in OfArtifact => n \in Names,
           Begin(g, p, c, n, step)
    PROVE  ReadInv'
<1> DEFINE base == [NoRead EXCEPT !.at = step, !.caller = p, !.case = c, !.name = n]
<1>1. /\ base \in Read
      /\ base.at = step /\ base.caller = p /\ base.case = c /\ base.name = n
  BY DEF NoRead, Read, Checking
<1>2. PICK readable, unsettled, records :
         /\ readable = ReadableNow /\ unsettled = UnsettledNow /\ records = artifacts
  OBVIOUS
<1>3. Update(g, Watched(base, readable, unsettled))
  BY <1>2 DEF Begin
<1> HIDE DEF base
<1>4. ReadOK(base, {}, {}, records)
  BY <1>1 DEF ReadOK, Checking, Fetching, OfArtifact, Answered
<1>5. /\ Watched(base, readable, unsettled) \in Read
      /\ ReadOK(Watched(base, readable, unsettled), readable, unsettled, records)
  BY <1>1, <1>4, WatchedOK
<1>6. QED
  BY <1>2, <1>3, <1>5, UpdateOK

\* An answer, or the next call, that needs nothing new.
LEMMA AnswerOK ==
    ASSUME ReadInv, NEW g \in Readers, NEW step,
           \/ reads[g].at = "case" /\ step = "get:check"
           \/ reads[g].at # "idle" /\ step = "missing"
           \/ reads[g].at = "list:records" /\ step = "listed"
           \/ /\ reads[g].at = "list:check" /\ step = "list:records"
              /\ Readable(reads[g].case, reads[g].caller)
           \/ /\ reads[g].at = "get:check" /\ step = "get:record"
              /\ Readable(reads[g].case, reads[g].caller),
           NEW new, new \in {[reads[g] EXCEPT !.at = step],
                             [reads[g] EXCEPT !.at = step, !.followed = TRUE]},
           Update(g, new)
    PROVE  ReadInv'
<1>1. reads[g] \in Read /\ ReadOK(reads[g], ReadableNow, UnsettledNow, artifacts)
  BY DEF ReadInv
<1>2. step \in {"get:check", "missing", "listed", "list:records", "get:record"}
  OBVIOUS
<1>3. /\ new \in Read /\ new.at = step
      /\ new.caller = reads[g].caller /\ new.case = reads[g].case
      /\ new.name = reads[g].name /\ new.record = reads[g].record
      /\ new.permitted = reads[g].permitted /\ new.disturbed = reads[g].disturbed
  BY <1>1, <1>2 DEF Read
<1>4. ASSUME Readable(reads[g].case, reads[g].caller), reads[g].at \in Checking
      PROVE  reads[g].permitted
  <2>1. <<reads[g].case, reads[g].caller>> \in ReadableNow
    BY <1>1, <1>4 DEF ReadableNow, ReadOK, Checking
  <2>2. QED
    BY <1>1, <1>4, <2>1 DEF ReadOK
<1>5. ReadOK(new, ReadableNow, UnsettledNow, artifacts)
  BY <1>1, <1>2, <1>3, <1>4 DEF ReadOK, Checking, Fetching, OfArtifact, Answered
<1>6. QED
  BY <1>3, <1>5, UpdateOK

LEMMA ReadStep == ReadInv /\ ReadNext => ReadInv'
<1> SUFFICES ASSUME ReadInv, ReadNext
             PROVE  ReadInv'
  OBVIOUS
<1>1. PICK g \in Readers :
         \/ \E p \in ReaderPrincipals, c \in Cases :
               \/ ListArtifacts(g, p, c)
               \/ \E n \in Names : GetArtifact(g, p, c, n) \/ GetCase(g, p, c, n)
         \/ Follow(g)
         \/ CheckReadable(g, "list:check", "list:records") \/ ListRecords(g)
         \/ CheckReadable(g, "get:check", "get:record") \/ FindRecord(g) \/ GetObject(g)
         \/ End(g)
  BY DEF ReadNext
<1> DEFINE old == reads[g]
<1>2. old \in Read /\ ReadOK(old, ReadableNow, UnsettledNow, artifacts)
  BY DEF ReadInv
<1>3. CASE \E p \in ReaderPrincipals, c \in Cases :
               \/ ListArtifacts(g, p, c)
               \/ \E n \in Names : GetArtifact(g, p, c, n) \/ GetCase(g, p, c, n)
  BY <1>3, BeginOK DEF ListArtifacts, GetArtifact, GetCase, Checking, OfArtifact
<1>4. CASE Follow(g)
  BY <1>4, AnswerOK DEF Follow, Reads
<1>5. CASE CheckReadable(g, "list:check", "list:records")
  BY <1>5, AnswerOK DEF CheckReadable, Answer, Reads
<1>6. CASE CheckReadable(g, "get:check", "get:record")
  BY <1>6, AnswerOK DEF CheckReadable, Answer, Reads
<1>7. CASE ListRecords(g)
  BY <1>7, AnswerOK DEF ListRecords, Answer, Reads
<1>8. CASE FindRecord(g)
  <2> DEFINE record == artifacts[old.case][old.name]
             new == [old EXCEPT !.at = "get:object", !.record = record]
  <2>1. old.at = "get:record" /\ old.case \in Cases /\ old.name \in Names
    BY <1>2, <1>8 DEF FindRecord, Reads, ReadOK, OfArtifact
  <2>2. CASE record = None
    BY <1>8, <2>1, <2>2, AnswerOK DEF FindRecord, Answer
  <2>3. CASE record # None
    <3>1. record \in ArtifactMeta
      BY <2>1, <2>3 DEF ReadInv, ContentInv, TypeInv, TypeOK
    <3>2. /\ new \in Read /\ new.at = "get:object" /\ new.record = record
          /\ new.caller = old.caller /\ new.case = old.case /\ new.name = old.name
          /\ new.permitted = old.permitted /\ new.disturbed = old.disturbed
      BY <1>2, <3>1 DEF Read
    <3>3. Update(g, new)
      BY <1>8, <2>3 DEF FindRecord
    <3> HIDE DEF new
    <3>4. ReadOK(new, ReadableNow, UnsettledNow, artifacts)
      BY <1>2, <2>1, <2>3, <3>2 DEF ReadOK, Checking, Fetching, OfArtifact, Answered
    <3>5. QED
      BY <3>2, <3>3, <3>4, UpdateOK
  <2>4. QED
    BY <2>2, <2>3
<1>9. CASE GetObject(g)
  <2> DEFINE content == objects[old.case][old.name]
             new == [old EXCEPT !.at = "served", !.content = content]
  <2>1. old.at = "get:object" /\ old.case \in Cases /\ old.name \in Names
    BY <1>2, <1>9 DEF GetObject, Reads, ReadOK, OfArtifact
  <2>2. CASE content = None
    BY <1>9, <2>1, <2>2, AnswerOK DEF GetObject, Answer
  <2>3. CASE content # None
    <3>1. content \in Payload
      BY <2>1, <2>3 DEF ReadInv, ContentInv, TypeInv, TypeOK
    <3>2. /\ new \in Read /\ new.at = "served" /\ new.record = old.record
          /\ new.content = content
          /\ new.caller = old.caller /\ new.case = old.case /\ new.name = old.name
          /\ new.permitted = old.permitted /\ new.disturbed = old.disturbed
      BY <1>2, <3>1 DEF Read
    <3>3. Update(g, new)
      BY <1>9, <2>3 DEF GetObject
    <3>4. ~old.disturbed => old.record.digest = Sha256(content)
      <4>1. ~old.disturbed => /\ <<old.case, old.name>> \notin torn
                              /\ \A r \in Requests : ~Halfway(r, old.case, old.name)
                              /\ old.record = artifacts[old.case][old.name]
        BY <1>2, <2>1 DEF ReadOK, Fetching, UnsettledNow, Unsettled
      <4>2. ContentMatchesMetadata
        BY DEF ReadInv, ContentInv, Consistent, Matches, ContentMatchesMetadata
      <4>3. QED
        BY <2>1, <2>3, <4>1, <4>2 DEF ContentMatchesMetadata
    <3> HIDE DEF new, content
    <3>5. ReadOK(new, ReadableNow, UnsettledNow, artifacts)
      BY <1>2, <2>1, <2>3, <3>2, <3>4 DEF ReadOK, Checking, Fetching, OfArtifact, Answered
    <3>6. QED
      BY <3>2, <3>3, <3>5, UpdateOK
  <2>4. QED
    BY <2>2, <2>3
<1>10. CASE End(g)
  <2>1. NoRead \in Read /\ ReadOK(NoRead, ReadableNow, UnsettledNow, artifacts)
    BY DEF NoRead, Read, ReadOK, Checking, Fetching, OfArtifact, Answered
  <2>2. QED
    BY <1>10, <2>1, UpdateOK DEF End
<1>11. QED
  BY <1>1, <1>3, <1>4, <1>5, <1>6, <1>7, <1>8, <1>9, <1>10

LEMMA ReadStart == ReadInit => ReadInv
<1> SUFFICES ASSUME ReadInit
             PROVE  ReadInv
  OBVIOUS
<1>1. ContentInv
  BY ContentInit DEF ReadInit
<1>2. NoRead \in Read /\ ReadOK(NoRead, ReadableNow, UnsettledNow, artifacts)
  BY DEF NoRead, Read, ReadOK, Checking, Fetching, OfArtifact, Answered
<1>3. QED
  BY <1>1, <1>2 DEF ReadInit, ReadInv

LEMMA ReadStutter == ReadInv /\ UNCHANGED readVars => ReadInv'
<1> SUFFICES ASSUME ReadInv, UNCHANGED readVars
             PROVE  ReadInv'
  OBVIOUS
<1>1. ContentInv'
  BY ContentStep DEF ReadInv, readVars
<1>2. /\ ReadableNow' = ReadableNow /\ UnsettledNow' = UnsettledNow
      /\ artifacts' = artifacts /\ reads' = reads /\ removed' = removed
  BY DEF readVars, ReadableNow, Readable, UnsettledNow, Unsettled, Halfway, vars
<1>3. \A g \in Readers : ReadOK(reads'[g], ReadableNow', UnsettledNow', artifacts')
  BY <1>2 DEF ReadInv
<1>4. QED
  BY <1>1, <1>2, <1>3 DEF ReadInv

LEMMA ReadInvariant == ReadSpec => []ReadInv
  BY ReadStart, WriteStep, ReadStep, ReadStutter, PTL DEF ReadSpec

-----------------------------------------------------------------------------
\* References: a case only ever refers to artifacts that had a record once.

\* Artifacts that have a record, or had one that was removed.
Recorded == {key \in Cases \X Names : artifacts[key[1]][key[2]] # None \/ key \in removed}

RefsRecorded(c, tc, recorded) == \A n \in References(tc) : <<c, n>> \in recorded

\* A link write only adds the artifact whose record was written before it.
SeenRecorded(req, recorded) ==
    /\ req.at \in {"put:store", "put:meta", "put:link"} => RefsRecorded(req.case, req.seen, recorded)
    /\ req.at = "put:link" => <<req.case, req.name>> \in recorded

\* What holds of a read that may have followed a reference.
FollowOK(read, readable, recorded) ==
    /\ read.at \in Checking \cup Fetching /\ ~read.hidden
         => <<read.case, read.caller>> \in readable
    /\ read.at = "case" \/ (read.followed /\ read.at \in OfArtifact)
         => <<read.case, read.name>> \in recorded
    /\ read.followed => read.at \notin {"idle", "case", "list:check", "list:records", "listed"}
    /\ read.at = "missing" /\ read.followed => read.disturbed \/ read.hidden

RefInv ==
    /\ ReadInv
    /\ \A c \in Cases : Exists(c) => RefsRecorded(c, View(c), Recorded)
    /\ \A r \in Requests : SeenRecorded(requests[r], Recorded)
    /\ \A g \in Readers : FollowOK(reads[g], ReadableNow, Recorded)

LEMMA SameReferences ==
    ASSUME NEW tc, NEW other, tc.environments = other.environments,
           tc.scripts = other.scripts, tc.result = other.result
    PROVE  References(tc) = References(other)
  BY DEF References

LEMMA NoReferences ==
    ASSUME NEW tc, tc.environments = <<>>, tc.scripts = <<>>, tc.result = None
    PROVE  References(tc) = {}
<1>1. DOMAIN <<>> = {}
  OBVIOUS
<1>2. QED
  BY <1>1 DEF References

\* Linking adds no reference but the uploaded artifact's (linkArtifactToTestCase).
LEMMA LinkedReferences ==
    ASSUME NEW tc \in TestCase, NEW name \in Names, NEW meta \in ArtifactMeta,
           NEW payload \in Payload,
           IsLinked(meta.type),
           meta.type = "environment" => IsSnapshot(payload),
           RefsConsistent(tc)
    PROVE  References(Linked(tc, name, meta, payload)) \subseteq References(tc) \cup {name}
<1> DEFINE new == Linked(tc, name, meta, payload)
           ref == [artifact |-> name, digest |-> meta.digest]
           env == [scope |-> NormalizeEnvironmentScope(payload.scope),
                   artifact |-> name, digest |-> meta.digest]
<1>1. CASE meta.type = "environment"
  <2> DEFINE refs == UpsertRef(tc.environments, "scope", env)
  <2>1. env \in EnvironmentRef /\ env.artifact = name
    BY <1>1 DEF EnvironmentRef, ArtifactMeta, Payload, RawScopes, Scopes, IsSnapshot,
                NormalizeEnvironmentScope
  <2>2. new.environments = refs /\ new.scripts = tc.scripts /\ new.result = tc.result
    BY <1>1 DEF Linked, SetEnvironmentArtifact, TestCase
  <2>3. tc.environments \in Seq(EnvironmentRef) /\ UniqueBy(tc.environments, "scope")
    BY DEF TestCase, RefsConsistent
  <2> HIDE DEF new, env
  <2>4. \A i \in DOMAIN refs : refs[i] # env
            => i \in DOMAIN tc.environments /\ tc.environments[i] = refs[i]
    BY <2>1, <2>3, UpsertRefEntries
  <2> HIDE DEF refs
  <2>5. QED
    BY <2>1, <2>2, <2>4 DEF References, new
<1>2. CASE meta.type = "result"
  <2>1. /\ new.environments = tc.environments /\ new.scripts = tc.scripts
        /\ new.result = ref /\ ref.artifact = name
    BY <1>2 DEF Linked, SetTestResultArtifact, TestCase
  <2> HIDE DEF new, ref
  <2>2. QED
    BY <2>1 DEF References, new
<1>3. CASE meta.type = "script"
  <2> DEFINE refs == UpsertRef(tc.scripts, "artifact", ref)
  <2>1. ref \in ArtifactRef /\ ref.artifact = name
    BY DEF ArtifactRef, ArtifactMeta
  <2>2. new.environments = tc.environments /\ new.scripts = refs /\ new.result = tc.result
    BY <1>3 DEF Linked, UpsertTestScriptArtifact, TestCase
  <2>3. tc.scripts \in Seq(ArtifactRef) /\ UniqueBy(tc.scripts, "artifact")
    BY DEF TestCase, RefsConsistent
  <2> HIDE DEF new, ref
  <2>4. \A i \in DOMAIN refs : refs[i] # ref
            => i \in DOMAIN tc.scripts /\ tc.scripts[i] = refs[i]
    BY <2>1, <2>3, UpsertRefEntries
  <2> HIDE DEF refs
  <2>5. QED
    BY <2>1, <2>2, <2>4 DEF References, new
<1>4. QED
  BY <1>1, <1>2, <1>3 DEF IsLinked

\* The references of a case after each of its writers.
LEMMA WrittenReferences ==
    ASSUME TypeInv, NEW r \in Requests, NEW c \in Cases, requests[r].case = c, Exists(c)
    PROVE  LET new == References(FromDocument(testCases'[c]))
               req == requests[r]
           IN  /\ PublishWrite(r) \/ UpdateWrite(r) => new = References(View(c))
               /\ PutLink(r) => new \subseteq References(req.seen) \cup {req.name}
<1> DEFINE doc == testCases[c]
           req == requests[r]
<1>1. /\ req \in Request /\ WellFormed(req)
      /\ testCases \in [Cases -> Document \cup {None}]
  BY DEF TypeInv, TypeOK
<1>2. doc \in Document /\ View(c) = FromDocument(doc)
  BY ViewType DEF Exists, View
<1>3. ASSUME NEW d, UpdateOne(c, d)
      PROVE  testCases'[c] = d
  BY <1>1, <1>3 DEF UpdateOne, Exists
<1>4. ASSUME PublishWrite(r)
      PROVE  References(FromDocument(testCases'[c])) = References(View(c))
  <2> DEFINE new == [doc EXCEPT !.status = "published", !.visibility = req.visibility]
  <2>1. req.visibility \in Visibilities
    BY <1>1, <1>4 DEF PublishWrite, At, WellFormed
  <2>2. testCases'[c] = new
    BY <1>3, <1>4 DEF PublishWrite
  <2>3. new \in Document
    BY <1>2, <2>1, PublishedType
  <2>4. new.environments = doc.environments /\ new.scripts = doc.scripts /\ new.result = doc.result
    BY <1>2 DEF Document
  <2> HIDE DEF new, doc
  <2>5. ASSUME NEW d \in Document
        PROVE  References(FromDocument(d)) = References(d)
    BY FromDocumentFields, SameReferences
  <2>6. References(new) = References(doc)
    BY <2>4, SameReferences
  <2>7. QED
    BY <1>2, <2>2, <2>3, <2>5, <2>6
<1>5. ASSUME UpdateWrite(r)
      PROVE  References(FromDocument(testCases'[c])) = References(View(c))
  <2>1. req.patch \in Patches /\ req.seen \in TestCase /\ PatchAllowed(req.seen, req.patch)
    BY <1>1, <1>5 DEF UpdateWrite, At, WellFormed, Deciding
  <2>2. testCases'[c] = Patched(doc, req.patch)
    BY <1>3, <1>5 DEF UpdateWrite
  <2> HIDE DEF doc, req
  <2>3. QED
    BY <1>2, <2>1, <2>2, PatchedType, SameReferences
<1>6. ASSUME PutLink(r)
      PROVE  References(FromDocument(testCases'[c])) \subseteq References(req.seen) \cup {req.name}
  <2> DEFINE meta == MetaOf(req.upload)
             linked == Linked(req.seen, req.name, meta, req.upload.payload)
             new == LinkDocument(doc, req)
  <2>1. req.at = "put:link" /\ testCases'[c] = new
    BY <1>3, <1>6 DEF PutLink, At, LinkDocument
  <2>2. /\ req.seen \in TestCase /\ RefsConsistent(req.seen)
        /\ req.name \in Names
        /\ req.upload \in Upload
        /\ PutAllowed(req.seen, req.upload)
        /\ IsLinked(meta.type)
    BY <1>1, <2>1, UploadType DEF WellFormed, PutSteps, Deciding
  <2>3. /\ meta \in ArtifactMeta
        /\ req.upload.payload \in Payload
        /\ meta.type = "environment" => IsSnapshot(req.upload.payload)
    BY <2>2, UploadType DEF PutAllowed
  <2>4. FromDocument(new) = new
    BY <1>1, <1>2, <2>1, LinkType
  <2>5. new = [linked EXCEPT !.owner = doc.owner]
    BY DEF LinkDocument, WithUpdateFields
  <2> HIDE DEF meta
  <2>6. linked \in TestCase /\ References(linked) \subseteq References(req.seen) \cup {req.name}
    BY <2>2, <2>3, LinkedType, LinkedReferences
  <2> HIDE DEF linked, new
  <2>7. /\ new.environments = linked.environments /\ new.scripts = linked.scripts
        /\ new.result = linked.result
    BY <2>5, <2>6 DEF TestCase
  <2>8. QED
    BY <2>1, <2>4, <2>6, <2>7, SameReferences
<1>7. QED
  BY <1>4, <1>5, <1>6

\* Artifacts that were recorded stay so.
LEMMA RecordedGrows ==
    ASSUME WriteNext
    PROVE  Recorded \subseteq Recorded'
  BY DEF WriteNext, Recorded

\* The requests after a writing step.
LEMMA SeenStep ==
    ASSUME RefInv, WriteNext, NEW s \in Requests
    PROVE  SeenRecorded(requests'[s], Recorded')
<1> DEFINE old == requests[s]
           new == requests'[s]
           Links == {"put:store", "put:meta", "put:link"}
<1>1. /\ TypeInv /\ requests \in [Requests -> Request] /\ AnyStep
      /\ old \in Request /\ WellFormed(old)
  BY StepIsAnyStep DEF RefInv, ReadInv, ContentInv, TypeInv, TypeOK, WriteNext
<1>2. SeenRecorded(old, Recorded') /\ Recorded \subseteq Recorded'
  BY RecordedGrows DEF RefInv, SeenRecorded, RefsRecorded
<1>3. CASE new.at \notin Links
  BY <1>3 DEF SeenRecorded
<1>4. CASE new = old
  BY <1>2, <1>4
<1>5. CASE new.at \in Links /\ new # old
  <2>1. PICK r \in Requests : Arrive(r) \/ Serve(r) \/ Abort(r)
    BY <1>1, <1>5 DEF AnyStep, Create, CreateMetadata
  <2>2. r = s
    BY <1>1, <1>5, <2>1, OneRequestSteps
  <2>3. Serve(s)
    <3>1. CASE Arrive(s)
      BY <1>1, <1>5, <3>1, ReceivedStep
    <3>2. CASE Abort(s)
      BY <1>1, <1>5, <3>2 DEF Abort, Finish, Idle
    <3>3. QED
      BY <2>1, <2>2, <3>1, <3>2
  <2>4. ~Finish(s)
    BY <1>1, <1>5 DEF Finish, Idle
  <2>5. ASSUME NEW step, Advance(s, step)
        PROVE  /\ new.at = step /\ new.case = old.case /\ new.name = old.name
               /\ new.seen = old.seen
    BY <1>1, <2>5 DEF Advance, Request
  <2>6. CASE PutLoad(s)
    <3> DEFINE req == [old EXCEPT !.at = "put:store", !.seen = FromDocument(testCases[old.case])]
    <3>1. requests' = [requests EXCEPT ![s].at = "put:store",
                                       ![s].seen = FromDocument(testCases[old.case])]
      BY <2>4, <2>6 DEF PutLoad
    <3>2. new = req
      BY <1>1, <3>1
    <3>3. /\ req.at = "put:store" /\ req.case = old.case
          /\ req.seen = FromDocument(testCases[old.case])
      BY <1>1 DEF Request
    <3>4. old.case \in Cases /\ testCases[old.case] # None
      BY <1>1, <2>4, <2>6 DEF PutLoad, At, WellFormed
    <3>5. RefsRecorded(old.case, View(old.case), Recorded)
      BY <3>4 DEF RefInv, Exists
    <3> HIDE DEF req
    <3>6. QED
      BY <1>2, <3>2, <3>3, <3>5 DEF SeenRecorded, RefsRecorded, View
  <2>7. CASE PutStore(s)
    BY <1>2, <2>5, <2>7 DEF PutStore, At, SeenRecorded, RefsRecorded
  <2>8. CASE PutMeta(s)
    <3>1. old.at = "put:meta" /\ Advance(s, "put:link")
      BY <2>4, <2>8 DEF PutMeta, At
    <3>2. old.case \in Cases /\ old.name \in Names /\ old.upload \in Upload
      BY <1>1, <3>1 DEF WellFormed, PutSteps
    <3>3. artifacts'[old.case][old.name] # None
      <4>1. MetaOf(old.upload) # None
        BY <3>2, UploadType, NoneIsNoValue
      <4>2. artifacts \in [Cases -> [Names -> ArtifactMeta \cup {None}]]
        BY <1>1 DEF TypeInv, TypeOK
      <4>3. artifacts' = [artifacts EXCEPT ![old.case][old.name] = MetaOf(old.upload)]
        BY <2>8 DEF PutMeta, WriteMeta
      <4>4. QED
        BY <3>2, <4>1, <4>2, <4>3
    <3>4. <<old.case, old.name>> \in Recorded'
      BY <3>2, <3>3 DEF Recorded
    <3>5. QED
      BY <1>2, <2>5, <3>1, <3>4 DEF SeenRecorded, RefsRecorded
  <2>9. CASE \/ PutAuthorize(s) \/ DropAuthorize(s) \/ DropFind(s) \/ DropGuard(s)
             \/ DropObject(s)
    BY <1>5, <2>4, <2>5, <2>9 DEF PutAuthorize, DropAuthorize, DropFind, DropGuard, DropObject,
                                  CheckOwnership
  <2>10. CASE DeleteObject(s)
    <3>1. PICK n : requests' = [requests EXCEPT ![s].at = "delete:meta", ![s].name = n]
      BY <2>10 DEF DeleteObject
    <3>2. new.at = "delete:meta"
      BY <1>1, <3>1 DEF Request
    <3>3. QED
      BY <1>5, <3>2
  <2>11. CASE DeleteList(s) \/ DeleteMeta(s)
    <3>1. PICK rest : DeleteRest(s, rest)
      BY <2>11 DEF DeleteList, DeleteMeta
    <3>2. QED
      BY <1>1, <1>5, <3>1, RestStep
  <2>12. ~(PublishWrite(s) \/ UpdateWrite(s) \/ PutLink(s) \/ DropMeta(s) \/ DeleteCase(s))
    BY <2>4 DEF PublishWrite, UpdateWrite, PutLink, DropMeta, DeleteCase
  <2>13. QED
    BY <2>3, <2>6, <2>7, <2>8, <2>9, <2>10, <2>11, <2>12 DEF Serve
<1>6. QED
  BY <1>3, <1>4, <1>5

\* The cases after a writing step.
LEMMA CasesStep ==
    ASSUME RefInv, WriteNext, NEW c \in Cases, testCases'[c] # None
    PROVE  RefsRecorded(c, FromDocument(testCases'[c]), Recorded')
<1> DEFINE tc == FromDocument(testCases'[c])
<1>1. TypeInv /\ AnyStep /\ Recorded \subseteq Recorded'
  BY RecordedGrows, StepIsAnyStep DEF RefInv, ReadInv, ContentInv, WriteNext
<1>2. CASE testCases'[c] = testCases[c]
  BY <1>1, <1>2 DEF RefInv, Exists, View, RefsRecorded
<1>3. ASSUME NEW p \in Principals, NEW label \in Labels, NEW t \in TestTypes \cup {""},
             CreateMetadata(p, c, label, t)
      PROVE  References(tc) = {}
  <2> DEFINE doc == NewTestCase(label, t, p.userID)
  <2>1. testCases'[c] = doc
    BY <1>1, <1>3 DEF CreateMetadata, TypeInv, TypeOK
  <2>2. doc \in Document
    <3>1. p.userID \in Users \cup {NoUser}
      BY PrincipalsAssumption DEF Principal
    <3>2. QED
      BY <3>1, NewTestCaseType, TestCaseIsDocument
  <2>3. doc.environments = <<>> /\ doc.scripts = <<>> /\ doc.result = None
    BY DEF NewTestCase
  <2> HIDE DEF doc
  <2>4. QED
    BY <2>1, <2>2, <2>3, FromDocumentFields, NoReferences
<1>4. ASSUME NEW r \in Requests, requests[r].case = c, Exists(c),
             PublishWrite(r) \/ UpdateWrite(r) \/ PutLink(r)
      PROVE  RefsRecorded(c, tc, Recorded')
  <2>1. RefsRecorded(c, View(c), Recorded) /\ SeenRecorded(requests[r], Recorded)
    BY <1>4 DEF RefInv
  <2>2. CASE PublishWrite(r) \/ UpdateWrite(r)
    BY <1>1, <1>4, <2>1, <2>2, WrittenReferences DEF RefsRecorded
  <2>3. CASE PutLink(r)
    <3>1. requests[r].at = "put:link"
      BY <2>3 DEF PutLink, At
    <3>2. References(tc) \subseteq References(requests[r].seen) \cup {requests[r].name}
      BY <1>1, <1>4, <2>3, WrittenReferences
    <3>3. QED
      BY <1>1, <1>4, <2>1, <3>1, <3>2 DEF SeenRecorded, RefsRecorded
  <2>4. QED
    BY <1>4, <2>2, <2>3
<1>5. CASE testCases'[c] # testCases[c]
  <2>1. CASE \E p \in Principals, label \in Labels, t \in TestTypes \cup {""} :
                CreateMetadata(p, c, label, t)
    BY <1>3, <2>1 DEF RefsRecorded
  <2>2. CASE \E r \in Requests :
                /\ requests[r].case = c
                /\ Exists(c)
                /\ PublishWrite(r) \/ UpdateWrite(r) \/ PutLink(r) \/ DeleteCase(r)
    <3>1. PICK r \in Requests :
                /\ requests[r].case = c
                /\ Exists(c)
                /\ PublishWrite(r) \/ UpdateWrite(r) \/ PutLink(r) \/ DeleteCase(r)
      BY <2>2
    <3>2. ~DeleteCase(r)
      BY <1>1, <3>1 DEF DeleteCase, TypeInv, TypeOK
    <3>3. QED
      BY <1>4, <3>1, <3>2
  <2>3. QED
    BY <1>1, <1>5, <2>1, <2>2, CaseWriter
<1>6. QED
  BY <1>2, <1>5

\* A moment that a read watches.
LEMMA FollowWatched ==
    ASSUME NEW read \in Read, NEW readable, NEW recorded,
           NEW readable2, NEW unsettled2, NEW recorded2,
           FollowOK(read, readable, recorded), recorded \subseteq recorded2
    PROVE  FollowOK(Watched(read, readable2, unsettled2), readable2, recorded2)
<1> DEFINE new == Watched(read, readable2, unsettled2)
<1>1. CASE read.at \in Checking \cup Fetching
  <2>1. /\ new \in Read
        /\ new.at = read.at /\ new.caller = read.caller /\ new.case = read.case
        /\ new.name = read.name /\ new.record = read.record
        /\ new.content = read.content /\ new.followed = read.followed
    BY <1>1, WatchedFields
  <2>2. ~new.hidden => ~read.hidden /\ <<read.case, read.caller>> \in readable2
    BY <1>1, WatchedHistory
  <2> HIDE DEF new
  <2>3. FollowOK(new, readable2, recorded2)
    BY <1>1, <2>1, <2>2 DEF FollowOK, Checking, Fetching, OfArtifact
  <2>4. QED
    BY <2>3 DEF new
<1>2. CASE read.at \notin Checking \cup Fetching
  <2>1. new = read
    BY <1>2, WatchedIgnored
  <2> HIDE DEF new
  <2>2. FollowOK(read, readable2, recorded2)
    BY <1>2 DEF FollowOK, Checking, Fetching, OfArtifact
  <2>3. QED
    BY <2>1, <2>2 DEF new
<1>3. QED
  BY <1>1, <1>2

LEMMA RefWriteStep == RefInv /\ WriteNext => RefInv'
<1> SUFFICES ASSUME RefInv, WriteNext
             PROVE  RefInv'
  OBVIOUS
<1>1. ReadInv /\ ReadInv'
  BY WriteStep DEF RefInv
<1>2. \A c \in Cases : testCases'[c] # None
                        => RefsRecorded(c, FromDocument(testCases'[c]), Recorded')
  BY CasesStep
<1>3. \A r \in Requests : SeenRecorded(requests'[r], Recorded')
  BY SeenStep
<1>4. ASSUME NEW g \in Readers
      PROVE  FollowOK(reads'[g], ReadableNow', Recorded')
  <2>1. PICK read, readable, recorded :
           read = reads[g] /\ readable = ReadableNow /\ recorded = Recorded
    OBVIOUS
  <2>2. PICK readable2, unsettled2, recorded2 :
           /\ readable2 = ReadableNow' /\ unsettled2 = UnsettledNow'
           /\ recorded2 = Recorded'
    OBVIOUS
  <2>3. read \in Read /\ FollowOK(read, readable, recorded)
    BY <1>1, <2>1 DEF RefInv, ReadInv
  <2>4. recorded \subseteq recorded2
    BY <2>1, <2>2, RecordedGrows
  <2>5. FollowOK(Watched(read, readable2, unsettled2), readable2, recorded2)
    BY <2>3, <2>4, FollowWatched
  <2>6. reads'[g] = Watched(reads[g], ReadableNow', UnsettledNow')
    BY DEF WriteNext
  <2>7. QED
    BY <2>1, <2>2, <2>5, <2>6
<1>5. QED
  BY <1>1, <1>2, <1>3, <1>4 DEF RefInv, Exists, View

LEMMA FollowUpdate ==
    ASSUME RefInv, ReadInv', NEW g \in Readers, NEW new, Update(g, new),
           FollowOK(new, ReadableNow, Recorded)
    PROVE  RefInv'
<1>1. /\ reads \in [Readers -> Read]
      /\ reads' = [reads EXCEPT ![g] = new]
      /\ UNCHANGED <<vars, removed>>
  BY DEF RefInv, ReadInv, Update
<1>2. ReadableNow' = ReadableNow /\ Recorded' = Recorded
  BY <1>1 DEF ReadableNow, Readable, Recorded, vars
<1>3. \A h \in Readers : FollowOK(reads'[h], ReadableNow, Recorded)
  BY <1>1 DEF RefInv
<1>4. \A h \in Readers : FollowOK(reads'[h], ReadableNow', Recorded')
  BY <1>2, <1>3
<1>5. \A c \in Cases : testCases'[c] # None
                        => RefsRecorded(c, FromDocument(testCases'[c]), Recorded')
  BY <1>1, <1>2 DEF RefInv, Exists, View, vars
<1>6. \A r \in Requests : SeenRecorded(requests'[r], Recorded')
  BY <1>1, <1>2 DEF RefInv, vars
<1>7. QED
  BY <1>4, <1>5, <1>6 DEF RefInv, Exists, View

LEMMA FollowBegin ==
    ASSUME RefInv, ReadInv', NEW g \in Readers, NEW p \in ReaderPrincipals, NEW c \in Cases,
           NEW n \in Names \cup {None}, NEW step \in Checking,
           step = "case" => <<c, n>> \in Recorded,
           Begin(g, p, c, n, step)
    PROVE  RefInv'
<1> DEFINE base == [NoRead EXCEPT !.at = step, !.caller = p, !.case = c, !.name = n]
<1>1. /\ base \in Read
      /\ base.at = step /\ base.caller = p /\ base.case = c /\ base.name = n
      /\ ~base.followed
  BY DEF NoRead, Read, Checking
<1>2. PICK readable, unsettled, recorded :
         /\ readable = ReadableNow /\ unsettled = UnsettledNow /\ recorded = Recorded
  OBVIOUS
<1>3. Update(g, Watched(base, readable, unsettled))
  BY <1>2 DEF Begin
<1> HIDE DEF base
<1>4. FollowOK(base, {<<c, p>>}, recorded)
  BY <1>1, <1>2 DEF FollowOK, Checking
<1>5. FollowOK(Watched(base, readable, unsettled), readable, recorded)
  BY <1>1, <1>4, FollowWatched
<1>6. QED
  BY <1>2, <1>3, <1>5, FollowUpdate

LEMMA RefReadStep == RefInv /\ ReadNext => RefInv'
<1> SUFFICES ASSUME RefInv, ReadNext
             PROVE  RefInv'
  OBVIOUS
<1>1. ReadInv /\ ReadInv'
  BY ReadStep DEF RefInv
<1>2. PICK g \in Readers :
         \/ \E p \in ReaderPrincipals, c \in Cases :
               \/ ListArtifacts(g, p, c)
               \/ \E n \in Names : GetArtifact(g, p, c, n) \/ GetCase(g, p, c, n)
         \/ Follow(g)
         \/ CheckReadable(g, "list:check", "list:records") \/ ListRecords(g)
         \/ CheckReadable(g, "get:check", "get:record") \/ FindRecord(g) \/ GetObject(g)
         \/ End(g)
  BY DEF ReadNext
<1> DEFINE old == reads[g]
<1>3. /\ old \in Read /\ ReadOK(old, ReadableNow, UnsettledNow, artifacts)
      /\ FollowOK(old, ReadableNow, Recorded)
  BY <1>1 DEF RefInv, ReadInv
<1>4. ASSUME NEW p \in ReaderPrincipals, NEW c \in Cases, ListArtifacts(g, p, c)
      PROVE  RefInv'
  BY <1>1, <1>4, FollowBegin DEF ListArtifacts, Checking
<1>5. ASSUME NEW p \in ReaderPrincipals, NEW c \in Cases, NEW n \in Names,
             GetArtifact(g, p, c, n)
      PROVE  RefInv'
  BY <1>1, <1>5, FollowBegin DEF GetArtifact, Checking
<1>6. ASSUME NEW p \in ReaderPrincipals, NEW c \in Cases, NEW n \in Names, GetCase(g, p, c, n)
      PROVE  RefInv'
  <2>1. <<c, n>> \in Recorded
    BY <1>6 DEF GetCase, Readable, RefInv, RefsRecorded, Exists, View
  <2>2. QED
    BY <1>1, <1>6, <2>1, FollowBegin DEF GetCase, Checking
<1>7. CASE Follow(g)
  <2> DEFINE new == [old EXCEPT !.at = "get:check", !.followed = TRUE]
  <2>1. Update(g, new) /\ old.at = "case"
    BY <1>7 DEF Follow, Reads
  <2>2. /\ new.at = "get:check" /\ new.caller = old.caller /\ new.case = old.case
        /\ new.name = old.name
        /\ new.hidden = old.hidden /\ new.disturbed = old.disturbed
    BY <1>3 DEF Read
  <2> HIDE DEF new
  <2>3. FollowOK(new, ReadableNow, Recorded)
    BY <1>3, <2>1, <2>2 DEF FollowOK, Checking, Fetching, OfArtifact
  <2>4. QED
    BY <1>1, <2>1, <2>3, FollowUpdate
<1>8. ASSUME NEW step, Answer(g, step),
             \/ old.at = "list:check" /\ step \in {"list:records", "missing"}
             \/ old.at = "list:records" /\ step = "listed"
             \/ old.at = "get:check" /\ step = "get:record"
             \/ /\ old.at \in {"get:check", "get:record", "get:object"} /\ step = "missing"
                /\ old.followed => old.disturbed \/ old.hidden
      PROVE  RefInv'
  <2> DEFINE new == [old EXCEPT !.at = step]
  <2>1. Update(g, new)
    BY <1>8 DEF Answer
  <2>2. /\ new.at = step /\ new.caller = old.caller /\ new.case = old.case
        /\ new.name = old.name /\ new.followed = old.followed
        /\ new.hidden = old.hidden /\ new.disturbed = old.disturbed
    <3>1. step \in {"list:records", "listed", "get:record", "missing"}
      BY <1>8
    <3>2. QED
      BY <1>3, <3>1 DEF Read
  <2> HIDE DEF new
  <2>3. FollowOK(new, ReadableNow, Recorded)
    BY <1>3, <1>8, <2>2 DEF FollowOK, Checking, Fetching, OfArtifact
  <2>4. QED
    BY <1>1, <2>1, <2>3, FollowUpdate
<1>9. CASE CheckReadable(g, "list:check", "list:records") \/ ListRecords(g)
  BY <1>8, <1>9 DEF CheckReadable, ListRecords, Reads
<1>10. CASE CheckReadable(g, "get:check", "get:record")
  <2>1. ~Readable(old.case, old.caller) /\ old.at = "get:check" => old.hidden
    BY <1>3 DEF FollowOK, Checking, ReadableNow
  <2>2. QED
    BY <1>8, <1>10, <2>1 DEF CheckReadable, Reads
<1>11. CASE FindRecord(g)
  <2> DEFINE record == artifacts[old.case][old.name]
             new == [old EXCEPT !.at = "get:object", !.record = record]
  <2>1. old.at = "get:record" /\ old.case \in Cases /\ old.name \in Names
    BY <1>3, <1>11 DEF FindRecord, Reads, ReadOK, OfArtifact
  <2>2. CASE record = None
    <3>1. old.followed => <<old.case, old.name>> \in removed
      BY <1>3, <2>1, <2>2 DEF FollowOK, OfArtifact, Recorded
    <3>2. old.followed => old.disturbed
      BY <1>3, <2>1, <3>1 DEF ReadOK, Fetching, UnsettledNow, Unsettled
    <3>3. QED
      BY <1>8, <1>11, <2>1, <2>2, <3>2 DEF FindRecord
  <2>3. CASE record # None
    <3>1. Update(g, new)
      BY <1>11, <2>3 DEF FindRecord
    <3>2. /\ new.at = "get:object" /\ new.caller = old.caller /\ new.case = old.case
          /\ new.name = old.name /\ new.followed = old.followed /\ new.hidden = old.hidden
      BY <1>3 DEF Read
    <3> HIDE DEF new
    <3>3. FollowOK(new, ReadableNow, Recorded)
      BY <1>3, <2>1, <3>2 DEF FollowOK, Checking, Fetching, OfArtifact
    <3>4. QED
      BY <1>1, <3>1, <3>3, FollowUpdate
  <2>4. QED
    BY <2>2, <2>3
<1>12. CASE GetObject(g)
  <2> DEFINE content == objects[old.case][old.name]
             new == [old EXCEPT !.at = "served", !.content = content]
  <2>1. old.at = "get:object" /\ old.case \in Cases /\ old.name \in Names
    BY <1>3, <1>12 DEF GetObject, Reads, ReadOK, OfArtifact
  <2>2. CASE content = None
    <3>1. ~old.disturbed => /\ <<old.case, old.name>> \notin torn
                            /\ \A r \in Requests : ~Halfway(r, old.case, old.name)
                            /\ artifacts[old.case][old.name] # None
      BY <1>3, <2>1 DEF ReadOK, Fetching, UnsettledNow, Unsettled
    <3>2. ContentMatchesMetadata
      BY <1>1 DEF ReadInv, ContentInv, Consistent, Matches, ContentMatchesMetadata
    <3>3. old.disturbed
      BY <1>3, <2>1, <2>2, <3>1, <3>2 DEF ContentMatchesMetadata, Read
    <3>4. QED
      BY <1>8, <1>12, <2>1, <2>2, <3>3 DEF GetObject
  <2>3. CASE content # None
    <3>1. Update(g, new)
      BY <1>12, <2>3 DEF GetObject
    <3>2. /\ new.at = "served" /\ new.caller = old.caller /\ new.case = old.case
          /\ new.name = old.name /\ new.followed = old.followed /\ new.hidden = old.hidden
      BY <1>3 DEF Read
    <3> HIDE DEF new
    <3>3. FollowOK(new, ReadableNow, Recorded)
      BY <1>3, <2>1, <3>2 DEF FollowOK, Checking, Fetching, OfArtifact
    <3>4. QED
      BY <1>1, <3>1, <3>3, FollowUpdate
  <2>4. QED
    BY <2>2, <2>3
<1>13. CASE End(g)
  <2>1. FollowOK(NoRead, ReadableNow, Recorded)
    BY DEF NoRead, FollowOK, Checking, Fetching, OfArtifact
  <2>2. QED
    BY <1>1, <1>13, <2>1, FollowUpdate DEF End
<1>14. QED
  BY <1>2, <1>4, <1>5, <1>6, <1>7, <1>9, <1>10, <1>11, <1>12, <1>13

LEMMA RefStart == ReadInit => RefInv
<1> SUFFICES ASSUME ReadInit
             PROVE  RefInv
  OBVIOUS
<1>1. ReadInv
  BY ReadStart
<1>2. ASSUME NEW c \in Cases, testCases[c] # None
      PROVE  References(FromDocument(testCases[c])) = {}
  <2>1. PICK label \in Labels, t \in TestTypes : testCases[c] = LegacyDocument(label, t)
    BY <1>2 DEF ReadInit, Init
  <2> DEFINE doc == LegacyDocument(label, t)
  <2>2. doc \in Document
    BY <1>1, <1>2, <2>1 DEF ReadInv, ContentInv, TypeInv, TypeOK
  <2>3. doc.environments = <<>> /\ doc.scripts = <<>> /\ doc.result = None
    BY DEF LegacyDocument, NewTestCase
  <2> HIDE DEF doc
  <2>4. References(FromDocument(doc)) = {}
    BY <2>2, <2>3, FromDocumentFields, NoReferences
  <2>5. QED
    BY <2>1, <2>4 DEF doc
<1>3. \A c \in Cases : Exists(c) => RefsRecorded(c, View(c), Recorded)
  BY <1>2 DEF Exists, View, RefsRecorded
<1>4. \A r \in Requests : SeenRecorded(requests[r], Recorded)
  BY DEF ReadInit, Init, Idle, SeenRecorded
<1>5. \A g \in Readers : FollowOK(reads[g], ReadableNow, Recorded)
  BY DEF ReadInit, NoRead, FollowOK, Checking, Fetching, OfArtifact
<1>6. QED
  BY <1>1, <1>3, <1>4, <1>5 DEF RefInv

LEMMA RefStutter == RefInv /\ UNCHANGED readVars => RefInv'
<1> SUFFICES ASSUME RefInv, UNCHANGED readVars
             PROVE  RefInv'
  OBVIOUS
<1>1. ReadInv'
  BY ReadStutter DEF RefInv
<1>2. /\ ReadableNow' = ReadableNow /\ Recorded' = Recorded
      /\ testCases' = testCases /\ requests' = requests /\ reads' = reads
  BY DEF readVars, ReadableNow, Readable, Recorded, vars
<1>3. \A c \in Cases : testCases'[c] # None
                        => RefsRecorded(c, FromDocument(testCases'[c]), Recorded')
  BY <1>2 DEF RefInv, Exists, View
<1>4. \A r \in Requests : SeenRecorded(requests'[r], Recorded')
  BY <1>2 DEF RefInv
<1>5. \A g \in Readers : FollowOK(reads'[g], ReadableNow', Recorded')
  BY <1>2 DEF RefInv
<1>6. QED
  BY <1>1, <1>3, <1>4, <1>5 DEF RefInv, Exists, View

-----------------------------------------------------------------------------
\* The theorems.

\* Readers hold what the handlers' types allow, and an answer has the record that
\* the handler dereferences and content, whatever requests write meanwhile.
THEOREM ReadTypes == ReadSpec => []ReadTypeOK
<1>1. ReadInv => ReadTypeOK
  BY DEF ReadInv, ReadOK, ReadTypeOK, Reads
<1>2. QED
  BY <1>1, ReadInvariant, PTL

\* For any number of requests that publish, patch and delete between the store
\* calls of a read (checkParentReadable and what follows it): nobody is answered
\* with artifacts of a case he could not have read at a moment of that request.
THEOREM AnswersPermitted == ReadSpec => []AnswersWerePermitted
<1>1. ReadInv => AnswersWerePermitted
  BY DEF ReadInv, ReadOK, AnswersWerePermitted, Answered
<1>2. QED
  BY <1>1, ReadInvariant, PTL

\* The record and the content that GetArtifact fetches one after the other belong
\* together, unless a writer was halfway through the artifact or had left it torn.
THEOREM AnswersWhole == ReadSpec => []AnswersAreWhole
<1>1. ReadInv => AnswersAreWhole
  BY DEF ReadInv, ReadOK, AnswersAreWhole, Reads
<1>2. QED
  BY <1>1, ReadInvariant, PTL

\* The filter of the case list and GET agree on every document of the types the
\* store holds, for every caller, selector and search text.
THEOREM ListsAgree == ReadSpec => []ListsAgreeWithGet
<1>1. ASSUME TypeOK
      PROVE  ListsAgreeWithGet
  <2>1. ASSUME NEW p \in Principals, NEW c \in Cases, testCases[c] # None
        PROVE  LET doc == testCases[c]
                   tc == FromDocument(doc)
               IN  /\ doc \in Document
                   /\ tc.owner = doc.owner
                   /\ tc.status = IF doc.status \in Statuses THEN doc.status ELSE "published"
                   /\ tc.visibility = IF doc.visibility \in Visibilities
                                        THEN doc.visibility ELSE "private"
    BY <1>1, <2>1 DEF TypeOK, FromDocument, Document
  <2>2. ASSUME NEW p \in Principals, NEW selector \in Selectors, NEW search,
               NEW c \in Listed(selector, search, p)
        PROVE  Readable(c, p)
    <3>1. /\ c \in Cases /\ testCases[c] # None /\ Selected(testCases[c], selector, p)
      BY <2>2 DEF Listed
    <3>2. QED
      BY <2>1, <2>2, <3>1 DEF Readable, CanRead, Selected, Selectors, StoredAs, OwnedByCaller,
                              IsPubliclyReadable, IsPublished, Statuses, Visibilities
  <2>3. ASSUME NEW p \in Principals, NEW c \in Cases,
               Readable(c, p), testCases[c].status # "missing"
        PROVE  c \in Listed("all", None, p)
    <3>1. testCases[c] # None /\ CanRead(FromDocument(testCases[c]), p)
      BY <2>3 DEF Readable
    <3>2. Selected(testCases[c], "all", p)
      BY <2>1, <2>3, <3>1 DEF CanRead, Selected, StoredAs, OwnedByCaller, Document,
                              IsPubliclyReadable, IsPublished, Statuses, Visibilities
    <3>3. QED
      BY <3>1, <3>2 DEF Listed, Found
  <2>4. QED
    BY <2>2, <2>3 DEF ListsAgreeWithGet
<1>2. ReadInv => TypeOK
  BY DEF ReadInv, ContentInv, TypeInv
<1>3. QED
  BY <1>1, <1>2, ReadInvariant, PTL

\* A reader that follows a reference of the case it was shown finds the artifact,
\* unless someone removed it (DeleteArtifact leaves the reference behind), a writer
\* was halfway through it or left it torn, or the case was hidden meanwhile.
THEOREM ReferencesAreGood == ReadSpec => []ReferencesResolve
<1>1. RefInv => ReferencesResolve
  BY DEF RefInv, FollowOK, ReferencesResolve, Reads
<1>2. QED
  BY <1>1, RefStart, RefWriteStep, RefReadStep, RefStutter, PTL DEF ReadSpec
=============================================================================
