---------------------------- MODULE UploadCliProofs ----------------------------
(***************************************************************************)
(* Proofs about UploadCli, for any number of files, names, cases, runs of  *)
(* the command and other clients: the command breaks nothing the service   *)
(* promises, and its success means what it says.                           *)
(***************************************************************************)
EXTENDS UploadCli, TestCaseSafetyProofs

-----------------------------------------------------------------------------
\* The list of files a command uploads.

UploadFile ==
    [name : FileNames, type : {"environment", "result", "script", "raw", "log", "other"},
     payload : Payload \cup {None}]

\* The types of the files after the first two.
LaterTypes == {"script", "raw", "log", "other"}

\* A snapshot, a result, and any number of later files.
IsFileList(files) ==
    /\ files \in Seq(UploadFile)
    /\ Len(files) >= 2
    /\ files[1].type = "environment" /\ files[2].type = "result"
    /\ \A i \in 1 .. Len(files) : i > 2 => files[i].type \in LaterTypes

\* More files of one type can follow.
LEMMA MoreFiles ==
    ASSUME NEW files, IsFileList(files), NEW more \in Seq(LocalFile), NEW type \in LaterTypes
    PROVE  IsFileList(files \o Typed(type, more))
<1> DEFINE new == Typed(type, more)
<1>1. /\ Len(more) \in Nat /\ DOMAIN more = 1 .. Len(more)
      /\ \A i \in 1 .. Len(more) : more[i] \in LocalFile
  OBVIOUS
<1>2. \A i \in 1 .. Len(more) : NamedAs(type, more[i]) \in UploadFile
  BY <1>1 DEF NamedAs, UploadFile, LocalFile, LaterTypes
<1>3. new \in Seq(UploadFile) /\ Len(new) = Len(more)
  BY <1>1, <1>2 DEF Typed
<1>4. \A i \in 1 .. Len(more) : new[i].type = type
  BY <1>1 DEF Typed, NamedAs
<1> HIDE DEF new
<1>5. files \in Seq(UploadFile) /\ Len(files) \in Nat /\ Len(files) >= 2
  BY DEF IsFileList
<1>6. /\ files \o new \in Seq(UploadFile)
      /\ Len(files \o new) = Len(files) + Len(new)
      /\ \A i \in 1 .. Len(files) + Len(new) : (files \o new)[i] =
           IF i <= Len(files) THEN files[i] ELSE new[i - Len(files)]
  BY <1>3, <1>5, ConcatProperties
<1>7. QED
  BY <1>1, <1>3, <1>4, <1>5, <1>6 DEF IsFileList, new

LEMMA FileList ==
    ASSUME NEW flags \in Invocations
    PROVE  IsFileList(Artifacts(flags))
<1>1. /\ flags.env \in LocalFile /\ flags.result \in LocalFile
      /\ flags.scripts \in Seq(LocalFile) /\ flags.raws \in Seq(LocalFile)
      /\ flags.logs \in Seq(LocalFile) /\ flags.others \in Seq(LocalFile)
  BY InvocationsAssumption DEF Flags
<1>2. IsFileList(<<NamedAs("environment", flags.env), NamedAs("result", flags.result)>>)
  <2>1. /\ NamedAs("environment", flags.env) \in UploadFile
        /\ NamedAs("environment", flags.env).type = "environment"
        /\ NamedAs("result", flags.result) \in UploadFile
        /\ NamedAs("result", flags.result).type = "result"
    BY <1>1 DEF NamedAs, UploadFile, LocalFile
  <2>2. QED
    BY <2>1 DEF IsFileList
<1>3. QED
  BY <1>1, <1>2, MoreFiles DEF Artifacts, LaterTypes

\* A file that could be read is an upload, of its own type.
LEMMA FileUpload ==
    ASSUME NEW flags \in Invocations, AllReadable(flags), NEW i \in 1 .. Len(Artifacts(flags))
    PROVE  LET a == Artifacts(flags)[i] IN
           /\ a \in UploadFile
           /\ a.payload \in Payload
           /\ UploadOf(a) \in Upload
           /\ UploadOf(a).payload = a.payload
           /\ ServerName(a.name) \in Names \cup {None}
           /\ MetaOf(UploadOf(a)) \in ArtifactMeta
           /\ MetaOf(UploadOf(a)).type = a.type
           /\ MetaOf(UploadOf(a)).digest = Sha256(a.payload)
<1> DEFINE files == Artifacts(flags)
<1>1. files \in Seq(UploadFile) /\ DOMAIN files = 1 .. Len(files)
  BY FileList DEF IsFileList
<1>2. PICK a : a = files[i]
  OBVIOUS
<1>3. a \in UploadFile /\ a.payload # None
  BY <1>1, <1>2 DEF AllReadable
<1>4. /\ a.payload \in Payload /\ a.name \in FileNames
      /\ a.type \in ArtifactTypes /\ a.type # ""
  BY <1>3 DEF UploadFile, ArtifactTypes
<1>5. UploadOf(a) \in Upload /\ UploadOf(a).payload = a.payload /\ UploadOf(a).type = a.type
  BY <1>4 DEF UploadOf, Upload
<1>6. ServerName(a.name) \in Names \cup {None}
  BY <1>4, CutAssumption DEF ServerName
<1>7. /\ MetaOf(UploadOf(a)) \in ArtifactMeta
      /\ MetaOf(UploadOf(a)).type = a.type
      /\ MetaOf(UploadOf(a)).digest = Sha256(a.payload)
  BY <1>4, <1>5, UploadType DEF MetaOf, ArtifactTypeOrOther
<1>8. QED
  BY <1>2, <1>3, <1>4, <1>5, <1>6, <1>7

-----------------------------------------------------------------------------
\* The inductive invariants.

\* The file the command is at, and the artifact it goes to.
Files == Artifacts(cli.flags)
Current == Files[cli.next]
Target == ServerName(Current.name)

Command ==
    [at : {"off", "create", "send", "wait", "failed", "done"},
     flags : Invocations \cup {None}, case : Cases \cup {None},
     next : Nat, slot : CliSlots \cup {None}]

\* The request that uploads the current file.
IsOurPut(req) ==
    /\ req.at \in PutSteps
    /\ req.case = cli.case
    /\ req.name = Target
    /\ req.upload = UploadOf(Current)

\* What the command knows at each of its steps.
CommandOK ==
    /\ cli \in Command
    /\ cli.at = "off" => cli = NotRunning
    /\ cli.at # "off" => cli.flags \in Invocations /\ cli.next \in 1 .. Len(Files)
    /\ Running => AllReadable(cli.flags)
    /\ cli.at = "create" => cli.next = 1
    /\ cli.at \in {"send", "wait", "done"} => cli.case \in Cases
    /\ cli.at # "wait" => cli.slot = None
    /\ cli.at = "wait" => cli.slot \in CliSlots /\ IsOurPut(requests[cli.slot])
    /\ cli.at = "done" => cli.next = Len(Files)
    /\ runs \in 0 .. MaxRuns
    /\ meddled \in SUBSET (Names \cup {"case"})

CliInv == TypeInv /\ CommandOK

\* Of the first k files, the last one under the name n.
LastUnder(k, n) ==
    {i \in 1 .. k : /\ ServerName(Files[i].name) = n
                    /\ \A j \in 1 .. k : ServerName(Files[j].name) = n => j <= i}

\* File a is there under the name n, and its case refers to it.
Holds(a, n) ==
    /\ artifacts[cli.case][n] = MetaOf(UploadOf(a))
    /\ objects[cli.case][n] = a.payload
    /\ "case" \notin meddled => Exists(cli.case) /\ RefersTo(View(cli.case), a, n)

\* What came of the first k files, but for those under the names in but.
Stored(k, but) ==
    \A n \in Names \ (meddled \cup but) : \A i \in LastUnder(k, n) : Holds(Files[i], n)

\* How far the current upload is.
UnderWay(req) ==
    /\ Target \notin meddled =>
         /\ req.at \in {"put:meta", "put:link"} => objects[cli.case][Target] = Current.payload
         /\ req.at = "put:link" => artifacts[cli.case][Target] = MetaOf(UploadOf(Current))
    /\ "case" \notin meddled /\ req.at \in Deciding
         => Exists(cli.case) /\ req.seen = View(cli.case)

ProgressInv ==
    /\ CliInv
    /\ AccessInv
    /\ cli.at = "send" => Stored(cli.next - 1, {})
    /\ cli.at = "wait" => Stored(cli.next - 1, {Target}) /\ UnderWay(requests[cli.slot])
    /\ cli.at = "done" => Stored(cli.next, {})

-----------------------------------------------------------------------------
\* The steps of the command are steps of the service.

LEMMA CommandSteps ==
    ASSUME CommandOK, [CliNext]_cliVars
    PROVE  [AnyStep]_vars
<1>1. CASE \/ \E flags \in Invocations : Start(flags)
           \/ CreateFails \/ SendFails \/ Kill \/ UNCHANGED cliVars
  BY <1>1 DEF Start, CreateFails, SendFails, Kill, cliVars
<1>2. CASE CreateCase
  <2>1. PICK c \in Cases, label \in Labels, testType \in TestTypes :
          CreateMetadata(Caller, c, label, testType)
    BY <1>2 DEF CreateCase
  <2>2. QED
    BY <2>1, CallerAssumption DEF AnyStep, Create
<1>3. ASSUME NEW r \in CliSlots, Send(r)
      PROVE  AnyStep
  <2>1. /\ cli.at = "send" /\ cli.flags \in Invocations /\ cli.case \in Cases
        /\ cli.next \in 1 .. Len(Artifacts(cli.flags)) /\ AllReadable(cli.flags)
    BY <1>3 DEF Send, CommandOK, Running, Files
  <2>2. PICK a : a = Artifacts(cli.flags)[cli.next]
    OBVIOUS
  <2>3. ServerName(a.name) \in Names /\ UploadOf(a) \in Upload
    BY <1>3, <2>1, <2>2, FileUpload DEF Send
  <2>4. PutReceive(r, Caller, cli.case, ServerName(a.name), UploadOf(a))
    BY <1>3, <2>2 DEF Send
  <2>5. Arrive(r) /\ r \in Requests
    BY <2>1, <2>3, <2>4, CallerAssumption, SlotsAssumption DEF Arrive
  <2>6. QED
    BY <2>5 DEF AnyStep
<1>4. ASSUME NEW r \in CliSlots, Served(r)
      PROVE  AnyStep
  BY <1>4, SlotsAssumption DEF Served, AnyStep
<1>5. ASSUME NEW r \in Requests, OthersServed(r)
      PROVE  AnyStep
  BY <1>5 DEF OthersServed, AnyStep
<1>6. CASE OthersSend
  <2>1. CASE Create
    BY <2>1 DEF AnyStep
  <2>2. CASE \E r \in OtherSlots : Receive(r)
    BY <2>2, SlotsAssumption, StepIsAnyStep DEF Next
  <2>3. QED
    BY <1>6, <2>1, <2>2 DEF OthersSend
<1>7. QED
  BY <1>1, <1>2, <1>3, <1>4, <1>5, <1>6 DEF CliNext, CliStep

\* A PUT that does not end goes on with its case, name and upload.
LEMMA PutGoesOn ==
    ASSUME TypeInv, NEW r \in Requests, requests[r].at \in PutSteps, Serve(r),
           requests'[r].at # "idle"
    PROVE  /\ requests'[r].at \in PutSteps
           /\ requests'[r].case = requests[r].case
           /\ requests'[r].name = requests[r].name
           /\ requests'[r].upload = requests[r].upload
           /\ \/ PutAuthorize(r) /\ requests'[r].at = "put:load"
              \/ PutLoad(r) /\ requests'[r].at = "put:store"
              \/ PutStore(r) /\ requests'[r].at = "put:meta"
              \/ PutMeta(r) /\ requests'[r].at = "put:link"
<1> DEFINE old == requests[r]
           new == requests'[r]
<1>1. requests \in [Requests -> Request] /\ old \in Request
  BY DEF TypeInv, TypeOK
<1>2. ~Finish(r)
  BY <1>1 DEF Finish, Idle
<1>3. new.case = old.case /\ new.upload = old.upload
  BY ServedRequest
<1>4. ASSUME NEW step \in PutSteps, Advance(r, step)
      PROVE  new.at = step /\ new.name = old.name
  BY <1>1, <1>4 DEF Advance, Request
<1>5. CASE PutAuthorize(r)
  BY <1>2, <1>3, <1>4, <1>5 DEF PutAuthorize, CheckOwnership, PutSteps
<1>6. CASE PutLoad(r)
  <2>1. requests' = [requests EXCEPT ![r].at = "put:store",
                                     ![r].seen = FromDocument(testCases[old.case])]
    BY <1>2, <1>6 DEF PutLoad
  <2>2. new.at = "put:store" /\ new.name = old.name
    BY <1>1, <2>1 DEF Request
  <2>3. QED
    BY <1>3, <1>6, <2>2 DEF PutSteps
<1>7. CASE PutStore(r)
  BY <1>3, <1>4, <1>7 DEF PutStore, PutSteps
<1>8. CASE PutMeta(r)
  BY <1>2, <1>3, <1>4, <1>8 DEF PutMeta, PutSteps
<1>9. PutAuthorize(r) \/ PutLoad(r) \/ PutStore(r) \/ PutMeta(r)
  <2>1. ~PutLink(r)
    BY <1>2 DEF PutLink
  <2>2. QED
    BY <2>1 DEF Serve, At, PutSteps, PublishWrite, UpdateWrite, DropAuthorize, DropFind, DropGuard,
                DropObject, DropMeta, DeleteList, DeleteObject, DeleteMeta, DeleteCase,
                CheckOwnership
<1>10. QED
  BY <1>5, <1>6, <1>7, <1>8, <1>9

LEMMA CommandEnds ==
    ASSUME cli \in Command, NEW result \in {"failed", "done"}, cli' = Ends(result)
    PROVE  /\ cli' \in Command
           /\ cli'.at = result /\ cli'.slot = None
           /\ cli'.flags = cli.flags /\ cli'.case = cli.case /\ cli'.next = cli.next
  BY DEF Ends, Command

\* What follows an answer.
LEMMA CommandGoesOn ==
    ASSUME CommandOK, cli.at = "wait", NEW ok \in BOOLEAN, GoesOn(ok)
    PROVE  /\ cli' \in Command
           /\ cli'.slot = None /\ cli'.flags = cli.flags /\ cli'.case = cli.case
           /\ \/ cli'.at = "failed" /\ cli'.next = cli.next
              \/ ok /\ cli'.at = "done" /\ cli'.next = cli.next /\ cli.next = Len(Files)
              \/ ok /\ cli'.at = "send" /\ cli'.next = cli.next + 1 /\ cli.next < Len(Files)
<1>1. /\ cli \in Command /\ cli.flags \in Invocations
      /\ cli.next \in 1 .. Len(Files)
  BY DEF CommandOK
<1>2. Len(Files) \in Nat
  BY <1>1, FileList DEF IsFileList, Files
<1>3. CASE ~ok
  BY <1>1, <1>3, CommandEnds DEF GoesOn
<1>4. CASE ok /\ cli.next = Len(Files)
  BY <1>1, <1>4, CommandEnds DEF GoesOn, Files
<1>5. CASE ok /\ cli.next # Len(Files)
  <2>1. cli' = [cli EXCEPT !.at = "send", !.next = cli.next + 1, !.slot = None]
    BY <1>5 DEF GoesOn, Files
  <2>2. PICK next \in Nat : next = cli.next + 1
    BY <1>1
  <2>3. cli' = [cli EXCEPT !.at = "send", !.next = next, !.slot = None] /\ cli \in Command
    BY <1>1, <2>1, <2>2
  <2>4. /\ cli' \in Command /\ cli'.at = "send" /\ cli'.slot = None
        /\ cli'.flags = cli.flags /\ cli'.case = cli.case /\ cli'.next = next
    BY <2>3 DEF Command
  <2>5. QED
    BY <1>1, <1>2, <1>5, <2>2, <2>4
<1>6. QED
  BY <1>3, <1>4, <1>5

\* A step that leaves the command where it is, and its request, if it has one.
LEMMA CommandWaits ==
    ASSUME CommandOK, UNCHANGED <<cli, runs>>, meddled' \in SUBSET (Names \cup {"case"}),
           cli.at = "wait" => IsOurPut(requests'[cli.slot])
    PROVE  CommandOK'
<1>1. Files' = Files /\ Current' = Current /\ Target' = Target /\ (Running' <=> Running)
  BY DEF Files, Current, Target, Running
<1>2. cli.at = "wait" => IsOurPut(requests[cli.slot])'
  BY <1>1 DEF IsOurPut
<1>3. QED
  BY <1>1, <1>2 DEF CommandOK

\* A step after which the command is not running.
LEMMA CommandStops ==
    ASSUME CommandOK, cli' \in Command, cli'.at = "failed", cli'.slot = None,
           cli'.flags = cli.flags, cli'.next = cli.next, cli.at # "off",
           UNCHANGED <<runs, meddled>>
    PROVE  CommandOK'
<1>1. Files' = Files
  BY DEF Files
<1>2. QED
  BY <1>1 DEF CommandOK, Running

LEMMA CommandInit == CliInit => CommandOK
<1> SUFFICES ASSUME CliInit PROVE CommandOK
  OBVIOUS
<1>1. cli = NotRunning /\ runs = 0 /\ meddled = {}
  BY DEF CliInit
<1>2. QED
  BY <1>1, MaxRunsAssumption DEF CommandOK, NotRunning, Command, Running

LEMMA CommandStep == CliInv /\ [CliNext]_cliVars => CommandOK'
<1> SUFFICES ASSUME CliInv, [CliNext]_cliVars PROVE CommandOK'
  OBVIOUS
<1>1. /\ TypeInv /\ CommandOK /\ cli \in Command
      /\ requests \in [Requests -> Request]
      /\ CliSlots \subseteq Requests
  BY SlotsAssumption DEF CliInv, CommandOK, TypeInv, TypeOK
<1>2. CASE UNCHANGED cliVars
  BY <1>1, <1>2, CommandWaits DEF cliVars, vars, CommandOK
<1>3. ASSUME NEW flags \in Invocations, Start(flags)
      PROVE  CommandOK'
  <2>1. PICK step : step = (IF ~AllReadable(flags) THEN "failed"
                            ELSE IF flags.caseID = None THEN "create" ELSE "send")
    OBVIOUS
  <2>2. /\ cli' = [at |-> step, flags |-> flags, case |-> flags.caseID, next |-> 1, slot |-> None]
        /\ runs' = runs + 1 /\ runs < MaxRuns /\ meddled' = {}
    BY <1>3, <2>1 DEF Start, NotRunning
  <2>3. /\ flags.caseID \in Cases \cup {None}
        /\ step \in {"failed", "create", "send"}
        /\ step # "failed" => AllReadable(flags)
        /\ step = "send" => flags.caseID \in Cases
    BY <2>1, InvocationsAssumption DEF Flags
  <2>4. /\ cli' \in Command /\ cli'.at = step /\ cli'.flags = flags
        /\ cli'.case = flags.caseID /\ cli'.next = 1 /\ cli'.slot = None
    BY <2>2, <2>3 DEF Command
  <2>5. 1 \in 1 .. Len(Files)'
    BY <2>4, FileList DEF IsFileList, Files
  <2>6. runs' \in 0 .. MaxRuns
    BY <1>1, <2>2, MaxRunsAssumption DEF CommandOK
  <2>7. QED
    BY <2>2, <2>3, <2>4, <2>5, <2>6 DEF CommandOK, Running
<1>4. CASE CreateCase
  <2>1. PICK c \in Cases : /\ \/ cli' = [cli EXCEPT !.at = "send", !.case = c]
                              \/ cli' = Ends("failed")
                           /\ cli.at = "create"
                           /\ UNCHANGED <<runs, meddled>>
    BY <1>4 DEF CreateCase
  <2>2. CASE cli' = Ends("failed")
    BY <1>1, <2>1, <2>2, CommandEnds, CommandStops
  <2>3. CASE cli' = [cli EXCEPT !.at = "send", !.case = c]
    <3>1. /\ cli' \in Command /\ cli'.at = "send" /\ cli'.case = c
          /\ cli'.flags = cli.flags /\ cli'.next = cli.next /\ cli'.slot = cli.slot
      BY <1>1, <2>3 DEF Command
    <3>2. Files' = Files
      BY <3>1 DEF Files
    <3>3. QED
      BY <1>1, <2>1, <3>1, <3>2 DEF CommandOK, Running
  <2>4. QED
    BY <2>1, <2>2, <2>3
<1>5. CASE CreateFails \/ SendFails \/ Kill
  <2>1. cli' = Ends("failed") /\ cli.at # "off" /\ UNCHANGED <<runs, meddled>>
    BY <1>5 DEF CreateFails, SendFails, Kill, Running
  <2>2. QED
    BY <1>1, <2>1, CommandEnds, CommandStops
<1>6. ASSUME NEW r \in CliSlots, Send(r)
      PROVE  CommandOK'
  <2>1. /\ cli.at = "send" /\ UNCHANGED <<runs, meddled>>
        /\ cli' = [cli EXCEPT !.at = "wait", !.slot = r]
        /\ PutReceive(r, Caller, cli.case, Target, UploadOf(Current))
    BY <1>6 DEF Send, Target, Current, Files
  <2>2. /\ cli' \in Command /\ cli'.at = "wait" /\ cli'.slot = r
        /\ cli'.flags = cli.flags /\ cli'.next = cli.next /\ cli'.case = cli.case
    BY <1>1, <2>1 DEF Command
  <2>3. Files' = Files /\ Current' = Current /\ Target' = Target
    BY <2>2 DEF Files, Current, Target
  <2>4. /\ requests'[r].at \in PutSteps /\ requests'[r].case = cli.case
        /\ requests'[r].name = Target /\ requests'[r].upload = UploadOf(Current)
    <3>1. PICK step : /\ step = FirstStep(Caller, "put:authorize", "put:load")
                      /\ requests' = [requests EXCEPT ![r] =
                           [Idle EXCEPT !.at = step, !.caller = Caller, !.case = cli.case,
                                        !.name = Target, !.upload = UploadOf(Current)]]
      BY <2>1 DEF PutReceive, Accept
    <3>2. step \in PutSteps
      BY <3>1 DEF FirstStep, PutSteps
    <3>3. QED
      BY <1>1, <3>1, <3>2 DEF Idle
  <2>5. IsOurPut(requests[cli.slot])'
    BY <2>2, <2>3, <2>4 DEF IsOurPut
  <2>6. QED
    BY <1>1, <2>1, <2>2, <2>3, <2>5 DEF CommandOK, Running
<1>7. ASSUME NEW r \in CliSlots, Served(r)
      PROVE  CommandOK'
  <2>1. cli.at = "wait" /\ cli.slot = r /\ UNCHANGED <<runs, meddled>> /\ IsOurPut(requests[r])
    BY <1>1, <1>7 DEF Served, CommandOK
  <2>2. CASE Serve(r) /\ requests'[r].at # "idle" /\ UNCHANGED cli
    <3>1. IsOurPut(requests'[r])
      BY <1>1, <2>1, <2>2, PutGoesOn DEF IsOurPut
    <3>2. QED
      BY <1>1, <2>1, <2>2, <3>1, CommandWaits DEF CommandOK
  <2>3. CASE GoesOn(TRUE) \/ GoesOn(FALSE)
    <3>1. /\ cli' \in Command
          /\ cli'.slot = None /\ cli'.flags = cli.flags /\ cli'.case = cli.case
          /\ \/ cli'.at = "failed" /\ cli'.next = cli.next
             \/ cli'.at = "done" /\ cli'.next = cli.next /\ cli.next = Len(Files)
             \/ cli'.at = "send" /\ cli'.next = cli.next + 1 /\ cli.next < Len(Files)
      BY <1>1, <2>1, <2>3, CommandGoesOn
    <3>2. Files' = Files
      BY <3>1 DEF Files
    <3>3. cli'.next \in 1 .. Len(Files)
      <4>1. cli.next \in 1 .. Len(Files) /\ Len(Files) \in Nat
        BY <1>1, <2>1, FileList DEF CommandOK, IsFileList, Files
      <4>2. QED
        BY <3>1, <4>1
    <3>4. QED
      BY <1>1, <2>1, <3>1, <3>2, <3>3 DEF CommandOK, Running
  <2>4. QED
    BY <1>7, <2>2, <2>3 DEF Served, GoesOn
<1>8. CASE OthersSend
  <2>1. UNCHANGED <<cli, runs, meddled>>
    BY <1>8 DEF OthersSend
  <2>2. ASSUME cli.at = "wait"
        PROVE  IsOurPut(requests'[cli.slot])
    <3>1. cli.slot \in Requests /\ IsOurPut(requests[cli.slot]) /\ requests[cli.slot].at # "idle"
      BY <1>1, <2>2 DEF CommandOK, IsOurPut, PutSteps
    <3>2. requests'[cli.slot] = requests[cli.slot]
      <4>1. CASE Create
        BY <4>1 DEF Create, CreateMetadata
      <4>2. ASSUME NEW r \in OtherSlots, Receive(r)
            PROVE  requests'[cli.slot] = requests[cli.slot]
        <5>1. At(r, "idle") /\ r \in Requests
          BY <4>2, SlotsAssumption DEF Receive, PublishReceive, UpdateReceive, PutReceive,
                                       DropReceive, DeleteReceive, Accept
        <5>2. cli.slot # r
          BY <3>1, <5>1 DEF At
        <5>3. Receive(r) => Arrive(r)
          BY UploadsAssumption DEF Receive, Arrive
        <5>4. QED
          BY <1>1, <3>1, <4>2, <5>1, <5>2, <5>3, OneRequestSteps
      <4>3. QED
        BY <1>8, <4>1, <4>2 DEF OthersSend
    <3>3. QED
      BY <3>1, <3>2
  <2>3. QED
    BY <1>1, <2>1, <2>2, CommandWaits DEF CommandOK
<1>9. ASSUME NEW r \in Requests, OthersServed(r)
      PROVE  CommandOK'
  <2>1. UNCHANGED <<cli, runs>> /\ cli.slot # r /\ (Serve(r) \/ Abort(r))
    BY <1>9 DEF OthersServed
  <2>2. meddled' \in SUBSET (Names \cup {"case"})
    BY <1>1, <1>9 DEF OthersServed, Noted, Written, CommandOK
  <2>3. ASSUME cli.at = "wait"
        PROVE  IsOurPut(requests'[cli.slot])
    <3>1. cli.slot \in Requests /\ IsOurPut(requests[cli.slot])
      BY <1>1, <2>3 DEF CommandOK
    <3>2. requests'[cli.slot] = requests[cli.slot]
      BY <1>1, <2>1, <3>1, OneRequestSteps
    <3>3. QED
      BY <3>1, <3>2
  <2>4. QED
    BY <1>1, <2>1, <2>2, <2>3, CommandWaits
<1>10. QED
  BY <1>2, <1>3, <1>4, <1>5, <1>6, <1>7, <1>8, <1>9 DEF CliNext, CliStep

LEMMA CliInitOK == CliInit => CliInv
  BY CommandInit, TypeInit DEF CliInv, CliInit

LEMMA CliStepOK == CliInv /\ [CliNext]_cliVars => CliInv'
  BY CommandStep, CommandSteps, TypeStep DEF CliInv

LEMMA CliHolds == CliSpec => []CliInv
  BY CliInitOK, CliStepOK, PTL DEF CliSpec

\* However the command is run, killed and run again, it is at one of its files,
\* has no slot but that of its own PUT while it waits, and counts its runs.
THEOREM CliTypeCorrect == CliSpec => []CliTypeOK
<1>1. CliInv => CliTypeOK
  <2> SUFFICES ASSUME CliInv PROVE CliTypeOK
    OBVIOUS
  <2>1. CommandOK /\ cli \in Command
    BY DEF CliInv, CommandOK
  <2>2. cli.next \in 0 .. (IF cli.flags = None THEN 0 ELSE Len(Artifacts(cli.flags)))
    <3>1. CASE cli.at = "off"
      BY <2>1, <3>1 DEF CommandOK, NotRunning
    <3>2. CASE cli.at # "off"
      <4>1. cli.flags # None /\ cli.next \in 1 .. Len(Files)
        BY <2>1, <3>2, NoneAsFlag DEF CommandOK
      <4>2. QED
        BY <4>1 DEF Files
    <3>3. QED
      BY <3>1, <3>2
  <2>3. QED
    BY <2>1, <2>2 DEF CliTypeOK, CommandOK, Command, IsOurPut
<1>2. QED
  BY <1>1, CliHolds, PTL

\* The command is a client like any other: however it is run, the service does
\* no step that it would not do for some client.
LEMMA CommandIsAClient == CliSpec => AnySpec
<1>1. CliInit => Init
  BY DEF CliInit
<1>2. CliInv /\ [CliNext]_cliVars => [AnyStep]_vars
  BY CommandSteps DEF CliInv
<1>3. QED
  BY <1>1, <1>2, CliHolds, PTL DEF CliSpec, AnySpec

\* What the service promises of every client holds of the command too, with its
\* files that cannot be read, its names that arrive cut off, its lost answers and
\* the requests it leaves behind: references stay consistent, metadata and
\* content agree, only managers write, publication is final as long as no write
\* is stale, and no late PUT brings back a deleted case.
THEOREM CommandBreaksNothing ==
    CliSpec => /\ []RefsAreConsistent /\ []ContentMatchesMetadata /\ []DraftIsPrivate
               /\ OnlyManagersWrite /\ PublicationIsFinal /\ DeletedStaysDeleted
  BY CommandIsAClient, AnyRefsCorrect, AnyContentAgrees, AnyDraftsPrivate, AnyOnlyManagers,
     AnyPublicationFinal, AnyDeletionIsFinal, PTL

-----------------------------------------------------------------------------
\* What a success means.

\* UpsertRef leaves the reference in the list.
LEMMA UpsertRefHas ==
    ASSUME NEW S, NEW refs \in Seq(S), NEW ref \in S, NEW key, UniqueBy(refs, key)
    PROVE  LET new == UpsertRef(refs, key, ref) IN ref \in {new[i] : i \in DOMAIN new}
<1> DEFINE new == UpsertRef(refs, key, ref)
<1>1. CASE Same(refs, key, ref) = {}
  <2>1. new = Append(refs, ref)
    BY <1>1 DEF UpsertRef
  <2>2. DOMAIN new = 1..(Len(refs) + 1) /\ new[Len(refs) + 1] = ref /\ Len(refs) \in Nat
    BY <2>1, AppendProperties
  <2>3. QED
    BY <2>2
<1>2. CASE Same(refs, key, ref) # {}
  <2>1. PICK k \in Same(refs, key, ref) : TRUE
    BY <1>2
  <2>2. k \in 1..Len(refs) /\ new = [refs EXCEPT ![k] = ref]
    BY <2>1, SameIsFirst
  <2>3. k \in DOMAIN new /\ new[k] = ref
    BY <2>2
  <2>4. QED
    BY <2>3
<1>3. QED
  BY <1>1, <1>2

\* The references of the document a link write stores.
LEMMA LinkedLists ==
    ASSUME NEW doc \in Document, NEW req \in Request, WellFormed(req), req.at = "put:link"
    PROVE  LET new == LinkDocument(doc, req)
               old == req.seen
               meta == MetaOf(req.upload)
               ref == [artifact |-> req.name, digest |-> meta.digest]
               env == [scope |-> NormalizeEnvironmentScope(req.upload.payload.scope),
                       artifact |-> req.name, digest |-> meta.digest]
           IN  /\ new.environments = IF meta.type = "environment"
                                       THEN UpsertRef(old.environments, "scope", env)
                                       ELSE old.environments
               /\ new.result = IF meta.type = "result" THEN ref ELSE old.result
               /\ new.scripts = IF meta.type = "script"
                                  THEN UpsertRef(old.scripts, "artifact", ref)
                                  ELSE old.scripts
               /\ env.scope \in Scopes \/ meta.type # "environment"
<1> DEFINE meta == MetaOf(req.upload)
           old == req.seen
           ref == [artifact |-> req.name, digest |-> meta.digest]
           env == [scope |-> NormalizeEnvironmentScope(req.upload.payload.scope),
                   artifact |-> req.name, digest |-> meta.digest]
           linked == Linked(old, req.name, meta, req.upload.payload)
<1>1. /\ old \in TestCase /\ RefsConsistent(old)
      /\ req.name \in Names
      /\ req.upload \in Upload
      /\ PutAllowed(old, req.upload)
      /\ IsLinked(meta.type)
  BY UploadType DEF WellFormed, PutSteps, Deciding
<1>2. /\ meta \in ArtifactMeta
      /\ req.upload.payload \in Payload
      /\ meta.type = "environment" => IsSnapshot(req.upload.payload)
  BY <1>1, UploadType DEF PutAllowed
<1>3. env.scope \in Scopes \/ meta.type # "environment"
  BY <1>2 DEF Payload, RawScopes, Scopes, IsSnapshot, NormalizeEnvironmentScope
<1>4. linked \in TestCase
  BY <1>1, <1>2, LinkedType
<1>5. LinkDocument(doc, req) = [linked EXCEPT !.owner = doc.owner]
  BY DEF LinkDocument, WithUpdateFields
<1>6. /\ linked.environments = IF meta.type = "environment"
                                 THEN UpsertRef(old.environments, "scope", env)
                                 ELSE old.environments
      /\ linked.result = IF meta.type = "result" THEN ref ELSE old.result
      /\ linked.scripts = IF meta.type = "script"
                            THEN UpsertRef(old.scripts, "artifact", ref)
                            ELSE old.scripts
  <2> HIDE DEF meta
  <2>1. CASE meta.type = "environment"
    BY <1>1, <2>1 DEF Linked, SetEnvironmentArtifact, TestCase
  <2>2. CASE meta.type = "result"
    BY <1>1, <2>2 DEF Linked, SetTestResultArtifact, TestCase
  <2>3. CASE meta.type = "script"
    BY <1>1, <2>3 DEF Linked, UpsertTestScriptArtifact, TestCase
  <2>4. QED
    BY <1>1, <2>1, <2>2, <2>3 DEF IsLinked
<1> HIDE DEF linked, ref, env
<1>7. /\ LinkDocument(doc, req).environments = linked.environments
      /\ LinkDocument(doc, req).result = linked.result
      /\ LinkDocument(doc, req).scripts = linked.scripts
  BY <1>4, <1>5 DEF TestCase
<1>8. QED
  BY <1>3, <1>6, <1>7 DEF ref, env

\* A link write makes the case refer to what was uploaded ...
LEMMA LinkRefers ==
    ASSUME NEW doc \in Document, NEW req \in Request, WellFormed(req), req.at = "put:link",
           NEW a, a.payload = req.upload.payload,
           MetaOf(req.upload).type = a.type, MetaOf(req.upload).digest = Sha256(a.payload)
    PROVE  RefersTo(LinkDocument(doc, req), a, req.name)
<1> DEFINE new == LinkDocument(doc, req)
           old == req.seen
           meta == MetaOf(req.upload)
           ref == [artifact |-> req.name, digest |-> meta.digest]
           env == [scope |-> NormalizeEnvironmentScope(req.upload.payload.scope),
                   artifact |-> req.name, digest |-> meta.digest]
<1>1. /\ old \in TestCase /\ RefsConsistent(old)
      /\ req.name \in Names /\ req.upload \in Upload
  BY DEF WellFormed, PutSteps, Deciding
<1>2. /\ old.environments \in Seq(EnvironmentRef) /\ UniqueBy(old.environments, "scope")
      /\ old.scripts \in Seq(ArtifactRef) /\ UniqueBy(old.scripts, "artifact")
  BY <1>1 DEF TestCase, RefsConsistent
<1>3. meta \in ArtifactMeta
  BY <1>1, UploadType
<1>4. /\ new.environments = IF meta.type = "environment"
                              THEN UpsertRef(old.environments, "scope", env)
                              ELSE old.environments
      /\ new.result = IF meta.type = "result" THEN ref ELSE old.result
      /\ new.scripts = IF meta.type = "script"
                         THEN UpsertRef(old.scripts, "artifact", ref)
                         ELSE old.scripts
      /\ env.scope \in Scopes \/ meta.type # "environment"
  BY LinkedLists
<1> HIDE DEF new, meta
<1>5. CASE a.type = "environment"
  <2>1. env \in EnvironmentRef
    BY <1>1, <1>3, <1>4, <1>5 DEF EnvironmentRef, ArtifactMeta, meta
  <2>2. env \in {new.environments[i] : i \in DOMAIN new.environments}
    <3> HIDE DEF env
    <3>1. env \in {UpsertRef(old.environments, "scope", env)[i] :
                     i \in DOMAIN UpsertRef(old.environments, "scope", env)}
      BY <1>2, <2>1, UpsertRefHas
    <3>2. QED
      BY <1>4, <1>5, <3>1 DEF meta
  <2>3. QED
    BY <1>5, <2>2 DEF RefersTo, new, meta
<1>6. CASE a.type = "result"
  BY <1>4, <1>6 DEF RefersTo, new, meta
<1>7. CASE a.type = "script"
  <2>1. ref \in ArtifactRef
    BY <1>1, <1>3 DEF ArtifactRef, ArtifactMeta
  <2>2. ref \in {new.scripts[i] : i \in DOMAIN new.scripts}
    <3> HIDE DEF ref
    <3>1. ref \in {UpsertRef(old.scripts, "artifact", ref)[i] :
                     i \in DOMAIN UpsertRef(old.scripts, "artifact", ref)}
      BY <1>2, <2>1, UpsertRefHas
    <3>2. QED
      BY <1>4, <1>7, <3>1 DEF meta
  <2>3. QED
    BY <1>7, <2>2 DEF RefersTo, new, meta
<1>8. CASE a.type \notin {"environment", "result", "script"}
  BY <1>8 DEF RefersTo
<1>9. QED
  BY <1>5, <1>6, <1>7, <1>8 DEF new

\* ... and keep the references to other artifacts, but for the snapshot or the
\* result that a new one takes the place of.
LEMMA LinkKeepsOthers ==
    ASSUME NEW doc \in Document, NEW req \in Request, WellFormed(req), req.at = "put:link",
           NEW b, NEW n, n # req.name, RefersTo(req.seen, b, n),
           b.type \in {"environment", "result"} => MetaOf(req.upload).type # b.type
    PROVE  RefersTo(LinkDocument(doc, req), b, n)
<1> DEFINE new == LinkDocument(doc, req)
           old == req.seen
           meta == MetaOf(req.upload)
           ref == [artifact |-> req.name, digest |-> meta.digest]
           kept == [artifact |-> n, digest |-> Sha256(b.payload)]
<1>1. /\ old \in TestCase /\ RefsConsistent(old)
      /\ req.name \in Names /\ req.upload \in Upload
  BY DEF WellFormed, PutSteps, Deciding
<1>2. old.scripts \in Seq(ArtifactRef) /\ UniqueBy(old.scripts, "artifact")
  BY <1>1 DEF TestCase, RefsConsistent
<1>3. meta \in ArtifactMeta
  BY <1>1, UploadType
<1>4. /\ meta.type # "environment" => new.environments = old.environments
      /\ meta.type # "result" => new.result = old.result
      /\ new.scripts = IF meta.type = "script"
                         THEN UpsertRef(old.scripts, "artifact", ref)
                         ELSE old.scripts
  BY LinkedLists
<1>5. ref \in ArtifactRef
  BY <1>1, <1>3 DEF ArtifactRef, ArtifactMeta
<1> HIDE DEF new, meta
<1>6. CASE b.type = "environment" \/ b.type = "result"
  BY <1>4, <1>6 DEF RefersTo, new, meta
<1>7. CASE b.type = "script"
  <2>1. PICK i \in DOMAIN old.scripts : old.scripts[i] = kept
    BY <1>7 DEF RefersTo
  <2>2. old.scripts[i].artifact # ref.artifact
    BY <2>1
  <2>3. i \in DOMAIN new.scripts /\ new.scripts[i] = kept
    <3> HIDE DEF ref, kept
    <3>1. CASE meta.type = "script"
      <4>1. \A j \in DOMAIN old.scripts : old.scripts[j]["artifact"] # ref["artifact"]
              => /\ j \in DOMAIN UpsertRef(old.scripts, "artifact", ref)
                 /\ UpsertRef(old.scripts, "artifact", ref)[j] = old.scripts[j]
        BY <1>2, <1>5, UpsertRefEntries
      <4>2. QED
        BY <1>4, <2>1, <2>2, <3>1, <4>1
    <3>2. CASE meta.type # "script"
      BY <1>4, <2>1, <3>2
    <3>3. QED
      BY <3>1, <3>2
  <2>4. QED
    BY <1>7, <2>3 DEF RefersTo, new
<1>8. CASE b.type \notin {"environment", "result", "script"}
  BY <1>8 DEF RefersTo
<1>9. QED
  BY <1>6, <1>7, <1>8 DEF new

\* What the command left in place is still there after a step that leaves it
\* alone, or that is noted as meddling.
LEMMA HoldsKept ==
    ASSUME NEW a, NEW n, Holds(a, n), cli'.case = cli.case, meddled \subseteq meddled',
           artifacts'[cli.case][n] = artifacts[cli.case][n],
           objects'[cli.case][n] = objects[cli.case][n],
           "case" \notin meddled' /\ Exists(cli.case)
             => testCases'[cli.case] = testCases[cli.case]
    PROVE  Holds(a, n)'
  BY DEF Holds, Exists, View

LEMMA StoredKept ==
    ASSUME NEW k, NEW but, Stored(k, but),
           cli'.case = cli.case, cli'.flags = cli.flags, meddled \subseteq meddled',
           \A n \in Names \ (meddled' \cup but) :
             /\ artifacts'[cli.case][n] = artifacts[cli.case][n]
             /\ objects'[cli.case][n] = objects[cli.case][n],
           "case" \notin meddled' /\ Exists(cli.case)
             => testCases'[cli.case] = testCases[cli.case]
    PROVE  Stored(k, but)'
<1>1. Files' = Files
  BY DEF Files
<1> SUFFICES ASSUME NEW n \in Names \ (meddled' \cup but), NEW i \in LastUnder(k, n)
             PROVE  Holds(Files[i], n)'
  BY <1>1 DEF Stored, LastUnder
<1>2. PICK a : a = Files[i]
  OBVIOUS
<1>3. Holds(a, n)
  BY <1>2 DEF Stored
<1>4. Holds(a, n)'
  BY <1>3, HoldsKept
<1>5. QED
  BY <1>1, <1>2, <1>4 DEF Holds

\* Of the files up to k, the last one under a name is k itself, or the one it
\* was before.
LEMMA LastMoves ==
    ASSUME NEW k \in Nat, NEW n, NEW i \in LastUnder(k + 1, n)
    PROVE  IF ServerName(Files[k + 1].name) = n THEN i = k + 1 ELSE i \in LastUnder(k, n)
<1>1. /\ i \in 1 .. k + 1 /\ ServerName(Files[i].name) = n
      /\ \A j \in 1 .. k + 1 : ServerName(Files[j].name) = n => j <= i
  BY DEF LastUnder
<1>2. k + 1 \in 1 .. k + 1 /\ \A j \in 1 .. k : j \in 1 .. k + 1
  OBVIOUS
<1>3. CASE ServerName(Files[k + 1].name) = n
  BY <1>1, <1>2, <1>3
<1>4. CASE ServerName(Files[k + 1].name) # n
  <2>1. i # k + 1
    BY <1>1, <1>4
  <2>2. i \in 1 .. k
    BY <1>1, <2>1
  <2>3. QED
    BY <1>1, <1>2, <1>4, <2>2 DEF LastUnder
<1>5. QED
  BY <1>3, <1>4

\* Nothing was sent under any name before the first file.
LEMMA NothingSent == \A but : Stored(0, but)
  BY DEF Stored, LastUnder

\* The upload of a file is complete with its record, or with its reference.
LEMMA AllStored ==
    ASSUME NEW k \in Nat, cli.next = k + 1, cli'.case = cli.case, cli'.flags = cli.flags,
           NEW a, a = Current, NEW t, t = Target,
           Stored(k, {t})', t \in Names \ meddled' => Holds(a, t)'
    PROVE  Stored(k + 1, {})'
<1>1. Files' = Files
  BY DEF Files
<1>2. t = ServerName(Files[k + 1].name) /\ a = Files[k + 1]
  BY DEF Target, Current
<1> SUFFICES ASSUME NEW n \in Names \ meddled', NEW i \in LastUnder(k + 1, n)
             PROVE  Holds(Files[i], n)'
  BY <1>1 DEF Stored, LastUnder
<1>3. CASE n = t
  <2>1. i = k + 1 /\ Holds(a, n)'
    BY <1>2, <1>3, LastMoves
  <2>2. QED
    BY <1>1, <1>2, <2>1 DEF Holds
<1>4. CASE n # t
  <2>1. i \in LastUnder(k, n)
    BY <1>2, <1>4, LastMoves
  <2>2. QED
    BY <1>1, <1>4, <2>1 DEF Stored, LastUnder
<1>5. QED
  BY <1>3, <1>4

\* What one step of a PUT writes.
LEMMA PutWrites ==
    ASSUME TypeInv, NEW r \in Requests, requests[r].at \in PutSteps, Serve(r)
    PROVE  LET req == requests[r] IN
           /\ PutAuthorize(r) \/ PutLoad(r) \/ PutStore(r) \/ PutMeta(r) \/ PutLink(r)
           /\ \A n \in Names \ {req.name} :
                /\ artifacts'[req.case][n] = artifacts[req.case][n]
                /\ objects'[req.case][n] = objects[req.case][n]
           /\ PutStore(r) => objects'[req.case][req.name] = req.upload.payload
           /\ PutMeta(r) => artifacts'[req.case][req.name] = MetaOf(req.upload)
           /\ ~PutStore(r) => objects' = objects
           /\ ~PutMeta(r) => artifacts' = artifacts
           /\ ~PutLink(r) => testCases' = testCases
<1> DEFINE req == requests[r]
<1>1. /\ artifacts \in [Cases -> [Names -> ArtifactMeta \cup {None}]]
      /\ objects \in [Cases -> [Names -> Payload \cup {None}]]
      /\ req.case \in Cases /\ req.name \in Names
  BY DEF TypeInv, TypeOK, WellFormed, PutSteps
<1>2. PutAuthorize(r) \/ PutLoad(r) \/ PutStore(r) \/ PutMeta(r) \/ PutLink(r)
  BY DEF Serve, At, PutSteps, PublishWrite, UpdateWrite, DropAuthorize, DropFind, DropGuard,
         DropObject, DropMeta, DeleteList, DeleteObject, DeleteMeta, DeleteCase,
         CheckOwnership
<1>3. CASE PutAuthorize(r) \/ PutLoad(r)
  <2>1. ~PutStore(r) /\ ~PutMeta(r) /\ ~PutLink(r)
    BY <1>3 DEF PutAuthorize, PutLoad, CheckOwnership, PutStore, PutMeta, PutLink, At
  <2>2. UNCHANGED stores
    BY <1>3 DEF PutAuthorize, PutLoad, CheckOwnership
  <2>3. QED
    BY <1>2, <2>1, <2>2 DEF stores
<1>4. CASE PutStore(r)
  <2>1. /\ ~PutMeta(r) /\ ~PutLink(r) /\ UNCHANGED <<testCases, artifacts>>
        /\ objects' = [objects EXCEPT ![req.case][req.name] = req.upload.payload]
    BY <1>4 DEF PutStore, PutMeta, PutLink, At, WriteObject
  <2>2. QED
    BY <1>1, <1>2, <1>4, <2>1
<1>5. CASE PutMeta(r)
  <2>1. /\ ~PutStore(r) /\ ~PutLink(r) /\ UNCHANGED <<testCases, objects>>
        /\ artifacts' = [artifacts EXCEPT ![req.case][req.name] = MetaOf(req.upload)]
    BY <1>5 DEF PutStore, PutMeta, PutLink, At, WriteMeta
  <2>2. QED
    BY <1>1, <1>2, <1>5, <2>1
<1>6. CASE PutLink(r)
  <2>1. ~PutStore(r) /\ ~PutMeta(r) /\ UNCHANGED <<artifacts, objects>>
    BY <1>6 DEF PutStore, PutMeta, PutLink, At
  <2>2. QED
    BY <1>2, <1>6, <2>1
<1>7. QED
  BY <1>2, <1>3, <1>4, <1>5, <1>6

\* The file that is being uploaded.
LEMMA CurrentFile ==
    ASSUME CommandOK, Running
    PROVE  /\ cli.flags \in Invocations /\ IsFileList(Files) /\ Files \in Seq(UploadFile)
           /\ cli.next \in 1 .. Len(Files) /\ Len(Files) \in Nat
           /\ Current \in UploadFile
           /\ UploadOf(Current) \in Upload /\ UploadOf(Current).payload = Current.payload
           /\ MetaOf(UploadOf(Current)).type = Current.type
           /\ MetaOf(UploadOf(Current)).digest = Sha256(Current.payload)
<1>1. /\ cli.flags \in Invocations /\ AllReadable(cli.flags)
      /\ cli.next \in 1 .. Len(Files)
  BY DEF CommandOK, Running
<1>2. IsFileList(Files) /\ Files \in Seq(UploadFile) /\ Len(Files) \in Nat
  BY <1>1, FileList DEF Files, IsFileList
<1>3. QED
  BY <1>1, <1>2, FileUpload DEF Files, Current

\* While its PUT goes on, the command's files stay where they are.
LEMMA PutProgress ==
    ASSUME ProgressInv, cli.at = "wait", NEW r \in Requests, r = cli.slot,
           Serve(r), requests'[r].at # "idle", UNCHANGED <<cli, meddled>>
    PROVE  Stored(cli.next - 1, {Target})' /\ UnderWay(requests[cli.slot])'
<1>1. /\ CliInv /\ CommandOK /\ TypeInv /\ IsOurPut(requests[r]) /\ Running
      /\ requests[r].case \in Cases
  BY DEF ProgressInv, CliInv, CommandOK, Running, IsOurPut
<1> DEFINE req == requests[r]
           new == requests'[r]
           c == cli.case
<1>2. req.at \in PutSteps /\ req.case = c /\ req.name = Target /\ req.upload = UploadOf(Current)
  BY <1>1 DEF IsOurPut
<1>3. PICK k, t, a : k = cli.next - 1 /\ t = Target /\ a = Current
  OBVIOUS
<1>4. Files' = Files /\ Current' = Current /\ Target' = Target
  BY DEF Files, Current, Target
<1>5. /\ Stored(k, {t})
      /\ t \notin meddled =>
           /\ req.at \in {"put:meta", "put:link"} => objects[c][t] = a.payload
           /\ req.at = "put:link" => artifacts[c][t] = MetaOf(UploadOf(a))
      /\ "case" \notin meddled /\ req.at \in Deciding => Exists(c) /\ req.seen = View(c)
  BY <1>3 DEF ProgressInv, UnderWay
<1>6. /\ \A n \in Names \ {t} : artifacts'[c][n] = artifacts[c][n] /\ objects'[c][n] = objects[c][n]
      /\ PutStore(r) => objects'[c][t] = a.payload
      /\ PutMeta(r) => artifacts'[c][t] = MetaOf(UploadOf(a))
      /\ ~PutStore(r) => objects' = objects
      /\ ~PutMeta(r) => artifacts' = artifacts
      /\ ~PutLink(r) => testCases' = testCases
  BY <1>1, <1>2, <1>3, PutWrites, CurrentFile
<1>7. \/ PutAuthorize(r) /\ new.at = "put:load"
      \/ PutLoad(r) /\ new.at = "put:store"
      \/ PutStore(r) /\ new.at = "put:meta"
      \/ PutMeta(r) /\ new.at = "put:link"
  BY <1>1, <1>2, PutGoesOn
<1>8. ~PutLink(r) /\ testCases' = testCases
  BY <1>6, <1>7 DEF PutAuthorize, PutLoad, PutStore, PutMeta, PutLink, CheckOwnership, At
<1>9. Stored(k, {t})'
  BY <1>5, <1>6, <1>8, StoredKept
<1>10. t \notin meddled =>
         /\ new.at \in {"put:meta", "put:link"} => objects'[c][t] = a.payload
         /\ new.at = "put:link" => artifacts'[c][t] = MetaOf(UploadOf(a))
  BY <1>5, <1>6, <1>7 DEF PutMeta, PutStore, At
<1>11. "case" \notin meddled /\ new.at \in Deciding
         => testCases'[c] # None /\ new.seen = FromDocument(testCases'[c])
  <2>1. CASE PutLoad(r)
    <3>1. requests \in [Requests -> Request]
      BY <1>1 DEF TypeInv, TypeOK
    <3>2. /\ testCases[req.case] # None
          /\ requests' = [requests EXCEPT ![r].at = "put:store",
                                          ![r].seen = FromDocument(testCases[req.case])]
      <4>1. ~Finish(r)
        BY <3>1 DEF Finish, Idle
      <4>2. QED
        BY <2>1, <4>1 DEF PutLoad
    <3>3. new.seen = FromDocument(testCases[req.case])
      BY <3>1, <3>2 DEF Request
    <3>4. QED
      BY <1>2, <1>8, <3>2, <3>3
  <2>2. CASE PutAuthorize(r)
    BY <1>7, <2>2 DEF PutAuthorize, PutLoad, PutStore, PutMeta, CheckOwnership, At, Deciding
  <2>3. CASE PutStore(r) \/ PutMeta(r)
    <3>1. new.seen = req.seen
      BY <1>1, <2>3, ServedRequest DEF PutLoad, PutStore, PutMeta, At
    <3>2. req.at \in Deciding
      BY <2>3 DEF PutStore, PutMeta, At, Deciding
    <3>3. QED
      BY <1>5, <1>8, <3>1, <3>2 DEF Exists, View
  <2>4. QED
    BY <1>7, <2>1, <2>2, <2>3
<1>12. UnderWay(requests[cli.slot])'
  BY <1>3, <1>4, <1>10, <1>11 DEF UnderWay, Exists, View
<1>13. Stored(cli.next - 1, {Target})'
  BY <1>3, <1>4, <1>9 DEF Stored, LastUnder
<1>14. QED
  BY <1>12, <1>13

\* When its PUT is answered with success, the file is stored and linked.
LEMMA PutDone ==
    ASSUME ProgressInv, cli.at = "wait", NEW r \in Requests, r = cli.slot,
           Serve(r), AnswersOK(r), meddled' = meddled,
           cli'.case = cli.case, cli'.flags = cli.flags, NEW next, next = cli.next
    PROVE  Stored(next, {})'
<1>1. /\ CliInv /\ CommandOK /\ TypeInv /\ IsOurPut(requests[r]) /\ Running
      /\ cli.case \in Cases
      /\ requests[r] \in Request /\ WellFormed(requests[r])
      /\ testCases \in [Cases -> Document \cup {None}]
  BY DEF ProgressInv, CliInv, CommandOK, Running, IsOurPut, TypeInv, TypeOK
<1> DEFINE req == requests[r]
           c == cli.case
<1>2. req.at \in PutSteps /\ req.case = c /\ req.name = Target /\ req.upload = UploadOf(Current)
  BY <1>1 DEF IsOurPut
<1>3. /\ IsFileList(Files) /\ Len(Files) \in Nat /\ cli.next \in 1 .. Len(Files)
      /\ UploadOf(Current).payload = Current.payload
      /\ MetaOf(UploadOf(Current)).type = Current.type
      /\ MetaOf(UploadOf(Current)).digest = Sha256(Current.payload)
  BY <1>1, CurrentFile
<1>4. PICK k, t, a : k \in Nat /\ k = cli.next - 1 /\ cli.next = k + 1 /\ t = Target /\ a = Current
  BY <1>3
<1>5. /\ Stored(k, {t})
      /\ t \notin meddled =>
           /\ req.at \in {"put:meta", "put:link"} => objects[c][t] = a.payload
           /\ req.at = "put:link" => artifacts[c][t] = MetaOf(UploadOf(a))
      /\ "case" \notin meddled /\ req.at \in Deciding => Exists(c) /\ req.seen = View(c)
  BY <1>4 DEF ProgressInv, UnderWay
<1>6. /\ \A n \in Names \ {t} : artifacts'[c][n] = artifacts[c][n] /\ objects'[c][n] = objects[c][n]
      /\ PutMeta(r) => artifacts'[c][t] = MetaOf(UploadOf(a))
      /\ ~PutStore(r) => objects' = objects
      /\ ~PutMeta(r) => artifacts' = artifacts
      /\ ~PutLink(r) => testCases' = testCases
      /\ PutAuthorize(r) \/ PutLoad(r) \/ PutStore(r) \/ PutMeta(r) \/ PutLink(r)
  BY <1>1, <1>2, <1>4, PutWrites
<1>7. CASE At(r, "put:meta") /\ ~IsLinked(MetaOf(req.upload).type)
  <2>1. PutMeta(r) /\ ~PutLink(r) /\ ~PutStore(r)
    BY <1>6, <1>7 DEF At, PutAuthorize, PutLoad, PutStore, PutMeta, PutLink, CheckOwnership
  <2>2. Stored(k, {t})'
    BY <1>5, <1>6, <2>1, StoredKept
  <2>3. t \in Names \ meddled' => Holds(a, t)'
    <3>1. a.type \notin {"environment", "result", "script"}
      BY <1>2, <1>3, <1>4, <1>7 DEF IsLinked
    <3>2. req.at = "put:meta" /\ req.at \in Deciding
      BY <1>7 DEF At, Deciding
    <3>3. \A tc : RefersTo(tc, a, t)
      BY <3>1 DEF RefersTo
    <3>4. QED
      BY <1>5, <1>6, <2>1, <3>2, <3>3 DEF Holds, Exists, View
  <2>4. Stored(k + 1, {})'
    BY <1>4, <2>2, <2>3, AllStored
  <2>5. QED
    BY <1>4, <2>4
<1>8. CASE At(r, "put:link") /\ testCases[req.case] # None
  <2>1. PutLink(r) /\ ~PutMeta(r) /\ ~PutStore(r) /\ req.at = "put:link" /\ req.at \in Deciding
    BY <1>6, <1>8 DEF At, PutAuthorize, PutLoad, PutStore, PutMeta, PutLink, CheckOwnership,
                      Deciding
  <2>2. PICK doc \in Document : doc = testCases[c]
    BY <1>1, <1>2, <1>8
  <2> DEFINE new == LinkDocument(doc, req)
  <2>3. testCases'[c] = new
    BY <1>1, <1>2, <1>8, <2>1, <2>2 DEF PutLink, UpdateOne, LinkDocument
  <2>4. new \in TestCase /\ FromDocument(new) = new /\ new # None
    BY <1>1, <2>1, LinkType, TestCaseIsDocument, NoneIsNoDocument
  <2>5. \A b, n : /\ b.type \in {"environment", "result"} => a.type # b.type
                  /\ n # t
                  /\ Holds(b, n)
                  /\ n \in Names
                  => Holds(b, n)'
    <3> SUFFICES ASSUME NEW b, NEW n,
                        b.type \in {"environment", "result"} => a.type # b.type,
                        n # t, Holds(b, n), n \in Names
                 PROVE  Holds(b, n)'
      OBVIOUS
    <3>1. artifacts'[c][n] = MetaOf(UploadOf(b)) /\ objects'[c][n] = b.payload
      BY <1>6 DEF Holds
    <3>2. ASSUME "case" \notin meddled
          PROVE  RefersTo(new, b, n)
      <4>1. RefersTo(req.seen, b, n)
        BY <1>5, <2>1, <3>2 DEF Holds
      <4>2. req.name # n /\ MetaOf(req.upload).type = a.type
        BY <1>2, <1>3, <1>4
      <4> HIDE DEF req
      <4>3. req \in Request /\ WellFormed(req) /\ req.at = "put:link"
        BY <1>1, <2>1 DEF req
      <4>4. QED
        BY <4>1, <4>2, <4>3, LinkKeepsOthers
    <3> HIDE DEF new
    <3>3. QED
      BY <2>3, <2>4, <3>1, <3>2 DEF Holds, Exists, View
  <2>6. t \in Names \ meddled' => Holds(a, t)'
    <3>1. RefersTo(new, a, t)
      <4>1. /\ req.name = t /\ a.payload = req.upload.payload
            /\ MetaOf(req.upload).type = a.type
            /\ MetaOf(req.upload).digest = Sha256(a.payload)
        BY <1>2, <1>3, <1>4
      <4> HIDE DEF req
      <4>2. req \in Request /\ WellFormed(req) /\ req.at = "put:link"
        BY <1>1, <2>1 DEF req
      <4>3. QED
        BY <4>1, <4>2, LinkRefers
    <3> HIDE DEF new
    <3>2. QED
      BY <1>5, <1>6, <2>1, <2>3, <2>4, <3>1 DEF Holds, Exists, View
  <2>7. Stored(k, {t})'
    <3>1. Files' = Files
      BY DEF Files
    <3> SUFFICES ASSUME NEW n \in Names \ (meddled \cup {t}), NEW i \in LastUnder(k, n)
                 PROVE  Holds(Files[i], n)'
      BY <3>1 DEF Stored, LastUnder
    <3>2. PICK b : b = Files[i]
      OBVIOUS
    <3>3. Holds(b, n)
      BY <1>5, <3>2 DEF Stored
    <3>4. b.type \in {"environment", "result"} => a.type # b.type
      <4>1. i \in 1 .. k /\ i # cli.next /\ cli.next \in 1 .. Len(Files) /\ i \in 1 .. Len(Files)
        BY <1>3, <1>4 DEF LastUnder
      <4>2. \A j \in 1 .. Len(Files) :
              /\ Files[j].type = "environment" => j = 1
              /\ Files[j].type = "result" => j = 2
        BY <1>3 DEF IsFileList, LaterTypes
      <4>3. QED
        BY <1>4, <3>2, <4>1, <4>2 DEF Current
    <3>5. Holds(b, n)'
      BY <2>5, <3>3, <3>4
    <3>6. QED
      BY <3>1, <3>2, <3>5 DEF Holds
  <2>8. Stored(k + 1, {})'
    BY <1>4, <2>6, <2>7, AllStored
  <2>9. QED
    BY <1>4, <2>8
<1>9. QED
  BY <1>7, <1>8 DEF AnswersOK

\* A step of the service that is not one of the command: the command's files
\* stay, as far as the step does not meddle with them.
LEMMA OthersKeep ==
    ASSUME ProgressInv, UNCHANGED cli, meddled \subseteq meddled',
           cli.at \in {"send", "wait", "done"},
           \A n \in Names \ meddled' :
             /\ artifacts'[cli.case][n] = artifacts[cli.case][n]
             /\ objects'[cli.case][n] = objects[cli.case][n],
           "case" \notin meddled' /\ Exists(cli.case)
             => testCases'[cli.case] = testCases[cli.case],
           cli.at = "wait" => requests'[cli.slot] = requests[cli.slot],
           (CliInv /\ AccessInv)'
    PROVE  ProgressInv'
<1>1. Files' = Files /\ Current' = Current /\ Target' = Target
  BY DEF Files, Current, Target
<1>2. PICK k, t, a, next : k = cli.next - 1 /\ t = Target /\ a = Current /\ next = cli.next
  OBVIOUS
<1>3. CASE cli.at = "send"
  <2>1. Stored(k, {})'
    BY <1>2, <1>3, StoredKept DEF ProgressInv
  <2>2. QED
    BY <1>1, <1>2, <1>3, <2>1 DEF ProgressInv, Stored, LastUnder
<1>4. CASE cli.at = "done"
  <2>1. Stored(next, {})'
    BY <1>2, <1>4, StoredKept DEF ProgressInv
  <2>2. QED
    BY <1>1, <1>2, <1>4, <2>1 DEF ProgressInv, Stored, LastUnder
<1>5. CASE cli.at = "wait"
  <2>1. Stored(k, {t})'
    <3>1. Stored(k, {t})
      BY <1>2, <1>5 DEF ProgressInv
    <3>2. QED
      BY <3>1, StoredKept
  <2>2. t \in Names
    <3>1. /\ cli.slot \in Requests /\ IsOurPut(requests[cli.slot])
          /\ WellFormed(requests[cli.slot])
      BY <1>5, SlotsAssumption DEF ProgressInv, CliInv, CommandOK, TypeInv
    <3>2. QED
      BY <1>2, <3>1 DEF IsOurPut, WellFormed
  <2>3. UnderWay(requests[cli.slot])
    BY <1>5 DEF ProgressInv
  <2>4. UnderWay(requests[cli.slot])'
    BY <1>1, <1>2, <1>5, <2>2, <2>3 DEF UnderWay, Exists, View
  <2>5. QED
    BY <1>1, <1>2, <1>5, <2>1, <2>4 DEF ProgressInv, Stored, LastUnder
<1>6. QED
  BY <1>3, <1>4, <1>5

\* A request that has just arrived has written nothing.
LEMMA ReceivedKeeps ==
    ASSUME NEW r, Receive(r)
    PROVE  UNCHANGED stores
  BY DEF Receive, PublishReceive, UpdateReceive, PutReceive, DropReceive, DeleteReceive

LEMMA ProgressInit == CliInit => ProgressInv
  BY CliInitOK, AccessInit DEF ProgressInv, CliInit, NotRunning

LEMMA ProgressStep == ProgressInv /\ [CliNext]_cliVars => ProgressInv'
<1> SUFFICES ASSUME ProgressInv, [CliNext]_cliVars PROVE ProgressInv'
  OBVIOUS
<1>1. /\ CliInv /\ CommandOK /\ TypeInv /\ AccessInv /\ cli \in Command
      /\ requests \in [Requests -> Request]
      /\ CliSlots \subseteq Requests
  BY SlotsAssumption DEF ProgressInv, CliInv, CommandOK, TypeInv, TypeOK
<1>2. (CliInv /\ AccessInv)'
  BY <1>1, CliStepOK, CommandSteps, AccessStep
<1>3. CASE cli'.at \notin {"send", "wait", "done"}
  BY <1>2, <1>3 DEF ProgressInv
<1> SUFFICES ASSUME cli'.at \in {"send", "wait", "done"} PROVE ProgressInv'
  BY <1>3
<1>4. CASE UNCHANGED cliVars
  BY <1>1, <1>2, <1>4, OthersKeep DEF cliVars, vars
<1>5. ASSUME NEW flags \in Invocations, Start(flags)
      PROVE  ProgressInv'
  <2>1. cli'.next = 1 /\ cli'.at # "wait" /\ cli'.at # "done"
    BY <1>5 DEF Start, NotRunning
  <2>2. Stored(0, {})'
    BY DEF Stored, LastUnder
  <2>3. QED
    BY <1>2, <2>1, <2>2 DEF ProgressInv
<1>6. CASE CreateCase
  <2>1. cli.at = "create" /\ cli.next = 1
    BY <1>1, <1>6 DEF CreateCase, CommandOK
  <2>2. PICK c \in Cases : cli' = [cli EXCEPT !.at = "send", !.case = c] \/ cli' = Ends("failed")
    BY <1>6 DEF CreateCase
  <2>3. cli'.next = 1 /\ cli'.at # "wait" /\ cli'.at # "done"
    BY <1>1, <2>1, <2>2, CommandEnds DEF Command
  <2>4. Stored(0, {})'
    BY DEF Stored, LastUnder
  <2>5. QED
    BY <1>2, <2>3, <2>4 DEF ProgressInv
<1>7. CASE CreateFails \/ SendFails \/ Kill
  <2>1. cli' = Ends("failed")
    BY <1>7 DEF CreateFails, SendFails, Kill
  <2>2. QED
    BY <1>1, <2>1, CommandEnds
<1>8. ASSUME NEW r \in CliSlots, Send(r)
      PROVE  ProgressInv'
  <2>1. /\ cli.at = "send" /\ UNCHANGED <<runs, meddled>>
        /\ cli' = [cli EXCEPT !.at = "wait", !.slot = r]
        /\ PutReceive(r, Caller, cli.case, Target, UploadOf(Current))
    BY <1>8 DEF Send, Target, Current, Files
  <2>2. /\ cli'.at = "wait" /\ cli'.slot = r
        /\ cli'.flags = cli.flags /\ cli'.next = cli.next /\ cli'.case = cli.case
    BY <1>1, <2>1 DEF Command
  <2>3. UNCHANGED stores
    BY <2>1 DEF PutReceive
  <2>4. PICK k, t : k = cli.next - 1 /\ t = Target
    OBVIOUS
  <2>5. Files' = Files /\ Target' = Target
    BY <2>2 DEF Files, Current, Target
  <2>6. Stored(k, {t})'
    <3>1. Stored(k, {t})
      BY <2>1, <2>4 DEF ProgressInv, Stored
    <3>2. QED
      BY <2>1, <2>2, <2>3, <3>1, StoredKept DEF stores
  <2>7. requests'[r].at \notin Deciding
    <3>1. PICK step : /\ step = FirstStep(Caller, "put:authorize", "put:load")
                      /\ requests' = [requests EXCEPT ![r] =
                           [Idle EXCEPT !.at = step, !.caller = Caller, !.case = cli.case,
                                        !.name = Target, !.upload = UploadOf(Current)]]
      BY <2>1 DEF PutReceive, Accept
    <3>2. requests'[r].at = step
      BY <1>1, <3>1 DEF Idle
    <3>3. QED
      BY <3>1, <3>2 DEF FirstStep, Deciding
  <2>8. UnderWay(requests[cli.slot])'
    BY <2>2, <2>7 DEF UnderWay, Deciding
  <2>9. QED
    BY <1>2, <2>2, <2>4, <2>5, <2>6, <2>8 DEF ProgressInv, Stored, LastUnder
<1>9. ASSUME NEW r \in CliSlots, Served(r)
      PROVE  ProgressInv'
  <2>1. cli.at = "wait" /\ cli.slot = r /\ UNCHANGED <<runs, meddled>> /\ r \in Requests
    BY <1>1, <1>9 DEF Served
  <2>2. CASE Serve(r) /\ requests'[r].at # "idle" /\ UNCHANGED cli
    BY <1>2, <2>1, <2>2, PutProgress DEF ProgressInv
  <2>3. CASE GoesOn(FALSE)
    BY <1>1, <2>1, <2>3, CommandGoesOn
  <2>4. CASE Serve(r) /\ GoesOn(AnswersOK(r)) /\ AnswersOK(r)
    <3>1. GoesOn(TRUE)
      BY <2>4 DEF GoesOn
    <3>2. PICK next : next = cli.next
      OBVIOUS
    <3>3. /\ cli'.flags = cli.flags /\ cli'.case = cli.case
          /\ \/ cli'.at = "failed"
             \/ cli'.at = "done" /\ cli'.next = next
             \/ cli'.at = "send" /\ cli'.next = next + 1
      BY <1>1, <2>1, <3>1, <3>2, CommandGoesOn
    <3>4. Stored(next, {})'
      BY <2>1, <2>4, <3>2, <3>3, PutDone
    <3>5. next \in Nat
      BY <1>1, <3>2 DEF Command
    <3>6. QED
      BY <1>2, <3>3, <3>4, <3>5 DEF ProgressInv
  <2>5. CASE GoesOn(AnswersOK(r)) /\ ~AnswersOK(r)
    <3>1. GoesOn(FALSE)
      BY <2>5 DEF GoesOn
    <3>2. QED
      BY <2>3, <3>1
  <2>6. QED
    BY <1>9, <2>2, <2>3, <2>4, <2>5 DEF Served
<1>10. CASE OthersSend
  <2>1. UNCHANGED <<cli, runs, meddled>>
    BY <1>10 DEF OthersSend
  <2>2. UNCHANGED <<artifacts, objects>>
    <3>1. CASE Create
      BY <3>1 DEF Create, CreateMetadata
    <3>2. CASE \E r \in OtherSlots : Receive(r)
      BY <3>2, ReceivedKeeps DEF stores
    <3>3. QED
      BY <1>10, <3>1, <3>2 DEF OthersSend
  <2>3. ASSUME Exists(cli.case), cli.case \in Cases
        PROVE  testCases'[cli.case] = testCases[cli.case]
    <3>1. CASE Create
      <4>1. cli.case \in issued
        BY <1>1, <2>3 DEF AccessInv
      <4>2. PICK c \in Cases : c \notin issued /\ \E doc : testCases' = [testCases EXCEPT ![c] = doc]
        BY <3>1 DEF Create, CreateMetadata
      <4>3. QED
        BY <1>1, <4>1, <4>2 DEF TypeInv, TypeOK
    <3>2. CASE \E r \in OtherSlots : Receive(r)
      BY <3>2, ReceivedKeeps DEF stores
    <3>3. QED
      BY <1>10, <3>1, <3>2 DEF OthersSend
  <2>4. ASSUME cli.at = "wait"
        PROVE  requests'[cli.slot] = requests[cli.slot]
    <3>1. cli.slot \in Requests /\ IsOurPut(requests[cli.slot]) /\ requests[cli.slot].at # "idle"
      BY <1>1, <2>4 DEF CommandOK, IsOurPut, PutSteps
    <3>2. CASE Create
      BY <3>2 DEF Create, CreateMetadata
    <3>3. ASSUME NEW r \in OtherSlots, Receive(r)
          PROVE  requests'[cli.slot] = requests[cli.slot]
      <4>1. At(r, "idle") /\ r \in Requests
        BY <3>3, SlotsAssumption DEF Receive, PublishReceive, UpdateReceive, PutReceive,
                                     DropReceive, DeleteReceive, Accept
      <4>2. cli.slot # r
        BY <3>1, <4>1 DEF At
      <4>3. Arrive(r)
        BY <3>3, UploadsAssumption DEF Receive, Arrive
      <4>4. QED
        BY <1>1, <3>1, <4>1, <4>2, <4>3, OneRequestSteps
    <3>4. QED
      BY <1>10, <3>2, <3>3 DEF OthersSend
  <2>5. cli.at \in {"send", "wait", "done"} => cli.case \in Cases
    BY <1>1 DEF CommandOK
  <2>6. QED
    BY <1>2, <2>1, <2>2, <2>3, <2>4, <2>5, OthersKeep
<1>11. ASSUME NEW r \in Requests, OthersServed(r)
       PROVE  ProgressInv'
  <2>1. UNCHANGED <<cli, runs>> /\ cli.slot # r /\ (Serve(r) \/ Abort(r)) /\ Noted
    BY <1>11 DEF OthersServed
  <2>2. cli.case \in Cases
    BY <1>1, <2>1 DEF CommandOK
  <2>3. meddled' = meddled \cup Written(cli.case)
    BY <2>1, <2>2, NoneAsFlag DEF Noted
  <2>4. /\ \A n \in Names \ meddled' :
             /\ artifacts'[cli.case][n] = artifacts[cli.case][n]
             /\ objects'[cli.case][n] = objects[cli.case][n]
        /\ "case" \notin meddled' => testCases'[cli.case] = testCases[cli.case]
    BY <2>3 DEF Written
  <2>5. cli.at = "wait" => requests'[cli.slot] = requests[cli.slot]
    BY <1>1, <2>1, OneRequestSteps DEF CommandOK
  <2>6. QED
    BY <1>2, <2>1, <2>3, <2>4, <2>5, OthersKeep
<1>12. QED
  BY <1>4, <1>5, <1>6, <1>7, <1>8, <1>9, <1>10, <1>11 DEF CliNext, CliStep

LEMMA ProgressHolds == CliSpec => []ProgressInv
  BY ProgressInit, ProgressStep, PTL DEF CliSpec

\* A command that reports success has left under each artifact name the record
\* and the content of the last file it sent there, and the case refers to it:
\* the failed runs before it, the PUTs they left behind and other clients do not
\* matter, unless they wrote that artifact or the case during this run.
THEOREM SuccessStored == CliSpec => []SuccessMeansStored
<1>1. ProgressInv => SuccessMeansStored
  <2> SUFFICES ASSUME ProgressInv, cli.at = "done", NEW n \in Names \ meddled,
                      NEW i \in LastSent(n)
               PROVE  Holds(Files[i], n)
    BY DEF SuccessMeansStored, Holds, Files
  <2>1. cli.next = Len(Files) /\ cli.flags \in Invocations /\ Stored(cli.next, {})
    BY DEF ProgressInv, CliInv, CommandOK
  <2>2. DOMAIN Files = 1 .. Len(Files)
    BY <2>1, FileList DEF Files, IsFileList
  <2>3. i \in LastUnder(cli.next, n)
    BY <2>1, <2>2 DEF LastSent, LastUnder, Files
  <2>4. QED
    BY <2>1, <2>3 DEF Stored
<1>2. QED
  BY <1>1, ProgressHolds, PTL
=============================================================================
