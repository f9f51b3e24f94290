------------------------------- MODULE UploadCli -------------------------------
(***************************************************************************)
(* `kish upload` (internal/cli/upload.go) against the endpoints of         *)
(* TestCaseApi: the command reads its files, creates a case unless it is   *)
(* given one, and uploads file after file, each with one PUT.  It stops at *)
(* the first answer that is not 200, undoes nothing and retries nothing;   *)
(* the user may run it again, with the id of the case or without.          *)
(*                                                                         *)
(* The command sends its PUTs to the request slots of CliSlots, other      *)
(* clients use OtherSlots.  The client waits without a timeout; an answer  *)
(* may be lost, and the command may be killed while its request runs on.   *)
(* That a lost or late answer is seen at the moment the request ends costs *)
(* nothing: the command reads no store.                                    *)
(***************************************************************************)
EXTENDS TestCaseApi

CONSTANTS
    FileNames,     \* base names of local files, valid artifact names or not
    Cut,           \* what the server takes an invalid base name for, None if it rejects it
    Invocations,   \* the flags users give the command, a subset of Flags
    Caller,        \* the principal of the client token
    CliSlots,      \* request slots for the command
    OtherSlots,    \* request slots for other clients
    MaxRuns        \* bound: how often the command is run

\* A local file: its base name and content, None if readTextFile or the JSON
\* check of the snapshot refuses it.
LocalFile == [name : FileNames, content : Payload \cup {None}]

\* uploadFlags: the files, and the id of the case if the user gives one.
Flags ==
    [env : LocalFile, result : LocalFile,
     scripts : Seq(LocalFile), raws : Seq(LocalFile),
     logs : Seq(LocalFile), others : Seq(LocalFile),
     caseID : Cases \cup {None}]

ASSUME CutAssumption == Names \subseteq FileNames /\ Cut \in [FileNames \ Names -> Names \cup {None}]
ASSUME CallerAssumption == Caller \in Principals
ASSUME InvocationsAssumption == Invocations \subseteq Flags
ASSUME NoneAsFlag == None \notin Invocations /\ None \notin Cases
ASSUME SlotsAssumption == CliSlots \cup OtherSlots = Requests
ASSUME MaxRunsAssumption == MaxRuns \in Nat

VARIABLES
    cli,      \* the command
    runs,     \* how often it was run
    meddled   \* history: what other requests have written since it started:
              \* artifact names, and "case"

cliVars == <<vars, cli, runs, meddled>>

-----------------------------------------------------------------------------
\* The artifacts a set of flags stands for.

NamedAs(type, file) == [name |-> file.name, type |-> type, payload |-> file.content]
Typed(type, files) == [i \in DOMAIN files |-> NamedAs(type, files[i])]

\* buildUploadArtifacts: the snapshot and the result come first.
Artifacts(flags) ==
    <<NamedAs("environment", flags.env), NamedAs("result", flags.result)>>
      \o Typed("script", flags.scripts) \o Typed("raw", flags.raws)
      \o Typed("log", flags.logs) \o Typed("other", flags.others)

AllReadable(flags) == \A i \in DOMAIN Artifacts(flags) : Artifacts(flags)[i].payload # None

\* The base name goes into the URL as it is: "#" and "?" end the path.
ServerName(name) == IF name \in Names THEN name ELSE Cut[name]

UploadOf(a) == [type |-> a.type, payload |-> a.payload]

-----------------------------------------------------------------------------
\* The command.

NotRunning == [at |-> "off", flags |-> None, case |-> None, next |-> 0, slot |-> None]

Running == cli.at \in {"create", "send", "wait"}

Ends(result) == [cli EXCEPT !.at = result, !.slot = None]

\* All files are read before the first call.
Start(flags) ==
    /\ ~Running
    /\ runs < MaxRuns
    /\ runs' = runs + 1
    /\ meddled' = {}
    /\ cli' = [NotRunning EXCEPT
                  !.at = IF ~AllReadable(flags) THEN "failed"
                         ELSE IF flags.caseID = None THEN "create" ELSE "send",
                  !.flags = flags, !.case = flags.caseID, !.next = 1]
    /\ UNCHANGED vars

\* POST /testcases.  If its answer is lost the case stays behind, unknown.
CreateCase ==
    /\ cli.at = "create"
    /\ \E c \in Cases, label \in Labels, testType \in TestTypes :
          CreateMetadata(Caller, c, label, testType)
            /\ \/ cli' = [cli EXCEPT !.at = "send", !.case = c]
               \/ cli' = Ends("failed")
    /\ UNCHANGED <<runs, meddled>>

CreateFails ==
    /\ cli.at = "create"
    /\ cli' = Ends("failed")
    /\ UNCHANGED <<vars, runs, meddled>>

\* Fault: the next file is sent whatever became of the last one.
GoesOnRegardless(ok) ==
    cli' = IF cli.next = Len(Artifacts(cli.flags)) THEN Ends("done")
           ELSE [cli EXCEPT !.at = "send", !.next = @ + 1, !.slot = None]

\* Fault: one file too many.
GoesOnPastTheEnd(ok) ==
    cli' = IF ~ok THEN Ends("failed")
           ELSE IF cli.next > Len(Artifacts(cli.flags)) THEN Ends("done")
           ELSE [cli EXCEPT !.at = "send", !.next = @ + 1, !.slot = None]

\* uploadArtifacts with the answer to the current PUT.
GoesOn(ok) ==
    cli' = IF ~ok THEN Ends("failed")
           ELSE IF cli.next = Len(Artifacts(cli.flags)) THEN Ends("done")
           ELSE [cli EXCEPT !.at = "send", !.next = @ + 1, !.slot = None]

Send(r) ==
    /\ cli.at = "send"
    /\ LET a == Artifacts(cli.flags)[cli.next]
       IN  /\ ServerName(a.name) # None
           /\ PutReceive(r, Caller, cli.case, ServerName(a.name), UploadOf(a))
    /\ cli' = [cli EXCEPT !.at = "wait", !.slot = r]
    /\ UNCHANGED <<runs, meddled>>

\* The URL cannot be built, the name is refused, or the server is not reached.
SendFails ==
    /\ cli.at = "send"
    /\ cli' = Ends("failed")
    /\ UNCHANGED <<vars, runs, meddled>>

\* The PUT request r answers 200 with its next step.
AnswersOK(r) ==
    \/ At(r, "put:meta") /\ ~IsLinked(MetaOf(requests[r].upload).type)
    \/ At(r, "put:link") /\ testCases[requests[r].case] # None

\* The server works on the command's PUT.
Served(r) ==
    /\ cli.at = "wait" /\ cli.slot = r
    /\ \/ /\ Serve(r)
          /\ IF requests'[r].at # "idle" THEN UNCHANGED cli
             ELSE GoesOn(AnswersOK(r)) \/ GoesOn(FALSE)
       \/ Abort(r) /\ GoesOn(FALSE)
    /\ UNCHANGED <<runs, meddled>>

\* The user stops the command.  What it sent runs on (or ends in an Abort).
Kill ==
    /\ Running
    /\ cli' = Ends("failed")
    /\ UNCHANGED <<vars, runs, meddled>>

-----------------------------------------------------------------------------
\* Other clients, and requests a command left behind.

\* What the step wrote in the command's case.
Written(c) ==
    {n \in Names : artifacts'[c][n] # artifacts[c][n] \/ objects'[c][n] # objects[c][n]}
      \cup (IF testCases'[c] # testCases[c] THEN {"case"} ELSE {})

Noted == meddled' = IF cli.case = None THEN meddled ELSE meddled \cup Written(cli.case)

OthersSend ==
    /\ Create \/ \E r \in OtherSlots : Receive(r)
    /\ UNCHANGED <<cli, runs, meddled>>

OthersServed(r) ==
    /\ cli.slot # r
    /\ Serve(r) \/ Abort(r)
    /\ Noted
    /\ UNCHANGED <<cli, runs>>

CliStep == CreateCase \/ CreateFails \/ SendFails \/ \E r \in CliSlots : Send(r)

CliInit == Init /\ cli = NotRunning /\ runs = 0 /\ meddled = {}

CliNext ==
    \/ \E flags \in Invocations : Start(flags)
    \/ CliStep
    \/ \E r \in CliSlots : Served(r)
    \/ Kill
    \/ OthersSend
    \/ \E r \in Requests : OthersServed(r)

CliSpec == CliInit /\ [][CliNext]_cliVars

-----------------------------------------------------------------------------
\* Properties.

\* The command's record; while it waits, its slot holds its own PUT.
CliTypeOK ==
    /\ cli.at \in {"off", "create", "send", "wait", "failed", "done"}
    /\ cli.flags \in Invocations \cup {None}
    /\ cli.case \in Cases \cup {None}
    /\ cli.next \in 0 .. (IF cli.flags = None THEN 0 ELSE Len(Artifacts(cli.flags)))
    /\ cli.at = "wait" => /\ cli.slot \in CliSlots
                          /\ requests[cli.slot].at \in PutSteps
                          /\ requests[cli.slot].case = cli.case
    /\ runs \in 0 .. MaxRuns
    /\ meddled \in SUBSET (Names \cup {"case"})

\* The file the command sent last under each artifact name.
LastSent(n) ==
    LET files == Artifacts(cli.flags)
        sent == {i \in DOMAIN files : ServerName(files[i].name) = n}
    IN  {i \in sent : \A j \in sent : j <= i}

RefersTo(tc, a, n) ==
    LET digest == Sha256(a.payload) IN
    CASE a.type = "result" -> tc.result = [artifact |-> n, digest |-> digest]
      [] a.type = "script" -> [artifact |-> n, digest |-> digest] \in {tc.scripts[i] : i \in DOMAIN tc.scripts}
      [] a.type = "environment" ->
            [scope |-> NormalizeEnvironmentScope(a.payload.scope), artifact |-> n, digest |-> digest]
              \in {tc.environments[i] : i \in DOMAIN tc.environments}
      [] OTHER -> TRUE

\* When the command exits with success, every artifact has the record and the
\* content of the file it sent under that name, and the case refers to it, in
\* spite of failed runs before, their late requests and other clients, unless
\* one of these wrote that artifact (or the case) since this run began.
SuccessMeansStored ==
    cli.at = "done" =>
      \A n \in Names \ meddled : \A i \in LastSent(n) :
        LET a == Artifacts(cli.flags)[i] IN
        /\ artifacts[cli.case][n] = MetaOf(UploadOf(a))
        /\ objects[cli.case][n] = a.payload
        /\ "case" \notin meddled => Exists(cli.case) /\ RefersTo(View(cli.case), a, n)

-----------------------------------------------------------------------------
\* What the documentation says and the code does not keep.

\* "uploads each file as a named artifact" (upload.go:55-56): a run that nobody
\* disturbs and that succeeds leaves an artifact for each file under its name.
EachFileIsAnArtifact ==
    cli.at = "done" /\ meddled = {} =>
      \A i \in DOMAIN Artifacts(cli.flags) :
        LET a == Artifacts(cli.flags)[i] IN
        a.name \in Names /\ artifacts[cli.case][a.name] = MetaOf(UploadOf(a))
===============================================================================
