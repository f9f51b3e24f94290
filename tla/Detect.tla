-------------------------------- MODULE Detect --------------------------------
(***************************************************************************)
(* `kish detect`: six collectors run one after the other, each a small     *)
(* program of commands and files; what fails is tolerated and noted in the *)
(* snapshot, which is written to a file, uploaded to a case, or both.      *)
(* Other runs may share its directory: all name their raw output files by  *)
(* the second the collector started in, and the snapshot by the second the *)
(* run started in, unless the user names it.                               *)
(*                                                                         *)
(* A command returns, or hangs and is killed after DefaultCommandTimeout.  *)
(* command.Run then also waits until nobody holds the output pipe: a       *)
(* process that the command left behind blocks it for as long as it lives. *)
(*                                                                         *)
(* proc.at names what the run does next: a command, a file, or a decision  *)
(* between them.  The flags of the command line are drawn when they are    *)
(* first read.  Package lists, devices and versions are left out.          *)
(***************************************************************************)
EXTENDS Naturals, Sequences, FiniteSets

CONSTANTS
    Machines,    \* which tools are on the PATH, a set of subsets of Tools
    Outputs,     \* names given with --output
    MaxFaults,   \* bound: how many operations may fail
    MaxSecond,   \* bound: the clock stops there
    MaxOthers,   \* bound: how many files may be another run's at a time
    None

Tools == {"dpkg", "rpm", "rocm-smi", "rocminfo", "lspci", "python"}

Collectors == <<"linux_system", "container", "system_packages", "rocm", "gpu", "python_packages">>

Statuses == {"success", "partial", "skipped", "failed"}

Commands == {"uname", "hostname", "dpkg", "rpm", "rocm-smi", "rocminfo", "product", "lspci",
             "version", "prefix", "pip", "editable"}

\* Files read or written, one system call, and output that is parsed.
Accesses == {"os-release", "gethostname", "dockerenv", "cgroup", "rocm version",
             "write dpkg", "write rpm", "write pip",
             "parse packages", "parse pip", "parse editable", "output", "upload"}

Decisions == {"packages", "smi?", "info?", "product?", "lspci?", "python?", "finish"}

Steps == Commands \cup Accesses \cup Decisions

\* --output, and --case-id with an API and a token.
Flags == [output : Outputs \cup {None}, case : BOOLEAN, api : BOOLEAN]

\* The content of a file tells the run, and when the collector that wrote it (or
\* the run, for a snapshot) had started.
Content == [by : {"self", "other"}, since : 0 .. MaxSecond]

ASSUME MachinesAssumption == \A machine \in Machines : machine \subseteq Tools
ASSUME BoundsAssumption == {MaxFaults, MaxSecond, MaxOthers} \subseteq Nat
ASSUME NoneAssumption == None \notin Outputs

\* A name given with --output is none of those that the program makes up.
ASSUME OutputsAssumption == Outputs \cap {"dpkg", "rpm", "pip", "env"} = {}

VARIABLES
    machine,  \* the tools on the PATH
    second,   \* the clock, in the seconds file names hold
    proc,     \* the run
    files     \* the directory: what was written under each name

vars == <<machine, second, proc, files>>

RawFiles == {"dpkg", "rpm", "pip"} \X (0 .. MaxSecond)

\* A raw file and when the collector that refers to it had started.
RawReports == RawFiles \X (0 .. MaxSecond)

ASSUME NoneIsNoValue == None \notin Flags \cup Content \cup RawReports

Process ==
    [at : Steps \cup {"off", "done", "failed"},
     hung : {"no", "hangs", "blocked",   \* the command that is running,
             "unanswered"},              \* or the upload
     flags : Flags \cup {None},
     began : 0 .. MaxSecond,             \* when DetectWithScope started
     since : 0 .. MaxSecond,             \* when the running collector started
     warned : BOOLEAN,                   \* the running collector has a warning
     versioned : BOOLEAN,                \* it knows python.version
     raw : RawReports \cup {None},       \* the raw file it has written
     reports : Seq(Statuses),            \* of the collectors that have finished
     rawFiles : SUBSET RawReports,       \* the raw files the snapshot refers to
     uploaded : BOOLEAN,
     failing : SUBSET Steps]             \* history: what has failed

NotStarted ==
    [at |-> "off", hung |-> "no", flags |-> None, began |-> 0, since |-> 0,
     warned |-> FALSE, versioned |-> FALSE, raw |-> None, reports |-> <<>>,
     rawFiles |-> {}, uploaded |-> FALSE, failing |-> {}]

-----------------------------------------------------------------------------
\* Steps of a run.

\* Fault: the name does not hold the time.
RawNameFixed(list, time) == <<list, 0>>

\* WriteRawFile's name: the list and the second its collector started in.
RawName(list, time) == <<list, time>>

WriteStep(list) ==
    CASE list = "dpkg" -> "write dpkg"
      [] list = "rpm" -> "write rpm"
      [] list = "pip" -> "write pip"

Goes(p, step) == [p EXCEPT !.at = step]

Warns(p) == [p EXCEPT !.warned = TRUE]

\* DetectWithScope merges the result and calls the next collector.
Finishes(p, status, step) ==
    [p EXCEPT !.at = step, !.since = second,
              !.reports = Append(@, status),
              !.rawFiles = IF p.raw = None THEN @ ELSE @ \cup {p.raw},
              !.warned = FALSE, !.raw = None]

\* Fault: a warning does not lower the status.
Unflagged(p) == "success"

SuccessOrPartial(p) == IF p.warned THEN "partial" ELSE "success"

Becomes(p) == proc' = p

\* A decision takes no time and cannot fail.
Decides(step, p) ==
    /\ proc.at = step
    /\ Becomes(p)
    /\ UNCHANGED <<machine, second, files>>

CanFail == Cardinality(proc.failing) < MaxFaults

\* Fault: a command that hangs is not killed.
FailsWithoutTimeout(step, p) ==
    /\ proc.at = step
    /\ proc.hung = "no" /\ CanFail
    /\ Becomes([p EXCEPT !.hung = "no", !.failing = @ \cup {step}])
    /\ UNCHANGED <<machine, second, files>>

\* Fault: the next operation starts while the command still runs.
FailsStillHung(step, p) ==
    /\ proc.at = step
    /\ \/ proc.hung = "no" /\ CanFail
       \/ proc.hung = "hangs"
    /\ Becomes([p EXCEPT !.failing = @ \cup {step}])
    /\ UNCHANGED <<machine, second, files>>

\* The operation fails, a command also by its timeout.
Fails(step, p) ==
    /\ proc.at = step
    /\ \/ proc.hung = "no" /\ CanFail
       \/ proc.hung = "hangs"
    /\ Becomes([p EXCEPT !.hung = "no", !.failing = @ \cup {step}])
    /\ UNCHANGED <<machine, second, files>>

\* An operation that leaves the directory alone.
Attempts(step, success, failure) ==
    \/ Decides(step, success) /\ proc.hung = "no"
    \/ Fails(step, failure)

\* os.WriteFile replaces what another run has written under the name.
Writes(step, name, since, success, failure) ==
    \/ /\ proc.at = step
       /\ files' = [files EXCEPT ![name] = [by |-> "self", since |-> since]]
       /\ Becomes(success)
       /\ UNCHANGED <<machine, second>>
    \/ Fails(step, failure)

Start ==
    /\ proc.at = "off"
    /\ Becomes([proc EXCEPT !.at = "os-release", !.began = second, !.since = second])
    /\ UNCHANGED <<machine, second, files>>

\* linux_system.  Uname stands for four calls; the hostname command is only a
\* fallback of the system call, and when it helps nothing is noted.
LinuxSystem ==
    LET p == proc IN
    \/ Attempts("os-release", Goes(p, "uname"), Warns(Goes(p, "uname")))
    \/ Attempts("uname", Goes(p, "gethostname"), Warns(Goes(p, "gethostname")))
    \/ Attempts("gethostname", Finishes(p, SuccessOrPartial(p), "dockerenv"),
                Goes(p, "hostname"))
    \/ Attempts("hostname", Finishes(p, SuccessOrPartial(p), "dockerenv"),
                Finishes(p, "partial", "dockerenv"))

\* container looks at two files, and succeeds when it can read neither.
Container ==
    LET p == proc IN
    \/ Attempts("dockerenv", Goes(p, "cgroup"), Goes(p, "cgroup"))
    \/ Attempts("cgroup", Finishes(p, "success", "packages"), Finishes(p, "success", "packages"))

\* Fault: a failed collector ends the detection.
SystemPackagesStopping ==
    LET p == proc
        list == IF "dpkg" \in machine THEN "dpkg" ELSE "rpm" IN
    \/ Decides("packages",
               IF machine \cap {"dpkg", "rpm"} # {} THEN Goes(p, list)
               ELSE Finishes(p, "skipped", "rocm version"))
    \/ Attempts(list, Goes(p, WriteStep(list)), Finishes(p, "failed", "finish"))
    \/ Writes(WriteStep(list), RawName(list, p.since), p.since,
              [Goes(p, "parse packages") EXCEPT !.raw = <<RawName(list, p.since), p.since>>],
              Warns(Goes(p, "parse packages")))
    \/ Attempts("parse packages", Finishes(p, SuccessOrPartial(p), "rocm version"),
                Finishes(p, "partial", "rocm version"))

\* system_packages prefers dpkg; without a list there is no raw file.
SystemPackages ==
    LET p == proc
        list == IF "dpkg" \in machine THEN "dpkg" ELSE "rpm" IN
    \/ Decides("packages",
               IF machine \cap {"dpkg", "rpm"} # {} THEN Goes(p, list)
               ELSE Finishes(p, "skipped", "rocm version"))
    \/ Attempts(list, Goes(p, WriteStep(list)), Finishes(p, "failed", "rocm version"))
    \/ Writes(WriteStep(list), RawName(list, p.since), p.since,
              [Goes(p, "parse packages") EXCEPT !.raw = <<RawName(list, p.since), p.since>>],
              Warns(Goes(p, "parse packages")))
    \/ Attempts("parse packages", Finishes(p, SuccessOrPartial(p), "rocm version"),
                Finishes(p, "partial", "rocm version"))

\* rocm: a version file that cannot be read, or a tool that is missing, is no
\* fault; a tool that does not run is.
ROCm ==
    LET p == proc IN
    \/ Attempts("rocm version", Goes(p, "smi?"), Goes(p, "smi?"))
    \/ Decides("smi?", Goes(p, IF "rocm-smi" \in machine THEN "rocm-smi" ELSE "info?"))
    \/ Attempts("rocm-smi", Goes(p, "info?"), Warns(Goes(p, "info?")))
    \/ Decides("info?", IF "rocminfo" \in machine THEN Goes(p, "rocminfo")
                           ELSE Finishes(p, SuccessOrPartial(p), "product?"))
    \/ Attempts("rocminfo", Finishes(p, SuccessOrPartial(p), "product?"),
                Finishes(p, "partial", "product?"))

\* gpu: lspci stands in for rocm-smi, and its absence is a warning.
GPU ==
    LET p == proc IN
    \/ Decides("product?", Goes(p, IF "rocm-smi" \in machine THEN "product" ELSE "lspci?"))
    \/ Attempts("product", Finishes(p, "success", "python?"), Warns(Goes(p, "lspci?")))
    \/ Decides("lspci?", IF "lspci" \in machine THEN Goes(p, "lspci")
                            ELSE Finishes(p, "partial", "python?"))
    \/ Attempts("lspci", Finishes(p, SuccessOrPartial(p), "python?"),
                Finishes(p, "partial", "python?"))

\* python_packages.  The version may be the empty string, which counts as none;
\* that sys.prefix cannot be had is noted nowhere.
PythonPackages ==
    LET p == proc IN
    \/ Decides("python?", IF "python" \in machine THEN Goes(p, "version")
                             ELSE Finishes(p, "skipped", "finish"))
    \/ \E found \in BOOLEAN :
          Attempts("version", [Goes(p, "prefix") EXCEPT !.versioned = found],
                   Warns(Goes(p, "prefix")))
    \/ Attempts("prefix", Goes(p, "pip"), Goes(p, "pip"))
    \/ Attempts("pip", Goes(p, "parse pip"),
                Finishes(p, IF p.versioned THEN "partial" ELSE "failed", "finish"))
    \/ Attempts("parse pip", Goes(p, WriteStep("pip")), Warns(Goes(p, WriteStep("pip"))))
    \/ Writes(WriteStep("pip"), RawName("pip", p.since), p.since,
              [Goes(p, "editable") EXCEPT !.raw = <<RawName("pip", p.since), p.since>>],
              Warns(Goes(p, "editable")))
    \/ Attempts("editable", Goes(p, "parse editable"),
                Finishes(p, "partial", "finish"))
    \/ Attempts("parse editable", Finishes(p, SuccessOrPartial(p), "finish"),
                Finishes(p, "partial", "finish"))

-----------------------------------------------------------------------------
\* What becomes of the snapshot.

\* Fault: only a name the user has given is written.
ShouldWriteNamed(flags) == flags.output # None

ShouldWriteOutput(flags) == flags.output # None \/ ~flags.case

\* The default name holds the second the run began in.
OutputName(p) == IF p.flags.output = None THEN <<"env", p.began>> ELSE <<p.flags.output, 0>>

\* The API and the token are asked for only now.
AfterOutput(p) ==
    Goes(p, IF ~p.flags.case THEN "done" ELSE IF p.flags.api THEN "upload" ELSE "failed")

Finish ==
    LET p == proc IN
    \/ \E flags \in Flags :
          LET q == [p EXCEPT !.flags = flags] IN
          Decides("finish", IF ShouldWriteOutput(flags) THEN Goes(q, "output")
                            ELSE AfterOutput(q))
    \/ Writes("output", OutputName(p), p.began, AfterOutput(p), Goes(p, "failed"))
    \/ Attempts("upload", [Goes(p, "done") EXCEPT !.uploaded = TRUE], Goes(p, "failed"))

-----------------------------------------------------------------------------
\* Commands that do not return, a server that does not, the clock, the user.

Hang ==
    /\ proc.at \in Commands /\ proc.hung = "no"
    /\ CanFail
    /\ Becomes([proc EXCEPT !.hung = "hangs"])
    /\ UNCHANGED <<machine, second, files>>

\* The command was killed (or has ended), what it left behind holds the pipe.
Block ==
    /\ proc.hung = "hangs"
    /\ Becomes([proc EXCEPT !.hung = "blocked"])
    /\ UNCHANGED <<machine, second, files>>

Unblock ==
    /\ proc.hung = "blocked"
    /\ Becomes([proc EXCEPT !.hung = "hangs"])
    /\ UNCHANGED <<machine, second, files>>

\* The HTTP client has no timeout: the upload waits as long as the server does.
Unanswered ==
    /\ proc.at = "upload" /\ proc.hung = "no"
    /\ Becomes([proc EXCEPT !.hung = "unanswered"])
    /\ UNCHANGED <<machine, second, files>>

Answered ==
    /\ proc.hung = "unanswered"
    /\ Becomes([proc EXCEPT !.hung = "no"])
    /\ UNCHANGED <<machine, second, files>>

Running == proc.at \in Steps

\* Of a run that is killed nothing is left but its files.
Kill ==
    /\ Running
    /\ Becomes([NotStarted EXCEPT !.at = "failed"])
    /\ UNCHANGED <<machine, second, files>>

Tick ==
    /\ second < MaxSecond
    /\ second' = second + 1
    /\ UNCHANGED <<machine, proc, files>>

\* Another run in the same directory writes one of its files.
OtherRun ==
    /\ Cardinality({f \in DOMAIN files : files[f] # None /\ files[f].by = "other"}) < MaxOthers
    /\ \E since \in 0 .. second :
          \E name \in {RawName("dpkg", since), RawName("rpm", since), RawName("pip", since),
                      <<"env", since>>} \cup (Outputs \X {0}) :
              files' = [files EXCEPT ![name] = [by |-> "other", since |-> since]]
    /\ UNCHANGED <<machine, second, proc>>

Step ==
    \/ LinuxSystem \/ Container \/ SystemPackages \/ ROCm \/ GPU \/ PythonPackages \/ Finish

FileNames == RawFiles \cup ({"env"} \X (0 .. MaxSecond)) \cup (Outputs \X {0})

Init ==
    /\ machine \in Machines
    /\ second = 0
    /\ proc = NotStarted
    /\ files = [f \in FileNames |-> None]

Next ==
    \/ Start \/ Step \/ Hang \/ Block \/ Unblock \/ Unanswered \/ Answered \/ Kill
    \/ Tick \/ OtherRun

Spec == Init /\ [][Next]_vars

\* The process is scheduled and the timeout of a command fires.  No process left
\* behind need ever end, and no server need ever answer.
FairSpec == Spec /\ WF_vars(Step)

-----------------------------------------------------------------------------
\* Properties.

\* The run and the directory hold what the code's types allow; only a command can
\* hang, and only the upload can wait for an answer.
TypeOK ==
    /\ machine \in Machines
    /\ second \in 0 .. MaxSecond
    /\ proc \in Process
    /\ proc.hung \in {"hangs", "blocked"} => proc.at \in Commands
    /\ proc.hung = "unanswered" => proc.at = "upload"
    /\ files \in [FileNames -> Content \cup {None}]

\* Whatever failed or hung, the snapshot has a report of each collector.
EveryCollectorReports ==
    proc.at \in {"finish", "output", "upload", "done"} => Len(proc.reports) = Len(Collectors)

\* The steps that serve a collector.
StepsOf(name) ==
    CASE name = "linux_system" -> {"os-release", "uname", "gethostname", "hostname"}
      [] name = "container" -> {"dockerenv", "cgroup"}
      [] name = "system_packages" -> {"dpkg", "rpm", "write dpkg", "write rpm", "parse packages"}
      [] name = "rocm" -> {"rocm version", "rocm-smi", "rocminfo"}
      [] name = "gpu" -> {"product", "lspci"}
      [] name = "python_packages" ->
            {"version", "prefix", "pip", "parse pip", "write pip", "editable", "parse editable"}

\* The steps whose failure no status and no warning tells of.
Silent == {"gethostname", "dockerenv", "cgroup", "rocm version", "prefix"}

\* A collector misses the tools it asks for; rocm does without its two.
Lacks(name, tools) ==
    CASE name = "system_packages" -> tools \cap {"dpkg", "rpm"} = {}
      [] name = "gpu" -> "lspci" \notin tools
      [] name = "python_packages" -> "python" \notin tools
      [] OTHER -> FALSE

\* A collector reports success only if none of its steps failed but those whose
\* failure the code notes nowhere; and it reports anything else only if another of
\* its steps failed or a tool that it asks for is missing.
StatusesAreHonest ==
    \A i \in DOMAIN proc.reports :
        LET failed == (proc.failing \cap StepsOf(Collectors[i])) \ Silent IN
        IF proc.reports[i] = "success" THEN failed = {}
        ELSE failed # {} \/ Lacks(Collectors[i], machine)

\* A raw file that the snapshot refers to is there, and whoever wrote it last had
\* started the collector in the same second as this run.
RawFilesAreTimely ==
    \A raw \in proc.rawFiles : files[raw[1]] # None /\ files[raw[1]].since = raw[2]

\* A run that exits with success has uploaded its snapshot or left it in a file.
\* A file with a default name is replaced only by a run begun in the same second.
SuccessMeansKept ==
    proc.at = "done" /\ ~proc.uploaded =>
        LET file == files[OutputName(proc)] IN
        file # None /\ (proc.flags.output = None => file.since = proc.began)

\* "slow or hanging commands do not block detection indefinitely": the run ends,
\* unless a process that a command has left behind holds its output open, or the
\* server never answers the upload.
DetectEnds == Running ~> (~Running \/ proc.hung \in {"blocked", "unanswered"})
===============================================================================
