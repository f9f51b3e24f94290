------------------------------ MODULE DetectProofs ------------------------------
(***************************************************************************)
(* Proofs about Detect: whatever fails or hangs, each collector reports    *)
(* once and honestly, the raw files are those of the second they are named *)
(* for, and a run that succeeds has kept its snapshot.                     *)
(***************************************************************************)
EXTENDS Detect, SequenceTheorems, TLAPS

-----------------------------------------------------------------------------
\* The inductive invariant.

\* The number of the collector that a step serves; 7 when all are done.
Served(step) ==
    CASE step \in {"os-release", "uname", "gethostname", "hostname"} -> 1
      [] step \in {"dockerenv", "cgroup"} -> 2
      [] step \in {"packages", "dpkg", "rpm", "write dpkg", "write rpm", "parse packages"} -> 3
      [] step \in {"rocm version", "smi?", "rocm-smi", "info?", "rocminfo"} -> 4
      [] step \in {"product?", "product", "lspci?", "lspci"} -> 5
      [] step \in {"python?", "version", "prefix", "pip", "parse pip", "write pip",
                   "editable", "parse editable"} -> 6
      [] OTHER -> 7

\* What failed of a collector, as far as the code notes it.
Failed(p, i) == (p.failing \cap StepsOf(Collectors[i])) \ Silent

\* Steps before which nothing of their collector can have failed noticeably.
Fresh == {"dockerenv", "cgroup", "product?", "product"}

\* The reports of the collectors before the running one are honest, and its
\* warning tells whether anything of it failed that is noted.
RunOK(p, tools) ==
    /\ p \in Process
    /\ p.hung \in {"hangs", "blocked"} => p.at \in Commands
    /\ p.hung = "unanswered" => p.at = "upload"
    /\ p.at = "off" => p = NotStarted
    /\ p.at \in Steps \cup {"done"} => Len(p.reports) = Served(p.at) - 1
    /\ Len(p.reports) <= 6
    /\ \A i \in 1..Len(p.reports) :
         IF p.reports[i] = "success" THEN Failed(p, i) = {}
         ELSE Failed(p, i) # {} \/ Lacks(Collectors[i], tools)
    /\ p.at \in Steps => \A i \in Served(p.at)..6 :
         IF i = Served(p.at) /\ p.warned THEN Failed(p, i) # {} ELSE Failed(p, i) = {}
    /\ p.at \in Fresh => ~p.warned

\* Files that are named for a second were written by collectors, or runs, that
\* had started in it.
DatedNames == RawFiles \cup ({"env"} \X (0 .. MaxSecond))

FilesOK(fs) ==
    /\ fs \in [FileNames -> Content \cup {None}]
    /\ \A f \in DatedNames : fs[f] # None => fs[f].since = f[2]

\* The raw files that the run refers to, or that its collector has written.
Referred(p) == p.rawFiles \cup ({p.raw} \ {None})

\* What the run refers to is there.
KeptOK(p, fs) ==
    /\ \A raw \in Referred(p) : fs[raw[1]] # None /\ raw[2] = raw[1][2]
    /\ p.at \in {"output", "upload", "done"} => p.flags \in Flags
    /\ p.at \in {"upload", "done"} /\ ShouldWriteOutput(p.flags) => fs[OutputName(p)] # None
    /\ p.at = "done" => p.uploaded \/ ~p.flags.case

Inv ==
    /\ machine \in Machines
    /\ second \in 0 .. MaxSecond
    /\ RunOK(proc, machine)
    /\ FilesOK(files)
    /\ KeptOK(proc, files)

-----------------------------------------------------------------------------
\* Steps and collectors.

LEMMA ServedType == \A step : Served(step) \in 1..7
  BY DEF Served

LEMMA StepsOfServed ==
    ASSUME NEW i \in 1..6
    PROVE  /\ StepsOf(Collectors[i]) \subseteq Steps
           /\ \A step \in StepsOf(Collectors[i]) : Served(step) = i
<1>1. CASE i = 1
  BY <1>1 DEF StepsOf, Collectors, Served, Steps, Commands, Accesses, Decisions
<1>2. CASE i = 2
  BY <1>2 DEF StepsOf, Collectors, Served, Steps, Commands, Accesses, Decisions
<1>3. CASE i = 3
  BY <1>3 DEF StepsOf, Collectors, Served, Steps, Commands, Accesses, Decisions
<1>4. CASE i = 4
  BY <1>4 DEF StepsOf, Collectors, Served, Steps, Commands, Accesses, Decisions
<1>5. CASE i = 5
  BY <1>5 DEF StepsOf, Collectors, Served, Steps, Commands, Accesses, Decisions
<1>6. CASE i = 6
  BY <1>6 DEF StepsOf, Collectors, Served, Steps, Commands, Accesses, Decisions
<1>7. QED
  BY <1>1, <1>2, <1>3, <1>4, <1>5, <1>6

\* The steps of collectors whose failure is noted.
Failing == (Commands \cup Accesses) \ (Silent \cup {"output", "upload"})

LEMMA FailingServed ==
    ASSUME NEW step \in Failing
    PROVE  /\ step \in Steps /\ Served(step) \in 1..6
           /\ step \in StepsOf(Collectors[Served(step)])
           /\ step \notin Silent
<1>0. step \in Steps /\ step \notin Silent
  BY DEF Failing, Steps, Commands, Accesses
<1>1. CASE step \in {"os-release", "uname", "hostname"}
  <2>1. Served(step) = 1
    BY <1>1 DEF Served
  <2>2. step \in StepsOf(Collectors[1])
    BY <1>1 DEF StepsOf, Collectors
  <2>3. QED
    BY <1>0, <2>1, <2>2
<1>2. CASE step \in {"dpkg", "rpm", "write dpkg", "write rpm", "parse packages"}
  <2>1. Served(step) = 3
    BY <1>2 DEF Served
  <2>2. step \in StepsOf(Collectors[3])
    BY <1>2 DEF StepsOf, Collectors
  <2>3. QED
    BY <1>0, <2>1, <2>2
<1>3. CASE step \in {"rocm-smi", "rocminfo"}
  <2>1. Served(step) = 4
    BY <1>3 DEF Served
  <2>2. step \in StepsOf(Collectors[4])
    BY <1>3 DEF StepsOf, Collectors
  <2>3. QED
    BY <1>0, <2>1, <2>2
<1>4. CASE step \in {"product", "lspci"}
  <2>1. Served(step) = 5
    BY <1>4 DEF Served
  <2>2. step \in StepsOf(Collectors[5])
    BY <1>4 DEF StepsOf, Collectors
  <2>3. QED
    BY <1>0, <2>1, <2>2
<1>5. CASE step \in {"version", "pip", "parse pip", "write pip", "editable", "parse editable"}
  <2>1. Served(step) = 6
    BY <1>5 DEF Served
  <2>2. step \in StepsOf(Collectors[6])
    BY <1>5 DEF StepsOf, Collectors
  <2>3. QED
    BY <1>0, <2>1, <2>2
<1>6. QED
  BY <1>1, <1>2, <1>3, <1>4, <1>5 DEF Failing, Commands, Accesses, Silent

LEMMA SilentSteps == Silent \subseteq Steps /\ Silent \cap Failing = {}
  BY DEF Silent, Failing, Steps, Commands, Accesses

LEMMA NotRunningSteps == {"off", "done", "failed"} \cap Steps = {}
  BY DEF Steps, Commands, Accesses, Decisions

-----------------------------------------------------------------------------
\* Steps that go on with the same collector: what the run knows of it is carried on.

\* q is p, at a later step of the same collector, with the failures of fails added.
Continues(p, q, fails) ==
    /\ q \in Process
    /\ q.hung = "no"
    /\ p.at \in Steps /\ q.at \in Steps /\ Served(q.at) = Served(p.at)
    /\ q.reports = p.reports
    /\ q.failing = p.failing \cup fails

\* A failure that is not noted changes nothing.
LEMMA ContinuesOK ==
    ASSUME NEW p, NEW q, NEW tools, NEW fails \in SUBSET Silent, RunOK(p, tools),
           Continues(p, q, fails), q.warned = p.warned, q.at \in Fresh => p.at \in Fresh \/ ~p.warned
    PROVE  RunOK(q, tools)
<1>1. q.at # "off" /\ q.at # "done"
  BY NotRunningSteps DEF Continues
<1>2. \A i : Failed(q, i) = Failed(p, i)
  BY DEF Continues, Failed
<1>3. q.at \in Fresh => ~q.warned
  BY DEF RunOK
<1>4. QED
  BY <1>1, <1>2, <1>3 DEF RunOK, Continues

\* One that is noted is of the running collector, and warns.
LEMMA ContinuesFailing ==
    ASSUME NEW p, NEW q, NEW tools, RunOK(p, tools), p.at \in Failing,
           Continues(p, q, {p.at}), q.warned = TRUE, q.at \notin Fresh
    PROVE  RunOK(q, tools)
<1> DEFINE n == Served(p.at)
<1>1. q.at # "off" /\ q.at # "done"
  BY NotRunningSteps DEF Continues
<1>2. n \in 1..6 /\ p.at \in StepsOf(Collectors[n]) /\ p.at \notin Silent
  BY FailingServed
<1>3. ASSUME NEW i \in 1..6, i # n
      PROVE  Failed(q, i) = Failed(p, i)
  <2>1. p.at \notin StepsOf(Collectors[i])
    BY <1>3, StepsOfServed
  <2>2. QED
    BY <2>1 DEF Continues, Failed
<1>4. p.at \in Failed(q, n)
  BY <1>2 DEF Continues, Failed
<1>5. Len(q.reports) = n - 1 /\ Len(q.reports) = Len(p.reports)
  BY DEF RunOK, Continues
<1>6. \A i \in 1..Len(q.reports) :
         IF q.reports[i] = "success" THEN Failed(q, i) = {}
         ELSE Failed(q, i) # {} \/ Lacks(Collectors[i], tools)
  BY <1>2, <1>3, <1>5 DEF RunOK, Continues
<1>7. ASSUME NEW i \in n..6
      PROVE  IF i = n /\ q.warned THEN Failed(q, i) # {} ELSE Failed(q, i) = {}
  <2>1. CASE i # n
    BY <1>2, <1>3, <1>7, <2>1 DEF RunOK, Continues
  <2>2. CASE i = n
    BY <1>2, <1>4, <1>7, <2>2 DEF RunOK, Continues
  <2>3. QED
    BY <2>1, <2>2
<1>8. QED
  BY <1>1, <1>2, <1>5, <1>6, <1>7 DEF RunOK, Continues

\* q is p with the report of its collector, at the first step of the next one.
Ends(p, q, status, fails) ==
    /\ q \in Process
    /\ q.hung = "no" /\ q.warned = FALSE
    /\ p.at \in Steps /\ q.at \in Steps /\ Served(q.at) = Served(p.at) + 1
    /\ q.reports = Append(p.reports, status)
    /\ q.failing = p.failing \cup fails

\* The report is honest if the warning and the last step give reason for it.
LEMMA EndsOK ==
    ASSUME NEW p, NEW q, NEW tools, NEW status \in Statuses, NEW fails,
           RunOK(p, tools), Ends(p, q, status, fails),
           \/ fails \in SUBSET Silent
           \/ fails = {p.at} /\ p.at \in Failing,
           IF status = "success" THEN fails \in SUBSET Silent /\ ~p.warned
           ELSE \/ p.warned
                \/ fails = {p.at} /\ p.at \in Failing
                \/ Lacks(Collectors[Served(p.at)], tools)
    PROVE  RunOK(q, tools)
<1> DEFINE n == Served(p.at)
<1>1. q.at # "off" /\ q.at # "done"
  BY NotRunningSteps DEF Ends
<1>2. n \in 1..6
  BY ServedType DEF Ends
<1>3. p.reports \in Seq(Statuses) /\ Len(p.reports) = n - 1 /\ p.warned \in BOOLEAN
  BY DEF RunOK, Ends, Process
<1>4. /\ Len(q.reports) = n
      /\ q.reports[n] = status
      /\ \A i \in 1..(n - 1) : q.reports[i] = p.reports[i]
  BY <1>2, <1>3, AppendProperties DEF Ends
<1>5. ASSUME NEW i \in 1..6, i # n
      PROVE  Failed(q, i) = Failed(p, i)
  <2>1. CASE fails \in SUBSET Silent
    BY <2>1 DEF Ends, Failed
  <2>2. CASE fails = {p.at} /\ p.at \in Failing
    <3>1. p.at \notin StepsOf(Collectors[i])
      BY <1>5, StepsOfServed
    <3>2. QED
      BY <2>2, <3>1 DEF Ends, Failed
  <2>3. QED
    BY <2>1, <2>2
<1>6. IF status = "success" THEN Failed(q, n) = {}
      ELSE Failed(q, n) # {} \/ Lacks(Collectors[n], tools)
  <2>1. IF p.warned THEN Failed(p, n) # {} ELSE Failed(p, n) = {}
    BY <1>2 DEF RunOK, Ends
  <2>2. CASE fails \in SUBSET Silent
    <3>1. Failed(q, n) = Failed(p, n)
      BY <2>2 DEF Ends, Failed
    <3>2. fails # {p.at} \/ p.at \notin Failing
      BY <2>2, SilentSteps
    <3>3. QED
      BY <1>3, <2>1, <3>1, <3>2
  <2>3. CASE fails = {p.at} /\ p.at \in Failing
    <3>1. p.at \in Failed(q, n)
      BY <2>3, FailingServed DEF Ends, Failed
    <3>2. status # "success"
      BY <2>3, SilentSteps
    <3>3. QED
      BY <3>1, <3>2
  <2>4. QED
    BY <2>2, <2>3
<1>7. ASSUME NEW i \in 1..Len(q.reports)
      PROVE  IF q.reports[i] = "success" THEN Failed(q, i) = {}
             ELSE Failed(q, i) # {} \/ Lacks(Collectors[i], tools)
  <2>1. CASE i = n
    BY <1>4, <1>6, <2>1
  <2>2. CASE i # n
    <3>1. i \in 1..(n - 1) /\ i \in 1..6
      BY <1>2, <1>4, <2>2
    <3>2. q.reports[i] = p.reports[i] /\ Failed(q, i) = Failed(p, i)
      BY <1>4, <1>5, <2>2, <3>1
    <3>3. QED
      BY <1>3, <3>1, <3>2 DEF RunOK
  <2>3. QED
    BY <2>1, <2>2
<1>8. ASSUME NEW i \in Served(q.at)..6
      PROVE  Failed(q, i) = {}
  <2>1. i \in 1..6 /\ i \in n..6 /\ i # n
    BY <1>2, <1>8 DEF Ends
  <2>2. Failed(p, i) = {}
    BY <2>1 DEF RunOK, Ends
  <2>3. QED
    BY <1>5, <2>1, <2>2
<1>9. q \in Process /\ q.hung = "no" /\ q.warned = FALSE /\ Len(q.reports) = Served(q.at) - 1
  BY <1>2, <1>4 DEF Ends
<1>10. Len(q.reports) <= 6
  BY <1>2, <1>4
<1>11. QED
  BY <1>1, <1>7, <1>8, <1>9, <1>10 DEF RunOK

-----------------------------------------------------------------------------
\* What the records of the steps are.

\* A step of a collector refers to no raw file but those there were and one more.
Refers(p, q, raw) ==
    /\ q.at \notin {"output", "upload", "done"}
    /\ Referred(q) \subseteq Referred(p) \cup raw

LEMMA GoesFields ==
    ASSUME NEW p \in Process, NEW step \in Steps
    PROVE  LET q == Goes(p, step)
           IN  /\ q \in Process /\ q.at = step /\ q.hung = p.hung
               /\ q.reports = p.reports /\ q.warned = p.warned /\ q.failing = p.failing
               /\ q.raw = p.raw /\ q.rawFiles = p.rawFiles
  BY DEF Goes, Process

LEMMA GoesVersioned ==
    ASSUME NEW p \in Process, NEW step \in Steps, NEW found \in BOOLEAN
    PROVE  LET q == [Goes(p, step) EXCEPT !.versioned = found]
           IN  /\ q \in Process /\ q.at = step /\ q.hung = p.hung
               /\ q.reports = p.reports /\ q.warned = p.warned /\ q.failing = p.failing
               /\ q.raw = p.raw /\ q.rawFiles = p.rawFiles
  BY DEF Goes, Process

LEMMA GoesWritten ==
    ASSUME NEW p \in Process, NEW step \in Steps, NEW raw \in RawReports
    PROVE  LET q == [Goes(p, step) EXCEPT !.raw = raw]
           IN  /\ q \in Process /\ q.at = step /\ q.hung = p.hung
               /\ q.reports = p.reports /\ q.warned = p.warned /\ q.failing = p.failing
               /\ q.raw = raw /\ q.rawFiles = p.rawFiles
  BY DEF Goes, Process

LEMMA WarnsFields ==
    ASSUME NEW p \in Process, NEW step \in Steps
    PROVE  LET q == Warns(Goes(p, step))
           IN  /\ q \in Process /\ q.at = step /\ q.hung = p.hung
               /\ q.reports = p.reports /\ q.warned = TRUE /\ q.failing = p.failing
               /\ q.raw = p.raw /\ q.rawFiles = p.rawFiles
  BY DEF Warns, Goes, Process

\* q is p with the report of its collector.
Finished(p, q, status, step) ==
    /\ q \in Process /\ q.at = step /\ q.hung = p.hung
    /\ q.reports = Append(p.reports, status) /\ q.warned = FALSE /\ q.failing = p.failing
    /\ Referred(q) = Referred(p)

LEMMA FinishesFields ==
    ASSUME NEW p \in Process, NEW status \in Statuses, NEW step \in Steps,
           second \in 0 .. MaxSecond
    PROVE  Finished(p, Finishes(p, status, step), status, step)
<1>0. PICK q : q = Finishes(p, status, step)
  OBVIOUS
<1> DEFINE rawFiles == IF p.raw = None THEN p.rawFiles ELSE p.rawFiles \cup {p.raw}
<1>1. rawFiles \in SUBSET RawReports
  BY DEF Process
<1>2. Append(p.reports, status) \in Seq(Statuses)
  BY AppendProperties DEF Process
<1>3. PICK files2 : files2 = rawFiles
  OBVIOUS
<1>4. PICK reports : reports = Append(p.reports, status)
  OBVIOUS
<1>5. Finishes(p, status, step) =
        [p EXCEPT !.at = step, !.since = second, !.reports = reports, !.rawFiles = files2,
                  !.warned = FALSE, !.raw = None]
  BY <1>3, <1>4 DEF Finishes, Process
<1>6. files2 = Referred(p)
  BY <1>3 DEF Referred
<1>8. files2 \in SUBSET RawReports /\ reports \in Seq(Statuses)
  BY <1>1, <1>2, <1>3, <1>4
<1>9. /\ q \in Process /\ q.at = step /\ q.hung = p.hung /\ q.reports = reports
      /\ q.warned = FALSE /\ q.failing = p.failing /\ q.rawFiles = files2 /\ q.raw = None
  <2>1. PICK q1 : q1 = [p EXCEPT !.at = step, !.since = second, !.reports = reports]
    OBVIOUS
  <2>2. q = [q1 EXCEPT !.rawFiles = files2, !.warned = FALSE, !.raw = None]
    BY <1>0, <1>5, <2>1
  <2>3. /\ q1 \in Process /\ q1.at = step /\ q1.hung = p.hung /\ q1.reports = reports
        /\ q1.failing = p.failing
    BY <1>8, <2>1 DEF Process
  <2>4. QED
    BY <1>8, <2>2, <2>3 DEF Process
<1>10. Referred(q) = Referred(p)
  BY <1>6, <1>9 DEF Referred
<1>11. QED
  BY <1>0, <1>4, <1>9, <1>10 DEF Finished

\* The record of a step that fails.
Failure(p, step) == [p EXCEPT !.hung = "no", !.failing = @ \cup {step}]

LEMMA FailureFields ==
    ASSUME NEW p \in Process, NEW step \in Steps
    PROVE  LET q == Failure(p, step)
           IN  /\ q \in Process /\ q.at = p.at /\ q.hung = "no"
               /\ q.reports = p.reports /\ q.warned = p.warned
               /\ q.failing = p.failing \cup {step}
               /\ q.raw = p.raw /\ q.rawFiles = p.rawFiles
  BY DEF Failure, Process

-----------------------------------------------------------------------------
\* What becomes of the run in each kind of step.

\* The run is as the invariant says and refers to one more raw file at most.
Collected(raw) == RunOK(proc', machine) /\ Refers(proc, proc', raw)

Later == Steps \ {"output", "upload"}

LEMMA HungCommand ==
    ASSUME RunOK(proc, machine), proc.at \notin Commands, proc.at # "upload"
    PROVE  proc.hung = "no"
  BY DEF RunOK, Process

LEMMA GoesOn ==
    ASSUME RunOK(proc, machine), NEW s \in Steps, NEW t \in Later, proc.hung = "no",
           Decides(s, Goes(proc, t)), Served(t) = Served(s), t \in Fresh => s \in Fresh
    PROVE  Collected({})
<1>1. proc \in Process /\ proc.at = s /\ proc' = Goes(proc, t)
  BY DEF RunOK, Decides, Becomes
<1>2. PICK p : p = proc
  OBVIOUS
<1>3. PICK q : q = Goes(p, t)
  OBVIOUS
<1>4. /\ q \in Process /\ q.at = t /\ q.hung = "no"
      /\ q.reports = p.reports /\ q.warned = p.warned /\ q.failing = p.failing
      /\ q.raw = p.raw /\ q.rawFiles = p.rawFiles
  BY <1>1, <1>2, <1>3, GoesFields DEF Later
<1>5. Continues(p, q, {})
  BY <1>1, <1>2, <1>4 DEF Continues, Later
<1>6. RunOK(q, machine)
  BY <1>1, <1>2, <1>4, <1>5, ContinuesOK
<1>7. Refers(p, q, {})
  BY <1>4, NotRunningSteps DEF Refers, Referred, Later
<1>8. QED
  BY <1>1, <1>2, <1>3, <1>6, <1>7 DEF Collected

LEMMA FailsOn ==
    ASSUME RunOK(proc, machine), NEW s \in Failing, NEW t \in Later,
           Fails(s, Warns(Goes(proc, t))), Served(t) = Served(s), t \notin Fresh
    PROVE  Collected({})
<1>1. proc \in Process /\ proc.at = s
  BY DEF RunOK, Fails
<1>2. PICK p : p = proc
  OBVIOUS
<1>3. PICK w : w = Warns(Goes(p, t))
  OBVIOUS
<1>4. PICK q : q = Failure(w, s)
  OBVIOUS
<1>5. proc' = q
  <2>1. proc' = Failure(Warns(Goes(proc, t)), s)
    BY DEF Fails, Becomes, Failure
  <2>2. QED
    BY <1>2, <1>3, <1>4, <2>1
<1>6. s \in Steps
  BY FailingServed
<1>7. /\ w \in Process /\ w.at = t /\ w.hung = p.hung
      /\ w.reports = p.reports /\ w.warned = TRUE /\ w.failing = p.failing
      /\ w.raw = p.raw /\ w.rawFiles = p.rawFiles
  BY <1>1, <1>2, <1>3, WarnsFields DEF Later
<1>8. /\ q \in Process /\ q.at = t /\ q.hung = "no"
      /\ q.reports = p.reports /\ q.warned = TRUE /\ q.failing = p.failing \cup {s}
      /\ q.raw = p.raw /\ q.rawFiles = p.rawFiles
  <2>1. /\ q \in Process /\ q.at = w.at /\ q.hung = "no"
        /\ q.reports = w.reports /\ q.warned = w.warned /\ q.failing = w.failing \cup {s}
        /\ q.raw = w.raw /\ q.rawFiles = w.rawFiles
    BY <1>4, <1>6, <1>7, FailureFields
  <2>2. QED
    BY <1>7, <2>1
<1>9. Continues(p, q, {p.at})
  BY <1>1, <1>2, <1>6, <1>8 DEF Continues, Later
<1>10. RunOK(q, machine)
  BY <1>1, <1>2, <1>8, <1>9, ContinuesFailing
<1>11. Refers(p, q, {})
  BY <1>8, NotRunningSteps DEF Refers, Referred, Later
<1>12. QED
  BY <1>2, <1>5, <1>10, <1>11 DEF Collected

LEMMA SilentOn ==
    ASSUME RunOK(proc, machine), NEW s \in Silent, NEW t \in Later,
           Fails(s, Goes(proc, t)), Served(t) = Served(s), t \in Fresh => s \in Fresh
    PROVE  Collected({})
<1>1. proc \in Process /\ proc.at = s
  BY DEF RunOK, Fails
<1>2. PICK p : p = proc
  OBVIOUS
<1>3. PICK w : w = Goes(p, t)
  OBVIOUS
<1>4. PICK q : q = Failure(w, s)
  OBVIOUS
<1>5. proc' = q
  <2>1. proc' = Failure(Goes(proc, t), s)
    BY DEF Fails, Becomes, Failure
  <2>2. QED
    BY <1>2, <1>3, <1>4, <2>1
<1>6. s \in Steps /\ {s} \in SUBSET Silent
  BY SilentSteps
<1>7. /\ w \in Process /\ w.at = t
      /\ w.reports = p.reports /\ w.warned = p.warned /\ w.failing = p.failing
      /\ w.raw = p.raw /\ w.rawFiles = p.rawFiles
  BY <1>1, <1>2, <1>3, GoesFields DEF Later
<1>8. /\ q \in Process /\ q.at = t /\ q.hung = "no"
      /\ q.reports = p.reports /\ q.warned = p.warned /\ q.failing = p.failing \cup {s}
      /\ q.raw = p.raw /\ q.rawFiles = p.rawFiles
  <2>1. /\ q \in Process /\ q.at = w.at /\ q.hung = "no"
        /\ q.reports = w.reports /\ q.warned = w.warned /\ q.failing = w.failing \cup {s}
        /\ q.raw = w.raw /\ q.rawFiles = w.rawFiles
    BY <1>4, <1>6, <1>7, FailureFields
  <2>2. QED
    BY <1>7, <2>1
<1>9. Continues(p, q, {s})
  BY <1>1, <1>2, <1>6, <1>8 DEF Continues, Later
<1>10. RunOK(q, machine)
  BY <1>1, <1>2, <1>6, <1>8, <1>9, ContinuesOK
<1>11. Refers(p, q, {})
  BY <1>8, NotRunningSteps DEF Refers, Referred, Later
<1>12. QED
  BY <1>2, <1>5, <1>10, <1>11 DEF Collected

LEMMA EndsWith ==
    ASSUME RunOK(proc, machine), second \in 0 .. MaxSecond,
           NEW s \in Steps, NEW t \in Later, NEW status \in Statuses, proc.hung = "no",
           Decides(s, Finishes(proc, status, t)), Served(t) = Served(s) + 1,
           IF status = "success" THEN ~proc.warned
           ELSE proc.warned \/ Lacks(Collectors[Served(s)], machine)
    PROVE  Collected({})
<1>1. proc \in Process /\ proc.at = s /\ proc' = Finishes(proc, status, t)
  BY DEF RunOK, Decides, Becomes
<1>2. PICK p : p = proc
  OBVIOUS
<1>3. PICK q : q = Finishes(p, status, t)
  OBVIOUS
<1>4. /\ q \in Process /\ q.at = t /\ q.hung = p.hung
      /\ q.reports = Append(p.reports, status) /\ q.warned = FALSE /\ q.failing = p.failing
      /\ Referred(q) = Referred(p)
  <2>1. p \in Process /\ t \in Steps /\ status \in Statuses
    BY <1>1, <1>2 DEF Later
  <2>2. Finished(p, Finishes(p, status, t), status, t)
    BY <2>1, FinishesFields
  <2>3. QED
    BY <1>3, <2>2 DEF Finished
<1>5. Ends(p, q, status, {})
  BY <1>1, <1>2, <1>4 DEF Ends, Later
<1>6. RunOK(q, machine)
  BY <1>1, <1>2, <1>5, EndsOK
<1>7. Refers(p, q, {})
  BY <1>4, NotRunningSteps DEF Refers, Referred, Later
<1>8. QED
  BY <1>1, <1>2, <1>3, <1>6, <1>7 DEF Collected

LEMMA FailsAtLast ==
    ASSUME RunOK(proc, machine), second \in 0 .. MaxSecond,
           NEW s \in Failing \cup Silent, NEW t \in Later, NEW status \in Statuses,
           Fails(s, Finishes(proc, status, t)), Served(t) = Served(s) + 1,
           IF status = "success" THEN s \in Silent /\ ~proc.warned ELSE s \in Failing
    PROVE  Collected({})
<1>1. proc \in Process /\ proc.at = s
  BY DEF RunOK, Fails
<1>2. PICK p : p = proc
  OBVIOUS
<1>3. PICK w : w = Finishes(p, status, t)
  OBVIOUS
<1>4. PICK q : q = Failure(w, s)
  OBVIOUS
<1>5. proc' = q
  <2>1. proc' = Failure(Finishes(proc, status, t), s)
    BY DEF Fails, Becomes, Failure
  <2>2. QED
    BY <1>2, <1>3, <1>4, <2>1
<1>6. s \in Steps
  BY FailingServed, SilentSteps
<1>7. /\ w \in Process /\ w.at = t
      /\ w.reports = Append(p.reports, status) /\ w.warned = FALSE /\ w.failing = p.failing
      /\ Referred(w) = Referred(p)
  <2>1. p \in Process /\ t \in Steps /\ status \in Statuses
    BY <1>1, <1>2 DEF Later
  <2>2. Finished(p, Finishes(p, status, t), status, t)
    BY <2>1, FinishesFields
  <2>3. QED
    BY <1>3, <2>2 DEF Finished
<1>8. /\ q \in Process /\ q.at = t /\ q.hung = "no"
      /\ q.reports = w.reports /\ q.warned = FALSE /\ q.failing = p.failing \cup {s}
      /\ q.raw = w.raw /\ q.rawFiles = w.rawFiles
  <2>1. /\ q \in Process /\ q.at = w.at /\ q.hung = "no"
        /\ q.reports = w.reports /\ q.warned = w.warned /\ q.failing = w.failing \cup {s}
        /\ q.raw = w.raw /\ q.rawFiles = w.rawFiles
    BY <1>4, <1>6, <1>7, FailureFields
  <2>2. QED
    BY <1>7, <2>1
<1>9. Ends(p, q, status, {s})
  BY <1>1, <1>2, <1>6, <1>7, <1>8 DEF Ends, Later
<1>10. RunOK(q, machine)
  BY <1>1, <1>2, <1>9, EndsOK
<1>11. Refers(p, q, {})
  BY <1>7, <1>8, NotRunningSteps DEF Refers, Referred, Later
<1>12. QED
  BY <1>2, <1>5, <1>10, <1>11 DEF Collected

LEMMA VersionKnown ==
    ASSUME RunOK(proc, machine), proc.hung = "no", NEW found \in BOOLEAN,
           Decides("version", [Goes(proc, "prefix") EXCEPT !.versioned = found])
    PROVE  Collected({})
<1>1. /\ proc \in Process /\ proc.at = "version"
      /\ proc' = [Goes(proc, "prefix") EXCEPT !.versioned = found]
  BY DEF RunOK, Decides, Becomes
<1>2. /\ "prefix" \in Steps /\ "version" \in Steps
      /\ Served("prefix") = 6 /\ Served("version") = 6 /\ "prefix" \notin Fresh
  BY DEF Steps, Commands, Served, Fresh
<1>3. PICK p : p = proc
  OBVIOUS
<1>4. PICK q : q = [Goes(p, "prefix") EXCEPT !.versioned = found]
  OBVIOUS
<1>5. /\ q \in Process /\ q.at = "prefix" /\ q.hung = p.hung
      /\ q.reports = p.reports /\ q.warned = p.warned /\ q.failing = p.failing
      /\ q.raw = p.raw /\ q.rawFiles = p.rawFiles
  BY <1>1, <1>2, <1>3, <1>4, GoesVersioned
<1>6. Continues(p, q, {})
  BY <1>1, <1>2, <1>3, <1>5 DEF Continues
<1>7. RunOK(q, machine)
  BY <1>2, <1>3, <1>5, <1>6, ContinuesOK
<1>8. Refers(p, q, {})
  BY <1>5 DEF Refers, Referred
<1>9. QED
  BY <1>1, <1>3, <1>4, <1>7, <1>8 DEF Collected

\* The raw file of a list, written now.
RawOf(list) == <<RawName(list, proc.since), proc.since>>

LEMMA WritesOn ==
    ASSUME RunOK(proc, machine), NEW s \in Steps, NEW t \in Later, proc.hung = "no", proc.at = s,
           NEW list \in {"dpkg", "rpm", "pip"}, proc' = [Goes(proc, t) EXCEPT !.raw = RawOf(list)],
           Served(t) = Served(s), t \notin Fresh
    PROVE  Collected({RawOf(list)})
<1>1. proc \in Process
  BY DEF RunOK
<1>2. PICK p : p = proc
  OBVIOUS
<1>3. PICK raw : raw = RawOf(list)
  OBVIOUS
<1>4. PICK q : q = [Goes(p, t) EXCEPT !.raw = raw]
  OBVIOUS
<1>5. raw \in RawReports
  <2>1. proc.since \in 0 .. MaxSecond
    BY <1>1 DEF Process
  <2>2. QED
    BY <1>3, <2>1 DEF RawReports, RawFiles, RawOf, RawName
<1>6. /\ q \in Process /\ q.at = t /\ q.hung = "no"
      /\ q.reports = p.reports /\ q.warned = p.warned /\ q.failing = p.failing
      /\ q.raw = raw /\ q.rawFiles = p.rawFiles
  BY <1>1, <1>2, <1>4, <1>5, GoesWritten DEF Later
<1>7. Continues(p, q, {})
  BY <1>2, <1>6 DEF Continues, Later
<1>8. RunOK(q, machine)
  BY <1>2, <1>6, <1>7, ContinuesOK
<1>9. Refers(p, q, {raw})
  BY <1>6, NotRunningSteps DEF Refers, Referred, Later
<1>10. QED
  BY <1>2, <1>3, <1>4, <1>8, <1>9 DEF Collected

-----------------------------------------------------------------------------
\* Each collector.

\* A step of a collector keeps the run in order and writes one raw file at most.
Serves ==
    /\ UNCHANGED <<machine, second>>
    /\ \/ Collected({}) /\ UNCHANGED files
       \/ \E list \in {"dpkg", "rpm", "pip"} :
             /\ Collected({RawOf(list)})
             /\ files' = [files EXCEPT ![RawName(list, proc.since)] =
                            [by |-> "self", since |-> proc.since]]

LEMMA StepsLater ==
    Later = {"uname", "hostname", "dpkg", "rpm", "rocm-smi", "rocminfo", "product", "lspci",
             "version", "prefix", "pip", "editable", "os-release", "gethostname", "dockerenv",
             "cgroup", "rocm version", "write dpkg", "write rpm", "write pip",
             "parse packages", "parse pip", "parse editable", "packages",
             "smi?", "info?", "product?", "lspci?", "python?", "finish"}
  BY DEF Later, Steps, Commands, Accesses, Decisions

\* The last steps of a collector, and the first of the next one.
LEMMA Successors ==
    /\ \A step \in {"gethostname", "hostname"} : Served("dockerenv") = Served(step) + 1
    /\ Served("packages") = Served("cgroup") + 1
    /\ \A step \in {"packages", "dpkg", "rpm", "parse packages"} :
          Served("rocm version") = Served(step) + 1
    /\ \A step \in {"info?", "rocminfo"} : Served("product?") = Served(step) + 1
    /\ \A step \in {"product", "lspci?", "lspci"} : Served("python?") = Served(step) + 1
    /\ \A step \in {"python?", "pip", "editable", "parse editable"} : Served("finish") = Served(step) + 1
<1>0. 2 = 1 + 1 /\ 3 = 2 + 1 /\ 4 = 3 + 1 /\ 5 = 4 + 1 /\ 6 = 5 + 1 /\ 7 = 6 + 1
  OBVIOUS
<1>1. /\ Served("dockerenv") = 2 /\ Served("packages") = 3 /\ Served("cgroup") = 2
      /\ Served("rocm version") = 4 /\ Served("product?") = 5 /\ Served("python?") = 6
      /\ Served("finish") = 7
  BY DEF Served
<1>2. /\ \A step \in {"gethostname", "hostname"} : Served(step) = 1
      /\ \A step \in {"packages", "dpkg", "rpm", "parse packages"} : Served(step) = 3
      /\ \A step \in {"info?", "rocminfo"} : Served(step) = 4
      /\ \A step \in {"product", "lspci?", "lspci"} : Served(step) = 5
      /\ \A step \in {"python?", "pip", "editable", "parse editable"} : Served(step) = 6
  BY DEF Served
<1>3. Served("packages") = Served("cgroup") + 1
  BY <1>0, <1>1, Zenon
<1>4. ASSUME NEW step \in {"packages", "dpkg", "rpm", "parse packages"}
      PROVE  Served("rocm version") = Served(step) + 1
  <2>1. Served("rocm version") = 4 /\ Served(step) = 3
    BY <1>1, <1>2
  <2>2. QED
    BY <1>0, <2>1, Zenon
<1>5. ASSUME NEW step \in {"info?", "rocminfo"}
      PROVE  Served("product?") = Served(step) + 1
  <2>1. Served("product?") = 5 /\ Served(step) = 4
    BY <1>1, <1>2
  <2>2. QED
    BY <1>0, <2>1, Zenon
<1>6. ASSUME NEW step \in {"product", "lspci?", "lspci"}
      PROVE  Served("python?") = Served(step) + 1
  <2>1. Served("python?") = 6 /\ Served(step) = 5
    BY <1>1, <1>2
  <2>2. QED
    BY <1>0, <2>1, Zenon
<1>7. ASSUME NEW step \in {"python?", "pip", "editable", "parse editable"}
      PROVE  Served("finish") = Served(step) + 1
  <2>1. Served("finish") = 7 /\ Served(step) = 6
    BY <1>1, <1>2
  <2>2. QED
    BY <1>0, <2>1, Zenon
<1>8. ASSUME NEW step \in {"gethostname", "hostname"}
      PROVE  Served("dockerenv") = Served(step) + 1
  <2>1. Served("dockerenv") = 2 /\ Served(step) = 1
    BY <1>1, <1>2
  <2>2. QED
    BY <1>0, <2>1, Zenon
<1>9. QED
  BY <1>3, <1>4, <1>5, <1>6, <1>7, <1>8

\* A decision, or an operation, that goes on with the collector.
LEMMA GoingOn ==
    ASSUME RunOK(proc, machine), NEW s \in Steps, NEW t \in Later, proc.hung = "no",
           Decides(s, Goes(proc, t)), Served(t) = Served(s), t \in Fresh => s \in Fresh
    PROVE  Serves
  BY GoesOn DEF Serves, Decides

LEMMA SilentlyOn ==
    ASSUME RunOK(proc, machine), NEW s \in Silent, NEW t \in Later, Served(t) = Served(s),
           t \in Fresh => s \in Fresh, Attempts(s, Goes(proc, t), Goes(proc, t))
    PROVE  Serves
<1>1. CASE Decides(s, Goes(proc, t)) /\ proc.hung = "no"
  BY <1>1, SilentSteps, GoingOn
<1>2. CASE Fails(s, Goes(proc, t))
  BY <1>2, SilentOn DEF Serves, Fails
<1>3. QED
  BY <1>1, <1>2 DEF Attempts

LEMMA AttemptsOn ==
    ASSUME RunOK(proc, machine), NEW s \in Failing, NEW t \in Later, Served(t) = Served(s),
           t \notin Fresh, Attempts(s, Goes(proc, t), Warns(Goes(proc, t)))
    PROVE  Serves
<1>1. CASE Decides(s, Goes(proc, t)) /\ proc.hung = "no"
  BY <1>1, FailingServed, GoingOn
<1>2. CASE Fails(s, Warns(Goes(proc, t)))
  BY <1>2, FailsOn DEF Serves, Fails
<1>3. QED
  BY <1>1, <1>2 DEF Attempts

\* One that ends it.
LEMMA Ending ==
    ASSUME RunOK(proc, machine), second \in 0 .. MaxSecond,
           NEW s \in Steps, NEW t \in Later, NEW status \in Statuses, proc.hung = "no",
           Decides(s, Finishes(proc, status, t)), Served(t) = Served(s) + 1,
           IF status = "success" THEN ~proc.warned
           ELSE proc.warned \/ Lacks(Collectors[Served(s)], machine)
    PROVE  Serves
  BY EndsWith DEF Serves, Decides

LEMMA EndingFlagged ==
    ASSUME RunOK(proc, machine), second \in 0 .. MaxSecond,
           NEW s \in Steps, NEW t \in Later, Served(t) = Served(s) + 1, proc.hung = "no",
           Decides(s, Finishes(proc, SuccessOrPartial(proc), t))
    PROVE  Serves
<1>1. PICK status \in Statuses : status = SuccessOrPartial(proc)
  BY DEF SuccessOrPartial, Statuses
<1>2. Decides(s, Finishes(proc, status, t))
  BY <1>1
<1>3. IF status = "success" THEN ~proc.warned
      ELSE proc.warned \/ Lacks(Collectors[Served(s)], machine)
  BY <1>1 DEF SuccessOrPartial
<1>4. QED
  BY <1>2, <1>3, Ending

LEMMA Breaking ==
    ASSUME RunOK(proc, machine), second \in 0 .. MaxSecond,
           NEW s \in Failing, NEW t \in Later, NEW status \in Statuses \ {"success"},
           Fails(s, Finishes(proc, status, t)), Served(t) = Served(s) + 1
    PROVE  Serves
  BY FailsAtLast DEF Serves, Fails

LEMMA AttemptsLast ==
    ASSUME RunOK(proc, machine), second \in 0 .. MaxSecond,
           NEW s \in Failing, NEW t \in Later, Served(t) = Served(s) + 1,
           Attempts(s, Finishes(proc, SuccessOrPartial(proc), t), Finishes(proc, "partial", t))
    PROVE  Serves
<1>1. CASE Decides(s, Finishes(proc, SuccessOrPartial(proc), t)) /\ proc.hung = "no"
  BY <1>1, FailingServed, EndingFlagged
<1>2. CASE Fails(s, Finishes(proc, "partial", t))
  BY <1>2, Breaking DEF Statuses
<1>3. QED
  BY <1>1, <1>2 DEF Attempts

\* One that writes the raw file of its list.
LEMMA WritingOn ==
    ASSUME RunOK(proc, machine), NEW s \in Failing \ Commands, NEW t \in Later,
           NEW list \in {"dpkg", "rpm", "pip"}, Served(t) = Served(s), t \notin Fresh,
           Writes(s, RawName(list, proc.since), proc.since,
                  [Goes(proc, t) EXCEPT !.raw = RawOf(list)], Warns(Goes(proc, t)))
    PROVE  Serves
<1>1. CASE Fails(s, Warns(Goes(proc, t)))
  BY <1>1, FailsOn DEF Serves, Fails
<1>2. CASE /\ proc.at = s
           /\ files' = [files EXCEPT ![RawName(list, proc.since)] =
                          [by |-> "self", since |-> proc.since]]
           /\ Becomes([Goes(proc, t) EXCEPT !.raw = RawOf(list)])
           /\ UNCHANGED <<machine, second>>
  <2>1. proc.hung = "no"
    BY <1>2, HungCommand DEF Failing
  <2>2. proc' = [Goes(proc, t) EXCEPT !.raw = RawOf(list)]
    BY <1>2 DEF Becomes
  <2>3. Collected({RawOf(list)})
    BY <1>2, <2>1, <2>2, FailingServed, WritesOn
  <2>4. QED
    BY <1>2, <2>3 DEF Serves
<1>3. QED
  BY <1>1, <1>2 DEF Writes

LEMMA LinuxSystemServes ==
    ASSUME RunOK(proc, machine), second \in 0 .. MaxSecond, LinuxSystem
    PROVE  Serves
<1>0. /\ {"os-release", "uname", "hostname"} \subseteq Failing /\ "gethostname" \in Silent
      /\ {"uname", "gethostname", "hostname", "dockerenv"} \subseteq Later
      /\ {"uname", "gethostname", "hostname"} \cap Fresh = {}
      /\ Served("os-release") = 1 /\ Served("uname") = 1 /\ Served("gethostname") = 1
      /\ Served("hostname") = 1
  BY StepsLater DEF Failing, Commands, Accesses, Served, Fresh, Silent
<1>1. CASE Attempts("os-release", Goes(proc, "uname"), Warns(Goes(proc, "uname")))
  BY <1>0, <1>1, AttemptsOn
<1>2. CASE Attempts("uname", Goes(proc, "gethostname"), Warns(Goes(proc, "gethostname")))
  BY <1>0, <1>2, AttemptsOn
<1>3. CASE Attempts("gethostname", Finishes(proc, SuccessOrPartial(proc), "dockerenv"),
                    Goes(proc, "hostname"))
  <2>1. CASE /\ Decides("gethostname", Finishes(proc, SuccessOrPartial(proc), "dockerenv"))
             /\ proc.hung = "no"
    BY <1>0, <2>1, Successors, SilentSteps, EndingFlagged
  <2>2. CASE Fails("gethostname", Goes(proc, "hostname"))
    BY <1>0, <2>2, SilentOn DEF Serves, Fails
  <2>3. QED
    BY <1>3, <2>1, <2>2 DEF Attempts
<1>4. CASE Attempts("hostname", Finishes(proc, SuccessOrPartial(proc), "dockerenv"),
                    Finishes(proc, "partial", "dockerenv"))
  BY <1>0, <1>4, Successors, AttemptsLast
<1>5. QED
  BY <1>1, <1>2, <1>3, <1>4 DEF LinuxSystem

LEMMA ContainerServes ==
    ASSUME RunOK(proc, machine), second \in 0 .. MaxSecond, Container
    PROVE  Serves
<1>0. /\ {"dockerenv", "cgroup"} \subseteq Silent \cap Fresh /\ {"cgroup", "packages"} \subseteq Later
      /\ Served("dockerenv") = 2 /\ Served("cgroup") = 2
  BY StepsLater DEF Silent, Fresh, Served
<1>1. CASE Attempts("dockerenv", Goes(proc, "cgroup"), Goes(proc, "cgroup"))
  BY <1>0, <1>1, SilentlyOn
<1>2. CASE Attempts("cgroup", Finishes(proc, "success", "packages"),
                    Finishes(proc, "success", "packages"))
  <2>1. CASE Decides("cgroup", Finishes(proc, "success", "packages")) /\ proc.hung = "no"
    <3>1. ~proc.warned
      BY <1>0, <2>1 DEF RunOK, Decides
    <3>2. QED
      BY <1>0, <2>1, <3>1, Successors, SilentSteps, Ending DEF Statuses
  <2>2. CASE Fails("cgroup", Finishes(proc, "success", "packages"))
    <3>1. ~proc.warned
      BY <1>0, <2>2 DEF RunOK, Fails
    <3>2. QED
      BY <1>0, <2>2, <3>1, Successors, FailsAtLast DEF Serves, Fails, Statuses
  <2>3. QED
    BY <1>2, <2>1, <2>2 DEF Attempts
<1>3. QED
  BY <1>1, <1>2 DEF Container

LEMMA SystemPackagesServes ==
    ASSUME RunOK(proc, machine), second \in 0 .. MaxSecond, SystemPackages
    PROVE  Serves
<1>1. PICK list \in {"dpkg", "rpm"} : list = IF "dpkg" \in machine THEN "dpkg" ELSE "rpm"
  OBVIOUS
<1>2. /\ list \in Failing /\ list \in Later /\ Served(list) = 3 /\ list \notin Fresh
      /\ WriteStep(list) \in Failing \ Commands /\ WriteStep(list) \in Later
      /\ Served(WriteStep(list)) = 3 /\ WriteStep(list) \notin Fresh
  BY StepsLater DEF Failing, Commands, Accesses, Served, Fresh, WriteStep, Silent
<1>3. /\ "parse packages" \in Later /\ "parse packages" \in Failing
      /\ Served("parse packages") = 3 /\ "parse packages" \notin Fresh
      /\ "packages" \in Steps /\ Served("packages") = 3 /\ "rocm version" \in Later
  BY StepsLater DEF Failing, Commands, Accesses, Served, Fresh, Later, Silent
<1>0. \A step \in {"packages", list, "parse packages"} :
        Served("rocm version") = Served(step) + 1
  BY Successors
<1>4. CASE Decides("packages", IF machine \cap {"dpkg", "rpm"} # {} THEN Goes(proc, list)
                               ELSE Finishes(proc, "skipped", "rocm version"))
  <2>1. proc.hung = "no"
    BY <1>4, HungCommand DEF Decides, Commands
  <2>2. CASE machine \cap {"dpkg", "rpm"} # {}
    <3>1. Decides("packages", Goes(proc, list))
      BY <1>4, <2>2
    <3>2. QED
      BY <1>2, <1>3, <2>1, <3>1, GoingOn
  <2>3. CASE machine \cap {"dpkg", "rpm"} = {}
    <3>1. Decides("packages", Finishes(proc, "skipped", "rocm version"))
      BY <1>4, <2>3
    <3>2. Lacks(Collectors[Served("packages")], machine)
      <4>1. Served("packages") = 3 /\ Collectors[3] = "system_packages"
        BY <1>3 DEF Collectors
      <4>2. Lacks("system_packages", machine)
        BY <2>3 DEF Lacks
      <4>3. QED
        BY <4>1, <4>2
    <3>3. QED
      BY <1>3, <2>1, <3>1, <3>2, <1>0, Ending DEF Statuses
  <2>4. QED
    BY <2>2, <2>3
<1>5. CASE Attempts(list, Goes(proc, WriteStep(list)), Finishes(proc, "failed", "rocm version"))
  <2>1. CASE Decides(list, Goes(proc, WriteStep(list))) /\ proc.hung = "no"
    <3>1. list \in Steps
      BY <1>2, FailingServed
    <3>2. QED
      BY <1>2, <2>1, <3>1, GoingOn
  <2>2. CASE Fails(list, Finishes(proc, "failed", "rocm version"))
    BY <1>2, <1>3, <2>2, <1>0, Breaking DEF Statuses
  <2>3. QED
    BY <1>5, <2>1, <2>2 DEF Attempts
<1>6. CASE Writes(WriteStep(list), RawName(list, proc.since), proc.since,
                  [Goes(proc, "parse packages") EXCEPT !.raw = <<RawName(list, proc.since), proc.since>>],
                  Warns(Goes(proc, "parse packages")))
  <2>1. Writes(WriteStep(list), RawName(list, proc.since), proc.since,
               [Goes(proc, "parse packages") EXCEPT !.raw = RawOf(list)],
               Warns(Goes(proc, "parse packages")))
    BY <1>6 DEF RawOf
  <2>2. QED
    BY <1>2, <1>3, <2>1, WritingOn
<1>7. CASE Attempts("parse packages", Finishes(proc, SuccessOrPartial(proc), "rocm version"),
                    Finishes(proc, "partial", "rocm version"))
  BY <1>3, <1>7, <1>0, AttemptsLast
<1>8. QED
  BY <1>1, <1>4, <1>5, <1>6, <1>7 DEF SystemPackages

LEMMA ROCmServes ==
    ASSUME RunOK(proc, machine), second \in 0 .. MaxSecond, ROCm
    PROVE  Serves
<1>1. /\ "smi?" \in Steps /\ "info?" \in Steps /\ "rocm-smi" \in Failing /\ "rocminfo" \in Failing
      /\ "rocm version" \in Silent /\ Served("rocm version") = 4
      /\ "smi?" \in Later \ Fresh
      /\ {"rocm-smi", "info?", "rocminfo", "product?"} \subseteq Later
      /\ {"rocm-smi", "info?", "rocminfo"} \cap Fresh = {}
      /\ Served("smi?") = 4 /\ Served("info?") = 4 /\ Served("rocm-smi") = 4
      /\ Served("rocminfo") = 4
  BY StepsLater DEF Failing, Commands, Accesses, Served, Fresh, Later, Silent
<1>2. CASE Decides("smi?", Goes(proc, IF "rocm-smi" \in machine THEN "rocm-smi" ELSE "info?"))
  <2>1. PICK t \in {"rocm-smi", "info?"} : t = IF "rocm-smi" \in machine THEN "rocm-smi" ELSE "info?"
    OBVIOUS
  <2>2. proc.hung = "no" /\ Decides("smi?", Goes(proc, t))
    BY <1>2, <2>1, HungCommand DEF Decides, Commands
  <2>3. t \in Later /\ t \notin Fresh /\ Served(t) = Served("smi?")
    BY <1>1, <2>1
  <2>4. QED
    BY <1>1, <2>2, <2>3, GoingOn
<1>3. CASE Attempts("rocm-smi", Goes(proc, "info?"), Warns(Goes(proc, "info?")))
  BY <1>1, <1>3, AttemptsOn
<1>4. CASE Decides("info?", IF "rocminfo" \in machine THEN Goes(proc, "rocminfo")
                            ELSE Finishes(proc, SuccessOrPartial(proc), "product?"))
  <2>1. proc.hung = "no"
    BY <1>4, HungCommand DEF Decides, Commands
  <2>2. CASE "rocminfo" \in machine
    <3>1. Decides("info?", Goes(proc, "rocminfo"))
      BY <1>4, <2>2
    <3>2. QED
      BY <1>1, <2>1, <3>1, GoingOn
  <2>3. CASE "rocminfo" \notin machine
    <3>1. Decides("info?", Finishes(proc, SuccessOrPartial(proc), "product?"))
      BY <1>4, <2>3
    <3>2. QED
      BY <1>1, <2>1, <3>1, Successors, EndingFlagged
  <2>4. QED
    BY <2>2, <2>3
<1>5. CASE Attempts("rocminfo", Finishes(proc, SuccessOrPartial(proc), "product?"),
                    Finishes(proc, "partial", "product?"))
  BY <1>1, <1>5, Successors, AttemptsLast
<1>6. CASE Attempts("rocm version", Goes(proc, "smi?"), Goes(proc, "smi?"))
  BY <1>1, <1>6, SilentlyOn
<1>7. QED
  BY <1>2, <1>3, <1>4, <1>5, <1>6 DEF ROCm

LEMMA GPUServes ==
    ASSUME RunOK(proc, machine), second \in 0 .. MaxSecond, GPU
    PROVE  Serves
<1>1. /\ "product?" \in Steps /\ "lspci?" \in Steps /\ "product" \in Failing /\ "lspci" \in Failing
      /\ {"product", "lspci?", "lspci", "python?"} \subseteq Later
      /\ {"lspci?", "lspci"} \cap Fresh = {} /\ "product?" \in Fresh /\ "product" \in Fresh
      /\ Served("product?") = 5 /\ Served("product") = 5 /\ Served("lspci?") = 5
      /\ Served("lspci") = 5
  BY StepsLater DEF Failing, Commands, Accesses, Served, Fresh, Later, Silent
<1>2. CASE Decides("product?", Goes(proc, IF "rocm-smi" \in machine THEN "product" ELSE "lspci?"))
  <2>1. PICK t \in {"product", "lspci?"} : t = IF "rocm-smi" \in machine THEN "product" ELSE "lspci?"
    OBVIOUS
  <2>2. proc.hung = "no" /\ Decides("product?", Goes(proc, t))
    BY <1>2, <2>1, HungCommand DEF Decides, Commands
  <2>3. t \in Later /\ Served(t) = Served("product?")
    BY <1>1, <2>1
  <2>4. QED
    BY <1>1, <2>2, <2>3, GoingOn
<1>3. CASE Attempts("product", Finishes(proc, "success", "python?"), Warns(Goes(proc, "lspci?")))
  <2>1. CASE Decides("product", Finishes(proc, "success", "python?")) /\ proc.hung = "no"
    <3>1. ~proc.warned
      BY <1>1, <2>1 DEF RunOK, Decides
    <3>2. QED
      BY <1>1, <2>1, <3>1, Successors, Ending, FailingServed DEF Statuses
  <2>2. CASE Fails("product", Warns(Goes(proc, "lspci?")))
    BY <1>1, <2>2, FailsOn DEF Serves, Fails
  <2>3. QED
    BY <1>3, <2>1, <2>2 DEF Attempts
<1>4. CASE Decides("lspci?", IF "lspci" \in machine THEN Goes(proc, "lspci")
                             ELSE Finishes(proc, "partial", "python?"))
  <2>1. proc.hung = "no"
    BY <1>4, HungCommand DEF Decides, Commands
  <2>2. CASE "lspci" \in machine
    <3>1. Decides("lspci?", Goes(proc, "lspci"))
      BY <1>4, <2>2
    <3>2. QED
      BY <1>1, <2>1, <3>1, GoingOn
  <2>3. CASE "lspci" \notin machine
    <3>1. Decides("lspci?", Finishes(proc, "partial", "python?"))
      BY <1>4, <2>3
    <3>2. Lacks(Collectors[Served("lspci?")], machine)
      BY <1>1, <2>3 DEF Lacks, Collectors
    <3>3. QED
      BY <1>1, <2>1, <3>1, <3>2, Successors, Ending DEF Statuses
  <2>4. QED
    BY <2>2, <2>3
<1>5. CASE Attempts("lspci", Finishes(proc, SuccessOrPartial(proc), "python?"),
                    Finishes(proc, "partial", "python?"))
  BY <1>1, <1>5, Successors, AttemptsLast
<1>6. QED
  BY <1>2, <1>3, <1>4, <1>5 DEF GPU

LEMMA PythonPackagesServes ==
    ASSUME RunOK(proc, machine), second \in 0 .. MaxSecond, PythonPackages
    PROVE  Serves
<1>1. /\ {"python?", "version", "prefix", "pip", "parse pip", "write pip", "editable",
          "parse editable"} \subseteq Later \ Fresh
      /\ {"version", "pip", "parse pip", "write pip", "editable", "parse editable"}
           \subseteq Failing
      /\ "prefix" \in Silent
      /\ Later \subseteq Steps /\ "write pip" \notin Commands
      /\ Served("python?") = 6 /\ Served("version") = 6 /\ Served("prefix") = 6
      /\ Served("pip") = 6 /\ Served("parse pip") = 6 /\ Served("write pip") = 6
      /\ Served("editable") = 6 /\ Served("parse editable") = 6
      /\ "finish" \in Later
  <2>1. Later \subseteq Steps
    BY DEF Later
  <2>2. QED
    BY <2>1, StepsLater DEF Failing, Commands, Accesses, Served, Fresh, Silent
<1>2. WriteStep("pip") = "write pip"
  BY DEF WriteStep
<1>3. CASE Decides("python?", IF "python" \in machine THEN Goes(proc, "version")
                              ELSE Finishes(proc, "skipped", "finish"))
  <2>1. proc.hung = "no"
    BY <1>3, HungCommand DEF Decides, Commands
  <2>2. CASE "python" \in machine
    <3>1. Decides("python?", Goes(proc, "version"))
      BY <1>3, <2>2
    <3>2. QED
      BY <1>1, <2>1, <3>1, GoingOn
  <2>3. CASE "python" \notin machine
    <3>1. Decides("python?", Finishes(proc, "skipped", "finish"))
      BY <1>3, <2>3
    <3>2. Lacks(Collectors[Served("python?")], machine)
      <4>1. Served("python?") = 6 /\ Collectors[6] = "python_packages"
        BY <1>1 DEF Collectors
      <4>2. Lacks("python_packages", machine)
        BY <2>3 DEF Lacks
      <4>3. QED
        BY <4>1, <4>2
    <3>3. QED
      BY <1>1, <2>1, <3>1, <3>2, Successors, Ending DEF Statuses
  <2>4. QED
    BY <2>2, <2>3
<1>4. ASSUME NEW found \in BOOLEAN,
             Attempts("version", [Goes(proc, "prefix") EXCEPT !.versioned = found],
                      Warns(Goes(proc, "prefix")))
      PROVE  Serves
  <2>1. CASE Decides("version", [Goes(proc, "prefix") EXCEPT !.versioned = found])
             /\ proc.hung = "no"
    BY <2>1, VersionKnown DEF Serves, Decides
  <2>2. CASE Fails("version", Warns(Goes(proc, "prefix")))
    BY <1>1, <2>2, FailsOn DEF Serves, Fails
  <2>3. QED
    BY <1>4, <2>1, <2>2 DEF Attempts
<1>5. CASE Attempts("prefix", Goes(proc, "pip"), Goes(proc, "pip"))
  BY <1>1, <1>5, SilentlyOn
<1>6. CASE Attempts("pip", Goes(proc, "parse pip"),
                    Finishes(proc, IF proc.versioned THEN "partial" ELSE "failed", "finish"))
  <2>1. CASE Decides("pip", Goes(proc, "parse pip")) /\ proc.hung = "no"
    BY <1>1, <2>1, GoingOn
  <2>2. CASE Fails("pip", Finishes(proc, IF proc.versioned THEN "partial" ELSE "failed", "finish"))
    <3>1. PICK status \in Statuses \ {"success"} :
            status = IF proc.versioned THEN "partial" ELSE "failed"
      BY DEF Statuses
    <3>2. Fails("pip", Finishes(proc, status, "finish"))
      BY <2>2, <3>1
    <3>3. QED
      BY <1>1, <3>2, Successors, Breaking
  <2>3. QED
    BY <1>6, <2>1, <2>2 DEF Attempts
<1>7. CASE Attempts("parse pip", Goes(proc, WriteStep("pip")), Warns(Goes(proc, WriteStep("pip"))))
  BY <1>1, <1>2, <1>7, AttemptsOn
<1>8. CASE Writes(WriteStep("pip"), RawName("pip", proc.since), proc.since,
                  [Goes(proc, "editable") EXCEPT !.raw = <<RawName("pip", proc.since), proc.since>>],
                  Warns(Goes(proc, "editable")))
  <2>1. Writes("write pip", RawName("pip", proc.since), proc.since,
               [Goes(proc, "editable") EXCEPT !.raw = RawOf("pip")], Warns(Goes(proc, "editable")))
    BY <1>2, <1>8 DEF RawOf
  <2>2. QED
    BY <1>1, <2>1, WritingOn
<1>9. CASE Attempts("editable", Goes(proc, "parse editable"), Finishes(proc, "partial", "finish"))
  <2>1. CASE Decides("editable", Goes(proc, "parse editable")) /\ proc.hung = "no"
    BY <1>1, <2>1, GoingOn
  <2>2. CASE Fails("editable", Finishes(proc, "partial", "finish"))
    BY <1>1, <2>2, Successors, Breaking DEF Statuses
  <2>3. QED
    BY <1>9, <2>1, <2>2 DEF Attempts
<1>10. CASE Attempts("parse editable", Finishes(proc, SuccessOrPartial(proc), "finish"),
                     Finishes(proc, "partial", "finish"))
  BY <1>1, <1>10, Successors, AttemptsLast
<1>11. QED
  BY <1>3, <1>4, <1>5, <1>6, <1>7, <1>8, <1>9, <1>10 DEF PythonPackages

-----------------------------------------------------------------------------
\* The directory.

LEMMA NamesAreFiles == DatedNames \subseteq FileNames /\ RawFiles \subseteq DatedNames
  BY DEF DatedNames, FileNames

\* A name given by the user is not one of those that hold a time.
LEMMA GivenNames ==
    ASSUME NEW name \in Outputs \X {0}
    PROVE  name \in FileNames /\ name \notin DatedNames
  BY OutputsAssumption DEF FileNames, DatedNames, RawFiles

LEMMA FileWritten ==
    ASSUME FilesOK(files), NEW name \in FileNames, NEW by \in {"self", "other"},
           NEW since \in 0 .. MaxSecond, name \in DatedNames => since = name[2],
           files' = [files EXCEPT ![name] = [by |-> by, since |-> since]]
    PROVE  /\ FilesOK(files')
           /\ files'[name] # None
           /\ \A f \in FileNames : files[f] # None => files'[f] # None
<1>1. PICK content : content = [by |-> by, since |-> since]
  OBVIOUS
<1>2. content \in Content /\ content.since = since
  BY <1>1 DEF Content
<1>3. content # None
  BY <1>2, NoneIsNoValue
<1>4. files' = [files EXCEPT ![name] = content]
  BY <1>1
<1>5. /\ files' \in [FileNames -> Content \cup {None}]
      /\ files'[name] = content
      /\ \A f \in FileNames \ {name} : files'[f] = files[f]
  BY <1>2, <1>4 DEF FilesOK
<1>6. ASSUME NEW f \in DatedNames, files'[f] # None
      PROVE  files'[f].since = f[2]
  <2>1. CASE f = name
    BY <1>2, <1>5, <2>1
  <2>2. CASE f # name
    BY <1>5, <1>6, <2>2, NamesAreFiles DEF FilesOK
  <2>3. QED
    BY <2>1, <2>2
<1>7. QED
  BY <1>3, <1>5, <1>6 DEF FilesOK

LEMMA ReferredReports ==
    ASSUME NEW p \in Process
    PROVE  \A raw \in Referred(p) : raw \in RawReports /\ raw[1] \in RawFiles /\ raw[1] \in FileNames
<1>1. Referred(p) \subseteq RawReports
  BY DEF Referred, Process
<1>2. QED
  BY <1>1, NamesAreFiles DEF RawReports

LEMMA OutputNames ==
    ASSUME NEW p \in Process, p.flags \in Flags
    PROVE  /\ OutputName(p) \in FileNames
           /\ p.flags.output = None => OutputName(p) \in DatedNames /\ OutputName(p)[2] = p.began
           /\ OutputName(p) \in DatedNames => p.began = OutputName(p)[2]
<1>1. p.began \in 0 .. MaxSecond /\ p.flags.output \in Outputs \cup {None}
  BY DEF Process, Flags
<1>2. CASE p.flags.output = None
  BY <1>1, <1>2, NamesAreFiles DEF OutputName, DatedNames
<1>3. CASE p.flags.output # None
  <2>1. OutputName(p) \in Outputs \X {0}
    BY <1>1, <1>3 DEF OutputName
  <2>2. QED
    BY <1>3, <2>1, GivenNames
<1>4. QED
  BY <1>2, <1>3

\* Nothing removes a file: what the run has kept stays.
LEMMA KeptStays ==
    ASSUME NEW p \in Process, KeptOK(p, files),
           \A f \in FileNames : files[f] # None => files'[f] # None
    PROVE  KeptOK(p, files')
<1>1. \A raw \in Referred(p) : files'[raw[1]] # None /\ raw[2] = raw[1][2]
  BY ReferredReports DEF KeptOK
<1>2. ASSUME p.at \in {"upload", "done"}, ShouldWriteOutput(p.flags)
      PROVE  files'[OutputName(p)] # None
  BY <1>2, OutputNames DEF KeptOK
<1>3. QED
  BY <1>1, <1>2 DEF KeptOK

LEMMA ServesKeeps ==
    ASSUME Inv, Serves
    PROVE  Inv'
<1>1. proc \in Process /\ machine' = machine /\ second' = second
  BY DEF Inv, RunOK, Serves
<1>2. CASE Collected({}) /\ UNCHANGED files
  <2>1. RunOK(proc', machine') /\ proc'.at \notin {"output", "upload", "done"}
        /\ Referred(proc') \subseteq Referred(proc)
    BY <1>1, <1>2 DEF Collected, Refers
  <2>2. KeptOK(proc', files')
    BY <1>2, <2>1 DEF KeptOK, Inv
  <2>3. QED
    BY <1>1, <1>2, <2>1, <2>2 DEF Inv
<1>3. ASSUME NEW list \in {"dpkg", "rpm", "pip"}, Collected({RawOf(list)}),
             files' = [files EXCEPT ![RawName(list, proc.since)] =
                         [by |-> "self", since |-> proc.since]]
      PROVE  Inv'
  <2>1. proc.since \in 0 .. MaxSecond
    BY <1>1 DEF Process
  <2>2. PICK name : name = RawName(list, proc.since)
    OBVIOUS
  <2>3. name \in RawFiles /\ name[2] = proc.since
    BY <2>1, <2>2 DEF RawName, RawFiles
  <2>4. PICK since : since = proc.since
    OBVIOUS
  <2>5. FilesOK(files') /\ files'[name] # None
        /\ \A f \in FileNames : files[f] # None => files'[f] # None
    <3>1. files' = [files EXCEPT ![name] = [by |-> "self", since |-> since]]
      BY <1>3, <2>2, <2>4
    <3>2. name \in FileNames /\ since \in 0 .. MaxSecond /\ since = name[2]
      BY <2>1, <2>3, <2>4, NamesAreFiles
    <3>3. FilesOK(files)
      BY DEF Inv
    <3>4. QED
      BY <3>1, <3>2, <3>3, FileWritten
  <2>6. RunOK(proc', machine') /\ proc'.at \notin {"output", "upload", "done"}
        /\ Referred(proc') \subseteq Referred(proc) \cup {RawOf(list)}
    BY <1>1, <1>3 DEF Collected, Refers
  <2>7. RawOf(list)[1] = name /\ RawOf(list)[2] = name[2]
    BY <2>2, <2>3 DEF RawOf
  <2>8. \A raw \in Referred(proc) : files'[raw[1]] # None /\ raw[2] = raw[1][2]
    BY <1>1, <2>5, ReferredReports DEF Inv, KeptOK
  <2>9. KeptOK(proc', files')
    BY <2>5, <2>6, <2>7, <2>8 DEF KeptOK
  <2>10. QED
    BY <1>1, <2>5, <2>6, <2>9 DEF Inv
<1>4. QED
  BY <1>2, <1>3 DEF Serves

-----------------------------------------------------------------------------
\* The end of the run.

\* The reports stand when the run leaves the collectors, or is given up.
LEMMA Concludes ==
    ASSUME NEW p, NEW q, NEW tools, RunOK(p, tools), p.at \in Steps,
           q \in Process, q.hung = "no", q.reports = p.reports,
           \A i \in 1..6 : Failed(q, i) = Failed(p, i),
           \/ q.at = "failed"
           \/ Served(p.at) = 7 /\ q.at \in {"output", "upload", "done"}
    PROVE  RunOK(q, tools)
<1>1. \A i \in 1..Len(q.reports) : IF q.reports[i] = "success" THEN Failed(q, i) = {}
                                   ELSE Failed(q, i) # {} \/ Lacks(Collectors[i], tools)
  BY ServedType DEF RunOK
<1>2. q.at # "off" /\ q.at \notin Fresh /\ Len(q.reports) <= 6
  BY DEF RunOK, Fresh
<1>3. CASE q.at = "failed"
  BY <1>1, <1>2, <1>3, NotRunningSteps DEF RunOK
<1>4. CASE Served(p.at) = 7 /\ q.at \in {"output", "upload", "done"}
  <2>1. Served(q.at) = 7
    BY <1>4 DEF Served
  <2>2. Len(q.reports) = Served(q.at) - 1
    BY <1>4, <2>1 DEF RunOK
  <2>3. QED
    BY <1>1, <1>2, <2>1, <2>2 DEF RunOK
<1>5. QED
  BY <1>3, <1>4

LEMMA LastSteps ==
    ASSUME NEW s \in {"finish", "output", "upload"}
    PROVE  /\ s \in Steps /\ s \notin Commands /\ Served(s) = 7
           /\ \A i \in 1..6 : s \notin StepsOf(Collectors[i])
<1>1. s \in Steps /\ s \notin Commands
  BY DEF Steps, Commands, Accesses, Decisions
<1>2. Served(s) = 7
  BY DEF Served
<1>3. QED
  BY <1>1, <1>2, StepsOfServed

\* What becomes of the snapshot changes nothing that the run knows.
After(p, q, fails) ==
    /\ q \in Process /\ q.hung = "no"
    /\ q.reports = p.reports /\ q.failing = p.failing \cup fails
    /\ q.raw = p.raw /\ q.rawFiles = p.rawFiles /\ q.began = p.began

LEMMA AfterOK ==
    ASSUME NEW p, NEW q, NEW tools, RunOK(p, tools), p.at \in {"finish", "output", "upload"},
           NEW fails \in {{}, {p.at}}, After(p, q, fails),
           q.at \in {"output", "upload", "done", "failed"}
    PROVE  RunOK(q, tools) /\ Referred(q) = Referred(p)
<1>1. \A i \in 1..6 : Failed(q, i) = Failed(p, i)
  BY LastSteps DEF After, Failed
<1>2. q \in Process /\ q.hung = "no" /\ q.reports = p.reports /\ Referred(q) = Referred(p)
  BY DEF After, Referred
<1>3. p.at \in Steps /\ Served(p.at) = 7
  BY LastSteps
<1>4. QED
  BY <1>1, <1>2, <1>3, Concludes

LEMMA NotStuck ==
    ASSUME NEW p, NEW tools, RunOK(p, tools), p.at \in {"finish", "output"}
    PROVE  p \in Process /\ p.hung = "no"
  BY LastSteps DEF RunOK, Process

\* The run has drawn its flags and goes on to s.
LEMMA FlaggedFields ==
    ASSUME NEW p \in Process, p.hung = "no", NEW flags \in Flags,
           NEW s \in {"output", "upload", "done", "failed"}
    PROVE  LET q == Goes([p EXCEPT !.flags = flags], s)
           IN  After(p, q, {}) /\ q.at = s /\ q.flags = flags
<1>1. s \in Steps \cup {"off", "done", "failed"}
  BY DEF Steps, Accesses
<1>2. PICK r : r = [p EXCEPT !.flags = flags]
  OBVIOUS
<1>3. /\ r \in Process /\ r.hung = "no" /\ r.reports = p.reports /\ r.failing = p.failing
      /\ r.raw = p.raw /\ r.rawFiles = p.rawFiles /\ r.began = p.began /\ r.flags = flags
  BY <1>2 DEF Process
<1>4. PICK q : q = Goes(r, s)
  OBVIOUS
<1>5. /\ q \in Process /\ q.hung = "no" /\ q.reports = p.reports /\ q.failing = p.failing
      /\ q.raw = p.raw /\ q.rawFiles = p.rawFiles /\ q.began = p.began /\ q.flags = flags
      /\ q.at = s
  BY <1>1, <1>3, <1>4 DEF Goes, Process
<1>6. QED
  BY <1>2, <1>4, <1>5 DEF After

LEMMA GoneFields ==
    ASSUME NEW p \in Process, p.hung = "no", NEW s \in {"upload", "done", "failed"}
    PROVE  LET q == Goes(p, s)
           IN  After(p, q, {}) /\ q.at = s /\ q.flags = p.flags
<1>1. s \in Steps \cup {"off", "done", "failed"}
  BY DEF Steps, Accesses
<1>2. PICK q : q = Goes(p, s)
  OBVIOUS
<1>3. /\ q \in Process /\ q.hung = "no" /\ q.reports = p.reports /\ q.failing = p.failing
      /\ q.raw = p.raw /\ q.rawFiles = p.rawFiles /\ q.began = p.began /\ q.flags = p.flags
      /\ q.at = s
  BY <1>1, <1>2 DEF Goes, Process
<1>4. QED
  BY <1>2, <1>3 DEF After

LEMMA UploadedFields ==
    ASSUME NEW p \in Process, p.hung = "no"
    PROVE  LET q == [Goes(p, "done") EXCEPT !.uploaded = TRUE]
           IN  After(p, q, {}) /\ q.at = "done" /\ q.flags = p.flags /\ q.uploaded
<1>1. PICK q : q = [Goes(p, "done") EXCEPT !.uploaded = TRUE]
  OBVIOUS
<1>2. /\ q \in Process /\ q.hung = "no" /\ q.reports = p.reports /\ q.failing = p.failing
      /\ q.raw = p.raw /\ q.rawFiles = p.rawFiles /\ q.began = p.began /\ q.flags = p.flags
      /\ q.at = "done" /\ q.uploaded = TRUE
  BY <1>1 DEF Goes, Process
<1>3. QED
  BY <1>1, <1>2 DEF After

LEMMA GivenUpFields ==
    ASSUME NEW p \in Process, NEW s \in Steps
    PROVE  LET q == Failure(Goes(p, "failed"), s)
           IN  After(p, q, {s}) /\ q.at = "failed"
<1>1. PICK q : q = Failure(Goes(p, "failed"), s)
  OBVIOUS
<1>2. /\ q \in Process /\ q.hung = "no" /\ q.reports = p.reports /\ q.failing = p.failing \cup {s}
      /\ q.raw = p.raw /\ q.rawFiles = p.rawFiles /\ q.began = p.began /\ q.at = "failed"
  BY <1>1 DEF Failure, Goes, Process
<1>3. QED
  BY <1>1, <1>2 DEF After

\* The last steps keep the invariant if they lead on with what they ought to.
LEMMA AfterKeeps ==
    ASSUME Inv, proc.at \in {"finish", "output", "upload"},
           NEW q, NEW fails \in {{}, {proc.at}}, After(proc, q, fails), proc' = q,
           UNCHANGED <<machine, second, files>>,
           q.at \in {"output", "upload", "done", "failed"},
           q.at # "failed" => q.flags \in Flags,
           q.at \in {"upload", "done"} /\ ShouldWriteOutput(q.flags) => files[OutputName(q)] # None,
           q.at = "done" => q.uploaded \/ ~q.flags.case
    PROVE  Inv'
<1>1. PICK p : p = proc
  OBVIOUS
<1>2. RunOK(q, machine) /\ Referred(q) = Referred(p)
  BY <1>1, AfterOK DEF Inv
<1>3. KeptOK(q, files)
  BY <1>1, <1>2 DEF KeptOK, Inv
<1>4. QED
  BY <1>2, <1>3 DEF Inv

LEMMA FlagsKeep ==
    ASSUME Inv, NEW flags \in Flags,
           Decides("finish", IF ShouldWriteOutput(flags) THEN Goes([proc EXCEPT !.flags = flags], "output")
                             ELSE AfterOutput([proc EXCEPT !.flags = flags]))
    PROVE  Inv'
<1>1. proc.at = "finish" /\ UNCHANGED <<machine, second, files>>
  BY DEF Decides
<1>2. proc \in Process /\ proc.hung = "no"
  BY <1>1, NotStuck DEF Inv
<1>3. PICK s \in {"output", "upload", "failed"} :
        /\ proc' = Goes([proc EXCEPT !.flags = flags], s)
        /\ s # "output" => ~ShouldWriteOutput(flags)
  <2>1. CASE ShouldWriteOutput(flags)
    BY <2>1 DEF Decides, Becomes
  <2>2. CASE ~ShouldWriteOutput(flags)
    <3>1. PICK r : r = [proc EXCEPT !.flags = flags]
      OBVIOUS
    <3>2. r.flags = flags
      BY <1>2, <3>1 DEF Process
    <3>3. proc' = AfterOutput(r) /\ flags.case
      BY <2>2, <3>1 DEF Decides, Becomes, ShouldWriteOutput, Flags
    <3>4. proc' = Goes(r, IF flags.api THEN "upload" ELSE "failed")
      BY <3>2, <3>3 DEF AfterOutput
    <3>5. QED
      BY <2>2, <3>1, <3>4
  <2>3. QED
    BY <2>1, <2>2
<1>4. PICK q : q = Goes([proc EXCEPT !.flags = flags], s)
  OBVIOUS
<1>5. After(proc, q, {}) /\ q.at = s /\ q.flags = flags
  BY <1>2, <1>4, FlaggedFields
<1>6. q.at \in {"upload", "done"} /\ ShouldWriteOutput(q.flags) => files[OutputName(q)] # None
  BY <1>3, <1>5
<1>7. QED
  BY <1>1, <1>3, <1>4, <1>5, <1>6, AfterKeeps

\* A last step that fails leaves nothing to keep.
LEMMA GivenUpKeeps ==
    ASSUME Inv, NEW s \in {"output", "upload"}, Fails(s, Goes(proc, "failed"))
    PROVE  Inv'
<1>1. proc.at = s /\ UNCHANGED <<machine, second, files>>
  BY DEF Fails
<1>2. proc \in Process
  BY DEF Inv, RunOK
<1>3. proc' = Failure(Goes(proc, "failed"), s)
  BY DEF Fails, Becomes, Failure
<1>4. PICK q : q = Failure(Goes(proc, "failed"), s)
  OBVIOUS
<1>5. After(proc, q, {s}) /\ q.at = "failed"
  BY <1>2, <1>4, LastSteps, GivenUpFields
<1>6. QED
  BY <1>1, <1>3, <1>4, <1>5, AfterKeeps

LEMMA OutputKeeps ==
    ASSUME Inv, proc.at = "output", Becomes(AfterOutput(proc)), UNCHANGED <<machine, second>>,
           files' = [files EXCEPT ![OutputName(proc)] = [by |-> "self", since |-> proc.began]]
    PROVE  Inv'
<1>1. proc \in Process /\ proc.hung = "no" /\ proc.flags \in Flags /\ FilesOK(files)
  BY NotStuck DEF Inv, KeptOK
<1>2. PICK s \in {"upload", "done", "failed"} :
        proc' = Goes(proc, s) /\ (s = "done" => ~proc.flags.case)
  BY DEF Becomes, AfterOutput
<1>3. PICK q : q = Goes(proc, s)
  OBVIOUS
<1>4. After(proc, q, {}) /\ q.at = s /\ q.flags = proc.flags
  BY <1>1, <1>3, GoneFields
<1>5. OutputName(q) = OutputName(proc)
  BY <1>4 DEF OutputName, After
<1>6. PICK p : p = proc
  OBVIOUS
<1>7. PICK name, since : name = OutputName(proc) /\ since = proc.began
  OBVIOUS
<1>8. /\ FilesOK(files')
      /\ files'[name] # None
      /\ \A f \in FileNames : files[f] # None => files'[f] # None
  <2>1. name \in FileNames /\ (name \in DatedNames => since = name[2])
    BY <1>1, <1>7, OutputNames
  <2>2. since \in 0 .. MaxSecond
    BY <1>1, <1>7 DEF Process
  <2>3. files' = [files EXCEPT ![name] = [by |-> "self", since |-> since]]
    BY <1>7
  <2>4. QED
    BY <1>1, <2>1, <2>2, <2>3, FileWritten
<1>9. RunOK(q, machine) /\ Referred(q) = Referred(p)
  BY <1>4, <1>6, AfterOK DEF Inv
<1>10. \A raw \in Referred(q) : files'[raw[1]] # None /\ raw[2] = raw[1][2]
  BY <1>1, <1>6, <1>8, <1>9, ReferredReports DEF Inv, KeptOK
<1>11. KeptOK(q, files')
  BY <1>1, <1>2, <1>4, <1>5, <1>7, <1>8, <1>10 DEF KeptOK
<1>12. QED
  BY <1>2, <1>3, <1>8, <1>9, <1>11 DEF Inv

LEMMA UploadKeeps ==
    ASSUME Inv, proc.hung = "no",
           Decides("upload", [Goes(proc, "done") EXCEPT !.uploaded = TRUE])
    PROVE  Inv'
<1>1. proc.at = "upload" /\ UNCHANGED <<machine, second, files>>
  BY DEF Decides
<1>2. proc \in Process /\ proc.hung = "no"
  BY DEF Inv, RunOK
<1>3. PICK q : q = [Goes(proc, "done") EXCEPT !.uploaded = TRUE]
  OBVIOUS
<1>4. proc' = q
  BY <1>3 DEF Decides, Becomes
<1>5. After(proc, q, {}) /\ q.at = "done" /\ q.flags = proc.flags /\ q.uploaded
  BY <1>2, <1>3, UploadedFields
<1>6. OutputName(q) = OutputName(proc)
  BY <1>5 DEF OutputName, After
<1>7. /\ q.flags \in Flags
      /\ ShouldWriteOutput(q.flags) => files[OutputName(q)] # None
  BY <1>1, <1>5, <1>6 DEF Inv, KeptOK
<1>8. QED
  BY <1>1, <1>4, <1>5, <1>7, AfterKeeps

LEMMA FinishKeeps ==
    ASSUME Inv, Finish
    PROVE  Inv'
<1>1. CASE \E flags \in Flags :
             LET q == [proc EXCEPT !.flags = flags] IN
             Decides("finish", IF ShouldWriteOutput(flags) THEN Goes(q, "output") ELSE AfterOutput(q))
  BY <1>1, FlagsKeep
<1>2. CASE Writes("output", OutputName(proc), proc.began, AfterOutput(proc), Goes(proc, "failed"))
  BY <1>2, OutputKeeps, GivenUpKeeps DEF Writes
<1>3. CASE Attempts("upload", [Goes(proc, "done") EXCEPT !.uploaded = TRUE], Goes(proc, "failed"))
  BY <1>3, UploadKeeps, GivenUpKeeps DEF Attempts
<1>4. QED
  BY <1>1, <1>2, <1>3 DEF Finish

-----------------------------------------------------------------------------
\* The other actions.

LEMMA InitInv == Init => Inv
<1> SUFFICES ASSUME Init PROVE Inv
  OBVIOUS
<1>1. 0 \in 0 .. MaxSecond /\ MaxSecond \in Nat
  BY BoundsAssumption
<1>2. PICK p : p = NotStarted
  OBVIOUS
<1>3. /\ p \in Process /\ p.at = "off" /\ p.hung = "no" /\ p.reports = <<>>
      /\ p.raw = None /\ p.rawFiles = {}
  BY <1>1, <1>2 DEF NotStarted, Process
<1>4. RunOK(p, machine)
  BY <1>2, <1>3, NotRunningSteps DEF RunOK, Fresh
<1>5. Referred(p) = {}
  BY <1>3 DEF Referred
<1>6. KeptOK(p, files)
  BY <1>3, <1>5 DEF KeptOK
<1>7. FilesOK(files)
  BY NamesAreFiles DEF Init, FilesOK
<1>8. QED
  BY <1>1, <1>2, <1>4, <1>6, <1>7 DEF Init, Inv

LEMMA StartKeeps ==
    ASSUME Inv, Start
    PROVE  Inv'
<1>1. proc = NotStarted /\ second \in 0 .. MaxSecond /\ UNCHANGED <<machine, second, files>>
  BY DEF Inv, RunOK, Start
<1>2. PICK now : now = second
  OBVIOUS
<1>3. PICK q : q = [NotStarted EXCEPT !.at = "os-release", !.began = now, !.since = now]
  OBVIOUS
<1>4. proc' = q
  BY <1>1, <1>2, <1>3 DEF Start, Becomes
<1>5. /\ q \in Process /\ q.at = "os-release" /\ q.hung = "no" /\ q.reports = <<>>
      /\ q.raw = None /\ q.rawFiles = {} /\ q.failing = {} /\ q.warned = FALSE
  <2>1. 0 \in 0 .. MaxSecond
    BY BoundsAssumption
  <2>2. "os-release" \in Steps
    BY DEF Steps, Accesses
  <2>3. PICK p : p = NotStarted
    OBVIOUS
  <2>4. /\ p \in Process /\ p.hung = "no" /\ p.reports = <<>>
        /\ p.raw = None /\ p.rawFiles = {} /\ p.failing = {} /\ p.warned = FALSE
    BY <2>1, <2>3 DEF NotStarted, Process
  <2>5. now \in 0 .. MaxSecond /\ q = [p EXCEPT !.at = "os-release", !.began = now, !.since = now]
    BY <1>1, <1>2, <1>3, <2>3
  <2>6. QED
    BY <2>2, <2>4, <2>5 DEF Process
<1>6. /\ q.at \in Steps /\ Served(q.at) = 1 /\ q.at \notin Fresh
      /\ q.at \notin {"off", "done", "output", "upload"}
  BY <1>5 DEF Steps, Accesses, Served, Fresh
<1>7. \A i \in 1..6 : Failed(q, i) = {}
  BY <1>5 DEF Failed
<1>8. Len(q.reports) = 0
  BY <1>5
<1>9. RunOK(q, machine)
  BY <1>5, <1>6, <1>7, <1>8 DEF RunOK
<1>10. Referred(q) = {}
  BY <1>5 DEF Referred
<1>11. KeptOK(q, files)
  BY <1>6, <1>10 DEF KeptOK
<1>12. QED
  BY <1>1, <1>4, <1>9, <1>11 DEF Inv

\* A command hangs or is blocked, or the upload waits, or they do not any more:
\* nothing else changes.
LEMMA HangingKeeps ==
    ASSUME Inv, proc.at \in Steps, NEW how \in {"no", "hangs", "blocked", "unanswered"},
           how \in {"hangs", "blocked"} => proc.at \in Commands,
           how = "unanswered" => proc.at = "upload",
           proc' = [proc EXCEPT !.hung = how], UNCHANGED <<machine, second, files>>
    PROVE  Inv'
<1>1. PICK p : p = proc
  OBVIOUS
<1>2. PICK q : q = [p EXCEPT !.hung = how]
  OBVIOUS
<1>3. RunOK(p, machine) /\ KeptOK(p, files) /\ p \in Process /\ p.at \in Steps
  BY <1>1 DEF Inv, RunOK
<1>4. /\ q \in Process /\ q.at = p.at /\ q.hung = how /\ q.reports = p.reports
      /\ q.warned = p.warned /\ q.failing = p.failing /\ q.raw = p.raw /\ q.rawFiles = p.rawFiles
      /\ q.flags = p.flags /\ q.began = p.began /\ q.uploaded = p.uploaded
  BY <1>2, <1>3 DEF Process
<1>5. q.at # "off"
  BY <1>3, <1>4, NotRunningSteps
<1>6. \A i : Failed(q, i) = Failed(p, i)
  BY <1>4 DEF Failed
<1>7. RunOK(q, machine)
  BY <1>1, <1>3, <1>4, <1>5, <1>6 DEF RunOK
<1>8. KeptOK(q, files)
  <2>1. Referred(q) = Referred(p) /\ OutputName(q) = OutputName(p)
    BY <1>4 DEF Referred, OutputName
  <2>2. QED
    BY <1>3, <1>4, <2>1 DEF KeptOK
<1>9. QED
  BY <1>1, <1>2, <1>7, <1>8 DEF Inv

LEMMA KillKeeps ==
    ASSUME Inv, Kill
    PROVE  Inv'
<1>1. PICK p : p = NotStarted
  OBVIOUS
<1>2. PICK q : q = [p EXCEPT !.at = "failed"]
  OBVIOUS
<1>3. p \in Process /\ p.hung = "no" /\ p.reports = <<>> /\ p.raw = None /\ p.rawFiles = {}
  BY <1>1, BoundsAssumption DEF NotStarted, Process
<1>4. /\ q \in Process /\ q.at = "failed" /\ q.hung = "no" /\ q.reports = <<>>
      /\ q.raw = None /\ q.rawFiles = {}
  BY <1>2, <1>3 DEF Process
<1>5. RunOK(q, machine)
  BY <1>4, NotRunningSteps DEF RunOK, Fresh
<1>6. Referred(q) = {}
  BY <1>4 DEF Referred
<1>7. KeptOK(q, files)
  BY <1>4, <1>6 DEF KeptOK
<1>8. QED
  BY <1>1, <1>2, <1>5, <1>7 DEF Inv, Kill, Becomes

\* Another run writes a file that is named for the second it has started in, or
\* that the user has named.
LEMMA OtherRunKeeps ==
    ASSUME Inv, OtherRun
    PROVE  Inv'
<1>1. PICK since \in 0 .. second :
        \E name \in {RawName("dpkg", since), RawName("rpm", since), RawName("pip", since),
                     <<"env", since>>} \cup (Outputs \X {0}) :
           files' = [files EXCEPT ![name] = [by |-> "other", since |-> since]]
  BY DEF OtherRun
<1>2. PICK name \in {RawName("dpkg", since), RawName("rpm", since), RawName("pip", since),
                     <<"env", since>>} \cup (Outputs \X {0}) :
        files' = [files EXCEPT ![name] = [by |-> "other", since |-> since]]
  BY <1>1
<1>3. second \in 0 .. MaxSecond /\ FilesOK(files) /\ proc \in Process
  BY DEF Inv, RunOK
<1>4. since \in 0 .. MaxSecond
  BY <1>1, <1>3, BoundsAssumption
<1>5. name \in FileNames /\ (name \in DatedNames => since = name[2])
  <2>1. CASE name \in Outputs \X {0}
    BY <2>1, GivenNames
  <2>2. CASE name \in {RawName("dpkg", since), RawName("rpm", since), RawName("pip", since),
                       <<"env", since>>}
    BY <1>4, <2>2, NamesAreFiles DEF RawName, RawFiles, DatedNames
  <2>3. QED
    BY <1>2, <2>1, <2>2
<1>6. FilesOK(files') /\ \A f \in FileNames : files[f] # None => files'[f] # None
  BY <1>2, <1>3, <1>4, <1>5, FileWritten
<1>7. PICK p : p = proc
  OBVIOUS
<1>8. KeptOK(p, files')
  BY <1>3, <1>6, <1>7, KeptStays DEF Inv
<1>9. QED
  BY <1>6, <1>7, <1>8 DEF Inv, OtherRun

LEMMA NextInv == Inv /\ [Next]_vars => Inv'
<1> SUFFICES ASSUME Inv, [Next]_vars PROVE Inv'
  OBVIOUS
<1>1. RunOK(proc, machine) /\ second \in 0 .. MaxSecond
  BY DEF Inv
<1>2. CASE Start
  BY <1>2, StartKeeps
<1>3. CASE LinuxSystem \/ Container \/ SystemPackages
  BY <1>1, <1>3, LinuxSystemServes, ContainerServes, SystemPackagesServes, ServesKeeps
<1>4. CASE ROCm \/ GPU \/ PythonPackages
  BY <1>1, <1>4, ROCmServes, GPUServes, PythonPackagesServes, ServesKeeps
<1>5. CASE Finish
  BY <1>5, FinishKeeps
<1>6. CASE Hang
  <2>1. proc.at \in Steps
    BY <1>6 DEF Hang, Steps
  <2>2. QED
    BY <1>6, <2>1, HangingKeeps DEF Hang, Becomes
<1>7. CASE Block
  <2>1. proc.at \in Commands /\ proc.at \in Steps
    BY <1>1, <1>7 DEF Block, RunOK, Steps
  <2>2. QED
    BY <1>7, <2>1, HangingKeeps DEF Block, Becomes
<1>8. CASE Unblock
  <2>1. proc.at \in Commands /\ proc.at \in Steps
    BY <1>1, <1>8 DEF Unblock, RunOK, Steps
  <2>2. QED
    BY <1>8, <2>1, HangingKeeps DEF Unblock, Becomes
<1>9. CASE Unanswered
  BY <1>9, LastSteps, HangingKeeps DEF Unanswered, Becomes
<1>10. CASE Answered
  <2>1. proc.at = "upload"
    BY <1>1, <1>10 DEF Answered, RunOK
  <2>2. QED
    BY <1>10, <2>1, LastSteps, HangingKeeps DEF Answered, Becomes
<1>11. CASE Kill
  BY <1>11, KillKeeps
<1>12. CASE Tick
  <2>1. second' \in 0 .. MaxSecond
    BY <1>1, <1>12, BoundsAssumption DEF Tick
  <2>2. QED
    BY <1>12, <2>1 DEF Tick, Inv
<1>13. CASE OtherRun
  BY <1>13, OtherRunKeeps
<1>14. CASE UNCHANGED vars
  BY <1>14 DEF Inv, vars
<1>15. QED
  BY <1>2, <1>3, <1>4, <1>5, <1>6, <1>7, <1>8, <1>9, <1>10, <1>11, <1>12, <1>13, <1>14 DEF Next, Step

\* The invariant holds in every state.
THEOREM DetectInvariant == Spec => []Inv
  BY InitInv, NextInv, PTL DEF Spec

-----------------------------------------------------------------------------
\* What is promised.

\* The run and the directory hold what the code's types allow; only a command can
\* hang (command.Run), and only the upload can wait for an answer.
THEOREM DetectTypeCorrect == Spec => []TypeOK
<1>1. Inv => TypeOK
  BY DEF Inv, RunOK, FilesOK, TypeOK
<1>2. QED
  BY <1>1, DetectInvariant, PTL

\* DetectWithScope appends one report for each collector, whatever its commands and
\* files do: one that fails neither ends the detection nor goes unreported.
THEOREM EveryCollectorHasReported == Spec => []EveryCollectorReports
<1>1. Inv => EveryCollectorReports
  <2> SUFFICES ASSUME Inv, proc.at \in {"finish", "output", "upload", "done"}
               PROVE  Len(proc.reports) = Len(Collectors)
    BY DEF EveryCollectorReports
  <2>1. proc.at \in Steps \cup {"done"}
    BY LastSteps
  <2>2. Served(proc.at) = 7
    BY DEF Served
  <2>3. Len(proc.reports) = 6
    BY <2>1, <2>2 DEF Inv, RunOK
  <2>4. QED
    BY <2>3 DEF Collectors
<1>2. QED
  BY <1>1, DetectInvariant, PTL

\* The status that a collector returns tells what happened in it: it is success only
\* if no step of its own failed but those whose failure is noted nowhere (os.Hostname
\* where the command helps, the files that container and rocm read, sys.prefix), and
\* anything else only if another step of its own failed or a tool it asks for is
\* missing.
THEOREM ReportsAreHonest == Spec => []StatusesAreHonest
<1>1. Inv => StatusesAreHonest
  <2> SUFFICES ASSUME Inv, NEW i \in DOMAIN proc.reports
               PROVE  IF proc.reports[i] = "success" THEN Failed(proc, i) = {}
                      ELSE Failed(proc, i) # {} \/ Lacks(Collectors[i], machine)
    BY DEF StatusesAreHonest, Failed
  <2>1. proc.reports \in Seq(Statuses)
    BY DEF Inv, RunOK, Process
  <2>2. i \in 1..Len(proc.reports)
    BY <2>1, LenProperties
  <2>3. QED
    BY <2>2 DEF Inv, RunOK
<1>2. QED
  BY <1>1, DetectInvariant, PTL

\* Raw files are named by the second (WriteRawFile): also when several runs share
\* the directory, a file that the snapshot refers to is there, and was last written
\* by a collector that had started in the same second.
THEOREM RawFilesAreOfTheirSecond == Spec => []RawFilesAreTimely
<1>1. Inv => RawFilesAreTimely
  <2> SUFFICES ASSUME Inv, NEW raw \in proc.rawFiles
               PROVE  files[raw[1]] # None /\ files[raw[1]].since = raw[2]
    BY DEF RawFilesAreTimely
  <2>1. raw \in Referred(proc) /\ proc \in Process
    BY DEF Referred, Inv, RunOK
  <2>2. files[raw[1]] # None /\ raw[2] = raw[1][2]
    BY <2>1 DEF Inv, KeptOK
  <2>3. raw[1] \in DatedNames
    BY <2>1, ReferredReports, NamesAreFiles
  <2>4. QED
    BY <2>2, <2>3 DEF Inv, FilesOK
<1>2. QED
  BY <1>1, DetectInvariant, PTL

\* `kish detect` exits with success only when the snapshot is uploaded or in its
\* file, and a default name is reused only within the second the run began in.
THEOREM SuccessfulRunsAreKept == Spec => []SuccessMeansKept
<1>1. Inv => SuccessMeansKept
  <2> SUFFICES ASSUME Inv, proc.at = "done", ~proc.uploaded
               PROVE  /\ files[OutputName(proc)] # None
                      /\ proc.flags.output = None => files[OutputName(proc)].since = proc.began
    BY DEF SuccessMeansKept
  <2>1. proc \in Process /\ proc.flags \in Flags /\ ~proc.flags.case
    BY DEF Inv, RunOK, KeptOK
  <2>2. files[OutputName(proc)] # None
    BY <2>1 DEF Inv, KeptOK, ShouldWriteOutput
  <2>3. ASSUME proc.flags.output = None
        PROVE  files[OutputName(proc)].since = proc.began
    <3>1. OutputName(proc) \in DatedNames /\ OutputName(proc)[2] = proc.began
      BY <2>1, <2>3, OutputNames
    <3>2. QED
      BY <2>2, <3>1 DEF Inv, FilesOK
  <2>4. QED
    BY <2>2, <2>3
<1>2. QED
  BY <1>1, DetectInvariant, PTL
=============================================================================
