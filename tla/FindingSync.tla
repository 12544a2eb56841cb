---------------------------- MODULE FindingSync ----------------------------
(***************************************************************************)
(* POST /v1/findings/sync and what it shares the database with: the status *)
(* update of a finding and the creation of a baseline (proxy/main.py,      *)
(* proxy/findings.py, proxy/regression.py).                                *)
(*                                                                         *)
(* A sync runs the test suite, opens findings for what failed, records the *)
(* run, reports the findings it opened, and compares the run with the      *)
(* newest baseline: five transactions with gaps between them.  Handlers    *)
(* run in a thread pool, each with its own session; what a session has     *)
(* added is invisible to the others until it commits (read committed).     *)
(*                                                                         *)
(* Left out: the text and evidence of a finding, the execution source of a *)
(* run, and the ownership check, which only refuses.                       *)
(***************************************************************************)
EXTENDS SecurityEvents, Sequences, FiniteSets

CONSTANTS Worker,       \* request threads
          Project,
          Test,         \* test ids of the registry
          Suites,       \* what ?category= can select: sets of tests
          severityOf,   \* [Test -> Severity]
          Outcomes,     \* the test outcomes considered
          Targets,      \* the statuses an update may set
          MaxSyncs,     \* bound: executions of the suite
          MaxPatches,   \* bound: status updates
          MaxBaselines, \* bound: rows of the baselines table
          MaxFailures   \* bound: requests that die half-way

TestStatus == {"PASS", "FAIL", "OTHER"}   \* OTHER: ERROR and INCONCLUSIVE
FindingStatus == {"OPEN", "ACKNOWLEDGED", "RESOLVED", "RETEST_REQUIRED"}
OpenLike == {"OPEN", "ACKNOWLEDGED", "RETEST_REQUIRED"}

ASSUME SyncAssumption ==
  /\ IsFiniteSet(Worker) /\ IsFiniteSet(Test)
  /\ Suites \subseteq SUBSET Test
  /\ severityOf \in [Test -> Severity]
  /\ Outcomes \subseteq TestStatus
  /\ Targets \subseteq FindingStatus
  /\ {MaxSyncs, MaxPatches, MaxBaselines, MaxFailures} \subseteq Nat

VARIABLES findings,      \* the findings table: the row with id i is findings[i]
          runs,          \* test_run_results, grouped by run_id, in commit order
          baselines,     \* the baselines table
          events,        \* security_events of this component
          clock,         \* executions of the suite so far: stamps executed_at
          patches,       \* status updates so far
          failures,      \* requests that died so far
          job,           \* what each request thread still has to do
          lost,          \* history: findings whose opening was never reported
          everResolved,  \* history: findings that were RESOLVED at some time
          closedSince    \* history: findings resolved since a worker's sync began

vars == <<findings, runs, baselines, events, clock, patches, failures, job,
          lost, everResolved, closedSince>>

tables == <<findings, runs, baselines>>
history == <<lost, everResolved, closedSince>>

Results == UNION {[S -> TestStatus] : S \in Suites}

Finding == [project : Project, test : Test, status : FindingStatus]
Run == [project : Project, stamp : Nat, result : Results]
Baseline == [project : Project, run : Nat]

OpenedEvent(i) ==
  [type |-> "finding_opened", severity |-> severityOf[findings[i].test],
   project |-> findings[i].project, finding |-> i]

RegressionEvent(p, t, b, r) ==
  [type |-> "regression_detected", severity |-> severityOf[t],
   project |-> p, test |-> t, baseline |-> b, run |-> r]

Idle == [do |-> "idle"]

Init ==
  /\ findings = <<>> /\ runs = <<>> /\ baselines = <<>>
  /\ events = {}
  /\ clock = 0 /\ patches = 0 /\ failures = 0
  /\ job = [w \in Worker |-> Idle]
  /\ lost = {} /\ everResolved = {}
  /\ closedSince = [w \in Worker |-> {}]

-----------------------------------------------------------------------------
(* Queries                                                                 *)

Failed(result) == {t \in DOMAIN result : result[t] = "FAIL"}

\* Seeded defects: a resolved finding still counts as open, an acknowledged one no
\* longer does.
OpenForClosedToo(p, t) ==
  {i \in DOMAIN findings : findings[i].project = p /\ findings[i].test = t}

OpenForUnseen(p, t) ==
  {i \in DOMAIN findings :
     findings[i].project = p /\ findings[i].test = t /\ findings[i].status = "OPEN"}

\* The findings of one test that keep a sync from opening another.
OpenFor(p, t) ==
  {i \in DOMAIN findings : /\ findings[i].project = p
                           /\ findings[i].test = t
                           /\ findings[i].status \in OpenLike}

\* Seeded defect: the run recorded last.
LatestRunRecorded(p) ==
  LET own == {r \in DOMAIN runs : runs[r].project = p}
  IN  IF own = {} THEN 0 ELSE CHOOSE r \in own : \A s \in own : s <= r

\* The run executed last, by executed_at, among those of the project; 0 if none.
LatestRun(p) ==
  LET own == {r \in DOMAIN runs : runs[r].project = p}
  IN  IF own = {} THEN 0
      ELSE CHOOSE r \in own : \A s \in own : runs[s].stamp <= runs[r].stamp

\* Seeded defect: the newest baseline of all projects.
NewestBaselineAny(p) == Len(baselines)

\* The baseline of the project that was created last; 0 if there is none.
NewestBaseline(p) ==
  LET own == {b \in DOMAIN baselines : baselines[b].project = p}
  IN  IF own = {} THEN 0 ELSE CHOOSE b \in own : \A c \in own : c <= b

\* The regressions bucket of compare_runs: PASS in the baseline, FAIL now.
Regressions(base, current) ==
  {t \in DOMAIN base \cap DOMAIN current : base[t] = "PASS" /\ current[t] = "FAIL"}

-----------------------------------------------------------------------------
(* A sync                                                                  *)

\* run_suite over the selected tests.  A plugin that raises is an ERROR result.
RunSuite(w, p, suite) ==
  /\ job[w] = Idle
  /\ clock < MaxSyncs
  /\ clock' = clock + 1
  /\ \E result \in [suite -> Outcomes] :
       job' = [job EXCEPT ![w] =
                 [do |-> "check", project |-> p, stamp |-> clock + 1, result |-> result,
                  todo |-> Failed(result), staged |-> {}]]
  /\ closedSince' = [closedSince EXCEPT ![w] = {}]
  /\ UNCHANGED <<tables, events, patches, failures, lost, everResolved>>

\* One turn of the loop of sync_findings: look for an open finding of the test,
\* stage a new one if there is none.
CheckOne(w) ==
  /\ job[w].do = "check"
  /\ \E t \in job[w].todo :
       job' = [job EXCEPT
                 ![w].todo = @ \ {t},
                 ![w].staged = IF OpenFor(job[w].project, t) = {} THEN @ \cup {t} ELSE @]
  /\ UNCHANGED <<tables, events, clock, patches, failures, history>>

\* Seeded defect: the row takes over the status of the result.
NewFindingsRaw(p, staged) ==
  {s \in [1..Cardinality(staged) -> [project : {p}, test : staged, status : {"FAIL"}]] :
     \A t \in staged : \E k \in DOMAIN s : s[k].test = t}

\* The rows of the staged tests, in some order.
NewFindings(p, staged) ==
  {s \in [1..Cardinality(staged) -> [project : {p}, test : staged, status : {"OPEN"}]] :
     \A t \in staged : \E k \in DOMAIN s : s[k].test = t}

\* The commit of sync_findings.
SaveFindings(w) ==
  /\ job[w].do = "check" /\ job[w].todo = {}
  /\ \E rows \in NewFindings(job[w].project, job[w].staged) : findings' = findings \o rows
  /\ job' = [job EXCEPT ![w] =
               [do |-> "record", project |-> job[w].project, stamp |-> job[w].stamp,
                result |-> job[w].result,
                opened |-> DOMAIN findings' \ DOMAIN findings]]
  /\ UNCHANGED <<runs, baselines, events, clock, patches, failures, history>>

RunOf(j) == [project |-> j.project, stamp |-> j.stamp, result |-> j.result]

\* Seeded defect: only the passing results are logged.
RecordedPasses(j) ==
  Append(runs, [RunOf(j) EXCEPT !.result =
                  [t \in DOMAIN j.result \ Failed(j.result) |-> j.result[t]]])

\* A run of no tests leaves no row, so its id (0 below) names nothing.
Recorded(j) == IF DOMAIN j.result = {} THEN runs ELSE Append(runs, RunOf(j))

\* record_test_run: a transaction of its own.
RecordRun(w) ==
  /\ job[w].do = "record"
  /\ runs' = Recorded(job[w])
  /\ job' = [job EXCEPT ![w] =
               [do |-> "report", project |-> job[w].project, opened |-> job[w].opened,
                run |-> IF DOMAIN job[w].result = {} THEN 0 ELSE Len(runs) + 1]]
  /\ UNCHANGED <<findings, baselines, events, clock, patches, failures, history>>

\* One FINDING_OPENED event per finding opened; a failed write is swallowed.
ReportFinding(w) ==
  /\ job[w].do = "report"
  /\ \E i \in job[w].opened :
       /\ events' \in AfterRecording(events, OpenedEvent(i))
       /\ lost' = IF OpenedEvent(i) \in events' THEN lost ELSE lost \cup {i}
       /\ job' = [job EXCEPT ![w].opened = @ \ {i}]
  /\ UNCHANGED <<tables, clock, patches, failures, everResolved, closedSince>>

\* Seeded defect: the last event is skipped.
AllReportedButOne(w) == job[w].do = "report" /\ Cardinality(job[w].opened) <= 1

AllReported(w) == job[w].do = "report" /\ job[w].opened = {}

\* The comparison with the project's newest baseline, unless that baseline is this
\* very run.  With nothing to compare or no regression the request is done.
CompareWithBaseline(w) ==
  LET p == job[w].project
      r == job[w].run
      b == NewestBaseline(p)
      regressed == IF b = 0 \/ r = 0 \/ baselines[b].run = r THEN {}
                   ELSE Regressions(runs[baselines[b].run].result, runs[r].result)
  IN  /\ AllReported(w)
      /\ job' = [job EXCEPT ![w] =
                   IF regressed = {} THEN Idle
                   ELSE [do |-> "alarm", project |-> p, run |-> r, baseline |-> b,
                         regressed |-> regressed]]
      /\ closedSince' = [closedSince EXCEPT ![w] = {}]
      /\ UNCHANGED <<tables, events, clock, patches, failures, lost, everResolved>>

ReportRegression(w) ==
  /\ job[w].do = "alarm"
  /\ \E t \in job[w].regressed :
       /\ events' \in AfterRecording(events,
            RegressionEvent(job[w].project, t, job[w].baseline, job[w].run))
       /\ job' = [job EXCEPT ![w] = IF job[w].regressed = {t} THEN Idle
                                    ELSE [job[w] EXCEPT !.regressed = @ \ {t}]]
  /\ UNCHANGED <<tables, clock, patches, failures, history>>

-----------------------------------------------------------------------------
(* A status update                                                         *)

LoadFinding(w, i, status) ==
  /\ job[w] = Idle
  /\ patches < MaxPatches
  /\ patches' = patches + 1
  /\ job' = [job EXCEPT ![w] = [do |-> "patch", id |-> i, status |-> status,
                                loaded |-> findings[i].status]]
  /\ UNCHANGED <<tables, events, clock, failures, history>>

\* Any status may follow any other.  The session writes a column only if the value
\* differs from the one it loaded.
UpdateStatus(rows, patch) ==
  IF patch.status = patch.loaded THEN rows
  ELSE [rows EXCEPT ![patch.id].status = patch.status]

Syncing(v) == job[v].do \in {"check", "record", "report"}

PatchFinding(w) ==
  /\ job[w].do = "patch"
  /\ findings' = UpdateStatus(findings, job[w])
  /\ LET closed == {i \in {job[w].id} : /\ findings'[i].status = "RESOLVED"
                                        /\ findings[i].status # "RESOLVED"}
     IN  /\ everResolved' = everResolved \cup closed
         /\ closedSince' = [v \in Worker |->
               IF Syncing(v) THEN closedSince[v] \cup closed ELSE {}]
  /\ job' = [job EXCEPT ![w] = Idle]
  /\ UNCHANGED <<runs, baselines, events, clock, patches, failures, lost>>

-----------------------------------------------------------------------------
(* A baseline                                                              *)

\* The run to pin: the one the caller names, or the latest.
Target(p, named) == IF named = 0 THEN LatestRun(p) ELSE named

\* It must have rows in this project.
OwnRun(p, r) == r \in DOMAIN runs /\ runs[r].project = p

\* A refusal (409) changes nothing.
ChooseRun(w, p, named) ==
  LET r == Target(p, named)
  IN  /\ job[w] = Idle
      /\ Len(baselines) + Cardinality({v \in Worker : job[v].do = "pin"}) < MaxBaselines
      /\ OwnRun(p, r)
      /\ job' = [job EXCEPT ![w] = [do |-> "pin", project |-> p, run |-> r]]
      /\ UNCHANGED <<tables, events, clock, patches, failures, history>>

PinBaseline(w) ==
  /\ job[w].do = "pin"
  /\ baselines' = Append(baselines, [project |-> job[w].project, run |-> job[w].run])
  /\ job' = [job EXCEPT ![w] = Idle]
  /\ UNCHANGED <<findings, runs, events, clock, patches, failures, history>>

-----------------------------------------------------------------------------
(* A request that dies: the process is killed or a commit raises           *)

Die(w) ==
  /\ job[w] # Idle
  /\ failures < MaxFailures
  /\ failures' = failures + 1
  /\ lost' = lost \cup IF job[w].do \in {"record", "report"} THEN job[w].opened ELSE {}
  /\ closedSince' = [closedSince EXCEPT ![w] = {}]
  /\ job' = [job EXCEPT ![w] = Idle]
  /\ UNCHANGED <<tables, events, clock, patches, everResolved>>

Sync(w) ==
  \/ CheckOne(w)
  \/ SaveFindings(w)
  \/ RecordRun(w)
  \/ ReportFinding(w)
  \/ CompareWithBaseline(w)
  \/ ReportRegression(w)

Next ==
  \E w \in Worker :
    \/ \E p \in Project, suite \in Suites : RunSuite(w, p, suite)
    \/ Sync(w)
    \/ \E i \in DOMAIN findings, status \in Targets : LoadFinding(w, i, status)
    \/ PatchFinding(w)
    \/ \E p \in Project, named \in 0..Len(runs) : ChooseRun(w, p, named)
    \/ PinBaseline(w)
    \/ Die(w)

Spec == Init /\ [][Next]_vars

-----------------------------------------------------------------------------
(* Properties                                                              *)

CheckJob == [do : {"check"}, project : Project, stamp : Nat, result : Results,
             todo : SUBSET Test, staged : SUBSET Test]
RecordJob == [do : {"record"}, project : Project, stamp : Nat, result : Results,
              opened : SUBSET Nat]
ReportJob == [do : {"report"}, project : Project, opened : SUBSET Nat, run : Nat]
AlarmJob == [do : {"alarm"}, project : Project, run : Nat, baseline : Nat,
             regressed : SUBSET Test]
PatchJob == [do : {"patch"}, id : Nat, status : FindingStatus, loaded : FindingStatus]
PinJob == [do : {"pin"}, project : Project, run : Nat]

Job == {Idle} \cup CheckJob \cup RecordJob \cup ReportJob \cup AlarmJob
         \cup PatchJob \cup PinJob

Event == [type : {"finding_opened"}, severity : Severity, project : Project, finding : Nat]
           \cup [type : {"regression_detected"}, severity : Severity, project : Project,
                 test : Test, baseline : Nat, run : Nat]

TypeOK ==
  /\ findings \in Seq(Finding)
  /\ runs \in Seq(Run)
  /\ baselines \in Seq(Baseline)
  /\ events \subseteq Event
  /\ clock \in 0..MaxSyncs /\ patches \in 0..MaxPatches /\ failures \in 0..MaxFailures
  /\ job \in [Worker -> Job]
  /\ lost \subseteq Nat /\ everResolved \subseteq Nat
  /\ closedSince \in [Worker -> SUBSET Nat]

\* Whatever other requests do meanwhile, once a sync has committed its findings
\* every test that failed has a finding in its project that is open, or one that
\* somebody resolved while the sync was running.
Covered(w, p, t) ==
  \E i \in DOMAIN findings :
    /\ findings[i].project = p /\ findings[i].test = t
    /\ findings[i].status \in OpenLike \/ i \in closedSince[w]

FailuresCovered ==
  \A w \in Worker :
    /\ job[w].do = "record" =>
         \A t \in Failed(job[w].result) : Covered(w, job[w].project, t)
    /\ job[w].do = "report" /\ job[w].run # 0 =>
         \A t \in Failed(runs[job[w].run].result) : Covered(w, job[w].project, t)

\* Concurrent syncs may open a finding twice for one test, but the damage is
\* bounded: however often the suite runs, the findings of one test of one project
\* that nobody ever resolved are at most as many as there are request threads.
DuplicatesBounded ==
  \A p \in Project, t \in Test :
    Cardinality({i \in DOMAIN findings :
                   /\ findings[i].project = p /\ findings[i].test = t
                   /\ i \notin everResolved}) <= Cardinality(Worker)

\* Findings are history: a row is never removed, never becomes another test's, and
\* only a person's update changes its status; a sync never reopens or overwrites it.
HistoryKept ==
  [][\A i \in DOMAIN findings :
       /\ i \in DOMAIN findings'
       /\ findings'[i].project = findings[i].project
       /\ findings'[i].test = findings[i].test
       /\ findings'[i].status # findings[i].status =>
            \E w \in Worker : /\ job[w].do = "patch" /\ job[w].id = i
                              /\ job[w].status = findings'[i].status]_vars

\* A baseline never points at nothing or into another project, although the run is
\* chosen in one step and pinned in a later one.
BaselinesPinned ==
  \A b \in DOMAIN baselines :
    /\ baselines[b].run \in DOMAIN runs
    /\ runs[baselines[b].run].project = baselines[b].project

\* A reported regression is one: the test failed in a recorded run of the project and
\* passed in another run of that project, which a baseline of the project pins, although
\* run and baseline are chosen and written in four transactions.
RegressionsSound ==
  \A e \in events :
    e.type = "regression_detected" =>
      /\ e.run \in DOMAIN runs /\ e.baseline \in DOMAIN baselines
      /\ runs[e.run].project = e.project
      /\ baselines[e.baseline].project = e.project
      /\ baselines[e.baseline].run # e.run
      /\ runs[baselines[e.baseline].run].project = e.project
      /\ runs[baselines[e.baseline].run].result[e.test] = "PASS"
      /\ runs[e.run].result[e.test] = "FAIL"

\* "Once per finding" (docs/MONITORING.md): the opening of a finding is reported once, or
\* about to be by the one sync that opened it, or was lost when a request died or an event
\* could not be written, and never two of these.
Openings(i) == {e \in events : e.type = "finding_opened" /\ e.finding = i}

Holders(i) == {w \in Worker : job[w].do \in {"record", "report"} /\ i \in job[w].opened}

OpeningsAccounted ==
  \A i \in DOMAIN findings :
    \/ Openings(i) = {OpenedEvent(i)} /\ i \notin lost /\ Holders(i) = {}
    \/ Openings(i) = {} /\ i \in lost /\ Holders(i) = {}
    \/ Openings(i) = {} /\ i \notin lost /\ \E w \in Worker : Holders(i) = {w}

\* As long as no request has died, every finding is backed by a recorded run of its
\* project in which its test failed, or its run is about to be recorded.
TraceableUnlessDied ==
  failures = 0 =>
    \A i \in DOMAIN findings :
      \/ \E r \in DOMAIN runs : /\ runs[r].project = findings[i].project
                                /\ findings[i].test \in Failed(runs[r].result)
      \/ \E w \in Worker : job[w].do = "record" /\ i \in job[w].opened

\* "Open a new Finding unless one is already open" (proxy/findings.py): no sync
\* adds a finding beside an open one of the same test and project.  Two syncs that
\* both look before either commits break this.
NoDuplicateOpened ==
  [][\A i \in DOMAIN findings' \ DOMAIN findings :
       OpenFor(findings'[i].project, findings'[i].test) = {}]_vars
=============================================================================
