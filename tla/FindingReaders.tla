--------------------------- MODULE FindingReaders ---------------------------
(***************************************************************************)
(* Who reads what the syncs of FindingSync write: the CI gate              *)
(* (scripts/sentinel_ci.py and proxy/ci.py), which asks for a sync, waits  *)
(* for its answer, fetches the regression report and exits 0 or 1, and the *)
(* security dashboard and executive report (proxy/dashboard.py,            *)
(* proxy/reports.py), which read the latest run and then the open findings.*)
(*                                                                         *)
(* Each query of a reader is a step of its own: a session is read          *)
(* committed, so what other requests commit in between shows.  Left out:   *)
(* the throwaway account a gate without a key signs up, texts, counts that *)
(* follow from the rows read, and the period of a report.                  *)
(***************************************************************************)
EXTENDS FindingSync

CONSTANTS Client,    \* executions of the CI script; a rerun is another one
          policyOf,  \* the failure policy each job is given
          Viewer     \* dashboards and reports, each built once

\* CIPolicy, and whether --check-regression is given.  Without a severity filter every
\* severity counts.
Policy == [statuses : SUBSET TestStatus, severities : SUBSET Severity,
           maxFailures : Nat, maxRegressions : Nat, check : BOOLEAN]

ASSUME ReadersAssumption == policyOf \in [Client -> Policy]

VARIABLES gate,      \* what each CI job knows and waits for
          board,     \* what each viewer has read
          resolvedAt \* history: <<i, c>> if finding i was resolved when clock was c

readers == <<gate, board, resolvedAt>>
allVars == <<vars, readers>>

Waiting == [do |-> "idle"]

ReadersInit ==
  /\ Init
  /\ gate = [c \in Client |-> Waiting]
  /\ board = [v \in Viewer |-> Waiting]
  /\ resolvedAt = {}

-----------------------------------------------------------------------------
(* The verdict of a gate                                                   *)

\* matching_results: the results that count.
Matching(result, policy) ==
  {t \in DOMAIN result : /\ result[t] \in policy.statuses
                         /\ severityOf[t] \in policy.severities}

TooMany(n, max) == n > max

\* The regressions of the report; there are none without one.
Reported(baseline, judged) ==
  IF baseline = 0 \/ judged = 0 THEN {}
  ELSE Regressions(runs[baselines[baseline].run].result, runs[judged].result)

\* evaluate, and the exit status of main.
ExitOf(result, policy, regressions) ==
  IF \/ TooMany(Cardinality(Matching(result, policy)), policy.maxFailures)
     \/ TooMany(Cardinality(regressions), policy.maxRegressions)
  THEN "fail" ELSE "pass"

Exited(g, exit, baseline, judged) ==
  [do |-> "exited", exit |-> exit, project |-> g.project, result |-> g.result,
   stamp |-> g.stamp, baseline |-> baseline, judged |-> judged]

-----------------------------------------------------------------------------
(* A gate                                                                  *)

\* _fetch_results: the request arrives at a thread of the server, and runs the suite.
PostSync(c, w, p, suite) ==
  /\ gate[c] = Waiting
  /\ RunSuite(w, p, suite)
  /\ gate' = [gate EXCEPT ![c] = [do |-> "sync", worker |-> w, project |-> p,
                                  result |-> job'[w].result, stamp |-> clock']]
  /\ UNCHANGED <<board, resolvedAt>>

WaitsFor(c, w) == gate[c].do = "sync" /\ gate[c].worker = w

\* Seeded defect: the exit status of a request that got no answer is 0.
NoAnswerPasses(g) == Exited(g, "pass", 0, 0)

\* A timeout, or a status other than 200: an exception ends main.
NoAnswer(g) == Exited(g, "error", 0, 0)

Answered(c) ==
  IF policyOf[c].check
  THEN [do |-> "fetch", project |-> gate[c].project, result |-> gate[c].result,
        stamp |-> gate[c].stamp]
  ELSE Exited(gate[c], ExitOf(gate[c].result, policyOf[c], {}), 0, 0)

\* A step of the sync; the last one sends the answer to the gate that waits for it.
ServeSync(w) ==
  /\ Sync(w)
  /\ gate' = [c \in Client |-> IF WaitsFor(c, w) /\ job'[w] = Idle THEN Answered(c)
                               ELSE gate[c]]
  /\ UNCHANGED <<board, resolvedAt>>

DieServing(w) ==
  /\ Die(w)
  /\ gate' = [c \in Client |-> IF WaitsFor(c, w) THEN NoAnswer(gate[c]) ELSE gate[c]]
  /\ UNCHANGED <<board, resolvedAt>>

\* After 120 seconds the gate gives up; the server's thread goes on.
GiveUp(c) ==
  /\ gate[c].do = "sync"
  /\ gate' = [gate EXCEPT ![c] = NoAnswer(@)]
  /\ UNCHANGED <<vars, board, resolvedAt>>

\* regression_report, its first query.  Without a baseline (404) the check is skipped.
ReadBaseline(c) ==
  LET b == NewestBaseline(gate[c].project)
  IN  /\ gate[c].do = "fetch"
      /\ gate' = [gate EXCEPT ![c] =
                    IF b = 0 THEN Exited(@, ExitOf(@.result, policyOf[c], {}), 0, 0)
                    ELSE [do |-> "compare", project |-> @.project, result |-> @.result,
                          stamp |-> @.stamp, baseline |-> b]]
      /\ UNCHANGED <<vars, board, resolvedAt>>

\* Its second query, the comparison, and the verdict.  Without a run (409) the check is
\* skipped.
CompareLatest(c) ==
  LET g == gate[c]
      r == LatestRun(g.project)
  IN  /\ g.do = "compare"
      /\ gate' = [gate EXCEPT ![c] =
                    Exited(g, ExitOf(g.result, policyOf[c], Reported(g.baseline, r)),
                           g.baseline, r)]
      /\ UNCHANGED <<vars, board, resolvedAt>>

\* The report cannot be fetched: an exception ends main.
FetchFails(c) ==
  /\ gate[c].do \in {"fetch", "compare"}
  /\ gate' = [gate EXCEPT ![c] = NoAnswer(@)]
  /\ UNCHANGED <<vars, board, resolvedAt>>

-----------------------------------------------------------------------------
(* A dashboard or an executive report                                      *)

\* Seeded defect: a finding that somebody looked at is no longer counted.
OpenFindingsUnseen(p) ==
  {i \in DOMAIN findings : findings[i].project = p /\ findings[i].status = "OPEN"}

OpenFindings(p) ==
  {i \in DOMAIN findings : findings[i].project = p /\ findings[i].status \in OpenLike}

\* Its first queries: the latest run of the project and the results of that run.
ReadLatest(v, p) ==
  /\ board[v] = Waiting
  /\ board' = [board EXCEPT ![v] = [do |-> "read", project |-> p, run |-> LatestRun(p),
                                    known |-> DOMAIN runs]]
  /\ UNCHANGED <<vars, gate, resolvedAt>>

\* Its next query: the findings that are open.
ReadFindings(v) ==
  /\ board[v].do = "read"
  /\ board' = [board EXCEPT ![v] =
                 [do |-> "shown", project |-> @.project, run |-> @.run, known |-> @.known,
                  open |-> OpenFindings(@.project)]]
  /\ UNCHANGED <<vars, gate, resolvedAt>>

\* A report that lists no regression.
Filed == [do |-> "filed"]

\* The last query of a report: the newest baseline and, if there are both, what changed
\* between its run and the latest one.  A dashboard does not ask.
ReadChanges(v) ==
  LET b == NewestBaseline(board[v].project)
      regressions == Reported(b, board[v].run)
  IN  /\ board[v].do = "shown"
      /\ board' = [board EXCEPT ![v] =
                     IF regressions = {} THEN Filed
                     ELSE [do |-> "reported", project |-> @.project, run |-> @.run,
                           known |-> @.known, baseline |-> b]]
      /\ UNCHANGED <<vars, gate, resolvedAt>>

-----------------------------------------------------------------------------
(* Everybody else                                                          *)

\* A status update, with the history of what it resolved.
PatchLogged(w) ==
  /\ PatchFinding(w)
  /\ resolvedAt' = resolvedAt \cup
       {<<i, clock>> : i \in {n \in DOMAIN findings : /\ findings[n].status # "RESOLVED"
                                                       /\ findings'[n].status = "RESOLVED"}}
  /\ UNCHANGED <<gate, board>>

ReadersNext ==
  \/ \E w \in Worker :
       \/ /\ \/ \E p \in Project, suite \in Suites : RunSuite(w, p, suite)
             \/ \E i \in DOMAIN findings, status \in Targets : LoadFinding(w, i, status)
             \/ \E p \in Project, named \in 0..Len(runs) : ChooseRun(w, p, named)
             \/ PinBaseline(w)
          /\ UNCHANGED readers
       \/ ServeSync(w)
       \/ DieServing(w)
       \/ PatchLogged(w)
       \/ \E c \in Client, p \in Project, suite \in Suites : PostSync(c, w, p, suite)
  \/ \E c \in Client : GiveUp(c) \/ ReadBaseline(c) \/ CompareLatest(c) \/ FetchFails(c)
  \/ \E v \in Viewer :
       ReadFindings(v) \/ ReadChanges(v) \/ \E p \in Project : ReadLatest(v, p)

ReadersSpec == ReadersInit /\ [][ReadersNext]_allVars

-----------------------------------------------------------------------------
(* Properties                                                              *)

\* A build is green only on evidence: the run that the gate judged is on record in its
\* project with exactly the results it was sent, and no more of them match its policy
\* than it allows, although the server may die after each of its commits and the gate
\* may have given up on an earlier request that goes on.  Only a selection that names no
\* test at all is green with nothing on record.
PassBacked ==
  \A c \in Client :
    LET g == gate[c]
    IN  g.do = "exited" /\ g.exit = "pass" =>
          /\ Cardinality(Matching(g.result, policyOf[c])) <= policyOf[c].maxFailures
          /\ DOMAIN g.result # {} =>
               \E r \in DOMAIN runs : /\ runs[r].project = g.project
                                      /\ runs[r].stamp = g.stamp
                                      /\ runs[r].result = g.result

\* The report a gate fetches is about the latest run of its project, which need not be
\* its own.  A gate that checks for regressions misses those of its own run only if a
\* run executed later was on record when it asked.  And a build is red for a reason: more
\* of its own results match its policy than max_failures, or more than max_regressions
\* are regressions of a run of its own project against a baseline of its own project; at
\* exactly what its policy allows it is green.
RegressionsJudged ==
  \A c \in Client :
    LET g == gate[c]
        base == runs[baselines[g.baseline].run].result
        allowed == policyOf[c].maxRegressions
    IN  g.do = "exited" =>
          /\ g.baseline # 0 =>
               /\ baselines[g.baseline].project = g.project
               /\ /\ g.exit = "pass" /\ DOMAIN g.result # {}
                  /\ Cardinality(Regressions(base, g.result)) > allowed
                  => runs[g.judged].stamp > g.stamp
          /\ /\ g.exit = "fail"
             /\ Cardinality(Matching(g.result, policyOf[c])) <= policyOf[c].maxFailures
             => /\ g.baseline # 0 /\ g.judged # 0
                /\ runs[g.judged].project = g.project
                /\ Cardinality(Regressions(base, runs[g.judged].result)) > allowed

\* "Dashboard metrics match stored logs" (spec.md): a dashboard or report reads the
\* latest run, the open findings and the newest baseline in queries of their own, and
\* yet each test it shows as failed has one of the findings it shows as open, or one that
\* was resolved after that run began; for a sync commits the findings before the run and
\* a reader asks for the run before the findings.  And the regressions it lists are
\* against a run of the project that is not newer than the latest one it shows, unless
\* that run was recorded while the report was being made.
BoardConsistent ==
  \A v \in Viewer :
    LET b == board[v]
        own(i) == findings[i].project = b.project
    IN  /\ b.do = "shown" /\ b.run # 0 =>
             \A t \in Failed(runs[b.run].result) :
               \/ \E i \in b.open : findings[i].test = t /\ own(i)
               \/ \E e \in resolvedAt : /\ findings[e[1]].test = t /\ own(e[1])
                                        /\ e[2] >= runs[b.run].stamp
        /\ b.do = "reported" =>
             LET pinned == baselines[b.baseline].run
             IN  /\ runs[pinned].project = b.project /\ runs[b.run].project = b.project
                 /\ runs[pinned].stamp < runs[b.run].stamp \/ pinned \notin b.known
=============================================================================
