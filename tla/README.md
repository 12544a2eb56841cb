# SentinelAI in TLA+

Specifications of SentinelAI: the proxy (`proxy/`), which guards model calls, runs
security tests, keeps findings and baselines, manages accounts and projects, and decides
on agent actions; the runtime gateway (`gateway/`); the CI gate (`scripts/sentinel_ci.py`);
and the Fraud Copilot with its review screen (`agents/`, `frontend/`). TLC checks
every specification on small instances; TLAPS proves the theorems named below for every
value of the constants.

```
tlc -config AgentApproval.cfg MCAgentApproval     # one run
tlapm AgentApproval_proofs.tla                    # one proof module
```

## 1. The system

Two FastAPI services, a script and a page over a shared library. All endpoints below are
plain `def` functions, so each request runs in a thread of a pool, with a database session
of its own (read committed), while the module globals are shared by all threads.

| Component | Source | State | Operations | Module |
|---|---|---|---|---|
| Agent policy | `proxy/agent_policy.py` | profiles in a YAML file, read again by each evaluation | `evaluate` | `AgentPolicy` |
| Action log and approval | `proxy/agent_actions.py`, `proxy/main.py` 413-495 | `agent_action_logs` | evaluate, approve, reject | `AgentApproval`, `ActionLedger` |
| Findings | `proxy/findings.py`, `proxy/main.py` 344-410, 690-710 | `findings`, `test_run_results` | sync, status update | `FindingSync` |
| Baselines, regressions | `proxy/regression.py` | `baselines` | pin, compare, report | `FindingSync`, `FindingReaders` |
| CI gate | `scripts/sentinel_ci.py`, `proxy/ci.py` | none | sync, fetch the report, exit 0 or 1 | `FindingReaders` |
| Dashboard, reports | `proxy/dashboard.py`, `proxy/reports.py` | none | queries, one after the other | `FindingReaders` |
| Event sink | `proxy/events.py` | `security_events` | `record_event`, queries, purge | `SecurityEvents` |
| Test engine | `proxy/engine/` | none | `run_suite` | `FindingSync` |
| Accounts, projects | `proxy/auth.py`, `proxy/projects.py`, `proxy/main.py` 196-300 | `users`, `workspaces`, `projects` | signup, login, create, update, list | `Accounts`, `AccountRegistry` |
| API keys | `proxy/api_keys.py` | `project_api_keys` | create, revoke, use | `Accounts`, `AccountRegistry` |
| Rate limiters | `proxy/middleware/rate_limiter.py` | `_window_counts`, `_session_counts` | one check each | `AuthLimiter`, `GeneratePipeline` |
| Generate pipeline | `proxy/main.py` 749-926, `proxy/provider.py` | `call_logs` | `POST /v1/generate` | `GeneratePipeline`, `GenerateService`, `ProviderChain` |
| Gateway | `gateway/` | none but the audit log | `POST /v1/gateway/chat` | `Gateway`, `ProviderChain` |
| PII scanner | `proxy/middleware/pii_scanner.py` | the lazily built analyzer | `check_pii`, `redact_pii` | `PiiScanner`, `PiiRedaction` |
| Fraud Copilot, review screen | `agents/`, `frontend/` | the session of the page, `review_decisions` | analyse, decide | `FraudCopilot` |
| Evaluation, detector patterns, web front end | `proxy/eval/`, `proxy/redteam/`, `web/` | none | score, match, render | - |

What is hard in it:

- **Check, then act, without a lock.** Approval, finding sync, signup, the lookup of a
  workspace and the auth limiter read a row or an entry, decide, and write later. Two
  requests may both pass.
- **Several commits in one request.** Row first and event second; findings first and
  run second; user first and workspace second. A request may die in between, and
  event writes fail silently by design.
- **Stale reads.** The policy file, the newest baseline, the status of a finding, the row
  of an API key, and the state of the analyzer may change between the read and its use.
- **Several reads that should agree.** A gate, a dashboard and a report ask for runs,
  findings and baselines in queries of their own while syncs and updates commit.
- **Lost answers.** A gate gives up while the server goes on; each node of the copilot may
  fail alone; a click abandons the analysis under way.
- **Fallbacks.** A provider that fails hands over to the next; the code of the answer
  must still tell what happened.
- **Boundaries.** Limits and windows at exactly their value, spans that overlap, empty runs.

What makes each part correct: an action that needs a human is settled by a human
other than the asker, and every denial is known; no failed test is without a finding,
no finding is lost, reported regressions are regressions; a green build has its evidence
on record, and a page shows what belongs together; accounts and projects stay apart and a
revoked key stays revoked; a limiter refuses only whom it should and lets through only a
bounded excess; the log, the events, the audit trail and the answer of a request agree;
a verdict that nobody gave is not shown without the error; every request ends.

## 2. The modules

Definitions keep the names of the source where they can. A definition that begins
with *Seeded defect* is a variant the properties are tested against: no action uses it.

### AgentPolicy, AgentApproval, ActionLedger

`AgentPolicy` is `evaluate` as pure operators: `Evaluate(profile, request)` returns
decision, code and risk in the order of the checks in the code. Names are compared
after `canon` (strip and lower case); the wildcard and blank names are kept apart.
`AgentApproval` adds the endpoints. `log` is the table, `config` the YAML file,
`job[c]` what request thread `c` still has to do.

| Action | Code |
|---|---|
| `EvaluateAndRecord` | `evaluate_agent_action` up to the commit of the row |
| `ReadAndAdmit`, `ReadAndRefuse` | the read and the checks of `resolve_approval`, passed or refused |
| `CommitResolution` | its write and commit, in a later step |
| `EmitEvent` | `record_event` after the commit, which may fail |
| `Die` | the request ends before its next database access |
| `Reconfigure` | the file is edited |

`ActionLedger` is the abstract promise: an action is asked with the outcome its
decision maps to, and only a pending one is ever settled, by a named person other
than its agent. `AgentApproval` implements it with the refinement that keeps
agent, result and approver of each row.

### FindingSync

One module for sync, status update and baselines, because they meet in the database.
A sync is five transactions: `RunSuite`, then `CheckOne` per failing test (the query
for an open finding), `SaveFindings` (the commit of all new rows), `RecordRun`,
`ReportFinding` per event, `CompareWithBaseline`, `ReportRegression`. A status
update is `LoadFinding` and `PatchFinding`; the session writes a column only if its
value differs from the loaded one. A baseline is `ChooseRun` and `PinBaseline`.
`Die` ends a request anywhere. Results are PASS, FAIL and OTHER (ERROR and
INCONCLUSIVE, which no code treats differently here). All rows of one run carry the
time of its execution; a run's `stamp` stands for it.

### FindingReaders

Extends `FindingSync` with those who read what it writes.

| Action | Code |
|---|---|
| `PostSync` | `_fetch_results` of a gate: its request arrives at a thread |
| `ServeSync` | a step of that thread; the last one answers the gate that waits |
| `DieServing`, `GiveUp` | no answer: the request dies, or 120 seconds pass and the thread goes on |
| `ReadBaseline`, `CompareLatest` | the two queries of `regression_report`, then `evaluate` and the exit status |
| `FetchFails` | the report cannot be fetched, and an exception ends the script |
| `ReadLatest`, `ReadFindings` | the queries of a dashboard or report for the latest run, then for the open findings |
| `ReadChanges` | a report's query for the newest baseline, and what changed since |

A rerun of a build is another client. `resolvedAt` is history: when a finding was resolved.

### Accounts, AccountRegistry

`users`, `workspaces`, `projects` and `keys` are the tables, `tokens[c]` the accounts a
person holds a session for, `job[t]` what thread `t` still has to do.

| Action | Code |
|---|---|
| `LookupEmail`, `InsertUser`, `InsertWorkspace` | `signup`: the query, and its two commits; the unique constraint ends the loser of a race in an error |
| `Login` | `login`, one query |
| `LookupWorkspace`, `InsertSpareWorkspace`, `InsertProject` | `create_project`: any workspace of the user, or a new one |
| `BeginList`, `ReadList` | `list_projects`: the workspace, then its projects |
| `UpdateProject`, `CreateKey`, `RevokeKey` | one transaction behind the ownership check |
| `VerifyKey`, `StampKey`, `Finish` | a request with a key: its row is read, `last_used_at` committed, the request served |
| `Die`, `Restart` | a request ends between two commits; the process does, and with it the tokens if no `JWT_SECRET` is set |

`AccountRegistry` is what remains when workspaces, requests and commits are taken away: `SignUp`
gives an address its one account, `SignIn` lets the person who chose the password use it, and
whoever is signed in as the owner may `Create`, `Edit`, `GiveOut` a key and `Withdraw` it.
`Accounts` implements it (`Promised`): a project's owner is the account of the workspace it
was put in, and each commit is one of these steps, or one the registry does not see.

### AuthLimiter

`check_auth_rate_limit` in the three steps between which CPython can switch threads:
`ReadClock`, `ReadWindow`, `Decide`. Two readings of the clock differ. `admitted`
and `overlapped` are history.

### PiiScanner, PiiRedaction, ProviderChain, GeneratePipeline, GenerateService, Gateway

`PiiScanner` is the analyzer as the threads of one process share it: `StartBuild` sets
the flag, `FinishBuild` the analyzer, and `Found(text)` is what a scan sees in
between or after. `ProviderChain` says which providers a request tries, in order, and
which of them have a key. Both pipelines extend them.

A text of the generate pipeline is the set of kinds of PII it holds. `Kind` names four
kinds the regular expressions see and one that only the analyzer sees. The gateway
redacts, so there a text (`PiiRedaction`) is a set of occurrences, each a kind and a run of
places; they may overlap, and `Redacted(text)` is the pass of `redact_pii` from left to right
over the spans of the patterns and of the analyzer alike.
What redaction leaves of an occurrence (`Remains`) need not be a run.

`GeneratePipeline` follows a request of `POST /v1/generate`:

| Action | Code |
|---|---|
| `Receive` | the request and the size check |
| `BeginAnalyzer`, `EndAnalyzer` | `_get_presidio_analyzer` for the first scan of the process |
| `ScanPrompt`, `ScanReply` | the two `check_pii` |
| `Notice` | the event of a scan that found something |
| `Judge` | the injection verdict, then `check_and_increment` |
| `CallProvider` | one provider of the chain: a reply, a failure, no key |
| `CheckOutput` | `validate_structured_output` |
| `LogCall`, `Alarm` | `_log`, and the event of a refused request after it |
| `Raise` | what ends in a 500: an unknown schema, a scan, a malformed reply, the log's commit |

`check_and_increment` makes no call between its reads and its write, so CPython does not
switch threads inside it and it is one step.

`GenerateService` is what clients, log and bill are promised. Service is prepaid: `Charge` for a
request under way, once per request and at most `Cap` times per customer; `Book` one entry,
which speaks of service only for a request that was charged for; `Answer` what the entry says,
at once or later; `Fail` without an entry. `GeneratePipeline` implements it (`Promised`): users
are customers, the history variable `charged` holds the requests that used up quota, the blocked
codes cost nothing, and scans, providers, events and threads are not seen.

`Gateway` follows `run_pipeline`: `InspectRequest`, `Emit` (one event at a time),
`JudgeRequest`, `CallProvider`, `InspectReply`, `JudgeReply`, `Raise`. The deployment's
policy is chosen in `Init` and stays. Messages are inspected joined and redacted one by
one, so a request keeps apart what is inside one message and what is spread over two: the
latter is reported as seen, and the request as modified, but not redacted.
`audit[i]` is the trail of request `i`.

### FraudCopilot

`job` is the analysis under way, `shown` the one on the page, `decisions` the table.
`Extract`, `Forensics`, `CheckPolicy` and `WriteReport` are the four nodes; `CallFails` is
any call of the proxy that brings no answer with status 200; `PipelineFails` an exception
no node catches; `Show` keeps the state for the page. `Load` is a run of the page's script
in which a receipt was picked or a file is in the uploader (the file wins), `RunAnalysis` and
`Decide` its two buttons. A click runs the script anew, which is what `Abandoned` leaves of
the analysis under way.

### SecurityEvents

`AfterRecording(events, e)`: the tables `record_event` may leave behind. An event that
is filtered out or whose commit fails is silently absent.

## 3. What the runs check

| Run | Instance | Shows |
|---|---|---|
| `approval` | 2 threads, 2 actions, 1 failure, 2 policy files (52 k states) | `SeparationOfDuty`, `ResolutionAttributed` (approver and answer come from one request), `OverwritesBounded` (at most one settlement per thread), `DenialsAccounted` (every denial reported exactly once unless its report was lost, and nothing else as a denial), `ImplementsLedger`, `AdmittedIsSettled` |
| `approval_race` | same | *violation*: a settled action is settled again |
| `findings` | 2 threads, 1 test, 3 syncs, 1 update, 1 baseline, 1 failure (348 k) | `FailuresCovered`, `DuplicatesBounded` (at most one finding per thread that nobody resolved), `OpeningsAccounted` (of each new finding one event, or one sync about to write it, or a loss), `TraceableUnlessDied` |
| `findings_race` | 2 syncs | *violation*: two open findings for one test |
| `regression_watch` | 2 threads, 2 projects, 2 syncs, 1 gate, 1 report (2.1 M) | `RegressionsSound`; `PassBacked`: a green build has its run on record; `RegressionsJudged`: a gate misses its own regressions only for a run executed later, and fails a build only for more matches or regressions than allowed, at exactly the limit not; `BoardConsistent`: runs, findings and baselines on one page belong together |
| `accounts` | 2 threads, 2 people, 2 addresses one of them typed in two ways, 2 projects, 1 key (1.1 M) | `AccountsSeparate`, `ProjectsIsolated`, `WorkspacesBounded` (at most one per thread), `ListComplete` (a list is one workspace of its user, whole, and nothing of another), `RevocationHolds`, `ImplementsRegistry` |
| `auth_limiter` | 3 threads, 2 addresses, limit 2 | `RefusalsJustified`, `LimitKeptAlone`, `ExcessBounded` |
| `generate` | 2 threads, 2 users, 2 requests of 6, quota 1, 1 failure (33 k) | `AnsweredAsLogged`, `QuotaCoversCalls`, `RefusedForFree`, `AlarmsAgree`, `DisclosuresReported`, `FailureMeansCalled`, `ImplementsService`, `EveryRequestEnds` |
| `generate_retry` | same | *violation*: a reply is refused although the provider was asked once |
| `gateway` | 2 threads, 2 requests of 5, 5 deployments, 1 failure, texts of 6 places (237 k) | `TrailTellsDecision`, `RedactionKept`, `EventsAgree`, `EveryRequestEnds` |
| `gateway_redaction` | 1 deployment, 1 request | *violation*: a card number that begins inside a phone number keeps its tail |
| `copilot` | 1 sample, 1 upload, 1 decision (739 k) | `FailuresTold`, `InjectionSurfaced`, `DecisionOnEvidence` |

The type invariants that no run lists are theorems for every instance (`TypeCorrect`).
Every property of a passing run is falsified by at least one seeded defect in a
definition that stands for code (`PROJECT.json`, "mutants").

**Disagreements found.** Each violation run is a statement of a document or a docstring
that the code does not keep:

- `approval_race`: "409 if not pending" (docs/AGENT_SECURITY.md). Two people may both
  answer an action with 200; the later commit wins.
- `findings_race`: "unless one is already open" (docstring of `sync_findings`).
- `generate_retry`: "Invalid structured output is retried once" (spec.md). The retry
  reads the same text.
- `gateway_redaction`: "Redacts every matched span" (docstring of `redact_pii`). A span
  that begins inside one already replaced is skipped whole.

Three of them have a companion that does hold: `OverwritesBounded` and `DuplicatesBounded` for
the races, `RedactionKept` for what overlaps. More disagreements show in the models and have
no run of their own:

- "Findings must remain traceable to the test execution that generated them"
  (spec_V3.md): a sync that dies between its two commits leaves a finding whose run is
  not recorded. What holds is `TraceableUnlessDied`.
- "False if key is over limit attempts within the current window" (docstring of
  `check_auth_rate_limit`): what holds under contention is `ExcessBounded`.
- "extra NER types (e.g. person names) are *detected* and reported but not redacted"
  (docs/GATEWAY.md:64-66, "Known limit"): the code replaces them like the others, before and after
  a provider call, and the docstring of `redact_pii` says that it does (D-054); the document was
  left behind. `RedactionKept` therefore speaks of names too, and `ApartIsRedacted` is proved of
  any kind the scan finds.
- "Each decision comes from the request, the policy, and the provider response alone"
  (docs/GATEWAY.md): it also comes from whether the analyzer is built.
- "Exactly one workspace" (proxy/projects.py:3): a login between the commits of a signup,
  or two requests after a signup that died, leave a user with several, and a list shows
  the projects of one of them. What holds is `WorkspacesBounded` and `ListComplete`: which one
  is open, but it is shown whole and alone.
- An executive report may list as regressions what was fixed: when a baseline is pinned to a
  newer run while the report is being made (`BoardConsistent`, its last disjunct).
- `call_proxy` of the copilot sends neither an `Authorization` header nor a `project_id`, so
  the proxy of this repository refuses each of its calls with 401; the model keeps both outcomes of a
  call, as the page is deployed against a proxy that answers.
- A receipt whose policy check failed is displayed as compliant with confidence 1.0
  (`compute_display`); what holds is that the error is displayed beside it (`FailuresTold`).
- A reviewer who picks another receipt after an analysis and decides without a new one stores
  the verdict of the first under the name of the second: the page names what is picked now
  and shows what was analysed last. Nothing promises otherwise; `DecisionOnEvidence` says that
  this is the only way to such a row.

**Bounds.** `MaxActions`, `MaxSyncs`, `MaxPatches`, `MaxBaselines`, `MaxRequests`,
`MaxProjects`, `MaxKeys`, `MaxDecisions` and `MaxClock` cap how often clients come;
`MaxFailures` how many requests die. Two threads suffice for the races, which are between two
requests; two actions, projects, people or users let a defect confuse one with another;
three syncs let two overlap and a third see what they left. In `regression_watch` two
syncs are the gate's and another client's, which may be executed before or after
it and recorded in the other order, and the one baseline may be pinned to either. In `accounts`
two threads let a signup race with itself, with a login and with a creation, and two projects
may lie in different workspaces. In `auth_limiter` the window (5) and the clock (6) let
five attempts fall into one window, one more than the four that `ExcessBounded` allows
three threads with limit 2, and let a window end. In `generate` a quota of one with two
requests exhausts it. In `gateway` two requests are what the race over the analyzer needs,
and six places hold three spans of which each overlaps the next. In `copilot` a sample
and an upload are the two ways to change the receipt.

**Deadlock.** `approval` checks it: evaluations stop at `MaxActions`, but the policy
file can always be edited. Elsewhere `CHECK_DEADLOCK FALSE`, because a run stops when its
bounds are used up; that no request is stuck is `EveryRequestEnds` where it is claimed.

**Fairness.** `WF_vars(Work(c))` per thread in `AgentApproval`, `GeneratePipeline` and
`Gateway`: a request that has begun takes its next step. The pool's threads are preempted
but never starved, and what they wait for ends: database statements, a scan, a provider call
(both clients have time-outs and raise). Arrival of requests, failures, raising, and the file
being edited have no fairness of their own. The other modules make no liveness claim: a
gate may wait for its time-out, a page for its reader.

## 4. What is proved

Every theorem holds for all constants that satisfy the module's ASSUMEs: any number of
threads, actions, clients and keys, any policy file, any suite.

- **AgentApproval_proofs**, about the policy decision (no state): `VerdictType`;
  `NothingByDefault`: whatever is not denied names a registered tool and source under a
  matching rule; `StrictestWins`; `SpellingIsIrrelevant`; `MoreRulesAreStricter`. About the
  action log: `TypeCorrect`, `DutiesSeparated`, `Attributed`,
  `LedgerImplemented`, `DenialsReported`, `OverwritesAreBounded`. `SeparationOfDuty` is not
  inductive alone: between `ReadAndAdmit` and `CommitResolution` the check lives only in the
  thread's job. `TypeInv` therefore joins `TypeOK`, `JobsJustified` (a resolution under
  way is for a row sent to approval and names someone other than its agent, which stays
  true because agent and decision of a row never change) and `SeparationOfDuty`.
  `OverwritesAreBounded` needs `Counted`: the resolutions committed to a row plus those under
  way are at most the threads, and a row that is not settled has none committed, which
  is why an admission can add one under way. `DenialsReported` is exact (`ReportsInv`):
  what was reported of a row, what is lost and the threads about to report it together
  make one report if it is a denial and none otherwise, since a thread hands its one report on
  or loses it (`ReportersAfter`). `LogSteps`
  says what a step may do to the log; refinement and attribution follow from it.
- **FindingSync_proofs**: `TypeCorrect`, `BaselinesStayPinned`, `HistoryStays` (a sync
  removes, moves, reopens or overwrites no finding), `RegressionsStaySound`,
  `FailuresStayCovered`, `DuplicatesStayBounded`, `OpeningsStayAccounted`,
  `FindingsAreTraceable`. The base is `Safe`: types, what each thread knows of the tables
  (`AllKnow`: the run it recorded is there and is its own, the findings it opened are its
  project's) and `BaselinesPinned`. `FailuresCovered` adds how far a
  sync has come (`Tracked`): a failing test is still to be looked up, about to be inserted,
  or covered by a finding. `DuplicatesBounded` counts, for a test of a project, the findings
  nobody resolved plus the threads about to insert one (`Crowded`, `Stagers`): no thread joins
  these once there is such a finding, which is open, and each of them adds one.
  `OpeningsAccounted` is exact too, and `OpeningsInv` speaks also of identifiers no finding
  has yet: nobody holds or has reported them, so a commit of new findings makes its own
  sync the one that holds them (`SaveAccounts`).
- **FindingReaders_proofs**: `ReadersImplementSync`: under the gates and pages, the requests
  behave as `FindingSync!Spec`, so all its theorems hold here (`RegressionsSoundWhenRead` is one
  of them). `GreenIsBacked` and `VerdictsAreOwn` follow what a gate knows from stage to
  stage (`GatesKnow`): while it waits, the thread it waits for holds its results and its stamp;
  once answered, its run is on record; and when it judges, the run and the baseline of the
  report are of its project. `BoardsStayConsistent` needs three facts that outlive
  a step: each failure of a recorded run has a finding that is open or was resolved after its
  stamp (`Explains`), what is recorded stays, and a finding goes from open to resolved
  only into `resolvedAt`.
- **Accounts_proofs**: `TypeCorrect`, `ThreadsKnow`, `AccountsStaySeparate`,
  `ProjectsStayIsolated`, `ListsAreComplete`, `NothingIsMissed` (its case of one workspace),
  `RevocationIsFinal`, `WorkspacesStayBounded`, `RegistryImplemented`.
  Rows keep what they belong to (`Rows`), so what a thread read stays true while it is
  overtaken (`JobsOK`). The bound on workspaces counts those of a user plus the
  threads about to make one (`Pending`): none joins these once the user has one.
  The refinement needs one fact more: who is about to write a project was let in as its owner
  and still is (`Authorized`), since nobody is signed out before the requests end. With it
  `InsertProject` may `Create` although the check was two commits before, and `StampKey`,
  which writes one column of a row read earlier, shows nothing.
- **AuthLimiter_proofs**: `TypeCorrect`; `RefusalsAreJustified`, from `CountsCovered`: every
  count, stored or held by a thread, is covered by attempts really admitted in its window;
  `LimitIsKeptAlone`, from `Alone`: for an address that never had two threads, what is
  stored is exactly what was admitted, and windows start in the past. `ExcessIsBounded` is a
  potential argument (`ExcessInv`). A thread that has read a count holds it, one that has
  not cannot hold less than what is stored now; `CountOf` gives every thread its count, the
  limit if it can let nobody through. An attempt in a window raises the stored count of one thread
  above those that may still set it back. With `Ahead(x)` the threads whose count exceeds `Limit - x`,
  `Covers` says that what got through fits a sum of binomials over the levels, which by Pascal's
  rule (`Pascal`, over factorials the module unfolds itself) gains one with each attempt and ends
  at the bound. `OwnWindows` keeps the windows apart: nobody holds a window that starts later than
  the clock it read.
- **GeneratePipeline_proofs**: `TypeCorrect`, from `Numbered` (a busy thread serves a
  request that was asked); `BuildOnce`; `EveryAnswerLogged`, from `LogInv`: busy threads
  serve different requests (`Distinct`), a request has no answer while it is served
  (`Unanswered`) and no row until its thread is about to raise the alarm (`RowsFollow`), and a
  row is there before the answer (`Logged`). `CallsArePaidFor` adds to the called requests
  those about to be called and those whose row speaks of service (`Paid`), since the quota is
  spent a step before the call. `ServiceImplemented` maps every action to one of
  `GenerateService` or to a stutter: `Judge` may charge because a request that is not past the
  quota is not in `charged`, and `LogCall` may book service because one that is past it, and
  neither refused for its size nor as an attack, is (`ChargedInv`).
  `RefusalIsFree` bounds a user's counter by the innocent requests that are past the quota,
  not by all of them: only then does the step that spends the quota gain a request (`FreeInv`).
  `NoBlameWithoutCall` carries the call from the provider's failure to the row (`FailedInv`).
  `AlarmsAreHonest` rests on the row an alarm is about being the only one of its request;
  `DisclosuresAreReported` on `NamedInv`: at each stage the events of a request name exactly the
  scans its thread has left behind.
- **Gateway_proofs**: `TypeCorrect`; `TrailsTellTheDecision`, from `TrailInv`: the trail of a
  request under way is as long as its thread's place in the pipeline says and holds the lines
  of `Full` in order, and one that ended is such a trail and the decision; `EventsAreHonest`,
  from `EventInv`: of a request under way an event that says blocked was written, lost or is
  about to be emitted if and only if the policy is going to stop it where its thread is
  (`Told`, `Stops`). Both need that a request has one thread and no decision while it is
  served (`AloneInv`). `PassDecides`: over any set of spans the pass of `redact_pii` replaces one
  set and no other, so the CHOOSE in `Replaced` hides no choice. `ApartIsRedacted`: what
  meets no other match goes whole, whoever found it. `UncrossedIsRedacted`: spans that cross are the
  only exception to "Redacts every matched span". `RedactionIsKept` follows
  from it: a span that was not replaced begins in one that was and ends beyond it, and what a
  request was found to hold is found again when it is redacted, since the scanner only ever sees
  more (`KeptInv`).
- **FraudCopilot_proofs**: `TypeCorrect`, `FailuresAreTold`, `InjectionIsSurfaced`,
  `DecisionsOnEvidence`, for any receipts. The invariant says, per stage, which parts of the
  state are accounted for by an error (`Accounts`) and which attacks are already in it
  (`Surfaces`), and that an analysis under way is of the receipt picked.

An induction over numbers or spans takes the least element of the set of counterexamples
(`Least`, from the well-foundedness of `<` on the naturals), for the schematic theorems of the
library take an operator.

Of `EveryRequestEnds` the safety half is proved for both pipelines, for any instance:
`NobodyIsForgotten` (a request without an answer has a thread at work on it) and
`RequestsAdvance` (`StepsLeft`, at most 14 and 13, falls with each step of that thread and
never rises by another's). What remains to TLC is that a busy thread can always take a step,
and that fairness makes it take it.

Only model-checked: liveness under fairness (`AdmittedIsSettled`, `EveryRequestEnds`), which with
ENABLED is out of the prover's reach.

## 5. Not modelled, and why

- A restart empties the limiters and the analyzer's flag; except in `Accounts` a killed process is
  modelled only through the requests it ends, in the components that persist state.
- Credential checks of the other components: they refuse before anything changes, and
  `Accounts` is where they are modelled.
- Texts, scores, costs, token counts and latencies: no property is about them.
- Two processes over one database: the deployment runs one worker of each service
  (`rate_limiter.py` says so). The gateway and the proxy meet only in the event table.
- Thread switches are those of CPython 3.11: at calls and backward jumps.
- Rows of a baseline are ordered by `created_at`, taken as their commit order.
- Rendering, the period and the technical sections of reports, and remediation texts: pure
  functions of rows the model reads. So are the buckets of `compare_runs` other than the
  regressions, and the findings delta, on which no decision of the code depends.
- `query_events` and the retention purge: single statements over a table nothing here reads.
- Detector patterns, the attack library, grounding and evaluation: string matching and
  arithmetic without state; their verdict is an input of the pipelines.
- `agents/api.py`: runs the graph that `FraudCopilot` models for any client, and its
  `POST /v1/review-decisions` stores what the client sends, so it keeps no property
  about whose verdict a decision goes with.
- The web front end and the other pages: they display what the services answer.
- The throwaway account a CI job without a key signs up: a signup like any other.

## 6. Plan

1. Done: agent approval; findings, baselines, their readers and the CI gate; accounts,
   projects and keys; the auth limiter; the generate pipeline; the gateway with
   redaction; the Fraud Copilot; the proofs above.
2. Done: every invariant, action property and refinement that a passing run checks is also
   a theorem, with `RedactionKept` and `ExcessBounded` the last of them; the abstract generate
   service and the abstract registry of accounts, projects and keys, both shown to be
   implemented; the exact accounts of denials and of new findings; the safety half of
   termination for both pipelines.
3. Next: an abstract board of findings for `FindingSync` (what its clients are promised of
   findings and baselines, without threads and commits) and an abstract gateway service,
   with their refinements.
