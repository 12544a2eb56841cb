--------------------------- MODULE AgentApproval ---------------------------
(***************************************************************************)
(* The agent action log: POST /v1/agents/{id}/evaluate, and the approve    *)
(* and reject endpoints (proxy/main.py, proxy/agent_actions.py).  The      *)
(* endpoints are plain functions that run in a thread pool, each with a    *)
(* database session of its own and no lock or row version, so a request is *)
(* a sequence of steps at its database accesses and requests interleave.   *)
(*                                                                         *)
(* A client here is a request thread.  Left out: the project tag (copied   *)
(* from the request to the row and to the event), the tool and action      *)
(* names kept in the row, and what a refused request answers.              *)
(***************************************************************************)
EXTENDS AgentPolicy, SecurityEvents, Sequences, FiniteSets

CONSTANTS Client,       \* request threads
          Configs,      \* what agent_profiles.yaml may hold: sets of profiles
          Requests,     \* the action requests considered
          Approvers,    \* the approver strings considered
          NoOne,        \* approved_by is NULL
          MaxActions,   \* bound: rows of the log
          MaxFailures   \* bound: requests that die half-way

ASSUME ApprovalAssumption ==
  /\ IsFiniteSet(Client)
  /\ Configs \subseteq SUBSET Profile
  /\ Requests \subseteq Request
  /\ Approvers \subseteq RawName
  /\ NoOne \notin Name
  /\ MaxActions \in Nat /\ MaxFailures \in Nat

VARIABLES config,     \* the profiles on disk, read again by every evaluation
          log,        \* agent_action_logs: the row with id i is log[i]
          events,     \* security_events of this component
          job,        \* what each request thread still has to do
          failures,   \* requests that died so far
          lost,       \* history: the rows whose denial was never reported
          commits     \* history: how many resolutions of each row were committed

vars == <<config, log, events, job, failures, lost, commits>>

ActionId == 1..MaxActions

ResultByDecision == [ALLOW            |-> "allowed_not_executed",
                     DENY             |-> "blocked",
                     REQUIRE_APPROVAL |-> "pending_approval"]

Resolved == {"approved_not_executed", "rejected"}

Row == [agent    : Name,
        decision : Decision,
        result   : {ResultByDecision[d] : d \in Decision} \cup Resolved,
        by       : Name \cup {NoOne}]

Event == [type     : {"policy_violation", "suspicious_tool_activity"},
          severity : Severity,
          id       : ActionId,
          code     : Code \cup {"not_pending", "self_approval_forbidden"}]

Resolution == [id : ActionId, who : Name, result : Resolved]

Idle == [do |-> "idle"]
Emit(e) == [do |-> "emit", event |-> e]
Commit(r) == [do |-> "commit", resolution |-> r]

Job == {Idle} \cup {Emit(e) : e \in Event} \cup {Commit(r) : r \in Resolution}

Init ==
  /\ config \in Configs
  /\ log = <<>>
  /\ events = {}
  /\ job = [c \in Client |-> Idle]
  /\ failures = 0
  /\ lost = {}
  /\ commits = [i \in ActionId |-> 0]

-----------------------------------------------------------------------------
(* Evaluation                                                              *)

\* Seeded defect: the row stores the decision where its outcome belongs.
NewRowUnmapped(p, v) ==
  [agent |-> p.agent, decision |-> v.decision, result |-> v.decision, by |-> NoOne]

NewRow(p, v) ==
  [agent |-> p.agent, decision |-> v.decision,
   result |-> ResultByDecision[v.decision], by |-> NoOne]

\* A request that reaches outside the declared shape of its agent is
\* suspicious, any other denial is a policy violation.
DenialEvent(i, code) ==
  IF code \in OutOfBoundsCode
  THEN [type |-> "suspicious_tool_activity", severity |-> "high", id |-> i, code |-> code]
  ELSE [type |-> "policy_violation", severity |-> "medium", id |-> i, code |-> code]

\* Seeded defect: an ordinary denial is not reported.
AfterEvaluationQuiet(i, v) ==
  IF v.code \in OutOfBoundsCode THEN Emit(DenialEvent(i, v.code)) ELSE Idle

AfterEvaluation(i, v) ==
  IF v.decision = "DENY" THEN Emit(DenialEvent(i, v.code)) ELSE Idle

\* Reads the profiles, decides, and commits the row.  An unknown agent is a 404
\* that changes nothing.
EvaluateAndRecord(c, agent, q) ==
  /\ job[c] = Idle
  /\ Len(log) < MaxActions
  /\ \E p \in {x \in config : x.agent = canon[agent]} :
       LET v == Evaluate(p, q) IN
         /\ log' = Append(log, NewRow(p, v))
         /\ job' = [job EXCEPT ![c] = AfterEvaluation(Len(log) + 1, v)]
  /\ UNCHANGED <<config, events, failures, lost, commits>>

-----------------------------------------------------------------------------
(* Approval                                                                *)

\* Seeded defects: the approver is compared before it is canonicalised, a row is
\* taken for pending when it is merely not denied, the row's state is not checked.
RefusalRawIdentity(row, approver) ==
  IF row.result # "pending_approval" THEN "not_pending"
  ELSE IF canon[approver] = Blank THEN "approver_required"
  ELSE IF approver = row.agent THEN "self_approval_forbidden"
  ELSE "none"

RefusalUnlessDenied(row, approver) ==
  IF row.decision # "REQUIRE_APPROVAL" THEN "not_pending"
  ELSE IF canon[approver] = Blank THEN "approver_required"
  ELSE IF canon[approver] = row.agent THEN "self_approval_forbidden"
  ELSE "none"

RefusalAnyState(row, approver) ==
  IF canon[approver] = Blank THEN "approver_required"
  ELSE IF canon[approver] = row.agent THEN "self_approval_forbidden"
  ELSE "none"

\* The checks of resolve_approval in their order, on the row as it was read.
\* The identities of approver and agent are compared in canonical form.
Refusal(row, approver) ==
  IF row.result # "pending_approval" THEN "not_pending"
  ELSE IF canon[approver] = Blank THEN "approver_required"
  ELSE IF canon[approver] = row.agent THEN "self_approval_forbidden"
  ELSE "none"

\* The refusals that are reported: approving one's own action, and asking to
\* settle a denial.
Suspicious(row, refusal) ==
  \/ refusal = "self_approval_forbidden"
  \/ refusal = "not_pending" /\ row.decision = "DENY"

BypassEvent(i, refusal) ==
  [type |-> "suspicious_tool_activity", severity |-> "high", id |-> i, code |-> refusal]

ReadAndAdmit(c, i, approver, result) ==
  /\ job[c] = Idle
  /\ Refusal(log[i], approver) = "none"
  /\ job' = [job EXCEPT ![c] =
                Commit([id |-> i, who |-> canon[approver], result |-> result])]
  /\ UNCHANGED <<config, log, events, failures, lost, commits>>

ReadAndRefuse(c, i, approver) ==
  /\ job[c] = Idle
  /\ Suspicious(log[i], Refusal(log[i], approver))
  /\ job' = [job EXCEPT ![c] = Emit(BypassEvent(i, Refusal(log[i], approver)))]
  /\ UNCHANGED <<config, log, events, failures, lost, commits>>

\* Seeded defects: the first approver's name is kept, the write is not committed.
WriteKeepsApprover(rows, r) ==
  [rows EXCEPT ![r.id].result = r.result, ![r.id].by = IF @ = NoOne THEN r.who ELSE @]

WriteUncommitted(rows, r) == rows

\* UPDATE ... WHERE id = i: both columns, whatever the row holds by now.
WriteResolution(rows, r) ==
  [rows EXCEPT ![r.id].result = r.result, ![r.id].by = r.who]

CommitResolution(c) ==
  /\ job[c].do = "commit"
  /\ log' = WriteResolution(log, job[c].resolution)
  /\ commits' = [commits EXCEPT ![job[c].resolution.id] = @ + 1]
  /\ job' = [job EXCEPT ![c] = Idle]
  /\ UNCHANGED <<config, events, failures, lost>>

-----------------------------------------------------------------------------
(* Monitoring, failure, reconfiguration                                    *)

\* The row whose denial goes unreported when the event e is not written.
Unreported(e) == IF e.code \in Code THEN {e.id} ELSE {}

\* record_event: the write may fail, and then the event is gone for good.
EmitEvent(c) ==
  /\ job[c].do = "emit"
  /\ events' \in AfterRecording(events, job[c].event)
  /\ lost' = lost \cup (IF job[c].event \in events' THEN {} ELSE Unreported(job[c].event))
  /\ job' = [job EXCEPT ![c] = Idle]
  /\ UNCHANGED <<config, log, failures, commits>>

\* The thread dies, or its commit raises: the session is closed and rolled back.
Die(c) ==
  /\ job[c] # Idle
  /\ failures < MaxFailures
  /\ failures' = failures + 1
  /\ lost' = lost \cup (IF job[c].do = "emit" THEN Unreported(job[c].event) ELSE {})
  /\ job' = [job EXCEPT ![c] = Idle]
  /\ UNCHANGED <<config, log, events, commits>>

\* An operator edits agent_profiles.yaml while the service runs.
Reconfigure ==
  /\ config' \in Configs
  /\ UNCHANGED <<log, events, job, failures, lost, commits>>

Work(c) == CommitResolution(c) \/ EmitEvent(c)

Next ==
  \/ Reconfigure
  \/ \E c \in Client :
       \/ \E agent \in RawName, q \in Requests : EvaluateAndRecord(c, agent, q)
       \/ \E i \in DOMAIN log, approver \in Approvers :
            \/ \E result \in Resolved : ReadAndAdmit(c, i, approver, result)
            \/ ReadAndRefuse(c, i, approver)
       \/ CommitResolution(c)
       \/ EmitEvent(c)
       \/ Die(c)

Spec == Init /\ [][Next]_vars

\* A thread that has begun goes on: the pool runs every handler to its end.
FairSpec == Spec /\ \A c \in Client : WF_vars(Work(c))

-----------------------------------------------------------------------------
(* Properties                                                              *)

TypeOK ==
  /\ config \in Configs
  /\ log \in Seq(Row) /\ Len(log) <= MaxActions
  /\ events \subseteq Event
  /\ job \in [Client -> Job]
  /\ failures \in 0..MaxFailures
  /\ lost \subseteq ActionId
  /\ commits \in [ActionId -> Nat]

\* Two pairs of eyes: only an action that the policy sent to approval is ever
\* approved or rejected, and by a named person who is not the agent that asked,
\* however the threads interleave, whatever the policy file says by then, and
\* whichever spelling of its own name an agent tries.
SeparationOfDuty ==
  \A i \in DOMAIN log :
    /\ log[i].result \in Resolved =>
         /\ log[i].decision = "REQUIRE_APPROVAL"
         /\ log[i].by \notin {log[i].agent, Blank, NoOne}
    /\ log[i].result \notin Resolved =>
         /\ log[i].result = ResultByDecision[log[i].decision]
         /\ log[i].by = NoOne

\* The approver recorded in a row made the decision recorded with it: a row that
\* is there already changes only to the name and the answer of one admitted
\* request, never to one person's name beside another person's answer.
ResolutionAttributed ==
  [][\A i \in DOMAIN log :
       log'[i] # log[i] =>
         \E c \in Client :
           /\ job[c] = Commit([id |-> i, who |-> log'[i].by, result |-> log'[i].result])
           /\ job'[c] = Idle]_vars

\* A row can be settled more than once, because the check and the write are two
\* steps, but only by the requests that had read it as pending before the first
\* write: at most one settlement per request thread.
OverwritesBounded == \A i \in ActionId : commits[i] <= Cardinality(Client)

\* Every denial in the log was reported once, is being reported by the one thread that
\* made it, or is one whose report was lost to a failure, and never two of these: no path
\* through the handlers forgets it, and what was not denied is not reported as a denial.
Reports(i) == {e \in events : e.id = i /\ e.code \in Code}

Reporters(i) == {c \in Client : /\ job[c].do = "emit"
                                /\ job[c].event.id = i
                                /\ job[c].event.code \in Code}

DenialsAccounted ==
  \A i \in DOMAIN log :
    IF log[i].decision = "DENY"
    THEN \/ (\E e \in events : Reports(i) = {e}) /\ i \notin lost /\ Reporters(i) = {}
         \/ Reports(i) = {} /\ i \in lost /\ Reporters(i) = {}
         \/ Reports(i) = {} /\ i \notin lost /\ \E c \in Client : Reporters(i) = {c}
    ELSE Reports(i) = {} /\ i \notin lost /\ Reporters(i) = {}

\* The log implements the abstract ledger: every step of the service is one of
\* the ledger's or changes nothing there.
Ledger == INSTANCE ActionLedger
            WITH ledger <- log, Agent <- Name, Approver <- Name \ {Blank}, Nobody <- NoOne

ImplementsLedger == Ledger!Spec

\* An admitted decision takes effect unless its thread dies.
AdmittedIsSettled ==
  \A i \in ActionId, k \in 0..MaxFailures :
    (failures = k /\ \E c \in Client : job[c].do = "commit" /\ job[c].resolution.id = i)
      ~> (failures > k \/ (i \in DOMAIN log /\ log[i].result \in Resolved))

\* "409 if not pending" (docs/AGENT_SECURITY.md): once settled, a row stays as
\* it is.  Two requests that both read it as pending break this.
SettledOnce ==
  [][\A i \in DOMAIN log : log[i].result \in Resolved => log'[i] = log[i]]_vars
=============================================================================
