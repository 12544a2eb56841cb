------------------------ MODULE AgentApproval_proofs ------------------------
(***************************************************************************)
(* Proofs about the policy decision and the agent action log, for any      *)
(* number of request threads, any policy files, any spelling of names, and *)
(* any bounds.                                                             *)
(***************************************************************************)
EXTENDS AgentApproval, Integers, FiniteSetTheorems, SequenceTheorems, TLAPS

-----------------------------------------------------------------------------
(* The policy decision                                                     *)

\* evaluate always returns one of the verdicts it documents.
THEOREM VerdictType ==
  ASSUME NEW p \in Profile, NEW q \in Request
  PROVE  Evaluate(p, q) \in Verdict
  BY DEF Evaluate, Strictest, Deny, Verdict, Decision, Code, OutOfBoundsCode

LEMMA MatchedIsDecision ==
  ASSUME NEW p \in Profile, NEW tool, NEW action
  PROVE  Matched(p, tool, action) \subseteq Decision
  BY DEF Matched, Profile, Rule

\* Least privilege: whatever is not denied was asked for by a non-empty name
\* without a wildcard, of a tool and a source registered to the agent, under a rule
\* that says so.  Rules 1-3 and 5 of proxy/agent_policy.py.
THEOREM NothingByDefault ==
  ASSUME NEW p \in Profile, NEW q \in Request, Evaluate(p, q).decision # "DENY"
  PROVE  /\ Blank \notin {canon[q.tool], canon[q.action]}
         /\ {canon[q.tool], canon[q.action]} \cap Wild = {}
         /\ canon[q.tool] \in p.tools
         /\ SourceRegistered(p, q)
         /\ \E r \in p.rules : /\ r.tool = canon[q.tool]
                               /\ r.action \in {canon[q.action], Star}
                               /\ r.decision = Evaluate(p, q).decision
<1> DEFINE matched == Matched(p, canon[q.tool], canon[q.action])
<1>1. /\ Blank \notin {canon[q.tool], canon[q.action]}
      /\ {canon[q.tool], canon[q.action]} \cap Wild = {}
      /\ canon[q.tool] \in p.tools
      /\ SourceRegistered(p, q)
      /\ Evaluate(p, q) = Strictest(matched)
  BY DEF Evaluate, Deny
<1>2. Evaluate(p, q).decision \in matched
  BY <1>1 DEF Strictest, Deny
<1> QED BY <1>1, <1>2 DEF Matched

\* The most restrictive rule that matches wins (rule 4): a matching DENY denies, and
\* a matching REQUIRE_APPROVAL is never overruled by an ALLOW.
THEOREM StrictestWins ==
  ASSUME NEW p \in Profile, NEW q \in Request, NEW r \in p.rules,
         r.tool = canon[q.tool], r.action \in {canon[q.action], Star}
  PROVE  /\ r.decision = "DENY" => Evaluate(p, q).decision = "DENY"
         /\ r.decision = "REQUIRE_APPROVAL" => Evaluate(p, q).decision # "ALLOW"
<1>1. r.decision \in Matched(p, canon[q.tool], canon[q.action])
  BY DEF Matched
<1> QED BY <1>1 DEF Evaluate, Strictest, Deny

\* Two requests that differ in spelling only get the same verdict, so a name cannot
\* be respelled to get past a rule.
THEOREM SpellingIsIrrelevant ==
  ASSUME NEW p \in Profile, NEW q1 \in Request, NEW q2 \in Request,
         canon[q1.tool] = canon[q2.tool], canon[q1.action] = canon[q2.action],
         (q1.source = NoSource) <=> (q2.source = NoSource),
         q1.source # NoSource => canon[q1.source] = canon[q2.source]
  PROVE  Evaluate(p, q1) = Evaluate(p, q2)
  BY DEF Evaluate, SourceRegistered

Permissiveness == [DENY |-> 0, REQUIRE_APPROVAL |-> 1, ALLOW |-> 2]

\* Adding a rule to a profile loosens a verdict only where nothing matched before:
\* once some rule matches a request, more rules can only make it stricter.
THEOREM MoreRulesAreStricter ==
  ASSUME NEW p \in Profile, NEW r \in Rule, NEW q \in Request,
         Evaluate(p, q).code # "default_deny"
  PROVE  Permissiveness[Evaluate([p EXCEPT !.rules = @ \cup {r}], q).decision]
           <= Permissiveness[Evaluate(p, q).decision]
<1> DEFINE tool   == canon[q.tool]
           action == canon[q.action]
           wider  == [p EXCEPT !.rules = @ \cup {r}]
<1>1. /\ wider.tools = p.tools /\ wider.sources = p.sources
      /\ wider.rules = p.rules \cup {r}
  BY DEF Profile
<1>2. Matched(p, tool, action) \subseteq Matched(wider, tool, action)
  BY <1>1 DEF Matched
<1>3. Matched(wider, tool, action) \subseteq Decision
  <2>1. wider \in Profile
    BY DEF Profile
  <2> QED BY <2>1, MatchedIsDecision
<1>4. CASE Evaluate(p, q) = Strictest(Matched(p, tool, action))
  <2>1. Matched(p, tool, action) \cap Decision # {}
    BY <1>4 DEF Strictest, Decision, Deny
  <2>2. Permissiveness[Strictest(Matched(wider, tool, action)).decision]
          <= Permissiveness[Strictest(Matched(p, tool, action)).decision]
    BY <1>2, <2>1 DEF Strictest, Decision, Deny, Permissiveness
  <2>3. Evaluate(wider, q) \in {Strictest(Matched(wider, tool, action)), Evaluate(p, q)}
    BY <1>1 DEF Evaluate, SourceRegistered
  <2>4. Evaluate(p, q).decision \in Decision
    BY VerdictType DEF Verdict
  <2> QED BY <1>4, <2>2, <2>3, <2>4 DEF Permissiveness, Decision
<1>5. CASE Evaluate(p, q) # Strictest(Matched(p, tool, action))
  <2>1. Evaluate(wider, q) = Evaluate(p, q)
    BY <1>1, <1>5 DEF Evaluate, SourceRegistered
  <2>2. Evaluate(p, q).decision \in Decision
    BY VerdictType DEF Verdict
  <2> QED BY <2>1, <2>2 DEF Permissiveness, Decision
<1> QED BY <1>4, <1>5

-----------------------------------------------------------------------------
(* What the helpers return                                                 *)

USE ApprovalAssumption, NameAssumption, EventSettings

LEMMA EvaluationTypes ==
  ASSUME NEW p \in Profile, NEW q \in Request, NEW i \in ActionId
  PROVE  /\ NewRow(p, Evaluate(p, q)) \in Row
         /\ AfterEvaluation(i, Evaluate(p, q)) \in Job
<1>1. Evaluate(p, q) \in Verdict
  BY VerdictType
<1>2. NewRow(p, Evaluate(p, q)) \in Row
  BY <1>1 DEF NewRow, Row, Profile, Verdict, Decision, ResultByDecision
<1>3. DenialEvent(i, Evaluate(p, q).code) \in Event
  BY <1>1 DEF DenialEvent, Event, Verdict, Severity
<1> QED BY <1>2, <1>3 DEF AfterEvaluation, Job

LEMMA RefusalTypes ==
  ASSUME NEW row \in Row, NEW approver \in Approvers, NEW i \in ActionId,
         Suspicious(row, Refusal(row, approver))
  PROVE  /\ BypassEvent(i, Refusal(row, approver)) \in Event
         /\ BypassEvent(i, Refusal(row, approver)).code \notin Code
<1>1. Refusal(row, approver) \in {"not_pending", "self_approval_forbidden"}
  BY DEF Suspicious
<1> QED BY <1>1 DEF BypassEvent, Event, Severity, Code, OutOfBoundsCode

\* What a job is follows from what it has to do.
LEMMA JobShape ==
  ASSUME NEW j \in Job
  PROVE  /\ j.do = "commit" => j.resolution \in Resolution /\ j = Commit(j.resolution)
         /\ j.do = "emit" => j.event \in Event /\ j = Emit(j.event)
         /\ j.do \notin {"commit", "emit"} => j = Idle
         /\ Idle.do = "idle"
  BY DEF Job, Idle, Emit, Commit

LEMMA WriteType ==
  ASSUME NEW rows \in Seq(Row), NEW r \in Resolution, r.id \in DOMAIN rows
  PROVE  /\ WriteResolution(rows, r) \in Seq(Row)
         /\ DOMAIN WriteResolution(rows, r) = DOMAIN rows
         /\ Len(WriteResolution(rows, r)) = Len(rows)
         /\ \A i \in DOMAIN rows :
              WriteResolution(rows, r)[i] =
                IF i = r.id THEN [rows[i] EXCEPT !.result = r.result, !.by = r.who]
                ELSE rows[i]
<1> DEFINE new == [rows[r.id] EXCEPT !.result = r.result, !.by = r.who]
<1>1. r.id \in 1..Len(rows) /\ DOMAIN rows = 1..Len(rows) /\ rows[r.id] \in Row
  OBVIOUS
<1>2. new \in Row
  BY <1>1 DEF Row, Resolution
<1>3. WriteResolution(rows, r) = [rows EXCEPT ![r.id] = new]
  BY DEF WriteResolution
<1> HIDE DEF new
<1>4. /\ [rows EXCEPT ![r.id] = new] \in Seq(Row)
      /\ DOMAIN [rows EXCEPT ![r.id] = new] = DOMAIN rows
      /\ Len([rows EXCEPT ![r.id] = new]) = Len(rows)
      /\ \A i \in 1..Len(rows) :
           [rows EXCEPT ![r.id] = new][i] = IF i = r.id THEN new ELSE rows[i]
  BY <1>1, <1>2, ExceptSeq
<1> QED BY <1>1, <1>3, <1>4 DEF new

LEMMA AppendType ==
  ASSUME NEW rows \in Seq(Row), NEW row \in Row
  PROVE  /\ Append(rows, row) \in Seq(Row)
         /\ Len(Append(rows, row)) = Len(rows) + 1
         /\ DOMAIN Append(rows, row) = DOMAIN rows \cup {Len(rows) + 1}
         /\ Len(rows) + 1 \notin DOMAIN rows
         /\ \A i \in DOMAIN rows : Append(rows, row)[i] = rows[i]
         /\ Append(rows, row)[Len(rows) + 1] = row
  OBVIOUS

-----------------------------------------------------------------------------
(* Type correctness                                                        *)

\* What an admitted request has checked stays true until it writes: its row exists,
\* was sent to approval, and was asked for by somebody else.
JobsJustified ==
  \A c \in Client :
    job[c].do = "commit" =>
      /\ job[c].resolution.id \in DOMAIN log
      /\ log[job[c].resolution.id].decision = "REQUIRE_APPROVAL"
      /\ job[c].resolution.who \notin {log[job[c].resolution.id].agent, Blank}

\* TypeOK is not inductive by itself: the write of a resolution keeps the log a
\* sequence only because the row it goes to exists.
TypeInv == TypeOK /\ JobsJustified /\ SeparationOfDuty

LEMMA EvaluateStep ==
  ASSUME TypeInv, NEW c \in Client, NEW agent \in RawName, NEW q \in Requests,
         EvaluateAndRecord(c, agent, q)
  PROVE  TypeInv'
<1> USE DEF TypeInv
<1>1. PICK p \in config :
        /\ p \in Profile
        /\ log' = Append(log, NewRow(p, Evaluate(p, q)))
        /\ job' = [job EXCEPT ![c] = AfterEvaluation(Len(log) + 1, Evaluate(p, q))]
  BY DEF EvaluateAndRecord, TypeOK
<1> DEFINE v == Evaluate(p, q)
<1>2. Len(log) + 1 \in ActionId /\ Len(log) + 1 <= MaxActions
  BY DEF TypeOK, ActionId, EvaluateAndRecord
<1>3. /\ NewRow(p, v) \in Row
      /\ AfterEvaluation(Len(log) + 1, v) \in Job
  BY <1>1, <1>2, EvaluationTypes
<1>4. /\ log' \in Seq(Row) /\ Len(log') = Len(log) + 1
      /\ DOMAIN log' = DOMAIN log \cup {Len(log) + 1}
      /\ \A i \in DOMAIN log : log'[i] = log[i]
      /\ log'[Len(log) + 1] = NewRow(p, v)
  BY <1>1, <1>3, AppendType DEF TypeOK
<1>5. TypeOK'
  BY <1>1, <1>2, <1>3, <1>4 DEF TypeOK, EvaluateAndRecord
<1>6. JobsJustified'
  <2>1. AfterEvaluation(Len(log) + 1, v).do # "commit"
    BY DEF AfterEvaluation, Emit, Idle
  <2>2. \A d \in Client : job'[d].do = "commit" => job'[d] = job[d]
    BY <1>1, <2>1 DEF TypeOK
  <2> QED BY <1>4, <2>2 DEF JobsJustified
<1>7. SeparationOfDuty'
  <2>1. /\ NewRow(p, v).result \notin Resolved
        /\ NewRow(p, v).result = ResultByDecision[NewRow(p, v).decision]
        /\ NewRow(p, v).by = NoOne
    <3>1. v.decision \in Decision
      BY <1>1, VerdictType DEF Verdict
    <3> QED BY <3>1 DEF NewRow, Resolved, ResultByDecision, Decision
  <2> QED BY <1>4, <2>1 DEF SeparationOfDuty
<1> QED BY <1>5, <1>6, <1>7

LEMMA AdmitStep ==
  ASSUME TypeInv, NEW c \in Client, NEW i \in DOMAIN log, NEW approver \in Approvers,
         NEW result \in Resolved, ReadAndAdmit(c, i, approver, result)
  PROVE  TypeInv'
<1> USE DEF TypeInv
<1> DEFINE r == [id |-> i, who |-> canon[approver], result |-> result]
<1>1. /\ log[i] \in Row /\ i \in ActionId
      /\ log[i].result = "pending_approval"
      /\ canon[approver] \notin {log[i].agent, Blank}
  BY DEF TypeOK, ActionId, ReadAndAdmit, Refusal
<1>2. r \in Resolution /\ Commit(r) \in Job
  BY <1>1 DEF Resolution, Job
<1>3. TypeOK'
  BY <1>2 DEF TypeOK, ReadAndAdmit
<1>4. JobsJustified'
  <2>1. log[i].decision = "REQUIRE_APPROVAL"
    BY <1>1 DEF SeparationOfDuty, Resolved, ResultByDecision, Row, Decision
  <2>2. job' = [job EXCEPT ![c] = Commit(r)] /\ log' = log
    BY DEF ReadAndAdmit
  <2>3. Commit(r).resolution = r
    BY DEF Commit
  <2> QED BY <1>1, <2>1, <2>2, <2>3 DEF JobsJustified, TypeOK
<1>5. SeparationOfDuty'
  BY DEF SeparationOfDuty, ReadAndAdmit
<1> QED BY <1>3, <1>4, <1>5

LEMMA RefuseStep ==
  ASSUME TypeInv, NEW c \in Client, NEW i \in DOMAIN log, NEW approver \in Approvers,
         ReadAndRefuse(c, i, approver)
  PROVE  TypeInv'
<1> USE DEF TypeInv
<1> DEFINE e == BypassEvent(i, Refusal(log[i], approver))
<1>1. log[i] \in Row /\ i \in ActionId
  BY DEF TypeOK, ActionId
<1>2. e \in Event
  BY <1>1, RefusalTypes DEF ReadAndRefuse
<1>3. Emit(e) \in Job
  BY <1>2 DEF Job
<1>4. job' = [job EXCEPT ![c] = Emit(e)] /\ log' = log
  BY DEF ReadAndRefuse
<1>5. TypeOK'
  BY <1>3, <1>4 DEF TypeOK, ReadAndRefuse
<1>6. JobsJustified'
  <2>1. Emit(e).do # "commit"
    BY DEF Emit
  <2> QED BY <1>4, <2>1 DEF JobsJustified, TypeOK
<1>7. SeparationOfDuty'
  BY <1>4 DEF SeparationOfDuty
<1> QED BY <1>5, <1>6, <1>7

\* The row a resolution is written to, before and after.
LEMMA CommitEffect ==
  ASSUME TypeInv, NEW c \in Client, CommitResolution(c)
  PROVE  /\ job[c].resolution \in Resolution
         /\ job[c] = Commit(job[c].resolution)
         /\ job[c].resolution.id \in DOMAIN log
         /\ log' \in Seq(Row) /\ Len(log') = Len(log) /\ DOMAIN log' = DOMAIN log
         /\ \A i \in DOMAIN log :
              log'[i] = IF i = job[c].resolution.id
                        THEN [log[i] EXCEPT !.result = job[c].resolution.result,
                                            !.by = job[c].resolution.who]
                        ELSE log[i]
<1>1. job[c] \in Job /\ job[c].do = "commit" /\ log \in Seq(Row)
  BY DEF TypeInv, TypeOK, CommitResolution
<1>2. /\ job[c].resolution \in Resolution
      /\ job[c] = Commit(job[c].resolution)
      /\ job[c].resolution.id \in DOMAIN log
  BY <1>1, JobShape DEF TypeInv, JobsJustified
<1>3. log' = WriteResolution(log, job[c].resolution)
  BY DEF CommitResolution
<1> HIDE DEF WriteResolution
<1>4. /\ WriteResolution(log, job[c].resolution) \in Seq(Row)
      /\ DOMAIN WriteResolution(log, job[c].resolution) = DOMAIN log
      /\ Len(WriteResolution(log, job[c].resolution)) = Len(log)
      /\ \A i \in DOMAIN log :
           WriteResolution(log, job[c].resolution)[i] =
             IF i = job[c].resolution.id
             THEN [log[i] EXCEPT !.result = job[c].resolution.result,
                                 !.by = job[c].resolution.who]
             ELSE log[i]
  BY <1>1, <1>2, WriteType
<1> QED BY <1>2, <1>3, <1>4

LEMMA CommitStep ==
  ASSUME TypeInv, NEW c \in Client, CommitResolution(c)
  PROVE  TypeInv'
<1> DEFINE r == job[c].resolution
<1>1. /\ r \in Resolution /\ r.id \in DOMAIN log
      /\ log' \in Seq(Row) /\ Len(log') = Len(log) /\ DOMAIN log' = DOMAIN log
      /\ \A i \in DOMAIN log :
           log'[i] = IF i = r.id THEN [log[i] EXCEPT !.result = r.result, !.by = r.who]
                     ELSE log[i]
  BY CommitEffect
<1>2. /\ log[r.id].decision = "REQUIRE_APPROVAL"
      /\ r.who \notin {log[r.id].agent, Blank, NoOne}
      /\ r.result \in Resolved
  BY <1>1 DEF TypeInv, JobsJustified, CommitResolution, Resolution
<1>3. \A i \in DOMAIN log :
        /\ log[i] \in Row
        /\ log'[i].agent = log[i].agent
        /\ log'[i].decision = log[i].decision
        /\ log'[i].result = IF i = r.id THEN r.result ELSE log[i].result
        /\ log'[i].by = IF i = r.id THEN r.who ELSE log[i].by
  <2> SUFFICES ASSUME NEW i \in DOMAIN log
               PROVE  /\ log[i] \in Row
                      /\ log'[i].agent = log[i].agent
                      /\ log'[i].decision = log[i].decision
                      /\ log'[i].result = IF i = r.id THEN r.result ELSE log[i].result
                      /\ log'[i].by = IF i = r.id THEN r.who ELSE log[i].by
    OBVIOUS
  <2>1. log[i] \in Row
    BY DEF TypeInv, TypeOK
  <2> QED BY <1>1, <2>1 DEF Row
<1>4. TypeOK'
  <2>1. Len(log') <= MaxActions
    BY <1>1 DEF TypeInv, TypeOK
  <2>2. commits' \in [ActionId -> Nat]
    <3>1. commits \in [ActionId -> Nat] /\ r.id \in ActionId
      BY <1>1 DEF TypeInv, TypeOK, Resolution
    <3> QED BY <3>1 DEF CommitResolution
  <2>3. job' \in [Client -> Job]
    BY DEF TypeInv, TypeOK, CommitResolution, Job
  <2> QED BY <1>1, <2>1, <2>2, <2>3 DEF TypeInv, TypeOK, CommitResolution
<1>5. JobsJustified'
  <2> SUFFICES ASSUME NEW d \in Client, job'[d].do = "commit"
               PROVE  /\ job'[d].resolution.id \in DOMAIN log'
                      /\ log'[job'[d].resolution.id].decision = "REQUIRE_APPROVAL"
                      /\ job'[d].resolution.who
                           \notin {log'[job'[d].resolution.id].agent, Blank}
    BY DEF JobsJustified
  <2>1. job'[d] = job[d]
    BY DEF TypeInv, TypeOK, CommitResolution, Idle
  <2>2. /\ job[d].resolution.id \in DOMAIN log
        /\ log[job[d].resolution.id].decision = "REQUIRE_APPROVAL"
        /\ job[d].resolution.who \notin {log[job[d].resolution.id].agent, Blank}
    BY <2>1 DEF TypeInv, JobsJustified
  <2>3. /\ log'[job[d].resolution.id].decision = log[job[d].resolution.id].decision
        /\ log'[job[d].resolution.id].agent = log[job[d].resolution.id].agent
    BY <1>3, <2>2
  <2>4. DOMAIN log' = DOMAIN log
    BY <1>1
  <2> QED BY <2>1, <2>2, <2>3, <2>4
<1>6. SeparationOfDuty'
  <2> SUFFICES ASSUME NEW i \in DOMAIN log'
               PROVE  /\ log'[i].result \in Resolved =>
                           /\ log'[i].decision = "REQUIRE_APPROVAL"
                           /\ log'[i].by \notin {log'[i].agent, Blank, NoOne}
                      /\ log'[i].result \notin Resolved =>
                           /\ log'[i].result = ResultByDecision[log'[i].decision]
                           /\ log'[i].by = NoOne
    BY DEF SeparationOfDuty
  <2>1. CASE i = r.id
    BY <1>1, <1>2, <1>3, <2>1
  <2>2. CASE i # r.id
    BY <1>1, <1>3, <2>2 DEF TypeInv, SeparationOfDuty
  <2> QED BY <2>1, <2>2
<1> QED BY <1>4, <1>5, <1>6 DEF TypeInv

LEMMA EmitStep ==
  ASSUME TypeInv, NEW c \in Client, EmitEvent(c)
  PROVE  TypeInv'
<1> USE DEF TypeInv
<1>1. job[c] \in Job /\ job[c].do = "emit" /\ job[c].event \in Event
  BY JobShape DEF TypeOK, EmitEvent
<1>2. events' \subseteq Event
  BY <1>1 DEF TypeOK, EmitEvent, AfterRecording
<1>3. lost' \subseteq ActionId
  BY <1>1 DEF TypeOK, EmitEvent, Unreported, Event
<1>4. TypeOK'
  BY <1>2, <1>3 DEF TypeOK, EmitEvent, Job
<1>5. JobsJustified' /\ SeparationOfDuty'
  BY DEF TypeOK, JobsJustified, SeparationOfDuty, EmitEvent, Idle
<1> QED BY <1>4, <1>5

LEMMA DieStep ==
  ASSUME TypeInv, NEW c \in Client, Die(c)
  PROVE  TypeInv'
<1> USE DEF TypeInv
<1>1. job[c] \in Job /\ (job[c].do = "emit" => job[c].event \in Event)
  BY JobShape DEF TypeOK
<1>2. lost' \subseteq ActionId
  BY <1>1 DEF TypeOK, Die, Unreported, Event
<1>3. TypeOK'
  BY <1>2 DEF TypeOK, Die, Job
<1>4. JobsJustified' /\ SeparationOfDuty'
  BY DEF TypeOK, JobsJustified, SeparationOfDuty, Die, Idle
<1> QED BY <1>3, <1>4

LEMMA ReconfigureStep ==
  ASSUME TypeInv, Reconfigure
  PROVE  TypeInv'
  BY DEF TypeInv, TypeOK, JobsJustified, SeparationOfDuty, Reconfigure

LEMMA TypeInvInit == Init => TypeInv
  BY DEF Init, TypeInv, TypeOK, JobsJustified, SeparationOfDuty, Job, Idle

LEMMA TypeInvNext == TypeInv /\ [Next]_vars => TypeInv'
<1> SUFFICES ASSUME TypeInv, [Next]_vars PROVE TypeInv'
  OBVIOUS
<1>1. CASE Reconfigure
  BY <1>1, ReconfigureStep
<1>2. ASSUME NEW c \in Client, NEW agent \in RawName, NEW q \in Requests,
             EvaluateAndRecord(c, agent, q)
      PROVE  TypeInv'
  BY <1>2, EvaluateStep
<1>3. ASSUME NEW c \in Client, NEW i \in DOMAIN log, NEW approver \in Approvers,
             NEW result \in Resolved, ReadAndAdmit(c, i, approver, result)
      PROVE  TypeInv'
  BY <1>3, AdmitStep
<1>4. ASSUME NEW c \in Client, NEW i \in DOMAIN log, NEW approver \in Approvers,
             ReadAndRefuse(c, i, approver)
      PROVE  TypeInv'
  BY <1>4, RefuseStep
<1>5. ASSUME NEW c \in Client, CommitResolution(c) PROVE TypeInv'
  BY <1>5, CommitStep
<1>6. ASSUME NEW c \in Client, EmitEvent(c) PROVE TypeInv'
  BY <1>6, EmitStep
<1>7. ASSUME NEW c \in Client, Die(c) PROVE TypeInv'
  BY <1>7, DieStep
<1>8. CASE UNCHANGED vars
  BY <1>8 DEF vars, TypeInv, TypeOK, JobsJustified, SeparationOfDuty
<1> QED BY <1>1, <1>2, <1>3, <1>4, <1>5, <1>6, <1>7, <1>8 DEF Next

LEMMA TypeInvAlways == Spec => []TypeInv
  BY TypeInvInit, TypeInvNext, PTL DEF Spec

\* The tables and the threads always hold what they may hold.
THEOREM TypeCorrect == Spec => []TypeOK
<1>1. TypeInv => TypeOK
  BY DEF TypeInv
<1> QED BY <1>1, TypeInvAlways, PTL

\* Only an action that was sent to approval is ever settled, and only by a named
\* person who did not ask for it.
THEOREM DutiesSeparated == Spec => []SeparationOfDuty
<1>1. TypeInv => SeparationOfDuty
  BY DEF TypeInv
<1> QED BY <1>1, TypeInvAlways, PTL

-----------------------------------------------------------------------------
(* What an action of the service may do to the log                         *)

\* No step but an evaluation and a commit touches the log.
LEMMA LogSteps ==
  ASSUME TypeInv, [Next]_vars
  PROVE  \/ log' = log
         \/ \E p \in Profile, d \in Decision :
              log' = Append(log, [agent |-> p.agent, decision |-> d,
                                  result |-> ResultByDecision[d], by |-> NoOne])
         \/ \E c \in Client : CommitResolution(c)
<1>1. ASSUME NEW c \in Client, NEW agent \in RawName, NEW q \in Requests,
             EvaluateAndRecord(c, agent, q)
      PROVE  \E p \in Profile, d \in Decision :
               log' = Append(log, [agent |-> p.agent, decision |-> d,
                                   result |-> ResultByDecision[d], by |-> NoOne])
  <2>1. PICK p \in config : /\ p \in Profile
                            /\ log' = Append(log, NewRow(p, Evaluate(p, q)))
    BY <1>1 DEF EvaluateAndRecord, TypeInv, TypeOK
  <2>2. Evaluate(p, q).decision \in Decision
    BY <2>1, VerdictType DEF Verdict
  <2> QED BY <2>1, <2>2 DEF NewRow
<1>2. (\A c \in Client : ~CommitResolution(c))
      /\ (\A c \in Client, agent \in RawName, q \in Requests : ~EvaluateAndRecord(c, agent, q))
      => log' = log
  BY DEF Next, vars, Reconfigure, ReadAndAdmit, ReadAndRefuse, EmitEvent, Die
<1> QED BY <1>1, <1>2

\* The name and the answer in a settled row always come from one and the same
\* admitted request.
THEOREM Attributed == Spec => ResolutionAttributed
<1> DEFINE Attributable(i) ==
      log'[i] # log[i] =>
        \E c \in Client :
          /\ job[c] = Commit([id |-> i, who |-> log'[i].by, result |-> log'[i].result])
          /\ job'[c] = Idle
<1>1. ASSUME TypeInv, [Next]_vars, NEW i \in DOMAIN log
      PROVE  Attributable(i)
  <2>1. CASE log' = log
    BY <2>1
  <2>2. ASSUME NEW p \in Profile, NEW d \in Decision,
               log' = Append(log, [agent |-> p.agent, decision |-> d,
                                   result |-> ResultByDecision[d], by |-> NoOne])
        PROVE  log'[i] = log[i]
    BY <1>1, <2>2 DEF TypeInv, TypeOK
  <2>3. ASSUME NEW c \in Client, CommitResolution(c)
        PROVE  Attributable(i)
    <3> DEFINE r == job[c].resolution
    <3>1. /\ r \in Resolution /\ job[c] = Commit(r)
          /\ log'[i] = IF i = r.id THEN [log[i] EXCEPT !.result = r.result, !.by = r.who]
                       ELSE log[i]
      BY <1>1, <2>3, CommitEffect
    <3>2. log[i] \in Row
      BY <1>1 DEF TypeInv, TypeOK
    <3>3. job'[c] = Idle
      BY <1>1, <2>3 DEF CommitResolution, TypeInv, TypeOK
    <3>4. CASE i = r.id
      <4>1. log'[i].by = r.who /\ log'[i].result = r.result
        BY <3>1, <3>2, <3>4 DEF Row
      <4>2. r = [id |-> i, who |-> log'[i].by, result |-> log'[i].result]
        BY <3>1, <3>4, <4>1 DEF Resolution
      <4> QED BY <3>1, <3>3, <4>2
    <3> QED BY <3>1, <3>4
  <2> QED BY <1>1, <2>1, <2>2, <2>3, LogSteps
<1>2. TypeInv /\ [Next]_vars => [\A i \in DOMAIN log : Attributable(i)]_vars
  BY <1>1
<1> QED BY <1>2, TypeInvAlways, PTL DEF Spec, ResolutionAttributed

-----------------------------------------------------------------------------
(* The log implements the ledger                                           *)

\* Every step of the service is a step of the abstract ledger or leaves it alone:
\* no interleaving makes the log do something the ledger does not allow.
THEOREM LedgerImplemented == Spec => ImplementsLedger
<1>1. Init => Ledger!Init
  BY DEF Init, Ledger!Init
<1>2. ASSUME TypeInv, [Next]_vars
      PROVE  [Ledger!Next]_log
  <2>1. ASSUME NEW p \in Profile, NEW d \in Decision,
               log' = Append(log, [agent |-> p.agent, decision |-> d,
                                   result |-> ResultByDecision[d], by |-> NoOne])
        PROVE  Ledger!Next
    <3>1. p.agent \in Name /\ d \in DOMAIN Ledger!Outcome
      BY DEF Profile, Decision, Ledger!Outcome
    <3>2. Ledger!Ask(p.agent, d)
      BY <2>1 DEF Ledger!Ask, Ledger!Outcome, ResultByDecision
    <3> QED BY <3>1, <3>2 DEF Ledger!Next
  <2>2. ASSUME NEW c \in Client, CommitResolution(c)
        PROVE  Ledger!Next
    <3> DEFINE r == job[c].resolution
    <3>1. r \in Resolution /\ r.id \in DOMAIN log
      BY <1>2, <2>2, CommitEffect
    <3>2. /\ log[r.id].decision = "REQUIRE_APPROVAL"
          /\ r.who \notin {log[r.id].agent, Blank}
      BY <1>2, <2>2, <3>1 DEF TypeInv, JobsJustified, CommitResolution
    <3>3. Ledger!Settle(r.id, r.who, r.result)
      BY <2>2, <3>2 DEF Ledger!Settle, CommitResolution, WriteResolution
    <3>4. r.who \in Name \ {Blank} /\ r.result \in Ledger!Settled
      BY <3>1, <3>2 DEF Resolution, Resolved, Ledger!Settled
    <3> QED BY <3>1, <3>3, <3>4 DEF Ledger!Next
  <2> QED BY <1>2, <2>1, <2>2, LogSteps
<1> QED BY <1>1, <1>2, TypeInvAlways, PTL DEF Spec, ImplementsLedger, Ledger!Spec

-----------------------------------------------------------------------------
(* Denials are accounted for, once                                         *)

\* A job that still has to report the denial of row i.
Owes(j, i) == j.do = "emit" /\ j.event.id = i /\ j.event.code \in Code

\* The three places the report of a denial can be in, and none of them.
Told(i) == (\E e \in events : Reports(i) = {e}) /\ i \notin lost /\ Reporters(i) = {}
Gone(i) == Reports(i) = {} /\ i \in lost /\ Reporters(i) = {}
InHand(i) == Reports(i) = {} /\ i \notin lost /\ \E c \in Client : Reporters(i) = {c}
Unheard(i) == Reports(i) = {} /\ i \notin lost /\ Reporters(i) = {}

Denied(i) == i \in DOMAIN log /\ log[i].decision = "DENY"

\* With what holds of the ids no row has yet, DenialsAccounted is inductive.
ReportsInv ==
  \A i \in ActionId : IF Denied(i) THEN Told(i) \/ Gone(i) \/ InHand(i) ELSE Unheard(i)

LEMMA ReportersAfter ==
  ASSUME TypeInv, NEW c \in Client, NEW j, job' = [job EXCEPT ![c] = j], NEW i
  PROVE  Reporters(i)' = IF Owes(j, i) THEN Reporters(i) \cup {c} ELSE Reporters(i) \ {c}
<1>1. job'[c] = j /\ \A d \in Client : d # c => job'[d] = job[d]
  BY DEF TypeInv, TypeOK
<1> QED BY <1>1 DEF Reporters, Owes

\* A thread that gives up nothing and takes nothing in hand.
LEMMA ReportersStay ==
  ASSUME TypeInv, NEW c \in Client, NEW j, job' = [job EXCEPT ![c] = j], NEW i,
         Owes(j, i) <=> Owes(job[c], i)
  PROVE  Reporters(i)' = Reporters(i)
<1>1. c \in Reporters(i) <=> Owes(job[c], i)
  BY DEF Reporters, Owes
<1>2. PICK R : R = Reporters(i)
  OBVIOUS
<1>3. Reporters(i)' = IF Owes(j, i) THEN R \cup {c} ELSE R \ {c}
  BY <1>2, ReportersAfter
<1> QED BY <1>1, <1>2, <1>3

LEMMA ReportUntouched ==
  ASSUME ReportsInv, NEW i \in ActionId, Denied(i)' <=> Denied(i), events \subseteq events',
         Reports(i)' = Reports(i), i \in lost' <=> i \in lost, Reporters(i)' = Reporters(i)
  PROVE  IF Denied(i)' THEN (Told(i) \/ Gone(i) \/ InHand(i))' ELSE Unheard(i)'
<1>1. CASE Denied(i)
  BY <1>1 DEF ReportsInv, Told, Gone, InHand
<1>2. CASE ~Denied(i)
  BY <1>2 DEF ReportsInv, Unheard
<1> QED BY <1>1, <1>2

\* A step that reports nothing and evaluates nothing.
LEMMA ReportsRest ==
  ASSUME TypeInv, ReportsInv, \A i \in ActionId : Denied(i)' <=> Denied(i), events' = events,
         lost' = lost, NEW c \in Client, NEW j, job' = [job EXCEPT ![c] = j],
         \A i \in ActionId : ~Owes(j, i) /\ ~Owes(job[c], i)
  PROVE  ReportsInv'
<1> SUFFICES ASSUME NEW i \in ActionId
             PROVE  IF Denied(i)' THEN (Told(i) \/ Gone(i) \/ InHand(i))' ELSE Unheard(i)'
  BY DEF ReportsInv
<1>1. Reports(i)' = Reports(i)
  BY DEF Reports
<1>2. Reporters(i)' = Reporters(i)
  BY ReportersStay
<1> QED BY <1>1, <1>2, ReportUntouched

\* An evaluation that denies takes the report of its row in hand.
LEMMA EvaluationAccounts ==
  ASSUME TypeInv, ReportsInv, NEW c \in Client, NEW agent \in RawName, NEW q \in Requests,
         EvaluateAndRecord(c, agent, q)
  PROVE  ReportsInv'
<1>1. PICK p \in config :
        /\ p \in Profile
        /\ log' = Append(log, NewRow(p, Evaluate(p, q)))
        /\ job' = [job EXCEPT ![c] = AfterEvaluation(Len(log) + 1, Evaluate(p, q))]
  BY DEF EvaluateAndRecord, TypeInv, TypeOK
<1>2. PICK v, n : v = Evaluate(p, q) /\ n = Len(log) + 1
  OBVIOUS
<1>3. v \in Verdict
  BY <1>1, <1>2, VerdictType DEF TypeInv, TypeOK
<1>4. /\ n \in ActionId /\ n \notin DOMAIN log /\ DOMAIN log' = DOMAIN log \cup {n}
      /\ log'[n].decision = v.decision /\ \A i \in DOMAIN log : log'[i] = log[i]
  <2>1. log \in Seq(Row) /\ Len(log) + 1 \in ActionId
    BY DEF TypeInv, TypeOK, ActionId, EvaluateAndRecord
  <2>2. NewRow(p, v) \in Row /\ NewRow(p, v).decision = v.decision
    BY <1>1, <1>2, <2>1, EvaluationTypes DEF NewRow
  <2> QED BY <1>1, <1>2, <2>1, <2>2, AppendType
<1>5. PICK j : j = AfterEvaluation(n, v)
  OBVIOUS
<1>6. job' = [job EXCEPT ![c] = j] /\ job[c] = Idle /\ events' = events /\ lost' = lost
  BY <1>1, <1>2, <1>5 DEF EvaluateAndRecord
<1>7. \A i \in ActionId : Owes(j, i) <=> i = n /\ v.decision = "DENY"
  <2>1. CASE v.decision = "DENY"
    <3>1. PICK e : e = DenialEvent(n, v.code)
      OBVIOUS
    <3>2. e.id = n /\ e.code \in Code /\ j = Emit(e)
      BY <1>3, <1>5, <2>1, <3>1 DEF DenialEvent, Verdict, AfterEvaluation
    <3> QED BY <2>1, <3>2 DEF Owes, Emit
  <2>2. CASE v.decision # "DENY"
    BY <1>5, <2>2 DEF AfterEvaluation, Owes, Idle
  <2> QED BY <2>1, <2>2
<1>8. \A i : ~Owes(job[c], i)
  BY <1>6 DEF Owes, Idle
<1> SUFFICES ASSUME NEW i \in ActionId
             PROVE  IF Denied(i)' THEN (Told(i) \/ Gone(i) \/ InHand(i))' ELSE Unheard(i)'
  BY DEF ReportsInv
<1>9. Reports(i)' = Reports(i)
  BY <1>6 DEF Reports
<1>10. CASE i = n /\ v.decision = "DENY"
  <2>1. Unheard(i) /\ Denied(i)'
    BY <1>4, <1>10 DEF ReportsInv, Denied
  <2>2. Reporters(i)' = Reporters(i) \cup {c}
    BY <1>6, <1>7, <1>10, ReportersAfter
  <2> QED BY <1>6, <1>9, <2>1, <2>2 DEF Unheard, InHand
<1>11. CASE ~(i = n /\ v.decision = "DENY")
  <2>1. Reporters(i)' = Reporters(i)
    BY <1>6, <1>7, <1>8, <1>11, ReportersStay
  <2>2. Denied(i)' <=> Denied(i)
    BY <1>4, <1>11 DEF Denied
  <2> QED BY <1>6, <1>9, <2>1, <2>2, ReportUntouched
<1> QED BY <1>10, <1>11

\* A report that ends, written or not, or with its thread.
LEMMA EndAccounts ==
  ASSUME TypeInv, ReportsInv, NEW c \in Client, EmitEvent(c) \/ Die(c)
  PROVE  ReportsInv'
<1>0. \A i \in ActionId : Owes(job[c], i) => job[c].event \notin events
  <2> SUFFICES ASSUME NEW i \in ActionId, Owes(job[c], i), job[c].event \in events PROVE FALSE
    OBVIOUS
  <2>1. c \in Reporters(i) /\ job[c].event \in Reports(i)
    BY DEF Owes, Reporters, Reports
  <2> QED BY <2>1 DEF ReportsInv, Unheard, Told, Gone, InHand
<1>1. /\ job' = [job EXCEPT ![c] = Idle] /\ UNCHANGED log /\ events \subseteq events'
      /\ \A e \in events' \ events : job[c].do = "emit" /\ e = job[c].event
      /\ \A i \in ActionId :
           i \in lost' <=> i \in lost \/ (Owes(job[c], i) /\ job[c].event \notin events')
  <2>1. CASE EmitEvent(c)
    BY <2>1 DEF EmitEvent, AfterRecording, Unreported, Owes
  <2>2. CASE Die(c)
    BY <1>0, <2>2 DEF Die, Unreported, Owes
  <2> QED BY <2>1, <2>2
<1>2. \A i : ~Owes(Idle, i)
  BY DEF Owes, Idle
<1> SUFFICES ASSUME NEW i \in ActionId
             PROVE  IF Denied(i)' THEN (Told(i) \/ Gone(i) \/ InHand(i))' ELSE Unheard(i)'
  BY DEF ReportsInv
<1>3. Denied(i)' <=> Denied(i)
  BY <1>1 DEF Denied
<1>4. CASE Owes(job[c], i)
  <2>1. c \in Reporters(i)
    BY <1>4 DEF Owes, Reporters
  <2>2. Reporters(i)' = Reporters(i) \ {c}
    BY <1>1, <1>2, ReportersAfter
  <2>3. Denied(i) /\ InHand(i) /\ Reporters(i) = {c}
    BY <2>1 DEF ReportsInv, Unheard, Told, Gone, InHand
  <2>4. PICK e : e = job[c].event /\ e.id = i /\ e.code \in Code
    BY <1>4 DEF Owes
  <2>5. CASE e \in events'
    <3>1. Reports(i)' = {e}
      BY <1>1, <2>3, <2>4, <2>5 DEF Reports, InHand
    <3> QED BY <1>1, <1>3, <2>2, <2>3, <2>4, <2>5, <3>1 DEF Told, InHand
  <2>6. CASE e \notin events'
    <3>1. Reports(i)' = {}
      BY <1>1, <2>3, <2>4, <2>6 DEF Reports, InHand
    <3> QED BY <1>1, <1>3, <1>4, <2>2, <2>3, <2>4, <2>6, <3>1 DEF Gone
  <2> QED BY <2>5, <2>6
<1>5. CASE ~Owes(job[c], i)
  <2>1. Reporters(i)' = Reporters(i)
    BY <1>1, <1>2, <1>5, ReportersStay
  <2>2. Reports(i)' = Reports(i)
    BY <1>1, <1>5 DEF Reports, Owes
  <2> QED BY <1>1, <1>3, <1>5, <2>1, <2>2, ReportUntouched
<1> QED BY <1>4, <1>5

LEMMA ReportsKept == TypeInv /\ ReportsInv /\ [Next]_vars => ReportsInv'
<1> SUFFICES ASSUME TypeInv, ReportsInv, [Next]_vars PROVE ReportsInv'
  OBVIOUS
<1>1. ASSUME NEW c \in Client, NEW agent \in RawName, NEW q \in Requests,
             EvaluateAndRecord(c, agent, q)
      PROVE  ReportsInv'
  BY <1>1, EvaluationAccounts
<1>2. ASSUME NEW c \in Client, NEW i \in DOMAIN log, NEW approver \in Approvers,
             NEW result \in Resolved, ReadAndAdmit(c, i, approver, result)
      PROVE  ReportsInv'
  <2>1. PICK j : j.do = "commit" /\ job' = [job EXCEPT ![c] = j]
    BY <1>2 DEF ReadAndAdmit, Commit
  <2>2. \A k \in ActionId : ~Owes(j, k) /\ ~Owes(job[c], k)
    BY <1>2, <2>1 DEF Owes, ReadAndAdmit, Idle
  <2>3. UNCHANGED <<log, events, lost>>
    BY <1>2 DEF ReadAndAdmit
  <2>4. \A k \in ActionId : Denied(k)' <=> Denied(k)
    BY <2>3 DEF Denied
  <2> QED BY <2>1, <2>2, <2>3, <2>4, ReportsRest
<1>3. ASSUME NEW c \in Client, NEW i \in DOMAIN log, NEW approver \in Approvers,
             ReadAndRefuse(c, i, approver)
      PROVE  ReportsInv'
  <2>e. PICK e : e = BypassEvent(i, Refusal(log[i], approver))
    OBVIOUS
  <2>1. /\ e.code \in {"not_pending", "self_approval_forbidden"}
        /\ job' = [job EXCEPT ![c] = Emit(e)]
    BY <1>3, <2>e DEF ReadAndRefuse, BypassEvent, Suspicious
  <2>2. \A k \in ActionId : ~Owes(Emit(e), k) /\ ~Owes(job[c], k)
    BY <1>3, <2>1 DEF Owes, ReadAndRefuse, Idle, Emit, Code, OutOfBoundsCode
  <2>3. UNCHANGED <<log, events, lost>>
    BY <1>3 DEF ReadAndRefuse
  <2>4. \A k \in ActionId : Denied(k)' <=> Denied(k)
    BY <2>3 DEF Denied
  <2> QED BY <2>1, <2>2, <2>3, <2>4, ReportsRest
<1>4. ASSUME NEW c \in Client, CommitResolution(c) PROVE ReportsInv'
  <2>1. /\ job' = [job EXCEPT ![c] = Idle] /\ UNCHANGED <<events, lost>>
        /\ job[c].do = "commit"
    BY <1>4 DEF CommitResolution
  <2>2. \A k \in ActionId : ~Owes(Idle, k) /\ ~Owes(job[c], k)
    BY <2>1 DEF Owes, Idle
  <2>3. \A k \in ActionId : Denied(k)' <=> Denied(k)
    <3>1. /\ DOMAIN log' = DOMAIN log
          /\ \A k \in DOMAIN log : log[k] \in Row /\ log'[k].decision = log[k].decision
      <4>1. \A k \in DOMAIN log : log[k] \in Row
        BY DEF TypeInv, TypeOK
      <4> QED BY <1>4, <4>1, CommitEffect DEF Row
    <3> QED BY <3>1 DEF Denied
  <2> QED BY <2>1, <2>2, <2>3, ReportsRest
<1>5. ASSUME NEW c \in Client, EmitEvent(c) \/ Die(c) PROVE ReportsInv'
  BY <1>5, EndAccounts
<1>6. CASE Reconfigure \/ UNCHANGED vars
  BY <1>6 DEF Reconfigure, vars, ReportsInv, Denied, Told, Gone, InHand, Unheard, Reports,
              Reporters
<1> QED BY <1>1, <1>2, <1>3, <1>4, <1>5, <1>6 DEF Next

\* Every denial was reported once, is about to be by one thread, or its report was lost,
\* these exclude each other, and nothing else is reported as a denial.
THEOREM DenialsReported == Spec => []DenialsAccounted
<1>1. Init => ReportsInv
  BY DEF Init, ReportsInv, Denied, Unheard, Reports, Reporters, Idle
<1>2. TypeInv /\ ReportsInv /\ [Next]_vars => ReportsInv'
  BY ReportsKept
<1>3. TypeInv /\ ReportsInv => DenialsAccounted
  <2>1. TypeInv => DOMAIN log \subseteq ActionId
    BY DEF TypeInv, TypeOK, ActionId
  <2> QED BY <2>1 DEF ReportsInv, DenialsAccounted, Denied, Told, Gone, InHand, Unheard
<1> QED BY <1>1, <1>2, <1>3, TypeInvAlways, PTL DEF Spec

-----------------------------------------------------------------------------
(* How often a row can be settled                                          *)

\* The threads that are about to settle row i.
Committers(i) == {c \in Client : job[c].do = "commit" /\ job[c].resolution.id = i}

\* OverwritesBounded counts past settlements only; with the ones still to come, and
\* the fact that a row is read as pending only before its first settlement, the
\* count is inductive.
Counted ==
  \A i \in ActionId :
    /\ commits[i] + Cardinality(Committers(i)) <= Cardinality(Client)
    /\ i \notin DOMAIN log \/ log[i].result \notin Resolved => commits[i] = 0

LEMMA CommittersFinite ==
  \A i : IsFiniteSet(Committers(i)) /\ Cardinality(Committers(i)) \in Nat
         /\ Cardinality(Committers(i)) <= Cardinality(Client)
         /\ Cardinality(Client) \in Nat
<1>1. \A i : Committers(i) \in SUBSET Client
  BY DEF Committers
<1> QED BY <1>1, FS_Subset, FS_CardinalityType

\* A step that settles nothing, admits nothing and unsettles nothing.
LEMMA CountKept ==
  ASSUME TypeInv, Counted, commits' = commits,
         \A i \in ActionId : Committers(i)' \subseteq Committers(i),
         \A i \in DOMAIN log : i \in DOMAIN log' /\ log'[i] = log[i]
  PROVE  Counted'
<1> SUFFICES ASSUME NEW i \in ActionId
             PROVE  /\ commits[i] + Cardinality(Committers(i)') <= Cardinality(Client)
                    /\ i \notin DOMAIN log' \/ log'[i].result \notin Resolved
                         => commits[i] = 0
  BY DEF Counted
<1>1. IsFiniteSet(Committers(i)) /\ Cardinality(Committers(i)) \in Nat
      /\ Cardinality(Client) \in Nat
  BY CommittersFinite
<1>2. /\ Cardinality(Committers(i)') \in Nat
      /\ Cardinality(Committers(i)') <= Cardinality(Committers(i))
  <2>1. Committers(i)' \in SUBSET Committers(i)
    OBVIOUS
  <2> QED BY <1>1, <2>1, FS_Subset, FS_CardinalityType
<1>3. /\ commits[i] \in Nat
      /\ commits[i] + Cardinality(Committers(i)) <= Cardinality(Client)
      /\ i \notin DOMAIN log \/ log[i].result \notin Resolved => commits[i] = 0
  BY DEF Counted, TypeInv, TypeOK
<1> QED BY <1>1, <1>2, <1>3

LEMMA CountEvaluate ==
  ASSUME TypeInv, Counted, NEW c \in Client, NEW agent \in RawName, NEW q \in Requests,
         EvaluateAndRecord(c, agent, q)
  PROVE  Counted'
<1>1. PICK p \in config :
        /\ log' = Append(log, NewRow(p, Evaluate(p, q)))
        /\ job' = [job EXCEPT ![c] = AfterEvaluation(Len(log) + 1, Evaluate(p, q))]
  BY DEF EvaluateAndRecord
<1>2. \A i \in ActionId : Committers(i)' \subseteq Committers(i)
  BY <1>1 DEF Committers, AfterEvaluation, Emit, Idle, TypeInv, TypeOK
<1>3. \A i \in DOMAIN log : i \in DOMAIN log' /\ log'[i] = log[i]
  BY <1>1 DEF TypeInv, TypeOK
<1> QED BY <1>2, <1>3, CountKept DEF EvaluateAndRecord

LEMMA CountAdmit ==
  ASSUME TypeInv, Counted, NEW c \in Client, NEW i \in DOMAIN log,
         NEW approver \in Approvers, NEW result \in Resolved,
         ReadAndAdmit(c, i, approver, result)
  PROVE  Counted'
<1>1. log' = log /\ commits' = commits /\ log[i].result \notin Resolved
  BY DEF ReadAndAdmit, Refusal, Resolved
<1> SUFFICES ASSUME NEW k \in ActionId
             PROVE  /\ commits[k] + Cardinality(Committers(k)') <= Cardinality(Client)
                    /\ k \notin DOMAIN log \/ log[k].result \notin Resolved
                         => commits[k] = 0
  BY <1>1 DEF Counted
<1>2. k \notin DOMAIN log \/ log[k].result \notin Resolved => commits[k] = 0
  BY DEF Counted
<1>3. CASE k = i
  <2>1. commits[k] = 0
    BY <1>1, <1>2, <1>3
  <2>2. Committers(k)' \in SUBSET Client
    BY DEF Committers
  <2> QED BY <1>2, <2>1, <2>2, FS_Subset, FS_CardinalityType
<1>4. CASE k # i
  <2>1. Committers(k)' = Committers(k)
    BY <1>4 DEF Committers, ReadAndAdmit, Commit, Idle, TypeInv, TypeOK
  <2> QED BY <1>2, <2>1 DEF Counted
<1> QED BY <1>3, <1>4

LEMMA CountCommit ==
  ASSUME TypeInv, Counted, NEW c \in Client, CommitResolution(c)
  PROVE  Counted'
<1> DEFINE r == job[c].resolution
<1>1. /\ r.id \in DOMAIN log /\ r.id \in ActionId /\ r.result \in Resolved
      /\ DOMAIN log' = DOMAIN log
      /\ \A i \in DOMAIN log :
           log'[i] = IF i = r.id THEN [log[i] EXCEPT !.result = r.result, !.by = r.who]
                     ELSE log[i]
  BY CommitEffect DEF Resolution
<1>2. log[r.id] \in Row
  <2>1. \A i \in DOMAIN log : log[i] \in Row
    BY DEF TypeInv, TypeOK
  <2> QED BY <1>1, <2>1
<1>3. log'[r.id].result \in Resolved
  BY <1>1, <1>2 DEF Row
<1>4. commits \in [ActionId -> Nat] /\ commits' = [commits EXCEPT ![r.id] = @ + 1]
  BY DEF TypeInv, TypeOK, CommitResolution
<1> SUFFICES ASSUME NEW k \in ActionId
             PROVE  /\ commits'[k] + Cardinality(Committers(k)') <= Cardinality(Client)
                    /\ k \notin DOMAIN log' \/ log'[k].result \notin Resolved
                         => commits'[k] = 0
  BY DEF Counted
<1>5. /\ commits[k] + Cardinality(Committers(k)) <= Cardinality(Client)
      /\ k \notin DOMAIN log \/ log[k].result \notin Resolved => commits[k] = 0
  BY DEF Counted
<1>6. /\ IsFiniteSet(Committers(k)) /\ Cardinality(Committers(k)) \in Nat
      /\ Cardinality(Client) \in Nat
  BY CommittersFinite
<1> HIDE DEF r
<1>7. CASE k = r.id
  <2>1. Committers(k)' = Committers(k) \ {c} /\ c \in Committers(k)
    BY <1>7 DEF Committers, CommitResolution, Idle, TypeInv, TypeOK, r
  <2>2. Cardinality(Committers(k)') = Cardinality(Committers(k)) - 1
    BY <1>6, <2>1, FS_RemoveElement
  <2>3. commits'[k] = commits[k] + 1 /\ commits[k] \in Nat
    BY <1>4, <1>7
  <2>4. commits'[k] + Cardinality(Committers(k)') <= Cardinality(Client)
    BY <1>5, <1>6, <2>2, <2>3
  <2>5. k \in DOMAIN log' /\ log'[k].result \in Resolved
    BY <1>1, <1>3, <1>7
  <2> QED BY <2>4, <2>5
<1>8. CASE k # r.id
  <2>1. Committers(k)' = Committers(k)
    BY <1>8 DEF Committers, CommitResolution, Idle, TypeInv, TypeOK, r
  <2>2. commits'[k] = commits[k]
    BY <1>4, <1>8
  <2>3. k \in DOMAIN log => log'[k] = log[k]
    BY <1>1, <1>8
  <2> QED BY <1>1, <1>5, <2>1, <2>2, <2>3
<1> QED BY <1>7, <1>8

LEMMA CountInit == Init => Counted
<1> SUFFICES ASSUME Init, NEW i \in ActionId
             PROVE  /\ commits[i] + Cardinality(Committers(i)) <= Cardinality(Client)
                    /\ commits[i] = 0
  BY DEF Counted
<1>1. Cardinality(Committers(i)) = 0
  <2>1. Committers(i) = {}
    BY DEF Init, Committers, Idle
  <2> QED BY <2>1, FS_EmptySet
<1> QED BY <1>1, CommittersFinite DEF Init

LEMMA CountNext == TypeInv /\ Counted /\ [Next]_vars => Counted'
<1> SUFFICES ASSUME TypeInv, Counted, [Next]_vars PROVE Counted'
  OBVIOUS
<1>1. CASE Reconfigure \/ UNCHANGED vars
  BY <1>1, CountKept DEF Reconfigure, vars, Committers
<1>2. ASSUME NEW c \in Client, NEW agent \in RawName, NEW q \in Requests,
             EvaluateAndRecord(c, agent, q)
      PROVE  Counted'
  BY <1>2, CountEvaluate
<1>3. ASSUME NEW c \in Client, NEW i \in DOMAIN log, NEW approver \in Approvers,
             NEW result \in Resolved, ReadAndAdmit(c, i, approver, result)
      PROVE  Counted'
  BY <1>3, CountAdmit
<1>4. ASSUME NEW c \in Client, NEW i \in DOMAIN log, NEW approver \in Approvers,
             ReadAndRefuse(c, i, approver)
      PROVE  Counted'
  <2>1. \A k \in ActionId : Committers(k)' \subseteq Committers(k)
    BY <1>4 DEF ReadAndRefuse, Committers, Emit, TypeInv, TypeOK
  <2> QED BY <1>4, <2>1, CountKept DEF ReadAndRefuse
<1>5. ASSUME NEW c \in Client, CommitResolution(c) PROVE Counted'
  BY <1>5, CountCommit
<1>6. ASSUME NEW c \in Client, EmitEvent(c) \/ Die(c) PROVE Counted'
  <2>1. \A k \in ActionId : Committers(k)' \subseteq Committers(k)
    BY <1>6 DEF EmitEvent, Die, Committers, Idle, TypeInv, TypeOK
  <2> QED BY <1>6, <2>1, CountKept DEF EmitEvent, Die
<1> QED BY <1>1, <1>2, <1>3, <1>4, <1>5, <1>6 DEF Next

\* However the threads interleave, a row is settled at most once per thread.
THEOREM OverwritesAreBounded == Spec => []OverwritesBounded
<1>1. TypeInv /\ Counted => OverwritesBounded
  <2> SUFFICES ASSUME TypeInv, Counted, NEW i \in ActionId
               PROVE  commits[i] <= Cardinality(Client)
    BY DEF OverwritesBounded
  <2>1. commits[i] + Cardinality(Committers(i)) <= Cardinality(Client)
    BY DEF Counted
  <2>2. commits[i] \in Nat
    BY DEF TypeInv, TypeOK
  <2> QED BY <2>1, <2>2, CommittersFinite
<1> QED BY <1>1, TypeInvAlways, CountInit, CountNext, PTL DEF Spec
=============================================================================
