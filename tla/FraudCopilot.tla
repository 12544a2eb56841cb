---------------------------- MODULE FraudCopilot ----------------------------
(***************************************************************************)
(* The Fraud Copilot: a reviewer picks or uploads a receipt, runs the      *)
(* pipeline of agents/graph.py on it, and approves or rejects what the     *)
(* review screen shows (frontend/components/review_screen.py).  The four   *)
(* nodes follow each other; three of them call the proxy, and each may     *)
(* fail alone.  Every click runs the script of the page anew and abandons  *)
(* the run that is under way.                                              *)
(*                                                                         *)
(* A receipt stands for its file: an upload is written to a new file by    *)
(* every run of the script.  Left out: texts, scores, notes and what       *)
(* the forensics find.                                                     *)
(***************************************************************************)
EXTENDS FiniteSets, Naturals

CONSTANTS Sample,      \* the receipts offered on the page
          Upload,      \* the files of the reviewer
          MaxDecisions \* bound: rows of review_decisions that differ

Receipt == Sample \cup Upload
NoReceipt == "none"

ASSUME CopilotAssumption == NoReceipt \notin Receipt /\ MaxDecisions \in Nat

VARIABLES uploaded,  \* the file in the uploader
          picked,    \* review_receipt_path
          job,       \* the analysis under way
          shown,     \* review_state
          decisions, \* review_decisions
          changed    \* history: another receipt was picked since the analysis shown came

vars == <<uploaded, picked, job, shown, decisions, changed>>

Node == {"extractor", "forensics", "policy_checker", "report_writer", "pipeline"}
\* A call of the proxy does not reach it or is refused, by its attack detector or else.
CallFailure == {"call_failed", "injection_detected"}
Code == CallFailure \cup {"ocr_failed", "forensics_failed", "pipeline_failed"}
Verdict == {"compliant", "non_compliant"}

\* FraudCaseState, with the parts that may be None.
State == [fields : BOOLEAN, flagged : BOOLEAN, forensics : BOOLEAN,
          verdict : Verdict \cup {"none"}, report : BOOLEAN,
          errors : SUBSET [node : Node, code : Code]]
Blank == [fields |-> FALSE, flagged |-> FALSE, forensics |-> FALSE, verdict |-> "none",
          report |-> FALSE, errors |-> {}]

\* An analysis: the node whose turn it is, the receipt, the state so far, and as history
\* the nodes whose call was refused as an attack.
Analysis == [do : Node \cup {"done"}, of : Receipt, state : State, attacks : SUBSET Node]
Idle == [do |-> "idle"]

\* A row, with its history.
ReviewDecision == [receipt : Receipt, verdict : Verdict, of : Receipt,
                   decision : {"approved", "rejected"}, changed : BOOLEAN]

Init ==
  /\ uploaded = NoReceipt /\ picked = NoReceipt
  /\ job = Idle /\ shown = Idle
  /\ decisions = {}
  /\ changed = FALSE

-----------------------------------------------------------------------------
(* The pipeline                                                            *)

\* Seeded defect: a node that fails replaces the errors of the others.
WithErrorOnly(s, node, code) == [s EXCEPT !.errors = {[node |-> node, code |-> code]}]

\* _append_error.
WithError(s, node, code) == [s EXCEPT !.errors = @ \cup {[node |-> node, code |-> code]}]

\* What a node makes of the state; the next one's turn comes whether or not it failed.
Pass(next, s) ==
  /\ job' = [job EXCEPT !.do = next, !.state = s]
  /\ UNCHANGED <<uploaded, picked, shown, decisions, changed>>

\* call_proxy brings no answer with status 200; the extractor also keeps a flag of it.
CallFails(node, next, flagged) ==
  \E code \in CallFailure :
    LET attack == code = "injection_detected"
        s == WithError(job.state, node, code)
    IN  /\ job' = [job EXCEPT
                     !.do = next,
                     !.state = IF flagged /\ attack THEN [s EXCEPT !.flagged = TRUE] ELSE s,
                     !.attacks = IF attack THEN @ \cup {node} ELSE @]
        /\ UNCHANGED <<uploaded, picked, shown, decisions, changed>>

\* extractor_node: the text is read from the image, the fields are asked for.
Extract ==
  /\ job.do = "extractor"
  /\ \/ Pass("forensics", WithError(job.state, "extractor", "ocr_failed"))
     \/ CallFails("extractor", "forensics", TRUE)
     \/ Pass("forensics", [job.state EXCEPT !.fields = TRUE])

\* forensics_node: the picture cannot be read, or there is a result.
Forensics ==
  /\ job.do = "forensics"
  /\ \/ Pass("policy_checker", WithError(job.state, "forensics", "forensics_failed"))
     \/ Pass("policy_checker", [job.state EXCEPT !.forensics = TRUE])

\* Seeded defect: the policy checker is asked although nothing was extracted.
AsksPolicyAlways(s) == TRUE

\* check_policy asks the proxy only with fields at hand.
AsksPolicy(s) == s.fields

CheckPolicy ==
  /\ job.do = "policy_checker"
  /\ \/ /\ ~AsksPolicy(job.state)
        /\ Pass("report_writer", [job.state EXCEPT !.verdict = "non_compliant"])
     \/ /\ AsksPolicy(job.state)
        /\ \/ CallFails("policy_checker", "report_writer", FALSE)
           \/ \E v \in Verdict : Pass("report_writer", [job.state EXCEPT !.verdict = v])

WriteReport ==
  /\ job.do = "report_writer"
  /\ \/ CallFails("report_writer", "done", FALSE)
     \/ Pass("done", [job.state EXCEPT !.report = TRUE])

\* An exception no node catches: run_on_receipt starts over with one error.
PipelineFails ==
  /\ job.do \in Node
  /\ Pass("done", WithError(Blank, "pipeline", "pipeline_failed"))

\* The state is kept for the page.
Show ==
  /\ job.do = "done"
  /\ shown' = job
  /\ job' = Idle
  /\ changed' = FALSE
  /\ UNCHANGED <<uploaded, picked, decisions>>

Run == Extract \/ Forensics \/ CheckPolicy \/ WriteReport \/ PipelineFails \/ Show

-----------------------------------------------------------------------------
(* The page                                                                *)

\* Seeded defect: the analysis goes on in the background.
AbandonedLate(j) == j

\* What a click leaves of an analysis under way.
Abandoned(j) == Idle

\* A script run with file f in the uploader and sample s clicked, if any: the file wins.
Load(f, s) ==
  /\ uploaded' = f
  /\ picked' = IF f # NoReceipt THEN f ELSE IF s # NoReceipt THEN s ELSE picked
  /\ changed' = (changed \/ picked' # picked)
  /\ job' = Abandoned(job)
  /\ UNCHANGED <<shown, decisions>>

RunAnalysis ==
  /\ picked # NoReceipt
  /\ job' = [do |-> "extractor", of |-> picked, state |-> Blank, attacks |-> {}]
  /\ UNCHANGED <<uploaded, picked, shown, decisions, changed>>

\* compute_display: a verdict that is not there counts as compliant.
DisplayedVerdict(s) == IF s.verdict = "non_compliant" THEN "non_compliant" ELSE "compliant"

\* Seeded defect: only the guardrails of the extraction are looked at.
InjectionShownFlag(s) == s.flagged

InjectionShown(s) == s.flagged \/ \E e \in s.errors : e.code = "injection_detected"

\* record_review_decision, or its commit fails.
Decide(decision) ==
  /\ shown # Idle
  /\ \/ /\ Cardinality(decisions) < MaxDecisions
        /\ decisions' = decisions \cup
          {[receipt |-> picked, verdict |-> DisplayedVerdict(shown.state),
            decision |-> decision, of |-> shown.of, changed |-> changed]}
     \/ UNCHANGED decisions
  /\ job' = Abandoned(job)
  /\ UNCHANGED <<uploaded, picked, shown, changed>>

Next ==
  \/ Run
  \/ \E s \in Sample : Load(uploaded, s)
  \/ \E f \in Upload \cup {NoReceipt} : Load(f, NoReceipt)
  \/ RunAnalysis
  \/ \E d \in {"approved", "rejected"} : Decide(d)

Spec == Init /\ [][Next]_vars

-----------------------------------------------------------------------------
(* Properties                                                              *)

TypeOK ==
  /\ uploaded \in Upload \cup {NoReceipt}
  /\ picked \in Receipt \cup {NoReceipt}
  /\ job \in Analysis \cup {Idle} /\ shown \in Analysis \cup {Idle}
  /\ decisions \subseteq ReviewDecision
  /\ changed \in BOOLEAN

\* "Errors recorded, pipeline completes with partial state" (spec.md): each part that an
\* analysis lacks is accounted for by an error of its node, however many fail, and a
\* receipt that nobody judged is shown as compliant only beside such an error.
Told(s, node) == \E e \in s.errors : e.node \in {node, "pipeline"}

FailuresTold ==
  shown # Idle =>
    LET s == shown.state
    IN  /\ s.fields \/ Told(s, "extractor")
        /\ s.forensics \/ Told(s, "forensics")
        /\ s.report \/ Told(s, "report_writer")
        /\ DisplayedVerdict(s) = "compliant" =>
             \/ s.verdict = "compliant" /\ s.fields
             \/ Told(s, "policy_checker")

\* An attack that the proxy's detector catches in any of the three calls is shown as
\* one, and after one in the text of the receipt the policy is not asked: the receipt is
\* shown as not compliant.  Only a pipeline that breaks down forgets it.
InjectionSurfaced ==
  shown # Idle /\ shown.attacks # {} /\ ~Told(shown.state, "pipeline") =>
    /\ InjectionShown(shown.state)
    /\ "extractor" \in shown.attacks =>
         /\ "policy_checker" \notin shown.attacks
         /\ DisplayedVerdict(shown.state) = "non_compliant"

\* The verdict stored with a decision is of the receipt the decision names, unless the
\* reviewer picked another receipt after the analysis had come and decided without a new
\* one: a click during an analysis, whatever it is, never mixes one receipt's verdict with
\* another one's name.
DecisionOnEvidence ==
  \A d \in decisions : d.receipt = d.of \/ d.changed
=============================================================================
