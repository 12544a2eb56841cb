------------------------- MODULE FraudCopilot_proofs -------------------------
(***************************************************************************)
(* For any receipts and whatever the reviewer clicks meanwhile: an         *)
(* analysis tells what it lacks and the attacks it met, and a decision     *)
(* names the receipt its verdict is of, unless another was picked since.   *)
(***************************************************************************)
EXTENDS FraudCopilot, TLAPS

-----------------------------------------------------------------------------
(* What holds of an analysis at each stage                                 *)

AfterExtractor == {"forensics", "policy_checker", "report_writer", "done"}
AfterForensics == {"policy_checker", "report_writer", "done"}
AfterPolicy == {"report_writer", "done"}

\* Each part is there or its failure is told, once its node has had its turn.
Accounts(a) ==
  LET s == a.state
  IN  /\ a.do \in AfterExtractor => s.fields \/ Told(s, "extractor")
      /\ a.do \in AfterForensics => s.forensics \/ Told(s, "forensics")
      /\ a.do = "done" => s.report \/ Told(s, "report_writer")
      /\ a.do \in AfterPolicy /\ s.verdict = "none" => Told(s, "policy_checker")
      /\ s.verdict = "compliant" => s.fields

\* The attacks met so far, unless the pipeline broke down.
Surfaces(a) ==
  LET s == a.state
  IN  ~Told(s, "pipeline") =>
        /\ a.attacks # {} => \E e \in s.errors : e.code = "injection_detected"
        /\ a.do \notin AfterExtractor => a.attacks = {} /\ ~s.fields
        /\ a.do \notin AfterPolicy => "policy_checker" \notin a.attacks
        /\ "extractor" \in a.attacks =>
             /\ ~s.fields /\ "policy_checker" \notin a.attacks
             /\ a.do \in AfterPolicy => s.verdict = "non_compliant"

Inv ==
  /\ TypeOK
  /\ job # Idle => job.of = picked /\ Accounts(job) /\ Surfaces(job)
  /\ shown # Idle => /\ shown.do = "done" /\ Accounts(shown) /\ Surfaces(shown)
                     /\ picked \in Receipt /\ (changed \/ shown.of = picked)
  /\ DecisionOnEvidence

LEMMA NotIdle ==
  ASSUME NEW a \in Analysis \cup {Idle}, a.do \in Node \cup {"done"}
  PROVE  a \in Analysis /\ a # Idle
  BY DEF Analysis, Idle, Node

\* One more error, of a node that has had its turn.
LEMMA ErrorAdded ==
  ASSUME NEW s \in State, NEW node \in Node, NEW code \in Code
  PROVE  LET t == WithError(s, node, code)
         IN  /\ t \in State
             /\ t.fields = s.fields /\ t.forensics = s.forensics /\ t.report = s.report
             /\ t.verdict = s.verdict /\ t.flagged = s.flagged
             /\ Told(t, node) /\ \A n : Told(s, n) => Told(t, n)
             /\ code = "injection_detected" => \E e \in t.errors : e.code = code
             /\ s.errors \subseteq t.errors
<1>1. PICK t : t = WithError(s, node, code)
  OBVIOUS
<1>2. PICK e : e = [node |-> node, code |-> code]
  OBVIOUS
<1>3. s.errors \in SUBSET [node : Node, code : Code] /\ e \in [node : Node, code : Code]
  BY <1>2 DEF State
<1>4. t = [s EXCEPT !.errors = s.errors \cup {e}]
  BY <1>1, <1>2 DEF WithError
<1>5. t \in State
  BY <1>3, <1>4 DEF State
<1>6. /\ t.fields = s.fields /\ t.forensics = s.forensics /\ t.report = s.report
      /\ t.verdict = s.verdict /\ t.flagged = s.flagged
      /\ t.errors = s.errors \cup {e}
  BY <1>4 DEF State
<1>7. Told(t, node) /\ \A n : Told(s, n) => Told(t, n)
  BY <1>2, <1>6 DEF Told
<1>8. code = "injection_detected" => \E x \in t.errors : x.code = code
  BY <1>2, <1>6
<1> QED BY <1>1, <1>5, <1>6, <1>7, <1>8

\* A node's turn leads to a sound analysis of the same receipt.
Advances(a) ==
  \E b \in Analysis : job' = b /\ b.of = a.of /\ Accounts(b) /\ Surfaces(b)

LEMMA BlankState == Blank \in State
  BY DEF Blank, State

LEMMA Passed ==
  ASSUME NEW a \in Analysis, job = a, NEW next \in Node \cup {"done"}, NEW s \in State,
         Pass(next, s)
  PROVE  \E b \in Analysis : /\ job' = b /\ b.of = a.of /\ b.do = next /\ b.state = s
                             /\ b.attacks = a.attacks
<1>1. PICK b : b = [a EXCEPT !.do = next, !.state = s]
  OBVIOUS
<1>2. b \in Analysis /\ b.of = a.of /\ b.do = next /\ b.state = s /\ b.attacks = a.attacks
  BY <1>1 DEF Analysis
<1>3. job' = b
  BY <1>1 DEF Pass
<1> QED BY <1>2, <1>3

\* What a call that fails leaves of an analysis.
Refused(a, b, node) ==
  \E code \in CallFailure :
    /\ b.attacks = IF code = "injection_detected" THEN a.attacks \cup {node} ELSE a.attacks
    /\ b.state.fields = a.state.fields /\ b.state.forensics = a.state.forensics
    /\ b.state.report = a.state.report /\ b.state.verdict = a.state.verdict
    /\ Told(b.state, node) /\ \A n : Told(a.state, n) => Told(b.state, n)
    /\ code = "injection_detected" => \E e \in b.state.errors : e.code = "injection_detected"
    /\ a.state.errors \subseteq b.state.errors

LEMMA Failed ==
  ASSUME NEW a \in Analysis, job = a, NEW next \in Node \cup {"done"}, NEW node \in Node,
         NEW flagged \in BOOLEAN, CallFails(node, next, flagged)
  PROVE  \E b \in Analysis : job' = b /\ b.of = a.of /\ b.do = next /\ Refused(a, b, node)
<1>0. PICK code \in CallFailure :
        \E s : /\ s = WithError(a.state, node, code)
               /\ job' = [a EXCEPT
                           !.do = next,
                           !.state = IF flagged /\ code = "injection_detected"
                                     THEN [s EXCEPT !.flagged = TRUE] ELSE s,
                           !.attacks = IF code = "injection_detected"
                                       THEN @ \cup {node} ELSE @]
  BY DEF CallFails
<1>1. PICK t : /\ t = WithError(a.state, node, code)
               /\ job' = [a EXCEPT
                           !.do = next,
                           !.state = IF flagged /\ code = "injection_detected"
                                     THEN [t EXCEPT !.flagged = TRUE] ELSE t,
                           !.attacks = IF code = "injection_detected"
                                       THEN @ \cup {node} ELSE @]
  BY <1>0
<1>2. a.state \in State /\ code \in Code /\ a.attacks \in SUBSET Node /\ a.of \in Receipt
  BY DEF Analysis, Code
<1>3. /\ t \in State
      /\ t.fields = a.state.fields /\ t.forensics = a.state.forensics
      /\ t.report = a.state.report /\ t.verdict = a.state.verdict
      /\ Told(t, node) /\ \A n : Told(a.state, n) => Told(t, n)
      /\ code = "injection_detected" => \E e \in t.errors : e.code = code
      /\ a.state.errors \subseteq t.errors
  BY <1>1, <1>2, ErrorAdded
<1>4. PICK u : u = IF flagged /\ code = "injection_detected"
                  THEN [t EXCEPT !.flagged = TRUE] ELSE t
  OBVIOUS
<1>5. /\ u \in State /\ u.errors = t.errors
      /\ u.fields = t.fields /\ u.forensics = t.forensics
      /\ u.report = t.report /\ u.verdict = t.verdict
  <2>1. PICK v : v = [t EXCEPT !.flagged = TRUE]
    OBVIOUS
  <2>2. /\ v \in State /\ v.errors = t.errors
        /\ v.fields = t.fields /\ v.forensics = t.forensics
        /\ v.report = t.report /\ v.verdict = t.verdict
    BY <1>3, <2>1 DEF State
  <2> QED BY <1>3, <1>4, <2>1, <2>2
<1>6. PICK new : new = IF code = "injection_detected" THEN a.attacks \cup {node} ELSE a.attacks
  OBVIOUS
<1>7. new \in SUBSET Node
  BY <1>2, <1>6
<1>8. PICK b : b = [a EXCEPT !.do = next, !.state = u, !.attacks = new]
  OBVIOUS
<1>9. b \in Analysis /\ b.do = next /\ b.state = u /\ b.attacks = new /\ b.of = a.of
  BY <1>5, <1>7, <1>8 DEF Analysis
<1>10. job' = b
  BY <1>1, <1>4, <1>6, <1>8
<1>11. \A n : Told(u, n) <=> Told(t, n)
  BY <1>5 DEF Told
<1>12. Refused(a, b, node)
  BY <1>3, <1>5, <1>6, <1>9, <1>11 DEF Refused
<1> QED BY <1>9, <1>10, <1>12

\* The four nodes.
LEMMA ExtractAdvances ==
  ASSUME NEW a \in Analysis, job = a, Accounts(a), Surfaces(a), Extract
  PROVE  Advances(a)
<1>0. a.do = "extractor" /\ a.state \in State /\ "extractor" \in Node /\ "forensics" \in Node
  BY DEF Extract, Analysis, Node
<1>1. CASE Pass("forensics", WithError(a.state, "extractor", "ocr_failed"))
  <2>1. PICK t : t = WithError(a.state, "extractor", "ocr_failed")
    OBVIOUS
  <2>2. "ocr_failed" \in Code
    BY DEF Code
  <2>3. /\ t \in State
        /\ t.fields = a.state.fields /\ t.verdict = a.state.verdict
        /\ Told(t, "extractor") /\ \A n : Told(a.state, n) => Told(t, n)
        /\ a.state.errors \subseteq t.errors
    BY <1>0, <2>1, <2>2, ErrorAdded
  <2>4. PICK b \in Analysis : /\ job' = b /\ b.of = a.of /\ b.do = "forensics" /\ b.state = t
                              /\ b.attacks = a.attacks
    BY <1>0, <1>1, <2>1, <2>3, Passed
  <2>5. Accounts(b)
    BY <2>3, <2>4 DEF Accounts, AfterForensics, AfterPolicy
  <2>6. Surfaces(b)
    BY <1>0, <2>3, <2>4 DEF Surfaces, AfterExtractor, AfterPolicy
  <2> QED BY <2>4, <2>5, <2>6 DEF Advances
<1>2. CASE CallFails("extractor", "forensics", TRUE)
  <2>1. PICK b \in Analysis : /\ job' = b /\ b.of = a.of /\ b.do = "forensics"
                              /\ Refused(a, b, "extractor")
    BY <1>0, <1>2, Failed
  <2>2. Accounts(b)
    BY <2>1 DEF Refused, Accounts, AfterForensics, AfterPolicy
  <2>3. Surfaces(b)
    BY <1>0, <2>1 DEF Refused, Surfaces, AfterExtractor, AfterPolicy
  <2> QED BY <2>1, <2>2, <2>3 DEF Advances
<1>3. CASE Pass("forensics", [a.state EXCEPT !.fields = TRUE])
  <2>1. PICK t : t = [a.state EXCEPT !.fields = TRUE]
    OBVIOUS
  <2>2. t \in State /\ t.fields /\ t.verdict = a.state.verdict /\ t.errors = a.state.errors
    BY <1>0, <2>1 DEF State
  <2>3. PICK b \in Analysis : /\ job' = b /\ b.of = a.of /\ b.do = "forensics" /\ b.state = t
                              /\ b.attacks = a.attacks
    BY <1>0, <1>3, <2>1, <2>2, Passed
  <2>4. Accounts(b)
    BY <2>2, <2>3 DEF Accounts, AfterForensics, AfterPolicy
  <2>5. Surfaces(b)
    BY <1>0, <2>2, <2>3 DEF Surfaces, AfterExtractor, AfterPolicy, Told
  <2> QED BY <2>3, <2>4, <2>5 DEF Advances
<1> QED BY <1>1, <1>2, <1>3 DEF Extract

LEMMA ForensicsAdvances ==
  ASSUME NEW a \in Analysis, job = a, Accounts(a), Surfaces(a), Forensics
  PROVE  Advances(a)
<1>0. /\ a.do = "forensics" /\ a.state \in State
      /\ "forensics" \in Node /\ "policy_checker" \in Node
  BY DEF Forensics, Analysis, Node
<1>1. ASSUME NEW t \in State, Pass("policy_checker", t), t.fields = a.state.fields,
             t.verdict = a.state.verdict, t.forensics \/ Told(t, "forensics"),
             \A n : Told(a.state, n) => Told(t, n), a.state.errors \subseteq t.errors
      PROVE  Advances(a)
  <2>1. PICK b \in Analysis : /\ job' = b /\ b.of = a.of /\ b.do = "policy_checker"
                              /\ b.state = t /\ b.attacks = a.attacks
    BY <1>0, <1>1, Passed
  <2>2. Accounts(b)
    BY <1>0, <1>1, <2>1 DEF Accounts, AfterExtractor, AfterForensics, AfterPolicy
  <2>3. Surfaces(b)
    BY <1>0, <1>1, <2>1 DEF Surfaces, AfterExtractor, AfterPolicy
  <2> QED BY <2>1, <2>2, <2>3 DEF Advances
<1>2. CASE Pass("policy_checker", WithError(a.state, "forensics", "forensics_failed"))
  <2>1. "forensics_failed" \in Code
    BY DEF Code
  <2> QED BY <1>0, <1>1, <1>2, <2>1, ErrorAdded
<1>3. CASE Pass("policy_checker", [a.state EXCEPT !.forensics = TRUE])
  <2>1. PICK t : t = [a.state EXCEPT !.forensics = TRUE]
    OBVIOUS
  <2>2. /\ t \in State /\ t.forensics
        /\ t.fields = a.state.fields /\ t.verdict = a.state.verdict /\ t.errors = a.state.errors
    BY <1>0, <2>1 DEF State
  <2> QED BY <1>1, <1>3, <2>1, <2>2 DEF Told
<1> QED BY <1>2, <1>3 DEF Forensics

LEMMA PolicyAdvances ==
  ASSUME NEW a \in Analysis, job = a, Accounts(a), Surfaces(a), CheckPolicy
  PROVE  Advances(a)
<1>0. /\ a.do = "policy_checker" /\ a.state \in State
      /\ "policy_checker" \in Node /\ "report_writer" \in Node
  BY DEF CheckPolicy, Analysis, Node
<1>1. ASSUME NEW v \in Verdict, Pass("report_writer", [a.state EXCEPT !.verdict = v]),
             v = "non_compliant" \/ a.state.fields
      PROVE  Advances(a)
  <2>1. PICK t : t = [a.state EXCEPT !.verdict = v]
    OBVIOUS
  <2>2. /\ t \in State /\ t.verdict = v /\ t.fields = a.state.fields
        /\ t.forensics = a.state.forensics /\ t.errors = a.state.errors
    BY <1>0, <2>1 DEF State
  <2>3. PICK b \in Analysis : /\ job' = b /\ b.of = a.of /\ b.do = "report_writer"
                              /\ b.state = t /\ b.attacks = a.attacks
    BY <1>0, <1>1, <2>1, <2>2, Passed
  <2>4. v # "none"
    BY DEF Verdict
  <2>5. Accounts(b)
    BY <1>0, <1>1, <2>2, <2>3, <2>4
    DEF Accounts, AfterExtractor, AfterForensics, AfterPolicy, Told
  <2>6. Surfaces(b)
    BY <1>0, <1>1, <2>2, <2>3 DEF Surfaces, AfterExtractor, AfterPolicy, Told
  <2> QED BY <2>3, <2>5, <2>6 DEF Advances
<1>2. ASSUME CallFails("policy_checker", "report_writer", FALSE), a.state.fields
      PROVE  Advances(a)
  <2>1. PICK b \in Analysis : /\ job' = b /\ b.of = a.of /\ b.do = "report_writer"
                              /\ Refused(a, b, "policy_checker")
    BY <1>0, <1>2, Failed
  <2>2. Accounts(b)
    BY <1>0, <1>2, <2>1 DEF Refused, Accounts, AfterExtractor, AfterForensics, AfterPolicy
  <2>3. Surfaces(b)
    BY <1>0, <1>2, <2>1 DEF Refused, Surfaces, AfterExtractor, AfterPolicy
  <2> QED BY <2>1, <2>2, <2>3 DEF Advances
<1>3. "non_compliant" \in Verdict
  BY DEF Verdict
<1> QED BY <1>1, <1>2, <1>3 DEF CheckPolicy, AsksPolicy

LEMMA ReportAdvances ==
  ASSUME NEW a \in Analysis, job = a, Accounts(a), Surfaces(a), WriteReport
  PROVE  Advances(a)
<1>0. a.do = "report_writer" /\ a.state \in State /\ "report_writer" \in Node
  BY DEF WriteReport, Analysis, Node
<1>1. CASE Pass("done", [a.state EXCEPT !.report = TRUE])
  <2>1. PICK t : t = [a.state EXCEPT !.report = TRUE]
    OBVIOUS
  <2>2. /\ t \in State /\ t.report /\ t.fields = a.state.fields
        /\ t.forensics = a.state.forensics /\ t.errors = a.state.errors
        /\ t.verdict = a.state.verdict
    BY <1>0, <2>1 DEF State
  <2>3. PICK b \in Analysis : /\ job' = b /\ b.of = a.of /\ b.do = "done"
                              /\ b.state = t /\ b.attacks = a.attacks
    BY <1>0, <1>1, <2>1, <2>2, Passed
  <2>4. Accounts(b)
    BY <1>0, <2>2, <2>3 DEF Accounts, AfterExtractor, AfterForensics, AfterPolicy, Told
  <2>5. Surfaces(b)
    BY <1>0, <2>2, <2>3 DEF Surfaces, AfterExtractor, AfterPolicy, Told
  <2> QED BY <2>3, <2>4, <2>5 DEF Advances
<1>2. CASE CallFails("report_writer", "done", FALSE)
  <2>1. PICK b \in Analysis : /\ job' = b /\ b.of = a.of /\ b.do = "done"
                              /\ Refused(a, b, "report_writer")
    BY <1>0, <1>2, Failed
  <2>2. Accounts(b)
    BY <1>0, <2>1 DEF Refused, Accounts, AfterExtractor, AfterForensics, AfterPolicy
  <2>3. Surfaces(b)
    BY <1>0, <2>1 DEF Refused, Surfaces, AfterExtractor, AfterPolicy
  <2> QED BY <2>1, <2>2, <2>3 DEF Advances
<1> QED BY <1>1, <1>2 DEF WriteReport

LEMMA BreakdownAdvances ==
  ASSUME NEW a \in Analysis, job = a, PipelineFails
  PROVE  Advances(a)
<1>1. PICK t : t = WithError(Blank, "pipeline", "pipeline_failed")
  OBVIOUS
<1>2. "pipeline" \in Node /\ "pipeline_failed" \in Code
  BY DEF Node, Code
<1>3. t \in State /\ t.verdict = Blank.verdict /\ Told(t, "pipeline")
  BY <1>1, <1>2, BlankState, ErrorAdded
<1>4. PICK b \in Analysis : /\ job' = b /\ b.of = a.of /\ b.do = "done" /\ b.state = t
  BY <1>1, <1>3, Passed DEF PipelineFails
<1>5. \A n : Told(t, n)
  BY <1>3 DEF Told
<1>6. Accounts(b) /\ Surfaces(b)
  BY <1>3, <1>4, <1>5 DEF Accounts, Surfaces, Blank
<1> QED BY <1>4, <1>6 DEF Advances

-----------------------------------------------------------------------------
(* The page                                                                *)

LEMMA NodesKeep ==
  ASSUME Inv, Extract \/ Forensics \/ CheckPolicy \/ WriteReport \/ PipelineFails
  PROVE  Inv'
<1>1. job.do \in Node
  BY DEF Extract, Forensics, CheckPolicy, WriteReport, PipelineFails, Node
<1>2. job \in Analysis /\ job # Idle
  BY <1>1, NotIdle DEF Inv, TypeOK
<1>3. PICK a \in Analysis : a = job
  BY <1>2
<1>4. a.of = picked /\ Accounts(a) /\ Surfaces(a)
  BY <1>2, <1>3 DEF Inv
<1>5. Advances(a)
  BY <1>3, <1>4, ExtractAdvances, ForensicsAdvances, PolicyAdvances, ReportAdvances,
     BreakdownAdvances
<1>6. PICK b \in Analysis : job' = b /\ b.of = a.of /\ Accounts(b) /\ Surfaces(b)
  BY <1>5 DEF Advances
<1>7. UNCHANGED <<uploaded, picked, shown, decisions, changed>>
  BY DEF Extract, Forensics, CheckPolicy, WriteReport, PipelineFails, Pass, CallFails
<1>8. TypeOK'
  BY <1>6, <1>7 DEF Inv, TypeOK
<1>9. job' # Idle => job'.of = picked' /\ Accounts(job)' /\ Surfaces(job)'
  BY <1>4, <1>6, <1>7 DEF Accounts, Surfaces
<1>10. (shown # Idle => /\ shown.do = "done" /\ Accounts(shown) /\ Surfaces(shown)
                        /\ picked \in Receipt /\ (changed \/ shown.of = picked))'
  BY <1>7 DEF Inv, Accounts, Surfaces
<1>11. DecisionOnEvidence'
  BY <1>7 DEF Inv, DecisionOnEvidence
<1> QED BY <1>8, <1>9, <1>10, <1>11 DEF Inv

LEMMA ShowKeeps ==
  ASSUME Inv, Show
  PROVE  Inv'
<1>1. job \in Analysis /\ job # Idle
  BY NotIdle DEF Inv, TypeOK, Show
<1>2. picked \in Receipt
  BY <1>1 DEF Inv, Analysis
<1>3. TypeOK'
  BY <1>1 DEF Inv, TypeOK, Show
<1>4. (shown # Idle => /\ shown.do = "done" /\ Accounts(shown) /\ Surfaces(shown)
                       /\ picked \in Receipt /\ (changed \/ shown.of = picked))'
  BY <1>1, <1>2 DEF Inv, Show, Accounts, Surfaces
<1>5. job' = Idle /\ DecisionOnEvidence'
  BY DEF Inv, Show, DecisionOnEvidence
<1> QED BY <1>3, <1>4, <1>5 DEF Inv

LEMMA PageKeeps ==
  ASSUME Inv,
         \/ \E s \in Sample : Load(uploaded, s)
         \/ \E f \in Upload \cup {NoReceipt} : Load(f, NoReceipt)
         \/ RunAnalysis
         \/ \E d \in {"approved", "rejected"} : Decide(d)
  PROVE  Inv'
<1>1. ASSUME NEW f \in Upload \cup {NoReceipt}, NEW s \in Sample \cup {NoReceipt}, Load(f, s)
      PROVE  Inv'
  <2>1. TypeOK'
    BY <1>1 DEF Inv, TypeOK, Load, Abandoned, Receipt
  <2>2. /\ job' = Idle /\ shown' = shown /\ decisions' = decisions
        /\ changed' \/ (~changed /\ picked' = picked)
    BY <1>1 DEF Load, Abandoned, Inv, TypeOK
  <2>3. (shown # Idle => /\ shown.do = "done" /\ Accounts(shown) /\ Surfaces(shown)
                         /\ picked \in Receipt)'
    BY <1>1, <2>2 DEF Inv, Accounts, Surfaces, Load, Receipt
  <2> QED BY <2>1, <2>2, <2>3 DEF Inv, DecisionOnEvidence
<1>2. CASE RunAnalysis
  <2>1. PICK a : a = [do |-> "extractor", of |-> picked, state |-> Blank, attacks |-> {}]
    OBVIOUS
  <2>2. picked \in Receipt /\ job' = a
    BY <1>2, <2>1 DEF RunAnalysis, Inv, TypeOK
  <2>3. /\ a \in Analysis /\ a.of = picked /\ a.do = "extractor" /\ a.attacks = {}
        /\ a.state = Blank
    BY <2>1, <2>2, BlankState DEF Analysis, Node
  <2>4. Accounts(a) /\ Surfaces(a)
    BY <2>3 DEF Accounts, Surfaces, AfterExtractor, AfterForensics, AfterPolicy, Blank
  <2>5. UNCHANGED <<uploaded, picked, shown, decisions, changed>>
    BY <1>2 DEF RunAnalysis
  <2>6. TypeOK'
    BY <2>2, <2>3, <2>5 DEF Inv, TypeOK
  <2>7. job' # Idle => job'.of = picked' /\ Accounts(job)' /\ Surfaces(job)'
    BY <2>2, <2>3, <2>4, <2>5 DEF Accounts, Surfaces
  <2>8. (shown # Idle => /\ shown.do = "done" /\ Accounts(shown) /\ Surfaces(shown)
                         /\ picked \in Receipt /\ (changed \/ shown.of = picked))'
    BY <2>5 DEF Inv, Accounts, Surfaces
  <2> QED BY <2>5, <2>6, <2>7, <2>8 DEF Inv, DecisionOnEvidence
<1>3. ASSUME NEW d \in {"approved", "rejected"}, Decide(d) PROVE Inv'
  <2>1. job' = Idle /\ UNCHANGED <<uploaded, picked, shown, changed>> /\ shown # Idle
    BY <1>3 DEF Decide, Abandoned
  <2>2. (shown # Idle => /\ shown.do = "done" /\ Accounts(shown) /\ Surfaces(shown)
                         /\ picked \in Receipt /\ (changed \/ shown.of = picked))'
    BY <2>1 DEF Inv, Accounts, Surfaces
  <2>3. shown \in Analysis /\ (changed \/ shown.of = picked)
    BY <2>1 DEF Inv, TypeOK
  <2>4. CASE decisions' = decisions
    <3>1. TypeOK' /\ DecisionOnEvidence'
      BY <2>1, <2>4 DEF Inv, TypeOK, DecisionOnEvidence
    <3> QED BY <2>1, <2>2, <3>1 DEF Inv
  <2>5. ASSUME NEW row, decisions' = decisions \cup {row},
               row = [receipt |-> picked, verdict |-> DisplayedVerdict(shown.state),
                      decision |-> d, of |-> shown.of, changed |-> changed]
        PROVE  Inv'
    <3>1. row.receipt = row.of \/ row.changed
      BY <2>3, <2>5
    <3>2. shown.of \in Receipt /\ DisplayedVerdict(shown.state) \in Verdict
      BY <2>3 DEF Analysis, DisplayedVerdict, Verdict
    <3>3. picked \in Receipt
      BY <2>1 DEF Inv
    <3>4. row \in ReviewDecision
      BY <2>5, <3>2, <3>3 DEF ReviewDecision, Inv, TypeOK
    <3>5. TypeOK' /\ DecisionOnEvidence'
      BY <2>1, <2>5, <3>1, <3>4 DEF Inv, TypeOK, DecisionOnEvidence
    <3> QED BY <2>1, <2>2, <3>5 DEF Inv
  <2> QED BY <1>3, <2>4, <2>5 DEF Decide
<1>4. uploaded \in Upload \cup {NoReceipt}
  BY DEF Inv, TypeOK
<1> QED BY <1>1, <1>2, <1>3, <1>4

LEMMA InvSpec == Spec => []Inv
<1>1. Init => Inv
  BY DEF Init, Inv, TypeOK, DecisionOnEvidence
<1>2. Inv /\ [Next]_vars => Inv'
  <2>1. ASSUME Inv, UNCHANGED vars PROVE Inv'
    BY <2>1 DEF vars, Inv, TypeOK, Accounts, Surfaces, DecisionOnEvidence
  <2> QED BY <2>1, NodesKeep, ShowKeeps, PageKeeps DEF Next, Run
<1> QED BY <1>1, <1>2, PTL DEF Spec

-----------------------------------------------------------------------------
(* What the reviewer may rely on                                           *)

\* The page, the analysis and the decisions always hold what they may hold.
THEOREM TypeCorrect == Spec => []TypeOK
  BY InvSpec, PTL DEF Inv

\* What an analysis lacks is told.
THEOREM FailuresAreTold == Spec => []FailuresTold
<1>1. Inv => FailuresTold
  <2> SUFFICES ASSUME Inv, shown # Idle PROVE FailuresTold
    BY DEF FailuresTold
  <2>1. shown.do = "done" /\ Accounts(shown) /\ shown \in Analysis
    BY DEF Inv, TypeOK
  <2>2. shown.state \in State
    BY <2>1 DEF Analysis
  <2>3. shown.state.verdict \in {"compliant", "non_compliant", "none"}
    BY <2>2 DEF State, Verdict
  <2> QED BY <2>1, <2>3 DEF FailuresTold, Accounts, AfterExtractor, AfterForensics, AfterPolicy,
                            DisplayedVerdict
<1> QED BY <1>1, InvSpec, PTL

\* An attack met by any node is shown.
THEOREM InjectionIsSurfaced == Spec => []InjectionSurfaced
<1>1. Inv => InjectionSurfaced
  BY DEF Inv, InjectionSurfaced, Surfaces, AfterPolicy, InjectionShown, DisplayedVerdict
<1> QED BY <1>1, InvSpec, PTL

\* A decision names the receipt its verdict is of, unless another was picked since.
THEOREM DecisionsOnEvidence == Spec => []DecisionOnEvidence
  BY InvSpec, PTL DEF Inv
=============================================================================
