------------------------- MODULE FindingSync_proofs -------------------------
(***************************************************************************)
(* What holds of findings, runs, baselines and the events about them for   *)
(* any number of request threads, projects and tests, whatever dies and    *)
(* however the transactions of concurrent requests interleave.             *)
(***************************************************************************)
EXTENDS FindingSync, TLAPS, FiniteSetTheorems, WellFoundedInduction

-----------------------------------------------------------------------------
(* Tables and jobs                                                         *)

LEMMA Appended ==
  ASSUME NEW S, NEW table \in Seq(S), NEW row \in S
  PROVE  /\ Append(table, row) \in Seq(S)
         /\ DOMAIN Append(table, row) = DOMAIN table \cup {Len(table) + 1}
         /\ Len(table) + 1 \notin DOMAIN table /\ Len(table) + 1 \in Nat
         /\ \A i \in DOMAIN table : Append(table, row)[i] = table[i]
         /\ Append(table, row)[Len(table) + 1] = row
  OBVIOUS

LEMMA Joined ==
  ASSUME NEW S, NEW a \in Seq(S), NEW b \in Seq(S)
  PROVE  /\ a \o b \in Seq(S)
         /\ \A i \in DOMAIN a : i \in DOMAIN (a \o b) /\ (a \o b)[i] = a[i]
         /\ \A i \in DOMAIN (a \o b) \ DOMAIN a :
              i - Len(a) \in DOMAIN b /\ (a \o b)[i] = b[i - Len(a)]
         /\ \A k \in DOMAIN b :
              /\ Len(a) + k \in DOMAIN (a \o b) \ DOMAIN a
              /\ (a \o b)[Len(a) + k] = b[k]
  OBVIOUS

\* A nonempty set of row ids has a greatest one.
LEMMA Greatest ==
  ASSUME NEW n \in Nat, NEW S \in SUBSET (1..n), S # {}
  PROVE  \E m \in S : \A k \in S : k <= m
<1> DEFINE R == OpToRel(<, Nat)
           T == {n - k : k \in S}
<1>1. \A x, y \in Nat : x < y => <<x, y>> \in R
  BY DEF OpToRel
<1>2. ASSUME NEW k \in S PROVE n - k \in Nat /\ k \in Nat
  <2>1. k \in 1..n
    OBVIOUS
  <2> QED BY <2>1
<1>3. T \subseteq Nat /\ T # {}
  BY <1>2
<1>4. IsWellFoundedOn(R, Nat)
  BY NatLessThanWellFounded
<1> HIDE DEF R
<1>5. PICK x \in T : \A y \in T : ~ (<<y, x>> \in R)
  BY <1>3, <1>4, WFMin
<1>6. ASSUME NEW y \in T PROVE x <= y
  <2>1. x \in Nat /\ y \in Nat /\ ~(y < x)
    BY <1>1, <1>3, <1>5
  <2> QED BY <2>1
<1>7. PICK m \in S : x = n - m
  BY <1>5
<1>8. ASSUME NEW k \in S PROVE k <= m
  <2>1. x <= n - k
    BY <1>6
  <2> QED BY <1>2, <1>7, <2>1
<1> QED BY <1>8

LEMMA NewestIsOwn ==
  ASSUME TypeOK, NEW p \in Project
  PROVE  LET b == NewestBaseline(p)
         IN  b = 0 \/ (b \in DOMAIN baselines /\ b \in Nat /\ baselines[b].project = p)
<1> DEFINE own == {b \in DOMAIN baselines : baselines[b].project = p}
<1>1. CASE own = {}
  BY <1>1 DEF NewestBaseline
<1>2. CASE own # {}
  <2>1. Len(baselines) \in Nat /\ DOMAIN baselines = 1..Len(baselines)
    BY DEF TypeOK
  <2>2. PICK m \in own : \A k \in own : k <= m
    BY <1>2, <2>1, Greatest
  <2>3. NewestBaseline(p) \in own
    BY <1>2, <2>2 DEF NewestBaseline
  <2> QED BY <2>1, <2>3
<1> QED BY <1>1, <1>2

LEMMA JobKinds ==
  ASSUME NEW j \in Job
  PROVE  /\ j.do = "idle" => j = Idle
         /\ j.do = "check" => j \in CheckJob
         /\ j.do = "record" => j \in RecordJob
         /\ j.do = "report" => j \in ReportJob
         /\ j.do = "alarm" => j \in AlarmJob
         /\ j.do = "patch" => j \in PatchJob
         /\ j.do = "pin" => j \in PinJob
  BY DEF Job, Idle, CheckJob, RecordJob, ReportJob, AlarmJob, PatchJob, PinJob

LEMMA IdleJob == Idle \in Job /\ Idle.do = "idle"
  BY DEF Job, Idle

LEMMA JobSet ==
  ASSUME TypeOK, NEW w \in Worker, NEW j \in Job, job' = [job EXCEPT ![w] = j]
  PROVE  /\ job' \in [Worker -> Job]
         /\ job'[w] = j
         /\ \A v \in Worker : v # w => job'[v] = job[v]
  BY DEF TypeOK

\* The rows a sync adds: one for each test it staged.
LEMMA NewRows ==
  ASSUME NEW p \in Project, NEW staged \in SUBSET Test, NEW rows \in NewFindings(p, staged)
  PROVE  /\ rows \in Seq(Finding)
         /\ \A k \in DOMAIN rows : /\ rows[k].project = p /\ rows[k].test \in staged
                                   /\ rows[k].status = "OPEN"
         /\ \A t \in staged : \E k \in DOMAIN rows : rows[k].test = t
         /\ \A k, m \in DOMAIN rows : rows[k].test = rows[m].test => k = m
<1> DEFINE n == Cardinality(staged)
           R == [project : {p}, test : staged, status : {"OPEN"}]
<1>1. IsFiniteSet(staged) /\ n \in Nat
  BY SyncAssumption, FS_Subset, FS_CardinalityType
<1>2. rows \in [1..n -> R] /\ \A t \in staged : \E k \in DOMAIN rows : rows[k].test = t
  BY DEF NewFindings
<1>3. R \subseteq Finding /\ \A r \in R : r.project = p /\ r.test \in staged /\ r.status = "OPEN"
  BY DEF Finding, FindingStatus
<1> HIDE DEF R, n
<1>4. rows \in Seq(Finding)
  BY <1>1, <1>2, <1>3
<1>5. \A k, m \in DOMAIN rows : rows[k].test = rows[m].test => k = m
  <2> DEFINE f == [k \in 1..n |-> rows[k].test]
  <2>1. f \in [1..n -> staged]
    BY <1>2, <1>3
  <2>2. f \in Surjection(1..n, staged)
    BY <1>2, <2>1 DEF Surjection
  <2>3. IsFiniteSet(1..n) /\ Cardinality(1..n) = n
    BY <1>1, FS_Interval
  <2>4. f \in Injection(1..n, staged)
    BY <2>2, <2>3, FS_SurjSameCardinalityImpliesInj DEF n
  <2> QED BY <1>2, <2>4 DEF Injection, IsInjective
<1> QED BY <1>2, <1>3, <1>4, <1>5

-----------------------------------------------------------------------------
(* What the threads know                                                   *)

\* What a request carries from one transaction to the next: tests that failed in its
\* run, findings and runs of its project, the baseline it compares with.
Knows(j) ==
  /\ j.do = "check" => j.todo \cup j.staged \subseteq Failed(j.result)
  /\ j.do \in {"record", "report"} =>
       \A i \in j.opened : i \in DOMAIN findings /\ findings[i].project = j.project
  /\ j.do = "record" => \A i \in j.opened : findings[i].test \in Failed(j.result)
  /\ j.do = "report" /\ j.run # 0 => OwnRun(j.project, j.run)
  /\ j.do = "alarm" =>
       /\ OwnRun(j.project, j.run)
       /\ j.baseline \in DOMAIN baselines
       /\ baselines[j.baseline].project = j.project
       /\ baselines[j.baseline].run # j.run
       /\ j.regressed \subseteq
            Regressions(runs[baselines[j.baseline].run].result, runs[j.run].result)
  /\ j.do = "patch" => j.id \in DOMAIN findings
  /\ j.do = "pin" => OwnRun(j.project, j.run)

AllKnow == \A w \in Worker : Knows(job[w])

-----------------------------------------------------------------------------
(* What each step does, in terms of the threads                            *)

LEMMA RunSuiteDoes ==
  ASSUME TypeOK, NEW w \in Worker, NEW p \in Project, NEW suite \in Suites, RunSuite(w, p, suite)
  PROVE  \E j \in CheckJob : /\ job' = [job EXCEPT ![w] = j]
                             /\ j.project = p /\ j.result \in [suite -> Outcomes]
                             /\ j.todo = Failed(j.result) /\ j.staged = {}
                             /\ j.stamp = clock + 1
<1>1. PICK result \in [suite -> Outcomes] :
        job' = [job EXCEPT ![w] =
                 [do |-> "check", project |-> p, stamp |-> clock + 1, result |-> result,
                  todo |-> Failed(result), staged |-> {}]]
  BY DEF RunSuite
<1>2. result \in Results /\ Failed(result) \subseteq Test /\ clock + 1 \in Nat
  BY SyncAssumption DEF Results, Failed, TypeOK
<1> DEFINE j == [do |-> "check", project |-> p, stamp |-> clock + 1, result |-> result,
                 todo |-> Failed(result), staged |-> {}]
<1>3. j \in CheckJob
  BY <1>2 DEF CheckJob
<1> QED BY <1>1, <1>3

LEMMA CheckOneDoes ==
  ASSUME TypeOK, NEW w \in Worker, CheckOne(w)
  PROVE  /\ job[w] \in CheckJob
         /\ \E t \in job[w].todo, j \in CheckJob :
              /\ job' = [job EXCEPT ![w] = j]
              /\ j.project = job[w].project /\ j.result = job[w].result
              /\ j.stamp = job[w].stamp
              /\ j.todo = job[w].todo \ {t}
              /\ j.staged = IF OpenFor(job[w].project, t) = {} THEN job[w].staged \cup {t}
                            ELSE job[w].staged
<1>1. job[w] \in CheckJob
  BY JobKinds DEF TypeOK, CheckOne
<1>2. PICK t \in job[w].todo :
       job' = [job EXCEPT
                 ![w].todo = @ \ {t},
                 ![w].staged = IF OpenFor(job[w].project, t) = {} THEN @ \cup {t} ELSE @]
  BY DEF CheckOne
<1> DEFINE new == IF OpenFor(job[w].project, t) = {} THEN job[w].staged \cup {t}
                  ELSE job[w].staged
<1>3. new \in SUBSET Test
  BY <1>1 DEF CheckJob
<1>4. job' = [job EXCEPT ![w] = [job[w] EXCEPT !.todo = job[w].todo \ {t}, !.staged = new]]
  BY <1>2 DEF TypeOK
<1> HIDE DEF new
<1>5. PICK k \in CheckJob : k = job[w]
  BY <1>1
<1>6. PICK j : j = [k EXCEPT !.todo = k.todo \ {t}, !.staged = new]
  OBVIOUS
<1>7. /\ j \in CheckJob
      /\ j.project = k.project /\ j.result = k.result /\ j.stamp = k.stamp
      /\ j.todo = k.todo \ {t} /\ j.staged = new
  BY <1>3, <1>6 DEF CheckJob
<1>8. job' = [job EXCEPT ![w] = j]
  BY <1>4, <1>5, <1>6
<1> QED BY <1>1, <1>5, <1>7, <1>8 DEF new
LEMMA SaveDoes ==
  ASSUME TypeOK, NEW w \in Worker, SaveFindings(w)
  PROVE  /\ job[w] \in CheckJob /\ job[w].todo = {}
         /\ \E rows \in NewFindings(job[w].project, job[w].staged), j \in RecordJob :
              /\ findings' = findings \o rows
              /\ job' = [job EXCEPT ![w] = j]
              /\ j.project = job[w].project /\ j.result = job[w].result
              /\ j.stamp = job[w].stamp
              /\ j.opened = DOMAIN findings' \ DOMAIN findings
<1>1. job[w] \in CheckJob
  BY JobKinds DEF TypeOK, SaveFindings
<1>2. PICK rows \in NewFindings(job[w].project, job[w].staged) : findings' = findings \o rows
  BY DEF SaveFindings
<1>3. rows \in Seq(Finding)
  BY <1>1, NewRows DEF CheckJob
<1>4. findings' \in Seq(Finding)
  BY <1>2, <1>3, Joined DEF TypeOK
<1>5. DOMAIN findings' \ DOMAIN findings \subseteq Nat
  BY <1>4
<1>6. PICK j : j = [do |-> "record", project |-> job[w].project, stamp |-> job[w].stamp,
                    result |-> job[w].result, opened |-> DOMAIN findings' \ DOMAIN findings]
  OBVIOUS
<1>7. j \in RecordJob
  BY <1>1, <1>5, <1>6 DEF RecordJob, CheckJob
<1>8. job' = [job EXCEPT ![w] = j]
  BY <1>6 DEF SaveFindings
<1> QED BY <1>1, <1>2, <1>6, <1>7, <1>8 DEF SaveFindings

LEMMA RecordDoes ==
  ASSUME TypeOK, NEW w \in Worker, RecordRun(w)
  PROVE  /\ job[w] \in RecordJob
         /\ \/ DOMAIN job[w].result = {} /\ runs' = runs
            \/ /\ DOMAIN job[w].result # {}
               /\ \E row \in Run : /\ runs' = Append(runs, row)
                                   /\ row.project = job[w].project
                                   /\ row.result = job[w].result
                                   /\ row.stamp = job[w].stamp
         /\ \E j \in ReportJob :
              /\ job' = [job EXCEPT ![w] = j]
              /\ j.project = job[w].project /\ j.opened = job[w].opened
              /\ j.run = IF DOMAIN job[w].result = {} THEN 0 ELSE Len(runs) + 1
<1>1. job[w] \in RecordJob
  BY JobKinds DEF TypeOK, RecordRun
<1>2. PICK j : j = [do |-> "report", project |-> job[w].project, opened |-> job[w].opened,
                    run |-> IF DOMAIN job[w].result = {} THEN 0 ELSE Len(runs) + 1]
  OBVIOUS
<1>3. (IF DOMAIN job[w].result = {} THEN 0 ELSE Len(runs) + 1) \in Nat
  BY DEF TypeOK
<1>4. j \in ReportJob
  BY <1>1, <1>2, <1>3 DEF RecordJob, ReportJob
<1>5. job' = [job EXCEPT ![w] = j]
  BY <1>2 DEF RecordRun
<1>6. PICK row : row = RunOf(job[w])
  OBVIOUS
<1>7. row \in Run /\ row.project = job[w].project /\ row.result = job[w].result
        /\ row.stamp = job[w].stamp
  BY <1>1, <1>6 DEF RunOf, Run, RecordJob
<1>8. runs' = IF DOMAIN job[w].result = {} THEN runs ELSE Append(runs, row)
  BY <1>6 DEF RecordRun, Recorded
<1> QED BY <1>1, <1>2, <1>4, <1>5, <1>7, <1>8

LEMMA ReportDoes ==
  ASSUME TypeOK, NEW w \in Worker, ReportFinding(w)
  PROVE  /\ job[w] \in ReportJob
         /\ \E i \in job[w].opened, j \in ReportJob :
              /\ job' = [job EXCEPT ![w] = j]
              /\ j.project = job[w].project /\ j.run = job[w].run
              /\ j.opened = job[w].opened \ {i}
              /\ events \subseteq events' /\ events' \subseteq events \cup {OpenedEvent(i)}
              /\ lost' = IF OpenedEvent(i) \in events' THEN lost ELSE lost \cup {i}
<1>1. job[w] \in ReportJob
  BY JobKinds DEF TypeOK, ReportFinding
<1>2. PICK i \in job[w].opened :
        /\ events' \in AfterRecording(events, OpenedEvent(i))
        /\ lost' = IF OpenedEvent(i) \in events' THEN lost ELSE lost \cup {i}
        /\ job' = [job EXCEPT ![w].opened = @ \ {i}]
  BY DEF ReportFinding
<1>3. PICK k \in ReportJob : k = job[w]
  BY <1>1
<1>4. PICK j : j = [k EXCEPT !.opened = k.opened \ {i}]
  OBVIOUS
<1>5. j \in ReportJob /\ j.project = k.project /\ j.run = k.run /\ j.opened = k.opened \ {i}
  BY <1>4 DEF ReportJob
<1>6. job' = [job EXCEPT ![w] = j]
  BY <1>2, <1>3, <1>4 DEF TypeOK
<1>7. events \subseteq events' /\ events' \subseteq events \cup {OpenedEvent(i)}
  BY <1>2 DEF AfterRecording
<1> QED BY <1>1, <1>2, <1>3, <1>5, <1>6, <1>7

LEMMA CompareDoes ==
  ASSUME TypeOK, AllKnow, NEW w \in Worker, CompareWithBaseline(w)
  PROVE  /\ job[w] \in ReportJob /\ job[w].opened = {}
         /\ \/ job' = [job EXCEPT ![w] = Idle]
            \/ \E j \in AlarmJob :
                 LET b == NewestBaseline(job[w].project)
                 IN  /\ job' = [job EXCEPT ![w] = j]
                     /\ j.project = job[w].project /\ j.run = job[w].run /\ j.baseline = b
                     /\ b # 0 /\ job[w].run # 0 /\ baselines[b].run # job[w].run
                     /\ j.regressed = Regressions(runs[baselines[b].run].result,
                                                  runs[job[w].run].result)
<1> DEFINE p == job[w].project
           r == job[w].run
           b == NewestBaseline(p)
           all == Regressions(runs[baselines[b].run].result, runs[r].result)
<1>1. job[w] \in ReportJob /\ job[w].opened = {}
  BY JobKinds DEF TypeOK, CompareWithBaseline, AllReported
<1>2. CASE job' = [job EXCEPT ![w] = Idle]
  BY <1>1, <1>2
<1>3. CASE job' # [job EXCEPT ![w] = Idle]
  <2>1. /\ b # 0 /\ r # 0 /\ baselines[b].run # r
        /\ job' = [job EXCEPT ![w] = [do |-> "alarm", project |-> p, run |-> r,
                                      baseline |-> b, regressed |-> all]]
    BY <1>3 DEF CompareWithBaseline
  <2>2. b \in Nat
    BY <1>1, NewestIsOwn DEF ReportJob
  <2>3. all \subseteq Test
    <3>1. r \in DOMAIN runs
      BY <1>1, <2>1 DEF AllKnow, Knows, OwnRun, ReportJob
    <3>2. DOMAIN runs[r].result \subseteq Test
      <4>1. runs[r] \in Run
        BY <3>1 DEF TypeOK
      <4>2. PICK S \in Suites : runs[r].result \in [S -> TestStatus]
        BY <4>1 DEF Run, Results
      <4> QED BY <4>2, SyncAssumption
    <3> QED BY <3>2 DEF Regressions
  <2>4. PICK j : j = [do |-> "alarm", project |-> p, run |-> r, baseline |-> b,
                      regressed |-> all]
    OBVIOUS
  <2>5. j \in AlarmJob
    BY <1>1, <2>2, <2>3, <2>4 DEF AlarmJob, ReportJob
  <2> QED BY <1>1, <2>1, <2>4, <2>5
<1> QED BY <1>2, <1>3
LEMMA AlarmDoes ==
  ASSUME TypeOK, NEW w \in Worker, ReportRegression(w)
  PROVE  /\ job[w] \in AlarmJob
         /\ \E t \in job[w].regressed :
              LET e == RegressionEvent(job[w].project, t, job[w].baseline, job[w].run)
              IN  events \subseteq events' /\ events' \subseteq events \cup {e}
         /\ \/ job' = [job EXCEPT ![w] = Idle]
            \/ \E j \in AlarmJob :
                 /\ job' = [job EXCEPT ![w] = j]
                 /\ j.project = job[w].project /\ j.run = job[w].run
                 /\ j.baseline = job[w].baseline
                 /\ j.regressed \subseteq job[w].regressed
<1>1. job[w] \in AlarmJob
  BY JobKinds DEF TypeOK, ReportRegression
<1>2. PICK t \in job[w].regressed :
       /\ events' \in AfterRecording(events,
            RegressionEvent(job[w].project, t, job[w].baseline, job[w].run))
       /\ job' = [job EXCEPT ![w] = IF job[w].regressed = {t} THEN Idle
                                    ELSE [job[w] EXCEPT !.regressed = @ \ {t}]]
  BY DEF ReportRegression
<1>3. PICK k \in AlarmJob : k = job[w]
  BY <1>1
<1>4. PICK j : j = [k EXCEPT !.regressed = k.regressed \ {t}]
  OBVIOUS
<1>5. /\ j \in AlarmJob /\ j.project = k.project /\ j.run = k.run
      /\ j.baseline = k.baseline /\ j.regressed \subseteq k.regressed
  BY <1>4 DEF AlarmJob
<1>6. CASE k.regressed = {t}
  BY <1>1, <1>2, <1>3, <1>6 DEF AfterRecording
<1>7. CASE k.regressed # {t}
  <2>1. job' = [job EXCEPT ![w] = j]
    BY <1>2, <1>3, <1>4, <1>7
  <2> QED BY <1>1, <1>2, <1>3, <1>5, <2>1 DEF AfterRecording
<1> QED BY <1>6, <1>7

LEMMA LoadDoes ==
  ASSUME TypeOK, NEW w \in Worker, NEW i \in DOMAIN findings, NEW status \in Targets,
         LoadFinding(w, i, status)
  PROVE  \E j \in PatchJob : job' = [job EXCEPT ![w] = j] /\ j.id = i
<1>1. PICK j : j = [do |-> "patch", id |-> i, status |-> status, loaded |-> findings[i].status]
  OBVIOUS
<1>2. findings[i] \in Finding /\ i \in Nat
  BY DEF TypeOK
<1>3. j \in PatchJob
  BY <1>1, <1>2, SyncAssumption DEF PatchJob, Finding
<1> QED BY <1>1, <1>3 DEF LoadFinding

\* A status update changes no more of the table than the status of one row.
LEMMA PatchDoes ==
  ASSUME TypeOK, NEW w \in Worker, PatchFinding(w)
  PROVE  /\ job[w] \in PatchJob
         /\ job' = [job EXCEPT ![w] = Idle]
         /\ findings' \in Seq(Finding) /\ DOMAIN findings' = DOMAIN findings
         /\ \A i \in DOMAIN findings :
              /\ findings'[i].project = findings[i].project
              /\ findings'[i].test = findings[i].test
              /\ \/ findings'[i].status = findings[i].status
                 \/ i = job[w].id /\ findings'[i].status = job[w].status
<1>1. job[w] \in PatchJob
  BY JobKinds DEF TypeOK, PatchFinding
<1>2. CASE findings' = findings
  BY <1>1, <1>2 DEF TypeOK, PatchFinding
<1>3. CASE job[w].id \in DOMAIN findings /\ findings' # findings
  <2>1. PICK i \in DOMAIN findings : i = job[w].id
    BY <1>3
  <2>2. findings[i] \in Finding
    BY DEF TypeOK
  <2>3. PICK row : row = [findings[i] EXCEPT !.status = job[w].status]
    OBVIOUS
  <2>4. /\ row \in Finding /\ row.project = findings[i].project
        /\ row.test = findings[i].test /\ row.status = job[w].status
    BY <1>1, <2>2, <2>3 DEF Finding, PatchJob
  <2>5. findings' = [findings EXCEPT ![i] = row]
    BY <1>3, <2>1, <2>3 DEF PatchFinding, UpdateStatus
  <2> QED BY <1>1, <2>1, <2>4, <2>5 DEF TypeOK, PatchFinding
<1>4. CASE job[w].id \notin DOMAIN findings
  BY <1>2, <1>4 DEF PatchFinding, UpdateStatus, TypeOK
<1> QED BY <1>2, <1>3, <1>4

LEMMA ChooseDoes ==
  ASSUME TypeOK, NEW w \in Worker, NEW p \in Project, NEW named \in 0..Len(runs),
         ChooseRun(w, p, named)
  PROVE  \E j \in PinJob : job' = [job EXCEPT ![w] = j] /\ OwnRun(j.project, j.run)
<1> DEFINE r == Target(p, named)
<1>1. OwnRun(p, r) /\ job' = [job EXCEPT ![w] = [do |-> "pin", project |-> p, run |-> r]]
  BY DEF ChooseRun
<1>2. r \in Nat
  BY <1>1 DEF OwnRun, TypeOK
<1>3. PICK j : j = [do |-> "pin", project |-> p, run |-> r]
  OBVIOUS
<1>4. j \in PinJob
  BY <1>2, <1>3 DEF PinJob
<1> QED BY <1>1, <1>3, <1>4

LEMMA PinDoes ==
  ASSUME TypeOK, NEW w \in Worker, PinBaseline(w)
  PROVE  /\ job[w] \in PinJob
         /\ job' = [job EXCEPT ![w] = Idle]
         /\ \E row \in Baseline : /\ baselines' = Append(baselines, row)
                                  /\ row.project = job[w].project /\ row.run = job[w].run
<1>1. job[w] \in PinJob
  BY JobKinds DEF TypeOK, PinBaseline
<1>2. [project |-> job[w].project, run |-> job[w].run] \in Baseline
  BY <1>1 DEF PinJob, Baseline
<1> QED BY <1>1, <1>2 DEF PinBaseline
-----------------------------------------------------------------------------
(* Type correctness                                                        *)

LEMMA EventTypes ==
  ASSUME TypeOK
  PROVE  /\ \A i \in DOMAIN findings : OpenedEvent(i) \in Event
         /\ \A p \in Project, t \in Test, b \in Nat, r \in Nat :
              RegressionEvent(p, t, b, r) \in Event
<1>1. ASSUME NEW i \in DOMAIN findings PROVE OpenedEvent(i) \in Event
  <2>1. findings[i] \in Finding /\ i \in Nat
    BY DEF TypeOK
  <2> QED BY <2>1, SyncAssumption DEF OpenedEvent, Event, Finding
<1>2. ASSUME NEW p \in Project, NEW t \in Test, NEW b \in Nat, NEW r \in Nat
      PROVE  RegressionEvent(p, t, b, r) \in Event
  BY SyncAssumption DEF RegressionEvent, Event
<1> QED BY <1>1, <1>2

LEMMA JobTypes ==
  ASSUME TypeOK, AllKnow, [Next]_vars
  PROVE  job' \in [Worker -> Job]
<1>1. ASSUME NEW w \in Worker, NEW j \in Job, job' = [job EXCEPT ![w] = j]
      PROVE  job' \in [Worker -> Job]
  BY <1>1, JobSet
<1>2. ASSUME NEW w \in Worker, job' = [job EXCEPT ![w] = Idle]
      PROVE  job' \in [Worker -> Job]
  BY <1>1, <1>2, IdleJob
<1>3. CheckJob \cup RecordJob \cup ReportJob \cup AlarmJob \cup PatchJob \cup PinJob
        \subseteq Job
  BY DEF Job
<1>4. ASSUME NEW w \in Worker, NEW p \in Project, NEW suite \in Suites, RunSuite(w, p, suite)
      PROVE  job' \in [Worker -> Job]
  BY <1>1, <1>3, <1>4, RunSuiteDoes
<1>5. ASSUME NEW w \in Worker, CheckOne(w) PROVE job' \in [Worker -> Job]
  BY <1>1, <1>3, <1>5, CheckOneDoes
<1>6. ASSUME NEW w \in Worker, SaveFindings(w) PROVE job' \in [Worker -> Job]
  BY <1>1, <1>3, <1>6, SaveDoes
<1>7. ASSUME NEW w \in Worker, RecordRun(w) PROVE job' \in [Worker -> Job]
  BY <1>1, <1>3, <1>7, RecordDoes
<1>8. ASSUME NEW w \in Worker, ReportFinding(w) PROVE job' \in [Worker -> Job]
  BY <1>1, <1>3, <1>8, ReportDoes
<1>9. ASSUME NEW w \in Worker, CompareWithBaseline(w) PROVE job' \in [Worker -> Job]
  BY <1>1, <1>2, <1>3, <1>9, CompareDoes
<1>10. ASSUME NEW w \in Worker, ReportRegression(w) PROVE job' \in [Worker -> Job]
  BY <1>1, <1>2, <1>3, <1>10, AlarmDoes
<1>11. ASSUME NEW w \in Worker, NEW i \in DOMAIN findings, NEW status \in Targets,
              LoadFinding(w, i, status)
       PROVE  job' \in [Worker -> Job]
  BY <1>1, <1>3, <1>11, LoadDoes
<1>12. ASSUME NEW w \in Worker, PatchFinding(w) \/ PinBaseline(w) \/ Die(w)
       PROVE  job' \in [Worker -> Job]
  BY <1>2, <1>12 DEF PatchFinding, PinBaseline, Die
<1>13. ASSUME NEW w \in Worker, NEW p \in Project, NEW named \in 0..Len(runs),
              ChooseRun(w, p, named)
       PROVE  job' \in [Worker -> Job]
  BY <1>1, <1>3, <1>13, ChooseDoes
<1>14. CASE UNCHANGED vars
  BY <1>14 DEF vars, TypeOK
<1> QED
  BY <1>4, <1>5, <1>6, <1>7, <1>8, <1>9, <1>10, <1>11, <1>12, <1>13, <1>14 DEF Next, Sync

LEMMA TableTypes ==
  ASSUME TypeOK, AllKnow, [Next]_vars
  PROVE  findings' \in Seq(Finding) /\ runs' \in Seq(Run) /\ baselines' \in Seq(Baseline)
<1> DEFINE G == findings' \in Seq(Finding) /\ runs' \in Seq(Run) /\ baselines' \in Seq(Baseline)
<1>1. ASSUME NEW w \in Worker, SaveFindings(w) PROVE G
  <2>1. PICK rows \in NewFindings(job[w].project, job[w].staged) : findings' = findings \o rows
    BY <1>1, SaveDoes
  <2>2. rows \in Seq(Finding)
    BY <1>1, NewRows, SaveDoes DEF CheckJob
  <2> QED BY <1>1, <2>1, <2>2, Joined DEF TypeOK, SaveFindings
<1>2. ASSUME NEW w \in Worker, RecordRun(w) PROVE G
  <2>1. runs' = runs \/ \E row \in Run : runs' = Append(runs, row)
    BY <1>2, RecordDoes
  <2>2. runs' \in Seq(Run)
    <3>1. ASSUME NEW row \in Run, runs' = Append(runs, row) PROVE runs' \in Seq(Run)
      BY <3>1, Appended DEF TypeOK
    <3> QED BY <2>1, <3>1 DEF TypeOK
  <2> QED BY <1>2, <2>2 DEF TypeOK, RecordRun
<1>3. ASSUME NEW w \in Worker, PatchFinding(w) PROVE G
  BY <1>3, PatchDoes DEF TypeOK, PatchFinding
<1>4. ASSUME NEW w \in Worker, PinBaseline(w) PROVE G
  <2>1. \E row \in Baseline : baselines' = Append(baselines, row)
    BY <1>4, PinDoes
  <2>2. baselines' \in Seq(Baseline)
    BY <2>1, Appended DEF TypeOK
  <2> QED BY <1>4, <2>2 DEF TypeOK, PinBaseline
<1>5. ASSUME UNCHANGED tables PROVE G
  BY <1>5 DEF TypeOK, tables
<1> HIDE DEF G
<1>6. G
  BY <1>1, <1>2, <1>3, <1>4, <1>5
  DEF Next, Sync, vars, tables, RunSuite, CheckOne, ReportFinding, CompareWithBaseline,
      ReportRegression, LoadFinding, ChooseRun, Die
<1> QED BY <1>6 DEF G

LEMMA CounterTypes ==
  ASSUME TypeOK, [Next]_vars
  PROVE  clock' \in 0..MaxSyncs /\ patches' \in 0..MaxPatches /\ failures' \in 0..MaxFailures
<1> DEFINE G == /\ clock' \in 0..MaxSyncs /\ patches' \in 0..MaxPatches
                /\ failures' \in 0..MaxFailures
<1>0. MaxSyncs \in Nat /\ MaxPatches \in Nat /\ MaxFailures \in Nat
  BY SyncAssumption
<1>1. ASSUME clock' = clock \/ (clock < MaxSyncs /\ clock' = clock + 1),
             patches' = patches \/ (patches < MaxPatches /\ patches' = patches + 1),
             failures' = failures \/ (failures < MaxFailures /\ failures' = failures + 1)
      PROVE  G
  BY <1>0, <1>1 DEF TypeOK
<1> HIDE DEF G
<1>2. ASSUME NEW w \in Worker, NEW p \in Project, NEW suite \in Suites, RunSuite(w, p, suite)
      PROVE  G
  BY <1>1, <1>2 DEF RunSuite
<1>3. ASSUME NEW w \in Worker, Sync(w) PROVE G
  BY <1>1, <1>3 DEF Sync, CheckOne, SaveFindings, RecordRun, ReportFinding,
                    CompareWithBaseline, ReportRegression
<1>4. ASSUME NEW w \in Worker, NEW i \in DOMAIN findings, NEW status \in Targets,
             LoadFinding(w, i, status)
      PROVE  G
  BY <1>1, <1>4 DEF LoadFinding
<1>5. ASSUME NEW w \in Worker, PatchFinding(w) \/ PinBaseline(w) \/ Die(w) PROVE G
  BY <1>1, <1>5 DEF PatchFinding, PinBaseline, Die
<1>6. ASSUME NEW w \in Worker, NEW p \in Project, NEW named \in 0..Len(runs),
             ChooseRun(w, p, named)
      PROVE  G
  BY <1>1, <1>6 DEF ChooseRun
<1>7. ASSUME UNCHANGED vars PROVE G
  BY <1>1, <1>7 DEF vars
<1>8. G
  BY <1>2, <1>3, <1>4, <1>5, <1>6, <1>7 DEF Next
<1> QED BY <1>8 DEF G

LEMMA EventsTyped ==
  ASSUME TypeOK, AllKnow, [Next]_vars
  PROVE  events' \subseteq Event
<1>1. ASSUME NEW w \in Worker, ReportFinding(w) PROVE events' \subseteq Event
  <2>1. PICK i \in job[w].opened : events' \subseteq events \cup {OpenedEvent(i)}
    BY <1>1, ReportDoes
  <2>2. i \in DOMAIN findings
    BY <1>1 DEF ReportFinding, AllKnow, Knows
  <2> QED BY <2>1, <2>2, EventTypes DEF TypeOK
<1>2. ASSUME NEW w \in Worker, ReportRegression(w) PROVE events' \subseteq Event
  <2>1. PICK t \in job[w].regressed :
          events' \subseteq events \cup
            {RegressionEvent(job[w].project, t, job[w].baseline, job[w].run)}
    BY <1>2, AlarmDoes
  <2>2. /\ job[w].project \in Project /\ t \in Test
        /\ job[w].baseline \in Nat /\ job[w].run \in Nat
    BY <1>2, AlarmDoes DEF AlarmJob
  <2> QED BY <2>1, <2>2, EventTypes DEF TypeOK
<1>3. CASE UNCHANGED events
  BY <1>3 DEF TypeOK
<1> QED
  BY <1>1, <1>2, <1>3
  DEF Next, Sync, vars, RunSuite, CheckOne, SaveFindings, RecordRun, CompareWithBaseline,
      LoadFinding, PatchFinding, ChooseRun, PinBaseline, Die

LEMMA HistoryTyped ==
  ASSUME TypeOK, AllKnow, [Next]_vars
  PROVE  /\ lost' \subseteq Nat /\ everResolved' \subseteq Nat
         /\ closedSince' \in [Worker -> SUBSET Nat]
<1> DEFINE G == /\ lost' \subseteq Nat /\ everResolved' \subseteq Nat
                /\ closedSince' \in [Worker -> SUBSET Nat]
<1>1. ASSUME NEW w \in Worker, ReportFinding(w) PROVE G
  <2>1. PICK i \in job[w].opened : lost' \subseteq lost \cup {i}
    BY <1>1, ReportDoes
  <2>2. job[w].opened \subseteq Nat
    BY <1>1, ReportDoes DEF ReportJob
  <2> QED BY <1>1, <2>1, <2>2 DEF TypeOK, ReportFinding
<1>2. ASSUME NEW w \in Worker, PatchFinding(w) PROVE G
  <2>1. job[w].id \in Nat
    BY <1>2, PatchDoes DEF PatchJob
  <2> QED BY <1>2, <2>1 DEF TypeOK, PatchFinding
<1>3. ASSUME NEW w \in Worker, Die(w) PROVE G
  <2>1. job[w].do \in {"record", "report"} => job[w].opened \subseteq Nat
    BY JobKinds DEF TypeOK, RecordJob, ReportJob
  <2> QED BY <1>3, <2>1 DEF TypeOK, Die
<1>4. ASSUME NEW w \in Worker, NEW p \in Project, NEW suite \in Suites, RunSuite(w, p, suite)
      PROVE  G
  BY <1>4 DEF TypeOK, RunSuite
<1>5. ASSUME NEW w \in Worker, CompareWithBaseline(w) PROVE G
  BY <1>5 DEF TypeOK, CompareWithBaseline
<1>6. ASSUME UNCHANGED history PROVE G
  BY <1>6 DEF TypeOK, history
<1> HIDE DEF G
<1>7. G
  BY <1>1, <1>2, <1>3, <1>4, <1>5, <1>6
  DEF Next, Sync, vars, history, CheckOne, SaveFindings, RecordRun, ReportRegression,
      LoadFinding, ChooseRun, PinBaseline
<1> QED BY <1>7 DEF G

LEMMA TypePreserved == TypeOK /\ AllKnow /\ [Next]_vars => TypeOK'
  BY JobTypes, TableTypes, CounterTypes, EventsTyped, HistoryTyped DEF TypeOK

-----------------------------------------------------------------------------
(* Tables only grow                                                        *)

\* Rows are only ever added and keep what they belong to; events are never taken back.
Grown ==
  /\ \A i \in DOMAIN findings : /\ i \in DOMAIN findings'
                                /\ findings'[i].project = findings[i].project
                                /\ findings'[i].test = findings[i].test
  /\ \A r \in DOMAIN runs : r \in DOMAIN runs' /\ runs'[r] = runs[r]
  /\ \A b \in DOMAIN baselines : b \in DOMAIN baselines' /\ baselines'[b] = baselines[b]
  /\ events \subseteq events'

LEMMA TablesGrow ==
  ASSUME TypeOK, AllKnow, [Next]_vars
  PROVE  Grown
<1>1. ASSUME NEW w \in Worker, SaveFindings(w) PROVE Grown
  <2>1. PICK rows \in NewFindings(job[w].project, job[w].staged) : findings' = findings \o rows
    BY <1>1, SaveDoes
  <2>2. rows \in Seq(Finding)
    BY <1>1, NewRows, SaveDoes DEF CheckJob
  <2>3. \A i \in DOMAIN findings : i \in DOMAIN findings' /\ findings'[i] = findings[i]
    BY <2>1, <2>2, Joined DEF TypeOK
  <2> QED BY <1>1, <2>3 DEF SaveFindings, Grown
<1>2. ASSUME NEW w \in Worker, RecordRun(w) PROVE Grown
  <2>1. runs' = runs \/ \E row \in Run : runs' = Append(runs, row)
    BY <1>2, RecordDoes
  <2>2. \A r \in DOMAIN runs : r \in DOMAIN runs' /\ runs'[r] = runs[r]
    <3>1. ASSUME NEW row \in Run, runs' = Append(runs, row)
          PROVE  \A r \in DOMAIN runs : r \in DOMAIN runs' /\ runs'[r] = runs[r]
      BY <3>1, Appended DEF TypeOK
    <3> QED BY <2>1, <3>1
  <2> QED BY <1>2, <2>2 DEF RecordRun, Grown
<1>3. ASSUME NEW w \in Worker, PatchFinding(w) PROVE Grown
  BY <1>3, PatchDoes DEF PatchFinding, Grown
<1>4. ASSUME NEW w \in Worker, PinBaseline(w) PROVE Grown
  <2>1. \E row \in Baseline : baselines' = Append(baselines, row)
    BY <1>4, PinDoes
  <2>2. \A b \in DOMAIN baselines : b \in DOMAIN baselines' /\ baselines'[b] = baselines[b]
    BY <2>1, Appended DEF TypeOK
  <2> QED BY <1>4, <2>2 DEF PinBaseline, Grown
<1>5. ASSUME UNCHANGED tables, events \subseteq events' PROVE Grown
  BY <1>5 DEF tables, Grown
<1>6. ASSUME NEW w \in Worker, ReportFinding(w) PROVE Grown
  BY <1>5, <1>6, ReportDoes DEF ReportFinding
<1>7. ASSUME NEW w \in Worker, ReportRegression(w) PROVE Grown
  BY <1>5, <1>7, AlarmDoes DEF ReportRegression
<1>8. ASSUME UNCHANGED <<tables, events>> PROVE Grown
  BY <1>5, <1>8
<1>9. ASSUME UNCHANGED vars PROVE Grown
  BY <1>8, <1>9 DEF vars, tables
<1> QED
  BY <1>1, <1>2, <1>3, <1>4, <1>6, <1>7, <1>8, <1>9
  DEF Next, Sync, RunSuite, CheckOne, CompareWithBaseline, LoadFinding, ChooseRun, Die

-----------------------------------------------------------------------------
(* Every step keeps what the threads know                                  *)

LEMMA KnowsStays ==
  ASSUME TypeOK, Grown, NEW j \in Job, Knows(j), BaselinesPinned
  PROVE  Knows(j)'
<1>1. j.do \in {"record", "report"} =>
        \A i \in j.opened : i \in DOMAIN findings' /\ findings'[i].project = j.project
  BY DEF Knows, Grown
<1>2. j.do = "record" => \A i \in j.opened : findings'[i].test \in Failed(j.result)
  BY DEF Knows, Grown
<1>3. \A p, r : OwnRun(p, r) => OwnRun(p, r)'
  BY DEF Grown, OwnRun
<1>4. ASSUME j.do = "alarm"
      PROVE  /\ OwnRun(j.project, j.run)'
             /\ j.baseline \in DOMAIN baselines'
             /\ baselines'[j.baseline].project = j.project
             /\ baselines'[j.baseline].run # j.run
             /\ j.regressed \subseteq
                  Regressions(runs'[baselines'[j.baseline].run].result, runs'[j.run].result)
  <2>1. /\ OwnRun(j.project, j.run) /\ j.baseline \in DOMAIN baselines
        /\ baselines[j.baseline].run \in DOMAIN runs
    BY <1>4 DEF Knows, BaselinesPinned
  <2>2. /\ baselines'[j.baseline] = baselines[j.baseline] /\ runs'[j.run] = runs[j.run]
        /\ runs'[baselines[j.baseline].run] = runs[baselines[j.baseline].run]
        /\ j.baseline \in DOMAIN baselines'
    BY <2>1 DEF Grown, OwnRun
  <2> QED BY <1>3, <1>4, <2>1, <2>2 DEF Knows
<1> QED BY <1>1, <1>2, <1>3, <1>4 DEF Knows, Grown

LEMMA PinnedKept ==
  ASSUME TypeOK, AllKnow, BaselinesPinned, [Next]_vars
  PROVE  BaselinesPinned'
<1>0. Grown
  BY TablesGrow
<1>1. ASSUME NEW w \in Worker, PinBaseline(w) PROVE BaselinesPinned'
  <2>1. PICK row \in Baseline : /\ baselines' = Append(baselines, row)
                                /\ row.project = job[w].project /\ row.run = job[w].run
    BY <1>1, PinDoes
  <2>2. row.run \in DOMAIN runs /\ runs[row.run].project = row.project
    BY <1>1, <2>1 DEF PinBaseline, AllKnow, Knows, OwnRun
  <2>3. /\ DOMAIN baselines' = DOMAIN baselines \cup {Len(baselines) + 1}
        /\ \A b \in DOMAIN baselines : baselines'[b] = baselines[b]
        /\ baselines'[Len(baselines) + 1] = row
    BY <2>1, Appended DEF TypeOK
  <2> QED BY <1>0, <2>2, <2>3 DEF Grown, BaselinesPinned
<1>2. CASE UNCHANGED baselines
  BY <1>0, <1>2 DEF Grown, BaselinesPinned
<1> QED
  BY <1>1, <1>2
  DEF Next, Sync, vars, tables, RunSuite, CheckOne, SaveFindings, RecordRun, ReportFinding,
      CompareWithBaseline, ReportRegression, LoadFinding, PatchFinding, ChooseRun, Die

LEMMA NextKnown ==
  ASSUME TypeOK, Grown, BaselinesPinned, AllKnow,
         NEW w \in Worker, NEW j \in Job, job' = [job EXCEPT ![w] = j], Knows(j)'
  PROVE  AllKnow'
<1>1. ASSUME NEW v \in Worker PROVE Knows(job[v])'
  <2>1. PICK k \in Job : k = job'[v] /\ (k = j \/ k = job[v])
    BY JobSet
  <2>2. Knows(k)'
    BY <2>1, KnowsStays DEF TypeOK, AllKnow
  <2> QED BY <2>1, <2>2 DEF Knows
<1> QED BY <1>1 DEF AllKnow
LEMMA KnowledgeKept == TypeOK /\ AllKnow /\ BaselinesPinned /\ [Next]_vars => AllKnow'
<1> SUFFICES ASSUME TypeOK, AllKnow, BaselinesPinned, [Next]_vars PROVE AllKnow'
  OBVIOUS
<1>0. Grown
  BY TablesGrow
<1>j. CheckJob \cup RecordJob \cup ReportJob \cup AlarmJob \cup PatchJob \cup PinJob
        \subseteq Job
  BY DEF Job
<1>i. ASSUME NEW w \in Worker, job' = [job EXCEPT ![w] = Idle] PROVE AllKnow'
  <2>1. Knows(Idle)'
    BY DEF Knows, Idle
  <2> QED BY <1>0, <1>i, <2>1, IdleJob, NextKnown
<1>1. ASSUME NEW w \in Worker, NEW p \in Project, NEW suite \in Suites, RunSuite(w, p, suite)
      PROVE  AllKnow'
  <2>1. PICK j \in CheckJob : /\ job' = [job EXCEPT ![w] = j]
                              /\ j.todo = Failed(j.result) /\ j.staged = {}
    BY <1>1, RunSuiteDoes
  <2>2. Knows(j)'
    BY <2>1 DEF Knows, CheckJob
  <2> QED BY <1>0, <1>j, <2>1, <2>2, NextKnown
<1>2. ASSUME NEW w \in Worker, CheckOne(w) PROVE AllKnow'
  <2>1. PICK t \in job[w].todo, j \in CheckJob :
              /\ job' = [job EXCEPT ![w] = j] /\ j.result = job[w].result
              /\ j.todo = job[w].todo \ {t} /\ j.staged \subseteq job[w].staged \cup {t}
    BY <1>2, CheckOneDoes
  <2>2. job[w].todo \cup job[w].staged \subseteq Failed(job[w].result)
    BY <1>2 DEF CheckOne, AllKnow, Knows
  <2>3. Knows(j)'
    BY <2>1, <2>2 DEF Knows, CheckJob
  <2> QED BY <1>0, <1>j, <2>1, <2>3, NextKnown
<1>3. ASSUME NEW w \in Worker, SaveFindings(w) PROVE AllKnow'
  <2>0. job[w] \in CheckJob
    BY <1>3, SaveDoes
  <2>1. PICK rows \in NewFindings(job[w].project, job[w].staged), j \in RecordJob :
              /\ findings' = findings \o rows
              /\ job' = [job EXCEPT ![w] = j]
              /\ j.project = job[w].project /\ j.result = job[w].result
              /\ j.opened = DOMAIN findings' \ DOMAIN findings
    BY <1>3, SaveDoes
  <2>2. /\ rows \in Seq(Finding)
        /\ \A k \in DOMAIN rows : rows[k].project = job[w].project /\ rows[k].test \in job[w].staged
    BY <2>0, NewRows DEF CheckJob
  <2>3. job[w].staged \subseteq Failed(job[w].result)
    BY <2>0 DEF AllKnow, Knows, CheckJob
  <2>4. ASSUME NEW i \in j.opened
        PROVE  /\ i \in DOMAIN findings' /\ findings'[i].project = j.project
               /\ findings'[i].test \in Failed(j.result)
    <3>1. i - Len(findings) \in DOMAIN rows /\ findings'[i] = rows[i - Len(findings)]
      BY <2>1, <2>2, Joined DEF TypeOK
    <3> QED BY <2>1, <2>2, <2>3, <3>1
  <2>5. Knows(j)'
    BY <2>4 DEF Knows, RecordJob
  <2> QED BY <1>0, <1>j, <2>1, <2>5, NextKnown
<1>4. ASSUME NEW w \in Worker, RecordRun(w) PROVE AllKnow'
  <2>0. /\ job[w] \in RecordJob
        /\ \A i \in job[w].opened : i \in DOMAIN findings /\ findings[i].project = job[w].project
    BY <1>4, RecordDoes DEF AllKnow, Knows, RecordJob
  <2>1. PICK j \in ReportJob :
              /\ job' = [job EXCEPT ![w] = j]
              /\ j.project = job[w].project /\ j.opened = job[w].opened
              /\ j.run = IF DOMAIN job[w].result = {} THEN 0 ELSE Len(runs) + 1
    BY <1>4, RecordDoes
  <2>2. ASSUME j.run # 0 PROVE OwnRun(j.project, j.run)'
    <3>1. PICK row \in Run : runs' = Append(runs, row) /\ row.project = job[w].project
      BY <1>4, <2>1, <2>2, RecordDoes
    <3>2. j.run \in DOMAIN runs' /\ runs'[j.run] = row
      BY <2>1, <2>2, <3>1, Appended DEF TypeOK
    <3> QED BY <2>1, <3>1, <3>2 DEF OwnRun
  <2>3. Knows(j)'
    BY <1>0, <2>0, <2>1, <2>2 DEF Knows, ReportJob, Grown
  <2> QED BY <1>0, <1>j, <2>1, <2>3, NextKnown
<1>5. ASSUME NEW w \in Worker, ReportFinding(w) PROVE AllKnow'
  <2>1. PICK i \in job[w].opened, j \in ReportJob :
              /\ job' = [job EXCEPT ![w] = j]
              /\ j.project = job[w].project /\ j.run = job[w].run
              /\ j.opened = job[w].opened \ {i}
    BY <1>5, ReportDoes
  <2>2. Knows(job[w]) /\ job[w].do = "report"
    BY <1>5 DEF AllKnow, ReportFinding
  <2>3. Knows(j)
    BY <2>1, <2>2 DEF Knows, ReportJob
  <2> QED BY <1>0, <1>j, <2>1, <2>3, KnowsStays, NextKnown
<1>6. ASSUME NEW w \in Worker, CompareWithBaseline(w) PROVE AllKnow'
  <2>1. CASE job' = [job EXCEPT ![w] = Idle]
    BY <1>i, <2>1
  <2>2. CASE job' # [job EXCEPT ![w] = Idle]
    <3>0. job[w] \in ReportJob /\ (job[w].run # 0 => OwnRun(job[w].project, job[w].run))
      BY <1>6, CompareDoes DEF AllKnow, Knows, ReportJob
    <3> DEFINE b == NewestBaseline(job[w].project)
    <3>1. PICK j \in AlarmJob :
                /\ job' = [job EXCEPT ![w] = j]
                /\ j.project = job[w].project /\ j.run = job[w].run /\ j.baseline = b
                /\ b # 0 /\ job[w].run # 0 /\ baselines[b].run # job[w].run
                /\ j.regressed = Regressions(runs[baselines[b].run].result,
                                             runs[job[w].run].result)
      BY <1>6, <2>2, CompareDoes
    <3>2. b \in DOMAIN baselines /\ baselines[b].project = job[w].project
      BY <3>0, <3>1, NewestIsOwn DEF ReportJob
    <3> HIDE DEF b
    <3>3. Knows(j)
      BY <3>0, <3>1, <3>2 DEF Knows, AlarmJob
    <3> QED BY <1>0, <1>j, <3>1, <3>3, KnowsStays, NextKnown
  <2> QED BY <2>1, <2>2
<1>7. ASSUME NEW w \in Worker, ReportRegression(w) PROVE AllKnow'
  <2>1. CASE job' = [job EXCEPT ![w] = Idle]
    BY <1>i, <2>1
  <2>2. CASE job' # [job EXCEPT ![w] = Idle]
    <3>1. PICK j \in AlarmJob : /\ job' = [job EXCEPT ![w] = j]
                                /\ j.project = job[w].project /\ j.run = job[w].run
                                /\ j.baseline = job[w].baseline
                                /\ j.regressed \subseteq job[w].regressed
      BY <1>7, <2>2, AlarmDoes
    <3>2. Knows(job[w]) /\ job[w].do = "alarm"
      BY <1>7 DEF AllKnow, ReportRegression
    <3>3. Knows(j)
      BY <3>1, <3>2 DEF Knows, AlarmJob
    <3> QED BY <1>0, <1>j, <3>1, <3>3, KnowsStays, NextKnown
  <2> QED BY <2>1, <2>2
<1>8. ASSUME NEW w \in Worker, NEW i \in DOMAIN findings, NEW status \in Targets,
             LoadFinding(w, i, status)
      PROVE  AllKnow'
  <2>1. PICK j \in PatchJob : job' = [job EXCEPT ![w] = j] /\ j.id = i
    BY <1>8, LoadDoes
  <2>2. Knows(j)
    BY <2>1 DEF Knows, PatchJob
  <2> QED BY <1>0, <1>j, <2>1, <2>2, KnowsStays, NextKnown
<1>9. ASSUME NEW w \in Worker, PatchFinding(w) \/ PinBaseline(w) \/ Die(w) PROVE AllKnow'
  BY <1>i, <1>9 DEF PatchFinding, PinBaseline, Die
<1>10. ASSUME NEW w \in Worker, NEW p \in Project, NEW named \in 0..Len(runs),
              ChooseRun(w, p, named)
       PROVE  AllKnow'
  <2>1. PICK j \in PinJob : job' = [job EXCEPT ![w] = j] /\ OwnRun(j.project, j.run)
    BY <1>10, ChooseDoes
  <2>2. Knows(j)
    BY <2>1 DEF Knows, PinJob
  <2> QED BY <1>0, <1>j, <2>1, <2>2, KnowsStays, NextKnown
<1>11. CASE UNCHANGED vars
  BY <1>11 DEF vars, AllKnow, Knows, OwnRun
<1> QED
  BY <1>1, <1>2, <1>3, <1>4, <1>5, <1>6, <1>7, <1>8, <1>9, <1>10, <1>11 DEF Next, Sync

\* The inductive invariant.
Safe == TypeOK /\ AllKnow /\ BaselinesPinned

LEMMA SafeSpec == Spec => []Safe
<1>1. Init => Safe
  BY SyncAssumption, IdleJob
  DEF Init, Safe, TypeOK, AllKnow, Knows, BaselinesPinned, Idle
<1>2. Safe /\ [Next]_vars => Safe'
  BY TypePreserved, KnowledgeKept, PinnedKept DEF Safe
<1> QED BY <1>1, <1>2, PTL DEF Spec

\* The tables and the threads always hold what they may hold.
THEOREM TypeCorrect == Spec => []TypeOK
<1>1. Safe => TypeOK
  BY DEF Safe
<1> QED BY <1>1, SafeSpec, PTL

-----------------------------------------------------------------------------
(* History, baselines and regressions                                      *)

\* A baseline points at a run of its own project, whatever happened since it was chosen.
THEOREM BaselinesStayPinned == Spec => []BaselinesPinned
<1>1. Safe => BaselinesPinned
  BY DEF Safe
<1> QED BY <1>1, SafeSpec, PTL

\* No sync removes, moves, reopens or overwrites a finding.
THEOREM HistoryStays == Spec => HistoryKept
<1> DEFINE A == \A i \in DOMAIN findings :
                  /\ i \in DOMAIN findings'
                  /\ findings'[i].project = findings[i].project
                  /\ findings'[i].test = findings[i].test
                  /\ findings'[i].status # findings[i].status =>
                       \E w \in Worker : /\ job[w].do = "patch" /\ job[w].id = i
                                         /\ job[w].status = findings'[i].status
<1>1. ASSUME Safe, [Next]_vars PROVE A
  <2>0. Grown
    BY <1>1, TablesGrow DEF Safe
  <2> SUFFICES ASSUME NEW i \in DOMAIN findings, findings'[i].status # findings[i].status
               PROVE  \E w \in Worker : /\ job[w].do = "patch" /\ job[w].id = i
                                        /\ job[w].status = findings'[i].status
    BY <2>0 DEF Grown
  <2>1. ASSUME NEW w \in Worker, PatchFinding(w)
        PROVE  job[w].do = "patch" /\ job[w].id = i /\ job[w].status = findings'[i].status
    BY <1>1, <2>1, PatchDoes DEF Safe, PatchFinding
  <2>2. ASSUME NEW w \in Worker, SaveFindings(w) PROVE FALSE
    <3>1. PICK rows \in NewFindings(job[w].project, job[w].staged) :
            findings' = findings \o rows
      BY <1>1, <2>2, SaveDoes DEF Safe
    <3>2. rows \in Seq(Finding)
      BY <1>1, <2>2, NewRows, SaveDoes DEF CheckJob, Safe
    <3>3. findings'[i] = findings[i]
      BY <1>1, <3>1, <3>2, Joined DEF TypeOK, Safe
    <3> QED BY <3>3
  <2>3. findings' # findings
    OBVIOUS
  <2> QED
    BY <1>1, <2>1, <2>2, <2>3
    DEF Next, Sync, vars, tables, RunSuite, CheckOne, RecordRun, ReportFinding,
        CompareWithBaseline, ReportRegression, LoadFinding, ChooseRun, PinBaseline, Die
<1>2. Safe /\ [Next]_vars => [A]_vars
  BY <1>1
<1> HIDE DEF A
<1>3. Spec => [][A]_vars
  BY <1>2, SafeSpec, PTL DEF Spec
<1> QED BY <1>3 DEF HistoryKept, A

\* A reported regression is one: PASS in the pinned run, FAIL in the reported one, all of
\* them of one project.
Sound(e) ==
  /\ e.run \in DOMAIN runs /\ e.baseline \in DOMAIN baselines
  /\ runs[e.run].project = e.project
  /\ baselines[e.baseline].project = e.project
  /\ baselines[e.baseline].run # e.run
  /\ baselines[e.baseline].run \in DOMAIN runs
  /\ runs[baselines[e.baseline].run].project = e.project
  /\ runs[baselines[e.baseline].run].result[e.test] = "PASS"
  /\ runs[e.run].result[e.test] = "FAIL"

AllSound == \A e \in events : e.type = "regression_detected" => Sound(e)

LEMMA SoundStays ==
  ASSUME Grown, NEW e, Sound(e)
  PROVE  Sound(e)'
  BY DEF Sound, Grown

LEMMA SoundKept ==
  ASSUME Safe, AllSound, [Next]_vars
  PROVE  AllSound'
<1>0. Grown
  BY TablesGrow DEF Safe
<1>1. ASSUME NEW x, \A e \in events' : e \in events \/ e = x,
             x.type = "regression_detected" => Sound(x)
      PROVE  AllSound'
  <2> SUFFICES ASSUME NEW e \in events', e.type = "regression_detected" PROVE Sound(e)'
    BY DEF AllSound
  <2> QED BY <1>0, <1>1, SoundStays DEF AllSound
<1>2. ASSUME NEW w \in Worker, ReportFinding(w) PROVE AllSound'
  <2>1. PICK i : events' \subseteq events \cup {OpenedEvent(i)}
    BY <1>2, ReportDoes DEF Safe
  <2>2. PICK x : x = OpenedEvent(i)
    OBVIOUS
  <2>3. x.type = "finding_opened"
    BY <2>2 DEF OpenedEvent
  <2> QED BY <1>1, <2>1, <2>2, <2>3
<1>3. ASSUME NEW w \in Worker, ReportRegression(w) PROVE AllSound'
  <2>0. job[w] \in AlarmJob /\ Knows(job[w])
    BY <1>3, AlarmDoes DEF Safe, AllKnow
  <2>1. PICK t \in job[w].regressed :
          events' \subseteq events \cup
            {RegressionEvent(job[w].project, t, job[w].baseline, job[w].run)}
    BY <1>3, AlarmDoes DEF Safe
  <2>2. PICK x : x = RegressionEvent(job[w].project, t, job[w].baseline, job[w].run)
    OBVIOUS
  <2>3. /\ x.project = job[w].project /\ x.test = t /\ x.baseline = job[w].baseline
        /\ x.run = job[w].run
    BY <2>2 DEF RegressionEvent
  <2>4. Sound(x)
    BY <2>0, <2>1, <2>3 DEF Sound, Knows, AlarmJob, OwnRun, Regressions, Safe, BaselinesPinned
  <2> QED BY <1>1, <2>1, <2>2, <2>4
<1>4. CASE UNCHANGED events
  <2> SUFFICES ASSUME NEW e \in events', e.type = "regression_detected" PROVE Sound(e)'
    BY DEF AllSound
  <2> QED BY <1>0, <1>4, SoundStays DEF AllSound
<1> QED
  BY <1>2, <1>3, <1>4
  DEF Next, Sync, vars, RunSuite, CheckOne, SaveFindings, RecordRun, CompareWithBaseline,
      LoadFinding, PatchFinding, ChooseRun, PinBaseline, Die

\* Every reported regression stays true of the rows it names.
THEOREM RegressionsStaySound == Spec => []RegressionsSound
<1>1. Init => AllSound
  BY DEF Init, AllSound
<1>2. Safe /\ AllSound /\ [Next]_vars => AllSound'
  BY SoundKept
<1>3. AllSound => RegressionsSound
  BY DEF AllSound, Sound, RegressionsSound
<1> QED BY <1>1, <1>2, <1>3, SafeSpec, PTL DEF Spec

-----------------------------------------------------------------------------
(* Every opening is accounted for, once                                    *)

\* A job that still has to report finding i.
Carries(j, i) == j.do \in {"record", "report"} /\ i \in j.opened

\* The three places a finding can be in, and none of them.
Told(i) == Openings(i) = {OpenedEvent(i)} /\ i \notin lost /\ Holders(i) = {}
Gone(i) == Openings(i) = {} /\ i \in lost /\ Holders(i) = {}
InHand(i) == Openings(i) = {} /\ i \notin lost /\ \E w \in Worker : Holders(i) = {w}
Unheard(i) == Openings(i) = {} /\ i \notin lost /\ Holders(i) = {}

\* With what holds of the ids no finding has yet, OpeningsAccounted is inductive.
OpeningsInv ==
  \A i \in Nat : IF i \in DOMAIN findings THEN Told(i) \/ Gone(i) \/ InHand(i) ELSE Unheard(i)

LEMMA HoldersAfter ==
  ASSUME TypeOK, NEW w \in Worker, NEW j \in Job, job' = [job EXCEPT ![w] = j], NEW i
  PROVE  Holders(i)' = IF Carries(j, i) THEN Holders(i) \cup {w} ELSE Holders(i) \ {w}
<1>1. job'[w] = j /\ \A v \in Worker : v # w => job'[v] = job[v]
  BY JobSet
<1> QED BY <1>1 DEF Holders, Carries

\* A thread that gives up nothing and takes nothing in hand.
LEMMA HoldersStay ==
  ASSUME TypeOK, NEW w \in Worker, NEW j \in Job, job' = [job EXCEPT ![w] = j], NEW i,
         Carries(j, i) <=> Carries(job[w], i)
  PROVE  Holders(i)' = Holders(i)
<1>1. w \in Holders(i) <=> Carries(job[w], i)
  BY DEF Holders, Carries
<1>2. PICK H : H = Holders(i)
  OBVIOUS
<1>3. Holders(i)' = IF Carries(j, i) THEN H \cup {w} ELSE H \ {w}
  BY <1>2, HoldersAfter
<1> QED BY <1>1, <1>2, <1>3

LEMMA OpenedEventStays ==
  ASSUME Grown, NEW i \in DOMAIN findings
  PROVE  OpenedEvent(i)' = OpenedEvent(i)
  BY DEF Grown, OpenedEvent

\* What a step does not touch stays where it is.
LEMMA UntouchedStays ==
  ASSUME OpeningsInv, Grown, NEW i \in Nat, i \in DOMAIN findings' <=> i \in DOMAIN findings,
         Openings(i)' = Openings(i), i \in lost' <=> i \in lost, Holders(i)' = Holders(i)
  PROVE  IF i \in DOMAIN findings' THEN (Told(i) \/ Gone(i) \/ InHand(i))' ELSE Unheard(i)'
<1>1. CASE i \in DOMAIN findings
  BY <1>1, OpenedEventStays DEF OpeningsInv, Told, Gone, InHand
<1>2. CASE i \notin DOMAIN findings
  BY <1>2 DEF OpeningsInv, Unheard
<1> QED BY <1>1, <1>2

\* A step of a thread that touches no finding.
LEMMA OpeningsRest ==
  ASSUME TypeOK, OpeningsInv, Grown, DOMAIN findings' = DOMAIN findings, lost' = lost,
         \A e \in events' : e \in events \/ e.type # "finding_opened",
         NEW w \in Worker, NEW j \in Job, job' = [job EXCEPT ![w] = j],
         \A i \in Nat : Carries(j, i) <=> Carries(job[w], i)
  PROVE  OpeningsInv'
<1> SUFFICES ASSUME NEW i \in Nat
             PROVE  IF i \in DOMAIN findings' THEN (Told(i) \/ Gone(i) \/ InHand(i))'
                                              ELSE Unheard(i)'
  BY DEF OpeningsInv
<1>1. Openings(i)' = Openings(i)
  BY DEF Grown, Openings
<1>2. Holders(i)' = Holders(i)
  BY HoldersStay
<1> QED BY <1>1, <1>2, UntouchedStays

\* The commit of a sync takes the findings it adds in hand.
LEMMA SaveAccounts ==
  ASSUME TypeOK, OpeningsInv, Grown, NEW w \in Worker, SaveFindings(w)
  PROVE  OpeningsInv'
<1>1. PICK j \in RecordJob : job' = [job EXCEPT ![w] = j]
                             /\ j.opened = DOMAIN findings' \ DOMAIN findings
  BY SaveDoes
<1>2. j \in Job /\ job[w].do = "check" /\ events' = events /\ lost' = lost
  BY <1>1 DEF SaveFindings, Job, history
<1> SUFFICES ASSUME NEW i \in Nat
             PROVE  IF i \in DOMAIN findings' THEN (Told(i) \/ Gone(i) \/ InHand(i))'
                                              ELSE Unheard(i)'
  BY DEF OpeningsInv
<1>3. Openings(i)' = Openings(i)
  BY <1>2 DEF Openings
<1>4. Carries(j, i) <=> i \in DOMAIN findings' \ DOMAIN findings
  BY <1>1 DEF Carries, RecordJob
<1>5. CASE i \in DOMAIN findings' \ DOMAIN findings
  <2>1. Unheard(i) /\ Holders(i)' = {w}
    BY <1>1, <1>2, <1>4, <1>5, HoldersAfter DEF OpeningsInv, Unheard
  <2> QED BY <1>2, <1>3, <1>5, <2>1 DEF Unheard, InHand
<1>6. CASE i \notin DOMAIN findings' \ DOMAIN findings
  <2>1. Holders(i)' = Holders(i)
    BY <1>1, <1>2, <1>4, <1>6, HoldersStay DEF Carries
  <2>2. i \in DOMAIN findings' <=> i \in DOMAIN findings
    BY <1>6 DEF Grown
  <2> QED BY <1>2, <1>3, <2>1, <2>2, UntouchedStays
<1> QED BY <1>5, <1>6

\* A report lets go of one finding, which is then told or gone.
LEMMA ReportAccounts ==
  ASSUME TypeOK, OpeningsInv, Grown, NEW w \in Worker, ReportFinding(w)
  PROVE  OpeningsInv'
<1>1. PICK k \in job[w].opened, j \in ReportJob :
        /\ job' = [job EXCEPT ![w] = j] /\ j.opened = job[w].opened \ {k}
        /\ events \subseteq events' /\ events' \subseteq events \cup {OpenedEvent(k)}
        /\ lost' = IF OpenedEvent(k) \in events' THEN lost ELSE lost \cup {k}
  BY ReportDoes
<1>2. /\ j \in Job /\ k \in Nat /\ job[w].do = "report" /\ j.do = "report"
      /\ findings' = findings
  BY <1>1, ReportDoes DEF ReportFinding, Job, ReportJob, tables
<1>3. w \in Holders(k) /\ Holders(k)' = Holders(k) \ {w}
  <2>1. ~Carries(j, k)
    BY <1>1 DEF Carries
  <2>2. w \in Holders(k)
    BY <1>1, <1>2 DEF Holders
  <2> QED BY <1>1, <1>2, <2>1, <2>2, HoldersAfter
<1>4. k \in DOMAIN findings /\ InHand(k) /\ Holders(k) = {w}
  BY <1>2, <1>3 DEF OpeningsInv, Unheard, Told, Gone, InHand
<1>5. OpenedEvent(k).type = "finding_opened" /\ OpenedEvent(k).finding = k
  BY DEF OpenedEvent
<1>6. OpenedEvent(k)' = OpenedEvent(k)
  BY <1>4, OpenedEventStays
<1>7. Told(k)' \/ Gone(k)'
  <2>1. Holders(k)' = {}
    BY <1>3, <1>4
  <2>2. CASE OpenedEvent(k) \in events'
    <3>1. Openings(k)' = {OpenedEvent(k)}
      BY <1>1, <1>4, <1>5, <2>2 DEF Openings, InHand
    <3> QED BY <1>1, <1>4, <1>6, <2>1, <2>2, <3>1 DEF Told, InHand
  <2>3. CASE OpenedEvent(k) \notin events'
    <3>1. Openings(k)' = {}
      BY <1>1, <1>4, <2>3 DEF Openings, InHand
    <3> QED BY <1>1, <2>1, <2>3, <3>1 DEF Gone
  <2> QED BY <2>2, <2>3
<1>8. ASSUME NEW i \in Nat, i # k
      PROVE  IF i \in DOMAIN findings' THEN (Told(i) \/ Gone(i) \/ InHand(i))' ELSE Unheard(i)'
  <2>1. Openings(i)' = Openings(i)
    BY <1>1, <1>5, <1>8 DEF Openings
  <2>2. Holders(i)' = Holders(i)
    BY <1>1, <1>2, <1>8, HoldersStay DEF Carries
  <2> QED BY <1>1, <1>2, <1>8, <2>1, <2>2, UntouchedStays
<1> QED BY <1>2, <1>4, <1>7, <1>8 DEF OpeningsInv

\* What dies with a request is gone.
LEMMA DeathAccounts ==
  ASSUME TypeOK, OpeningsInv, Grown, NEW w \in Worker, Die(w)
  PROVE  OpeningsInv'
<1>1. /\ job' = [job EXCEPT ![w] = Idle] /\ findings' = findings /\ events' = events
      /\ \A i : i \in lost' <=> i \in lost \/ Carries(job[w], i)
  BY DEF Die, tables, Carries
<1> SUFFICES ASSUME NEW i \in Nat
             PROVE  IF i \in DOMAIN findings' THEN (Told(i) \/ Gone(i) \/ InHand(i))'
                                              ELSE Unheard(i)'
  BY DEF OpeningsInv
<1>2. Openings(i)' = Openings(i)
  BY <1>1 DEF Openings
<1>3. ~Carries(Idle, i)
  BY DEF Carries, Idle
<1>4. CASE Carries(job[w], i)
  <2>1. w \in Holders(i) /\ Holders(i)' = Holders(i) \ {w}
    <3>1. w \in Holders(i)
      BY <1>4 DEF Carries, Holders
    <3> QED BY <1>1, <1>3, <3>1, HoldersAfter, IdleJob
  <2>2. i \in DOMAIN findings /\ InHand(i) /\ Holders(i) = {w}
    BY <2>1 DEF OpeningsInv, Unheard, Told, Gone, InHand
  <2> QED BY <1>1, <1>2, <1>4, <2>1, <2>2 DEF Gone, InHand
<1>5. CASE ~Carries(job[w], i)
  <2>1. Holders(i)' = Holders(i)
    BY <1>1, <1>3, <1>5, HoldersStay, IdleJob
  <2> QED BY <1>1, <1>2, <1>5, <2>1, UntouchedStays
<1> QED BY <1>4, <1>5

LEMMA OpeningsKept == Safe /\ OpeningsInv /\ [Next]_vars => OpeningsInv'
<1> SUFFICES ASSUME Safe, OpeningsInv, [Next]_vars PROVE OpeningsInv'
  OBVIOUS
<1>0. TypeOK /\ AllKnow /\ Grown
  BY TablesGrow DEF Safe
<1>j. CheckJob \cup RecordJob \cup ReportJob \cup AlarmJob \cup PatchJob \cup PinJob \subseteq Job
  BY DEF Job
<1>q. ASSUME NEW w \in Worker, NEW j \in Job, job' = [job EXCEPT ![w] = j],
             \A i \in Nat : Carries(j, i) <=> Carries(job[w], i),
             DOMAIN findings' = DOMAIN findings, lost' = lost, events' = events
      PROVE  OpeningsInv'
  BY <1>0, <1>q, OpeningsRest
<1>1. ASSUME NEW w \in Worker, NEW p \in Project, NEW suite \in Suites, RunSuite(w, p, suite)
      PROVE  OpeningsInv'
  <2>1. PICK j \in CheckJob : job' = [job EXCEPT ![w] = j]
    BY <1>0, <1>1, RunSuiteDoes
  <2>2. \A i \in Nat : ~Carries(j, i) /\ ~Carries(job[w], i)
    BY <1>1, <2>1, IdleJob DEF RunSuite, Carries, CheckJob
  <2>3. findings' = findings /\ lost' = lost /\ events' = events
    BY <1>1 DEF RunSuite, tables
  <2> QED BY <1>j, <1>q, <2>1, <2>2, <2>3
<1>2. ASSUME NEW w \in Worker, CheckOne(w) PROVE OpeningsInv'
  <2>1. PICK j \in CheckJob : job' = [job EXCEPT ![w] = j]
    BY <1>0, <1>2, CheckOneDoes
  <2> QED BY <1>2, <1>j, <1>q, <2>1 DEF CheckOne, Carries, CheckJob, tables, history
<1>3. ASSUME NEW w \in Worker, SaveFindings(w) PROVE OpeningsInv'
  BY <1>0, <1>3, SaveAccounts
<1>4. ASSUME NEW w \in Worker, RecordRun(w) PROVE OpeningsInv'
  <2>1. PICK j \in ReportJob : job' = [job EXCEPT ![w] = j] /\ j.opened = job[w].opened
    BY <1>0, <1>4, RecordDoes
  <2>2. \A i \in Nat : Carries(j, i) <=> Carries(job[w], i)
    BY <1>4, <2>1 DEF RecordRun, Carries, ReportJob
  <2>3. findings' = findings /\ lost' = lost /\ events' = events
    BY <1>4 DEF RecordRun, history
  <2> QED BY <1>j, <1>q, <2>1, <2>2, <2>3
<1>5. ASSUME NEW w \in Worker, ReportFinding(w) PROVE OpeningsInv'
  BY <1>0, <1>5, ReportAccounts
<1>6. ASSUME NEW w \in Worker, CompareWithBaseline(w) PROVE OpeningsInv'
  <2>1. job[w] \in ReportJob /\ job[w].opened = {}
    BY <1>0, <1>6, CompareDoes
  <2>2. PICK j \in Job : job' = [job EXCEPT ![w] = j] /\ j.do \in {"idle", "alarm"}
    BY <1>0, <1>6, <1>j, CompareDoes, IdleJob DEF AlarmJob
  <2>3. \A i \in Nat : ~Carries(j, i) /\ ~Carries(job[w], i)
    BY <2>1, <2>2 DEF Carries
  <2> QED BY <1>6, <1>q, <2>2, <2>3 DEF CompareWithBaseline, tables
<1>7. ASSUME NEW w \in Worker, ReportRegression(w) PROVE OpeningsInv'
  <2>1. PICK e : /\ e.type = "regression_detected"
                 /\ events' \subseteq events \cup {e}
    <3>1. PICK t : events' \subseteq events \cup
                     {RegressionEvent(job[w].project, t, job[w].baseline, job[w].run)}
      BY <1>0, <1>7, AlarmDoes
    <3>2. RegressionEvent(job[w].project, t, job[w].baseline, job[w].run).type
            = "regression_detected"
      BY DEF RegressionEvent
    <3> QED BY <3>1, <3>2
  <2>2. PICK j \in Job : job' = [job EXCEPT ![w] = j] /\ j.do \in {"idle", "alarm"}
    BY <1>0, <1>7, <1>j, AlarmDoes, IdleJob DEF AlarmJob
  <2>3. \A i \in Nat : ~Carries(j, i) /\ ~Carries(job[w], i)
    BY <1>7, <2>2 DEF Carries, ReportRegression
  <2>4. \A x \in events' : x \in events \/ x.type # "finding_opened"
    BY <2>1
  <2>5. DOMAIN findings' = DOMAIN findings /\ lost' = lost
    BY <1>7 DEF ReportRegression, tables, history
  <2> QED BY <1>0, <2>2, <2>3, <2>4, <2>5, OpeningsRest
<1>8. ASSUME NEW w \in Worker, NEW n \in DOMAIN findings, NEW status \in Targets,
             LoadFinding(w, n, status)
      PROVE  OpeningsInv'
  <2>1. PICK j \in PatchJob : job' = [job EXCEPT ![w] = j]
    BY <1>0, <1>8, LoadDoes
  <2>2. \A i \in Nat : ~Carries(j, i) /\ ~Carries(job[w], i)
    BY <1>8, <2>1, IdleJob DEF LoadFinding, Carries, PatchJob
  <2>3. findings' = findings /\ lost' = lost /\ events' = events
    BY <1>8 DEF LoadFinding, tables, history
  <2> QED BY <1>j, <1>q, <2>1, <2>2, <2>3
<1>9. ASSUME NEW w \in Worker, PatchFinding(w) PROVE OpeningsInv'
  <2>1. job' = [job EXCEPT ![w] = Idle] /\ DOMAIN findings' = DOMAIN findings
    BY <1>0, <1>9, PatchDoes
  <2>2. \A i \in Nat : ~Carries(Idle, i) /\ ~Carries(job[w], i)
    BY <1>9, IdleJob DEF PatchFinding, Carries
  <2>3. lost' = lost /\ events' = events
    BY <1>9 DEF PatchFinding
  <2> QED BY <1>q, <2>1, <2>2, <2>3, IdleJob
<1>10. ASSUME NEW w \in Worker, NEW p \in Project, NEW named \in 0..Len(runs),
              ChooseRun(w, p, named)
       PROVE  OpeningsInv'
  <2>1. PICK j \in PinJob : job' = [job EXCEPT ![w] = j]
    BY <1>0, <1>10, ChooseDoes
  <2>2. \A i \in Nat : ~Carries(j, i) /\ ~Carries(job[w], i)
    BY <1>10, <2>1, IdleJob DEF ChooseRun, Carries, PinJob
  <2>3. findings' = findings /\ lost' = lost /\ events' = events
    BY <1>10 DEF ChooseRun, tables, history
  <2> QED BY <1>j, <1>q, <2>1, <2>2, <2>3
<1>11. ASSUME NEW w \in Worker, PinBaseline(w) PROVE OpeningsInv'
  <2>1. \A i \in Nat : ~Carries(Idle, i) /\ ~Carries(job[w], i)
    BY <1>11, IdleJob DEF PinBaseline, Carries
  <2>2. job' = [job EXCEPT ![w] = Idle] /\ findings' = findings /\ lost' = lost /\ events' = events
    BY <1>11 DEF PinBaseline, history
  <2> QED BY <1>q, <2>1, <2>2, IdleJob
<1>12. ASSUME NEW w \in Worker, Die(w) PROVE OpeningsInv'
  BY <1>0, <1>12, DeathAccounts
<1>13. ASSUME UNCHANGED vars PROVE OpeningsInv'
  BY <1>13 DEF vars, OpeningsInv, Told, Gone, InHand, Unheard, Openings, Holders, OpenedEvent
<1> QED
  BY <1>1, <1>2, <1>3, <1>4, <1>5, <1>6, <1>7, <1>8, <1>9, <1>10, <1>11, <1>12, <1>13
  DEF Next, Sync

\* Every finding was reported once, is about to be by one sync, or was lost, and these
\* exclude each other.
THEOREM OpeningsStayAccounted == Spec => []OpeningsAccounted
<1>1. Init => OpeningsInv
  BY DEF Init, OpeningsInv, Unheard, Openings, Holders, Idle
<1>2. Safe /\ OpeningsInv /\ [Next]_vars => OpeningsInv'
  BY OpeningsKept
<1>3. Safe /\ OpeningsInv => OpeningsAccounted
  <2>1. TypeOK => DOMAIN findings \subseteq Nat
    BY DEF TypeOK
  <2> QED BY <2>1 DEF Safe, OpeningsInv, OpeningsAccounted, Told, Gone, InHand
<1> QED BY <1>1, <1>2, <1>3, SafeSpec, PTL DEF Spec

-----------------------------------------------------------------------------
(* Every finding can be traced to a run                                    *)

\* A finding that a step adds is in the hands of the request that added it.
LEMMA AddedIsHeld ==
  ASSUME Safe, [Next]_vars, NEW i \in DOMAIN findings' \ DOMAIN findings
  PROVE  \E w \in Worker : job'[w].do = "record" /\ i \in job'[w].opened
<1>1. ASSUME NEW w \in Worker, SaveFindings(w)
      PROVE  job'[w].do = "record" /\ i \in job'[w].opened
  <2>1. PICK j \in RecordJob : /\ job' = [job EXCEPT ![w] = j]
                               /\ j.opened = DOMAIN findings' \ DOMAIN findings
    BY <1>1, SaveDoes DEF Safe
  <2>2. job'[w] = j
    BY <2>1 DEF Safe, TypeOK
  <2> QED BY <2>1, <2>2 DEF RecordJob
<1>2. ASSUME NEW w \in Worker, PatchFinding(w) PROVE FALSE
  BY <1>2, PatchDoes DEF Safe
<1>3. findings' # findings
  OBVIOUS
<1> QED
  BY <1>1, <1>2, <1>3
  DEF Next, Sync, vars, tables, RunSuite, CheckOne, RecordRun, ReportFinding,
      CompareWithBaseline, ReportRegression, LoadFinding, ChooseRun, PinBaseline, Die

\* A thread moves only by its own steps.
StepOf(w) ==
  \/ \E p \in Project, suite \in Suites : RunSuite(w, p, suite)
  \/ Sync(w)
  \/ \E i \in DOMAIN findings, status \in Targets : LoadFinding(w, i, status)
  \/ PatchFinding(w)
  \/ \E p \in Project, named \in 0..Len(runs) : ChooseRun(w, p, named)
  \/ PinBaseline(w)
  \/ Die(w)

LEMMA OthersRest ==
  ASSUME TypeOK, NEW w \in Worker, NEW v \in Worker, v # w, StepOf(v)
  PROVE  job'[w] = job[w]
<1>1. ASSUME NEW j, job' = [job EXCEPT ![v] = j] PROVE job'[w] = job[w]
  BY <1>1 DEF TypeOK
<1>2. ASSUME CheckOne(v) PROVE job'[w] = job[w]
  BY <1>1, <1>2, CheckOneDoes
<1>3. ASSUME ReportFinding(v) PROVE job'[w] = job[w]
  BY <1>1, <1>3, ReportDoes
<1>4. ASSUME ReportRegression(v) PROVE job'[w] = job[w]
  BY <1>1, <1>4, AlarmDoes
<1>5. ASSUME NEW p \in Project, NEW suite \in Suites, RunSuite(v, p, suite)
      PROVE  job'[w] = job[w]
  BY <1>1, <1>5 DEF RunSuite
<1>6. ASSUME SaveFindings(v) \/ RecordRun(v) \/ CompareWithBaseline(v) PROVE job'[w] = job[w]
  BY <1>1, <1>6 DEF SaveFindings, RecordRun, CompareWithBaseline
<1>7. ASSUME PatchFinding(v) \/ PinBaseline(v) \/ Die(v) PROVE job'[w] = job[w]
  BY <1>1, <1>7 DEF PatchFinding, PinBaseline, Die
<1>8. ASSUME NEW i \in DOMAIN findings, NEW status \in Targets, LoadFinding(v, i, status)
      PROVE  job'[w] = job[w]
  BY <1>1, <1>8 DEF LoadFinding
<1>9. ASSUME NEW p \in Project, NEW named \in 0..Len(runs), ChooseRun(v, p, named)
      PROVE  job'[w] = job[w]
  BY <1>1, <1>9 DEF ChooseRun
<1> QED
  BY <1>2, <1>3, <1>4, <1>5, <1>6, <1>7, <1>8, <1>9 DEF StepOf, Sync

LEMMA OwnSteps ==
  ASSUME TypeOK, [Next]_vars, NEW w \in Worker
  PROVE  job'[w] = job[w] \/ StepOf(w)
<1>1. CASE UNCHANGED vars
  BY <1>1 DEF vars
<1>2. ASSUME Next PROVE \E v \in Worker : StepOf(v)
  BY <1>2 DEF Next, StepOf
<1> QED BY <1>1, <1>2, OthersRest

Backed(i) ==
  \/ \E r \in DOMAIN runs : /\ runs[r].project = findings[i].project
                            /\ findings[i].test \in Failed(runs[r].result)
  \/ \E w \in Worker : job[w].do = "record" /\ i \in job[w].opened

LEMMA BackedStays ==
  ASSUME Safe, [Next]_vars, NEW i \in DOMAIN findings, Backed(i), failures' = 0
  PROVE  Backed(i)'
<1>0. TypeOK /\ Grown
  BY TablesGrow DEF Safe
<1>1. ASSUME NEW r \in DOMAIN runs, runs[r].project = findings[i].project,
             findings[i].test \in Failed(runs[r].result)
      PROVE  Backed(i)'
  BY <1>0, <1>1 DEF Grown, Backed
<1>2. ASSUME NEW w \in Worker, job[w].do = "record", i \in job[w].opened
      PROVE  Backed(i)'
  <2>1. CASE job'[w] = job[w]
    BY <1>2, <2>1 DEF Backed
  <2>2. CASE RecordRun(w)
    <3>1. /\ job[w] \in RecordJob /\ findings[i].test \in Failed(job[w].result)
          /\ findings[i].project = job[w].project
      BY <1>2, <2>2, RecordDoes DEF Safe, AllKnow, Knows
    <3>2. PICK row \in Run : /\ runs' = Append(runs, row) /\ row.project = job[w].project
                             /\ row.result = job[w].result
      BY <1>0, <2>2, <3>1, RecordDoes DEF Failed
    <3>3. PICK n : n = Len(runs) + 1
      OBVIOUS
    <3>4. n \in DOMAIN runs' /\ runs'[n] = row
      BY <1>0, <3>2, <3>3, Appended DEF TypeOK
    <3> QED BY <1>0, <3>1, <3>2, <3>4 DEF Grown, Backed
  <2>3. CASE Die(w)
    <3>1. failures \in Nat /\ failures' = failures + 1
      BY <1>0, <2>3, SyncAssumption DEF TypeOK, Die
    <3> QED BY <3>1
  <2>4. StepOf(w) => RecordRun(w) \/ Die(w)
    <3>1. job[w] # Idle
      BY <1>2 DEF Idle
    <3>2. ~\E p \in Project, suite \in Suites : RunSuite(w, p, suite)
      BY <3>1 DEF RunSuite
    <3>3. ~\E n \in DOMAIN findings, status \in Targets : LoadFinding(w, n, status)
      BY <3>1 DEF LoadFinding
    <3>4. ~\E p \in Project, named \in 0..Len(runs) : ChooseRun(w, p, named)
      BY <3>1 DEF ChooseRun
    <3>5. ~(PatchFinding(w) \/ PinBaseline(w))
      BY <1>2 DEF PatchFinding, PinBaseline
    <3>6. Sync(w) => RecordRun(w)
      BY <1>2 DEF Sync, CheckOne, SaveFindings, ReportFinding, CompareWithBaseline,
                  AllReported, ReportRegression
    <3> QED BY <3>2, <3>3, <3>4, <3>5, <3>6 DEF StepOf
  <2> QED BY <1>0, <2>1, <2>2, <2>3, <2>4, OwnSteps
<1> QED BY <1>1, <1>2 DEF Backed

\* While no request has died, there is a run behind every finding.
THEOREM FindingsAreTraceable == Spec => []TraceableUnlessDied
<1> DEFINE All == failures = 0 => \A i \in DOMAIN findings : Backed(i)
<1>1. Init => All
  BY DEF Init
<1>2. ASSUME Safe, All, [Next]_vars PROVE All'
  <2> SUFFICES ASSUME failures' = 0, NEW i \in DOMAIN findings' PROVE Backed(i)'
    OBVIOUS
  <2>1. CASE i \in DOMAIN findings
    <3>1. failures = 0
      <4>1. failures \in Nat
        BY <1>2, SyncAssumption DEF Safe, TypeOK
      <4>2. failures' = failures \/ \E w \in Worker : Die(w)
        BY <1>2
        DEF Next, Sync, vars, RunSuite, CheckOne, SaveFindings, RecordRun,
            ReportFinding, CompareWithBaseline, ReportRegression, LoadFinding, PatchFinding,
            ChooseRun, PinBaseline
      <4>3. failures' = failures \/ failures' = failures + 1
        BY <4>2 DEF Die
      <4> QED BY <4>1, <4>3
    <3> QED BY <1>2, <2>1, <3>1, BackedStays
  <2>2. CASE i \notin DOMAIN findings
    BY <1>2, <2>2, AddedIsHeld DEF Backed
  <2> QED BY <2>1, <2>2
<1>3. All => TraceableUnlessDied
  BY DEF Backed, TraceableUnlessDied
<1> HIDE DEF All
<1> QED BY <1>1, <1>2, <1>3, SafeSpec, PTL DEF Spec

-----------------------------------------------------------------------------
(* Every failure is covered                                                *)

\* A test of a running sync that is covered stays so: an update that closes its finding
\* is noted for the sync.
LEMMA CoveredStays ==
  ASSUME Safe, [Next]_vars, NEW w \in Worker, Syncing(w), Syncing(w)',
         NEW p, NEW t, Covered(w, p, t)
  PROVE  Covered(w, p, t)'
<1>0. TypeOK /\ Grown
  BY TablesGrow DEF Safe
<1>1. PICK i \in DOMAIN findings :
        /\ findings[i].project = p /\ findings[i].test = t
        /\ findings[i].status \in OpenLike \/ i \in closedSince[w]
  BY DEF Covered
<1>2. i \in DOMAIN findings' /\ findings'[i].project = p /\ findings'[i].test = t
  BY <1>0, <1>1 DEF Grown
<1>3. SUFFICES findings'[i].status \in OpenLike \/ i \in closedSince'[w]
  BY <1>2 DEF Covered
<1>4. ASSUME NEW v \in Worker, PatchFinding(v)
      PROVE  findings'[i].status \in OpenLike \/ i \in closedSince'[w]
  <2>1. /\ \/ findings'[i].status = findings[i].status
           \/ i = job[v].id /\ findings'[i].status = job[v].status
        /\ job[v].status \in FindingStatus
        /\ findings[i] \in Finding
    BY <1>0, <1>4, PatchDoes DEF PatchJob, TypeOK
  <2>2. closedSince[w] \subseteq closedSince'[w]
    BY <1>0, <1>4 DEF PatchFinding, TypeOK
  <2>3. CASE i = job[v].id /\ findings[i].status # "RESOLVED"
              /\ findings'[i].status = "RESOLVED"
    BY <1>4, <2>3 DEF PatchFinding
  <2> QED BY <1>1, <2>1, <2>2, <2>3 DEF FindingStatus, OpenLike, Finding
<1>5. ASSUME NEW v \in Worker, SaveFindings(v)
      PROVE  findings'[i].status \in OpenLike \/ i \in closedSince'[w]
  <2>1. PICK rows \in NewFindings(job[v].project, job[v].staged) :
          findings' = findings \o rows
    BY <1>0, <1>5, SaveDoes
  <2>2. rows \in Seq(Finding)
    BY <1>0, <1>5, NewRows, SaveDoes DEF CheckJob
  <2>3. findings'[i] = findings[i]
    BY <1>0, <2>1, <2>2, Joined DEF TypeOK
  <2> QED BY <1>1, <1>5, <2>3 DEF SaveFindings, history
<1>6. ASSUME NEW v \in Worker, StepOf(v), ~SaveFindings(v), ~PatchFinding(v)
      PROVE  findings'[i].status \in OpenLike \/ i \in closedSince'[w]
  <2>1. findings' = findings
    BY <1>6 DEF StepOf, Sync, tables, RunSuite, CheckOne, RecordRun, ReportFinding,
                CompareWithBaseline, ReportRegression, LoadFinding, ChooseRun, PinBaseline, Die
  <2>2. CASE v = w
    <3>1. ASSUME NEW q \in Project, NEW suite \in Suites PROVE ~RunSuite(w, q, suite)
      BY DEF RunSuite, Syncing, Idle
    <3>2. ~Die(w)
      BY <1>0 DEF Die, Syncing, Idle, TypeOK
    <3>3. ASSUME CompareWithBaseline(w) PROVE FALSE
      BY <1>0, <3>3, CompareDoes DEF Safe, Syncing, Idle, TypeOK, AlarmJob
    <3> QED
      BY <1>1, <1>6, <2>1, <2>2, <3>1, <3>2, <3>3
      DEF StepOf, Sync, history, CheckOne, RecordRun, ReportFinding, ReportRegression,
          LoadFinding, ChooseRun, PinBaseline
  <2>3. CASE v # w
    <3>1. closedSince'[w] = closedSince[w]
      BY <1>0, <1>6, <2>3
      DEF TypeOK, StepOf, Sync, history, RunSuite, CheckOne, RecordRun, ReportFinding,
          CompareWithBaseline, ReportRegression, LoadFinding, ChooseRun, PinBaseline, Die
    <3> QED BY <1>1, <2>1, <3>1
  <2> QED BY <2>2, <2>3
<1>7. CASE UNCHANGED vars
  BY <1>1, <1>7 DEF vars
<1>8. ASSUME Next PROVE \E v \in Worker : StepOf(v)
  BY <1>8 DEF Next, StepOf
<1> QED BY <1>4, <1>5, <1>6, <1>7, <1>8

\* How far a sync has come with the tests that failed.
Tracked(w) ==
  /\ job[w].do = "check" =>
       \A t \in Failed(job[w].result) :
         t \in job[w].todo \cup job[w].staged \/ Covered(w, job[w].project, t)
  /\ job[w].do = "record" =>
       \A t \in Failed(job[w].result) : Covered(w, job[w].project, t)
  /\ job[w].do = "report" /\ job[w].run # 0 =>
       \A t \in Failed(runs[job[w].run].result) : Covered(w, job[w].project, t)

LEMMA TrackedKept ==
  ASSUME Safe, [Next]_vars, NEW w \in Worker, Tracked(w)
  PROVE  Tracked(w)'
<1>0. TypeOK /\ Grown
  BY TablesGrow DEF Safe
<1>n. ASSUME ~Syncing(w)' PROVE Tracked(w)'
  BY <1>n DEF Tracked, Syncing
<1>1. CASE job'[w] = job[w] /\ Syncing(w)
  <2>1. Syncing(w)'
    BY <1>1 DEF Syncing
  <2>2. ASSUME NEW p, NEW t, Covered(w, p, t) PROVE Covered(w, p, t)'
    BY <1>1, <2>1, <2>2, CoveredStays
  <2>3. PICK j \in Job : j = job[w] /\ j = job'[w]
    BY <1>0, <1>1 DEF TypeOK
  <2>4. j.do = "report" /\ j.run # 0 => runs'[j.run] = runs[j.run]
    BY <1>0, <2>3 DEF Safe, AllKnow, Knows, OwnRun, Grown
  <2>5. j.do = "check" =>
          \A t \in Failed(j.result) : t \in j.todo \cup j.staged \/ Covered(w, j.project, t)'
    BY <2>2, <2>3 DEF Tracked
  <2>6. j.do = "record" => \A t \in Failed(j.result) : Covered(w, j.project, t)'
    BY <2>2, <2>3 DEF Tracked
  <2>7. j.do = "report" /\ j.run # 0 =>
          \A t \in Failed(runs[j.run].result) : Covered(w, j.project, t)'
    BY <2>2, <2>3 DEF Tracked
  <2> QED BY <2>3, <2>4, <2>5, <2>6, <2>7 DEF Tracked, Covered
<1>2. CASE job'[w] = job[w] /\ ~Syncing(w)
  BY <1>2, <1>n DEF Syncing
<1>3. ASSUME NEW p \in Project, NEW suite \in Suites, RunSuite(w, p, suite) PROVE Tracked(w)'
  <2>1. PICK j \in CheckJob : job' = [job EXCEPT ![w] = j] /\ j.todo = Failed(j.result)
    BY <1>0, <1>3, RunSuiteDoes
  <2>2. job'[w] = j
    BY <1>0, <2>1 DEF TypeOK
  <2> QED BY <2>1, <2>2 DEF Tracked, CheckJob
<1>4. CASE CheckOne(w)
  <2>0. job[w] \in CheckJob
    BY <1>0, <1>4, CheckOneDoes
  <2>1. PICK t \in job[w].todo, j \in CheckJob :
              /\ job' = [job EXCEPT ![w] = j]
              /\ j.project = job[w].project /\ j.result = job[w].result
              /\ j.todo = job[w].todo \ {t}
              /\ j.staged = IF OpenFor(job[w].project, t) = {} THEN job[w].staged \cup {t}
                            ELSE job[w].staged
    BY <1>0, <1>4, CheckOneDoes
  <2>2. job'[w] = j
    BY <1>0, <2>1 DEF TypeOK
  <2>3. Syncing(w) /\ Syncing(w)'
    BY <2>0, <2>2 DEF Syncing, CheckJob
  <2>4. ASSUME NEW x, Covered(w, j.project, x) PROVE Covered(w, j.project, x)'
    BY <2>3, <2>4, CoveredStays
  <2>5. OpenFor(job[w].project, t) # {} => Covered(w, j.project, t)
    BY <2>1 DEF OpenFor, Covered
  <2>6. \A x \in Failed(j.result) : x \in j.todo \cup j.staged \/ Covered(w, j.project, x)'
    BY <2>0, <2>1, <2>4, <2>5 DEF Tracked, CheckJob
  <2> QED BY <2>2, <2>6 DEF Tracked, CheckJob, Covered
<1>5. CASE SaveFindings(w)
  <2>0. job[w] \in CheckJob /\ job[w].todo = {}
    BY <1>0, <1>5, SaveDoes
  <2>1. PICK rows \in NewFindings(job[w].project, job[w].staged), j \in RecordJob :
              /\ findings' = findings \o rows
              /\ job' = [job EXCEPT ![w] = j]
              /\ j.project = job[w].project /\ j.result = job[w].result
    BY <1>0, <1>5, SaveDoes
  <2>2. job'[w] = j
    BY <1>0, <2>1 DEF TypeOK
  <2>3. Syncing(w) /\ Syncing(w)'
    BY <2>0, <2>2 DEF Syncing, CheckJob, RecordJob
  <2>4. ASSUME NEW t \in job[w].staged PROVE Covered(w, j.project, t)'
    <3>0. job[w].project \in Project /\ job[w].staged \in SUBSET Test
      BY <2>0 DEF CheckJob
    <3>1. /\ rows \in Seq(Finding)
          /\ \A k \in DOMAIN rows :
               rows[k].project = job[w].project /\ rows[k].status = "OPEN"
          /\ \E k \in DOMAIN rows : rows[k].test = t
      BY <3>0, NewRows
    <3>2. PICK k \in DOMAIN rows : rows[k].test = t
      BY <3>1
    <3>3. PICK n : n = Len(findings) + k
      OBVIOUS
    <3>4. n \in DOMAIN findings' /\ findings'[n] = rows[k]
      BY <1>0, <2>1, <3>1, <3>2, <3>3, Joined DEF TypeOK
    <3> QED BY <2>1, <3>1, <3>2, <3>4 DEF Covered, OpenLike
  <2>5. ASSUME NEW t \in Failed(j.result) PROVE Covered(w, j.project, t)'
    BY <2>0, <2>1, <2>3, <2>4, CoveredStays DEF Tracked, CheckJob
  <2> QED BY <2>2, <2>5 DEF Tracked, RecordJob, Covered
<1>6. CASE RecordRun(w)
  <2>0. job[w] \in RecordJob
    BY <1>0, <1>6, RecordDoes
  <2>1. PICK j \in ReportJob :
              /\ job' = [job EXCEPT ![w] = j] /\ j.project = job[w].project
              /\ j.run = IF DOMAIN job[w].result = {} THEN 0 ELSE Len(runs) + 1
    BY <1>0, <1>6, RecordDoes
  <2>2. job'[w] = j
    BY <1>0, <2>1 DEF TypeOK
  <2>3. Syncing(w) /\ Syncing(w)'
    BY <2>0, <2>2 DEF Syncing, RecordJob, ReportJob
  <2>4. ASSUME NEW t \in Failed(job[w].result) PROVE Covered(w, j.project, t)'
    BY <2>0, <2>1, <2>3, <2>4, CoveredStays DEF Tracked, RecordJob
  <2>5. j.run # 0 => runs'[j.run].result = job[w].result
    <3> SUFFICES ASSUME DOMAIN job[w].result # {}, j.run = Len(runs) + 1
                 PROVE  runs'[j.run].result = job[w].result
      BY <2>1
    <3>1. PICK row \in Run : runs' = Append(runs, row) /\ row.result = job[w].result
      BY <1>0, <1>6, RecordDoes
    <3> QED BY <1>0, <3>1, Appended DEF TypeOK
  <2> QED BY <2>2, <2>4, <2>5 DEF Tracked, ReportJob, Covered
<1>7. CASE ReportFinding(w)
  <2>0. job[w] \in ReportJob
    BY <1>0, <1>7, ReportDoes
  <2>1. PICK j \in ReportJob : /\ job' = [job EXCEPT ![w] = j]
                               /\ j.project = job[w].project /\ j.run = job[w].run
    BY <1>0, <1>7, ReportDoes
  <2>2. job'[w] = j
    BY <1>0, <2>1 DEF TypeOK
  <2>3. Syncing(w) /\ Syncing(w)'
    BY <2>0, <2>2 DEF Syncing, ReportJob
  <2>4. j.run # 0 => runs'[j.run] = runs[j.run]
    BY <1>0, <2>0, <2>1 DEF Safe, AllKnow, Knows, OwnRun, Grown, ReportJob
  <2>5. ASSUME j.run # 0, NEW t \in Failed(runs[j.run].result) PROVE Covered(w, j.project, t)'
    BY <2>0, <2>1, <2>3, <2>5, CoveredStays DEF Tracked, ReportJob
  <2> QED BY <2>2, <2>4, <2>5 DEF Tracked, ReportJob, Covered
<1>8. CASE CompareWithBaseline(w) \/ ReportRegression(w) \/ PatchFinding(w) \/ PinBaseline(w)
             \/ Die(w)
  <2>1. ~Syncing(w)'
    BY <1>0, <1>8, CompareDoes, AlarmDoes
    DEF Safe, TypeOK, Syncing, AlarmJob, Idle, PatchFinding, PinBaseline, Die
  <2> QED BY <1>n, <2>1
<1>9. CASE \/ \E i \in DOMAIN findings, status \in Targets : LoadFinding(w, i, status)
           \/ \E p \in Project, named \in 0..Len(runs) : ChooseRun(w, p, named)
  <2>1. ~Syncing(w)'
    <3>1. \E j \in PatchJob \cup PinJob : job' = [job EXCEPT ![w] = j]
      BY <1>0, <1>9, LoadDoes, ChooseDoes
    <3> QED BY <1>0, <3>1 DEF TypeOK, Syncing, PatchJob, PinJob
  <2> QED BY <1>n, <2>1
<1> QED
  BY <1>0, <1>1, <1>2, <1>3, <1>4, <1>5, <1>6, <1>7, <1>8, <1>9, OwnSteps DEF StepOf, Sync

\* Every failure a running sync has committed is covered by a finding that is open, or
\* that somebody resolved meanwhile.
THEOREM FailuresStayCovered == Spec => []FailuresCovered
<1> DEFINE All == \A w \in Worker : Tracked(w)
<1>1. Init => All
  BY DEF Init, Tracked, Idle
<1>2. Safe /\ All /\ [Next]_vars => All'
  BY TrackedKept
<1>3. All => FailuresCovered
  BY DEF Tracked, FailuresCovered
<1> HIDE DEF All
<1> QED BY <1>1, <1>2, <1>3, SafeSpec, PTL DEF Spec

-----------------------------------------------------------------------------
(* Duplicates are bounded                                                  *)

\* The findings of a test that nobody ever resolved, and the syncs that are about to add
\* one.  No sync joins them once there is such a finding, and each of them adds one.
Unresolved(p, t) ==
  {i \in DOMAIN findings : /\ findings[i].project = p /\ findings[i].test = t
                           /\ i \notin everResolved}

Stagers(p, t) ==
  {w \in Worker : job[w].do = "check" /\ job[w].project = p /\ t \in job[w].staged}

Crowded(p, t) ==
  \/ Unresolved(p, t) = {}
  \/ Cardinality(Unresolved(p, t)) + Cardinality(Stagers(p, t)) <= Cardinality(Worker)

\* A finding that is not open was resolved at some time.
ClosedAreLogged ==
  \A i \in DOMAIN findings : i \in everResolved \/ findings[i].status \in OpenLike

LEMMA ClosedLogged ==
  ASSUME Safe, ClosedAreLogged, [Next]_vars
  PROVE  ClosedAreLogged'
<1>0. TypeOK
  BY DEF Safe
<1>1. ASSUME NEW w \in Worker, PatchFinding(w) PROVE ClosedAreLogged'
  <2> SUFFICES ASSUME NEW i \in DOMAIN findings'
               PROVE  i \in everResolved' \/ findings'[i].status \in OpenLike
    BY DEF ClosedAreLogged
  <2>1. /\ i \in DOMAIN findings
        /\ \/ findings'[i].status = findings[i].status
           \/ i = job[w].id /\ findings'[i].status = job[w].status
        /\ job[w].status \in FindingStatus
    BY <1>0, <1>1, PatchDoes DEF PatchJob
  <2>2. everResolved \subseteq everResolved'
    BY <1>1 DEF PatchFinding
  <2>3. CASE i = job[w].id /\ findings'[i].status = "RESOLVED" /\ findings[i].status # "RESOLVED"
    BY <1>1, <2>3 DEF PatchFinding
  <2> QED BY <2>1, <2>2, <2>3 DEF ClosedAreLogged, FindingStatus, OpenLike
<1>2. ASSUME NEW w \in Worker, SaveFindings(w) PROVE ClosedAreLogged'
  <2>1. PICK rows \in NewFindings(job[w].project, job[w].staged) : findings' = findings \o rows
    BY <1>0, <1>2, SaveDoes
  <2>2. rows \in Seq(Finding) /\ \A k \in DOMAIN rows : rows[k].status = "OPEN"
    BY <1>0, <1>2, NewRows, SaveDoes DEF CheckJob
  <2>3. /\ \A i \in DOMAIN findings : findings'[i] = findings[i]
        /\ \A i \in DOMAIN findings' \ DOMAIN findings :
             i - Len(findings) \in DOMAIN rows /\ findings'[i] = rows[i - Len(findings)]
    BY <1>0, <2>1, <2>2, Joined DEF TypeOK
  <2>4. everResolved' = everResolved
    BY <1>2 DEF SaveFindings, history
  <2> QED BY <2>2, <2>3, <2>4 DEF ClosedAreLogged, OpenLike
<1>3. CASE UNCHANGED <<findings, everResolved>>
  BY <1>3 DEF ClosedAreLogged
<1> QED
  BY <1>1, <1>2, <1>3
  DEF Next, Sync, vars, tables, history, RunSuite, CheckOne, RecordRun, ReportFinding,
      CompareWithBaseline, ReportRegression, LoadFinding, ChooseRun, PinBaseline, Die

LEMMA FiniteFindings ==
  ASSUME TypeOK, NEW p, NEW t
  PROVE  /\ IsFiniteSet(Unresolved(p, t)) /\ Cardinality(Unresolved(p, t)) \in Nat
         /\ IsFiniteSet(Stagers(p, t)) /\ Cardinality(Stagers(p, t)) \in Nat
         /\ Cardinality(Stagers(p, t)) <= Cardinality(Worker) /\ Cardinality(Worker) \in Nat
<1>1. IsFiniteSet(Unresolved(p, t))
  <2>1. DOMAIN findings = 1..Len(findings) /\ Len(findings) \in Nat
    BY DEF TypeOK
  <2>2. IsFiniteSet(1..Len(findings))
    BY <2>1, FS_Interval
  <2> QED BY <2>1, <2>2, FS_Subset DEF Unresolved
<1>2. Stagers(p, t) \subseteq Worker
  BY DEF Stagers
<1> QED BY <1>1, <1>2, SyncAssumption, FS_Subset, FS_CardinalityType

LEMMA StagersShrink ==
  ASSUME Safe, ClosedAreLogged, [Next]_vars, NEW p, NEW t, Unresolved(p, t) # {}
  PROVE  Stagers(p, t)' \subseteq Stagers(p, t)
<1> SUFFICES ASSUME NEW w \in Worker, job'[w].do = "check", job'[w].project = p,
                    t \in job'[w].staged
             PROVE  w \in Stagers(p, t)
  BY DEF Stagers
<1>0. TypeOK
  BY DEF Safe
<1>1. CASE job'[w] = job[w]
  BY <1>1 DEF Stagers
<1>2. CASE CheckOne(w)
  <2>0. job[w] \in CheckJob
    BY <1>0, <1>2, CheckOneDoes
  <2>1. PICK x \in job[w].todo, j \in CheckJob :
              /\ job' = [job EXCEPT ![w] = j] /\ j.project = job[w].project
              /\ j.staged = IF OpenFor(job[w].project, x) = {} THEN job[w].staged \cup {x}
                            ELSE job[w].staged
    BY <1>0, <1>2, CheckOneDoes
  <2>2. job'[w] = j
    BY <1>0, <2>1 DEF TypeOK
  <2>3. OpenFor(p, t) # {}
    BY DEF Unresolved, OpenFor, ClosedAreLogged
  <2> QED BY <2>0, <2>1, <2>2, <2>3 DEF Stagers, CheckJob
<1>3. CASE \E q \in Project, suite \in Suites : RunSuite(w, q, suite)
  <2>1. PICK j \in CheckJob : job' = [job EXCEPT ![w] = j] /\ j.staged = {}
    BY <1>0, <1>3, RunSuiteDoes
  <2> QED BY <1>0, <2>1 DEF TypeOK
<1>4. CASE SaveFindings(w) \/ RecordRun(w) \/ ReportFinding(w)
  <2>1. \E j \in RecordJob \cup ReportJob : job' = [job EXCEPT ![w] = j]
    BY <1>0, <1>4, SaveDoes, RecordDoes, ReportDoes
  <2> QED BY <1>0, <2>1 DEF TypeOK, RecordJob, ReportJob
<1>5. CASE CompareWithBaseline(w) \/ ReportRegression(w)
  <2>1. \/ job' = [job EXCEPT ![w] = Idle]
        \/ \E j \in AlarmJob : job' = [job EXCEPT ![w] = j]
    BY <1>0, <1>5, CompareDoes, AlarmDoes DEF Safe
  <2> QED BY <1>0, <2>1 DEF TypeOK, AlarmJob, Idle
<1>6. CASE PatchFinding(w) \/ PinBaseline(w) \/ Die(w)
  BY <1>0, <1>6 DEF TypeOK, Idle, PatchFinding, PinBaseline, Die
<1>7. CASE \/ \E i \in DOMAIN findings, status \in Targets : LoadFinding(w, i, status)
           \/ \E q \in Project, named \in 0..Len(runs) : ChooseRun(w, q, named)
  <2>1. \E j \in PatchJob \cup PinJob : job' = [job EXCEPT ![w] = j]
    BY <1>0, <1>7, LoadDoes, ChooseDoes
  <2> QED BY <1>0, <2>1 DEF TypeOK, PatchJob, PinJob
<1> QED
  BY <1>0, <1>1, <1>2, <1>3, <1>4, <1>5, <1>6, <1>7, OwnSteps DEF StepOf, Sync

LEMMA EverGrows ==
  ASSUME [Next]_vars
  PROVE  everResolved \subseteq everResolved'
  BY DEF Next, Sync, vars, history, RunSuite, CheckOne, SaveFindings, RecordRun,
         ReportFinding, CompareWithBaseline, ReportRegression, LoadFinding, PatchFinding,
         ChooseRun, PinBaseline, Die

LEMMA CrowdedKept ==
  ASSUME Safe, ClosedAreLogged, [Next]_vars, NEW p, NEW t, Crowded(p, t)
  PROVE  Crowded(p, t)'
<1>0. TypeOK /\ TypeOK' /\ Grown
  BY TablesGrow, TypePreserved DEF Safe
<1>n. /\ IsFiniteSet(Unresolved(p, t)) /\ Cardinality(Unresolved(p, t)) \in Nat
      /\ IsFiniteSet(Stagers(p, t)) /\ Cardinality(Stagers(p, t)) \in Nat
      /\ Cardinality(Stagers(p, t)) <= Cardinality(Worker) /\ Cardinality(Worker) \in Nat
  BY <1>0, FiniteFindings
<1>1. ASSUME Unresolved(p, t)' \subseteq Unresolved(p, t) PROVE Crowded(p, t)'
  <2> SUFFICES ASSUME Unresolved(p, t)' # {}
               PROVE  Cardinality(Unresolved(p, t)') + Cardinality(Stagers(p, t)')
                        <= Cardinality(Worker)
    BY DEF Crowded
  <2>1. Stagers(p, t)' \subseteq Stagers(p, t) /\ Unresolved(p, t) # {}
    BY <1>1, StagersShrink
  <2>2. /\ Cardinality(Unresolved(p, t)') <= Cardinality(Unresolved(p, t))
        /\ Cardinality(Unresolved(p, t)') \in Nat
    BY <1>1, <1>n, FS_Subset, FS_CardinalityType
  <2>3. /\ Cardinality(Stagers(p, t)') <= Cardinality(Stagers(p, t))
        /\ Cardinality(Stagers(p, t)') \in Nat
    BY <2>1, <1>n, FS_Subset, FS_CardinalityType
  <2> QED BY <1>n, <2>1, <2>2, <2>3 DEF Crowded
<1>2. ASSUME NEW w \in Worker, SaveFindings(w) PROVE Crowded(p, t)'
  <2>0. job[w] \in CheckJob
    BY <1>0, <1>2, SaveDoes
  <2>1. PICK rows \in NewFindings(job[w].project, job[w].staged), j \in RecordJob :
          findings' = findings \o rows /\ job' = [job EXCEPT ![w] = j]
    BY <1>0, <1>2, SaveDoes
  <2>2. /\ rows \in Seq(Finding)
        /\ \A k \in DOMAIN rows : rows[k].project = job[w].project /\ rows[k].test \in job[w].staged
        /\ \A k, m \in DOMAIN rows : rows[k].test = rows[m].test => k = m
    <3>1. job[w].project \in Project /\ job[w].staged \in SUBSET Test
      BY <2>0 DEF CheckJob
    <3> QED BY <3>1, NewRows
  <2>3. /\ \A i \in DOMAIN findings : findings'[i] = findings[i]
        /\ \A i \in DOMAIN findings' \ DOMAIN findings :
             i - Len(findings) \in DOMAIN rows /\ findings'[i] = rows[i - Len(findings)]
    <3>1. findings \in Seq(Finding)
      BY <1>0 DEF TypeOK
    <3> QED BY <2>1, <2>2, <3>1, Joined
  <2>4. everResolved' = everResolved
    BY <1>2 DEF SaveFindings, history
  <2>5. CASE Unresolved(p, t)' \subseteq Unresolved(p, t)
    BY <1>1, <2>5
  <2>6. CASE ~(Unresolved(p, t)' \subseteq Unresolved(p, t))
    <3>1. PICK n \in Unresolved(p, t)' : n \notin Unresolved(p, t)
      BY <2>6
    <3>2. n \in DOMAIN findings' \ DOMAIN findings /\ findings'[n].project = p
            /\ findings'[n].test = t
      BY <2>3, <2>4, <3>1 DEF Unresolved
    <3>3. job[w].project = p /\ t \in job[w].staged
      BY <2>2, <2>3, <3>2
    <3>4. w \in Stagers(p, t)
      BY <2>0, <3>3 DEF Stagers, CheckJob
    <3>5. ASSUME NEW m \in Unresolved(p, t)', m \notin Unresolved(p, t) PROVE m = n
      <4>1. m \in DOMAIN findings' \ DOMAIN findings /\ findings'[m].test = t
        BY <2>3, <2>4, <3>5 DEF Unresolved
      <4>2. m - Len(findings) = n - Len(findings)
        BY <2>2, <2>3, <3>2, <4>1
      <4>3. m \in Nat /\ n \in Nat /\ Len(findings) \in Nat
        BY <1>0, <3>2, <4>1 DEF TypeOK
      <4> QED BY <4>2, <4>3
    <3>6. Unresolved(p, t)' = Unresolved(p, t) \cup {n}
      <4>1. Unresolved(p, t) \subseteq Unresolved(p, t)'
        BY <1>0, <2>4 DEF Unresolved, Grown
      <4> QED BY <3>1, <3>5, <4>1
    <3>7. Cardinality(Unresolved(p, t)') = Cardinality(Unresolved(p, t)) + 1
      <4>1. Cardinality(Unresolved(p, t) \cup {n}) = Cardinality(Unresolved(p, t)) + 1
        BY <1>n, <3>1, FS_AddElement
      <4> QED BY <3>6, <4>1
    <3>8. job'[w].do = "record" /\ \A v \in Worker : v # w => job'[v] = job[v]
      BY <1>0, <2>1 DEF TypeOK, RecordJob
    <3>9. Stagers(p, t)' = Stagers(p, t) \ {w}
      BY <3>8 DEF Stagers
    <3>10. Cardinality(Stagers(p, t)') = Cardinality(Stagers(p, t)) - 1
      <4>1. Cardinality(Stagers(p, t) \ {w}) = Cardinality(Stagers(p, t)) - 1
        BY <1>n, <3>4, FS_RemoveElement
      <4> QED BY <3>9, <4>1
    <3>11. Unresolved(p, t) = {} => Cardinality(Unresolved(p, t)) = 0
      BY FS_EmptySet
    <3> QED BY <1>n, <3>7, <3>10, <3>11 DEF Crowded
  <2> QED BY <2>5, <2>6
<1>3. ASSUME DOMAIN findings' = DOMAIN findings PROVE Unresolved(p, t)' \subseteq Unresolved(p, t)
  BY <1>0, <1>3, EverGrows DEF Unresolved, Grown
<1>4. (\E w \in Worker : SaveFindings(w)) \/ DOMAIN findings' = DOMAIN findings
  <2>1. ASSUME NEW w \in Worker, PatchFinding(w) PROVE DOMAIN findings' = DOMAIN findings
    BY <1>0, <2>1, PatchDoes
  <2>2. CASE findings' = findings
    BY <2>2
  <2> QED
    BY <2>1, <2>2
    DEF Next, Sync, vars, tables, RunSuite, CheckOne, RecordRun, ReportFinding,
        CompareWithBaseline, ReportRegression, LoadFinding, ChooseRun, PinBaseline, Die
<1> QED BY <1>1, <1>2, <1>3, <1>4

\* The findings of a test that nobody ever resolved are at most as many as there are
\* request threads, however often the suite runs.
THEOREM DuplicatesStayBounded == Spec => []DuplicatesBounded
<1> DEFINE All == \A p \in Project, t \in Test : Crowded(p, t)
<1>1. Init => All /\ ClosedAreLogged
  BY DEF Init, Crowded, Unresolved, ClosedAreLogged
<1>2. Safe /\ All /\ ClosedAreLogged /\ [Next]_vars => All' /\ ClosedAreLogged'
  BY CrowdedKept, ClosedLogged
<1>3. ASSUME Safe, All PROVE DuplicatesBounded
  <2> SUFFICES ASSUME NEW p \in Project, NEW t \in Test
               PROVE  Cardinality(Unresolved(p, t)) <= Cardinality(Worker)
    BY DEF DuplicatesBounded, Unresolved
  <2>1. /\ Cardinality(Unresolved(p, t)) \in Nat /\ Cardinality(Stagers(p, t)) \in Nat
        /\ Cardinality(Worker) \in Nat
    BY <1>3, FiniteFindings DEF Safe
  <2>2. Unresolved(p, t) = {} => Cardinality(Unresolved(p, t)) = 0
    BY FS_EmptySet
  <2> QED BY <1>3, <2>1, <2>2 DEF Crowded
<1> HIDE DEF All
<1> QED BY <1>1, <1>2, <1>3, SafeSpec, PTL DEF Spec
=============================================================================
