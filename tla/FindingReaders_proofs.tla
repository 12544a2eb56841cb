------------------------ MODULE FindingReaders_proofs ------------------------
(***************************************************************************)
(* What the readers of findings and runs may rely on, for any number of    *)
(* request threads, CI jobs, dashboards, projects and tests: reading       *)
(* changes nothing, a green build has a run on record, a report is about   *)
(* its own project, and the queries of one page agree.                     *)
(***************************************************************************)
EXTENDS FindingReaders, FindingSync_proofs

-----------------------------------------------------------------------------
(* Reading changes nothing                                                 *)

LEMMA ReaderSteps == [ReadersNext]_allVars => [Next]_vars
<1>1. ASSUME NEW w \in Worker, ServeSync(w) \/ DieServing(w) \/ PatchLogged(w) PROVE Next
  BY <1>1 DEF Next, ServeSync, DieServing, PatchLogged
<1>2. ASSUME NEW w \in Worker,
             \/ \E p \in Project, suite \in Suites : RunSuite(w, p, suite)
             \/ \E i \in DOMAIN findings, status \in Targets : LoadFinding(w, i, status)
             \/ \E p \in Project, named \in 0..Len(runs) : ChooseRun(w, p, named)
             \/ PinBaseline(w)
      PROVE  Next
  BY <1>2 DEF Next
<1>3. ASSUME NEW w \in Worker, NEW c \in Client, NEW p \in Project, NEW suite \in Suites,
             PostSync(c, w, p, suite)
      PROVE  Next
  BY <1>3 DEF Next, PostSync
<1>4. ASSUME NEW c \in Client, GiveUp(c) \/ ReadBaseline(c) \/ CompareLatest(c) \/ FetchFails(c)
      PROVE  UNCHANGED vars
  BY <1>4 DEF GiveUp, ReadBaseline, CompareLatest, FetchFails
<1>5. ASSUME NEW v \in Viewer,
             ReadFindings(v) \/ ReadChanges(v) \/ \E p \in Project : ReadLatest(v, p)
      PROVE  UNCHANGED vars
  BY <1>5 DEF ReadFindings, ReadChanges, ReadLatest
<1>6. CASE UNCHANGED allVars
  BY <1>6 DEF allVars
<1> QED BY <1>1, <1>2, <1>3, <1>4, <1>5, <1>6 DEF ReadersNext

\* Whatever gates and dashboards do, the requests they watch behave as without them.
THEOREM ReadersImplementSync == ReadersSpec => Spec
<1>1. ReadersInit => Init
  BY DEF ReadersInit
<1> QED BY <1>1, ReaderSteps, PTL DEF ReadersSpec, Spec

\* A reported regression is one, whoever reads what.
THEOREM RegressionsSoundWhenRead == ReadersSpec => []RegressionsSound
  BY ReadersImplementSync, RegressionsStaySound, PTL

-----------------------------------------------------------------------------
(* Every execution of the suite has a stamp of its own                     *)

Busy(w) == job[w].do \in {"check", "record"}

Stamped ==
  /\ \A r \in DOMAIN runs : runs[r].stamp \in 1..clock
  /\ \A w \in Worker : Busy(w) => job[w].stamp \in 1..clock
  /\ \A r, s \in DOMAIN runs : runs[r].stamp = runs[s].stamp => r = s
  /\ \A v, w \in Worker : Busy(v) /\ Busy(w) /\ job[v].stamp = job[w].stamp => v = w
  /\ \A w \in Worker, r \in DOMAIN runs : Busy(w) => job[w].stamp # runs[r].stamp

\* A step that begins and records nothing keeps the stamps of the syncs it leaves busy.
SameStamps ==
  /\ runs' = runs /\ clock' = clock
  /\ \A v \in Worker : Busy(v)' => Busy(v) /\ job'[v].stamp = job[v].stamp

LEMMA OtherSteps ==
  ASSUME Safe, [Next]_vars
  PROVE  \/ SameStamps
         \/ \E w \in Worker, p \in Project, suite \in Suites : RunSuite(w, p, suite)
         \/ \E w \in Worker : RecordRun(w)
<1>0. TypeOK /\ AllKnow
  BY DEF Safe
<1>1. ASSUME NEW w \in Worker, NEW j \in Job, job' = [job EXCEPT ![w] = j],
             runs' = runs, clock' = clock,
             j.do \in {"check", "record"} => Busy(w) /\ j.stamp = job[w].stamp
      PROVE  SameStamps
  BY <1>0, <1>1, JobSet DEF SameStamps, Busy
<1>j. CheckJob \cup RecordJob \cup ReportJob \cup AlarmJob \cup PatchJob \cup PinJob
        \subseteq Job
  BY DEF Job
<1>2. ASSUME NEW w \in Worker, CheckOne(w) PROVE SameStamps
  <2>1. job[w] \in CheckJob /\ \E j \in CheckJob : /\ job' = [job EXCEPT ![w] = j]
                                                   /\ j.stamp = job[w].stamp
    BY <1>0, <1>2, CheckOneDoes
  <2> QED BY <1>1, <1>2, <1>j, <2>1 DEF CheckOne, Busy, tables
<1>3. ASSUME NEW w \in Worker, SaveFindings(w) PROVE SameStamps
  <2>1. job[w] \in CheckJob /\ \E j \in RecordJob : /\ job' = [job EXCEPT ![w] = j]
                                                    /\ j.stamp = job[w].stamp
    BY <1>0, <1>3, SaveDoes
  <2> QED BY <1>1, <1>3, <1>j, <2>1 DEF SaveFindings, Busy
<1>4. ASSUME NEW w \in Worker, ReportFinding(w) PROVE SameStamps
  <2>1. \E j \in ReportJob : job' = [job EXCEPT ![w] = j]
    BY <1>0, <1>4, ReportDoes
  <2>2. \A j \in ReportJob : j.do = "report"
    BY DEF ReportJob
  <2> QED BY <1>1, <1>4, <1>j, <2>1, <2>2 DEF ReportFinding, tables
<1>5. ASSUME NEW w \in Worker, job' = [job EXCEPT ![w] = Idle], runs' = runs, clock' = clock
      PROVE  SameStamps
  BY <1>1, <1>5, IdleJob
<1>6. ASSUME NEW w \in Worker, CompareWithBaseline(w) \/ ReportRegression(w) PROVE SameStamps
  <2>1. \/ job' = [job EXCEPT ![w] = Idle]
        \/ \E j \in AlarmJob : job' = [job EXCEPT ![w] = j]
    BY <1>0, <1>6, CompareDoes, AlarmDoes
  <2>2. \A j \in AlarmJob : j.do = "alarm"
    BY DEF AlarmJob
  <2>3. runs' = runs /\ clock' = clock
    BY <1>6 DEF CompareWithBaseline, ReportRegression, tables
  <2> QED BY <1>1, <1>5, <1>j, <2>1, <2>2, <2>3
<1>7. ASSUME NEW w \in Worker, PatchFinding(w) \/ PinBaseline(w) \/ Die(w) PROVE SameStamps
  BY <1>5, <1>7 DEF PatchFinding, PinBaseline, Die, tables
<1>8. ASSUME NEW w \in Worker,
             \/ \E i \in DOMAIN findings, status \in Targets : LoadFinding(w, i, status)
             \/ \E p \in Project, named \in 0..Len(runs) : ChooseRun(w, p, named)
      PROVE  SameStamps
  <2>1. \E j \in PatchJob \cup PinJob : job' = [job EXCEPT ![w] = j]
    BY <1>0, <1>8, LoadDoes, ChooseDoes
  <2>2. \A j \in PatchJob \cup PinJob : j.do \in {"patch", "pin"}
    BY DEF PatchJob, PinJob
  <2>3. runs' = runs /\ clock' = clock
    BY <1>8 DEF LoadFinding, ChooseRun, tables
  <2> QED BY <1>1, <1>j, <2>1, <2>2, <2>3
<1>9. CASE UNCHANGED vars
  BY <1>9 DEF vars, SameStamps, Busy
<1> QED
  BY <1>2, <1>3, <1>4, <1>6, <1>7, <1>8, <1>9 DEF Next, Sync

LEMMA StampedKept ==
  ASSUME Safe, Stamped, [Next]_vars
  PROVE  Stamped'
<1>0. TypeOK
  BY DEF Safe
<1>c. clock \in Nat
  BY <1>0, SyncAssumption DEF TypeOK
<1>1. CASE SameStamps
  BY <1>1 DEF SameStamps, Stamped, Busy
<1>2. ASSUME NEW w \in Worker, NEW p \in Project, NEW suite \in Suites, RunSuite(w, p, suite)
      PROVE  Stamped'
  <2>1. PICK j \in CheckJob : job' = [job EXCEPT ![w] = j] /\ j.stamp = clock + 1
    BY <1>0, <1>2, RunSuiteDoes
  <2>2. runs' = runs /\ clock' = clock + 1
    BY <1>2 DEF RunSuite, tables
  <2>3. job'[w].stamp = clock + 1 /\ \A v \in Worker : v # w => job'[v] = job[v]
    BY <1>0, <2>1 DEF TypeOK
  <2>4. \A v \in Worker : v # w /\ Busy(v)' => Busy(v) /\ job'[v].stamp \in 1..clock
    BY <2>3 DEF Busy, Stamped
  <2>5. \A n \in 1..clock : n # clock + 1 /\ n \in 1..(clock + 1)
    BY <1>c
  <2>6. \A r \in DOMAIN runs' : runs'[r].stamp = runs[r].stamp /\ runs'[r].stamp \in 1..clock
    BY <2>2 DEF Stamped
  <2>7. \A v, u \in Worker : Busy(v)' /\ Busy(u)' /\ job'[v].stamp = job'[u].stamp => v = u
    BY <2>3, <2>4, <2>5 DEF Stamped, Busy
  <2>8. \A v \in Worker, r \in DOMAIN runs' : Busy(v)' => job'[v].stamp # runs'[r].stamp
    <3>1. \A v \in Worker, r \in DOMAIN runs : v # w /\ Busy(v)' => job'[v].stamp # runs[r].stamp
      BY <2>3, <2>4 DEF Stamped
    <3> QED BY <2>2, <2>3, <2>5, <2>6, <3>1
  <2>9. \A v \in Worker : Busy(v)' => job'[v].stamp \in 1..clock'
    BY <1>c, <2>2, <2>3, <2>4, <2>5
  <2> QED BY <2>2, <2>5, <2>6, <2>7, <2>8, <2>9 DEF Stamped
<1>3. ASSUME NEW w \in Worker, RecordRun(w) PROVE Stamped'
  <2>1. PICK j \in ReportJob : job' = [job EXCEPT ![w] = j]
    BY <1>0, <1>3, RecordDoes
  <2>2. ~Busy(w)' /\ \A v \in Worker : v # w => job'[v] = job[v]
    BY <1>0, <2>1 DEF TypeOK, Busy, ReportJob
  <2>3. Busy(w) /\ clock' = clock
    BY <1>3 DEF RecordRun, Busy
  <2>4. \A v \in Worker : Busy(v)' => v # w /\ Busy(v) /\ job'[v].stamp = job[v].stamp
    BY <2>2 DEF Busy
  <2>5. CASE runs' = runs
    BY <2>3, <2>4, <2>5 DEF Stamped
  <2>6. ASSUME NEW row \in Run, runs' = Append(runs, row), row.stamp = job[w].stamp
        PROVE  Stamped'
    <3>1. PICK n : n = Len(runs) + 1
      OBVIOUS
    <3>2. /\ DOMAIN runs' = DOMAIN runs \cup {n} /\ n \notin DOMAIN runs
          /\ runs'[n].stamp = job[w].stamp
          /\ \A r \in DOMAIN runs : runs'[r] = runs[r]
      BY <1>0, <2>6, <3>1, Appended DEF TypeOK
    <3>3. \A r \in DOMAIN runs' : runs'[r].stamp \in 1..clock
      BY <2>3, <3>2 DEF Stamped
    <3>4. \A r, s \in DOMAIN runs' : runs'[r].stamp = runs'[s].stamp => r = s
      BY <2>3, <3>2 DEF Stamped
    <3>5. \A v \in Worker, r \in DOMAIN runs' : Busy(v)' => job'[v].stamp # runs'[r].stamp
      BY <2>3, <2>4, <3>2 DEF Stamped
    <3>6. \A v, u \in Worker : Busy(v)' /\ Busy(u)' /\ job'[v].stamp = job'[u].stamp => v = u
      BY <2>4 DEF Stamped
    <3> QED BY <2>3, <2>4, <3>3, <3>4, <3>5, <3>6 DEF Stamped
  <2> QED BY <1>0, <1>3, <2>5, <2>6, RecordDoes
<1> QED BY <1>1, <1>2, <1>3, OtherSteps


\* What the requests keep, read or not.
Base == Safe /\ Stamped /\ \A w \in Worker : Tracked(w)

LEMMA BaseSpec == Spec => []Base
<1> DEFINE All == \A w \in Worker : Tracked(w)
<1>1. Init => Stamped /\ All
  BY DEF Init, Stamped, Busy, Tracked, Idle
<1>2. Safe /\ Stamped /\ All /\ [Next]_vars => Stamped' /\ All'
  BY StampedKept, TrackedKept
<1>3. Safe /\ Stamped /\ All => Base
  BY DEF Base
<1> HIDE DEF All
<1> QED BY <1>1, <1>2, <1>3, SafeSpec, PTL DEF Spec

LEMMA LatestIsOwn ==
  ASSUME TypeOK, Stamped, NEW p \in Project
  PROVE  LET r == LatestRun(p)
         IN  /\ r = 0 => \A s \in DOMAIN runs : runs[s].project # p
             /\ r # 0 => /\ r \in DOMAIN runs /\ runs[r].project = p
                         /\ \A s \in DOMAIN runs :
                              runs[s].project = p => runs[s].stamp <= runs[r].stamp
<1> DEFINE own == {r \in DOMAIN runs : runs[r].project = p}
           S == {runs[r].stamp : r \in own}
<1>1. CASE own = {}
  BY <1>1 DEF LatestRun
<1>2. CASE own # {}
  <2>1. clock \in Nat /\ S \in SUBSET (1..clock) /\ S # {}
    BY <1>2, SyncAssumption DEF TypeOK, Stamped
  <2>2. PICK m \in S : \A n \in S : n <= m
    BY <2>1, Greatest
  <2>3. PICK r \in own : \A s \in own : runs[s].stamp <= runs[r].stamp
    BY <2>2
  <2>4. LatestRun(p) \in own /\ \A s \in own : runs[s].stamp <= runs[LatestRun(p)].stamp
    BY <1>2, <2>3 DEF LatestRun
  <2>5. LatestRun(p) # 0
    BY <2>4 DEF TypeOK
  <2> QED BY <2>4, <2>5
<1> QED BY <1>1, <1>2

-----------------------------------------------------------------------------
(* What a gate knows                                                       *)

\* The sync that result and stamp are of left them on record, if there is any result.
OnRecord(g) ==
  \/ DOMAIN g.result = {}
  \/ \E r \in DOMAIN runs : /\ runs[r].project = g.project /\ runs[r].stamp = g.stamp
                            /\ runs[r].result = g.result

\* The thread that a gate waits for is at work on its sync.
Serves(w, g) ==
  \/ /\ Busy(w)
     /\ job[w].project = g.project /\ job[w].stamp = g.stamp /\ job[w].result = g.result
  \/ job[w].do \in {"report", "alarm"} /\ OnRecord(g)

LEMMA RecordStays ==
  ASSUME Grown, NEW g, OnRecord(g)
  PROVE  OnRecord(g)'
  BY DEF Grown, OnRecord

LEMMA ServesUnmoved ==
  ASSUME Grown, NEW w \in Worker, NEW g, Serves(w, g), job'[w] = job[w]
  PROVE  Serves(w, g)'
  BY RecordStays DEF Serves, Busy

\* A step of the sync leads on to the next, and it ends with the run on record.
LEMMA ServesOn ==
  ASSUME Safe, NEW w \in Worker, NEW g, Serves(w, g), Sync(w)
  PROVE  \/ Serves(w, g)'
         \/ job'[w] = Idle /\ OnRecord(g)'
<1>0. TypeOK /\ AllKnow
  BY DEF Safe
<1>g. Grown
  BY <1>0, TablesGrow DEF Next
<1>1. CASE CheckOne(w)
  <2>1. job[w] \in CheckJob /\ \E j \in CheckJob :
          /\ job' = [job EXCEPT ![w] = j]
          /\ j.project = job[w].project /\ j.result = job[w].result /\ j.stamp = job[w].stamp
    BY <1>0, <1>1, CheckOneDoes
  <2> QED BY <1>0, <2>1 DEF TypeOK, Serves, Busy, CheckJob
<1>2. CASE SaveFindings(w)
  <2>1. job[w] \in CheckJob /\ \E j \in RecordJob :
          /\ job' = [job EXCEPT ![w] = j]
          /\ j.project = job[w].project /\ j.result = job[w].result /\ j.stamp = job[w].stamp
    BY <1>0, <1>2, SaveDoes
  <2> QED BY <1>0, <2>1 DEF TypeOK, Serves, Busy, CheckJob, RecordJob
<1>3. CASE RecordRun(w)
  <2>1. PICK j \in ReportJob : job' = [job EXCEPT ![w] = j]
    BY <1>0, <1>3, RecordDoes
  <2>2. job'[w].do = "report"
    BY <1>0, <2>1 DEF TypeOK, ReportJob
  <2>3. /\ job[w].project = g.project /\ job[w].stamp = g.stamp /\ job[w].result = g.result
    BY <1>3 DEF RecordRun, Serves
  <2>4. OnRecord(g)'
    <3>1. ASSUME NEW row \in Run, runs' = Append(runs, row), row.project = g.project,
                 row.stamp = g.stamp, row.result = g.result
          PROVE  OnRecord(g)'
      <4>1. PICK n : n = Len(runs) + 1
        OBVIOUS
      <4>2. n \in DOMAIN runs' /\ runs'[n] = row
        BY <1>0, <3>1, <4>1, Appended DEF TypeOK
      <4> QED BY <3>1, <4>2 DEF OnRecord
    <3> QED BY <1>0, <1>3, <2>3, <3>1, RecordDoes DEF OnRecord
  <2> QED BY <2>2, <2>4 DEF Serves
<1>4. ASSUME ReportFinding(w) \/ CompareWithBaseline(w) \/ ReportRegression(w)
      PROVE  Serves(w, g)' \/ (job'[w] = Idle /\ OnRecord(g)')
  <2>1. \/ job' = [job EXCEPT ![w] = Idle]
        \/ \E j \in ReportJob \cup AlarmJob : job' = [job EXCEPT ![w] = j]
    BY <1>0, <1>4, ReportDoes, CompareDoes, AlarmDoes
  <2>2. \A j \in ReportJob \cup AlarmJob : j.do \in {"report", "alarm"}
    BY DEF ReportJob, AlarmJob
  <2>3. job'[w] = Idle \/ job'[w].do \in {"report", "alarm"}
    BY <1>0, <2>1, <2>2 DEF TypeOK
  <2>4. OnRecord(g)
    BY <1>4 DEF Serves, Busy, ReportFinding, CompareWithBaseline, AllReported, ReportRegression
  <2> QED BY <1>g, <2>3, <2>4, RecordStays DEF Serves
<1> QED BY <1>1, <1>2, <1>3, <1>4 DEF Sync

\* Why a gate that has exited did so.
Judged(c, g) ==
  LET allowed == policyOf[c].maxRegressions
  IN  /\ g.exit = "pass" =>
           /\ Cardinality(Matching(g.result, policyOf[c])) <= policyOf[c].maxFailures
           /\ OnRecord(g)
      /\ g.baseline # 0 =>
           /\ g.baseline \in DOMAIN baselines /\ baselines[g.baseline].project = g.project
           /\ /\ g.exit = "pass" /\ DOMAIN g.result # {}
              /\ Cardinality(Regressions(runs[baselines[g.baseline].run].result, g.result))
                   > allowed
              => g.judged \in DOMAIN runs /\ runs[g.judged].stamp > g.stamp
      /\ /\ g.exit = "fail"
         /\ Cardinality(Matching(g.result, policyOf[c])) <= policyOf[c].maxFailures
         => /\ g.baseline # 0 /\ g.judged # 0
            /\ g.judged \in DOMAIN runs /\ runs[g.judged].project = g.project
            /\ Cardinality(Regressions(runs[baselines[g.baseline].run].result,
                                       runs[g.judged].result)) > allowed

GateKnows(c, g) ==
  \/ g = Waiting
  \/ /\ g.project \in Project /\ g.result \in Results /\ g.stamp \in Nat
     /\ g.do \in {"sync", "fetch", "compare", "exited"}
     /\ g.do = "sync" => g.worker \in Worker /\ Serves(g.worker, g)
     /\ g.do \in {"fetch", "compare"} => OnRecord(g)
     /\ g.do = "compare" => /\ g.baseline \in DOMAIN baselines /\ g.baseline # 0
                            /\ baselines[g.baseline].project = g.project
     /\ g.do = "exited" => Judged(c, g)

\* Rows stay, and with them what a gate knows unless it waits.
LEMMA JudgedStays ==
  ASSUME Grown, BaselinesPinned, NEW c \in Client, NEW g, Judged(c, g)
  PROVE  Judged(c, g)'
<1> DEFINE many == Cardinality(Matching(g.result, policyOf[c])) <= policyOf[c].maxFailures
           base == runs[baselines[g.baseline].run].result
<1>1. g.exit = "pass" => many /\ OnRecord(g)'
  BY RecordStays DEF Judged
<1>2. ASSUME g.baseline # 0
      PROVE  /\ g.baseline \in DOMAIN baselines' /\ baselines'[g.baseline].project = g.project
             /\ runs'[baselines'[g.baseline].run].result = base
  BY <1>2 DEF Judged, Grown, BaselinesPinned
<1>3. g.judged \in DOMAIN runs => g.judged \in DOMAIN runs' /\ runs'[g.judged] = runs[g.judged]
  BY DEF Grown
<1> QED BY <1>1, <1>2, <1>3 DEF Judged, Matching, Regressions

LEMMA GateStays ==
  ASSUME Grown, BaselinesPinned, NEW c \in Client, NEW g, GateKnows(c, g),
         g # Waiting /\ g.do = "sync" => Serves(g.worker, g)'
  PROVE  GateKnows(c, g)'
<1>1. CASE g = Waiting
  BY <1>1 DEF GateKnows
<1>2. CASE g # Waiting
  <2>1. g.do = "exited" => Judged(c, g)'
    BY <1>2, JudgedStays DEF GateKnows
  <2>2. g.do \in {"fetch", "compare"} => OnRecord(g)'
    BY <1>2, RecordStays DEF GateKnows
  <2>3. g.do = "compare" => g.baseline \in DOMAIN baselines' /\ g.baseline # 0
                            /\ baselines'[g.baseline].project = g.project
    BY <1>2 DEF GateKnows, Grown
  <2> QED BY <1>2, <2>1, <2>2, <2>3 DEF GateKnows
<1> QED BY <1>1, <1>2

\* The sets a verdict counts are finite.
LEMMA Counts ==
  ASSUME NEW c \in Client, NEW result \in Results
  PROVE  /\ Cardinality(Matching(result, policyOf[c])) \in Nat
         /\ policyOf[c].maxFailures \in Nat /\ policyOf[c].maxRegressions \in Nat
         /\ \A base : Cardinality(Regressions(base, result)) \in Nat
<1>1. PICK S \in Suites : result \in [S -> TestStatus]
  BY DEF Results
<1>2. DOMAIN result \subseteq Test /\ IsFiniteSet(Test)
  BY <1>1, SyncAssumption
<1>3. \A T \in SUBSET DOMAIN result : Cardinality(T) \in Nat
  BY <1>2, FS_Subset, FS_CardinalityType
<1>4. Matching(result, policyOf[c]) \subseteq DOMAIN result
  BY DEF Matching
<1>5. \A base : Regressions(base, result) \subseteq DOMAIN result
  BY DEF Regressions
<1>6. policyOf[c] \in Policy
  BY ReadersAssumption
<1> QED BY <1>3, <1>4, <1>5, <1>6 DEF Policy

LEMMA Verdict ==
  ASSUME NEW c \in Client, NEW result \in Results, NEW S, Cardinality(S) \in Nat
  PROVE  /\ ExitOf(result, policyOf[c], S) = "pass" =>
              /\ Cardinality(Matching(result, policyOf[c])) <= policyOf[c].maxFailures
              /\ ~(Cardinality(S) > policyOf[c].maxRegressions)
         /\ /\ ExitOf(result, policyOf[c], S) = "fail"
            /\ Cardinality(Matching(result, policyOf[c])) <= policyOf[c].maxFailures
            => Cardinality(S) > policyOf[c].maxRegressions
         /\ ExitOf(result, policyOf[c], S) \in {"pass", "fail"}
  BY Counts DEF ExitOf, TooMany

\* Exits that judge no regression: the reader has no baseline to name.
LEMMA PlainExit ==
  ASSUME NEW c \in Client, NEW g, g.project \in Project, g.result \in Results, g.stamp \in Nat,
         OnRecord(g), NEW h, h = Exited(g, ExitOf(g.result, policyOf[c], {}), 0, 0)
  PROVE  GateKnows(c, h)
<1>1. Cardinality({}) = 0
  BY FS_EmptySet
<1>2. /\ h.exit = "pass" =>
           Cardinality(Matching(h.result, policyOf[c])) <= policyOf[c].maxFailures
      /\ h.exit = "fail" =>
           ~(Cardinality(Matching(h.result, policyOf[c])) <= policyOf[c].maxFailures)
  BY <1>1, Verdict, Counts DEF Exited
<1> QED BY <1>2 DEF GateKnows, Judged, Exited, OnRecord

LEMMA FailedExit ==
  ASSUME NEW c \in Client, NEW g, g.project \in Project, g.result \in Results, g.stamp \in Nat,
         NEW h, h = NoAnswer(g)
  PROVE  GateKnows(c, h)
  BY DEF GateKnows, Judged, NoAnswer, Exited

\* The verdict of a gate with a report.
LEMMA ReportExit ==
  ASSUME Base, NEW c \in Client, NEW g, GateKnows(c, g), g # Waiting, g.do = "compare",
         NEW r, r = LatestRun(g.project),
         NEW h, h = Exited(g, ExitOf(g.result, policyOf[c], Reported(g.baseline, r)),
                           g.baseline, r)
  PROVE  GateKnows(c, h)
<1> DEFINE base == runs[baselines[g.baseline].run].result
           many == Cardinality(Matching(g.result, policyOf[c])) <= policyOf[c].maxFailures
           allowed == policyOf[c].maxRegressions
<1>0. TypeOK /\ Stamped /\ BaselinesPinned
  BY DEF Base, Safe
<1>1. /\ g.project \in Project /\ g.result \in Results /\ g.stamp \in Nat /\ OnRecord(g)
      /\ g.baseline \in DOMAIN baselines /\ g.baseline # 0
      /\ baselines[g.baseline].project = g.project
  BY DEF GateKnows
<1>2. /\ r = 0 => \A s \in DOMAIN runs : runs[s].project # g.project
      /\ r # 0 => /\ r \in DOMAIN runs /\ runs[r].project = g.project
                  /\ \A s \in DOMAIN runs :
                       runs[s].project = g.project => runs[s].stamp <= runs[r].stamp
  BY <1>0, <1>1, LatestIsOwn
<1>3. Reported(g.baseline, r) = IF r = 0 THEN {} ELSE Regressions(base, runs[r].result)
  BY <1>1 DEF Reported
<1>4. Cardinality(Reported(g.baseline, r)) \in Nat
  <2>1. CASE r = 0
    BY <1>3, <2>1, FS_EmptySet
  <2>2. CASE r # 0
    <3>1. runs[r] \in Run
      BY <1>0, <1>2, <2>2 DEF TypeOK
    <3> QED BY <1>3, <2>2, <3>1, Counts DEF Run
  <2> QED BY <2>1, <2>2
<1>5. /\ h.exit = ExitOf(g.result, policyOf[c], Reported(g.baseline, r))
      /\ h.project = g.project /\ h.result = g.result /\ h.stamp = g.stamp
      /\ h.baseline = g.baseline /\ h.judged = r /\ h.do = "exited"
  BY DEF Exited
<1>6. h.exit = "pass" => many /\ ~(Cardinality(Reported(g.baseline, r)) > allowed)
  BY <1>1, <1>4, <1>5, Verdict
<1>7. ASSUME h.exit = "fail", many
      PROVE  /\ r # 0 /\ r \in DOMAIN runs /\ runs[r].project = g.project
             /\ Cardinality(Regressions(base, runs[r].result)) > allowed
  <2>1. Cardinality(Reported(g.baseline, r)) > allowed
    BY <1>1, <1>4, <1>5, <1>7, Verdict
  <2>2. r # 0
    <3>1. r = 0 => Cardinality(Reported(g.baseline, r)) = 0
      BY <1>3, FS_EmptySet
    <3>2. ~(0 > allowed)
      BY Counts, <1>1
    <3> QED BY <2>1, <3>1, <3>2
  <2> QED BY <1>2, <1>3, <2>1, <2>2
<1>8. ASSUME h.exit = "pass", DOMAIN g.result # {},
             Cardinality(Regressions(base, g.result)) > allowed
      PROVE  r \in DOMAIN runs /\ runs[r].stamp > g.stamp
  <2>1. PICK s \in DOMAIN runs : /\ runs[s].project = g.project /\ runs[s].stamp = g.stamp
                                 /\ runs[s].result = g.result
    BY <1>1, <1>8 DEF OnRecord
  <2>2. r # 0 /\ r \in DOMAIN runs /\ g.stamp <= runs[r].stamp
    BY <1>2, <2>1
  <2>3. r # s
    BY <1>3, <1>6, <1>8, <2>1, <2>2
  <2>4. runs[r].stamp # g.stamp
    BY <1>0, <2>1, <2>2, <2>3 DEF Stamped
  <2>5. runs[r] \in Run
    BY <1>0, <2>2 DEF TypeOK
  <2>6. runs[r].stamp \in Nat
    BY <2>5 DEF Run
  <2> QED BY <1>1, <2>2, <2>4, <2>6
<1>9. Judged(c, h)
  BY <1>1, <1>5, <1>6, <1>7, <1>8 DEF Judged, OnRecord
<1> QED BY <1>1, <1>5, <1>9 DEF GateKnows

GatesKnow == DOMAIN gate = Client /\ \A c \in Client : GateKnows(c, gate[c])

LEMMA GateThen ==
  ASSUME NEW c \in Client, NEW g, g = gate'[c], GateKnows(c, g)'
  PROVE  GateKnows(c, gate[c])'
  BY DEF GateKnows, Serves, Busy, OnRecord, Judged

\* A thread that is free, or at work on a status or a baseline, serves no gate.
LEMMA ServesMeansSync ==
  ASSUME NEW w \in Worker, NEW g, Serves(w, g)
  PROVE  job[w].do \in {"check", "record", "report", "alarm"} /\ job[w] # Idle
  BY DEF Serves, Busy, Idle

\* A gate that no answer reaches, while some thread works on something else.
LEMMA GateRests ==
  ASSUME Base, [Next]_vars, NEW c \in Client, GateKnows(c, gate[c]), gate'[c] = gate[c],
         gate[c] # Waiting /\ gate[c].do = "sync" => job'[gate[c].worker] = job[gate[c].worker]
  PROVE  GateKnows(c, gate[c])'
<1>1. PICK g : g = gate[c]
  OBVIOUS
<1>2. Grown /\ BaselinesPinned
  BY TablesGrow DEF Base, Safe
<1>3. g # Waiting /\ g.do = "sync" => Serves(g.worker, g)'
  <2> SUFFICES ASSUME g # Waiting, g.do = "sync" PROVE Serves(g.worker, g)'
    OBVIOUS
  <2>1. g.worker \in Worker /\ Serves(g.worker, g) /\ job'[g.worker] = job[g.worker]
    BY <1>1 DEF GateKnows
  <2>2. PICK w \in Worker : w = g.worker
    BY <2>1
  <2>3. Serves(w, g)'
    BY <1>2, <2>1, <2>2, ServesUnmoved
  <2> QED BY <2>2, <2>3
<1>4. GateKnows(c, g)'
  BY <1>1, <1>2, <1>3, GateStays
<1> QED BY <1>1, <1>4, GateThen

LEMMA GateIdleWorker ==
  ASSUME Base, NEW w \in Worker, StepOf(w), job[w].do \notin {"check", "record", "report", "alarm"},
         NEW c \in Client, GateKnows(c, gate[c]), gate'[c] = gate[c]
  PROVE  GateKnows(c, gate[c])'
<1>1. [Next]_vars
  BY DEF Next, StepOf
<1>2. ASSUME gate[c] # Waiting, gate[c].do = "sync"
      PROVE  job'[gate[c].worker] = job[gate[c].worker]
  <2>1. gate[c].worker \in Worker /\ Serves(gate[c].worker, gate[c])
    BY <1>2 DEF GateKnows
  <2>2. gate[c].worker # w
    BY <2>1, ServesMeansSync
  <2> QED BY <2>1, <2>2, OthersRest DEF Base, Safe
<1> QED BY <1>1, <1>2, GateRests

LEMMA GateServed ==
  ASSUME Base, NEW w \in Worker, ServeSync(w), NEW c \in Client, DOMAIN gate = Client,
         GateKnows(c, gate[c])
  PROVE  GateKnows(c, gate[c])'
<1>0. TypeOK /\ Safe /\ [Next]_vars /\ StepOf(w) /\ Sync(w)
  BY DEF Base, Safe, Next, ServeSync, StepOf
<1>1. PICK g : g = gate[c]
  OBVIOUS
<1>2. Grown /\ BaselinesPinned
  BY <1>0, TablesGrow DEF Safe
<1>3. CASE WaitsFor(c, w)
  <2>1. g # Waiting /\ g.do = "sync" /\ g.worker = w
    BY <1>1, <1>3 DEF WaitsFor, Waiting
  <2>2. /\ g.project \in Project /\ g.result \in Results /\ g.stamp \in Nat
        /\ Serves(w, g)
    BY <1>1, <2>1 DEF GateKnows
  <2>3. Serves(w, g)' \/ (job'[w] = Idle /\ OnRecord(g)')
    BY <1>0, <2>2, ServesOn
  <2>4. CASE job'[w] # Idle
    <3>1. gate'[c] = g
      BY <1>1, <2>4 DEF ServeSync
    <3>2. GateKnows(c, g)'
      BY <1>1, <1>2, <2>1, <2>3, <2>4, GateStays
    <3> QED BY <3>1, <3>2, GateThen
  <2>5. CASE job'[w] = Idle
    <3>1. gate'[c] = Answered(c)
      BY <1>3, <2>5 DEF ServeSync
    <3>2. OnRecord(g)'
      <4>1. ASSUME Serves(w, g)' PROVE job'[w] # Idle
        BY <4>1 DEF Serves, Busy, Idle
      <4> QED BY <2>3, <2>5, <4>1
    <3>3. CASE policyOf[c].check
      <4>1. PICK h : h = [do |-> "fetch", project |-> g.project, result |-> g.result,
                          stamp |-> g.stamp]
        OBVIOUS
      <4>2. h = gate'[c]
        BY <1>1, <3>1, <3>3, <4>1 DEF Answered
      <4>3. GateKnows(c, h)'
        BY <2>2, <3>2, <4>1 DEF GateKnows, OnRecord
      <4> QED BY <4>2, <4>3, GateThen
    <3>4. CASE ~policyOf[c].check
      <4>1. PICK h : h = Exited(g, ExitOf(g.result, policyOf[c], {}), 0, 0)
        OBVIOUS
      <4>2. h = gate'[c]
        BY <1>1, <3>1, <3>4, <4>1 DEF Answered
      <4>3. Cardinality({}) = 0
        BY FS_EmptySet
      <4>4. /\ h.exit = "pass" =>
                 Cardinality(Matching(h.result, policyOf[c])) <= policyOf[c].maxFailures
            /\ h.exit = "fail" =>
                 ~(Cardinality(Matching(h.result, policyOf[c])) <= policyOf[c].maxFailures)
        BY <2>2, <4>1, <4>3, Verdict, Counts DEF Exited
      <4>5. GateKnows(c, h)'
        BY <2>2, <3>2, <4>1, <4>4 DEF GateKnows, Judged, Exited, OnRecord
      <4> QED BY <4>2, <4>5, GateThen
    <3> QED BY <3>3, <3>4
  <2> QED BY <2>4, <2>5
<1>4. CASE ~WaitsFor(c, w)
  <2>1. gate'[c] = gate[c]
    BY <1>4 DEF ServeSync
  <2>2. ASSUME gate[c] # Waiting, gate[c].do = "sync"
        PROVE  job'[gate[c].worker] = job[gate[c].worker]
    <3>1. gate[c].worker \in Worker /\ gate[c].worker # w
      BY <1>4, <2>2 DEF GateKnows, WaitsFor
    <3> QED BY <1>0, <3>1, OthersRest
  <2> QED BY <1>0, <2>1, <2>2, GateRests
<1> QED BY <1>3, <1>4

LEMMA GateDied ==
  ASSUME Base, NEW w \in Worker, DieServing(w), NEW c \in Client, DOMAIN gate = Client,
         GateKnows(c, gate[c])
  PROVE  GateKnows(c, gate[c])'
<1>0. TypeOK /\ [Next]_vars /\ StepOf(w)
  BY DEF Base, Safe, Next, DieServing, StepOf
<1>1. CASE WaitsFor(c, w)
  <2>1. PICK h : h = NoAnswer(gate[c])
    OBVIOUS
  <2>2. h = gate'[c]
    BY <1>1, <2>1 DEF DieServing
  <2>3. /\ gate[c].project \in Project /\ gate[c].result \in Results /\ gate[c].stamp \in Nat
    BY <1>1 DEF WaitsFor, GateKnows, Waiting
  <2>4. GateKnows(c, h)'
    BY <2>1, <2>3 DEF GateKnows, Judged, NoAnswer, Exited
  <2> QED BY <2>2, <2>4, GateThen
<1>2. CASE ~WaitsFor(c, w)
  <2>1. gate'[c] = gate[c]
    BY <1>2 DEF DieServing
  <2>2. ASSUME gate[c] # Waiting, gate[c].do = "sync"
        PROVE  job'[gate[c].worker] = job[gate[c].worker]
    <3>1. gate[c].worker \in Worker /\ gate[c].worker # w
      BY <1>2, <2>2 DEF GateKnows, WaitsFor
    <3> QED BY <1>0, <3>1, OthersRest
  <2> QED BY <1>0, <2>1, <2>2, GateRests
<1> QED BY <1>1, <1>2

LEMMA GateAlike ==
  ASSUME UNCHANGED vars, NEW c \in Client, NEW g, GateKnows(c, g)
  PROVE  GateKnows(c, g)'
  BY DEF vars, GateKnows, Serves, Busy, OnRecord, Judged

LEMMA GatePosts ==
  ASSUME Base, NEW c \in Client, NEW w \in Worker, NEW p \in Project, NEW suite \in Suites,
         PostSync(c, w, p, suite), DOMAIN gate = Client, NEW d \in Client,
         GateKnows(d, gate[d])
  PROVE  GateKnows(d, gate[d])'
<1>0. TypeOK /\ StepOf(w) /\ [Next]_vars /\ RunSuite(w, p, suite)
  BY DEF Base, Safe, Next, PostSync, StepOf
<1>1. CASE d = c
  <2>1. PICK j \in CheckJob : job' = [job EXCEPT ![w] = j] /\ j.project = p /\ j.stamp = clock + 1
    BY <1>0, RunSuiteDoes
  <2>2. job'[w] = j
    BY <1>0, <2>1 DEF TypeOK
  <2>3. clock' = clock + 1
    BY <1>0 DEF RunSuite
  <2>4. PICK g : g = [do |-> "sync", worker |-> w, project |-> p, result |-> j.result,
                      stamp |-> clock + 1]
    OBVIOUS
  <2>5. g = gate'[d]
    BY <1>1, <2>2, <2>3, <2>4 DEF PostSync
  <2>6. j.result \in Results /\ j.stamp \in Nat /\ j.do = "check"
    BY DEF CheckJob
  <2>7. Serves(w, g)'
    BY <2>1, <2>2, <2>4, <2>6 DEF Serves, Busy
  <2>8. GateKnows(d, g)'
    BY <2>1, <2>4, <2>6, <2>7 DEF GateKnows
  <2> QED BY <2>5, <2>8, GateThen
<1>2. CASE d # c
  <2>1. gate'[d] = gate[d]
    BY <1>2 DEF PostSync
  <2>2. job[w].do = "idle"
    BY <1>0 DEF RunSuite, Idle
  <2> QED BY <1>0, <2>1, <2>2, GateIdleWorker
<1> QED BY <1>1, <1>2

\* What a gate reads for itself.
LEMMA GateReads ==
  ASSUME Base, DOMAIN gate = Client, NEW c \in Client, GateKnows(c, gate[c]),
         GiveUp(c) \/ ReadBaseline(c) \/ CompareLatest(c) \/ FetchFails(c)
  PROVE  GateKnows(c, gate[c])'
<1>1. PICK g : g = gate[c]
  OBVIOUS
<1>0. UNCHANGED vars /\ TypeOK /\ g # Waiting
  BY <1>1 DEF GiveUp, ReadBaseline, CompareLatest, FetchFails, Base, Safe, Waiting
<1>2. g.project \in Project /\ g.result \in Results /\ g.stamp \in Nat
  BY <1>0, <1>1 DEF GateKnows
<1>3. ASSUME NEW h, h = gate'[c], GateKnows(c, h) PROVE GateKnows(c, gate[c])'
  BY <1>0, <1>3, GateAlike, GateThen
<1>4. CASE GiveUp(c) \/ FetchFails(c)
  <2>1. PICK h : h = NoAnswer(g)
    OBVIOUS
  <2>2. h = gate'[c]
    BY <1>1, <1>4, <2>1 DEF GiveUp, FetchFails
  <2> QED BY <1>2, <1>3, <2>1, <2>2, FailedExit
<1>5. CASE ReadBaseline(c)
  <2>1. OnRecord(g)
    BY <1>0, <1>1, <1>5 DEF ReadBaseline, GateKnows
  <2>2. PICK b : b = NewestBaseline(g.project)
    OBVIOUS
  <2>3. b = 0 \/ (b \in DOMAIN baselines /\ baselines[b].project = g.project)
    BY <1>0, <1>2, <2>2, NewestIsOwn
  <2>4. CASE b = 0
    <3>1. PICK h : h = Exited(g, ExitOf(g.result, policyOf[c], {}), 0, 0)
      OBVIOUS
    <3>2. h = gate'[c]
      BY <1>1, <1>5, <2>2, <2>4, <3>1 DEF ReadBaseline
    <3>3. GateKnows(c, h)
      BY <1>2, <2>1, <3>1, PlainExit
    <3> QED BY <1>3, <3>2, <3>3
  <2>5. CASE b # 0
    <3>1. PICK h : h = [do |-> "compare", project |-> g.project, result |-> g.result,
                        stamp |-> g.stamp, baseline |-> b]
      OBVIOUS
    <3>2. h = gate'[c]
      BY <1>1, <1>5, <2>2, <2>5, <3>1 DEF ReadBaseline
    <3>3. GateKnows(c, h)
      BY <1>2, <2>1, <2>3, <2>5, <3>1 DEF GateKnows, OnRecord
    <3> QED BY <1>3, <3>2, <3>3
  <2> QED BY <2>4, <2>5
<1>6. CASE CompareLatest(c)
  <2>1. PICK r : r = LatestRun(g.project)
    OBVIOUS
  <2>2. PICK h : h = Exited(g, ExitOf(g.result, policyOf[c], Reported(g.baseline, r)),
                            g.baseline, r)
    OBVIOUS
  <2>3. h = gate'[c] /\ g.do = "compare"
    BY <1>1, <1>6, <2>1, <2>2 DEF CompareLatest
  <2>4. GateKnows(c, h)
    BY <1>0, <1>1, <2>1, <2>2, <2>3, ReportExit
  <2> QED BY <1>3, <2>3, <2>4
<1> QED BY <1>4, <1>5, <1>6

LEMMA GatesKept ==
  ASSUME Base, GatesKnow, [ReadersNext]_allVars
  PROVE  GatesKnow'
<1>0. DOMAIN gate' = Client
  BY DEF GatesKnow, ReadersNext, PostSync, ServeSync, DieServing, PatchLogged, GiveUp,
         ReadBaseline, CompareLatest, FetchFails, ReadLatest, ReadFindings, ReadChanges,
         allVars, readers
<1> SUFFICES ASSUME NEW c \in Client PROVE GateKnows(c, gate[c])'
  BY <1>0 DEF GatesKnow
<1>1. DOMAIN gate = Client /\ GateKnows(c, gate[c]) /\ [Next]_vars
  BY ReaderSteps DEF GatesKnow
<1>2. ASSUME UNCHANGED vars, gate'[c] = gate[c] PROVE GateKnows(c, gate[c])'
  BY <1>1, <1>2, GateRests DEF vars
<1>3. ASSUME NEW w \in Worker,
             \/ \E p \in Project, suite \in Suites : RunSuite(w, p, suite)
             \/ \E i \in DOMAIN findings, status \in Targets : LoadFinding(w, i, status)
             \/ \E p \in Project, named \in 0..Len(runs) : ChooseRun(w, p, named)
             \/ PinBaseline(w),
             UNCHANGED readers
      PROVE  GateKnows(c, gate[c])'
  <2>1. StepOf(w)
    BY <1>3 DEF StepOf
  <2>2. job[w] = Idle \/ job[w].do = "pin"
    BY <1>3 DEF RunSuite, LoadFinding, ChooseRun, PinBaseline
  <2>3. job[w].do \notin {"check", "record", "report", "alarm"} /\ gate'[c] = gate[c]
    BY <1>3, <2>2 DEF Idle, readers
  <2> QED BY <1>1, <2>1, <2>3, GateIdleWorker
<1>4. ASSUME NEW w \in Worker, PatchLogged(w) PROVE GateKnows(c, gate[c])'
  <2>1. StepOf(w) /\ job[w].do = "patch" /\ gate'[c] = gate[c]
    BY <1>4 DEF StepOf, PatchLogged, PatchFinding
  <2> QED BY <1>1, <2>1, GateIdleWorker
<1>5. ASSUME NEW d \in Client, GiveUp(d) \/ ReadBaseline(d) \/ CompareLatest(d) \/ FetchFails(d)
      PROVE  GateKnows(c, gate[c])'
  <2>1. CASE d = c
    BY <1>1, <1>5, <2>1, GateReads
  <2>2. CASE d # c
    <3>1. UNCHANGED vars /\ gate'[c] = gate[c]
      BY <1>1, <1>5, <2>2 DEF GiveUp, ReadBaseline, CompareLatest, FetchFails
    <3> QED BY <1>2, <3>1
  <2> QED BY <2>1, <2>2
<1>6. ASSUME NEW v \in Viewer,
             ReadFindings(v) \/ ReadChanges(v) \/ \E p \in Project : ReadLatest(v, p)
      PROVE  GateKnows(c, gate[c])'
  BY <1>2, <1>6 DEF ReadFindings, ReadChanges, ReadLatest
<1>7. CASE UNCHANGED allVars
  BY <1>2, <1>7 DEF allVars, readers
<1>8. ASSUME NEW w \in Worker, ServeSync(w) \/ DieServing(w) PROVE GateKnows(c, gate[c])'
  BY <1>1, <1>8, GateServed, GateDied
<1>9. ASSUME NEW d \in Client, NEW w \in Worker, NEW p \in Project, NEW suite \in Suites,
             PostSync(d, w, p, suite)
      PROVE  GateKnows(c, gate[c])'
  BY <1>1, <1>9, GatePosts
<1> QED BY <1>3, <1>4, <1>5, <1>6, <1>7, <1>8, <1>9 DEF ReadersNext

LEMMA GatesSpec == ReadersSpec => []GatesKnow
<1>1. ReadersInit => GatesKnow
  BY DEF ReadersInit, GatesKnow, GateKnows
<1>2. Base /\ GatesKnow /\ [ReadersNext]_allVars => GatesKnow'
  BY GatesKept
<1> QED BY <1>1, <1>2, ReadersImplementSync, BaseSpec, PTL DEF ReadersSpec

\* A build is green only on evidence.
THEOREM GreenIsBacked == ReadersSpec => []PassBacked
<1>1. GatesKnow => PassBacked
  BY DEF GatesKnow, GateKnows, Judged, OnRecord, PassBacked, Waiting
<1> QED BY <1>1, GatesSpec, PTL

\* A gate judges regressions of its own project, misses those of its own run only for a
\* later one, and fails a build only for a reason its policy names.
THEOREM VerdictsAreOwn == ReadersSpec => []RegressionsJudged
<1>1. GatesKnow => RegressionsJudged
  BY DEF GatesKnow, GateKnows, Judged, RegressionsJudged, Waiting
<1> QED BY <1>1, GatesSpec, PTL

-----------------------------------------------------------------------------
(* What a page shows                                                       *)

\* The failure of a test, in a suite that began at s, has a finding that is open or was
\* resolved since.
Explained(p, t, s) ==
  \E i \in DOMAIN findings :
    /\ findings[i].project = p /\ findings[i].test = t
    /\ findings[i].status \in OpenLike \/ \E e \in resolvedAt : e[1] = i /\ e[2] >= s

SinceLogged(w) ==
  Busy(w) => \A i \in closedSince[w] : \E e \in resolvedAt : e[1] = i /\ e[2] >= job[w].stamp

RunsBacked ==
  \A r \in DOMAIN runs : \A t \in Failed(runs[r].result) :
    Explained(runs[r].project, t, runs[r].stamp)

Explains == RunsBacked /\ \A w \in Worker : SinceLogged(w)

\* Only a status update changes a row of findings, or notes for a sync that it did.
LEMMA RowsRest ==
  ASSUME Safe, NEW w \in Worker,
         \/ Sync(w) \/ Die(w) \/ PinBaseline(w)
         \/ \E p \in Project, suite \in Suites : RunSuite(w, p, suite)
         \/ \E i \in DOMAIN findings, status \in Targets : LoadFinding(w, i, status)
         \/ \E p \in Project, named \in 0..Len(runs) : ChooseRun(w, p, named)
  PROVE  /\ \A i \in DOMAIN findings : findings'[i] = findings[i]
         /\ \A v \in Worker : closedSince'[v] \subseteq closedSince[v]
<1>0. TypeOK
  BY DEF Safe
<1>1. CASE SaveFindings(w)
  <2>1. PICK rows \in NewFindings(job[w].project, job[w].staged) : findings' = findings \o rows
    BY <1>0, <1>1, SaveDoes
  <2>2. rows \in Seq(Finding)
    BY <1>0, <1>1, NewRows, SaveDoes DEF CheckJob
  <2>3. \A i \in DOMAIN findings : findings'[i] = findings[i]
    BY <1>0, <2>1, <2>2, Joined DEF TypeOK
  <2> QED BY <1>1, <2>3 DEF SaveFindings, history
<1>2. CASE ~SaveFindings(w)
  <2>1. findings' = findings
    BY <1>2 DEF Sync, tables, RunSuite, CheckOne, RecordRun, ReportFinding,
                CompareWithBaseline, ReportRegression, LoadFinding, ChooseRun, PinBaseline, Die
  <2>2. closedSince' = closedSince \/ closedSince' = [closedSince EXCEPT ![w] = {}]
    BY <1>2 DEF Sync, history, RunSuite, CheckOne, RecordRun, ReportFinding,
                CompareWithBaseline, ReportRegression, LoadFinding, ChooseRun, PinBaseline, Die
  <2> QED BY <1>0, <2>1, <2>2 DEF TypeOK
<1> QED BY <1>1, <1>2

\* A resolution is noted with its time.
LEMMA ResolutionsNoted ==
  ASSUME Safe, [ReadersNext]_allVars
  PROVE  /\ resolvedAt \subseteq resolvedAt'
         /\ \A i \in DOMAIN findings :
              \/ findings'[i] = findings[i]
              \/ findings'[i].status \in OpenLike
              \/ findings'[i].status = findings[i].status
              \/ <<i, clock>> \in resolvedAt'
         /\ \A v \in Worker : \A i \in closedSince'[v] :
              i \in closedSince[v] \/ <<i, clock>> \in resolvedAt'
<1> DEFINE G == /\ resolvedAt \subseteq resolvedAt'
                /\ \A i \in DOMAIN findings :
                     \/ findings'[i] = findings[i]
                     \/ findings'[i].status \in OpenLike
                     \/ findings'[i].status = findings[i].status
                     \/ <<i, clock>> \in resolvedAt'
                /\ \A v \in Worker : \A i \in closedSince'[v] :
                     i \in closedSince[v] \/ <<i, clock>> \in resolvedAt'
<1>0. TypeOK
  BY DEF Safe
<1>1. ASSUME NEW w \in Worker, resolvedAt' = resolvedAt,
             \/ Sync(w) \/ Die(w) \/ PinBaseline(w)
             \/ \E p \in Project, suite \in Suites : RunSuite(w, p, suite)
             \/ \E i \in DOMAIN findings, status \in Targets : LoadFinding(w, i, status)
             \/ \E p \in Project, named \in 0..Len(runs) : ChooseRun(w, p, named)
      PROVE  G
  BY <1>1, RowsRest
<1>2. ASSUME UNCHANGED vars, resolvedAt' = resolvedAt PROVE G
  BY <1>2 DEF vars
<1>3. ASSUME NEW w \in Worker, PatchLogged(w) PROVE G
  <2>1. /\ job[w] \in PatchJob /\ DOMAIN findings' = DOMAIN findings
        /\ \A i \in DOMAIN findings :
             \/ findings'[i].status = findings[i].status
             \/ i = job[w].id /\ findings'[i].status = job[w].status
    BY <1>0, <1>3, PatchDoes DEF PatchLogged
  <2>2. job[w].status \in FindingStatus
    BY <2>1 DEF PatchJob
  <2>3. resolvedAt' = resolvedAt \cup
          {<<i, clock>> : i \in {n \in DOMAIN findings : /\ findings[n].status # "RESOLVED"
                                                         /\ findings'[n].status = "RESOLVED"}}
    BY <1>3 DEF PatchLogged
  <2>4. \A i \in DOMAIN findings :
          \/ findings'[i].status \in OpenLike
          \/ findings'[i].status = findings[i].status
          \/ <<i, clock>> \in resolvedAt'
    BY <2>1, <2>2, <2>3 DEF FindingStatus, OpenLike
  <2>5. job[w].id \in DOMAIN findings
    BY <1>3, <2>1 DEF Safe, AllKnow, Knows, PatchLogged, PatchFinding
  <2>6. ASSUME NEW v \in Worker, NEW i \in closedSince'[v]
        PROVE  i \in closedSince[v] \/ <<i, clock>> \in resolvedAt'
    <3>1. \/ i \in closedSince[v]
          \/ /\ i = job[w].id
             /\ findings'[i].status = "RESOLVED" /\ findings[i].status # "RESOLVED"
      BY <1>3 DEF PatchLogged, PatchFinding
    <3> QED BY <2>3, <2>5, <3>1
  <2> QED BY <2>3, <2>4, <2>6
<1> HIDE DEF G
<1>4. G
  <2>1. ASSUME NEW w \in Worker,
               \/ \E p \in Project, suite \in Suites : RunSuite(w, p, suite)
               \/ \E i \in DOMAIN findings, status \in Targets : LoadFinding(w, i, status)
               \/ \E p \in Project, named \in 0..Len(runs) : ChooseRun(w, p, named)
               \/ PinBaseline(w),
               UNCHANGED readers
        PROVE  G
    BY <1>1, <2>1 DEF readers
  <2>2. ASSUME NEW w \in Worker, ServeSync(w) \/ DieServing(w) PROVE G
    BY <1>1, <2>2 DEF ServeSync, DieServing
  <2>3. ASSUME NEW d \in Client, NEW w \in Worker, NEW p \in Project, NEW suite \in Suites,
               PostSync(d, w, p, suite)
        PROVE  G
    BY <1>1, <2>3 DEF PostSync
  <2>4. ASSUME NEW c \in Client, GiveUp(c) \/ ReadBaseline(c) \/ CompareLatest(c) \/ FetchFails(c)
        PROVE  G
    BY <1>2, <2>4 DEF GiveUp, ReadBaseline, CompareLatest, FetchFails
  <2>5. ASSUME NEW v \in Viewer,
               ReadFindings(v) \/ ReadChanges(v) \/ \E p \in Project : ReadLatest(v, p)
        PROVE  G
    BY <1>2, <2>5 DEF ReadFindings, ReadChanges, ReadLatest
  <2>6. CASE UNCHANGED allVars
    BY <1>2, <2>6 DEF allVars, readers
  <2> QED BY <1>3, <2>1, <2>2, <2>3, <2>4, <2>5, <2>6 DEF ReadersNext
<1> QED BY <1>4 DEF G

LEMMA ExplainedStays ==
  ASSUME Safe, [ReadersNext]_allVars, NEW p, NEW t, NEW s \in Nat, s <= clock,
         Explained(p, t, s)
  PROVE  Explained(p, t, s)'
<1>0. TypeOK /\ Grown
  BY ReaderSteps, TablesGrow DEF Safe
<1>1. PICK i \in DOMAIN findings :
        /\ findings[i].project = p /\ findings[i].test = t
        /\ findings[i].status \in OpenLike \/ \E e \in resolvedAt : e[1] = i /\ e[2] >= s
  BY DEF Explained
<1>2. i \in DOMAIN findings' /\ findings'[i].project = p /\ findings'[i].test = t
  BY <1>0, <1>1 DEF Grown
<1>3. findings'[i].status \in OpenLike \/ \E e \in resolvedAt' : e[1] = i /\ e[2] >= s
  <2>1. CASE <<i, clock>> \in resolvedAt'
    BY <2>1
  <2>2. CASE <<i, clock>> \notin resolvedAt'
    BY <1>1, <2>2, ResolutionsNoted
  <2> QED BY <2>1, <2>2
<1> QED BY <1>2, <1>3 DEF Explained

LEMMA CoveredExplains ==
  ASSUME NEW w \in Worker, Busy(w), SinceLogged(w), NEW p, NEW t, Covered(w, p, t)
  PROVE  Explained(p, t, job[w].stamp)
  BY DEF SinceLogged, Covered, Explained

LEMMA SinceKept ==
  ASSUME Base, [ReadersNext]_allVars, NEW w \in Worker, SinceLogged(w)
  PROVE  SinceLogged(w)'
<1>0. TypeOK /\ Safe /\ Stamped /\ [Next]_vars
  BY ReaderSteps DEF Base, Safe
<1> SUFFICES ASSUME Busy(w)', NEW i \in closedSince'[w]
             PROVE  \E e \in resolvedAt' : e[1] = i /\ e[2] >= job'[w].stamp
  BY DEF SinceLogged
<1>1. ASSUME Busy(w), job'[w].stamp = job[w].stamp
      PROVE  \E e \in resolvedAt' : e[1] = i /\ e[2] >= job'[w].stamp
  <2>1. clock \in Nat /\ job[w].stamp \in 1..clock
    BY <1>0, <1>1, SyncAssumption DEF TypeOK, Stamped
  <2>2. CASE <<i, clock>> \in resolvedAt'
    BY <1>1, <2>1, <2>2
  <2>3. CASE i \in closedSince[w]
    BY <1>0, <1>1, <2>3, ResolutionsNoted DEF SinceLogged
  <2> QED BY <1>0, <2>2, <2>3, ResolutionsNoted
<1>2. CASE SameStamps
  BY <1>1, <1>2 DEF SameStamps
<1>3. ASSUME NEW v \in Worker, NEW p \in Project, NEW suite \in Suites, RunSuite(v, p, suite)
      PROVE  \E e \in resolvedAt' : e[1] = i /\ e[2] >= job'[w].stamp
  <2>1. v # w
    BY <1>0, <1>3 DEF RunSuite, TypeOK
  <2>2. job'[w] = job[w]
    BY <1>0, <1>3, <2>1, OthersRest DEF StepOf
  <2> QED BY <1>1, <2>2 DEF Busy
<1>4. ASSUME NEW v \in Worker, RecordRun(v)
      PROVE  \E e \in resolvedAt' : e[1] = i /\ e[2] >= job'[w].stamp
  <2>1. v # w
    <3>1. \E j \in ReportJob : job' = [job EXCEPT ![v] = j]
      BY <1>0, <1>4, RecordDoes
    <3> QED BY <1>0, <3>1 DEF TypeOK, Busy, ReportJob
  <2>2. job'[w] = job[w]
    BY <1>0, <1>4, <2>1, OthersRest DEF StepOf, Sync
  <2> QED BY <1>1, <2>2 DEF Busy
<1> QED BY <1>0, <1>2, <1>3, <1>4, OtherSteps

\* One run at a time.
RunBacked(row) == \A t \in Failed(row.result) : Explained(row.project, t, row.stamp)

LEMMA RunsBackedThen ==
  ASSUME \A r \in DOMAIN runs' : \A row : row = runs'[r] => RunBacked(row)'
  PROVE  RunsBacked'
<1>1. ASSUME NEW r \in DOMAIN runs', NEW t \in Failed(runs'[r].result)
      PROVE  \E i \in DOMAIN findings' :
               /\ findings'[i].project = runs'[r].project /\ findings'[i].test = t
               /\ \/ findings'[i].status \in OpenLike
                  \/ \E e \in resolvedAt' : e[1] = i /\ e[2] >= runs'[r].stamp
  <2>1. PICK row : row = runs'[r]
    OBVIOUS
  <2>2. RunBacked(row)'
    BY <2>1
  <2> QED BY <1>1, <2>1, <2>2 DEF RunBacked, Explained
<1> QED BY <1>1 DEF RunsBacked, Explained, Failed

LEMMA RunsBackedKept ==
  ASSUME Base, Explains, [ReadersNext]_allVars
  PROVE  RunsBacked'
<1>0. TypeOK /\ Safe /\ Stamped /\ [Next]_vars
  BY ReaderSteps DEF Base, Safe
<1>g. Grown /\ clock \in Nat
  BY <1>0, TablesGrow, SyncAssumption DEF Safe, TypeOK
<1>1. ASSUME NEW r \in DOMAIN runs, NEW row, row = runs'[r] PROVE RunBacked(row)'
  <2>1. row = runs[r]
    BY <1>g, <1>1 DEF Grown
  <2>2. row.stamp \in 1..clock
    BY <1>0, <2>1 DEF Stamped
  <2>3. row.stamp \in Nat /\ row.stamp <= clock
    BY <1>g, <2>2
  <2>4. ASSUME NEW t \in Failed(row.result) PROVE Explained(row.project, t, row.stamp)'
    <3>1. Explained(row.project, t, row.stamp)
      BY <2>1, <2>4 DEF Explains, RunsBacked
    <3> QED BY <1>0, <2>3, <3>1, ExplainedStays
  <2> QED BY <2>4 DEF RunBacked
<1>2. ASSUME NEW w \in Worker, RecordRun(w), NEW n, n = Len(runs) + 1,
             NEW row \in Run, runs' = Append(runs, row), row.project = job[w].project,
             row.stamp = job[w].stamp, row.result = job[w].result
      PROVE  RunsBacked'
  <2>1. DOMAIN runs' = DOMAIN runs \cup {n} /\ runs'[n] = row
    BY <1>0, <1>2, Appended DEF TypeOK
  <2>2. ASSUME NEW t \in Failed(row.result) PROVE Explained(row.project, t, row.stamp)'
    <3>1. Busy(w) /\ job[w].do = "record"
      BY <1>2 DEF RecordRun, Busy
    <3>2. Covered(w, row.project, t)
      BY <1>2, <2>2, <3>1 DEF Base, Tracked
    <3>3. Explained(row.project, t, row.stamp)
      BY <1>2, <3>1, <3>2, CoveredExplains DEF Explains
    <3>4. row.stamp \in 1..clock
      BY <1>0, <1>2, <3>1 DEF Stamped
    <3>5. row.stamp \in Nat /\ row.stamp <= clock
      BY <1>g, <3>4
    <3> QED BY <1>0, <3>3, <3>5, ExplainedStays
  <2>3. RunBacked(row)'
    BY <2>2 DEF RunBacked
  <2> QED BY <1>1, <2>1, <2>3, RunsBackedThen
<1>3. CASE runs' = runs
  BY <1>1, <1>3, RunsBackedThen
<1>4. ASSUME NEW w \in Worker, RecordRun(w) PROVE RunsBacked'
  <2>1. PICK n : n = Len(runs) + 1
    OBVIOUS
  <2> QED BY <1>0, <1>2, <1>3, <1>4, <2>1, RecordDoes
<1> QED
  BY <1>0, <1>3, <1>4, OtherSteps DEF SameStamps, RunSuite, tables

LEMMA ExplainsSpec == ReadersSpec => []Explains
<1>1. ReadersInit => Explains
  BY DEF ReadersInit, Init, Explains, RunsBacked, SinceLogged, Busy, Idle
<1>2. Base /\ Explains /\ [ReadersNext]_allVars => Explains'
  BY RunsBackedKept, SinceKept DEF Explains
<1> QED BY <1>1, <1>2, ReadersImplementSync, BaseSpec, PTL DEF ReadersSpec

\* A page shows the failure of a test, or the test has a finding resolved since.
Shown(b, t) ==
  \/ \E i \in b.open : /\ i \in DOMAIN findings
                       /\ findings[i].test = t /\ findings[i].project = b.project
  \/ \E e \in resolvedAt : /\ e[1] \in DOMAIN findings
                           /\ findings[e[1]].test = t /\ findings[e[1]].project = b.project
                           /\ e[2] >= runs[b.run].stamp

\* The runs a page knows of are those on record when it read the latest one.
Latest(b) ==
  /\ b.run # 0 => b.run \in DOMAIN runs /\ runs[b.run].project = b.project
  /\ b.known \subseteq DOMAIN runs
  /\ \A s \in b.known :
       runs[s].project = b.project => b.run # 0 /\ runs[s].stamp <= runs[b.run].stamp

Compared(b) ==
  /\ b.run # 0 /\ b.baseline \in DOMAIN baselines
  /\ baselines[b.baseline].project = b.project
  /\ runs[baselines[b.baseline].run].stamp # runs[b.run].stamp

BoardKnows(b) ==
  \/ b.do \in {"idle", "filed"}
  \/ /\ b.do \in {"read", "shown", "reported"}
     /\ b.project \in Project /\ Latest(b)
     /\ b.do = "shown" /\ b.run # 0 => \A t \in Failed(runs[b.run].result) : Shown(b, t)
     /\ b.do = "reported" => Compared(b)

LEMMA BoardStays ==
  ASSUME Base, [ReadersNext]_allVars, NEW b, BoardKnows(b)
  PROVE  BoardKnows(b)'
<1>1. Grown /\ BaselinesPinned
  BY ReaderSteps, TablesGrow DEF Base, Safe
<1>2. resolvedAt \subseteq resolvedAt'
  BY ResolutionsNoted DEF Base
<1>3. ASSUME b.run # 0, Latest(b), NEW t, Shown(b, t) PROVE Shown(b, t)'
  <2>1. runs'[b.run] = runs[b.run]
    BY <1>1, <1>3 DEF Grown, Latest
  <2>2. CASE \E i \in b.open : /\ i \in DOMAIN findings
                               /\ findings[i].test = t /\ findings[i].project = b.project
    BY <1>1, <2>2 DEF Grown, Shown
  <2>3. CASE \E e \in resolvedAt : /\ e[1] \in DOMAIN findings
                                   /\ findings[e[1]].test = t
                                   /\ findings[e[1]].project = b.project
                                   /\ e[2] >= runs[b.run].stamp
    BY <1>1, <1>2, <2>1, <2>3 DEF Grown, Shown
  <2> QED BY <1>3, <2>2, <2>3 DEF Shown
<1>4. ASSUME Latest(b) PROVE Latest(b)'
  BY <1>1, <1>4 DEF Latest, Grown
<1>5. ASSUME Latest(b), Compared(b) PROVE Compared(b)'
  BY <1>1, <1>5 DEF Latest, Compared, Grown, BaselinesPinned
<1>6. ASSUME b.do = "shown", b.run # 0, Latest(b),
             \A t \in Failed(runs[b.run].result) : Shown(b, t)
      PROVE  (\A t \in Failed(runs[b.run].result) : Shown(b, t))'
  <2>1. runs'[b.run] = runs[b.run]
    BY <1>1, <1>6 DEF Grown, Latest
  <2>2. \A t \in Failed(runs[b.run].result) : Shown(b, t)'
    BY <1>3, <1>6
  <2> QED BY <2>1, <2>2 DEF Shown, Failed
<1> QED BY <1>4, <1>5, <1>6 DEF BoardKnows

\* Its first query.
LEMMA BoardReads ==
  ASSUME Base, NEW p \in Project, NEW b,
         b = [do |-> "read", project |-> p, run |-> LatestRun(p), known |-> DOMAIN runs]
  PROVE  BoardKnows(b)
<1>1. /\ LatestRun(p) = 0 => \A s \in DOMAIN runs : runs[s].project # p
      /\ LatestRun(p) # 0 =>
           /\ LatestRun(p) \in DOMAIN runs /\ runs[LatestRun(p)].project = p
           /\ \A s \in DOMAIN runs :
                runs[s].project = p => runs[s].stamp <= runs[LatestRun(p)].stamp
  BY LatestIsOwn DEF Base, Safe
<1>2. Latest(b)
  BY <1>1 DEF Latest
<1> QED BY <1>2 DEF BoardKnows

\* Its second: whatever failed is open by then, or was resolved.
LEMMA BoardFinds ==
  ASSUME Base, Explains, NEW b, BoardKnows(b), b.do = "read", NEW c,
         c = [do |-> "shown", project |-> b.project, run |-> b.run, known |-> b.known,
              open |-> OpenFindings(b.project)]
  PROVE  BoardKnows(c)
<1>1. b.project \in Project /\ Latest(b)
  BY DEF BoardKnows
<1>2. Latest(c) /\ c.project = b.project /\ c.run = b.run /\ c.open = OpenFindings(b.project)
  BY <1>1 DEF Latest
<1>3. ASSUME c.run # 0, NEW t \in Failed(runs[c.run].result) PROVE Shown(c, t)
  <2>1. Explained(c.project, t, runs[c.run].stamp)
    BY <1>2, <1>3 DEF Explains, RunsBacked, Latest
  <2>2. PICK i \in DOMAIN findings :
          /\ findings[i].project = c.project /\ findings[i].test = t
          /\ \/ findings[i].status \in OpenLike
             \/ \E e \in resolvedAt : e[1] = i /\ e[2] >= runs[c.run].stamp
    BY <2>1 DEF Explained
  <2>3. CASE findings[i].status \in OpenLike
    BY <1>2, <2>2, <2>3 DEF OpenFindings, Shown
  <2>4. CASE \E e \in resolvedAt : e[1] = i /\ e[2] >= runs[c.run].stamp
    BY <2>2, <2>4 DEF Shown
  <2> QED BY <2>2, <2>3, <2>4
<1> QED BY <1>1, <1>2, <1>3 DEF BoardKnows

\* Its last: a run is no regression from itself.
LEMMA BoardCompares ==
  ASSUME Base, NEW b, BoardKnows(b), b.do = "shown", NEW n, n = NewestBaseline(b.project),
         Reported(n, b.run) # {}, NEW c,
         c = [do |-> "reported", project |-> b.project, run |-> b.run, known |-> b.known,
              baseline |-> n]
  PROVE  BoardKnows(c)
<1>0. TypeOK /\ Stamped /\ BaselinesPinned
  BY DEF Base, Safe
<1>1. b.project \in Project /\ Latest(b)
  BY DEF BoardKnows
<1>2. Latest(c)
  BY <1>1 DEF Latest
<1>3. n # 0 /\ b.run # 0 /\ Regressions(runs[baselines[n].run].result, runs[b.run].result) # {}
  BY DEF Reported
<1>4. n \in DOMAIN baselines /\ baselines[n].project = b.project
  BY <1>0, <1>1, <1>3, NewestIsOwn
<1>5. baselines[n].run \in DOMAIN runs /\ b.run \in DOMAIN runs
  BY <1>0, <1>1, <1>3, <1>4 DEF BaselinesPinned, Latest
<1>6. baselines[n].run # b.run
  BY <1>3 DEF Regressions
<1>7. runs[baselines[n].run].stamp # runs[b.run].stamp
  BY <1>0, <1>5, <1>6 DEF Stamped
<1>8. Compared(c)
  BY <1>3, <1>4, <1>7 DEF Compared
<1> QED BY <1>1, <1>2, <1>8 DEF BoardKnows

BoardsKnow == DOMAIN board = Viewer /\ \A v \in Viewer : BoardKnows(board[v])

LEMMA BoardThen ==
  ASSUME NEW v \in Viewer, NEW b, b = board'[v], BoardKnows(b)'
  PROVE  BoardKnows(board[v])'
  BY DEF BoardKnows, Latest, Compared, Shown

LEMMA BoardsKept ==
  ASSUME Base, Explains, BoardsKnow, [ReadersNext]_allVars
  PROVE  BoardsKnow'
<1>0. DOMAIN board' = Viewer
  BY DEF BoardsKnow, ReadersNext, PostSync, ServeSync, DieServing, PatchLogged, GiveUp,
         ReadBaseline, CompareLatest, FetchFails, ReadLatest, ReadFindings, ReadChanges,
         allVars, readers
<1> SUFFICES ASSUME NEW v \in Viewer PROVE BoardKnows(board[v])'
  BY <1>0 DEF BoardsKnow
<1>1. DOMAIN board = Viewer /\ BoardKnows(board[v])
  BY DEF BoardsKnow
<1>2. ASSUME NEW b, b = board'[v], BoardKnows(b) PROVE BoardKnows(board[v])'
  BY <1>2, BoardStays, BoardThen
<1>3. CASE board'[v] = board[v]
  <2>1. PICK b : b = board[v]
    OBVIOUS
  <2> QED BY <1>1, <1>2, <1>3, <2>1
<1>4. ASSUME NEW p \in Project, ReadLatest(v, p) PROVE BoardKnows(board[v])'
  <2>1. PICK b : b = [do |-> "read", project |-> p, run |-> LatestRun(p), known |-> DOMAIN runs]
    OBVIOUS
  <2>2. b = board'[v]
    BY <1>1, <1>4, <2>1 DEF ReadLatest
  <2> QED BY <1>2, <2>1, <2>2, BoardReads
<1>5. CASE ReadFindings(v)
  <2>1. PICK b, c : /\ b = board[v]
                    /\ c = [do |-> "shown", project |-> b.project, run |-> b.run,
                            known |-> b.known, open |-> OpenFindings(b.project)]
    OBVIOUS
  <2>2. c = board'[v] /\ b.do = "read"
    BY <1>1, <1>5, <2>1 DEF ReadFindings
  <2>3. BoardKnows(c)
    BY <1>1, <2>1, <2>2, BoardFinds
  <2> QED BY <1>2, <2>2, <2>3
<1>6. CASE ReadChanges(v)
  <2>1. PICK b : b = board[v]
    OBVIOUS
  <2>2. PICK n : n = NewestBaseline(b.project)
    OBVIOUS
  <2>3. b.do = "shown" /\ BoardKnows(b)
    BY <1>1, <1>6, <2>1 DEF ReadChanges
  <2>4. CASE Reported(n, b.run) = {}
    <3>1. PICK c : c = Filed
      OBVIOUS
    <3>2. c = board'[v]
      BY <1>1, <1>6, <2>1, <2>2, <2>4, <3>1 DEF ReadChanges
    <3>3. BoardKnows(c)
      BY <3>1 DEF BoardKnows, Filed
    <3> QED BY <1>2, <3>2, <3>3
  <2>5. CASE Reported(n, b.run) # {}
    <3>1. PICK c : c = [do |-> "reported", project |-> b.project, run |-> b.run,
                        known |-> b.known, baseline |-> n]
      OBVIOUS
    <3>2. c = board'[v]
      BY <1>1, <1>6, <2>1, <2>2, <2>5, <3>1 DEF ReadChanges
    <3>3. BoardKnows(c)
      BY <2>2, <2>3, <2>5, <3>1, BoardCompares
    <3> QED BY <1>2, <3>2, <3>3
  <2> QED BY <2>4, <2>5
<1>7. ASSUME NEW u \in Viewer, u # v,
             ReadFindings(u) \/ ReadChanges(u) \/ \E p \in Project : ReadLatest(u, p)
      PROVE  board'[v] = board[v]
  BY <1>1, <1>7 DEF ReadFindings, ReadChanges, ReadLatest
<1>8. ASSUME NEW c \in Client, GiveUp(c) \/ ReadBaseline(c) \/ CompareLatest(c) \/ FetchFails(c)
      PROVE  board' = board
  BY <1>8 DEF GiveUp, ReadBaseline, CompareLatest, FetchFails
<1>9. ASSUME UNCHANGED allVars \/ UNCHANGED readers PROVE board' = board
  BY <1>9 DEF allVars, readers
<1>10. ASSUME NEW w \in Worker, ServeSync(w) \/ DieServing(w) \/ PatchLogged(w)
       PROVE  board' = board
  BY <1>10 DEF ServeSync, DieServing, PatchLogged
<1>11. ASSUME NEW d \in Client, NEW w \in Worker, NEW p \in Project, NEW suite \in Suites,
              PostSync(d, w, p, suite)
       PROVE  board' = board
  BY <1>11 DEF PostSync
<1> QED BY <1>3, <1>4, <1>5, <1>6, <1>7, <1>8, <1>9, <1>10, <1>11 DEF ReadersNext

\* A dashboard or report agrees with itself, and compares with a run that is not newer.
THEOREM BoardsStayConsistent == ReadersSpec => []BoardConsistent
<1>1. ReadersInit => BoardsKnow
  BY DEF ReadersInit, BoardsKnow, BoardKnows, Waiting
<1>2. Base /\ Explains /\ BoardsKnow /\ [ReadersNext]_allVars => BoardsKnow'
  BY BoardsKept
<1>3. Base /\ BoardsKnow => BoardConsistent
  <2> SUFFICES ASSUME Base, BoardsKnow, NEW v \in Viewer, NEW b, b = board[v]
               PROVE  /\ b.do = "shown" /\ b.run # 0 =>
                           \A t \in Failed(runs[b.run].result) :
                             \/ \E i \in b.open : /\ findings[i].test = t
                                                  /\ findings[i].project = b.project
                             \/ \E e \in resolvedAt : /\ findings[e[1]].test = t
                                                      /\ findings[e[1]].project = b.project
                                                      /\ e[2] >= runs[b.run].stamp
                      /\ b.do = "reported" =>
                           LET pinned == baselines[b.baseline].run
                           IN  /\ runs[pinned].project = b.project
                               /\ runs[b.run].project = b.project
                               /\ \/ runs[pinned].stamp < runs[b.run].stamp
                                  \/ pinned \notin b.known
    BY DEF BoardConsistent
  <2>1. BoardKnows(b)
    BY DEF BoardsKnow
  <2>2. ASSUME b.do = "shown", b.run # 0, NEW t \in Failed(runs[b.run].result)
        PROVE  Shown(b, t)
    BY <2>1, <2>2 DEF BoardKnows
  <2>3. ASSUME b.do = "reported", NEW r, r = baselines[b.baseline].run
        PROVE  /\ runs[r].project = b.project /\ runs[b.run].project = b.project
               /\ runs[r].stamp < runs[b.run].stamp \/ r \notin b.known
    <3>1. Latest(b) /\ Compared(b)
      BY <2>1, <2>3 DEF BoardKnows
    <3>2. /\ r \in DOMAIN runs /\ runs[r].project = b.project
          /\ b.run \in DOMAIN runs /\ runs[b.run].project = b.project
      BY <2>3, <3>1 DEF Base, Safe, BaselinesPinned, Latest, Compared
    <3>3. runs[r] \in Run /\ runs[b.run] \in Run
      BY <3>2 DEF Base, Safe, TypeOK
    <3>4. runs[r].stamp \in Nat /\ runs[b.run].stamp \in Nat
      BY <3>3 DEF Run
    <3>5. r \in b.known => runs[r].stamp <= runs[b.run].stamp
      BY <3>1, <3>2 DEF Latest
    <3>6. runs[r].stamp # runs[b.run].stamp
      BY <2>3, <3>1 DEF Compared
    <3> QED BY <3>2, <3>4, <3>5, <3>6
  <2> QED BY <2>2, <2>3 DEF Shown
<1> QED BY <1>1, <1>2, <1>3, ExplainsSpec, ReadersImplementSync, BaseSpec, PTL DEF ReadersSpec
=============================================================================
