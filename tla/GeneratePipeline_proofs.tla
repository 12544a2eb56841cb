---------------------- MODULE GeneratePipeline_proofs ----------------------
(***************************************************************************)
(* Proofs about POST /v1/generate, for any number of request threads, any  *)
(* users, requests, replies and keys of the server, and any quota.         *)
(***************************************************************************)
EXTENDS GeneratePipeline, FiniteSetTheorems, TLAPS

USE GenerateAssumption, KnownKeys, NerSetting, EventSettings

-----------------------------------------------------------------------------
(* Jobs and what they become                                               *)

LEMMA JobFields ==
  ASSUME NEW j \in Job
  PROVE  /\ j.do \in Stage /\ j.building \in BOOLEAN /\ j.id \in Id \cup {0}
         /\ j.try \in 1..2 /\ j.reply \in Reply
         /\ j.inbound \in SUBSET Kind /\ j.outbound \in SUBSET Kind /\ j.code \in Code
  BY DEF Job

LEMMA IdleJob == Idle \in Job /\ Idle.do = "idle" /\ ~Idle.building
  BY DEF Idle, Job, NoReply, Reply, Stage, Code

\* What a thread may change about its job.
LEMMA NextJob ==
  ASSUME NEW j \in Job
  PROVE  /\ \A s \in Stage : [j EXCEPT !.do = s] \in Job
         /\ \A c \in Code : [j EXCEPT !.do = "log", !.code = c] \in Job
         /\ \A b \in BOOLEAN : [j EXCEPT !.building = b] \in Job
         /\ \A f \in SUBSET Kind, s \in Stage :
              /\ [j EXCEPT !.inbound = f, !.do = s] \in Job
              /\ [j EXCEPT !.outbound = f, !.do = s] \in Job
         /\ \A r \in Reply : [j EXCEPT !.reply = r, !.do = "scanReply"] \in Job
         /\ \A n \in 1..2 : [j EXCEPT !.try = n] \in Job
  BY DEF Job, Stage

LEMMA FirstJob ==
  ASSUME NEW i \in Id, NEW s \in Stage, NEW c \in Code
  PROVE  LET j == [Idle EXCEPT !.id = i, !.do = s, !.code = c]
         IN  j \in Job /\ j.id = i /\ j.do = s /\ j.code = c /\ ~j.building
<1>1. \A k \in Job : LET j == [k EXCEPT !.id = i, !.do = s, !.code = c]
                     IN  /\ j \in Job /\ j.id = i /\ j.do = s /\ j.code = c
                         /\ j.building = k.building
  BY DEF Job
<1>2. Idle \in Job /\ ~Idle.building
  BY IdleJob
<1> QED BY <1>1, <1>2

LEMMA ChainLength ==
  ASSUME NEW route \in Route
  PROVE  Len(Chain(route)) \in 1..2 /\ \A n \in 1..Len(Chain(route)) : Chain(route)[n] \in Provider
  BY DEF Chain, Route, Provider

LEMMA EventTypes ==
  ASSUME NEW i \in Id, NEW found \in SUBSET Kind, NEW code \in Code
  PROVE  /\ InboundEvent(i, found) \in Event
         /\ OutboundEvent(i, found) \in Event
         /\ AlarmEvent(i, code) \in Event
  BY DEF InboundEvent, OutboundEvent, AlarmEvent, Event, Severity

LEMMA RecordType ==
  ASSUME events \in SUBSET Event, lost \in SUBSET Event, NEW e \in Event, Record(e)
  PROVE  events' \in SUBSET Event /\ lost' \in SUBSET Event
  BY DEF Record, AfterRecording

-----------------------------------------------------------------------------
(* Type correctness                                                        *)

\* A thread that is not idle serves a request that was asked, and builds the analyzer
\* only for one of its scans.
Numbered ==
  \A t \in Thread : /\ job[t].do = "idle" => job[t] = Idle
                    /\ job[t].do # "idle" => job[t].id \in DOMAIN asked
                    /\ job[t].building => job[t].do \in {"scan", "scanReply"}

TypeInv == TypeOK /\ Numbered

\* What holds of the request of a busy thread.
LEMMA ServedRequest ==
  ASSUME TypeInv, NEW t \in Thread, job[t].do # "idle"
  PROVE  /\ job[t] \in Job /\ job[t].id \in Id /\ job[t].id \in 1..Len(asked)
         /\ Req(t) \in Requests /\ Req(t) \in Request
  BY DEF TypeInv, TypeOK, Numbered, Req, Id

LEMMA ReceiveType ==
  ASSUME TypeInv, NEW t \in Thread, NEW q \in Requests, Receive(t, q)
  PROVE  TypeInv'
<1> DEFINE n == Len(asked) + 1
           s == IF q.big THEN "log" ELSE "scan"
           c == IF q.big THEN "input_too_large" ELSE "ok"
           j == [Idle EXCEPT !.id = n, !.do = s, !.code = c]
<1>1. /\ asked \in Seq(Requests) /\ Len(asked) \in Nat /\ n \in Id
      /\ job \in [Thread -> Job] /\ job' = [job EXCEPT ![t] = j]
      /\ asked' = Append(asked, q) /\ Len(asked) < MaxRequests
  BY DEF TypeInv, TypeOK, Receive, Id
<1>2. j \in Job /\ j.id = n /\ j.do = s /\ ~j.building /\ s \in {"log", "scan"}
  <2>1. s \in Stage /\ c \in Code /\ s \in {"log", "scan"}
    BY DEF Stage, Code, Blocked
  <2>2. n \in Id
    BY <1>1
  <2> HIDE DEF s, c, n
  <2>3. j \in Job /\ j.id = n /\ j.do = s /\ j.code = c /\ ~j.building
    BY <2>1, <2>2, FirstJob
  <2> QED BY <2>1, <2>3
<1>3. /\ asked' \in Seq(Requests) /\ Len(asked') = n /\ n <= MaxRequests
      /\ DOMAIN asked' = DOMAIN asked \cup {n}
  <2> HIDE DEF j
  <2> QED BY <1>1
<1> HIDE DEF j, s, c, n
<1>4. TypeOK'
  BY <1>1, <1>2, <1>3 DEF TypeInv, TypeOK, Receive
<1>5. Numbered'
  BY <1>1, <1>2, <1>3 DEF TypeInv, Numbered
<1> QED BY <1>4, <1>5 DEF TypeInv

\* The rest of the type invariant after a step that only moves a thread on.
LEMMA JobStep ==
  ASSUME TypeInv, NEW t \in Thread, NEW j \in Job, job[t].do # "idle",
         job' = [job EXCEPT ![t] = j], UNCHANGED asked,
         j = Idle \/ (j.do # "idle" /\ j.id = job[t].id),
         j.building => j.do \in {"scan", "scanReply"}
  PROVE  Numbered' /\ job' \in [Thread -> Job]
<1>1. job \in [Thread -> Job] /\ Idle.do = "idle" /\ ~Idle.building
  BY IdleJob DEF TypeInv, TypeOK
<1> QED BY <1>1 DEF TypeInv, Numbered

LEMMA AnalyzerType ==
  ASSUME TypeInv, NEW t \in Thread, BeginAnalyzer(t) \/ EndAnalyzer(t)
  PROVE  TypeInv'
<1>1. job[t].do \in {"scan", "scanReply"}
  BY DEF BeginAnalyzer, EndAnalyzer, Scanning, TypeInv, Numbered
<1>2. job[t] \in Job
  BY <1>1, ServedRequest
<1>3. PICK b \in BOOLEAN : job' = [job EXCEPT ![t] = [job[t] EXCEPT !.building = b]]
  BY DEF BeginAnalyzer, EndAnalyzer
<1> DEFINE j == [job[t] EXCEPT !.building = b]
<1>4. j \in Job /\ j.do = job[t].do /\ j.id = job[t].id
  BY <1>2, NextJob DEF Job
<1>5. UNCHANGED asked
  BY DEF BeginAnalyzer, EndAnalyzer
<1> HIDE DEF j
<1>6. Numbered' /\ job' \in [Thread -> Job]
  BY <1>1, <1>3, <1>4, <1>5, JobStep DEF j
<1>7. scanner' \in ScannerState
  BY DEF BeginAnalyzer, EndAnalyzer, StartBuild, FinishBuild, ScannerState
<1>8. TypeOK'
  BY <1>6, <1>7 DEF TypeInv, TypeOK, BeginAnalyzer, EndAnalyzer
<1> QED BY <1>6, <1>8 DEF TypeInv

\* A scan, and what it moves the thread to.
LEMMA FoundType ==
  ASSUME NEW text \in SUBSET Kind PROVE Found(text) \in SUBSET Kind
  BY DEF Found

LEMMA ScanType ==
  ASSUME TypeInv, NEW t \in Thread, ScanPrompt(t) \/ ScanReply(t)
  PROVE  TypeInv'
<1>1. /\ job[t].do \in {"scan", "scanReply"} /\ ~job[t].building /\ UNCHANGED asked
      /\ job[t] \in Job /\ Req(t) \in Request
  BY ServedRequest DEF ScanPrompt, ScanReply, Scanning
<1>2. \E j \in Job : /\ job' = [job EXCEPT ![t] = j]
                     /\ j.do # "idle" /\ j.id = job[t].id /\ ~j.building
  <2>1. CASE ScanPrompt(t)
    <3> DEFINE found == Found(Req(t).text)
               s == IF found = {} THEN "judge" ELSE "notice"
               j == [job[t] EXCEPT !.inbound = found, !.do = s]
    <3>1. found \in SUBSET Kind /\ s \in Stage /\ s # "idle"
      BY <1>1, FoundType DEF Request, Stage
    <3>2. job' = [job EXCEPT ![t] = j]
      BY <2>1 DEF ScanPrompt
    <3> HIDE DEF found, s
    <3>3. j \in Job /\ j.do = s /\ j.id = job[t].id /\ j.building = job[t].building
      BY <1>1, <3>1 DEF Job
    <3> QED BY <1>1, <3>1, <3>2, <3>3
  <2>2. CASE ScanReply(t)
    <3> DEFINE found == Found(job[t].reply.text)
               s == IF found = {} THEN "check" ELSE "noticeReply"
               j == [job[t] EXCEPT !.outbound = found, !.do = s]
    <3>1. found \in SUBSET Kind /\ s \in Stage /\ s # "idle"
      BY <1>1, FoundType, JobFields DEF Reply, Stage
    <3>2. job' = [job EXCEPT ![t] = j]
      BY <2>2 DEF ScanReply
    <3> HIDE DEF found, s
    <3>3. j \in Job /\ j.do = s /\ j.id = job[t].id /\ j.building = job[t].building
      BY <1>1, <3>1 DEF Job
    <3> QED BY <1>1, <3>1, <3>2, <3>3
  <2> QED BY <2>1, <2>2
<1>3. Numbered' /\ job' \in [Thread -> Job]
  BY <1>1, <1>2, JobStep
<1>4. TypeOK'
  BY <1>3 DEF TypeInv, TypeOK, ScanPrompt, ScanReply
<1> QED BY <1>3, <1>4 DEF TypeInv

LEMMA GotoJob ==
  ASSUME TypeInv, NEW t \in Thread, NEW s \in Stage \ {"idle"}, job[t].do # "idle",
         ~job[t].building \/ s \in {"scan", "scanReply"}, Goto(t, s), UNCHANGED asked
  PROVE  Numbered' /\ job' \in [Thread -> Job]
<1> DEFINE j == [job[t] EXCEPT !.do = s]
<1>1. job' = [job EXCEPT ![t] = j]
  BY DEF Goto
<1>2. j \in Job /\ j.do = s /\ j.id = job[t].id /\ j.building = job[t].building
  BY ServedRequest DEF Job
<1> HIDE DEF j
<1> QED BY <1>1, <1>2, JobStep

LEMMA EndJob ==
  ASSUME TypeInv, NEW t \in Thread, NEW c \in Code, job[t].do # "idle", ~job[t].building,
         End(t, c), UNCHANGED asked
  PROVE  Numbered' /\ job' \in [Thread -> Job]
<1> DEFINE j == [job[t] EXCEPT !.do = "log", !.code = c]
<1>1. job' = [job EXCEPT ![t] = j]
  BY DEF End
<1>2. j \in Job /\ j.do = "log" /\ j.id = job[t].id /\ j.building = job[t].building
  BY ServedRequest DEF Job, Stage
<1> HIDE DEF j
<1> QED BY <1>1, <1>2, JobStep

LEMMA AnswerJob ==
  ASSUME TypeInv, NEW t \in Thread, NEW c \in Code \cup {"crashed"}, job[t].do # "idle",
         Answer(t, c), UNCHANGED asked
  PROVE  /\ Numbered' /\ job' \in [Thread -> Job]
         /\ answered' \in [Id -> Code \cup {"pending", "crashed"}]
<1>1. job' = [job EXCEPT ![t] = Idle]
  BY DEF Answer
<1>2. Numbered' /\ job' \in [Thread -> Job]
  BY <1>1, IdleJob, JobStep
<1>3. answered' \in [Id -> Code \cup {"pending", "crashed"}]
  BY DEF Answer, TypeInv, TypeOK
<1> QED BY <1>2, <1>3

LEMMA JudgeType ==
  ASSUME TypeInv, NEW t \in Thread, Judge(t)
  PROVE  TypeInv'
<1>1. /\ job[t].do = "judge" /\ ~job[t].building /\ UNCHANGED asked
      /\ Req(t) \in Request /\ Admission(t, Req(t))
  BY ServedRequest DEF Judge, TypeInv, Numbered
<1>2. Numbered' /\ job' \in [Thread -> Job]
  <2>1. /\ {"injection_detected", "rate_limit_exceeded"} \subseteq Code
        /\ "call" \in Stage \ {"idle"}
    BY DEF Code, Blocked, Stage
  <2>2. Goto(t, "call") => Numbered' /\ job' \in [Thread -> Job]
    BY <1>1, <2>1, GotoJob
  <2>3. \A c \in Code : End(t, c) => Numbered' /\ job' \in [Thread -> Job]
    BY <1>1, EndJob
  <2> QED BY <1>1, <2>1, <2>2, <2>3 DEF Admission
<1>3. counts' \in [User \cup Session -> 0..Cap]
  <2>1. UNCHANGED counts \/ (HasQuota(Req(t)) /\ counts' = Spent(Req(t)))
    BY <1>1 DEF Admission
  <2>2. Req(t).user \in User \cup Session
    BY <1>1 DEF Request
  <2> QED BY <2>1, <2>2 DEF TypeInv, TypeOK, HasQuota, Spent, QuotaKey
<1>4. charged' \subseteq Id
  <2>1. charged \subseteq Id /\ job[t].id \in Id
    BY <1>1, ServedRequest DEF TypeInv, TypeOK
  <2> QED BY <1>1, <2>1 DEF Admission
<1>5. TypeOK'
  BY <1>2, <1>3, <1>4 DEF TypeInv, TypeOK, Judge
<1> QED BY <1>2, <1>5 DEF TypeInv

LEMMA FailType ==
  ASSUME TypeInv, NEW t \in Thread, job[t].do = "call", NEW keyed \in BOOLEAN,
         Fail(t, keyed), UNCHANGED asked
  PROVE  Numbered' /\ job' \in [Thread -> Job]
<1>1. /\ ~job[t].building /\ job[t] \in Job /\ Req(t).route \in Route
  BY ServedRequest DEF TypeInv, Numbered, Request
<1>2. Len(Tries(t)) \in 1..2
  BY <1>1, ChainLength DEF Tries
<1>3. CASE job[t].try < Len(Tries(t))
  <2> DEFINE n == job[t].try + 1
             j == [job[t] EXCEPT !.try = n]
  <2>1. n \in 1..2
    <3>1. job[t].try \in 1..2
      BY <1>1, JobFields
    <3> DEFINE i == job[t].try
               last == Len(Tries(t))
    <3>2. i \in 1..2 /\ last \in 1..2 /\ i < last
      BY <3>1, <1>2, <1>3
    <3> HIDE DEF i, last
    <3>3. i + 1 \in 1..2
      BY <3>2
    <3> QED BY <3>3 DEF i
  <2>2. job' = [job EXCEPT ![t] = j]
    BY <1>3 DEF Fail
  <2> HIDE DEF n
  <2>3. j \in Job /\ j.do = job[t].do /\ j.id = job[t].id /\ j.building = job[t].building
    BY <1>1, <2>1 DEF Job
  <2> HIDE DEF j
  <2> QED BY <1>1, <2>2, <2>3, JobStep
<1>4. CASE ~(job[t].try < Len(Tries(t)))
  <2>1. End(t, FailureCode(keyed)) /\ FailureCode(keyed) \in Code
    BY <1>4 DEF Fail, FailureCode, Code, Unserved
  <2> QED BY <1>1, <2>1, EndJob
<1> QED BY <1>3, <1>4

LEMMA CallType ==
  ASSUME TypeInv, NEW t \in Thread, CallProvider(t)
  PROVE  TypeInv'
<1> DEFINE keyed == HasKey(Req(t).route, Req(t).byok, Tries(t)[job[t].try])
<1>1. /\ job[t].do = "call" /\ ~job[t].building /\ UNCHANGED asked
      /\ job[t] \in Job /\ Req(t) \in Request /\ job[t].id \in Id
  BY ServedRequest DEF CallProvider, TypeInv, Numbered
<1>2. keyed \in BOOLEAN
  BY <1>1 DEF HasKey, Request
<1>3. \/ Fail(t, keyed)
      \/ \E r \in Replies :
           job' = [job EXCEPT ![t] = [job[t] EXCEPT !.reply = r, !.do = "scanReply"]]
  BY DEF CallProvider
<1>4. calls' = [calls EXCEPT ![job[t].id] = IF keyed /\ @ < 2 THEN @ + 1 ELSE @]
  BY DEF CallProvider
<1> HIDE DEF keyed
<1>5. Numbered' /\ job' \in [Thread -> Job]
  <2>1. ASSUME NEW r \in Replies,
               job' = [job EXCEPT ![t] = [job[t] EXCEPT !.reply = r, !.do = "scanReply"]]
        PROVE  Numbered' /\ job' \in [Thread -> Job]
    <3> DEFINE j == [job[t] EXCEPT !.reply = r, !.do = "scanReply"]
    <3>1. j \in Job /\ j.do = "scanReply" /\ j.id = job[t].id
      BY <1>1 DEF Job, Stage
    <3>2. job' = [job EXCEPT ![t] = j]
      BY <2>1
    <3> HIDE DEF j
    <3> QED BY <1>1, <3>1, <3>2, JobStep
  <2> QED BY <1>1, <1>2, <1>3, <2>1, FailType
<1>6. calls' \in [Id -> 0..2]
  BY <1>1, <1>4 DEF TypeInv, TypeOK
<1>7. TypeOK'
  BY <1>5, <1>6 DEF TypeInv, TypeOK, CallProvider
<1> QED BY <1>5, <1>7 DEF TypeInv

LEMMA CheckType ==
  ASSUME TypeInv, NEW t \in Thread, CheckOutput(t)
  PROVE  TypeInv'
<1> DEFINE c == IF Req(t).schema = "known" /\ ~job[t].reply.valid
                THEN "schema_validation_failed" ELSE "ok"
<1>1. c \in Code /\ End(t, c) /\ job[t].do = "check" /\ ~job[t].building /\ UNCHANGED asked
  BY DEF CheckOutput, Code, TypeInv, Numbered
<1> HIDE DEF c
<1>2. Numbered' /\ job' \in [Thread -> Job]
  BY <1>1, EndJob
<1>3. TypeOK'
  BY <1>2 DEF TypeInv, TypeOK, CheckOutput
<1> QED BY <1>2, <1>3 DEF TypeInv

\* The row a thread writes.
LEMMA RowType ==
  ASSUME NEW j \in Job, j.id \in Id
  PROVE  /\ NewRow(j) \in Row /\ NewRow(j).id = j.id /\ NewRow(j).code = j.code
         /\ NewRow(j).types = j.inbound \cup j.outbound
  BY JobFields DEF NewRow, Row

LEMMA LogType ==
  ASSUME TypeInv, NEW t \in Thread, LogCall(t)
  PROVE  TypeInv'
<1>1. /\ job[t].do = "log" /\ ~job[t].building /\ UNCHANGED asked
      /\ job[t] \in Job /\ job[t].id \in Id /\ job[t].code \in Code
  BY ServedRequest, JobFields DEF LogCall, TypeInv, Numbered
<1>2. /\ Numbered' /\ job' \in [Thread -> Job]
      /\ answered' \in [Id -> Code \cup {"pending", "crashed"}]
  <2>1. CASE Goto(t, "alarm") /\ UNCHANGED answered
    <3>1. "alarm" \in Stage \ {"idle"}
      BY DEF Stage
    <3>2. Numbered' /\ job' \in [Thread -> Job]
      BY <1>1, <2>1, <3>1, GotoJob
    <3> QED BY <2>1, <3>2 DEF TypeInv, TypeOK
  <2>2. CASE Answer(t, job[t].code)
    BY <1>1, <2>2, AnswerJob
  <2> QED BY <2>1, <2>2 DEF LogCall
<1>3. rows' \in Seq(Row)
  <2>1. rows \in Seq(Row) /\ rows' = Append(rows, NewRow(job[t])) /\ NewRow(job[t]) \in Row
    BY <1>1, RowType DEF TypeInv, TypeOK, LogCall
  <2> QED BY <2>1
<1>4. TypeOK'
  BY <1>2, <1>3 DEF TypeInv, TypeOK, LogCall
<1> QED BY <1>2, <1>4 DEF TypeInv

LEMMA NoticeType ==
  ASSUME TypeInv, NEW t \in Thread, Notice(t)
  PROVE  TypeInv'
<1>1. /\ job[t].do \in {"notice", "noticeReply"} /\ ~job[t].building /\ UNCHANGED asked
      /\ job[t] \in Job /\ job[t].id \in Id
      /\ job[t].inbound \in SUBSET Kind /\ job[t].outbound \in SUBSET Kind
  BY ServedRequest, JobFields DEF Notice, TypeInv, Numbered
<1>2. Numbered' /\ job' \in [Thread -> Job]
  <2>1. Goto(t, "judge") \/ Goto(t, "check")
    BY DEF Notice
  <2>2. {"judge", "check"} \subseteq Stage \ {"idle"}
    BY DEF Stage
  <2> QED BY <1>1, <2>1, <2>2, GotoJob
<1>3. events' \in SUBSET Event /\ lost' \in SUBSET Event
  <2>1. \E e \in Event : Record(e)
    <3>1. /\ InboundEvent(job[t].id, job[t].inbound) \in Event
          /\ OutboundEvent(job[t].id, job[t].outbound) \in Event
      BY <1>1, EventTypes DEF Code
    <3> QED BY <3>1 DEF Notice
  <2> QED BY <2>1, RecordType DEF TypeInv, TypeOK
<1>4. TypeOK'
  BY <1>2, <1>3 DEF TypeInv, TypeOK, Notice
<1> QED BY <1>2, <1>4 DEF TypeInv

LEMMA AlarmType ==
  ASSUME TypeInv, NEW t \in Thread, Alarm(t)
  PROVE  TypeInv'
<1>1. /\ job[t].do = "alarm" /\ UNCHANGED asked
      /\ job[t] \in Job /\ job[t].id \in Id /\ job[t].code \in Code
  BY ServedRequest, JobFields DEF Alarm
<1>2. /\ Numbered' /\ job' \in [Thread -> Job]
      /\ answered' \in [Id -> Code \cup {"pending", "crashed"}]
  BY <1>1, AnswerJob DEF Alarm
<1>3. events' \in SUBSET Event /\ lost' \in SUBSET Event
  <2>1. AlarmEvent(job[t].id, job[t].code) \in Event
    BY <1>1, EventTypes
  <2> QED BY <2>1, RecordType DEF Alarm, TypeInv, TypeOK
<1>4. TypeOK'
  BY <1>2, <1>3 DEF TypeInv, TypeOK, Alarm
<1> QED BY <1>2, <1>4 DEF TypeInv

LEMMA RaiseType ==
  ASSUME TypeInv, NEW t \in Thread, Raise(t)
  PROVE  TypeInv'
<1>1. job[t].do # "idle" /\ UNCHANGED asked /\ Answer(t, "crashed")
  BY DEF Raise, Scanning
<1>2. /\ Numbered' /\ job' \in [Thread -> Job]
      /\ answered' \in [Id -> Code \cup {"pending", "crashed"}]
  BY <1>1, AnswerJob
<1>3. failures' \in 0..MaxFailures
  BY DEF Raise, TypeInv, TypeOK
<1>4. TypeOK'
  BY <1>2, <1>3 DEF TypeInv, TypeOK, Raise
<1> QED BY <1>2, <1>4 DEF TypeInv

LEMMA TypeInvInit == Init => TypeInv
<1> SUFFICES ASSUME Init PROVE TypeInv
  OBVIOUS
<1>1. Numbered
  BY IdleJob DEF Init, Numbered
<1>2. TypeOK
  BY IdleJob DEF Init, TypeOK, ScannerState, Id
<1> QED BY <1>1, <1>2 DEF TypeInv

LEMMA TypeInvNext == TypeInv /\ [Next]_vars => TypeInv'
<1> SUFFICES ASSUME TypeInv, [Next]_vars PROVE TypeInv'
  OBVIOUS
<1>1. ASSUME NEW t \in Thread, Work(t) PROVE TypeInv'
  BY <1>1, AnalyzerType, ScanType, NoticeType, JudgeType, CallType, CheckType, LogType,
     AlarmType, RaiseType DEF Work
<1>2. ASSUME NEW t \in Thread, NEW q \in Requests, Receive(t, q) PROVE TypeInv'
  BY <1>2, ReceiveType
<1>3. CASE UNCHANGED vars
  BY <1>3 DEF vars, TypeInv, TypeOK, Numbered
<1> QED BY <1>1, <1>2, <1>3 DEF Next

LEMMA TypeInvAlways == Spec => []TypeInv
  BY TypeInvInit, TypeInvNext, PTL DEF Spec

\* Log, events, quota and threads always hold what they may hold; in particular no
\* counter of the quota ever passes the limit.
THEOREM TypeCorrect == Spec => []TypeOK
<1>1. TypeInv => TypeOK
  BY DEF TypeInv
<1> QED BY <1>1, TypeInvAlways, PTL

-----------------------------------------------------------------------------
(* What a step does to the threads                                         *)

\* The steps of a request before its row is written.
Serve(t) ==
  \/ BeginAnalyzer(t) \/ EndAnalyzer(t) \/ ScanPrompt(t) \/ Notice(t) \/ Judge(t)
  \/ CallProvider(t) \/ ScanReply(t) \/ CheckOutput(t)

LEMMA CallMoves ==
  ASSUME TypeInv, NEW t \in Thread, CallProvider(t)
  PROVE  /\ \A s \in Thread \ {t} : job'[s] = job[s]
         /\ job'[t].do \in {"call", "log", "scanReply"}
         /\ job'[t].id = job[t].id /\ job'[t].building = job[t].building
<1>1. job \in [Thread -> Job] /\ job[t] \in Job
  BY DEF TypeInv, TypeOK
<1>2. \A n : LET j == [job[t] EXCEPT !.try = n]
             IN  j.do = job[t].do /\ j.id = job[t].id /\ j.building = job[t].building
  BY <1>1 DEF Job
<1>3. \A c : LET j == [job[t] EXCEPT !.do = "log", !.code = c]
             IN  j.do = "log" /\ j.id = job[t].id /\ j.building = job[t].building
  BY <1>1 DEF Job
<1>4. \A r : LET j == [job[t] EXCEPT !.reply = r, !.do = "scanReply"]
             IN  j.do = "scanReply" /\ j.id = job[t].id /\ j.building = job[t].building
  BY <1>1 DEF Job
<1>5. \/ \E n : job' = [job EXCEPT ![t] = [job[t] EXCEPT !.try = n]]
      \/ \E c : job' = [job EXCEPT ![t] = [job[t] EXCEPT !.do = "log", !.code = c]]
      \/ \E r : job' = [job EXCEPT ![t] = [job[t] EXCEPT !.reply = r, !.do = "scanReply"]]
  BY <1>1 DEF CallProvider, Fail, End
<1>6. job[t].do = "call"
  BY DEF CallProvider
<1>7. \E j : /\ job' = [job EXCEPT ![t] = j] /\ j.do \in {"call", "log", "scanReply"}
            /\ j.id = job[t].id /\ j.building = job[t].building
  <2>1. CASE \E n : job' = [job EXCEPT ![t] = [job[t] EXCEPT !.try = n]]
    <3> PICK n : job' = [job EXCEPT ![t] = [job[t] EXCEPT !.try = n]]
      BY <2>1
    <3> DEFINE j == [job[t] EXCEPT !.try = n]
    <3> j.do = "call" /\ j.id = job[t].id /\ j.building = job[t].building
      BY <1>2, <1>6
    <3> HIDE DEF j
    <3> QED BY DEF j
  <2>2. CASE \E c : job' = [job EXCEPT ![t] = [job[t] EXCEPT !.do = "log", !.code = c]]
    <3> PICK c : job' = [job EXCEPT ![t] = [job[t] EXCEPT !.do = "log", !.code = c]]
      BY <2>2
    <3> QED BY <1>3
  <2>3. CASE \E r : job' = [job EXCEPT ![t] =
                             [job[t] EXCEPT !.reply = r, !.do = "scanReply"]]
    <3> PICK r : job' = [job EXCEPT ![t] = [job[t] EXCEPT !.reply = r, !.do = "scanReply"]]
      BY <2>3
    <3> QED BY <1>4
  <2> QED BY <1>5, <2>1, <2>2, <2>3
<1> QED BY <1>1, <1>7

\* A thread at work keeps to its request.
LEMMA ServeMoves ==
  ASSUME TypeInv, NEW t \in Thread, Serve(t)
  PROVE  /\ \A s \in Thread \ {t} : job'[s] = job[s]
         /\ UNCHANGED <<asked, rows, answered>>
         /\ job[t].do \notin {"idle", "log", "alarm"} /\ job'[t].do \notin {"idle", "alarm"}
         /\ job'[t].id = job[t].id
<1>1. job \in [Thread -> Job] /\ job[t].building => job[t].do \in {"scan", "scanReply"}
  BY DEF TypeInv, TypeOK, Numbered
<1>2. job \in [Thread -> Job] /\ job[t] \in Job
  BY DEF TypeInv, TypeOK
<1>3. CASE BeginAnalyzer(t) \/ EndAnalyzer(t)
  BY <1>1, <1>2, <1>3 DEF BeginAnalyzer, EndAnalyzer, Scanning, Job
<1>4. CASE ScanPrompt(t) \/ ScanReply(t)
  BY <1>2, <1>4 DEF ScanPrompt, ScanReply, Scanning, Job
<1>5. CASE Notice(t)
  BY <1>2, <1>5 DEF Notice, Goto, Job
<1>6. CASE Judge(t)
  BY <1>2, <1>6 DEF Judge, Admission, Goto, End, Job
<1>7. CASE CallProvider(t)
  BY <1>7, CallMoves DEF CallProvider
<1>8. CASE CheckOutput(t)
  BY <1>2, <1>8 DEF CheckOutput, End, Job
<1> QED BY <1>3, <1>4, <1>5, <1>6, <1>7, <1>8 DEF Serve

LEMMA AnswerMoves ==
  ASSUME TypeInv, NEW t \in Thread, NEW c, job[t].do # "idle", Answer(t, c)
  PROVE  /\ \A s \in Thread \ {t} : job'[s] = job[s]
         /\ job'[t].do = "idle" /\ ~job'[t].building
         /\ answered'[job[t].id] = c
         /\ \A i \in Id \ {job[t].id} : answered'[i] = answered[i]
<1>1. job \in [Thread -> Job] /\ answered \in [Id -> Code \cup {"pending", "crashed"}]
      /\ job[t].id \in Id
  BY ServedRequest DEF TypeInv, TypeOK
<1> QED BY <1>1, IdleJob DEF Answer

LEMMA ReceiveMoves ==
  ASSUME TypeInv, NEW t \in Thread, NEW q \in Requests, Receive(t, q)
  PROVE  LET n == Len(asked) + 1
         IN  /\ n \in Id /\ n \notin DOMAIN asked /\ DOMAIN asked' = DOMAIN asked \cup {n}
             /\ asked'[n] = q /\ \A i \in DOMAIN asked : asked'[i] = asked[i]
             /\ \A s \in Thread \ {t} : job'[s] = job[s]
             /\ job[t].do = "idle" /\ job'[t].id = n /\ ~job'[t].building
             /\ job'[t].do = IF q.big THEN "log" ELSE "scan"
             /\ job'[t].code = IF q.big THEN "input_too_large" ELSE "ok"
<1> DEFINE n == Len(asked) + 1
           s == IF q.big THEN "log" ELSE "scan"
           c == IF q.big THEN "input_too_large" ELSE "ok"
           j == [Idle EXCEPT !.id = n, !.do = s, !.code = c]
<1>1. /\ asked \in Seq(Requests) /\ Len(asked) \in Nat /\ n \in Id
      /\ job \in [Thread -> Job] /\ job' = [job EXCEPT ![t] = j]
      /\ asked' = Append(asked, q) /\ Len(asked) < MaxRequests
      /\ job[t].do = "idle"
  BY IdleJob DEF TypeInv, TypeOK, Receive, Id
<1>2. j.id = n /\ j.do = s /\ j.code = c /\ ~j.building
  <2>1. s \in Stage /\ c \in Code
    BY DEF Stage, Code, Blocked
  <2>2. n \in Id
    BY <1>1
  <2> HIDE DEF s, c, n
  <2>3. j \in Job /\ j.id = n /\ j.do = s /\ j.code = c /\ ~j.building
    BY <2>1, <2>2, FirstJob
  <2> QED BY <2>3
<1>3. /\ DOMAIN asked = 1..Len(asked) /\ DOMAIN asked' = 1..n
      /\ asked'[n] = q /\ \A i \in DOMAIN asked : asked'[i] = asked[i]
  <2> HIDE DEF j
  <2> QED BY <1>1
<1>4. n \notin DOMAIN asked /\ DOMAIN asked' = DOMAIN asked \cup {n}
  BY <1>1, <1>3
<1> HIDE DEF j
<1> QED BY <1>1, <1>2, <1>3, <1>4

\* What a step writes into the log.
LEMMA LogRows ==
  ASSUME TypeInv, NEW t \in Thread, LogCall(t)
  PROVE  \E n, row : /\ row \in Row /\ row.id = job[t].id /\ row.code = job[t].code
                     /\ row.types = job[t].inbound \cup job[t].outbound
                     /\ n \notin DOMAIN rows /\ DOMAIN rows' = DOMAIN rows \cup {n}
                     /\ rows'[n] = row /\ \A r \in DOMAIN rows : rows'[r] = rows[r]
<1>1. job[t] \in Job /\ job[t].id \in Id
  BY ServedRequest DEF LogCall
<1>2. PICK row : row = NewRow(job[t])
  OBVIOUS
<1>3. /\ row \in Row /\ row.id = job[t].id /\ row.code = job[t].code
      /\ row.types = job[t].inbound \cup job[t].outbound
  BY <1>1, <1>2, RowType
<1>4. rows \in Seq(Row) /\ rows' = Append(rows, row)
  BY <1>2 DEF TypeInv, TypeOK, LogCall
<1>5. PICK n : n = Len(rows) + 1
  OBVIOUS
<1>6. /\ n \notin DOMAIN rows /\ DOMAIN rows' = DOMAIN rows \cup {n}
      /\ rows'[n] = row /\ \A r \in DOMAIN rows : rows'[r] = rows[r]
  BY <1>3, <1>4, <1>5
<1> QED BY <1>3, <1>6

\* Where a thread is once its row is written.
LEMMA LogMoves ==
  ASSUME TypeInv, NEW t \in Thread, LogCall(t)
  PROVE  /\ job[t].do = "log" /\ \A s \in Thread \ {t} : job'[s] = job[s]
         /\ UNCHANGED <<asked, events, lost>>
         /\ \/ /\ job[t].code \in Blocked /\ job'[t].do = "alarm"
               /\ job'[t].id = job[t].id /\ job'[t].code = job[t].code
               /\ job'[t].inbound = job[t].inbound /\ job'[t].outbound = job[t].outbound
            \/ job[t].code \notin Blocked /\ job'[t].do = "idle"
<1>1. job \in [Thread -> Job] /\ job[t] \in Job
  BY DEF TypeInv, TypeOK
<1>2. CASE job[t].code \in Blocked
  BY <1>1, <1>2 DEF LogCall, Alarmed, Goto, Job
<1>3. CASE job[t].code \notin Blocked
  BY <1>1, <1>3, IdleJob DEF LogCall, Alarmed, Answer
<1> QED BY <1>2, <1>3 DEF LogCall

-----------------------------------------------------------------------------
(* One analyzer                                                            *)

BuilderInv ==
  /\ \A t \in Thread : job[t].building => scanner = "loading"
  /\ scanner = "loading" => \E t \in Thread : job[t].building
  /\ \A t, s \in Thread : job[t].building /\ job[s].building => t = s

\* No other step begins or ends a build.
LEMMA NoBuild ==
  ASSUME TypeInv, NEW t \in Thread,
         Work(t) /\ ~BeginAnalyzer(t) /\ ~EndAnalyzer(t)
  PROVE  UNCHANGED scanner /\ \A s \in Thread : job'[s].building = job[s].building
<1>1. job \in [Thread -> Job] /\ job[t] \in Job
  BY DEF TypeInv, TypeOK
<1>2. CASE ScanPrompt(t) \/ ScanReply(t)
  BY <1>1, <1>2 DEF ScanPrompt, ScanReply, Job
<1>3. CASE Notice(t)
  BY <1>1, <1>3 DEF Notice, Goto, Job
<1>4. CASE Judge(t)
  BY <1>1, <1>4 DEF Judge, Admission, Goto, End, Job
<1>5. CASE CallProvider(t)
  BY <1>5, CallMoves DEF CallProvider
<1>6. CASE CheckOutput(t)
  BY <1>1, <1>6 DEF CheckOutput, End, Job
<1>7. CASE LogCall(t)
  <2>1. ~job[t].building
    BY <1>7 DEF LogCall, TypeInv, Numbered
  <2> QED BY <1>1, <1>7, <2>1, IdleJob DEF LogCall, Goto, Answer, Job
<1>8. CASE Alarm(t) \/ Raise(t)
  <2>1. ~job[t].building
    BY <1>8 DEF Alarm, Raise, Scanning, TypeInv, Numbered
  <2> QED BY <1>1, <1>8, <2>1, IdleJob DEF Alarm, Raise, Answer, Job
<1> QED BY <1>2, <1>3, <1>4, <1>5, <1>6, <1>7, <1>8 DEF Work

LEMMA BuilderNext == TypeInv /\ BuilderInv /\ [Next]_vars => BuilderInv'
<1> SUFFICES ASSUME TypeInv, BuilderInv, [Next]_vars PROVE BuilderInv'
  OBVIOUS
<1>1. job \in [Thread -> Job]
  BY DEF TypeInv, TypeOK
<1>2. ASSUME NEW t \in Thread, BeginAnalyzer(t) \/ EndAnalyzer(t) PROVE BuilderInv'
  BY <1>1, <1>2 DEF BeginAnalyzer, EndAnalyzer, StartBuild, FinishBuild, BuilderInv, Job
<1>3. ASSUME NEW t \in Thread, Work(t) /\ ~BeginAnalyzer(t) /\ ~EndAnalyzer(t)
      PROVE  BuilderInv'
  BY <1>3, NoBuild DEF BuilderInv
<1>4. ASSUME NEW t \in Thread, NEW q \in Requests, Receive(t, q) PROVE BuilderInv'
  <2>1. ~job[t].building /\ ~job'[t].building /\ \A s \in Thread \ {t} : job'[s] = job[s]
    BY <1>4, ReceiveMoves DEF TypeInv, Numbered
  <2>2. UNCHANGED scanner
    BY <1>4 DEF Receive
  <2> QED BY <2>1, <2>2 DEF BuilderInv
<1>5. CASE UNCHANGED vars
  BY <1>5 DEF vars, BuilderInv
<1> QED BY <1>2, <1>3, <1>4, <1>5 DEF Next

\* Requests that arrive together build one analyzer between them, although
\* _get_presidio_analyzer takes no lock: its flag goes up before anything is built.
THEOREM BuildOnce == Spec => []OneBuilder
<1>1. Init => BuilderInv
  BY IdleJob DEF Init, BuilderInv
<1>2. BuilderInv => OneBuilder
  <2> SUFFICES ASSUME BuilderInv PROVE OneBuilder
    OBVIOUS
  <2> DEFINE B == {t \in Thread : job[t].building}
  <2>1. B = {} \/ \E t \in Thread : B = {t}
    BY DEF BuilderInv
  <2> HIDE DEF B
  <2>2. Cardinality(B) \in {0, 1}
    <3>1. CASE B = {}
      BY <3>1, FS_EmptySet
    <3>2. ASSUME NEW t \in Thread, B = {t} PROVE Cardinality(B) = 1
      BY <3>2, FS_Singleton
    <3> QED BY <2>1, <3>1, <3>2
  <2> USE DEF B
  <2>3. Cardinality(B) <= 1
    BY <2>2
  <2> QED BY <2>3 DEF BuilderInv, OneBuilder
<1> QED BY <1>1, <1>2, BuilderNext, TypeInvAlways, PTL DEF Spec

-----------------------------------------------------------------------------
(* One row per answered request                                            *)

Busy(t) == job[t].do # "idle"

\* Threads serve requests of their own.
Distinct ==
  \A t, s \in Thread : Busy(t) /\ Busy(s) /\ job[t].id = job[s].id => t = s

\* A request has no row until its thread is about to raise the alarm, and no answer
\* while it is served or before it is asked.
Unanswered ==
  /\ \A t \in Thread : Busy(t) => answered[job[t].id] = "pending"
  /\ \A i \in Id \ DOMAIN asked : answered[i] = "pending"

RowsFollow ==
  /\ \A r \in DOMAIN rows :
       /\ rows[r].id \in DOMAIN asked
       /\ \A t \in Thread : Busy(t) /\ job[t].id = rows[r].id => job[t].do = "alarm"
  /\ \A r, s \in DOMAIN rows : rows[r].id = rows[s].id => r = s

\* The row is there when the answer is given.
HasRow(i, c) == \E r \in DOMAIN rows : rows[r].id = i /\ rows[r].code = c

Logged ==
  /\ \A t \in Thread : job[t].do = "alarm" => HasRow(job[t].id, job[t].code)
  /\ \A i \in Id : answered[i] \in Code => HasRow(i, answered[i])

LogInv == Distinct /\ Unanswered /\ RowsFollow /\ Logged

LEMMA CodeFacts == "pending" \notin Code /\ "crashed" \notin Code
  BY DEF Code, Blocked, Unserved

LEMMA ServeLog ==
  ASSUME TypeInv, LogInv, NEW t \in Thread, Serve(t)
  PROVE  LogInv'
<1>1. /\ \A s \in Thread \ {t} : job'[s] = job[s]
      /\ UNCHANGED <<asked, rows, answered>>
      /\ job[t].do \notin {"idle", "log", "alarm"} /\ job'[t].do \notin {"idle", "alarm"}
      /\ job'[t].id = job[t].id
  BY ServeMoves
<1>2. Distinct'
  BY <1>1 DEF LogInv, Distinct, Busy
<1>3. Unanswered'
  BY <1>1 DEF LogInv, Unanswered, Busy
<1>4. RowsFollow'
  BY <1>1 DEF LogInv, RowsFollow, Busy
<1>5. Logged'
  BY <1>1 DEF LogInv, Logged, HasRow
<1> QED BY <1>2, <1>3, <1>4, <1>5 DEF LogInv

\* Giving an answer the log already holds, or one that is none of its codes.
LEMMA AnswerLog ==
  ASSUME TypeInv, LogInv, NEW t \in Thread, Busy(t),
         NEW c \in Code \cup {"crashed"}, Answer(t, c), UNCHANGED <<asked, rows>>,
         c \in Code => HasRow(job[t].id, c)
  PROVE  LogInv'
<1>1. /\ \A s \in Thread \ {t} : job'[s] = job[s]
      /\ job'[t].do = "idle" /\ answered'[job[t].id] = c
      /\ \A i \in Id \ {job[t].id} : answered'[i] = answered[i]
  BY AnswerMoves DEF Busy
<1>2. \A s \in Thread : Busy(s) => job[s].id \in Id /\ job[s].id \in DOMAIN asked
  BY ServedRequest DEF Busy, TypeInv, Numbered
<1>3. Distinct'
  BY <1>1 DEF LogInv, Distinct, Busy
<1>4. Unanswered'
  BY <1>1, <1>2 DEF LogInv, Unanswered, Distinct, Busy
<1>5. RowsFollow'
  BY <1>1 DEF LogInv, RowsFollow, Busy
<1>6. Logged'
  BY <1>1, CodeFacts DEF LogInv, Logged, HasRow
<1> QED BY <1>3, <1>4, <1>5, <1>6 DEF LogInv

LEMMA LogLog ==
  ASSUME TypeInv, LogInv, NEW t \in Thread, LogCall(t)
  PROVE  LogInv'
<1> DEFINE n == Len(rows) + 1
           row == NewRow(job[t])
<1>1. /\ job[t].do = "log" /\ Busy(t) /\ UNCHANGED asked
      /\ job[t] \in Job /\ job[t].id \in Id /\ job[t].code \in Code
      /\ job \in [Thread -> Job]
  BY ServedRequest, JobFields DEF LogCall, Busy, TypeInv, TypeOK
<1>2. row \in Row /\ row.id = job[t].id /\ row.code = job[t].code
  BY <1>1, RowType
<1>3. rows \in Seq(Row) /\ rows' = Append(rows, row)
  BY DEF TypeInv, TypeOK, LogCall
<1> HIDE DEF row
<1>4. /\ n \notin DOMAIN rows /\ DOMAIN rows' = DOMAIN rows \cup {n}
      /\ rows'[n] = row /\ \A r \in DOMAIN rows : rows'[r] = rows[r]
  BY <1>2, <1>3
<1> HIDE DEF n
<1>5. \A s \in Thread : Busy(s) => job[s].id \in Id /\ job[s].id \in DOMAIN asked
  BY ServedRequest DEF Busy, TypeInv, Numbered
<1>6. /\ \A s \in Thread \ {t} : job'[s] = job[s]
      /\ \/ /\ job'[t].do = "alarm" /\ UNCHANGED answered
            /\ job'[t].id = job[t].id /\ job'[t].code = job[t].code
         \/ /\ job'[t].do = "idle" /\ answered'[job[t].id] = job[t].code
            /\ \A i \in Id \ {job[t].id} : answered'[i] = answered[i]
  <2>1. CASE Goto(t, "alarm") /\ UNCHANGED answered
    BY <1>1, <2>1 DEF Goto, Job
  <2>2. CASE Answer(t, job[t].code)
    BY <1>1, <2>2, AnswerMoves
  <2> QED BY <2>1, <2>2 DEF LogCall
\* The request has no row yet.
<1>7. \A r \in DOMAIN rows : rows[r].id # job[t].id
  BY <1>1 DEF LogInv, RowsFollow
<1>8. Distinct'
  BY <1>1, <1>6 DEF LogInv, Distinct, Busy
<1>9. Unanswered'
  BY <1>1, <1>5, <1>6 DEF LogInv, Unanswered, Distinct, Busy
<1>10. RowsFollow'
  <2>1. \A r \in DOMAIN rows' : rows'[r].id \in DOMAIN asked
    BY <1>1, <1>2, <1>4, <1>5 DEF LogInv, RowsFollow
  <2>2. \A r \in DOMAIN rows', s \in Thread :
          job'[s].do # "idle" /\ job'[s].id = rows'[r].id => job'[s].do = "alarm"
    BY <1>1, <1>2, <1>4, <1>6 DEF LogInv, RowsFollow, Distinct, Busy
  <2>3. \A r, s \in DOMAIN rows' : rows'[r].id = rows'[s].id => r = s
    BY <1>2, <1>4, <1>7 DEF LogInv, RowsFollow
  <2> QED BY <1>1, <2>1, <2>2, <2>3 DEF RowsFollow, Busy
<1>11. Logged'
  <2> DEFINE Row2(i, c) == \E r \in DOMAIN rows' : rows'[r].id = i /\ rows'[r].code = c
  <2>1. \A i, c : HasRow(i, c) => Row2(i, c)
    BY <1>4 DEF HasRow
  <2>2. Row2(job[t].id, job[t].code)
    BY <1>2, <1>4
  <2> HIDE DEF Row2
  <2>3. \A s \in Thread : job'[s].do = "alarm" => Row2(job'[s].id, job'[s].code)
    BY <1>6, <2>1, <2>2 DEF LogInv, Logged
  <2>4. \A i \in Id : answered'[i] \in Code => Row2(i, answered'[i])
    BY <1>6, <2>1, <2>2 DEF LogInv, Logged
  <2> QED BY <2>3, <2>4 DEF Logged, HasRow, Row2
<1> QED BY <1>8, <1>9, <1>10, <1>11 DEF LogInv

LEMMA ReceiveLog ==
  ASSUME TypeInv, LogInv, NEW t \in Thread, NEW q \in Requests, Receive(t, q)
  PROVE  LogInv'
<1> DEFINE n == Len(asked) + 1
<1>1. /\ n \in Id /\ n \notin DOMAIN asked /\ DOMAIN asked' = DOMAIN asked \cup {n}
      /\ \A s \in Thread \ {t} : job'[s] = job[s]
      /\ job[t].do = "idle" /\ job'[t].id = n /\ job'[t].do \in {"log", "scan"}
      /\ UNCHANGED <<rows, answered>>
  BY ReceiveMoves DEF Receive
<1> HIDE DEF n
<1>2. \A s \in Thread : Busy(s) => job[s].id \in DOMAIN asked
  BY DEF Busy, TypeInv, Numbered
<1>3. Distinct'
  BY <1>1, <1>2 DEF LogInv, Distinct, Busy
<1>4. Unanswered'
  BY <1>1, <1>2 DEF LogInv, Unanswered, Busy
<1>5. RowsFollow'
  BY <1>1, <1>2 DEF LogInv, RowsFollow, Busy
<1>6. Logged'
  BY <1>1 DEF LogInv, Logged, HasRow
<1> QED BY <1>3, <1>4, <1>5, <1>6 DEF LogInv

LEMMA LogInvNext == TypeInv /\ LogInv /\ [Next]_vars => LogInv'
<1> SUFFICES ASSUME TypeInv, LogInv, [Next]_vars PROVE LogInv'
  OBVIOUS
<1>1. ASSUME NEW t \in Thread, Work(t) PROVE LogInv'
  <2>1. CASE Serve(t)
    BY <2>1, ServeLog
  <2>2. CASE LogCall(t)
    BY <2>2, LogLog
  <2>3. CASE Alarm(t)
    <3>1. Busy(t) /\ job[t].code \in Code
      BY <2>3, ServedRequest, JobFields DEF Alarm, Busy
    <3>2. HasRow(job[t].id, job[t].code)
      BY <2>3 DEF Alarm, LogInv, Logged
    <3> QED BY <2>3, <3>1, <3>2, AnswerLog DEF Alarm
  <2>4. CASE Raise(t)
    BY <2>4, CodeFacts, AnswerLog DEF Raise, Scanning, Busy
  <2> QED BY <1>1, <2>1, <2>2, <2>3, <2>4 DEF Work, Serve
<1>2. ASSUME NEW t \in Thread, NEW q \in Requests, Receive(t, q) PROVE LogInv'
  BY <1>2, ReceiveLog
<1>3. CASE UNCHANGED vars
  BY <1>3 DEF vars, LogInv, Distinct, Unanswered, RowsFollow, Logged, HasRow, Busy
<1> QED BY <1>1, <1>2, <1>3 DEF Next

LEMMA LogInvAlways == Spec => []LogInv
<1>1. Init => LogInv
  BY IdleJob, CodeFacts
     DEF Init, LogInv, Distinct, Unanswered, RowsFollow, Logged, HasRow, Busy
<1> QED BY <1>1, LogInvNext, TypeInvAlways, PTL DEF Spec

\* "Every call logged": a request that got an answer has one row in call_logs, with the
\* outcome its client saw, and no request ever has two.
THEOREM EveryAnswerLogged == Spec => []AnsweredAsLogged
<1>1. LogInv => AnsweredAsLogged
  <2> SUFFICES ASSUME LogInv, NEW i \in Id
               PROVE  /\ Cardinality(RowsOf(i)) <= 1
                      /\ answered[i] \in Code =>
                           \E r \in RowsOf(i) : rows[r].code = answered[i]
    BY DEF AnsweredAsLogged
  <2>1. RowsOf(i) = {} \/ \E r \in DOMAIN rows : RowsOf(i) = {r}
    BY DEF LogInv, RowsFollow, RowsOf
  <2>2. Cardinality(RowsOf(i)) \in {0, 1}
    <3>1. CASE RowsOf(i) = {}
      BY <3>1, FS_EmptySet
    <3>2. ASSUME NEW r \in DOMAIN rows, RowsOf(i) = {r} PROVE Cardinality(RowsOf(i)) = 1
      BY <3>2, FS_Singleton
    <3> QED BY <2>1, <3>1, <3>2
  <2>3. answered[i] \in Code => \E r \in RowsOf(i) : rows[r].code = answered[i]
    BY DEF LogInv, Logged, HasRow, RowsOf
  <2>4. Cardinality(RowsOf(i)) <= 1
    BY <2>2
  <2> QED BY <2>3, <2>4
<1> QED BY <1>1, LogInvAlways, PTL

-----------------------------------------------------------------------------
(* Quota and calls                                                         *)

\* Where a request is until its quota is looked at.
Early == {"scan", "notice", "judge"}

\* A request that is past the quota and has no row yet, and one the log calls served.
Past(j) ==
  \/ j.do \in {"call", "scanReply", "noticeReply", "check"}
  \/ j.do = "log" /\ j.code \notin Blocked

Serviced(i) == \E r \in DOMAIN rows : rows[r].id = i /\ rows[r].code \notin Blocked

\* The requests of a user that were called for or served, or may be yet.
Paid(u) ==
  {i \in DOMAIN asked :
     /\ asked[i].user = u
     /\ calls[i] > 0 \/ Serviced(i) \/ \E t \in Thread : Past(job[t]) /\ job[t].id = i}

PaidInv ==
  /\ \A i \in Id \ DOMAIN asked : calls[i] = 0
  /\ \A u \in User : Cardinality(Paid(u)) <= counts[u]

\* The requests whose quota was not looked at yet.
Ahead == {i \in DOMAIN asked : \E t \in Thread : job[t].id = i /\ job[t].do \in Early}

FreeInv ==
  /\ \A t \in Thread :
       /\ job[t].do \in Early => ~Req(t).big
       /\ job[t].do = "call" => ~Req(t).big /\ ~Req(t).attack
  /\ \A i \in DOMAIN asked : calls[i] > 0 => ~asked[i].big /\ ~asked[i].attack
  /\ \A u \in User : counts[u] <= Cardinality(Innocent(u) \ Ahead)

LEMMA Few ==
  ASSUME TypeInv, NEW S \in SUBSET DOMAIN asked
  PROVE  /\ IsFiniteSet(S) /\ Cardinality(S) \in Nat
         /\ \A T \in SUBSET S : Cardinality(T) \in Nat /\ Cardinality(T) <= Cardinality(S)
<1>1. DOMAIN asked = 1..Len(asked) /\ Len(asked) \in Nat
  BY DEF TypeInv, TypeOK
<1>2. IsFiniteSet(DOMAIN asked)
  BY <1>1, FS_Interval
<1>3. IsFiniteSet(S)
  BY <1>2, FS_Subset
<1>4. \A T \in SUBSET S : IsFiniteSet(T) /\ Cardinality(T) <= Cardinality(S)
  BY <1>3, FS_Subset
<1> QED BY <1>3, <1>4, FS_CardinalityType

LEMMA JudgeMoves ==
  ASSUME TypeInv, NEW t \in Thread, Judge(t)
  PROVE  /\ \A s \in Thread \ {t} : job'[s] = job[s]
         /\ job[t].do = "judge" /\ job'[t].id = job[t].id /\ UNCHANGED <<asked, calls>>
         /\ \/ /\ job'[t].do = "log" /\ job'[t].code \in Blocked
               /\ UNCHANGED <<counts, charged>>
            \/ /\ job'[t].do = "call" /\ ~Req(t).attack /\ charged' = charged \cup {job[t].id}
               /\ counts'[Req(t).user] = counts[Req(t).user] + 1
               /\ \A k \in (User \cup Session) \ {Req(t).user} : counts'[k] = counts[k]
<1>1. /\ job \in [Thread -> Job] /\ job[t] \in Job
      /\ counts \in [User \cup Session -> 0..Cap]
  BY DEF TypeInv, TypeOK
<1>2. job[t].do = "judge" /\ UNCHANGED <<asked, calls>> /\ Admission(t, Req(t))
  BY DEF Judge
<1>3. Req(t).user \in User
  BY <1>2, ServedRequest DEF Request
<1>4. CASE /\ Goto(t, "call") /\ ~Req(t).attack
           /\ counts' = Spent(Req(t)) /\ charged' = charged \cup {job[t].id}
  BY <1>1, <1>2, <1>3, <1>4 DEF Goto, Spent, QuotaKey, Job
<1>5. CASE (\E c \in Blocked : End(t, c)) /\ UNCHANGED <<counts, charged>>
  BY <1>1, <1>2, <1>5 DEF End, Job
<1> QED BY <1>2, <1>4, <1>5 DEF Admission, Blocked

\* No other step comes to the providers, or back before the quota.
LEMMA OtherMoves ==
  ASSUME TypeInv, NEW t \in Thread, Work(t) /\ ~Judge(t) /\ ~CallProvider(t)
  PROVE  /\ \A s \in Thread \ {t} : job'[s] = job[s]
         /\ UNCHANGED <<asked, counts, calls, charged>>
         /\ job[t].do # "call" /\ job'[t].do # "call"
         /\ job'[t].do \in Early => job[t].do \in Early /\ job'[t].id = job[t].id
<1>1. job \in [Thread -> Job] /\ job[t] \in Job /\ Idle.do = "idle"
  BY IdleJob DEF TypeInv, TypeOK
<1>2. job[t].building => job[t].do \in {"scan", "scanReply"}
  BY DEF TypeInv, Numbered
<1>3. CASE BeginAnalyzer(t) \/ EndAnalyzer(t)
  BY <1>1, <1>2, <1>3 DEF BeginAnalyzer, EndAnalyzer, Scanning, Job
<1>4. CASE ScanPrompt(t) \/ ScanReply(t)
  BY <1>1, <1>4 DEF ScanPrompt, ScanReply, Scanning, Job, Early
<1>5. CASE Notice(t)
  BY <1>1, <1>5 DEF Notice, Goto, Job, Early
<1>6. CASE CheckOutput(t)
  BY <1>1, <1>6 DEF CheckOutput, End, Job, Early
<1>7. CASE LogCall(t) \/ Alarm(t) \/ Raise(t)
  BY <1>1, <1>7 DEF LogCall, Alarm, Raise, Scanning, Goto, Answer, Job, Early
<1> QED BY <1>3, <1>4, <1>5, <1>6, <1>7 DEF Work

LEMMA CallCounts ==
  ASSUME TypeInv, NEW t \in Thread, CallProvider(t)
  PROVE  /\ job[t].do = "call" /\ UNCHANGED <<asked, counts, charged>>
         /\ job[t].id \in DOMAIN asked
         /\ \A i \in Id \ {job[t].id} : calls'[i] = calls[i]
<1>1. job[t].do = "call" /\ calls \in [Id -> 0..2] /\ job[t].id \in DOMAIN asked
  BY ServedRequest DEF CallProvider, TypeInv, TypeOK, Numbered
<1> QED BY <1>1 DEF CallProvider

\* Only the quota brings a request past the quota, or into the log as served.
LEMMA PastMoves ==
  ASSUME TypeInv, NEW t \in Thread, Work(t) /\ ~Judge(t)
  PROVE  /\ \A s \in Thread \ {t} : job'[s] = job[s]
         /\ Past(job'[t]) => Past(job[t]) /\ job'[t].id = job[t].id
         /\ \A i : Serviced(i)' => Serviced(i) \/ (i = job[t].id /\ Past(job[t]))
<1>1. job \in [Thread -> Job] /\ job[t] \in Job /\ Idle.do = "idle"
  BY IdleJob DEF TypeInv, TypeOK
<1>2. CASE LogCall(t)
  <2>1. /\ job[t].do = "log" /\ \A s \in Thread \ {t} : job'[s] = job[s]
        /\ job'[t].do \in {"alarm", "idle"}
    BY <1>2, LogMoves
  <2>2. PICK n, row : /\ row.id = job[t].id /\ row.code = job[t].code
                      /\ DOMAIN rows' = DOMAIN rows \cup {n}
                      /\ rows'[n] = row /\ \A r \in DOMAIN rows : rows'[r] = rows[r]
    BY <1>2, LogRows
  <2>3. ASSUME NEW i, Serviced(i)' PROVE Serviced(i) \/ (i = job[t].id /\ Past(job[t]))
    BY <2>1, <2>2, <2>3 DEF Serviced, Past
  <2> QED BY <2>1, <2>3 DEF Past
<1>3. CASE ~LogCall(t)
  <2>1. UNCHANGED rows
    BY <1>3 DEF Work, BeginAnalyzer, EndAnalyzer, ScanPrompt, Notice, Judge, CallProvider,
       ScanReply, CheckOutput, Alarm, Raise
  <2>2. \A i : Serviced(i)' => Serviced(i)
    BY <2>1 DEF Serviced
  <2>3. CASE Serve(t)
    <3>1. /\ \A s \in Thread \ {t} : job'[s] = job[s]
          /\ job'[t].id = job[t].id
      BY <2>3, ServeMoves
    <3>2. Past(job'[t]) => Past(job[t])
      <4>1. CASE BeginAnalyzer(t) \/ EndAnalyzer(t)
        BY <1>1, <4>1 DEF BeginAnalyzer, EndAnalyzer, Past, Job
      <4>2. CASE ScanPrompt(t) \/ ScanReply(t)
        BY <1>1, <4>2 DEF ScanPrompt, ScanReply, Past, Job
      <4>3. CASE Notice(t)
        BY <1>1, <4>3 DEF Notice, Goto, Past, Job
      <4>4. CASE CallProvider(t) \/ CheckOutput(t)
        BY <4>4 DEF CallProvider, CheckOutput, Past
      <4> QED BY <2>3, <4>1, <4>2, <4>3, <4>4 DEF Serve
    <3> QED BY <2>2, <3>1, <3>2
  <2>4. CASE Alarm(t) \/ Raise(t)
    <3>1. job' = [job EXCEPT ![t] = Idle]
      BY <2>4 DEF Alarm, Raise, Answer
    <3> QED BY <1>1, <2>2, <3>1 DEF Past
  <2> QED BY <1>3, <2>3, <2>4 DEF Work, Serve
<1> QED BY <1>2, <1>3

LEMMA Ids == TypeInv => DOMAIN asked \subseteq Id
  BY DEF TypeInv, TypeOK, Id

LEMMA PaidNext == TypeInv /\ LogInv /\ PaidInv /\ [Next]_vars => PaidInv'
<1> SUFFICES ASSUME TypeInv, LogInv, PaidInv, [Next]_vars PROVE PaidInv'
  OBVIOUS
<1>1. counts \in [User \cup Session -> 0..Cap]
  BY DEF TypeInv, TypeOK
<1>2. ASSUME NEW u \in User
      PROVE  /\ IsFiniteSet(Paid(u)) /\ Cardinality(Paid(u)) <= counts[u]
             /\ \A S \in SUBSET Paid(u) : Cardinality(S) <= counts[u]
  <2>1. Paid(u) \in SUBSET DOMAIN asked
    BY DEF Paid
  <2>2. /\ IsFiniteSet(Paid(u)) /\ Cardinality(Paid(u)) \in Nat
        /\ \A S \in SUBSET Paid(u) : /\ Cardinality(S) \in Nat
                                     /\ Cardinality(S) <= Cardinality(Paid(u))
    BY <2>1, Few
  <2>3. Cardinality(Paid(u)) <= counts[u] /\ counts[u] \in Nat
    BY <1>1 DEF PaidInv
  <2> QED BY <2>2, <2>3
\* Enough for every step that charges nobody: no more requests were paid for.
<1>3. ASSUME UNCHANGED counts, \A u \in User : Paid(u)' \subseteq Paid(u),
             \A i \in Id \ DOMAIN asked' : calls'[i] = 0
      PROVE  PaidInv'
  BY <1>2, <1>3 DEF PaidInv
<1>4. ASSUME NEW t \in Thread, Judge(t) PROVE PaidInv'
  <2>1. /\ \A s \in Thread \ {t} : job'[s] = job[s]
        /\ job[t].do = "judge" /\ job'[t].id = job[t].id /\ UNCHANGED <<asked, calls>>
        /\ \A i : Serviced(i)' = Serviced(i)
    BY <1>4, JudgeMoves DEF Judge, Serviced
  <2>2. CASE job'[t].do = "log" /\ job'[t].code \in Blocked /\ UNCHANGED counts
    <3>1. \A u \in User : Paid(u)' \subseteq Paid(u)
      BY <2>1, <2>2 DEF Paid, Past
    <3> QED BY <1>3, <2>1, <2>2, <3>1 DEF PaidInv
  <2>3. CASE /\ counts'[Req(t).user] = counts[Req(t).user] + 1
             /\ \A k \in (User \cup Session) \ {Req(t).user} : counts'[k] = counts[k]
    <3>1. \A i \in Id \ DOMAIN asked' : calls'[i] = 0
      BY <2>1 DEF PaidInv
    <3>2. ASSUME NEW u \in User PROVE Cardinality(Paid(u)') <= counts'[u]
      <4>1. CASE u = Req(t).user
        <5>1. Paid(u)' \subseteq Paid(u) \cup {job[t].id}
          BY <2>1 DEF Paid
        <5>2. /\ IsFiniteSet(Paid(u) \cup {job[t].id})
              /\ Cardinality(Paid(u) \cup {job[t].id}) <= counts[u] + 1
          <6>1. IsFiniteSet(Paid(u)) /\ Cardinality(Paid(u)) <= counts[u]
            BY <1>2
          <6>2. Cardinality(Paid(u)) \in Nat /\ counts[u] \in Nat
            BY <1>1, <6>1, FS_CardinalityType
          <6> DEFINE P == Paid(u)
                     Q == P \cup {job[t].id}
          <6> HIDE DEF P
          <6>3. IsFiniteSet(P)
            BY <6>1 DEF P
          <6>4. /\ IsFiniteSet(Q)
                /\ Cardinality(Q) = Cardinality(P) \/ Cardinality(Q) = Cardinality(P) + 1
            BY <6>3, FS_AddElement
          <6> HIDE DEF Q
          <6>5. IsFiniteSet(Q) /\ Cardinality(Q) <= counts[u] + 1
            BY <6>1, <6>2, <6>4 DEF P
          <6> QED BY <6>5 DEF Q, P
        <5>3. /\ Cardinality(Paid(u)') <= Cardinality(Paid(u) \cup {job[t].id})
              /\ Cardinality(Paid(u)') \in Nat
              /\ Cardinality(Paid(u) \cup {job[t].id}) \in Nat
          BY <5>1, <5>2, FS_Subset, FS_CardinalityType
        <5>4. counts'[u] = counts[u] + 1 /\ counts[u] \in Nat
          BY <1>1, <2>3, <4>1
        <5> QED BY <5>2, <5>3, <5>4
      <4>2. CASE u # Req(t).user
        <5>1. Paid(u)' \subseteq Paid(u)
          <6>1. asked[job[t].id].user # u
            BY <4>2 DEF Req
          <6> QED BY <2>1, <6>1 DEF Paid
        <5> QED BY <1>2, <2>3, <4>2, <5>1
      <4> QED BY <4>1, <4>2
    <3> QED BY <3>1, <3>2 DEF PaidInv
  <2> QED BY <1>4, <2>2, <2>3, JudgeMoves
<1>5. ASSUME NEW t \in Thread, CallProvider(t) PROVE PaidInv'
  <2>1. /\ \A s \in Thread \ {t} : job'[s] = job[s]
        /\ job'[t].id = job[t].id /\ job[t].do = "call" /\ UNCHANGED <<asked, counts>>
        /\ job[t].id \in DOMAIN asked
        /\ \A i \in Id \ {job[t].id} : calls'[i] = calls[i]
    BY <1>5, CallMoves, CallCounts
  <2>2. Past(job[t]) /\ \A i : Serviced(i)' = Serviced(i)
    BY <1>5, <2>1 DEF CallProvider, Past, Serviced
  <2>3. \A u \in User : Paid(u)' \subseteq Paid(u)
    BY <2>1, <2>2, Ids DEF Paid
  <2> QED BY <1>3, <2>1, <2>3 DEF PaidInv
<1>6. ASSUME NEW t \in Thread, Work(t) /\ ~Judge(t) /\ ~CallProvider(t) PROVE PaidInv'
  <2>1. /\ \A s \in Thread \ {t} : job'[s] = job[s]
        /\ UNCHANGED <<asked, counts, calls>>
    BY <1>6, OtherMoves
  <2>2. /\ Past(job'[t]) => Past(job[t]) /\ job'[t].id = job[t].id
        /\ \A i : Serviced(i)' => Serviced(i) \/ (i = job[t].id /\ Past(job[t]))
    BY <1>6, PastMoves
  <2>3. \A u \in User : Paid(u)' \subseteq Paid(u)
    BY <2>1, <2>2 DEF Paid
  <2> QED BY <1>3, <2>1, <2>3 DEF PaidInv
<1>7. ASSUME NEW t \in Thread, NEW q \in Requests, Receive(t, q) PROVE PaidInv'
  <2> DEFINE n == Len(asked) + 1
  <2>1. /\ n \in Id /\ n \notin DOMAIN asked /\ DOMAIN asked' = DOMAIN asked \cup {n}
        /\ \A i \in DOMAIN asked : asked'[i] = asked[i]
        /\ \A s \in Thread \ {t} : job'[s] = job[s]
        /\ job'[t].do = IF q.big THEN "log" ELSE "scan"
        /\ q.big => job'[t].code \in Blocked
    BY <1>7, ReceiveMoves DEF Blocked
  <2> HIDE DEF n
  <2>2. UNCHANGED <<calls, counts, rows>> /\ ~Past(job'[t])
    BY <1>7, <2>1 DEF Receive, Past
  <2>3. /\ calls[n] = 0 /\ ~Serviced(n)
        /\ \A s \in Thread : Past(job[s]) => job[s].id \in DOMAIN asked
    BY <2>1 DEF PaidInv, LogInv, RowsFollow, Serviced, Past, TypeInv, Numbered
  <2>4. \A i : Serviced(i)' = Serviced(i)
    BY <2>2 DEF Serviced
  <2>5. \A u \in User : Paid(u)' \subseteq Paid(u)
    BY <2>1, <2>2, <2>3, <2>4 DEF Paid
  <2> QED BY <1>3, <2>1, <2>2, <2>5 DEF PaidInv
<1>8. CASE UNCHANGED vars
  <2>1. UNCHANGED counts /\ \A u \in User : Paid(u)' \subseteq Paid(u)
    BY <1>8 DEF vars, Paid, Serviced
  <2> QED BY <1>3, <1>8, <2>1 DEF vars, PaidInv
<1> QED BY <1>4, <1>5, <1>6, <1>7, <1>8 DEF Next

LEMMA PaidAlways == Spec => []PaidInv
<1>1. Init => PaidInv
  <2> SUFFICES ASSUME Init PROVE PaidInv
    OBVIOUS
  <2>1. ASSUME NEW u \in User PROVE Cardinality(Paid(u)) <= counts[u]
    <3>1. Paid(u) = {} /\ counts[u] = 0
      BY IdleJob DEF Init, Paid, Past
    <3> QED BY <3>1, FS_EmptySet
  <2> QED BY <2>1 DEF Init, PaidInv
<1> QED BY <1>1, PaidNext, TypeInvAlways, LogInvAlways, PTL DEF Spec

\* "A client rotating it must not reset quota": a user gets at most Cap requests through
\* to the providers, each of them paid for, however the threads interleave.
THEOREM CallsArePaidFor == Spec => []QuotaCoversCalls
<1>1. TypeInv /\ PaidInv => QuotaCoversCalls
  <2> SUFFICES ASSUME TypeInv, PaidInv, NEW u \in User
               PROVE  Cardinality(Called(u)) <= counts[u] /\ counts[u] <= Cap
    BY DEF QuotaCoversCalls
  <2>1. counts[u] \in 0..Cap
    BY DEF TypeInv, TypeOK
  <2>2. Paid(u) \in SUBSET DOMAIN asked /\ Called(u) \in SUBSET Paid(u)
    BY DEF Paid, Called
  <2>3. /\ Cardinality(Called(u)) <= Cardinality(Paid(u))
        /\ Cardinality(Called(u)) \in Nat /\ Cardinality(Paid(u)) \in Nat
    BY <2>2, Few
  <2>4. Cardinality(Paid(u)) <= counts[u]
    BY DEF PaidInv
  <2> QED BY <2>1, <2>3, <2>4
<1> QED BY <1>1, PaidAlways, TypeInvAlways, PTL

-----------------------------------------------------------------------------
(* Refused requests                                                        *)

\* A step may settle requests, but it takes none back.
LEMMA FreeNext == TypeInv /\ LogInv /\ PaidInv /\ FreeInv /\ [Next]_vars => FreeInv'
<1> SUFFICES ASSUME TypeInv, LogInv, PaidInv, FreeInv, [Next]_vars PROVE FreeInv'
  OBVIOUS
<1> DEFINE Settled(u) == Innocent(u) \ Ahead
<1>1. counts \in [User \cup Session -> 0..Cap]
  BY DEF TypeInv, TypeOK
<1>2. ASSUME NEW u \in User, NEW S, S \in SUBSET (DOMAIN asked), Settled(u) \subseteq S
      PROVE  /\ counts[u] <= Cardinality(S)
             /\ \A i \in S \ Settled(u) : counts[u] + 1 <= Cardinality(S)
  <2> DEFINE P == Settled(u)
  <2>1. P \in SUBSET DOMAIN asked /\ counts[u] <= Cardinality(P) /\ counts[u] \in Nat
    BY <1>1 DEF Innocent, FreeInv
  <2>2. P \subseteq S
    BY <1>2
  <2> HIDE DEF P
  <2>3. /\ IsFiniteSet(S) /\ IsFiniteSet(P) /\ Cardinality(S) \in Nat
        /\ Cardinality(P) \in Nat /\ Cardinality(P) <= Cardinality(S)
    BY <1>2, <2>1, <2>2, Few
  <2>4. Cardinality(S) = Cardinality(P) => S = P
    BY <2>2, <2>3, FS_Subset
  <2>5. counts[u] <= Cardinality(S)
    BY <2>1, <2>3
  <2>6. ASSUME NEW i \in S \ P PROVE counts[u] + 1 <= Cardinality(S)
    <3>1. Cardinality(P) # Cardinality(S)
      BY <2>4
    <3> QED BY <2>1, <2>3, <3>1
  <2> QED BY <2>5, <2>6 DEF P
<1>3. ASSUME NEW t \in Thread, Judge(t) PROVE FreeInv'
  <2> DEFINE q == Req(t)
  <2>1. /\ \A s \in Thread \ {t} : job'[s] = job[s]
        /\ job[t].do = "judge" /\ job'[t].id = job[t].id /\ UNCHANGED <<asked, calls>>
        /\ job'[t].do \in {"log", "call"}
        /\ job[t].id \in DOMAIN asked /\ q \in Request /\ ~q.big
    BY <1>3, JudgeMoves, ServedRequest DEF TypeInv, Numbered, FreeInv, Early
  <2>2. \/ job'[t].do = "log" /\ UNCHANGED counts
        \/ /\ job'[t].do = "call" /\ ~q.attack /\ counts'[q.user] = counts[q.user] + 1
           /\ \A k \in (User \cup Session) \ {q.user} : counts'[k] = counts[k]
    BY <1>3, JudgeMoves
  <2>3. \A s \in Thread : Req(s)' = asked[job'[s].id]
    BY <2>1 DEF Req
  <2>4. \A s \in Thread : /\ job'[s].do \in Early => ~Req(s)'.big
                          /\ job'[s].do = "call" => ~Req(s)'.big /\ ~Req(s)'.attack
    BY <2>1, <2>2, <2>3 DEF FreeInv, Early, Req
  <2>5. Ahead' = Ahead \ {job[t].id}
    <3>1. \A s \in Thread \ {t} : job[s].do \in Early => job[s].id # job[t].id
      BY <2>1 DEF LogInv, Distinct, Busy, Early
    <3> QED BY <2>1, <3>1 DEF Ahead, Early
  <2>6. ASSUME NEW u \in User PROVE counts'[u] <= Cardinality(Innocent(u) \ Ahead)'
    <3> DEFINE S == Innocent(u) \ (Ahead \ {job[t].id})
    <3>1. (Innocent(u) \ Ahead)' = S
      BY <2>1, <2>5 DEF Innocent
    <3>2. S \in SUBSET (DOMAIN asked) /\ Settled(u) \subseteq S
      BY DEF Innocent
    <3>3. job[t].id \in Ahead
      BY <2>1 DEF Ahead, Early
    <3>4. CASE counts'[u] = counts[u]
      <4>1. counts[u] <= Cardinality(S)
        BY <1>2, <3>2
      <4> QED BY <3>1, <3>4, <4>1
    <3>5. CASE u = q.user /\ ~q.attack /\ counts'[u] = counts[u] + 1
      <4>1. job[t].id \in S \ Settled(u)
        BY <2>1, <3>3, <3>5 DEF Innocent, Req
      <4>2. counts[u] + 1 <= Cardinality(S)
        BY <1>2, <3>2, <4>1
      <4> QED BY <3>1, <3>5, <4>2
    <3> QED BY <2>2, <3>4, <3>5
  <2> QED BY <2>1, <2>4, <2>6 DEF FreeInv
<1>4. ASSUME NEW t \in Thread, CallProvider(t) PROVE FreeInv'
  <2>1. /\ \A s \in Thread \ {t} : job'[s] = job[s]
        /\ job'[t].do \in {"call", "log", "scanReply"} /\ job'[t].id = job[t].id
        /\ job[t].do = "call" /\ UNCHANGED <<asked, counts>> /\ job[t].id \in DOMAIN asked
        /\ \A i \in Id \ {job[t].id} : calls'[i] = calls[i]
    BY <1>4, CallMoves, CallCounts
  <2>2. \A s \in Thread : Req(s)' = Req(s)
    BY <2>1 DEF Req
  <2>3. ~asked[job[t].id].big /\ ~asked[job[t].id].attack
    BY <2>1 DEF FreeInv, Req
  <2>4. \A i \in DOMAIN asked' : calls'[i] > 0 => ~asked'[i].big /\ ~asked'[i].attack
    BY <2>1, <2>3, Ids DEF FreeInv
  <2>5. Ahead' = Ahead /\ \A u \in User : Innocent(u)' = Innocent(u)
    BY <2>1 DEF Ahead, Early, Innocent
  <2>6. \A s \in Thread : /\ job'[s].do \in Early => ~Req(s)'.big
                          /\ job'[s].do = "call" => ~Req(s)'.big /\ ~Req(s)'.attack
    BY <2>1, <2>2 DEF FreeInv, Early
  <2> QED BY <2>1, <2>4, <2>5, <2>6 DEF FreeInv
<1>5. ASSUME NEW t \in Thread, Work(t) /\ ~Judge(t) /\ ~CallProvider(t) PROVE FreeInv'
  <2>1. /\ \A s \in Thread \ {t} : job'[s] = job[s]
        /\ UNCHANGED <<asked, counts, calls>> /\ job'[t].do # "call"
        /\ job'[t].do \in Early => job[t].do \in Early /\ job'[t].id = job[t].id
    BY <1>5, OtherMoves
  <2>2. \A s \in Thread : /\ job'[s].do \in Early => ~Req(s)'.big
                          /\ job'[s].do = "call" => ~Req(s)'.big /\ ~Req(s)'.attack
    BY <2>1 DEF FreeInv, Req
  <2>3. ASSUME NEW u \in User PROVE counts'[u] <= Cardinality(Innocent(u) \ Ahead)'
    <3>1. (Innocent(u) \ Ahead)' \in SUBSET (DOMAIN asked)
      BY <2>1 DEF Innocent
    <3>2. Settled(u) \subseteq (Innocent(u) \ Ahead)'
      BY <2>1 DEF Innocent, Ahead
    <3> QED BY <1>2, <2>1, <3>1, <3>2
  <2> QED BY <2>1, <2>2, <2>3 DEF FreeInv
<1>6. ASSUME NEW t \in Thread, NEW q \in Requests, Receive(t, q) PROVE FreeInv'
  <2> DEFINE n == Len(asked) + 1
  <2>1. /\ n \in Id /\ n \notin DOMAIN asked /\ DOMAIN asked' = DOMAIN asked \cup {n}
        /\ asked'[n] = q /\ \A i \in DOMAIN asked : asked'[i] = asked[i]
        /\ \A s \in Thread \ {t} : job'[s] = job[s]
        /\ job[t].do = "idle" /\ job'[t].id = n
        /\ job'[t].do = IF q.big THEN "log" ELSE "scan"
    BY <1>6, ReceiveMoves
  <2> HIDE DEF n
  <2>2. UNCHANGED <<calls, counts>>
    BY <1>6 DEF Receive
  <2>3. \A s \in Thread : job[s].do # "idle" => job[s].id \in DOMAIN asked
    BY DEF TypeInv, Numbered
  <2>4. calls[n] = 0
    BY <2>1 DEF PaidInv
  <2>5. \A s \in Thread : /\ job'[s].do \in Early => ~Req(s)'.big
                          /\ job'[s].do = "call" => ~Req(s)'.big /\ ~Req(s)'.attack
    <3>1. CASE q.big
      BY <2>1, <2>3, <3>1 DEF FreeInv, Early, Req
    <3>2. CASE ~q.big
      BY <2>1, <2>3, <3>2 DEF FreeInv, Early, Req
    <3> QED BY <3>1, <3>2
  <2>6. \A i \in DOMAIN asked' : calls'[i] > 0 => ~asked'[i].big /\ ~asked'[i].attack
    BY <2>1, <2>2, <2>4 DEF FreeInv
  <2>7. ASSUME NEW u \in User PROVE counts'[u] <= Cardinality(Innocent(u) \ Ahead)'
    \* The new request is too large to count, or has its quota ahead of it.
    <3>1. (Innocent(u) \ Ahead)' = Settled(u)
      <4>1. n \notin (Innocent(u) \ Ahead)'
        BY <2>1 DEF Innocent, Ahead, Early
      <4>2. ASSUME NEW i \in DOMAIN asked
            PROVE  /\ i \in Innocent(u)' <=> i \in Innocent(u)
                   /\ i \in Ahead' <=> i \in Ahead
        BY <2>1, <2>3 DEF Innocent, Ahead, Early
      <4>3. /\ Innocent(u)' \subseteq DOMAIN asked \cup {n}
            /\ Innocent(u) \subseteq DOMAIN asked
        BY <2>1 DEF Innocent
      <4> QED BY <4>1, <4>2, <4>3
    <3> QED BY <2>2, <3>1 DEF FreeInv
  <2> QED BY <2>5, <2>6, <2>7 DEF FreeInv
<1>7. CASE UNCHANGED vars
  <2>1. /\ Ahead' = Ahead /\ \A u \in User : Innocent(u)' = Innocent(u)
        /\ \A s \in Thread : Req(s)' = Req(s)
    BY <1>7 DEF vars, Ahead, Innocent, Req
  <2> QED BY <1>7, <2>1 DEF vars, FreeInv
<1> QED BY <1>3, <1>4, <1>5, <1>6, <1>7 DEF Next

LEMMA FreeAlways == Spec => []FreeInv
<1>1. Init => FreeInv
  <2> SUFFICES ASSUME Init PROVE FreeInv
    OBVIOUS
  <2>1. DOMAIN asked = {} /\ \A t \in Thread : job[t].do = "idle"
    BY IdleJob DEF Init
  <2>2. ASSUME NEW u \in User PROVE counts[u] <= Cardinality(Innocent(u) \ Ahead)
    <3>1. Innocent(u) \ Ahead = {} /\ counts[u] = 0
      BY <2>1 DEF Init, Innocent
    <3> QED BY <3>1, FS_EmptySet
  <2> QED BY <2>1, <2>2 DEF FreeInv, Early
<1> QED BY <1>1, FreeNext, PaidAlways, TypeInvAlways, LogInvAlways, PTL DEF Spec

\* A refused request costs nothing: prompts that are too large or an attack use up no
\* quota and reach no provider, even with many requests in flight.
THEOREM RefusalIsFree == Spec => []RefusedForFree
<1>1. TypeInv /\ FreeInv => RefusedForFree
  <2> SUFFICES ASSUME TypeInv, FreeInv, NEW u \in User
               PROVE  /\ counts[u] <= Cardinality(Innocent(u))
                      /\ Called(u) \subseteq Innocent(u)
    BY DEF RefusedForFree
  <2>1. Innocent(u) \in SUBSET DOMAIN asked /\ counts[u] \in Nat
    BY DEF Innocent, TypeInv, TypeOK
  <2>2. /\ Cardinality(Innocent(u) \ Ahead) <= Cardinality(Innocent(u))
        /\ Cardinality(Innocent(u) \ Ahead) \in Nat /\ Cardinality(Innocent(u)) \in Nat
    BY <2>1, Few
  <2>3. counts[u] <= Cardinality(Innocent(u) \ Ahead)
    BY DEF FreeInv
  <2>4. Called(u) \subseteq Innocent(u)
    BY DEF FreeInv, Called, Innocent
  <2> QED BY <2>1, <2>2, <2>3, <2>4
<1> QED BY <1>1, FreeAlways, TypeInvAlways, PTL

-----------------------------------------------------------------------------
(* Failed calls                                                            *)

\* A request about to be logged as failed was called for.
FailedInv ==
  /\ \A t \in Thread : job[t].do \in {"log", "alarm"} /\ job[t].code = "provider_failed"
                         => calls[job[t].id] > 0
  /\ FailureMeansCalled

\* A call is counted, and its failure is the provider's only if there was one.
LEMMA CallFailure ==
  ASSUME TypeInv, NEW t \in Thread, CallProvider(t)
  PROVE  /\ \A i \in Id : calls[i] > 0 => calls'[i] > 0
         /\ job'[t].do = "log" /\ job'[t].code = "provider_failed" => calls'[job[t].id] > 0
<1> DEFINE keyed == HasKey(Req(t).route, Req(t).byok, Tries(t)[job[t].try])
<1>1. /\ job \in [Thread -> Job] /\ job[t] \in Job /\ job[t].do = "call"
      /\ job[t].id \in Id /\ calls \in [Id -> 0..2] /\ Req(t) \in Request
  BY ServedRequest DEF CallProvider, TypeInv, TypeOK
<1>2. /\ calls' = [calls EXCEPT ![job[t].id] = IF keyed /\ @ < 2 THEN @ + 1 ELSE @]
      /\ \/ Fail(t, keyed)
         \/ \E r \in Replies :
              job' = [job EXCEPT ![t] = [job[t] EXCEPT !.reply = r, !.do = "scanReply"]]
  BY DEF CallProvider
<1> HIDE DEF keyed
<1> DEFINE old == calls[job[t].id]
           new == IF keyed /\ old < 2 THEN old + 1 ELSE old
<1>3. \A i \in Id : calls[i] > 0 => calls'[i] > 0
  <2>1. old \in 0..2 /\ calls' = [calls EXCEPT ![job[t].id] = new]
    BY <1>1, <1>2
  <2>2. new = old + 1 \/ new = old
    OBVIOUS
  <2> HIDE DEF new
  <2>3. old > 0 => new > 0
    <3> HIDE DEF old
    <3> QED BY <2>1, <2>2
  <2> QED BY <1>1, <2>1, <2>3
<1>4. keyed => calls'[job[t].id] > 0
  <2>1. old \in 0..2 /\ calls' = [calls EXCEPT ![job[t].id] = new]
    BY <1>1, <1>2
  <2>2. keyed => new > 0
    BY <2>1
  <2> HIDE DEF new
  <2> QED BY <1>1, <2>1, <2>2
<1>5. job'[t].do = "log" => job'[t].code = FailureCode(keyed)
  <2>1. CASE Fail(t, keyed)
    <3>1. CASE End(t, FailureCode(keyed))
      <4> DEFINE c == FailureCode(keyed)
                 j == [job[t] EXCEPT !.do = "log", !.code = c]
      <4> HIDE DEF c
      <4>1. job' = [job EXCEPT ![t] = j] /\ j.code = c
        BY <1>1, <3>1 DEF End, Job, c
      <4> HIDE DEF j
      <4> QED BY <1>1, <4>1 DEF c
    <3>2. CASE job' = [job EXCEPT ![t].try = @ + 1]
      <4> DEFINE j == [job[t] EXCEPT !.try = job[t].try + 1]
      <4>1. job' = [job EXCEPT ![t] = j] /\ j.do = "call"
        BY <1>1, <3>2 DEF Job
      <4> HIDE DEF j
      <4> QED BY <1>1, <4>1
    <3> QED BY <2>1, <3>1, <3>2 DEF Fail
  <2>2. ASSUME NEW r \in Replies,
               job' = [job EXCEPT ![t] = [job[t] EXCEPT !.reply = r, !.do = "scanReply"]]
        PROVE  job'[t].do # "log"
    <3> DEFINE j == [job[t] EXCEPT !.reply = r, !.do = "scanReply"]
    <3>1. job' = [job EXCEPT ![t] = j] /\ j.do = "scanReply"
      BY <1>1, <2>2 DEF Job
    <3> HIDE DEF j
    <3> QED BY <1>1, <3>1
  <2> QED BY <1>2, <2>1, <2>2
<1> QED BY <1>3, <1>4, <1>5 DEF FailureCode

\* No other step blames a provider.
LEMMA OtherFailure ==
  ASSUME TypeInv, NEW t \in Thread, Work(t) /\ ~CallProvider(t),
         job'[t].do \in {"log", "alarm"}, job'[t].code = "provider_failed"
  PROVE  job[t].do = "log" /\ job[t].code = "provider_failed" /\ job'[t].id = job[t].id
<1>1. job \in [Thread -> Job] /\ job[t] \in Job /\ Idle.do = "idle"
  BY IdleJob DEF TypeInv, TypeOK
<1>2. job[t].building => job[t].do \in {"scan", "scanReply"}
  BY DEF TypeInv, Numbered
<1>3. CASE BeginAnalyzer(t) \/ EndAnalyzer(t)
  BY <1>1, <1>2, <1>3 DEF BeginAnalyzer, EndAnalyzer, Scanning, Job
<1>4. CASE ScanPrompt(t) \/ ScanReply(t)
  BY <1>1, <1>4 DEF ScanPrompt, ScanReply, Job
<1>5. CASE Notice(t)
  BY <1>1, <1>5 DEF Notice, Goto, Job
<1>6. CASE Judge(t)
  BY <1>1, <1>6 DEF Judge, Admission, Goto, End, Job
<1>7. CASE CheckOutput(t)
  BY <1>1, <1>7 DEF CheckOutput, End, Job
<1>8. CASE LogCall(t) \/ Alarm(t) \/ Raise(t)
  BY <1>1, <1>8 DEF LogCall, Alarm, Raise, Goto, Answer, Job
<1> QED BY <1>3, <1>4, <1>5, <1>6, <1>7, <1>8 DEF Work

LEMMA FailedNext == TypeInv /\ FailedInv /\ [Next]_vars => FailedInv'
<1> SUFFICES ASSUME TypeInv, FailedInv, [Next]_vars PROVE FailedInv'
  OBVIOUS
<1>1. job \in [Thread -> Job] /\ rows \in Seq(Row) /\ calls \in [Id -> 0..2]
  BY DEF TypeInv, TypeOK
<1>2. \A r \in DOMAIN rows : rows[r].id \in Id
  <2>1. \A r \in DOMAIN rows : rows[r] \in Row
    BY <1>1
  <2> QED BY <2>1 DEF Row
<1>3. ASSUME NEW t \in Thread, Serve(t) PROVE FailedInv'
  <2>1. /\ \A s \in Thread \ {t} : job'[s] = job[s]
        /\ UNCHANGED rows /\ job'[t].id = job[t].id /\ job[t].do # "log"
    BY <1>3, ServeMoves
  <2>2. \A i \in Id : calls[i] > 0 => calls'[i] > 0
    <3>1. CASE CallProvider(t)
      BY <3>1, CallFailure
    <3>2. CASE Judge(t)
      BY <3>2 DEF Judge
    <3>3. CASE ~CallProvider(t) /\ ~Judge(t)
      BY <1>3, <3>3, OtherMoves DEF Serve, Work
    <3> QED BY <3>1, <3>2, <3>3
  <2>3. job'[t].do \in {"log", "alarm"} /\ job'[t].code = "provider_failed"
          => calls'[job'[t].id] > 0
    <3>1. CASE CallProvider(t)
      BY <2>1, <3>1, CallMoves, CallFailure
    <3>2. CASE ~CallProvider(t)
      BY <1>3, <2>1, <3>2, OtherFailure DEF Serve, Work
    <3> QED BY <3>1, <3>2
  <2>4. \A s \in Thread : job[s].do # "idle" => job[s].id \in Id
    BY ServedRequest
  <2>5. FailureMeansCalled'
    BY <1>2, <2>1, <2>2 DEF FailedInv, FailureMeansCalled
  <2> QED BY <2>1, <2>2, <2>3, <2>4, <2>5 DEF FailedInv
<1>4. ASSUME NEW t \in Thread, LogCall(t) \/ Alarm(t) \/ Raise(t) PROVE FailedInv'
  <2>1. UNCHANGED calls /\ \A s \in Thread \ {t} : job'[s] = job[s]
    BY <1>1, <1>4 DEF LogCall, Alarm, Raise, Goto, Answer
  <2>2. job'[t].do \in {"log", "alarm"} /\ job'[t].code = "provider_failed"
          => calls'[job'[t].id] > 0
    <3> SUFFICES ASSUME job'[t].do \in {"log", "alarm"}, job'[t].code = "provider_failed"
                 PROVE  calls'[job'[t].id] > 0
      OBVIOUS
    <3>1. ~CallProvider(t)
      BY <1>4 DEF CallProvider, LogCall, Alarm, Raise, Scanning
    <3>2. job[t].do = "log" /\ job[t].code = "provider_failed" /\ job'[t].id = job[t].id
      BY <1>4, <3>1, OtherFailure DEF Work
    <3> QED BY <2>1, <3>2 DEF FailedInv
  <2>3. FailureMeansCalled'
    <3>1. CASE UNCHANGED rows
      BY <2>1, <3>1 DEF FailedInv, FailureMeansCalled
    <3>2. CASE LogCall(t)
      <4> DEFINE row == NewRow(job[t])
      <4>1. job[t] \in Job /\ job[t].id \in Id /\ job[t].do = "log"
        BY <3>2, ServedRequest DEF LogCall
      <4>2. row \in Row /\ row.id = job[t].id /\ row.code = job[t].code
        BY <4>1, RowType
      <4> HIDE DEF row
      <4>3. rows' = Append(rows, row)
        BY <3>2 DEF LogCall, row
      <4>4. \A r \in DOMAIN rows' : rows'[r] = row \/ (r \in DOMAIN rows /\ rows'[r] = rows[r])
        BY <1>1, <4>2, <4>3
      <4> QED BY <2>1, <4>1, <4>2, <4>4 DEF FailedInv, FailureMeansCalled
    <3> QED BY <1>4, <3>1, <3>2 DEF Alarm, Raise
  <2> QED BY <2>1, <2>2, <2>3 DEF FailedInv
<1>5. ASSUME NEW t \in Thread, NEW q \in Requests, Receive(t, q) PROVE FailedInv'
  <2> DEFINE s == IF q.big THEN "log" ELSE "scan"
             c == IF q.big THEN "input_too_large" ELSE "ok"
             j == [Idle EXCEPT !.id = Len(asked) + 1, !.do = s, !.code = c]
  <2>1. c # "provider_failed"
    OBVIOUS
  <2>2. UNCHANGED <<rows, calls>> /\ job' = [job EXCEPT ![t] = j]
    BY <1>5 DEF Receive
  <2> HIDE DEF c, s
  <2>3. j.code = c
    BY DEF Idle
  <2> HIDE DEF j
  <2> QED BY <1>1, <2>1, <2>2, <2>3 DEF FailedInv, FailureMeansCalled
<1>6. CASE UNCHANGED vars
  BY <1>6 DEF vars, FailedInv, FailureMeansCalled
<1> QED BY <1>3, <1>4, <1>5, <1>6 DEF Next, Work, Serve

\* "Key was present but the provider rejected the call" (docs/PROVIDERS.md): a request
\* is logged as provider_failed only after a provider was called for it.
THEOREM NoBlameWithoutCall == Spec => []FailureMeansCalled
<1>1. Init => FailedInv
  BY IdleJob DEF Init, FailedInv, FailureMeansCalled
<1>2. FailedInv => FailureMeansCalled
  BY DEF FailedInv
<1> QED BY <1>1, <1>2, FailedNext, TypeInvAlways, PTL DEF Spec

-----------------------------------------------------------------------------
(* The log and the events                                                  *)

\* The events that were written or lost.
Raised == events \cup lost

LEMMA RecordRaises ==
  ASSUME NEW e, Record(e)
  PROVE  Raised' = Raised \cup {e} /\ events' \in {events, events \cup {e}}
  BY DEF Record, AfterRecording, Raised

LEMMA SilentSteps ==
  ASSUME NEW t \in Thread, Work(t) /\ ~Notice(t) /\ ~Alarm(t)
  PROVE  UNCHANGED <<events, lost>>
  BY DEF Work, BeginAnalyzer, EndAnalyzer, ScanPrompt, Judge, CallProvider, ScanReply,
         CheckOutput, LogCall, Raise

AlarmInv == AlarmsAgree /\ \A t \in Thread : job[t].do = "alarm" => job[t].code \in Blocked

LEMMA AlarmNext == TypeInv /\ LogInv /\ AlarmInv /\ [Next]_vars => AlarmInv'
<1> SUFFICES ASSUME TypeInv, LogInv, AlarmInv, [Next]_vars PROVE AlarmInv'
  OBVIOUS
<1>1. ASSUME NEW t \in Thread, Serve(t) PROVE AlarmInv'
  <2>1. /\ \A s \in Thread \ {t} : job'[s] = job[s]
        /\ UNCHANGED rows
        /\ job[t].do # "alarm" /\ job'[t].do # "alarm"
    BY <1>1, ServeMoves
  <2>2. /\ events \subseteq events' /\ Raised \subseteq Raised'
        /\ \A e \in events' \ events : e.type = "policy_violation"
    <3>1. CASE Notice(t)
      <4>1. PICK e : Record(e) /\ e.type = "policy_violation"
        BY <3>1 DEF Notice, InboundEvent, OutboundEvent
      <4> QED BY <4>1, RecordRaises
    <3>2. CASE ~Notice(t)
      <4>1. UNCHANGED <<events, lost>>
        BY <1>1, <3>2, SilentSteps DEF Serve, Work, Alarm, BeginAnalyzer, EndAnalyzer,
           ScanPrompt, Judge, CallProvider, ScanReply, CheckOutput
      <4> QED BY <4>1 DEF Raised
    <3> QED BY <3>1, <3>2
  <2> QED BY <2>1, <2>2 DEF AlarmInv, AlarmsAgree, Reported, Raised
<1>2. ASSUME NEW t \in Thread, LogCall(t) PROVE AlarmInv'
  <2>1. PICK n, row : /\ row.id = job[t].id /\ row.code = job[t].code
                      /\ DOMAIN rows' = DOMAIN rows \cup {n}
                      /\ rows'[n] = row /\ \A r \in DOMAIN rows : rows'[r] = rows[r]
    BY <1>2, LogRows
  <2>2. /\ job[t].do = "log" /\ \A s \in Thread \ {t} : job'[s] = job[s]
        /\ UNCHANGED <<events, lost>>
        /\ \/ /\ job[t].code \in Blocked /\ job'[t].do = "alarm"
              /\ job'[t].id = job[t].id /\ job'[t].code = job[t].code
           \/ job[t].code \notin Blocked /\ job'[t].do = "idle"
    BY <1>2, LogMoves
  <2> QED BY <2>1, <2>2 DEF AlarmInv, AlarmsAgree, Reported
<1>3. ASSUME NEW t \in Thread, Alarm(t) PROVE AlarmInv'
  <2>1. PICK e : e = AlarmEvent(job[t].id, job[t].code)
    OBVIOUS
  <2>2. /\ Raised' = Raised \cup {e} /\ events' \in {events, events \cup {e}}
        /\ UNCHANGED rows /\ job[t].do = "alarm" /\ job[t].code \in Blocked
    BY <1>3, <2>1, RecordRaises DEF Alarm, AlarmInv
  <2>3. \A s \in Thread \ {t} : job'[s] = job[s]
    BY <1>3, AnswerMoves DEF Alarm
  <2>4. job'[t].do = "idle"
    BY <1>3, AnswerMoves DEF Alarm
  <2>5. PICK n \in DOMAIN rows : rows[n].id = job[t].id /\ rows[n].code = job[t].code
    BY <2>2 DEF LogInv, Logged, HasRow
  <2>6. \A r \in DOMAIN rows : rows[r].id = job[t].id => r = n
    BY <2>5 DEF LogInv, RowsFollow
  <2>7. e = AlarmEvent(rows[n].id, rows[n].code)
    BY <2>1, <2>5
  <2> QED BY <2>2, <2>3, <2>4, <2>5, <2>6, <2>7 DEF AlarmInv, AlarmsAgree, Reported, Raised
<1>4. ASSUME NEW t \in Thread, Raise(t) PROVE AlarmInv'
  <2>1. job[t].do \notin {"idle", "alarm"} /\ UNCHANGED <<rows, events, lost>>
    BY <1>4 DEF Raise, Scanning
  <2>2. job'[t].do = "idle" /\ \A s \in Thread \ {t} : job'[s] = job[s]
    BY <1>4, <2>1, AnswerMoves DEF Raise
  <2> QED BY <2>1, <2>2 DEF AlarmInv, AlarmsAgree, Reported
<1>5. ASSUME NEW t \in Thread, NEW q \in Requests, Receive(t, q) PROVE AlarmInv'
  <2>1. /\ \A s \in Thread \ {t} : job'[s] = job[s]
        /\ job[t].do = "idle" /\ job'[t].do \in {"log", "scan"}
        /\ UNCHANGED <<rows, events, lost>>
    BY <1>5, ReceiveMoves DEF Receive
  <2> QED BY <2>1 DEF AlarmInv, AlarmsAgree, Reported
<1>6. CASE UNCHANGED vars
  BY <1>6 DEF vars, AlarmInv, AlarmsAgree, Reported
<1> QED BY <1>1, <1>2, <1>3, <1>4, <1>5, <1>6 DEF Next, Work, Serve

\* Log and monitoring tell the same story: a request is logged as blocked if and only if
\* it was reported as blocked, about to be, or its report was lost.
THEOREM AlarmsAreHonest == Spec => []AlarmsAgree
<1>1. Init => AlarmInv
  BY IdleJob DEF Init, AlarmInv, AlarmsAgree
<1>2. AlarmInv => AlarmsAgree
  BY DEF AlarmInv
<1> QED BY <1>1, <1>2, AlarmNext, TypeInvAlways, LogInvAlways, PTL DEF Spec

-----------------------------------------------------------------------------
(* What log and events name                                                *)

\* The PII that a set of events names for a request.
Named(S, i) == UNION {e.types : e \in {x \in S : x.id = i}}

\* What the events of a request name by the time its thread is where j says.
Said(j) ==
  IF j.do \in {"scan", "notice"} THEN {}
  ELSE IF j.do \in {"judge", "call", "scanReply", "noticeReply"} THEN j.inbound
  ELSE j.inbound \cup j.outbound

Fits(j, named) ==
  /\ j.do \in {"scan", "notice", "judge", "call", "scanReply"} => j.outbound = {}
  /\ named = Said(j)

NamedInv ==
  /\ \A t \in Thread : Busy(t) => Fits(job[t], Named(Raised, job[t].id))
  /\ \A i \in Id \ DOMAIN asked : Named(Raised, i) = {}
  /\ \A r \in DOMAIN rows : rows[r].types = Named(Raised, rows[r].id)

LEMMA NamedAdd ==
  ASSUME NEW S, NEW e, NEW i
  PROVE  Named(S \cup {e}, i) = Named(S, i) \cup IF e.id = i THEN e.types ELSE {}
  BY DEF Named

\* A busy thread goes on, or answers, and may raise an event about its request.
LEMMA NamedStep ==
  ASSUME TypeInv, LogInv, NamedInv, NEW t \in Thread, Busy(t), NEW j, NEW K,
         job' = [job EXCEPT ![t] = j], Raised' = K, UNCHANGED <<asked, rows>>,
         j.do # "idle" => j.id = job[t].id /\ Fits(j, Named(K, job[t].id)),
         \A i \in Id \ {job[t].id} : Named(K, i) = Named(Raised, i),
         job[t].do = "alarm" => Named(K, job[t].id) = Named(Raised, job[t].id)
  PROVE  NamedInv'
<1>1. job \in [Thread -> Job] /\ rows \in Seq(Row)
  BY DEF TypeInv, TypeOK
<1>2. job'[t] = j /\ \A s \in Thread \ {t} : job'[s] = job[s]
  BY <1>1
<1>3. \A s \in Thread : Busy(s) => job[s].id \in Id /\ job[s].id \in DOMAIN asked
  BY ServedRequest DEF Busy, TypeInv, Numbered
<1>4. \A s \in Thread : Busy(s)' => Fits(job'[s], Named(Raised', job'[s].id))
  <2>1. ASSUME NEW s \in Thread, s # t, Busy(s)
        PROVE  Fits(job[s], Named(K, job[s].id))
    BY <1>3, <2>1 DEF NamedInv, LogInv, Distinct
  <2> QED BY <1>2, <2>1 DEF Busy
<1>5. \A i \in Id \ DOMAIN asked : Named(K, i) = {}
  BY <1>3 DEF NamedInv
<1>6. \A r \in DOMAIN rows : rows[r].types = Named(K, rows[r].id)
  <2>1. \A r \in DOMAIN rows : rows[r].id \in Id
    <3>1. \A r \in DOMAIN rows : rows[r] \in Row
      BY <1>1
    <3> QED BY <3>1 DEF Row
  <2>2. \A r \in DOMAIN rows : rows[r].id = job[t].id => job[t].do = "alarm"
    BY DEF LogInv, RowsFollow
  <2> QED BY <2>1, <2>2 DEF NamedInv
<1> QED BY <1>4, <1>5, <1>6 DEF NamedInv

\* The same for a step that raises no event.
LEMMA QuietStep ==
  ASSUME TypeInv, LogInv, NamedInv, NEW t \in Thread, Busy(t), NEW j,
         job' = [job EXCEPT ![t] = j], UNCHANGED <<asked, rows, events, lost>>,
         j.do # "idle" => j.id = job[t].id /\ Fits(j, Said(job[t]))
  PROVE  NamedInv'
<1>1. PICK K : K = Raised
  OBVIOUS
<1>2. Raised' = K
  BY <1>1 DEF Raised
<1>3. Named(K, job[t].id) = Said(job[t])
  BY <1>1 DEF NamedInv, Fits
<1> QED BY <1>1, <1>2, <1>3, NamedStep

LEMMA ScanNamed ==
  ASSUME TypeInv, LogInv, NamedInv, NEW t \in Thread,
         BeginAnalyzer(t) \/ EndAnalyzer(t) \/ ScanPrompt(t) \/ ScanReply(t)
  PROVE  NamedInv'
<1>1. /\ job[t].do \in {"scan", "scanReply"} /\ Busy(t) /\ job[t] \in Job
      /\ UNCHANGED <<asked, rows, events, lost>>
  BY ServedRequest DEF BeginAnalyzer, EndAnalyzer, ScanPrompt, ScanReply, Scanning, TypeInv,
     Numbered, Busy
<1>2. job[t].outbound = {}
  BY <1>1 DEF NamedInv, Fits
<1>3. CASE BeginAnalyzer(t) \/ EndAnalyzer(t)
  <2>1. PICK b : job' = [job EXCEPT ![t] = [job[t] EXCEPT !.building = b]]
    BY <1>3 DEF BeginAnalyzer, EndAnalyzer
  <2>2. PICK j : j = [job[t] EXCEPT !.building = b]
    OBVIOUS
  <2>3. j.do = job[t].do /\ j.id = job[t].id /\ j.inbound = job[t].inbound /\ j.outbound = {}
    BY <1>1, <1>2, <2>2 DEF Job
  <2> QED BY <1>1, <2>1, <2>2, <2>3, QuietStep DEF Fits, Said
<1>4. CASE ScanPrompt(t)
  <2>1. PICK f : f = Found(Req(t).text)
    OBVIOUS
  <2>2. PICK s : s = IF f = {} THEN "judge" ELSE "notice"
    OBVIOUS
  <2>3. PICK j : j = [job[t] EXCEPT !.inbound = f, !.do = s]
    OBVIOUS
  <2>4. job' = [job EXCEPT ![t] = j] /\ job[t].do = "scan"
    BY <1>4, <2>1, <2>2, <2>3 DEF ScanPrompt
  <2>5. j.do = s /\ j.id = job[t].id /\ j.inbound = f /\ j.outbound = {}
    BY <1>1, <1>2, <2>3 DEF Job
  <2> QED BY <1>1, <2>2, <2>4, <2>5, QuietStep DEF Fits, Said
<1>5. CASE ScanReply(t)
  <2>1. PICK f : f = Found(job[t].reply.text)
    OBVIOUS
  <2>2. PICK s : s = IF f = {} THEN "check" ELSE "noticeReply"
    OBVIOUS
  <2>3. PICK j : j = [job[t] EXCEPT !.outbound = f, !.do = s]
    OBVIOUS
  <2>4. job' = [job EXCEPT ![t] = j] /\ job[t].do = "scanReply"
    BY <1>5, <2>1, <2>2, <2>3 DEF ScanReply
  <2>5. j.do = s /\ j.id = job[t].id /\ j.inbound = job[t].inbound /\ j.outbound = f
    BY <1>1, <2>3 DEF Job
  <2> QED BY <1>1, <2>2, <2>4, <2>5, QuietStep DEF Fits, Said
<1> QED BY <1>3, <1>4, <1>5

LEMMA NoticeNamed ==
  ASSUME TypeInv, LogInv, NamedInv, NEW t \in Thread, Notice(t)
  PROVE  NamedInv'
<1>1. /\ job[t].do \in {"notice", "noticeReply"} /\ Busy(t)
      /\ job[t] \in Job /\ job[t].id \in Id /\ UNCHANGED <<asked, rows>>
  BY ServedRequest DEF Notice, Busy
<1>2. Fits(job[t], Named(Raised, job[t].id))
  BY <1>1 DEF NamedInv
<1>3. \E e, s : /\ Record(e) /\ e.id = job[t].id /\ Goto(t, s)
                /\ \/ job[t].do = "notice" /\ s = "judge" /\ e.types = job[t].inbound
                   \/ job[t].do = "noticeReply" /\ s = "check" /\ e.types = job[t].outbound
  <2>1. /\ InboundEvent(job[t].id, job[t].inbound).id = job[t].id
        /\ InboundEvent(job[t].id, job[t].inbound).types = job[t].inbound
    BY DEF InboundEvent
  <2>2. /\ OutboundEvent(job[t].id, job[t].outbound).id = job[t].id
        /\ OutboundEvent(job[t].id, job[t].outbound).types = job[t].outbound
    BY DEF OutboundEvent
  <2> QED BY <2>1, <2>2 DEF Notice
<1>4. PICK e, s : /\ Record(e) /\ e.id = job[t].id /\ Goto(t, s)
                  /\ \/ job[t].do = "notice" /\ s = "judge" /\ e.types = job[t].inbound
                     \/ job[t].do = "noticeReply" /\ s = "check" /\ e.types = job[t].outbound
  BY <1>3
<1>5. PICK K : K = Raised \cup {e}
  OBVIOUS
<1>6. Raised' = K
  BY <1>4, <1>5, RecordRaises
<1>7. \A i : Named(K, i) = Named(Raised, i) \cup IF e.id = i THEN e.types ELSE {}
  BY <1>5, NamedAdd
<1>8. PICK j : j = [job[t] EXCEPT !.do = s]
  OBVIOUS
<1>9. job' = [job EXCEPT ![t] = j]
  BY <1>4, <1>8 DEF Goto
<1>10. /\ j.do = s /\ j.id = job[t].id
       /\ j.inbound = job[t].inbound /\ j.outbound = job[t].outbound
  BY <1>1, <1>8 DEF Job
<1>11. Fits(j, Named(K, job[t].id))
  <2>1. CASE job[t].do = "notice"
    BY <1>2, <1>4, <1>7, <1>10, <2>1 DEF Fits, Said
  <2>2. CASE job[t].do = "noticeReply"
    BY <1>2, <1>4, <1>7, <1>10, <2>2 DEF Fits, Said
  <2> QED BY <1>1, <2>1, <2>2
<1>12. \A i \in Id \ {job[t].id} : Named(K, i) = Named(Raised, i)
  BY <1>4, <1>7
<1> QED BY <1>1, <1>6, <1>9, <1>10, <1>11, <1>12, NamedStep

LEMMA ServeNamed ==
  ASSUME TypeInv, LogInv, NamedInv, NEW t \in Thread,
         Judge(t) \/ CallProvider(t) \/ CheckOutput(t)
  PROVE  NamedInv'
<1>1. /\ job[t].do \in {"judge", "call", "check"} /\ Busy(t) /\ job[t] \in Job
      /\ UNCHANGED <<asked, rows, events, lost>>
  BY ServedRequest DEF Judge, CallProvider, CheckOutput, Busy
<1>2. job[t].do # "check" => job[t].outbound = {}
  BY <1>1 DEF NamedInv, Fits
<1> DEFINE Onward(j) ==
             /\ job' = [job EXCEPT ![t] = j] /\ j.id = job[t].id
             /\ j.inbound = job[t].inbound /\ j.outbound = job[t].outbound
             /\ \/ j.do = "log"
                \/ job[t].do # "check" /\ j.do \in {"call", "scanReply"}
<1>3. \E j : Onward(j)
  <2>1. \A n : LET j == [job[t] EXCEPT !.try = n]
               IN  /\ j.id = job[t].id /\ j.do = job[t].do
                   /\ j.inbound = job[t].inbound /\ j.outbound = job[t].outbound
    BY <1>1 DEF Job
  <2>2. \A c : LET j == [job[t] EXCEPT !.do = "log", !.code = c]
               IN  /\ j.id = job[t].id /\ j.do = "log"
                   /\ j.inbound = job[t].inbound /\ j.outbound = job[t].outbound
    BY <1>1 DEF Job
  <2>3. \A r : LET j == [job[t] EXCEPT !.reply = r, !.do = "scanReply"]
               IN  /\ j.id = job[t].id /\ j.do = "scanReply"
                   /\ j.inbound = job[t].inbound /\ j.outbound = job[t].outbound
    BY <1>1 DEF Job
  <2>4. LET j == [job[t] EXCEPT !.do = "call"]
        IN  /\ j.id = job[t].id /\ j.do = "call"
            /\ j.inbound = job[t].inbound /\ j.outbound = job[t].outbound
    BY <1>1 DEF Job
  <2>5. \/ \E c : job' = [job EXCEPT ![t] = [job[t] EXCEPT !.do = "log", !.code = c]]
        \/ /\ job[t].do = "judge"
           /\ job' = [job EXCEPT ![t] = [job[t] EXCEPT !.do = "call"]]
        \/ /\ job[t].do = "call"
           /\ \/ \E n : job' = [job EXCEPT ![t] = [job[t] EXCEPT !.try = n]]
              \/ \E r : job' = [job EXCEPT ![t] =
                                 [job[t] EXCEPT !.reply = r, !.do = "scanReply"]]
    <3>1. job \in [Thread -> Job]
      BY DEF TypeInv, TypeOK
    <3>2. CASE Judge(t)
      BY <3>1, <3>2 DEF Judge, Admission, Goto, End
    <3>3. CASE CallProvider(t)
      BY <3>1, <3>3 DEF CallProvider, Fail, End
    <3>4. CASE CheckOutput(t)
      BY <3>1, <3>4 DEF CheckOutput, End
    <3> QED BY <3>2, <3>3, <3>4
  <2>6. ASSUME NEW c, job' = [job EXCEPT ![t] = [job[t] EXCEPT !.do = "log", !.code = c]]
        PROVE  \E j : Onward(j)
    <3>1. PICK j : j = [job[t] EXCEPT !.do = "log", !.code = c]
      OBVIOUS
    <3>2. /\ j.id = job[t].id /\ j.do = "log"
          /\ j.inbound = job[t].inbound /\ j.outbound = job[t].outbound
      BY <2>2, <3>1
    <3> QED BY <2>6, <3>1, <3>2
  <2>7. ASSUME job[t].do = "judge", job' = [job EXCEPT ![t] = [job[t] EXCEPT !.do = "call"]]
        PROVE  \E j : Onward(j)
    BY <1>1, <2>4, <2>7
  <2>8. ASSUME NEW n, job[t].do = "call", job' = [job EXCEPT ![t] = [job[t] EXCEPT !.try = n]]
        PROVE  \E j : Onward(j)
    BY <2>1, <2>8
  <2>9. ASSUME NEW r, job[t].do = "call",
               job' = [job EXCEPT ![t] = [job[t] EXCEPT !.reply = r, !.do = "scanReply"]]
        PROVE  \E j : Onward(j)
    BY <2>3, <2>9
  <2> QED BY <2>5, <2>6, <2>7, <2>8, <2>9
<1>4. PICK j : Onward(j)
  BY <1>3
<1> QED BY <1>1, <1>2, <1>4, QuietStep DEF Fits, Said

LEMMA LogNamed ==
  ASSUME TypeInv, LogInv, NamedInv, NEW t \in Thread, LogCall(t)
  PROVE  NamedInv'
<1>1. PICK n, row : /\ row \in Row /\ row.id = job[t].id
                    /\ row.types = job[t].inbound \cup job[t].outbound
                    /\ DOMAIN rows' = DOMAIN rows \cup {n}
                    /\ rows'[n] = row /\ \A r \in DOMAIN rows : rows'[r] = rows[r]
  BY LogRows
<1>2. /\ job[t].do = "log" /\ Busy(t) /\ \A s \in Thread \ {t} : job'[s] = job[s]
      /\ UNCHANGED asked /\ UNCHANGED Raised
      /\ \/ /\ job'[t].do = "alarm" /\ job'[t].id = job[t].id
            /\ job'[t].inbound = job[t].inbound /\ job'[t].outbound = job[t].outbound
         \/ job'[t].do = "idle"
  BY LogMoves DEF Busy, Raised
<1>3. row.types = Named(Raised, row.id)
  BY <1>1, <1>2 DEF NamedInv, Fits, Said
<1>4. \A r \in DOMAIN rows' : rows'[r].types = Named(Raised, rows'[r].id)
  BY <1>1, <1>3 DEF NamedInv
<1>5. \A s \in Thread : Busy(s)' => Fits(job'[s], Named(Raised, job'[s].id))
  <2>1. job'[t].do # "idle" => Fits(job'[t], Named(Raised, job'[t].id))
    BY <1>2 DEF NamedInv, Fits, Said
  <2> QED BY <1>2, <2>1 DEF NamedInv, Busy
<1> QED BY <1>2, <1>4, <1>5 DEF NamedInv

LEMMA EndNamed ==
  ASSUME TypeInv, LogInv, NamedInv, NEW t \in Thread, Alarm(t) \/ Raise(t)
  PROVE  NamedInv'
<1>1. Busy(t) /\ job' = [job EXCEPT ![t] = Idle] /\ UNCHANGED <<asked, rows>>
  BY DEF Alarm, Raise, Answer, Scanning, Busy
<1>2. CASE Alarm(t)
  <2>1. PICK e : e = AlarmEvent(job[t].id, job[t].code)
    OBVIOUS
  <2>2. e.types = {}
    BY <2>1 DEF AlarmEvent
  <2>3. PICK K : K = Raised \cup {e}
    OBVIOUS
  <2>4. Raised' = K
    BY <1>2, <2>1, <2>3, RecordRaises DEF Alarm
  <2>5. \A i : Named(K, i) = Named(Raised, i) \cup IF e.id = i THEN e.types ELSE {}
    BY <2>3, NamedAdd
  <2>6. \A i : Named(K, i) = Named(Raised, i)
    BY <2>2, <2>5
  <2> QED BY <1>1, <2>4, <2>6, IdleJob, NamedStep
<1>3. CASE Raise(t)
  BY <1>1, <1>3, IdleJob, QuietStep DEF Raise
<1> QED BY <1>2, <1>3

LEMMA ReceiveNamed ==
  ASSUME TypeInv, LogInv, NamedInv, NEW t \in Thread, NEW q \in Requests, Receive(t, q)
  PROVE  NamedInv'
<1>1. PICK n : n = Len(asked) + 1
  OBVIOUS
<1>2. /\ n \in Id /\ n \notin DOMAIN asked /\ DOMAIN asked' = DOMAIN asked \cup {n}
      /\ \A s \in Thread \ {t} : job'[s] = job[s]
      /\ job'[t].id = n /\ job'[t].do \in {"log", "scan"}
      /\ UNCHANGED <<rows, Raised>>
  BY <1>1, ReceiveMoves DEF Receive, Raised
<1>3. job'[t].inbound = {} /\ job'[t].outbound = {}
  <2> DEFINE s == IF q.big THEN "log" ELSE "scan"
             c == IF q.big THEN "input_too_large" ELSE "ok"
             j == [Idle EXCEPT !.id = Len(asked) + 1, !.do = s, !.code = c]
  <2>1. job' = [job EXCEPT ![t] = j] /\ job \in [Thread -> Job]
    BY DEF Receive, TypeInv, TypeOK
  <2> HIDE DEF s, c
  <2>2. j.inbound = {} /\ j.outbound = {}
    BY DEF Idle
  <2> HIDE DEF j
  <2> QED BY <2>1, <2>2
<1>4. Named(Raised, n) = {}
  BY <1>2 DEF NamedInv
<1>5. \A s \in Thread : Busy(s)' => Fits(job'[s], Named(Raised, job'[s].id))
  <2>1. Fits(job'[t], Named(Raised, n))
    BY <1>2, <1>3, <1>4 DEF Fits, Said
  <2> QED BY <1>2, <2>1 DEF NamedInv, Busy
<1> QED BY <1>2, <1>5 DEF NamedInv

LEMMA NamedNext == TypeInv /\ LogInv /\ NamedInv /\ [Next]_vars => NamedInv'
<1> SUFFICES ASSUME TypeInv, LogInv, NamedInv, [Next]_vars PROVE NamedInv'
  OBVIOUS
<1>1. ASSUME NEW t \in Thread, Work(t) PROVE NamedInv'
  BY <1>1, ScanNamed, NoticeNamed, ServeNamed, LogNamed, EndNamed DEF Work
<1>2. ASSUME NEW t \in Thread, NEW q \in Requests, Receive(t, q) PROVE NamedInv'
  BY <1>2, ReceiveNamed
<1>3. CASE UNCHANGED vars
  BY <1>3 DEF vars, NamedInv, Busy, Raised
<1> QED BY <1>1, <1>2, <1>3 DEF Next

\* Log and monitoring name the same PII: what a row says was found, in the prompt or in
\* the reply, is what the events of its request say, but for events that were lost.
THEOREM DisclosuresAreReported == Spec => []DisclosuresReported
<1>1. Init => NamedInv
  BY IdleJob DEF Init, NamedInv, Busy, Raised, Named
<1>2. NamedInv => DisclosuresReported
  BY DEF NamedInv, DisclosuresReported, Named, Raised
<1> QED BY <1>1, <1>2, NamedNext, TypeInvAlways, LogInvAlways, PTL DEF Spec
-----------------------------------------------------------------------------
(* The abstract service                                                    *)

\* What the abstract service sees of the handler.
Owner == [i \in DOMAIN asked |-> asked[i].user]
Spending == [u \in User |-> counts[u]]
BookOf == [r \in DOMAIN rows |-> [id |-> rows[r].id, code |-> rows[r].code]]

LEMMA Listed ==
  ASSUME NEW T, NEW n \in Nat, NEW s \in [1..n -> T]
  PROVE  s \in Seq(T) /\ Len(s) = n
  OBVIOUS

LEMMA Appended ==
  ASSUME NEW T, NEW s \in Seq(T), NEW e \in T, NEW n \in Nat, Len(s) = n
  PROVE  Append(s, e) = [r \in 1..(n + 1) |-> IF r = n + 1 THEN e ELSE s[r]]
<1>1. PICK a : a = Append(s, e)
  OBVIOUS
<1>2. /\ a \in Seq(T) /\ Len(a) = n + 1 /\ n + 1 \in Nat
      /\ a[n + 1] = e /\ \A r \in 1..n : a[r] = s[r]
  BY <1>1
<1>3. a = [r \in 1..(n + 1) |-> a[r]]
  BY <1>2
<1>4. \A r \in 1..(n + 1) : r # n + 1 => r \in 1..n
  OBVIOUS
<1> QED BY <1>1, <1>2, <1>3, <1>4

\* A request a thread works on, until its row is written.
LEMMA UnderWayIs ==
  ASSUME TypeInv, LogInv, NEW t \in Thread, Busy(t), job[t].do # "alarm"
  PROVE  /\ Promised!UnderWay(job[t].id) /\ job[t].id \in Id /\ job[t].id \in DOMAIN asked
         /\ Req(t).user \in User /\ Owner[job[t].id] = Req(t).user
<1>1. job[t].id \in Id /\ job[t].id \in DOMAIN asked /\ Req(t) \in Request
  BY ServedRequest DEF Busy, TypeInv, Numbered
<1>2. \A r \in DOMAIN rows : rows[r].id # job[t].id
  BY DEF LogInv, RowsFollow
<1>3. answered[job[t].id] = "pending"
  BY DEF LogInv, Unanswered
<1>4. \A r \in DOMAIN BookOf : BookOf[r].id # job[t].id
  BY <1>2 DEF BookOf
<1>5. ~Promised!Booked(job[t].id)
  BY <1>4 DEF Promised!Booked, BookOf
<1>6. Promised!UnderWay(job[t].id)
  BY <1>1, <1>3, <1>5 DEF Promised!UnderWay
<1> QED BY <1>1, <1>6 DEF Owner, Req, Request

\* A request is charged for when its quota is looked at, and not before.
ChargedInv ==
  /\ charged \subseteq DOMAIN asked
  /\ \A t \in Thread : /\ job[t].do \in Early => job[t].id \notin charged
                       /\ Past(job[t]) => job[t].id \in charged

LEMMA ChargedNext == TypeInv /\ LogInv /\ ChargedInv /\ [Next]_vars => ChargedInv'
<1> SUFFICES ASSUME TypeInv, LogInv, ChargedInv, [Next]_vars PROVE ChargedInv'
  OBVIOUS
\* No step but Judge charges, and none but Judge brings a request past the quota.
<1>1. ASSUME NEW t \in Thread, UNCHANGED <<asked, charged>>,
             \A s \in Thread \ {t} : job'[s] = job[s],
             job'[t].do \in Early => job[t].do \in Early /\ job'[t].id = job[t].id,
             Past(job'[t]) => Past(job[t]) /\ job'[t].id = job[t].id
      PROVE  ChargedInv'
  BY <1>1 DEF ChargedInv
<1>2. ASSUME NEW t \in Thread, Judge(t) PROVE ChargedInv'
  <2>1. /\ \A s \in Thread \ {t} : job'[s] = job[s]
        /\ job[t].do = "judge" /\ job'[t].id = job[t].id /\ UNCHANGED asked
        /\ job[t].id \in DOMAIN asked
    BY <1>2, JudgeMoves DEF TypeInv, Numbered
  <2>2. CASE job'[t].do = "log" /\ job'[t].code \in Blocked /\ UNCHANGED charged
    BY <1>1, <2>1, <2>2 DEF Early, Past
  <2>3. CASE job'[t].do = "call" /\ charged' = charged \cup {job[t].id}
    <3>1. \A s \in Thread \ {t} : job[s].do \in Early => job[s].id # job[t].id
      BY <2>1 DEF LogInv, Distinct, Busy, Early
    <3>2. ASSUME NEW s \in Thread
          PROVE  /\ job'[s].do \in Early => job'[s].id \notin charged'
                 /\ Past(job'[s]) => job'[s].id \in charged'
      <4>1. CASE s = t
        BY <2>1, <2>3, <4>1 DEF Early
      <4>2. CASE s # t
        BY <2>1, <2>3, <3>1, <4>2 DEF ChargedInv
      <4> QED BY <4>1, <4>2
    <3> QED BY <2>1, <2>3, <3>2 DEF ChargedInv
  <2> QED BY <1>2, <2>2, <2>3, JudgeMoves
<1>3. ASSUME NEW t \in Thread, CallProvider(t) PROVE ChargedInv'
  <2>1. /\ \A s \in Thread \ {t} : job'[s] = job[s]
        /\ job'[t].id = job[t].id /\ job[t].do = "call" /\ UNCHANGED <<asked, charged>>
        /\ job'[t].do \in {"call", "log", "scanReply"}
    BY <1>3, CallMoves, CallCounts
  <2> QED BY <1>1, <2>1 DEF Early, Past
<1>4. ASSUME NEW t \in Thread, Work(t) /\ ~Judge(t) /\ ~CallProvider(t) PROVE ChargedInv'
  <2>1. /\ \A s \in Thread \ {t} : job'[s] = job[s]
        /\ UNCHANGED <<asked, charged>>
        /\ job'[t].do \in Early => job[t].do \in Early /\ job'[t].id = job[t].id
    BY <1>4, OtherMoves
  <2>2. Past(job'[t]) => Past(job[t]) /\ job'[t].id = job[t].id
    BY <1>4, PastMoves
  <2> QED BY <1>1, <2>1, <2>2
<1>5. ASSUME NEW t \in Thread, NEW q \in Requests, Receive(t, q) PROVE ChargedInv'
  <2>1. PICK n : /\ n \notin DOMAIN asked /\ DOMAIN asked' = DOMAIN asked \cup {n}
                 /\ \A s \in Thread \ {t} : job'[s] = job[s]
                 /\ job'[t].id = n /\ job'[t].do \in {"log", "scan"}
                 /\ job'[t].do = "log" => job'[t].code \in Blocked
    BY <1>5, ReceiveMoves DEF Blocked
  <2>2. UNCHANGED charged
    BY <1>5 DEF Receive
  <2>3. n \notin charged' /\ charged' \subseteq DOMAIN asked'
    BY <2>1, <2>2 DEF ChargedInv
  <2>4. ~Past(job'[t])
    BY <2>1 DEF Past
  <2> QED BY <2>1, <2>2, <2>3, <2>4 DEF ChargedInv
<1>6. CASE UNCHANGED vars
  BY <1>6 DEF vars, ChargedInv
<1> QED BY <1>2, <1>3, <1>4, <1>5, <1>6 DEF Next

LEMMA ChargedAlways == Spec => []ChargedInv
<1>1. Init => ChargedInv
  BY IdleJob DEF Init, ChargedInv, Early, Past
<1> QED BY <1>1, ChargedNext, TypeInvAlways, LogInvAlways, PTL DEF Spec

LEMMA JudgeImplements ==
  ASSUME TypeInv, TypeInv', LogInv, ChargedInv, NEW t \in Thread, Judge(t)
  PROVE  Promised!Next \/ UNCHANGED Promised!vars
<1>1. /\ job[t].do = "judge" /\ UNCHANGED <<asked, rows, answered>>
      /\ \/ UNCHANGED <<counts, charged>>
         \/ /\ charged' = charged \cup {job[t].id}
            /\ counts'[Req(t).user] = counts[Req(t).user] + 1
            /\ \A k \in (User \cup Session) \ {Req(t).user} : counts'[k] = counts[k]
  BY JudgeMoves DEF Judge
<1>2. Owner' = Owner /\ BookOf' = BookOf
  BY <1>1 DEF Owner, BookOf
<1>3. CASE UNCHANGED <<counts, charged>>
  BY <1>1, <1>2, <1>3 DEF Promised!vars, Owner, BookOf
<1>4. CASE /\ charged' = charged \cup {job[t].id}
           /\ counts'[Req(t).user] = counts[Req(t).user] + 1
           /\ \A k \in (User \cup Session) \ {Req(t).user} : counts'[k] = counts[k]
  <2>1. PICK i, u : i = job[t].id /\ u = Req(t).user
    OBVIOUS
  <2>2. /\ Promised!UnderWay(i) /\ i \in Id /\ u \in User /\ Owner[i] = u
    BY <1>1, <2>1, UnderWayIs DEF Busy
  <2>3. i \notin charged /\ charged' = charged \cup {i}
    BY <1>1, <1>4, <2>1 DEF ChargedInv, Early
  <2>4. counts[u] < Cap
    <3>1. counts[u] \in Nat /\ counts'[u] \in 0..Cap
      BY <2>2 DEF TypeInv, TypeOK
    <3> QED BY <1>4, <2>1, <3>1
  <2>5. Spending[u] = counts[u]
    BY <2>2 DEF Spending
  <2>6. Spending' = [Spending EXCEPT ![Owner[i]] = @ + 1]
    <3>1. PICK S : S = Spending
      OBVIOUS
    <3>2. S = [k \in User |-> counts[k]]
      BY <3>1 DEF Spending
    <3>3. Spending' = [k \in User |-> IF k = u THEN S[u] + 1 ELSE S[k]]
      BY <1>4, <2>1, <2>2, <3>2 DEF Spending
    <3>4. [S EXCEPT ![u] = @ + 1] = [k \in User |-> IF k = u THEN S[u] + 1 ELSE S[k]]
      BY <3>2
    <3> QED BY <2>2, <3>1, <3>3, <3>4
  <2>7. Spending[Owner[i]] < Cap
    BY <2>2, <2>4, <2>5
  <2>8. Promised!Charge(i)
    BY <1>1, <1>2, <2>2, <2>3, <2>6, <2>7 DEF Promised!Charge, Owner, Spending, BookOf
  <2> QED BY <2>2, <2>8 DEF Promised!Next
<1> QED BY <1>1, <1>3, <1>4

LEMMA LogImplements ==
  ASSUME TypeInv, LogInv, ChargedInv, NEW t \in Thread, LogCall(t)
  PROVE  Promised!Next
<1>1. PICK i, code, u : i = job[t].id /\ code = job[t].code /\ u = Req(t).user
  OBVIOUS
<1>2. /\ job[t].do = "log" /\ UNCHANGED <<asked, counts, charged>> /\ code \in Code
      /\ Busy(t) /\ job[t] \in Job
  BY <1>1, ServedRequest, JobFields DEF LogCall, Busy
<1>3. /\ Promised!UnderWay(i) /\ i \in Id /\ i \in DOMAIN asked /\ u \in User /\ Owner[i] = u
  BY <1>1, <1>2, UnderWayIs
<1>4. Owner' = Owner /\ Spending' = Spending
  BY <1>2 DEF Owner, Spending
<1>5. BookOf' = Append(BookOf, [id |-> i, code |-> code])
  <2>1. PICK row : row = NewRow(job[t])
    OBVIOUS
  <2>2. row.id = i /\ row.code = code /\ row \in Row
    BY <1>1, <1>2, <1>3, <2>1, RowType
  <2>3. rows \in Seq(Row) /\ rows' = Append(rows, row)
    BY <2>1 DEF LogCall, TypeInv, TypeOK
  <2>4. PICK n \in Nat : n = Len(rows) /\ DOMAIN rows = 1..n /\ DOMAIN rows' = 1..(n + 1)
    BY <2>2, <2>3
  <2>5. rows'[n + 1] = row /\ \A r \in 1..n : rows'[r] = rows[r]
    BY <2>2, <2>3, <2>4
  <2>6. PICK B : B = BookOf
    OBVIOUS
  <2>7. B \in Seq([id : Id, code : Code]) /\ Len(B) = n /\ DOMAIN B = 1..n
    <3>1. \A r \in 1..n : rows[r] \in Row
      BY <2>3, <2>4
    <3>2. B = [r \in 1..n |-> [id |-> rows[r].id, code |-> rows[r].code]]
      BY <2>4, <2>6 DEF BookOf
    <3>3. \A r \in 1..n : [id |-> rows[r].id, code |-> rows[r].code] \in [id : Id, code : Code]
      BY <3>1 DEF Row
    <3>4. B \in [1..n -> [id : Id, code : Code]] /\ DOMAIN B = 1..n
      BY <3>2, <3>3
    <3> QED BY <3>4, Listed
  <2>8. PICK e : e = [id |-> i, code |-> code]
    OBVIOUS
  <2>9. Append(B, e) = [r \in 1..(n + 1) |-> IF r = n + 1 THEN e ELSE B[r]]
    <3>1. e \in [id : Id, code : Code]
      BY <1>2, <1>3, <2>8
    <3>2. PICK T : T = [id : Id, code : Code]
      OBVIOUS
    <3>3. B \in Seq(T) /\ e \in T
      BY <2>7, <3>1, <3>2
    <3> QED BY <2>4, <2>7, <3>3, Appended
  <2>10. BookOf' = [r \in 1..(n + 1) |-> IF r = n + 1 THEN e ELSE B[r]]
    <3>1. \A r \in 1..(n + 1) : r # n + 1 => r \in 1..n
      OBVIOUS
    <3> QED BY <2>2, <2>4, <2>5, <2>6, <2>8, <3>1 DEF BookOf
  <2> QED BY <2>6, <2>8, <2>9, <2>10
<1>6. answered' \in {answered, [answered EXCEPT ![i] = code]}
  BY <1>1 DEF LogCall, Answer
<1>7. code \in Code \ Blocked => i \in charged
  BY <1>1, <1>2 DEF ChargedInv, Past
<1>8. Promised!Book(i, code)
  BY <1>2, <1>3, <1>4, <1>5, <1>6, <1>7 DEF Promised!Book, Owner, Spending, BookOf
<1>9. code \in Blocked \cup (Code \ Blocked)
  BY <1>2
<1> QED BY <1>3, <1>8, <1>9 DEF Promised!Next

LEMMA EndImplements ==
  ASSUME TypeInv, LogInv, NEW t \in Thread, Alarm(t) \/ Raise(t)
  PROVE  Promised!Next
<1>1. /\ UNCHANGED <<asked, counts, charged, rows>> /\ Busy(t) /\ job[t].id \in Id
      /\ Owner' = Owner /\ Spending' = Spending /\ BookOf' = BookOf
  BY ServedRequest DEF Alarm, Raise, Scanning, Busy, Owner, Spending, BookOf
<1>2. CASE Alarm(t)
  <2>1. /\ answered' = [answered EXCEPT ![job[t].id] = job[t].code]
        /\ answered[job[t].id] = "pending"
    BY <1>1, <1>2 DEF Alarm, Answer, LogInv, Unanswered
  <2>2. PICK r \in DOMAIN rows : rows[r].id = job[t].id /\ rows[r].code = job[t].code
    BY <1>2 DEF Alarm, LogInv, Logged, HasRow
  <2>3. /\ r \in DOMAIN BookOf /\ BookOf[r].id = job[t].id /\ BookOf[r].code = job[t].code
    BY <2>2 DEF BookOf
  <2>4. Promised!Answer(job[t].id)
    BY <1>1, <2>1, <2>3 DEF Promised!Answer, Owner, Spending, BookOf
  <2> QED BY <1>1, <2>4 DEF Promised!Next
<1>3. CASE Raise(t)
  <2>1. answered' = [answered EXCEPT ![job[t].id] = "crashed"] /\ job[t].do # "alarm"
    BY <1>3 DEF Raise, Answer, Scanning
  <2>2. Promised!UnderWay(job[t].id)
    BY <1>1, <2>1, UnderWayIs
  <2>3. Promised!Fail(job[t].id)
    BY <1>1, <2>1, <2>2 DEF Promised!Fail, Owner, Spending, BookOf
  <2> QED BY <1>1, <2>3 DEF Promised!Next
<1> QED BY <1>2, <1>3

LEMMA ReceiveImplements ==
  ASSUME TypeInv, NEW t \in Thread, NEW q \in Requests, Receive(t, q)
  PROVE  Promised!Next
<1>1. /\ UNCHANGED <<counts, charged, rows, answered>> /\ asked \in Seq(Requests)
      /\ asked' = Append(asked, q) /\ Len(asked) < MaxRequests /\ q.user \in User
  BY DEF Receive, TypeInv, TypeOK, Request
<1>2. Spending' = Spending /\ BookOf' = BookOf
  BY <1>1 DEF Spending, BookOf
<1>3. PICK n \in Nat : n = Len(asked) /\ DOMAIN asked = 1..n /\ DOMAIN asked' = 1..(n + 1)
                       /\ n + 1 \in Id
  BY <1>1 DEF Id
<1>4. asked'[n + 1] = q /\ \A i \in 1..n : asked'[i] = asked[i]
  BY <1>1, <1>3
<1>5. PICK A : A = Owner
  OBVIOUS
<1>6. A \in Seq(User) /\ Len(A) = n /\ DOMAIN A = 1..n
  <2>1. \A i \in 1..n : asked[i].user \in User
    BY <1>1, <1>3 DEF Request
  <2>2. A \in [1..n -> User]
    BY <1>3, <1>5, <2>1 DEF Owner
  <2> QED BY <1>3, <2>2
<1>7. Owner' = Append(A, q.user)
  <2>1. \A i \in 1..(n + 1) : i # n + 1 => i \in 1..n
    OBVIOUS
  <2>2. Append(A, q.user) = [i \in 1..(n + 1) |-> IF i = n + 1 THEN q.user ELSE A[i]]
    BY <1>1, <1>6, Appended
  <2>3. Owner' = [i \in 1..(n + 1) |-> IF i = n + 1 THEN q.user ELSE A[i]]
    BY <1>3, <1>4, <1>5, <2>1 DEF Owner
  <2> QED BY <2>2, <2>3
<1>8. Promised!Ask(q.user)
  BY <1>1, <1>2, <1>3, <1>5, <1>6, <1>7 DEF Promised!Ask, Owner, Spending, BookOf
<1> QED BY <1>1, <1>8 DEF Promised!Next

\* The handler implements the abstract service: its clients, the log and the bill see
\* nothing of the guardrails, the providers and the other threads.
THEOREM ServiceImplemented == Spec => ImplementsService
<1>1. Init => Promised!Init
  BY DEF Init, Promised!Init
<1>2. ASSUME TypeInv, TypeInv', LogInv, ChargedInv, [Next]_vars
      PROVE  Promised!Next \/ UNCHANGED Promised!vars
  <2>1. ASSUME UNCHANGED <<asked, counts, charged, rows, answered>>
        PROVE  UNCHANGED Promised!vars
    BY <2>1 DEF Promised!vars
  <2>2. ASSUME NEW t \in Thread, Work(t) PROVE Promised!Next \/ UNCHANGED Promised!vars
    <3>1. CASE Judge(t)
      BY <1>2, <3>1, JudgeImplements
    <3>2. CASE LogCall(t)
      BY <1>2, <3>2, LogImplements
    <3>3. CASE Alarm(t) \/ Raise(t)
      BY <1>2, <3>3, EndImplements
    <3>4. CASE Serve(t) /\ ~Judge(t)
      BY <2>1, <3>4 DEF Serve, BeginAnalyzer, EndAnalyzer, ScanPrompt, Notice, CallProvider,
         ScanReply, CheckOutput
    <3> QED BY <2>2, <3>1, <3>2, <3>3, <3>4 DEF Work, Serve
  <2>3. ASSUME NEW t \in Thread, NEW q \in Requests, Receive(t, q) PROVE Promised!Next
    BY <1>2, <2>3, ReceiveImplements
  <2>4. CASE UNCHANGED vars
    BY <2>1, <2>4 DEF vars
  <2> QED BY <1>2, <2>2, <2>3, <2>4 DEF Next
<1> QED BY <1>1, <1>2, TypeInvAlways, LogInvAlways, ChargedAlways, PTL
        DEF Spec, ImplementsService, Promised!Spec

-----------------------------------------------------------------------------
(* How far a request is from its end                                       *)

\* What a thread has to do about the analyzer before its scan.
ToScan(j, state) == IF j.building THEN 1 ELSE IF state = "unused" THEN 2 ELSE 0

\* The steps a thread with job j has before it at most.
StepsLeft(j, state) ==
  CASE j.do = "idle" -> 0
    [] j.do = "alarm" -> 1
    [] j.do = "log" -> 2
    [] j.do = "check" -> 3
    [] j.do = "noticeReply" -> 4
    [] j.do = "scanReply" -> 5 + ToScan(j, state)
    [] j.do = "call" -> 10 - j.try
    [] j.do = "judge" -> 10
    [] j.do = "notice" -> 11
    [] j.do = "scan" -> 12 + ToScan(j, state)

LEMMA StepsLeftIs ==
  ASSUME NEW j \in Job, NEW state
  PROVE  /\ j.do = "idle" => StepsLeft(j, state) = 0
         /\ j.do = "alarm" => StepsLeft(j, state) = 1
         /\ j.do = "log" => StepsLeft(j, state) = 2
         /\ j.do = "check" => StepsLeft(j, state) = 3
         /\ j.do = "noticeReply" => StepsLeft(j, state) = 4
         /\ j.do = "scanReply" => StepsLeft(j, state) = 5 + ToScan(j, state)
         /\ j.do = "call" => StepsLeft(j, state) = 10 - j.try
         /\ j.do = "judge" => StepsLeft(j, state) = 10
         /\ j.do = "notice" => StepsLeft(j, state) = 11
         /\ j.do = "scan" => StepsLeft(j, state) = 12 + ToScan(j, state)
         /\ ToScan(j, state) \in 0..2
         /\ StepsLeft(j, state) \in 0..14
         /\ StepsLeft(j, state) = 0 <=> j.do = "idle"
         /\ j.do \in Stage /\ j.try \in 1..2
<1>1. j.do \in Stage /\ j.try \in 1..2
  BY DEF Job
<1>2. ToScan(j, state) \in 0..2
  BY DEF ToScan
<1>3. /\ j.do = "idle" => StepsLeft(j, state) = 0
      /\ j.do = "alarm" => StepsLeft(j, state) = 1
      /\ j.do = "log" => StepsLeft(j, state) = 2
      /\ j.do = "check" => StepsLeft(j, state) = 3
      /\ j.do = "noticeReply" => StepsLeft(j, state) = 4
      /\ j.do = "scanReply" => StepsLeft(j, state) = 5 + ToScan(j, state)
      /\ j.do = "call" => StepsLeft(j, state) = 10 - j.try
      /\ j.do = "judge" => StepsLeft(j, state) = 10
      /\ j.do = "notice" => StepsLeft(j, state) = 11
      /\ j.do = "scan" => StepsLeft(j, state) = 12 + ToScan(j, state)
  BY DEF StepsLeft
<1> QED BY <1>1, <1>2, <1>3 DEF Stage

\* A step that gives a thread another stage, by the order of the stages.
LEMMA Onward ==
  ASSUME NEW j \in Job, NEW k \in Job, NEW s, NEW r,
         \/ k.do = "idle" /\ j.do # "idle"
         \/ k.do = "alarm" /\ j.do = "log"
         \/ k.do = "log" /\ j.do \in {"check", "call", "judge"}
         \/ k.do = "check" /\ j.do \in {"scanReply", "noticeReply"}
         \/ k.do = "noticeReply" /\ j.do = "scanReply"
         \/ k.do = "scanReply" /\ j.do = "call"
         \/ k.do = "call" /\ j.do = "judge"
         \/ k.do = "call" /\ j.do = "call" /\ k.try > j.try
         \/ k.do = "judge" /\ j.do \in {"scan", "notice"}
         \/ k.do = "notice" /\ j.do = "scan"
         \/ k.do = j.do /\ j.do \in {"scan", "scanReply"} /\ ToScan(k, r) < ToScan(j, s)
  PROVE  StepsLeft(k, r) < StepsLeft(j, s)
<1>1. PICK a, b : a = StepsLeft(j, s) /\ b = StepsLeft(k, r)
  OBVIOUS
<1>2. PICK m, n : m = ToScan(j, s) /\ n = ToScan(k, r)
  OBVIOUS
<1>3. /\ j.do = "idle" <=> a = 0
      /\ j.do = "log" => a = 2
      /\ j.do = "check" => a = 3
      /\ j.do = "noticeReply" => a = 4
      /\ j.do = "scanReply" => a = 5 + m
      /\ j.do = "call" => a = 10 - j.try
      /\ j.do = "judge" => a = 10
      /\ j.do = "notice" => a = 11
      /\ j.do = "scan" => a = 12 + m
      /\ a \in 0..14 /\ m \in 0..2 /\ j.try \in 1..2
  BY <1>1, <1>2, StepsLeftIs
<1>4. /\ k.do = "idle" => b = 0
      /\ k.do = "alarm" => b = 1
      /\ k.do = "log" => b = 2
      /\ k.do = "check" => b = 3
      /\ k.do = "noticeReply" => b = 4
      /\ k.do = "scanReply" => b = 5 + n
      /\ k.do = "call" => b = 10 - k.try
      /\ k.do = "judge" => b = 10
      /\ k.do = "notice" => b = 11
      /\ k.do = "scan" => b = 12 + n
      /\ b \in 0..14 /\ n \in 0..2 /\ k.try \in 1..2
  BY <1>1, <1>2, StepsLeftIs
<1>5. \/ k.do = "idle" /\ j.do # "idle"
      \/ k.do = "alarm" /\ j.do = "log"
      \/ k.do = "log" /\ j.do \in {"check", "call", "judge"}
      \/ k.do = "check" /\ j.do \in {"scanReply", "noticeReply"}
      \/ k.do = "noticeReply" /\ j.do = "scanReply"
      \/ k.do = "scanReply" /\ j.do = "call"
      \/ k.do = "call" /\ j.do = "judge"
      \/ k.do = "call" /\ j.do = "call" /\ k.try > j.try
      \/ k.do = "judge" /\ j.do \in {"scan", "notice"}
      \/ k.do = "notice" /\ j.do = "scan"
      \/ k.do = j.do /\ j.do \in {"scan", "scanReply"} /\ n < m
  BY <1>2
<1>6. b < a
  BY <1>3, <1>4, <1>5
<1> QED BY <1>1, <1>6

\* A thread at work moves no other one and stays with its request until it answers it.
LEMMA WorkMoves ==
  ASSUME TypeInv, NEW t \in Thread, Work(t)
  PROVE  /\ \A s \in Thread \ {t} : job'[s] = job[s]
         /\ UNCHANGED asked /\ job[t].do # "idle"
<1>1. CASE Serve(t)
  BY <1>1, ServeMoves
<1>2. CASE LogCall(t)
  BY <1>2, LogMoves
<1>3. CASE Alarm(t) \/ Raise(t)
  <2>1. job[t].do # "idle" /\ \E c : Answer(t, c)
    BY <1>3 DEF Alarm, Raise, Scanning
  <2>2. UNCHANGED asked
    BY <1>3 DEF Alarm, Raise
  <2> QED BY <2>1, <2>2, AnswerMoves
<1> QED BY <1>1, <1>2, <1>3 DEF Work, Serve

LEMMA WorkEnds ==
  ASSUME TypeInv, NEW t \in Thread, Work(t)
  PROVE  /\ job'[t].do = "idle" => answered'[job[t].id] # "pending"
         /\ job'[t].do # "idle" => job'[t].id = job[t].id
         /\ \A i \in Id : answered'[i] = "pending" => answered[i] = "pending"
<1>1. job \in [Thread -> Job] /\ job[t] \in Job /\ job[t].do # "idle" /\ job[t].id \in Id
      /\ job[t].code \in Code
  <2>1. job[t].do # "idle" /\ job \in [Thread -> Job]
    BY WorkMoves DEF TypeInv, TypeOK
  <2> QED BY <2>1, ServedRequest DEF Job
<1>2. CASE Serve(t)
  BY <1>2, ServeMoves
<1>3. ASSUME NEW c, Answer(t, c), c # "pending"
      PROVE  /\ job'[t].do = "idle" /\ answered'[job[t].id] # "pending"
             /\ \A i \in Id : answered'[i] = "pending" => answered[i] = "pending"
  BY <1>1, <1>3, AnswerMoves
<1>4. CASE LogCall(t)
  <2>1. CASE job[t].code \in Blocked
    BY <1>4, <2>1, LogMoves DEF LogCall, Alarmed
  <2>2. CASE job[t].code \notin Blocked
    BY <1>1, <1>3, <1>4, <2>2, CodeFacts DEF LogCall, Alarmed
  <2> QED BY <2>1, <2>2
<1>5. CASE Alarm(t) \/ Raise(t)
  <2>1. \E c : Answer(t, c) /\ c # "pending"
    BY <1>1, <1>5, CodeFacts DEF Alarm, Raise
  <2> QED BY <1>3, <2>1
<1> QED BY <1>2, <1>4, <1>5 DEF Work, Serve

\* Each step of a thread brings its request nearer to its end.
LEMMA WorkAdvances ==
  ASSUME TypeInv, TypeInv', NEW t \in Thread, Work(t)
  PROVE  StepsLeft(job'[t], scanner') < StepsLeft(job[t], scanner)
<1>1. job \in [Thread -> Job] /\ job[t] \in Job /\ job'[t] \in Job
  BY DEF TypeInv, TypeOK
<1>2. job[t].building => job[t].do \in {"scan", "scanReply"}
  BY DEF TypeInv, Numbered
<1>3. CASE BeginAnalyzer(t) \/ EndAnalyzer(t)
  <2>1. job[t].do \in {"scan", "scanReply"} /\ job'[t].do = job[t].do
    BY <1>1, <1>2, <1>3 DEF BeginAnalyzer, EndAnalyzer, Scanning, Job
  <2>2. ToScan(job'[t], scanner') < ToScan(job[t], scanner)
    <3>1. CASE BeginAnalyzer(t)
      <4>1. ~job[t].building /\ job'[t].building /\ scanner = "unused"
        BY <1>1, <3>1 DEF BeginAnalyzer, Scanning, StartBuild, Job
      <4> QED BY <4>1 DEF ToScan
    <3>2. CASE EndAnalyzer(t)
      <4>1. job[t].building /\ ~job'[t].building /\ scanner' # "unused"
        BY <1>1, <3>2 DEF EndAnalyzer, FinishBuild, Job
      <4> QED BY <4>1 DEF ToScan
    <3> QED BY <1>3, <3>1, <3>2
  <2> QED BY <1>1, <2>1, <2>2, Onward
<1>4. CASE ScanPrompt(t) \/ ScanReply(t)
  <2>1. \/ job[t].do = "scan" /\ job'[t].do \in {"judge", "notice"}
        \/ job[t].do = "scanReply" /\ job'[t].do \in {"check", "noticeReply"}
    BY <1>1, <1>4 DEF ScanPrompt, ScanReply, Job
  <2> QED BY <1>1, <2>1, Onward
<1>5. CASE Notice(t)
  <2>1. \/ job[t].do = "notice" /\ job'[t].do = "judge"
        \/ job[t].do = "noticeReply" /\ job'[t].do = "check"
    BY <1>1, <1>5 DEF Notice, Goto, Job
  <2> QED BY <1>1, <2>1, Onward
<1>6. CASE Judge(t)
  <2>1. job[t].do = "judge" /\ job'[t].do \in {"log", "call"}
    BY <1>1, <1>6 DEF Judge, Admission, Goto, End, Job
  <2> QED BY <1>1, <2>1, Onward
<1>7. CASE CallProvider(t)
  <2>1. job[t].do = "call" /\ job'[t].do \in {"call", "log", "scanReply"}
    BY <1>7, CallMoves DEF CallProvider
  <2>2. job'[t].do = "call" => job'[t].try > job[t].try
    <3>1. \A c : LET j == [job[t] EXCEPT !.do = "log", !.code = c] IN j.do = "log"
      BY <1>1 DEF Job
    <3>2. \A r : LET j == [job[t] EXCEPT !.reply = r, !.do = "scanReply"]
                 IN  j.do = "scanReply"
      BY <1>1 DEF Job
    <3>3. LET j == [job[t] EXCEPT !.try = job[t].try + 1] IN j.try > job[t].try
      BY <1>1 DEF Job
    <3>4. \/ \E c : job'[t] = [job[t] EXCEPT !.do = "log", !.code = c]
          \/ \E r : job'[t] = [job[t] EXCEPT !.reply = r, !.do = "scanReply"]
          \/ job'[t] = [job[t] EXCEPT !.try = job[t].try + 1]
      BY <1>1, <1>7 DEF CallProvider, Fail, End
    <3> QED BY <3>1, <3>2, <3>3, <3>4
  <2> QED BY <1>1, <2>1, <2>2, Onward
<1>8. CASE CheckOutput(t)
  <2>1. job[t].do = "check" /\ job'[t].do = "log"
    BY <1>1, <1>8 DEF CheckOutput, End, Job
  <2> QED BY <1>1, <2>1, Onward
<1>9. CASE LogCall(t)
  <2>1. job[t].do = "log" /\ job'[t].do \in {"alarm", "idle"}
    BY <1>9, LogMoves
  <2> QED BY <1>1, <2>1, Onward
<1>10. CASE Alarm(t) \/ Raise(t)
  <2>1. job[t].do # "idle" /\ job'[t].do = "idle"
    BY <1>1, <1>10, IdleJob DEF Alarm, Raise, Scanning, Answer
  <2> QED BY <1>1, <2>1, Onward
<1> QED BY <1>3, <1>4, <1>5, <1>6, <1>7, <1>8, <1>9, <1>10 DEF Work

\* No step of another thread brings it farther.
LEMMA OthersKeepStepsLeft ==
  ASSUME TypeInv, NEW t \in Thread, [Next]_vars, job'[t] = job[t]
  PROVE  StepsLeft(job'[t], scanner') <= StepsLeft(job[t], scanner)
<1>1. job[t] \in Job
  BY DEF TypeInv, TypeOK
<1>2. scanner' # scanner => scanner' # "unused"
  <2>1. ASSUME NEW s \in Thread, Work(s) PROVE scanner' # scanner => scanner' # "unused"
    BY <2>1, NoBuild DEF BeginAnalyzer, EndAnalyzer, StartBuild, FinishBuild
  <2> QED BY <2>1 DEF Next, Receive, vars
<1>3. ToScan(job[t], scanner') <= ToScan(job[t], scanner)
  BY <1>2 DEF ToScan
<1>4. PICK a, b, m, n : /\ a = StepsLeft(job[t], scanner) /\ b = StepsLeft(job[t], scanner')
                        /\ m = ToScan(job[t], scanner) /\ n = ToScan(job[t], scanner')
  OBVIOUS
<1>5. /\ job[t].do \notin {"scan", "scanReply"} => b = a
      /\ job[t].do = "scan" => a = 12 + m /\ b = 12 + n
      /\ job[t].do = "scanReply" => a = 5 + m /\ b = 5 + n
      /\ a \in 0..14 /\ b \in 0..14 /\ m \in 0..2 /\ n \in 0..2
  <2>1. job[t].do \notin {"scan", "scanReply"} => b = a
    BY <1>1, <1>4, StepsLeftIs DEF Stage
  <2> QED BY <1>1, <1>4, <2>1, StepsLeftIs
<1>6. b <= a
  BY <1>3, <1>4, <1>5
<1> QED BY <1>4, <1>6

\* A request takes at most fourteen steps of its thread, whatever the providers answer and
\* whatever overtakes it: each of them brings it nearer to its end, and no other thread
\* drives it back to a provider it has tried or a scan it has left behind.
THEOREM RequestsAdvance ==
  Spec => [][\A t \in Thread :
               job[t].do # "idle" =>
                 /\ StepsLeft(job[t], scanner) \in 1..14
                 /\ \/ StepsLeft(job'[t], scanner') < StepsLeft(job[t], scanner)
                    \/ /\ job'[t] = job[t]
                       /\ StepsLeft(job'[t], scanner') <= StepsLeft(job[t], scanner)]_vars
<1>1. ASSUME TypeInv, TypeInv', [Next]_vars, NEW t \in Thread, job[t].do # "idle"
      PROVE  /\ StepsLeft(job[t], scanner) \in 1..14
             /\ \/ StepsLeft(job'[t], scanner') < StepsLeft(job[t], scanner)
                \/ /\ job'[t] = job[t]
                   /\ StepsLeft(job'[t], scanner') <= StepsLeft(job[t], scanner)
  <2>1. job[t] \in Job
    BY <1>1 DEF TypeInv, TypeOK
  <2>2. StepsLeft(job[t], scanner) \in 0..14 /\ StepsLeft(job[t], scanner) # 0
    BY <1>1, <2>1, StepsLeftIs
  <2>3. Work(t) \/ job'[t] = job[t]
    <3>1. ASSUME NEW s \in Thread, Work(s), s # t PROVE job'[t] = job[t]
      BY <1>1, <3>1, WorkMoves
    <3>2. ASSUME NEW s \in Thread, NEW q \in Requests, Receive(s, q) PROVE job'[t] = job[t]
      BY <1>1, <3>2, ReceiveMoves
    <3> QED BY <1>1, <3>1, <3>2 DEF Next, vars
  <2> QED BY <1>1, <2>2, <2>3, WorkAdvances, OthersKeepStepsLeft
<1>2. TypeInv /\ TypeInv' /\ [Next]_vars =>
        [\A t \in Thread :
           job[t].do # "idle" =>
             /\ StepsLeft(job[t], scanner) \in 1..14
             /\ \/ StepsLeft(job'[t], scanner') < StepsLeft(job[t], scanner)
                \/ /\ job'[t] = job[t]
                   /\ StepsLeft(job'[t], scanner') <= StepsLeft(job[t], scanner)]_vars
  BY <1>1
<1> QED BY <1>2, TypeInvAlways, PTL DEF Spec

\* A request that has no answer yet has a thread.
NoneForgotten ==
  \A i \in DOMAIN asked :
    answered[i] = "pending" => \E t \in Thread : job[t].do # "idle" /\ job[t].id = i

\* A request without an answer has a thread at work on it: none is dropped on the way,
\* whichever check refuses it and whatever raises.
THEOREM NobodyIsForgotten == Spec => []NoneForgotten
<1>1. Init => NoneForgotten
  BY DEF Init, NoneForgotten
<1>2. ASSUME TypeInv, NoneForgotten, [Next]_vars PROVE NoneForgotten'
  <2> SUFFICES ASSUME NEW i \in DOMAIN asked', answered'[i] = "pending"
               PROVE  \E t \in Thread : job'[t].do # "idle" /\ job'[t].id = i
    BY DEF NoneForgotten
  <2>1. ASSUME NEW t \in Thread, Work(t)
        PROVE  \E s \in Thread : job'[s].do # "idle" /\ job'[s].id = i
    <3>1. /\ \A s \in Thread \ {t} : job'[s] = job[s]
          /\ UNCHANGED asked /\ job[t].do # "idle"
      BY <1>2, <2>1, WorkMoves
    <3>2. /\ job'[t].do = "idle" => answered'[job[t].id] # "pending"
          /\ job'[t].do # "idle" => job'[t].id = job[t].id
          /\ answered[i] = "pending"
      <4>1. i \in Id
        BY <1>2, <3>1, Ids
      <4> QED BY <1>2, <2>1, <4>1, WorkEnds
    <3>3. PICK s \in Thread : job[s].do # "idle" /\ job[s].id = i
      BY <1>2, <3>1, <3>2 DEF NoneForgotten
    <3> QED BY <3>1, <3>2, <3>3
  <2>2. ASSUME NEW t \in Thread, NEW q \in Requests, Receive(t, q)
        PROVE  \E s \in Thread : job'[s].do # "idle" /\ job'[s].id = i
    <3>1. PICK n : /\ DOMAIN asked' = DOMAIN asked \cup {n}
                   /\ job'[t].id = n /\ job'[t].do \in {"log", "scan"}
                   /\ job[t].do = "idle" /\ \A s \in Thread \ {t} : job'[s] = job[s]
      BY <1>2, <2>2, ReceiveMoves
    <3>2. UNCHANGED answered
      BY <2>2 DEF Receive
    <3> QED BY <1>2, <3>1, <3>2 DEF NoneForgotten
  <2>3. CASE UNCHANGED vars
    BY <1>2, <2>3 DEF NoneForgotten, vars
  <2> QED BY <1>2, <2>1, <2>2, <2>3 DEF Next
<1> QED BY <1>1, <1>2, TypeInvAlways, PTL DEF Spec
=============================================================================
