-------------------------- MODULE Gateway_proofs --------------------------
(***************************************************************************)
(* Proofs about POST /v1/gateway/chat, for any number of request threads,  *)
(* any policy, any requests and replies, and any texts.                    *)
(***************************************************************************)
EXTENDS Gateway, FiniteSetTheorems, TLAPS

USE GatewayAssumption, KnownKeys, NerSetting, EventSettings, TextLength

-----------------------------------------------------------------------------
(* What the helpers return                                                 *)

LEMMA SeenType ==
  ASSUME NEW text \in Text
  PROVE  Seen(text) \in SUBSET Kind
<1>1. Kinds(text) \subseteq Kind
  BY DEF Text, Occurrence, Kinds
<1> QED BY <1>1 DEF Seen, Found

LEMMA RunPlaces == Run \subseteq SUBSET (1..Length)
<1>1. ASSUME NEW run \in Run PROVE run \subseteq 1..Length
  <2>1. PICK a, b \in 1..Length : run = a..b
    BY DEF Run
  <2> QED BY <2>1
<1> QED BY <1>1

LEMMA RedactedType ==
  ASSUME NEW text \in Text
  PROVE  Redacted(text) \in Remains /\ text \in Remains
<1>1. PICK cut : cut = UNION Replaced(text)
  OBVIOUS
<1>2. text \subseteq [kind : Kind, at : SUBSET (1..Length)]
  BY RunPlaces DEF Text, Occurrence
<1>3. \A o \in text : [o EXCEPT !.at = o.at \ cut] \in [kind : Kind, at : SUBSET (1..Length)]
  BY <1>2
<1> QED BY <1>1, <1>2, <1>3 DEF Redacted, Remains

LEMMA OutboundType ==
  ASSUME NEW messages \in Messages, NEW seen
  PROVE  Outbound(messages, seen) \in Outgoing
<1>1. messages.inside \in Text
  BY DEF Messages
<1>2. PICK r \in Remains : r = Redacted(messages.inside)
  BY <1>1, RedactedType
<1>3. [messages EXCEPT !.inside = r] \in Outgoing /\ messages \in Outgoing
  BY <1>1, RedactedType DEF Messages, Outgoing
<1> QED BY <1>2, <1>3 DEF Outbound

LEMMA EventTypes ==
  ASSUME NEW i \in Id, NEW found
  PROVE  AttackEvent(i) \in Event /\ InboundEvent(i) \in Event /\ OutboundEvent(i, found) \in Event
  BY DEF AttackEvent, InboundEvent, OutboundEvent, Event, Severity

\* What is emitted after the inspection of a request, and of a reply.
Inbound(i, attack, seen) ==
  ToEmit(When(attack, AttackEvent(i)) \o When(seen # {}, InboundEvent(i)))
Outward(i, found) == ToEmit(When(found # {}, OutboundEvent(i, found)))

Elements(todo) == {todo[n] : n \in DOMAIN todo}

LEMMA ToEmitElements ==
  ASSUME NEW i \in Id, NEW attack \in BOOLEAN, NEW seen
  PROVE  /\ Inbound(i, attack, seen) \in Seq(Event)
         /\ Outward(i, seen) \in Seq(Event)
         /\ Elements(Inbound(i, attack, seen)) =
              IF policy.record
              THEN (IF attack THEN {AttackEvent(i)} ELSE {})
                   \cup (IF seen # {} THEN {InboundEvent(i)} ELSE {})
              ELSE {}
         /\ Elements(Outward(i, seen)) =
              IF policy.record /\ seen # {} THEN {OutboundEvent(i, seen)} ELSE {}
<1>1. PICK a, b, o : a = AttackEvent(i) /\ b = InboundEvent(i) /\ o = OutboundEvent(i, seen)
  OBVIOUS
<1>2. a \in Event /\ b \in Event /\ o \in Event
  BY <1>1, EventTypes
<1>3. \A e \in Event : <<e>> \in Seq(Event) /\ Elements(<<e>>) = {e}
  BY DEF Elements
<1>4. <<>> \in Seq(Event) /\ Elements(<<>>) = {}
  BY DEF Elements
<1>5. PICK c : c = <<a>> \o <<b>>
  OBVIOUS
<1>6. c \in Seq(Event) /\ Elements(c) = {a, b}
  <2>1. <<a>> \in Seq(Event) /\ <<b>> \in Seq(Event) /\ Len(<<a>>) = 1 /\ Len(<<b>>) = 1
    BY <1>2
  <2>2. c \in Seq(Event) /\ Len(c) = 2 /\ c[1] = a /\ c[2] = b
    BY <1>5, <2>1
  <2>3. DOMAIN c = {1, 2}
    BY <2>2
  <2> QED BY <2>2, <2>3 DEF Elements
<1>7. <<a>> \o <<>> = <<a>> /\ <<>> \o <<b>> = <<b>> /\ <<>> \o <<>> = <<>>
  <2>1. <<a>> \in Seq(Event) /\ <<b>> \in Seq(Event) /\ <<>> \in Seq(Event)
    BY <1>2
  <2> QED BY <2>1
<1> QED BY <1>1, <1>2, <1>3, <1>4, <1>5, <1>6, <1>7 DEF Inbound, Outward, ToEmit, When

LEMMA ChainLength ==
  ASSUME NEW route \in Route
  PROVE  Len(Chain(route)) \in 1..2
  BY DEF Chain, Route, Provider

LEMMA IdleJob == Idle \in Job /\ Idle.do = "idle" /\ ~Idle.building /\ Idle.todo = <<>>
<1>1. NoMessages \in Outgoing /\ {} \in Text /\ <<>> \in Seq(Event)
  BY DEF NoMessages, Outgoing, Text, Remains
<1> QED BY <1>1 DEF Idle, Job, Stage

LEMMA JobFields ==
  ASSUME NEW j \in Job
  PROVE  /\ j.do \in Stage /\ j.building \in BOOLEAN /\ j.id \in Id \cup {0}
         /\ j.todo \in Seq(Event) /\ j.seen \in SUBSET Kind /\ j.outbound \in Outgoing
         /\ j.try \in 1..2 /\ j.reply \in Text /\ j.found \in SUBSET Kind
  BY DEF Job

-----------------------------------------------------------------------------
(* Type correctness                                                        *)

\* A thread that is not idle serves a request that was asked, builds the analyzer only
\* for one of its inspections, and reports before it judges.
Placed ==
  \A t \in Thread : /\ job[t].do = "idle" => job[t] = Idle
                    /\ job[t].do # "idle" => job[t].id \in DOMAIN asked
                    /\ job[t].building => job[t].do \in {"inspect", "inspectReply"}
                    /\ job[t].todo # <<>> => job[t].do \in {"judge", "judgeReply"}

TypeInv == TypeOK /\ Placed

LEMMA ServedRequest ==
  ASSUME TypeInv, NEW t \in Thread, job[t].do # "idle"
  PROVE  /\ job[t] \in Job /\ job[t].id \in Id /\ job[t].id \in DOMAIN asked
         /\ Req(t) \in Requests /\ Req(t) \in Request
         /\ Req(t).messages \in Messages /\ Req(t).attack \in BOOLEAN
         /\ Untrusted(Req(t).messages) \in Text
<1>1. /\ job[t] \in Job /\ job[t].id \in Id /\ job[t].id \in DOMAIN asked
      /\ Req(t) \in Requests /\ Req(t) \in Request
  BY DEF TypeInv, TypeOK, Placed, Req, Id
<1>2. Req(t).messages \in Messages /\ Req(t).attack \in BOOLEAN
  BY <1>1 DEF Request
<1> QED BY <1>1, <1>2 DEF Untrusted, Messages, Text

LEMMA PolicyFields ==
  ASSUME TypeInv
  PROVE  /\ policy.attack \in BOOLEAN /\ policy.record \in BOOLEAN
         /\ policy.request \in PIIAction /\ policy.response \in PIIAction
  BY DEF TypeInv, TypeOK, Policy

\* The rest of the type invariant after a step that moves a busy thread on.
LEMMA JobStep ==
  ASSUME TypeInv, NEW t \in Thread, NEW j \in Job, job[t].do # "idle",
         job' = [job EXCEPT ![t] = j], UNCHANGED asked,
         j = Idle \/ (j.do # "idle" /\ j.id = job[t].id),
         j.building => j.do \in {"inspect", "inspectReply"},
         j.todo # <<>> => j.do \in {"judge", "judgeReply"}
  PROVE  Placed' /\ job' \in [Thread -> Job]
<1>1. job \in [Thread -> Job] /\ Idle.do = "idle"
  BY IdleJob DEF TypeInv, TypeOK
<1> QED BY <1>1 DEF TypeInv, Placed

LEMMA AuditType ==
  ASSUME TypeInv, NEW i \in Id, NEW lines \in Seq(Line), Audit(i, lines)
  PROVE  audit' \in [Id -> Seq(Line)]
<1>1. audit \in [Id -> Seq(Line)] /\ audit' = [audit EXCEPT ![i] = audit[i] \o lines]
  BY DEF TypeInv, TypeOK, Audit
<1>2. audit[i] \o lines \in Seq(Line)
  BY <1>1
<1> QED BY <1>1, <1>2

LEMMA ReceiveType ==
  ASSUME TypeInv, NEW t \in Thread, NEW q \in Requests, Receive(t, q)
  PROVE  TypeInv'
<1>1. PICK n, j : n = Len(asked) + 1 /\ j = [Idle EXCEPT !.id = n, !.do = "inspect"]
  OBVIOUS
<1>2. /\ asked \in Seq(Requests) /\ Len(asked) \in Nat /\ n \in Id
      /\ job \in [Thread -> Job] /\ job' = [job EXCEPT ![t] = j]
      /\ asked' = Append(asked, q) /\ Len(asked) < MaxRequests
      /\ Audit(n, <<"request_received">>)
  BY <1>1 DEF TypeInv, TypeOK, Receive, Id
<1>3. j \in Job /\ j.id = n /\ j.do = "inspect" /\ ~j.building /\ j.todo = <<>>
  <2>1. \A k \in Job : LET m == [k EXCEPT !.id = n, !.do = "inspect"]
                       IN  /\ m \in Job /\ m.id = n /\ m.do = "inspect"
                           /\ m.building = k.building /\ m.todo = k.todo
    BY <1>2 DEF Job, Stage
  <2> QED BY <1>1, <2>1, IdleJob
<1>4. /\ asked' \in Seq(Requests) /\ Len(asked') = n /\ n <= MaxRequests
      /\ DOMAIN asked' = DOMAIN asked \cup {n}
  BY <1>1, <1>2
<1>5. audit' \in [Id -> Seq(Line)]
  <2>1. <<"request_received">> \in Seq(Line)
    BY DEF Line
  <2> QED BY <1>2, <2>1, AuditType
<1>6. TypeOK'
  BY <1>2, <1>3, <1>4, <1>5 DEF TypeInv, TypeOK, Receive
<1>7. Placed'
  BY <1>2, <1>3, <1>4 DEF TypeInv, Placed
<1> QED BY <1>6, <1>7 DEF TypeInv

LEMMA AnalyzerType ==
  ASSUME TypeInv, NEW t \in Thread, BeginAnalyzer(t) \/ EndAnalyzer(t)
  PROVE  TypeInv'
<1>1. job[t].do \in {"inspect", "inspectReply"}
  BY DEF BeginAnalyzer, EndAnalyzer, Inspecting, TypeInv, Placed
<1>2. job[t] \in Job
  BY <1>1, ServedRequest
<1>3. PICK b \in BOOLEAN : job' = [job EXCEPT ![t] = [job[t] EXCEPT !.building = b]]
  BY DEF BeginAnalyzer, EndAnalyzer
<1>4. PICK j : j = [job[t] EXCEPT !.building = b]
  OBVIOUS
<1>5. j \in Job /\ j.do = job[t].do /\ j.id = job[t].id /\ j.todo = job[t].todo
  BY <1>2, <1>4 DEF Job
<1>6. UNCHANGED asked /\ job[t].todo = <<>>
  BY <1>1 DEF BeginAnalyzer, EndAnalyzer, TypeInv, Placed
<1>7. Placed' /\ job' \in [Thread -> Job]
  BY <1>1, <1>3, <1>4, <1>5, <1>6, JobStep
<1> QED BY <1>7 DEF TypeInv, TypeOK, BeginAnalyzer, EndAnalyzer, StartBuild, FinishBuild,
        ScannerState

LEMMA EmitType ==
  ASSUME TypeInv, NEW t \in Thread, Emit(t)
  PROVE  TypeInv'
<1>1. job[t].todo # <<>> /\ job[t].do \in {"judge", "judgeReply"}
  BY DEF Emit, TypeInv, Placed
<1>2. job[t] \in Job /\ job[t].todo \in Seq(Event)
  BY <1>1, ServedRequest, JobFields
<1>3. PICK j : j = [job[t] EXCEPT !.todo = Tail(job[t].todo)]
  OBVIOUS
<1>4. j \in Job /\ j.do = job[t].do /\ j.id = job[t].id /\ j.building = job[t].building
  <2>1. Tail(job[t].todo) \in Seq(Event)
    BY <1>1, <1>2
  <2> QED BY <1>2, <1>3, <2>1 DEF Job
<1>5. Placed' /\ job' \in [Thread -> Job]
  <2>1. job' = [job EXCEPT ![t] = j] /\ UNCHANGED asked
    BY <1>3 DEF Emit
  <2>2. ~job[t].building
    BY <1>1 DEF TypeInv, Placed
  <2> QED BY <1>1, <1>4, <2>1, <2>2, JobStep
<1>6. Head(job[t].todo) \in Event
  BY <1>1, <1>2
<1>7. events' \subseteq Event /\ lost' \subseteq Event
  BY <1>6 DEF Emit, AfterRecording, TypeInv, TypeOK
<1> QED BY <1>5, <1>7 DEF TypeInv, TypeOK, Emit

\* Where a thread is after each of its steps.
LEMMA InspectRequestMoves ==
  ASSUME TypeInv, NEW t \in Thread, InspectRequest(t)
  PROVE  /\ job[t].do = "inspect"
         /\ \E j \in Job : /\ job' = [job EXCEPT ![t] = j]
                          /\ j.do = "judge" /\ j.id = job[t].id /\ ~j.building
                          /\ j.todo = Inbound(job[t].id, Req(t).attack, j.seen)
<1>1. job[t].do = "inspect" /\ ~job[t].building
  BY DEF InspectRequest, Inspecting
<1>2. /\ job[t] \in Job /\ job[t].id \in Id /\ Req(t).attack \in BOOLEAN
      /\ Untrusted(Req(t).messages) \in Text
  BY <1>1, ServedRequest
<1>3. PICK seen, todo : /\ seen = Seen(Untrusted(Req(t).messages))
                        /\ todo = Inbound(job[t].id, Req(t).attack, seen)
  OBVIOUS
<1>4. seen \in SUBSET Kind /\ todo \in Seq(Event)
  BY <1>2, <1>3, SeenType, ToEmitElements
<1>5. PICK j : j = [job[t] EXCEPT !.do = "judge", !.seen = seen, !.todo = todo]
  OBVIOUS
<1>6. /\ j \in Job /\ j.do = "judge" /\ j.id = job[t].id /\ ~j.building
      /\ j.seen = seen /\ j.todo = todo
  BY <1>1, <1>2, <1>4, <1>5 DEF Job, Stage
<1>7. job' = [job EXCEPT ![t] = j]
  <2>1. job \in [Thread -> Job]
    BY DEF TypeInv, TypeOK
  <2> QED BY <1>3, <1>5, <2>1 DEF InspectRequest, Inbound
<1> QED BY <1>1, <1>3, <1>6, <1>7

LEMMA InspectReplyMoves ==
  ASSUME TypeInv, NEW t \in Thread, InspectReply(t)
  PROVE  /\ job[t].do = "inspectReply"
         /\ \E j \in Job : /\ job' = [job EXCEPT ![t] = j]
                          /\ j.do = "judgeReply" /\ j.id = job[t].id /\ ~j.building
                          /\ j.todo = Outward(job[t].id, j.found)
<1>1. job[t].do = "inspectReply" /\ ~job[t].building
  BY DEF InspectReply, Inspecting
<1>2. job[t] \in Job /\ job[t].id \in Id /\ job[t].reply \in Text
  BY <1>1, ServedRequest, JobFields
<1>3. PICK found, todo : found = Seen(job[t].reply) /\ todo = Outward(job[t].id, found)
  OBVIOUS
<1>4. found \in SUBSET Kind /\ todo \in Seq(Event)
  BY <1>2, <1>3, SeenType, ToEmitElements
<1>5. PICK j : j = [job[t] EXCEPT !.do = "judgeReply", !.found = found, !.todo = todo]
  OBVIOUS
<1>6. /\ j \in Job /\ j.do = "judgeReply" /\ j.id = job[t].id /\ ~j.building
      /\ j.found = found /\ j.todo = todo
  BY <1>1, <1>2, <1>4, <1>5 DEF Job, Stage
<1>7. job' = [job EXCEPT ![t] = j]
  <2>1. job \in [Thread -> Job]
    BY DEF TypeInv, TypeOK
  <2> QED BY <1>3, <1>5, <2>1 DEF InspectReply, Outward
<1> QED BY <1>1, <1>3, <1>6, <1>7

\* How a request ends: its thread is free, its trail grows by the lines before the
\* decision and by the decision, and its client gets the result.
Ends(t, before, decision) ==
  /\ decision \in Decision
  /\ job' = [job EXCEPT ![t] = Idle]
  /\ Audit(job[t].id, before \o <<decision>>)
  /\ \E r \in Result : /\ r.decision = decision
                       /\ result' = [result EXCEPT ![job[t].id] = r]

LEMMA NothingDecided ==
  ASSUME NEW d \in Decision, NEW seen \in SUBSET Kind
  PROVE  LET r == [Nothing EXCEPT !.decision = d, !.seen = seen]
         IN  r \in Result /\ r.decision = d
  BY DEF Nothing, Result, Text, Remains

\* A request is blocked, or ends for its unknown route, or goes on to the provider.
LEMMA JudgeRequestMoves ==
  ASSUME TypeInv, NEW t \in Thread, JudgeRequest(t)
  PROVE  /\ job[t].do = "judge" /\ job[t].todo = <<>>
         /\ \/ RequestBlocked(Req(t), job[t].seen) /\ Ends(t, <<>>, "BLOCK")
            \/ /\ ~RequestBlocked(Req(t), job[t].seen)
               /\ Ends(t, <<"request_policy">>, "ERROR")
            \/ /\ ~RequestBlocked(Req(t), job[t].seen)
               /\ Audit(job[t].id, <<"request_policy">>) /\ UNCHANGED result
               /\ \E j \in Job : /\ job' = [job EXCEPT ![t] = j]
                                /\ j.do = "call" /\ j.id = job[t].id /\ ~j.building
                                /\ j.todo = <<>>
<1>1. job[t].do = "judge" /\ job[t].todo = <<>>
  BY DEF JudgeRequest
<1>2. job[t] \in Job /\ job[t].seen \in SUBSET Kind /\ Req(t).messages \in Messages
  BY <1>1, ServedRequest, JobFields
<1>3. PICK r : r = [d \in Decision |-> [Nothing EXCEPT !.decision = d, !.seen = job[t].seen]]
  OBVIOUS
<1>4. \A d \in Decision : r[d] \in Result /\ r[d].decision = d
  BY <1>2, <1>3, NothingDecided
<1>5. \A before : \A d \in Decision :
        Finish(t, before, [Nothing EXCEPT !.decision = d, !.seen = job[t].seen])
          => Ends(t, before, d)
  <2>1. SUFFICES ASSUME NEW d \in Decision, NEW before, Finish(t, before, r[d])
                 PROVE  Ends(t, before, d)
    BY <1>3
  <2> QED BY <1>4, <2>1 DEF Finish, FinalLines, Ends
<1>6. "BLOCK" \in Decision /\ "ERROR" \in Decision
  BY DEF Decision
<1>7. CASE RequestBlocked(Req(t), job[t].seen)
  BY <1>1, <1>5, <1>6, <1>7 DEF JudgeRequest
<1>8. CASE ~RequestBlocked(Req(t), job[t].seen) /\ Req(t).route = "unknown"
  BY <1>1, <1>5, <1>6, <1>8 DEF JudgeRequest
<1>9. CASE ~RequestBlocked(Req(t), job[t].seen) /\ Req(t).route # "unknown"
  <2>1. PICK j, out : /\ out = Outbound(Req(t).messages, job[t].seen)
                      /\ j = [job[t] EXCEPT !.do = "call", !.outbound = out]
    OBVIOUS
  <2>2. out \in Outgoing
    BY <1>2, <2>1, OutboundType
  <2>3. ~job[t].building
    BY <1>1 DEF TypeInv, Placed
  <2>4. j \in Job /\ j.do = "call" /\ j.id = job[t].id /\ ~j.building /\ j.todo = <<>>
    BY <1>1, <1>2, <2>1, <2>2, <2>3 DEF Job, Stage
  <2>5. job' = [job EXCEPT ![t] = j]
    <3>1. job \in [Thread -> Job]
      BY DEF TypeInv, TypeOK
    <3> QED BY <1>9, <2>1, <3>1 DEF JudgeRequest
  <2>6. Audit(job[t].id, <<"request_policy">>) /\ UNCHANGED result
    BY <1>9 DEF JudgeRequest
  <2> QED BY <1>1, <1>9, <2>4, <2>5, <2>6
<1> QED BY <1>7, <1>8, <1>9

\* A provider that fails leaves the next one to try or ends the request; one that answers
\* has its reply inspected.
LEMMA CallProviderMoves ==
  ASSUME TypeInv, NEW t \in Thread, CallProvider(t)
  PROVE  /\ job[t].do = "call"
         /\ \/ /\ UNCHANGED <<audit, result>>
               /\ \E j \in Job : /\ job' = [job EXCEPT ![t] = j]
                                /\ j.do = "call" /\ j.id = job[t].id /\ ~j.building
                                /\ j.todo = <<>> /\ j.try > job[t].try
            \/ Ends(t, <<>>, "ERROR")
            \/ /\ Audit(job[t].id, <<"provider_called">>) /\ UNCHANGED result
               /\ \E j \in Job : /\ job' = [job EXCEPT ![t] = j]
                                /\ j.do = "inspectReply" /\ j.id = job[t].id
                                /\ ~j.building /\ j.todo = <<>>
<1>1. job[t].do = "call" /\ job[t].todo = <<>> /\ ~job[t].building
  BY DEF CallProvider, TypeInv, Placed
<1>2. /\ job[t] \in Job /\ job[t].seen \in SUBSET Kind /\ job[t].try \in 1..2
      /\ job \in [Thread -> Job]
  BY <1>1, ServedRequest, JobFields DEF TypeInv, TypeOK
<1>3. CASE Fail(t) /\ job[t].try < Len(Tries(t))
  <2>1. PICK j : j = [job[t] EXCEPT !.try = job[t].try + 1]
    OBVIOUS
  <2>2. job' = [job EXCEPT ![t] = j] /\ UNCHANGED <<audit, result>>
    BY <1>2, <1>3, <2>1 DEF Fail
  <2>3. job[t].try + 1 \in 1..2
    <3>1. PICK n : n = Len(Tries(t))
      OBVIOUS
    <3>2. n \in 1..2
      <4>1. CASE Req(t).route \in Route
        BY <3>1, <4>1, ChainLength DEF Tries
      <4>2. CASE Req(t).route \notin Route
        <5>1. Tries(t) = <<Req(t).route>>
          BY <4>2 DEF Tries, Chain, Route
        <5> QED BY <3>1, <5>1
      <4> QED BY <4>1, <4>2
    <3>3. PICK k : k = job[t].try
      OBVIOUS
    <3>4. k \in 1..2 /\ k < n
      BY <1>2, <1>3, <3>1, <3>3
    <3>5. k + 1 \in 1..2
      BY <3>2, <3>4
    <3> QED BY <3>3, <3>5
  <2>4. j \in Job /\ j.do = "call" /\ j.id = job[t].id /\ ~j.building /\ j.todo = <<>>
    BY <1>1, <1>2, <2>1, <2>3 DEF Job
  <2>5. j.try > job[t].try
    <3>1. j.try = job[t].try + 1
      BY <1>2, <2>1 DEF Job
    <3> QED BY <1>2, <3>1
  <2> QED BY <1>1, <2>2, <2>4, <2>5
<1>4. CASE Fail(t) /\ ~(job[t].try < Len(Tries(t)))
  <2>1. PICK r : r = [Nothing EXCEPT !.decision = "ERROR", !.seen = job[t].seen]
    OBVIOUS
  <2>2. r \in Result /\ r.decision = "ERROR" /\ "ERROR" \in Decision
    BY <1>2, <2>1, NothingDecided DEF Decision
  <2>3. Finish(t, <<>>, r)
    BY <1>4, <2>1 DEF Fail
  <2> QED BY <1>1, <2>2, <2>3 DEF Finish, FinalLines, Ends
<1>5. CASE ~Fail(t)
  <2>1. PICK text \in Replies :
          job' = [job EXCEPT ![t] = [job[t] EXCEPT !.do = "inspectReply", !.reply = text]]
    BY <1>2, <1>5 DEF CallProvider
  <2>2. PICK j : j = [job[t] EXCEPT !.do = "inspectReply", !.reply = text]
    OBVIOUS
  <2>3. /\ j \in Job /\ j.do = "inspectReply" /\ j.id = job[t].id /\ ~j.building
        /\ j.todo = <<>>
    BY <1>1, <1>2, <2>2 DEF Job, Stage
  <2>4. Audit(job[t].id, <<"provider_called">>) /\ UNCHANGED result
    BY <1>5 DEF CallProvider
  <2> QED BY <1>1, <2>1, <2>2, <2>3, <2>4
<1> QED BY <1>3, <1>4, <1>5

LEMMA CallProviderSends ==
  ASSUME TypeInv, NEW t \in Thread, CallProvider(t)
  PROVE  /\ sent' \in [Id -> SUBSET Outgoing]
         /\ \A i \in Id : i # job[t].id => sent'[i] = sent[i]
<1>1. job[t].do = "call"
  BY DEF CallProvider
<1>2. job[t].id \in Id /\ job[t].outbound \in Outgoing /\ sent \in [Id -> SUBSET Outgoing]
  BY <1>1, ServedRequest, JobFields DEF TypeInv, TypeOK
<1>3. sent' = [sent EXCEPT ![job[t].id] = {job[t].outbound}] \/ sent' = sent
  BY DEF CallProvider
<1> QED BY <1>2, <1>3

LEMMA JudgeReplyMoves ==
  ASSUME TypeInv, NEW t \in Thread, JudgeReply(t)
  PROVE  /\ job[t].do = "judgeReply" /\ job[t].todo = <<>>
         /\ Ends(t, <<>>, IF ReplyBlocked(job[t].found) THEN "BLOCK" ELSE "ALLOW")
<1>1. job[t].do = "judgeReply" /\ job[t].todo = <<>>
  BY DEF JudgeReply
<1>2. /\ job[t].seen \in SUBSET Kind /\ job[t].found \in SUBSET Kind
      /\ job[t].reply \in Text
  BY <1>1, ServedRequest, JobFields
<1>3. PICK d, out, r :
        /\ d = IF ReplyBlocked(job[t].found) THEN "BLOCK" ELSE "ALLOW"
        /\ out = IF ReplyBlocked(job[t].found) THEN {} ELSE Output(job[t].reply, job[t].found)
        /\ r = [decision |-> d, output |-> out, seen |-> job[t].seen,
                found |-> job[t].found, answer |-> job[t].reply]
  OBVIOUS
<1>4. out \in Remains
  <2>1. {} \in Remains
    BY DEF Remains
  <2> QED BY <1>2, <1>3, <2>1, RedactedType DEF Output
<1>5. d \in Decision
  BY <1>3 DEF Decision
<1>6. r \in Result /\ r.decision = d
  BY <1>2, <1>3, <1>4, <1>5 DEF Result
<1>7. Finish(t, <<>>, r)
  BY <1>3 DEF JudgeReply
<1>8. Ends(t, <<>>, d)
  BY <1>5, <1>6, <1>7 DEF Finish, FinalLines, Ends
<1> QED BY <1>1, <1>3, <1>8

LEMMA EndsType ==
  ASSUME TypeInv, NEW t \in Thread, job[t].do # "idle", UNCHANGED asked,
         NEW before \in Seq(Line), NEW d, Ends(t, before, d)
  PROVE  /\ Placed' /\ job' \in [Thread -> Job] /\ audit' \in [Id -> Seq(Line)]
         /\ result' \in [Id -> Result]
<1>1. job[t].id \in Id
  BY ServedRequest
<1>2. before \o <<d>> \in Seq(Line)
  <2>1. <<d>> \in Seq(Line)
    BY DEF Line, Ends
  <2> QED BY <2>1
<1>3. audit' \in [Id -> Seq(Line)]
  BY <1>1, <1>2, AuditType DEF Ends
<1>4. result' \in [Id -> Result]
  BY <1>1 DEF TypeInv, TypeOK, Ends
<1>5. Placed' /\ job' \in [Thread -> Job]
  <2>1. Idle \in Job /\ ~Idle.building /\ Idle.todo = <<>>
    BY IdleJob
  <2> QED BY <2>1, JobStep DEF Ends
<1> QED BY <1>3, <1>4, <1>5

LEMMA LineTypes ==
  /\ <<>> \in Seq(Line)
  /\ <<"request_inspected">> \in Seq(Line) /\ <<"request_policy">> \in Seq(Line)
  /\ <<"provider_called">> \in Seq(Line) /\ <<"response_inspected">> \in Seq(Line)
  BY DEF Line

LEMMA InspectType ==
  ASSUME TypeInv, NEW t \in Thread, InspectRequest(t) \/ InspectReply(t)
  PROVE  TypeInv'
<1>1. job[t].do # "idle" /\ UNCHANGED asked
  BY DEF InspectRequest, InspectReply
<1>2. Placed' /\ job' \in [Thread -> Job]
  <2>1. PICK j \in Job : /\ job' = [job EXCEPT ![t] = j]
                         /\ j.do \in {"judge", "judgeReply"} /\ j.id = job[t].id
                         /\ ~j.building
    BY InspectRequestMoves, InspectReplyMoves
  <2> QED BY <1>1, <2>1, JobStep
<1>3. audit' \in [Id -> Seq(Line)]
  <2>1. job[t].id \in Id
    BY <1>1, ServedRequest
  <2> QED BY <2>1, AuditType, LineTypes DEF InspectRequest, InspectReply
<1> QED BY <1>2, <1>3 DEF TypeInv, TypeOK, InspectRequest, InspectReply

LEMMA JudgeRequestType ==
  ASSUME TypeInv, NEW t \in Thread, JudgeRequest(t)
  PROVE  TypeInv'
<1>1. job[t].do # "idle" /\ UNCHANGED asked
  BY DEF JudgeRequest
<1>2. /\ Placed' /\ job' \in [Thread -> Job] /\ audit' \in [Id -> Seq(Line)]
      /\ result' \in [Id -> Result]
  <2>1. CASE \E d : Ends(t, <<>>, d) \/ Ends(t, <<"request_policy">>, d)
    BY <1>1, <2>1, EndsType, LineTypes
  <2>2. CASE Audit(job[t].id, <<"request_policy">>) /\ UNCHANGED result
    <3>1. job[t].id \in Id
      BY <1>1, ServedRequest
    <3>2. audit' \in [Id -> Seq(Line)]
      BY <2>2, <3>1, AuditType, LineTypes
    <3>3. CASE \E j \in Job : /\ job' = [job EXCEPT ![t] = j]
                             /\ j.do = "call" /\ j.id = job[t].id /\ ~j.building
                             /\ j.todo = <<>>
      BY <1>1, <2>2, <3>2, <3>3, JobStep DEF TypeInv, TypeOK
    <3>4. CASE \E d : Ends(t, <<>>, d) \/ Ends(t, <<"request_policy">>, d)
      BY <2>1, <3>4
    <3> QED BY <3>3, <3>4, JudgeRequestMoves
  <2> QED BY <2>1, <2>2, JudgeRequestMoves
<1> QED BY <1>2 DEF TypeInv, TypeOK, JudgeRequest

LEMMA CallProviderType ==
  ASSUME TypeInv, NEW t \in Thread, CallProvider(t)
  PROVE  TypeInv'
<1>1. job[t].do # "idle" /\ UNCHANGED asked
  BY DEF CallProvider
<1>2. sent' \in [Id -> SUBSET Outgoing]
  BY CallProviderSends
<1>3. /\ Placed' /\ job' \in [Thread -> Job] /\ audit' \in [Id -> Seq(Line)]
      /\ result' \in [Id -> Result]
  <2>1. CASE Ends(t, <<>>, "ERROR")
    BY <1>1, <2>1, EndsType, LineTypes
  <2>2. CASE ~Ends(t, <<>>, "ERROR")
    <3>1. PICK j \in Job : /\ job' = [job EXCEPT ![t] = j]
                           /\ j.do \in {"call", "inspectReply"} /\ j.id = job[t].id
                           /\ ~j.building /\ j.todo = <<>>
      BY <2>2, CallProviderMoves
    <3>2. Placed' /\ job' \in [Thread -> Job]
      BY <1>1, <3>1, JobStep
    <3>3. UNCHANGED result /\ (UNCHANGED audit \/ Audit(job[t].id, <<"provider_called">>))
      BY <2>2, CallProviderMoves
    <3>4. job[t].id \in Id
      BY <1>1, ServedRequest
    <3>5. audit' \in [Id -> Seq(Line)]
      BY <3>3, <3>4, AuditType, LineTypes DEF TypeInv, TypeOK
    <3> QED BY <3>2, <3>3, <3>5 DEF TypeInv, TypeOK
  <2> QED BY <2>1, <2>2
<1> QED BY <1>2, <1>3 DEF TypeInv, TypeOK, CallProvider

LEMMA JudgeReplyType ==
  ASSUME TypeInv, NEW t \in Thread, JudgeReply(t)
  PROVE  TypeInv'
<1>1. job[t].do # "idle" /\ UNCHANGED asked
  BY DEF JudgeReply
<1>2. /\ Placed' /\ job' \in [Thread -> Job] /\ audit' \in [Id -> Seq(Line)]
      /\ result' \in [Id -> Result]
  BY <1>1, JudgeReplyMoves, EndsType, LineTypes
<1> QED BY <1>2 DEF TypeInv, TypeOK, JudgeReply

LEMMA RaiseType ==
  ASSUME TypeInv, NEW t \in Thread, Raise(t)
  PROVE  /\ TypeInv'
         /\ \A i \in Id : result'[i].decision =
              IF i = job[t].id THEN "crashed" ELSE result[i].decision
<1>1. job[t].do # "idle" /\ UNCHANGED asked /\ job' = [job EXCEPT ![t] = Idle]
  BY DEF Raise, Inspecting
<1>2. job[t].id \in Id
  BY <1>1, ServedRequest
<1>3. PICK r : r = [result[job[t].id] EXCEPT !.decision = "crashed"]
  OBVIOUS
<1>4. result[job[t].id] \in Result
  BY <1>2 DEF TypeInv, TypeOK
<1>5. r \in Result /\ r.decision = "crashed"
  BY <1>3, <1>4 DEF Result
<1>6. result \in [Id -> Result] /\ result' = [result EXCEPT ![job[t].id] = r]
  BY <1>3 DEF Raise, TypeInv, TypeOK
<1>7. result' \in [Id -> Result]
  BY <1>2, <1>5, <1>6
<1>8. Placed' /\ job' \in [Thread -> Job]
  <2>1. Idle \in Job /\ ~Idle.building /\ Idle.todo = <<>>
    BY IdleJob
  <2> QED BY <1>1, <2>1, JobStep
<1>9. failures' \in 0..MaxFailures
  BY DEF Raise, TypeInv, TypeOK
<1>10. TypeInv'
  BY <1>7, <1>8, <1>9 DEF TypeInv, TypeOK, Raise
<1> QED BY <1>2, <1>5, <1>6, <1>10

LEMMA TypePreserved == TypeInv /\ [Next]_vars => TypeInv'
<1> SUFFICES ASSUME TypeInv, [Next]_vars PROVE TypeInv'
  OBVIOUS
<1>1. ASSUME NEW t \in Thread, Work(t) PROVE TypeInv'
  BY <1>1, AnalyzerType, InspectType, EmitType, JudgeRequestType, CallProviderType,
     JudgeReplyType, RaiseType DEF Work
<1>2. ASSUME NEW t \in Thread, NEW q \in Requests, Receive(t, q) PROVE TypeInv'
  BY <1>2, ReceiveType
<1>3. CASE UNCHANGED vars
  BY <1>3 DEF vars, TypeInv, TypeOK, Placed
<1> QED BY <1>1, <1>2, <1>3 DEF Next

LEMMA TypeInitial == Init => TypeInv
<1> SUFFICES ASSUME Init PROVE TypeInv
  OBVIOUS
<1>1. Nothing \in Result
  BY DEF Nothing, Result, Text, Remains
<1>2. Idle \in Job /\ Idle.do = "idle" /\ ~Idle.building /\ Idle.todo = <<>>
  BY IdleJob
<1>3. <<>> \in Seq(Requests) /\ Len(<<>>) = 0 /\ <<>> \in Seq(Line)
  OBVIOUS
<1>4. TypeOK
  BY <1>1, <1>2, <1>3 DEF Init, TypeOK, ScannerState
<1>5. Placed
  BY <1>2 DEF Init, Placed
<1> QED BY <1>4, <1>5 DEF TypeInv

LEMMA TypeInvAlways == Spec => []TypeInv
<1> QED BY TypeInitial, TypePreserved, PTL DEF Spec

\* Trails, results, events and threads always hold what they may hold, for any texts: what
\* redaction leaves of a text is pieces of its occurrences.
THEOREM TypeCorrect == Spec => []TypeOK
<1>1. TypeInv => TypeOK
  BY DEF TypeInv
<1> QED BY <1>1, TypeInvAlways, PTL

-----------------------------------------------------------------------------
(* Whose request it is                                                     *)

\* What a step leaves alone: the other threads, and the other requests.
LEMMA WorkFrame ==
  ASSUME TypeInv, NEW t \in Thread, Work(t)
  PROVE  /\ job[t].do # "idle" /\ UNCHANGED <<asked, policy>>
         /\ \A s \in Thread \ {t} : job'[s] = job[s]
         /\ job'[t].do # "idle" => /\ job'[t].id = job[t].id
                                  /\ result'[job[t].id] = result[job[t].id]
         /\ \A i \in Id \ {job[t].id} : /\ audit'[i] = audit[i] /\ result'[i] = result[i]
                                       /\ sent'[i] = sent[i]
<1>1. /\ job \in [Thread -> Job] /\ job[t] \in Job /\ result \in [Id -> Result]
      /\ audit \in [Id -> Seq(Line)] /\ Idle.do = "idle"
  BY IdleJob DEF TypeInv, TypeOK
<1>2. job[t].do # "idle"
  BY DEF Work, BeginAnalyzer, EndAnalyzer, InspectRequest, Emit, JudgeRequest, CallProvider,
     InspectReply, JudgeReply, Raise, Inspecting, TypeInv, Placed
<1>3. UNCHANGED <<asked, policy>>
  BY DEF Work, BeginAnalyzer, EndAnalyzer, InspectRequest, Emit, JudgeRequest, CallProvider,
     InspectReply, JudgeReply, Raise
<1>4. \A d, before : Ends(t, before, d) =>
        /\ job' = [job EXCEPT ![t] = Idle]
        /\ \A i \in Id \ {job[t].id} : audit'[i] = audit[i] /\ result'[i] = result[i]
  BY <1>1 DEF Ends, Audit
<1>5. \A lines : Audit(job[t].id, lines) =>
        \A i \in Id \ {job[t].id} : audit'[i] = audit[i]
  BY <1>1 DEF Audit
<1>6. CASE BeginAnalyzer(t) \/ EndAnalyzer(t)
  BY <1>1, <1>2, <1>3, <1>6 DEF BeginAnalyzer, EndAnalyzer, Job
<1>7. CASE InspectRequest(t) \/ InspectReply(t)
  <2>1. PICK j \in Job : job' = [job EXCEPT ![t] = j] /\ j.id = job[t].id
    BY <1>7, InspectRequestMoves, InspectReplyMoves
  <2>2. UNCHANGED <<result, sent>> /\ \E lines : Audit(job[t].id, lines)
    BY <1>7 DEF InspectRequest, InspectReply
  <2> QED BY <1>1, <1>2, <1>3, <1>5, <2>1, <2>2
<1>8. CASE Emit(t)
  BY <1>1, <1>2, <1>3, <1>8 DEF Emit, Job
<1>9. CASE JudgeRequest(t)
  <2>1. UNCHANGED sent
    BY <1>9 DEF JudgeRequest
  <2>2. CASE \E d, before : Ends(t, before, d)
    BY <1>1, <1>2, <1>3, <1>4, <2>1, <2>2
  <2>3. CASE ~\E d, before : Ends(t, before, d)
    <3>1. PICK j \in Job : job' = [job EXCEPT ![t] = j] /\ j.id = job[t].id
      BY <1>9, <2>3, JudgeRequestMoves
    <3>2. UNCHANGED result /\ \E lines : Audit(job[t].id, lines)
      BY <1>9, <2>3, JudgeRequestMoves
    <3> QED BY <1>1, <1>2, <1>3, <1>5, <2>1, <3>1, <3>2
  <2> QED BY <2>2, <2>3
<1>10. CASE CallProvider(t)
  <2>1. \A i \in Id : i # job[t].id => sent'[i] = sent[i]
    BY <1>10, CallProviderSends
  <2>2. CASE \E d, before : Ends(t, before, d)
    BY <1>1, <1>2, <1>3, <1>4, <2>1, <2>2
  <2>3. CASE ~\E d, before : Ends(t, before, d)
    <3>1. PICK j \in Job : job' = [job EXCEPT ![t] = j] /\ j.id = job[t].id
      BY <1>10, <2>3, CallProviderMoves
    <3>2. UNCHANGED result /\ (UNCHANGED audit \/ \E lines : Audit(job[t].id, lines))
      BY <1>10, <2>3, CallProviderMoves
    <3> QED BY <1>1, <1>2, <1>3, <1>5, <2>1, <3>1, <3>2
  <2> QED BY <2>2, <2>3
<1>11. CASE JudgeReply(t)
  <2>1. UNCHANGED sent /\ \E d, before : Ends(t, before, d)
    BY <1>11, JudgeReplyMoves DEF JudgeReply
  <2> QED BY <1>1, <1>2, <1>3, <1>4, <2>1
<1>12. CASE Raise(t)
  BY <1>1, <1>2, <1>3, <1>12 DEF Raise
<1> QED BY <1>6, <1>7, <1>8, <1>9, <1>10, <1>11, <1>12 DEF Work

\* A request that is served is undecided and has a thread of its own; one that was not
\* asked has left no trace.
AloneInv ==
  /\ \A t, s \in Thread :
       t # s /\ job[t].do # "idle" /\ job[s].do # "idle" => job[t].id # job[s].id
  /\ \A t \in Thread : job[t].do # "idle" => result[job[t].id].decision = "pending"
  /\ \A i \in Id \ DOMAIN asked :
       result[i].decision = "pending" /\ audit[i] = <<>> /\ sent[i] = {}

\* What is new when a request comes in.
LEMMA ReceiveMoves ==
  ASSUME TypeInv, NEW t \in Thread, NEW q \in Requests, Receive(t, q)
  PROVE  \E i \in Id \ DOMAIN asked :
           /\ job[t].do = "idle" /\ job'[t].do = "inspect" /\ job'[t].id = i
           /\ job'[t].todo = <<>>
           /\ \A s \in Thread \ {t} : job'[s] = job[s]
           /\ DOMAIN asked' = DOMAIN asked \cup {i} /\ asked'[i] = q
           /\ \A k \in DOMAIN asked : asked'[k] = asked[k]
           /\ Audit(i, <<"request_received">>)
           /\ UNCHANGED <<policy, events, lost, result, sent>>
<1>1. PICK n, j : n = Len(asked) + 1 /\ j = [Idle EXCEPT !.id = n, !.do = "inspect"]
  OBVIOUS
<1>2. /\ asked \in Seq(Requests) /\ Len(asked) \in Nat /\ n \in Id
      /\ job \in [Thread -> Job] /\ job' = [job EXCEPT ![t] = j]
      /\ asked' = Append(asked, q) /\ Len(asked) < MaxRequests
      /\ Audit(n, <<"request_received">>)
      /\ UNCHANGED <<policy, events, lost, result, sent>>
  BY <1>1 DEF TypeInv, TypeOK, Receive, Id
<1>3. j.id = n /\ j.do = "inspect" /\ j.todo = <<>>
  BY <1>1 DEF Idle
<1>4. job[t].do = "idle"
  BY IdleJob DEF Receive
<1>5. /\ n \notin DOMAIN asked /\ DOMAIN asked' = DOMAIN asked \cup {n} /\ asked'[n] = q
      /\ \A k \in DOMAIN asked : asked'[k] = asked[k]
  BY <1>1, <1>2
<1>6. job'[t] = j /\ \A s \in Thread \ {t} : job'[s] = job[s]
  BY <1>2
<1> QED BY <1>2, <1>3, <1>4, <1>5, <1>6

LEMMA AloneNext == TypeInv /\ AloneInv /\ [Next]_vars => AloneInv'
<1> SUFFICES ASSUME TypeInv, AloneInv, [Next]_vars PROVE AloneInv'
  OBVIOUS
<1>0. \A s \in Thread : job[s].do # "idle" => job[s].id \in Id /\ job[s].id \in DOMAIN asked
  BY ServedRequest
<1>1. ASSUME NEW t \in Thread, Work(t) PROVE AloneInv'
  <2>1. /\ job[t].do # "idle" /\ UNCHANGED <<asked, policy>>
        /\ \A s \in Thread \ {t} : job'[s] = job[s]
        /\ job'[t].do # "idle" => /\ job'[t].id = job[t].id
                                 /\ result'[job[t].id] = result[job[t].id]
        /\ \A i \in Id \ {job[t].id} : /\ audit'[i] = audit[i] /\ result'[i] = result[i]
                                      /\ sent'[i] = sent[i]
    BY <1>1, WorkFrame
  <2> QED BY <1>0, <2>1 DEF AloneInv
<1>2. ASSUME NEW t \in Thread, NEW q \in Requests, Receive(t, q) PROVE AloneInv'
  <2>1. PICK i \in Id \ DOMAIN asked :
           /\ job[t].do = "idle" /\ job'[t].do = "inspect" /\ job'[t].id = i
           /\ \A s \in Thread \ {t} : job'[s] = job[s]
           /\ DOMAIN asked' = DOMAIN asked \cup {i}
           /\ Audit(i, <<"request_received">>)
           /\ UNCHANGED <<policy, events, lost, result, sent>>
    BY <1>2, ReceiveMoves
  <2>2. \A k \in Id \ {i} : audit'[k] = audit[k]
    BY <2>1 DEF Audit, TypeInv, TypeOK
  <2> QED BY <1>0, <2>1, <2>2 DEF AloneInv
<1>3. CASE UNCHANGED vars
  BY <1>3 DEF vars, AloneInv
<1> QED BY <1>1, <1>2, <1>3 DEF Next

LEMMA AloneInvAlways == Spec => []AloneInv
<1>1. Init => AloneInv
  BY IdleJob DEF Init, AloneInv, Nothing
<1> QED BY <1>1, AloneNext, TypeInvAlways, PTL DEF Spec

-----------------------------------------------------------------------------
(* The audit trail                                                         *)

\* The lines of a request that nothing stops, and how many a thread has written.
Full == <<"request_received", "request_inspected", "request_policy", "provider_called",
          "response_inspected">>
Written == [inspect |-> 1, judge |-> 2, call |-> 3, inspectReply |-> 4, judgeReply |-> 5]

Follows(trail, n) == Len(trail) = n /\ \A k \in 1..n : trail[k] = Full[k]
Ended(trail, n, d) ==
  Len(trail) = n + 1 /\ trail[n + 1] = d /\ \A k \in 1..n : trail[k] = Full[k]

LEMMA FullLines ==
  /\ Full[1] = "request_received" /\ Full[2] = "request_inspected"
  /\ Full[3] = "request_policy" /\ Full[4] = "provider_called"
  /\ Full[5] = "response_inspected"
  BY DEF Full

LEMMA Longer ==
  ASSUME NEW trail \in Seq(Line), NEW line \in Line
  PROVE  /\ trail \o <<line>> \in Seq(Line)
         /\ Len(trail \o <<line>>) = Len(trail) + 1 /\ Len(trail) \in Nat
         /\ (trail \o <<line>>)[Len(trail) + 1] = line
         /\ \A k \in 1..Len(trail) : (trail \o <<line>>)[k] = trail[k]
<1>1. <<line>> \in Seq(Line) /\ Len(<<line>>) = 1
  OBVIOUS
<1> QED BY <1>1

LEMMA Grows ==
  ASSUME NEW trail \in Seq(Line), NEW n \in 0..4, Follows(trail, n), Full[n + 1] \in Line
  PROVE  Follows(trail \o <<Full[n + 1]>>, n + 1)
<1>1. PICK line, longer : line = Full[n + 1] /\ longer = trail \o <<line>>
  OBVIOUS
<1> line \in Line
  BY <1>1
<1>2. /\ Len(trail) = n /\ Len(longer) = n + 1 /\ longer[n + 1] = line
      /\ \A k \in 1..n : longer[k] = trail[k] /\ trail[k] = Full[k]
  BY <1>1, Longer DEF Follows
<1>3. ASSUME NEW k \in 1..(n + 1) PROVE longer[k] = Full[k]
  <2>1. k \in 1..n \/ k = n + 1
    BY <1>3
  <2> QED BY <1>1, <1>2, <2>1
<1> QED BY <1>1, <1>2, <1>3 DEF Follows

LEMMA NextLine ==
  ASSUME NEW trail \in Seq(Line)
  PROVE  /\ Follows(trail, 0) => Follows(trail \o <<"request_received">>, 1)
         /\ Follows(trail, 1) => Follows(trail \o <<"request_inspected">>, 2)
         /\ Follows(trail, 2) => Follows(trail \o <<"request_policy">>, 3)
         /\ Follows(trail, 3) => Follows(trail \o <<"provider_called">>, 4)
         /\ Follows(trail, 4) => Follows(trail \o <<"response_inspected">>, 5)
<1>1. \A n \in 0..4 : Full[n + 1] \in Line
  <2>1. \A n \in 0..4 : n + 1 \in {1, 2, 3, 4, 5}
    OBVIOUS
  <2> QED BY <2>1, FullLines DEF Line
<1>2. \A n \in 0..4 : Follows(trail, n) => Follows(trail \o <<Full[n + 1]>>, n + 1)
  BY <1>1, Grows
<1>3. /\ Follows(trail, 0) => Follows(trail \o <<Full[0 + 1]>>, 0 + 1)
      /\ Follows(trail, 1) => Follows(trail \o <<Full[1 + 1]>>, 1 + 1)
      /\ Follows(trail, 2) => Follows(trail \o <<Full[2 + 1]>>, 2 + 1)
      /\ Follows(trail, 3) => Follows(trail \o <<Full[3 + 1]>>, 3 + 1)
      /\ Follows(trail, 4) => Follows(trail \o <<Full[4 + 1]>>, 4 + 1)
  BY <1>2
<1> QED BY <1>3, FullLines

LEMMA Closes ==
  ASSUME NEW trail \in Seq(Line), NEW n \in 1..5, Follows(trail, n), NEW d \in Decision
  PROVE  Ended(trail \o <<d>>, n, d)
<1>1. d \in Line
  BY DEF Line
<1>2. PICK longer : longer = trail \o <<d>>
  OBVIOUS
<1>3. /\ Len(trail) = n /\ Len(longer) = n + 1 /\ longer[n + 1] = d
      /\ \A k \in 1..n : longer[k] = trail[k] /\ trail[k] = Full[k]
  BY <1>1, <1>2, Longer DEF Follows
<1> QED BY <1>2, <1>3 DEF Ended

\* The trail that JudgeRequest writes at once when the route is unknown.
LEMMA PolicyThenDecision ==
  ASSUME NEW trail \in Seq(Line), Follows(trail, 2), NEW d \in Decision
  PROVE  Ended(trail \o (<<"request_policy">> \o <<d>>), 3, d)
<1>1. PICK more, longer : more = <<"request_policy">> \o <<d>> /\ longer = trail \o more
  OBVIOUS
<1>2. more \in Seq(Line) /\ Len(more) = 2 /\ more[1] = "request_policy" /\ more[2] = d
  <2>1. /\ <<"request_policy">> \in Seq(Line) /\ Len(<<"request_policy">>) = 1
        /\ <<"request_policy">>[1] = "request_policy"
    BY DEF Line
  <2>2. d \in Line
    BY DEF Line
  <2>3. PICK first : first = <<"request_policy">>
    OBVIOUS
  <2>4. first \in Seq(Line) /\ Len(first) = 1 /\ first[1] = "request_policy"
    BY <2>1, <2>3
  <2> QED BY <1>1, <2>2, <2>3, <2>4, Longer
<1>3. /\ Len(trail) = 2 /\ Len(longer) = 4
      /\ \A k \in 1..2 : longer[k] = trail[k]
      /\ longer[3] = more[1] /\ longer[4] = more[2]
  <2>1. /\ Len(longer) = Len(trail) + Len(more)
        /\ \A k \in 1..Len(trail) : longer[k] = trail[k]
        /\ \A k \in 1..Len(more) : longer[Len(trail) + k] = more[k]
    BY <1>1, <1>2
  <2>2. Len(trail) = 2
    BY DEF Follows
  <2> QED BY <1>2, <2>1, <2>2
<1>4. \A k \in 1..3 : longer[k] = Full[k]
  <2>1. \A k \in 1..3 : k \in 1..2 \/ k = 3
    OBVIOUS
  <2> QED BY <1>2, <1>3, <2>1, FullLines DEF Follows
<1> QED BY <1>1, <1>2, <1>3, <1>4 DEF Ended

TrailInv ==
  /\ \A t \in Thread :
       job[t].do # "idle" => Follows(audit[job[t].id], Written[job[t].do])
  /\ \A i \in Id :
       IF result[i].decision \in Decision
       THEN \E n \in 1..5 : Ended(audit[i], n, result[i].decision)
       ELSE \E n \in 0..5 : Follows(audit[i], n)
  /\ \A i \in Id : sent[i] # {} => Len(audit[i]) >= 3 /\ audit[i][3] = "request_policy"

\* A step writes the next line, or ends the trail, or leaves it.
Advance(t, i) ==
  \/ /\ job'[t].do # "idle" /\ result'[i].decision = "pending"
     /\ Follows(audit'[i], Written[job'[t].do])
     /\ Written[job'[t].do] >= Written[job[t].do] /\ Written[job'[t].do] \in 1..5
  \/ /\ job'[t].do = "idle" /\ result'[i].decision \in Decision
     /\ \E n \in 1..5 : /\ n >= Written[job[t].do]
                        /\ Ended(audit'[i], n, result'[i].decision)
  \/ /\ job'[t].do = "idle" /\ result'[i].decision = "crashed"
     /\ audit'[i] = audit[i]

LEMMA TrailMoves ==
  ASSUME TypeInv, AloneInv, TrailInv, NEW t \in Thread, Work(t)
  PROVE  Advance(t, job[t].id)
<1>1. /\ job \in [Thread -> Job] /\ job[t] \in Job /\ result \in [Id -> Result]
      /\ audit \in [Id -> Seq(Line)] /\ Idle.do = "idle"
  BY IdleJob DEF TypeInv, TypeOK
<1>2. job[t].do # "idle"
  BY WorkFrame
<1>3. PICK i \in Id, trail \in Seq(Line) : i = job[t].id /\ trail = audit[i]
  BY <1>1, <1>2, ServedRequest
<1>4. Follows(trail, Written[job[t].do]) /\ result[i].decision = "pending"
  BY <1>2, <1>3 DEF TrailInv, AloneInv
<1>5. \A lines : Audit(i, lines) => audit'[i] = trail \o lines
  BY <1>1, <1>3 DEF Audit
<1>6. \A before, d : Ends(t, before, d) =>
        /\ job'[t].do = "idle" /\ d \in Decision /\ result'[i].decision = d
        /\ audit'[i] = trail \o (before \o <<d>>)
  BY <1>1, <1>3, <1>5 DEF Ends
<1>7. /\ Written["inspect"] = 1 /\ Written["judge"] = 2 /\ Written["call"] = 3
      /\ Written["inspectReply"] = 4 /\ Written["judgeReply"] = 5
  BY DEF Written
<1>8. \A d : d \in Decision => <<>> \o <<d>> = <<d>>
  <2>1. ASSUME NEW d \in Decision PROVE <<>> \o <<d>> = <<d>>
    <3>1. <<d>> \in Seq(Decision)
      OBVIOUS
    <3> QED BY <3>1
  <2> QED BY <2>1
<1>9. ASSUME NEW d \in Decision, NEW n \in 1..5,
             job'[t].do = "idle", result'[i].decision = d, Ended(audit'[i], n, d),
             n >= Written[job[t].do]
      PROVE  Advance(t, i)
  BY <1>9 DEF Advance
<1>10. CASE BeginAnalyzer(t) \/ EndAnalyzer(t) \/ Emit(t)
  <2>1. job'[t].do = job[t].do /\ UNCHANGED <<audit, result>>
    BY <1>1, <1>10 DEF BeginAnalyzer, EndAnalyzer, Emit, Job
  <2>2. Written[job[t].do] \in 1..5
    BY <1>1, <1>2, <1>7 DEF Job, Stage
  <2> QED BY <1>2, <1>3, <1>4, <2>1, <2>2 DEF Advance
<1>11. CASE InspectRequest(t)
  <2>1. job[t].do = "inspect" /\ job'[t].do = "judge"
    BY <1>1, <1>11, InspectRequestMoves
  <2>2. audit'[i] = trail \o <<"request_inspected">> /\ UNCHANGED result
    BY <1>3, <1>5, <1>11 DEF InspectRequest
  <2>3. Follows(trail \o <<"request_inspected">>, 2)
    BY <1>4, <1>7, <2>1, NextLine
  <2> QED BY <1>3, <1>4, <1>7, <2>1, <2>2, <2>3 DEF Advance
<1>12. CASE JudgeRequest(t)
  <2>1. job[t].do = "judge"
    BY <1>12, JudgeRequestMoves
  <2>2. CASE Ends(t, <<>>, "BLOCK")
    <3>1. /\ "BLOCK" \in Decision /\ job'[t].do = "idle" /\ result'[i].decision = "BLOCK"
          /\ audit'[i] = trail \o <<"BLOCK">>
      BY <1>6, <1>8, <2>2
    <3>2. Ended(audit'[i], 2, "BLOCK")
      BY <1>4, <1>7, <2>1, <3>1, Closes
    <3> QED BY <1>3, <1>7, <1>9, <2>1, <3>1, <3>2
  <2>3. CASE Ends(t, <<"request_policy">>, "ERROR")
    <3>1. /\ "ERROR" \in Decision /\ job'[t].do = "idle" /\ result'[i].decision = "ERROR"
          /\ audit'[i] = trail \o (<<"request_policy">> \o <<"ERROR">>)
      <4>1. PICK before, d : before = <<"request_policy">> /\ d = "ERROR"
        OBVIOUS
      <4>2. Ends(t, before, d)
        BY <2>3, <4>1
      <4>3. /\ d \in Decision /\ job'[t].do = "idle" /\ result'[i].decision = d
            /\ audit'[i] = trail \o (before \o <<d>>)
        BY <1>6, <4>2
      <4> QED BY <4>1, <4>3
    <3>2. Ended(audit'[i], 3, "ERROR")
      BY <1>4, <1>7, <2>1, <3>1, PolicyThenDecision
    <3> QED BY <1>3, <1>7, <1>9, <2>1, <3>1, <3>2
  <2>4. CASE ~Ends(t, <<>>, "BLOCK") /\ ~Ends(t, <<"request_policy">>, "ERROR")
    <3>1. job'[t].do = "call" /\ UNCHANGED result /\ audit'[i] = trail \o <<"request_policy">>
      BY <1>1, <1>3, <1>5, <1>12, <2>4, JudgeRequestMoves
    <3>2. Follows(trail \o <<"request_policy">>, 3)
      BY <1>4, <1>7, <2>1, NextLine
    <3> QED BY <1>3, <1>4, <1>7, <2>1, <3>1, <3>2 DEF Advance
  <2> QED BY <2>2, <2>3, <2>4
<1>13. CASE CallProvider(t)
  <2>1. job[t].do = "call"
    BY <1>13, CallProviderMoves
  <2>2. CASE Ends(t, <<>>, "ERROR")
    <3>1. /\ "ERROR" \in Decision /\ job'[t].do = "idle" /\ result'[i].decision = "ERROR"
          /\ audit'[i] = trail \o <<"ERROR">>
      BY <1>6, <1>8, <2>2
    <3>2. Ended(audit'[i], 3, "ERROR")
      BY <1>4, <1>7, <2>1, <3>1, Closes
    <3> QED BY <1>3, <1>7, <1>9, <2>1, <3>1, <3>2
  <2>3. CASE ~Ends(t, <<>>, "ERROR")
    <3>1. \/ job'[t].do = "call" /\ UNCHANGED <<audit, result>>
          \/ /\ job'[t].do = "inspectReply" /\ UNCHANGED result
             /\ audit'[i] = trail \o <<"provider_called">>
      BY <1>1, <1>3, <1>5, <1>13, <2>3, CallProviderMoves
    <3>2. Follows(trail \o <<"provider_called">>, 4)
      BY <1>4, <1>7, <2>1, NextLine
    <3>3. CASE job'[t].do = "call" /\ UNCHANGED <<audit, result>>
      BY <1>3, <1>4, <1>7, <2>1, <3>3 DEF Advance
    <3>4. CASE /\ job'[t].do = "inspectReply" /\ UNCHANGED result
               /\ audit'[i] = trail \o <<"provider_called">>
      BY <1>3, <1>4, <1>7, <2>1, <3>2, <3>4 DEF Advance
    <3> QED BY <3>1, <3>3, <3>4
  <2> QED BY <2>2, <2>3
<1>14. CASE InspectReply(t)
  <2>1. job[t].do = "inspectReply" /\ job'[t].do = "judgeReply"
    BY <1>1, <1>14, InspectReplyMoves
  <2>2. audit'[i] = trail \o <<"response_inspected">> /\ UNCHANGED result
    BY <1>3, <1>5, <1>14 DEF InspectReply
  <2>3. Follows(trail \o <<"response_inspected">>, 5)
    BY <1>4, <1>7, <2>1, NextLine
  <2> QED BY <1>3, <1>4, <1>7, <2>1, <2>2, <2>3 DEF Advance
<1>15. CASE JudgeReply(t)
  <2>1. PICK d : job[t].do = "judgeReply" /\ Ends(t, <<>>, d)
    BY <1>15, JudgeReplyMoves
  <2>2. /\ d \in Decision /\ job'[t].do = "idle" /\ result'[i].decision = d
        /\ audit'[i] = trail \o <<d>>
    BY <1>6, <1>8, <2>1
  <2>3. Ended(audit'[i], 5, d)
    BY <1>4, <1>7, <2>1, <2>2, Closes
  <2> QED BY <1>3, <1>7, <1>9, <2>1, <2>2, <2>3
<1>16. CASE Raise(t)
  BY <1>1, <1>3, <1>16, RaiseType DEF Raise, Advance
<1> QED BY <1>10, <1>11, <1>12, <1>13, <1>14, <1>15, <1>16 DEF Work

LEMMA SendsWhenCalling ==
  ASSUME NEW t \in Thread, Work(t), sent' # sent
  PROVE  job[t].do = "call"
  BY DEF Work, BeginAnalyzer, EndAnalyzer, InspectRequest, Emit, JudgeRequest, CallProvider,
     InspectReply, JudgeReply, Raise

LEMMA TrailNext == TypeInv /\ AloneInv /\ TrailInv /\ [Next]_vars => TrailInv'
<1> SUFFICES ASSUME TypeInv, AloneInv, TrailInv, [Next]_vars PROVE TrailInv'
  OBVIOUS
<1>0. \A s \in Thread : job[s].do # "idle" => job[s].id \in Id /\ job[s].id \in DOMAIN asked
  BY ServedRequest
<1>1. ASSUME NEW t \in Thread, Work(t) PROVE TrailInv'
  <2>1. /\ job[t].do # "idle" /\ UNCHANGED <<asked, policy>>
        /\ \A s \in Thread \ {t} : job'[s] = job[s]
        /\ job'[t].do # "idle" => /\ job'[t].id = job[t].id
                                 /\ result'[job[t].id] = result[job[t].id]
        /\ \A k \in Id \ {job[t].id} : /\ audit'[k] = audit[k] /\ result'[k] = result[k]
                                      /\ sent'[k] = sent[k]
    BY <1>1, WorkFrame
  <2>2. PICK i \in Id : i = job[t].id
    BY <1>0, <2>1
  <2>3. Advance(t, i) /\ Follows(audit[i], Written[job[t].do])
    BY <1>1, <2>1, <2>2, TrailMoves DEF TrailInv
  <2>4. \A s \in Thread :
          job'[s].do # "idle" => Follows(audit'[job'[s].id], Written[job'[s].do])
    <3>1. \A s \in Thread \ {t} : job[s].do # "idle" => job[s].id \in Id \ {i}
      BY <1>0, <2>1, <2>2 DEF AloneInv
    <3> QED BY <2>1, <2>2, <2>3, <3>1 DEF TrailInv, Advance
  <2>5. IF result'[i].decision \in Decision
        THEN \E n \in 1..5 : Ended(audit'[i], n, result'[i].decision)
        ELSE \E n \in 0..5 : Follows(audit'[i], n)
    <3>1. "pending" \notin Decision /\ "crashed" \notin Decision
      BY DEF Decision
    <3>2. \E n \in 0..5 : Follows(audit[i], n)
      <4>1. result[i].decision = "pending"
        BY <2>1, <2>2 DEF AloneInv
      <4> QED BY <3>1, <4>1 DEF TrailInv
    <3> QED BY <2>3, <3>1, <3>2 DEF Advance
  <2>6. sent'[i] # {} => Len(audit'[i]) >= 3 /\ audit'[i][3] = "request_policy"
    <3> SUFFICES ASSUME sent'[i] # {}
                 PROVE  Len(audit'[i]) >= 3 /\ audit'[i][3] = "request_policy"
      OBVIOUS
    <3>1. PICK m : m = Written[job[t].do]
      OBVIOUS
    <3>2. m \in 1..5
      <4>1. job[t] \in Job
        BY DEF TypeInv, TypeOK
      <4> QED BY <2>1, <3>1, <4>1 DEF Written, Job, Stage
    <3>3. m >= 3
      <4>1. CASE sent' = sent
        BY <2>3, <3>1, <4>1 DEF TrailInv, Follows
      <4>2. CASE sent' # sent
        BY <1>1, <3>1, <4>2, SendsWhenCalling DEF Written
      <4> QED BY <4>1, <4>2
    <3>4. Len(audit[i]) >= 3 /\ audit[i][3] = "request_policy"
      BY <2>3, <3>1, <3>2, <3>3, FullLines DEF Follows
    <3>5. ASSUME NEW n \in 1..5, n >= m, Ended(audit'[i], n, result'[i].decision)
          PROVE  Len(audit'[i]) >= 3 /\ audit'[i][3] = "request_policy"
      BY <3>2, <3>3, <3>5, FullLines DEF Ended
    <3>6. ASSUME NEW n \in 1..5, n >= m, Follows(audit'[i], n)
          PROVE  Len(audit'[i]) >= 3 /\ audit'[i][3] = "request_policy"
      BY <3>2, <3>3, <3>6, FullLines DEF Follows
    <3> QED BY <2>3, <3>1, <3>4, <3>5, <3>6 DEF Advance
  <2> QED BY <2>1, <2>2, <2>4, <2>5, <2>6 DEF TrailInv
<1>2. ASSUME NEW t \in Thread, NEW q \in Requests, Receive(t, q) PROVE TrailInv'
  <2>1. PICK i \in Id \ DOMAIN asked :
           /\ job[t].do = "idle" /\ job'[t].do = "inspect" /\ job'[t].id = i
           /\ \A s \in Thread \ {t} : job'[s] = job[s]
           /\ Audit(i, <<"request_received">>)
           /\ UNCHANGED <<policy, events, lost, result, sent>>
    BY <1>2, ReceiveMoves
  <2>2. /\ audit'[i] = audit[i] \o <<"request_received">>
        /\ \A k \in Id \ {i} : audit'[k] = audit[k]
    BY <2>1 DEF Audit, TypeInv, TypeOK
  <2>3. Follows(audit'[i], 1)
    <3>1. audit[i] = <<>> /\ audit[i] \in Seq(Line)
      BY <2>1 DEF AloneInv, TypeInv, TypeOK
    <3>2. Follows(audit[i], 0)
      BY <3>1 DEF Follows
    <3> QED BY <2>2, <3>1, <3>2, NextLine
  <2>4. result'[i].decision \notin Decision /\ sent'[i] = {}
    BY <2>1 DEF AloneInv, Decision
  <2>5. Written["inspect"] = 1
    BY DEF Written
  <2>6. \A s \in Thread :
          job'[s].do # "idle" => Follows(audit'[job'[s].id], Written[job'[s].do])
    <3>1. Follows(audit'[job'[t].id], Written[job'[t].do])
      BY <2>1, <2>3, <2>5
    <3>2. \A s \in Thread \ {t} : job[s].do # "idle" => job[s].id \in Id \ {i}
      BY <1>0, <2>1
    <3>3. \A s \in Thread \ {t} :
            job'[s].do # "idle" => Follows(audit'[job'[s].id], Written[job'[s].do])
      BY <2>1, <2>2, <3>2 DEF TrailInv
    <3> QED BY <3>1, <3>3
  <2>7. ASSUME NEW k \in Id
        PROVE  IF result'[k].decision \in Decision
               THEN \E n \in 1..5 : Ended(audit'[k], n, result'[k].decision)
               ELSE \E n \in 0..5 : Follows(audit'[k], n)
    <3>1. CASE k = i
      BY <2>3, <2>4, <3>1
    <3>2. CASE k # i
      BY <2>1, <2>2, <3>2 DEF TrailInv
    <3> QED BY <3>1, <3>2
  <2>8. ASSUME NEW k \in Id, sent'[k] # {}
        PROVE  Len(audit'[k]) >= 3 /\ audit'[k][3] = "request_policy"
    BY <2>1, <2>2, <2>4, <2>8 DEF TrailInv
  <2> QED BY <2>6, <2>7, <2>8 DEF TrailInv
<1>3. CASE UNCHANGED vars
  BY <1>3 DEF vars, TrailInv
<1> QED BY <1>1, <1>2, <1>3 DEF Next

LEMMA InitTrail == Init => TrailInv
<1> SUFFICES ASSUME Init PROVE TrailInv
  OBVIOUS
<1>1. Follows(<<>>, 0)
  BY DEF Follows
<1> QED BY <1>1, IdleJob DEF Init, TrailInv, Nothing, Decision

LEMMA TrailInvAlways == Spec => []TrailInv
<1> QED BY InitTrail, TrailNext, TypeInvAlways, AloneInvAlways, PTL DEF Spec

\* A trail whose lines all differ has as many of them as places.
LEMMA Distinct ==
  ASSUME NEW trail \in Seq(Line),
         \A k, m \in 1..Len(trail) : trail[k] = trail[m] => k = m
  PROVE  Cardinality({trail[k] : k \in DOMAIN trail}) = Len(trail)
<1>1. DOMAIN trail = 1..Len(trail) /\ Len(trail) \in Nat
  OBVIOUS
<1>2. PICK S : S = {trail[k] : k \in DOMAIN trail}
  OBVIOUS
<1>3. /\ trail \in [1..Len(trail) -> S]
      /\ \A e \in S : \E k \in 1..Len(trail) : trail[k] = e
  BY <1>1, <1>2
<1>4. trail \in Injection(1..Len(trail), S) /\ trail \in Surjection(1..Len(trail), S)
  <2>1. PICK N : N = 1..Len(trail)
    OBVIOUS
  <2>2. \A k, m \in N : trail[k] = trail[m] => k = m
    BY <2>1
  <2>3. trail \in [N -> S] /\ \A e \in S : \E k \in N : trail[k] = e
    BY <1>3, <2>1
  <2>4. trail \in Injection(N, S)
    BY <2>2, <2>3 DEF Injection, IsInjective
  <2>5. trail \in Surjection(N, S)
    BY <2>3 DEF Surjection
  <2> QED BY <2>1, <2>4, <2>5
<1>5. trail \in Bijection(1..Len(trail), S)
  BY <1>4 DEF Bijection
<1> QED BY <1>1, <1>2, <1>5, FS_CountingElements DEF ExistsBijection

\* The lines that are not decisions differ from each other and from the decisions.
LEMMA FullDiffers ==
  /\ \A k, m \in 1..5 : Full[k] = Full[m] => k = m
  /\ \A k \in 1..5 : Full[k] \notin Decision
<1>1. \A k \in 1..5 : k \in {1, 2, 3, 4, 5}
  OBVIOUS
<1> QED BY <1>1, FullLines DEF Decision

LEMMA FollowsTells ==
  ASSUME NEW i \in Id, audit[i] \in Seq(Line), NEW n \in 0..5, Follows(audit[i], n)
  PROVE  Cardinality(Lines(i)) = Len(audit[i]) /\ Lines(i) \cap Decision = {}
<1>1. PICK trail : trail = audit[i]
  OBVIOUS
<1>2. /\ trail \in Seq(Line) /\ Len(trail) = n /\ DOMAIN trail = 1..n
      /\ \A k \in 1..n : trail[k] = Full[k] /\ k \in 1..5
  BY <1>1 DEF Follows
<1>3. \A k, m \in 1..Len(trail) : trail[k] = trail[m] => k = m
  BY <1>2, FullDiffers
<1>4. Lines(i) = {trail[k] : k \in DOMAIN trail}
  BY <1>1 DEF Lines
<1>5. Cardinality({trail[k] : k \in DOMAIN trail}) = Len(trail)
  BY <1>2, <1>3, Distinct
<1>6. Lines(i) \cap Decision = {}
  BY <1>2, <1>4, FullDiffers
<1> QED BY <1>1, <1>4, <1>5, <1>6

LEMMA EndedTells ==
  ASSUME NEW i \in Id, audit[i] \in Seq(Line), NEW n \in 1..5, NEW d \in Decision,
         Ended(audit[i], n, d)
  PROVE  /\ Cardinality(Lines(i)) = Len(audit[i]) /\ audit[i][Len(audit[i])] = d
         /\ Cardinality(Lines(i) \cap Decision) = 1
<1>1. PICK trail : trail = audit[i]
  OBVIOUS
<1>2. /\ trail \in Seq(Line) /\ Len(trail) = n + 1 /\ DOMAIN trail = 1..(n + 1)
      /\ trail[n + 1] = d
      /\ \A k \in 1..n : trail[k] = Full[k] /\ k \in 1..5
  BY <1>1 DEF Ended
<1>3. \A k \in 1..(n + 1) : k \in 1..n \/ k = n + 1
  OBVIOUS
<1>4. \A k, m \in 1..Len(trail) : trail[k] = trail[m] => k = m
  BY <1>2, <1>3, FullDiffers
<1>5. Lines(i) = {trail[k] : k \in DOMAIN trail}
  BY <1>1 DEF Lines
<1>6. Cardinality({trail[k] : k \in DOMAIN trail}) = Len(trail)
  BY <1>2, <1>4, Distinct
<1>7. n + 1 \in 1..(n + 1)
  OBVIOUS
<1>8. Lines(i) \cap Decision = {d}
  BY <1>2, <1>3, <1>5, <1>7, FullDiffers
<1> QED BY <1>1, <1>2, <1>5, <1>6, <1>8, FS_Singleton

\* The audit trail tells the decision the client got: whatever the threads do and however
\* a request ends, no trail holds two decisions, a line twice or a decision without a
\* result, and none lacks the policy line when a provider was sent the request.
THEOREM TrailsTellTheDecision == Spec => []TrailTellsDecision
<1>1. ASSUME TypeInv, TrailInv, NEW i \in Id
      PROVE  /\ Cardinality(Lines(i)) = Len(audit[i])
             /\ IF result[i].decision \in Decision
                THEN /\ audit[i][Len(audit[i])] = result[i].decision
                     /\ Cardinality(Lines(i) \cap Decision) = 1
                ELSE Lines(i) \cap Decision = {}
             /\ sent[i] # {} => "request_policy" \in Lines(i)
  <2>1. audit[i] \in Seq(Line)
    BY <1>1 DEF TypeInv, TypeOK
  <2>2. sent[i] # {} => "request_policy" \in Lines(i)
    <3>1. sent[i] # {} => Len(audit[i]) >= 3 /\ audit[i][3] = "request_policy"
      BY <1>1 DEF TrailInv
    <3>2. Len(audit[i]) >= 3 => 3 \in DOMAIN audit[i]
      BY <2>1
    <3> QED BY <3>1, <3>2 DEF Lines
  <2>3. CASE result[i].decision \in Decision
    <3>1. PICK n \in 1..5 : Ended(audit[i], n, result[i].decision)
      BY <1>1, <2>3 DEF TrailInv
    <3> QED BY <2>1, <2>2, <2>3, <3>1, EndedTells
  <2>4. CASE result[i].decision \notin Decision
    <3>1. PICK n \in 0..5 : Follows(audit[i], n)
      BY <1>1, <2>4 DEF TrailInv
    <3> QED BY <2>1, <2>2, <2>4, <3>1, FollowsTells
  <2> QED BY <2>3, <2>4
<1>2. TypeInv /\ TrailInv => TrailTellsDecision
  BY <1>1 DEF TrailTellsDecision
<1> QED BY <1>2, TypeInvAlways, TrailInvAlways, PTL

-----------------------------------------------------------------------------
(* The events                                                              *)

\* The events that were written or lost.
Raised == events \cup lost

\* What monitoring was told, or is about to be, of a request that must not go on; and
\* whether the policy stops the request where its thread is.
Told(t) ==
  {e \in Raised \cup Elements(job[t].todo) : e.id = job[t].id /\ Blocking(e)}
Stops(t) ==
  \/ job[t].do = "judge" /\ RequestBlocked(asked[job[t].id], job[t].seen)
  \/ job[t].do = "judgeReply" /\ ReplyBlocked(job[t].found)

EventInv ==
  /\ \A e \in Raised : e.id \in DOMAIN asked
  /\ \A t \in Thread : \A e \in Elements(job[t].todo) : e.id = job[t].id
  /\ \A t \in Thread : job[t].do # "idle" =>
       /\ Told(t) # {} => Stops(t)
       /\ policy.record /\ Stops(t) => Told(t) # {}
  /\ EventsAgree

\* The events of an inspection: they belong to the request, and one of them says blocked
\* if and only if the policy is going to stop it.
LEMMA InboundTells ==
  ASSUME TypeInv, NEW i \in Id, NEW q \in Request, NEW seen
  PROVE  /\ \A e \in Elements(Inbound(i, q.attack, seen)) : e.id = i
         /\ (\E e \in Elements(Inbound(i, q.attack, seen)) : Blocking(e))
              => RequestBlocked(q, seen)
         /\ policy.record /\ RequestBlocked(q, seen)
              => \E e \in Elements(Inbound(i, q.attack, seen)) : Blocking(e)
<1>1. PICK a, b : a = AttackEvent(i) /\ b = InboundEvent(i)
  OBVIOUS
<1>2. /\ a.id = i /\ b.id = i /\ (Blocking(a) <=> policy.attack)
      /\ (Blocking(b) <=> policy.request = "block")
  BY <1>1, PolicyFields DEF AttackEvent, InboundEvent, Blocking
<1>3. PICK c \in BOOLEAN : c = q.attack
  BY DEF Request
<1>4. Elements(Inbound(i, c, seen)) =
        IF policy.record
        THEN (IF c THEN {a} ELSE {}) \cup (IF seen # {} THEN {b} ELSE {}) ELSE {}
  BY <1>1, ToEmitElements
<1>5. RequestBlocked(q, seen) <=> (c /\ policy.attack) \/ (seen # {} /\ policy.request = "block")
  BY <1>3 DEF RequestBlocked
<1>6. /\ \A e \in Elements(Inbound(i, c, seen)) : e.id = i
      /\ (\E e \in Elements(Inbound(i, c, seen)) : Blocking(e)) => RequestBlocked(q, seen)
      /\ policy.record /\ RequestBlocked(q, seen)
           => \E e \in Elements(Inbound(i, c, seen)) : Blocking(e)
  BY <1>2, <1>4, <1>5
<1> QED BY <1>3, <1>6

LEMMA OutwardTells ==
  ASSUME TypeInv, NEW i \in Id, NEW found
  PROVE  /\ \A e \in Elements(Outward(i, found)) : e.id = i
         /\ (\E e \in Elements(Outward(i, found)) : Blocking(e)) => ReplyBlocked(found)
         /\ policy.record /\ ReplyBlocked(found)
              => \E e \in Elements(Outward(i, found)) : Blocking(e)
<1>1. PICK o : o = OutboundEvent(i, found)
  OBVIOUS
<1>2. o.id = i /\ (Blocking(o) <=> policy.response = "block")
  BY <1>1 DEF OutboundEvent, Blocking
<1>3. Elements(Outward(i, found)) = IF policy.record /\ found # {} THEN {o} ELSE {}
  <2>1. FALSE \in BOOLEAN
    OBVIOUS
  <2> QED BY <1>1, <2>1, ToEmitElements
<1> QED BY <1>2, <1>3 DEF ReplyBlocked

LEMMA NoneToReport == Elements(<<>>) = {}
  BY DEF Elements

\* Only Emit touches the events.
LEMMA SilentSteps ==
  ASSUME NEW t \in Thread, Work(t), ~Emit(t)
  PROVE  UNCHANGED <<events, lost>>
  BY DEF Work, BeginAnalyzer, EndAnalyzer, InspectRequest, JudgeRequest, CallProvider,
     InspectReply, JudgeReply, Raise

\* What a step that emits nothing does to the request of its thread.
Agrees(t, i) ==
  \/ /\ job'[t].do # "idle" /\ job'[t].id = i
     /\ \A e \in Elements(job'[t].todo) : e.id = i
     /\ Told(t)' # {} => Stops(t)'
     /\ policy.record /\ Stops(t)' => Told(t)' # {}
  \/ /\ job'[t] = Idle /\ result'[i].decision \in Decision \cup {"crashed"}
     /\ result'[i].decision \in {"ALLOW", "ERROR"} =>
          \A e \in events : e.id = i => ~Blocking(e)
     /\ policy.record /\ result'[i].decision = "BLOCK" =>
          \E e \in Raised : e.id = i /\ Blocking(e)

LEMMA EventMoves ==
  ASSUME TypeInv, EventInv, NEW t \in Thread, Work(t), ~Emit(t), NEW i, i = job[t].id
  PROVE  Agrees(t, i)
<1>1. /\ job \in [Thread -> Job] /\ job[t] \in Job /\ result \in [Id -> Result]
      /\ Idle.do = "idle"
  BY IdleJob DEF TypeInv, TypeOK
<1>2. /\ job[t].do # "idle" /\ UNCHANGED <<asked, policy, events, lost>>
  BY WorkFrame, SilentSteps
<1>3. i \in Id /\ i = job[t].id
  BY <1>2, ServedRequest
<1>4. asked[i] \in Request
  BY <1>2, <1>3, ServedRequest DEF Req
<1>5. /\ Told(t) # {} => Stops(t)
      /\ policy.record /\ Stops(t) => Told(t) # {}
      /\ \A e \in Elements(job[t].todo) : e.id = i
  BY <1>2, <1>3 DEF EventInv
<1>6. /\ Told(t) = {e \in Raised \cup Elements(job[t].todo) : e.id = i /\ Blocking(e)}
      /\ Told(t)' = {e \in Raised \cup Elements(job'[t].todo) : e.id = job'[t].id /\ Blocking(e)}
  BY <1>2, <1>3 DEF Told, Raised, Blocking
\* A thread that goes on from where nothing stops it, and is stopped nowhere yet.
<1>7. ASSUME ~Stops(t), job'[t].do \in {"inspect", "call", "inspectReply"}, job'[t].id = i,
             job'[t].todo = <<>>
      PROVE  Agrees(t, i)
  <2>1. Told(t)' = {}
    BY <1>5, <1>6, <1>7, NoneToReport
  <2>2. ~Stops(t)'
    BY <1>7 DEF Stops
  <2> QED BY <1>7, <2>1, <2>2, NoneToReport DEF Agrees
\* A request that ends.
<1>8. ASSUME NEW before, NEW d, Ends(t, before, d), job[t].todo = <<>>,
             d \in {"ALLOW", "ERROR"} => ~Stops(t), d = "BLOCK" => Stops(t)
      PROVE  Agrees(t, i)
  <2>1. job'[t] = Idle /\ result'[i].decision = d /\ d \in Decision
    BY <1>1, <1>3, <1>8 DEF Ends
  <2>2. Told(t) = {e \in Raised : e.id = i /\ Blocking(e)}
    BY <1>6, <1>8, NoneToReport
  <2> QED BY <1>5, <1>8, <2>1, <2>2 DEF Agrees, Raised
<1>9. CASE BeginAnalyzer(t) \/ EndAnalyzer(t)
  <2>1. PICK b : job' = [job EXCEPT ![t] = [job[t] EXCEPT !.building = b]]
    BY <1>9 DEF BeginAnalyzer, EndAnalyzer
  <2>2. /\ job'[t].do = job[t].do /\ job'[t].id = job[t].id /\ job'[t].todo = job[t].todo
    BY <1>1, <2>1 DEF Job
  <2>3. job[t].do \in {"inspect", "inspectReply"} /\ job[t].todo = <<>>
    BY <1>9 DEF BeginAnalyzer, EndAnalyzer, Inspecting, TypeInv, Placed
  <2>4. ~Stops(t)
    BY <2>3 DEF Stops
  <2> QED BY <1>3, <1>7, <2>2, <2>3, <2>4
<1>10. CASE InspectRequest(t)
  <2>1. PICK j \in Job : /\ job' = [job EXCEPT ![t] = j] /\ j.do = "judge" /\ j.id = i
                         /\ j.todo = Inbound(i, asked[i].attack, j.seen)
    BY <1>3, <1>10, InspectRequestMoves DEF Req
  <2>2. ~Stops(t) /\ job'[t] = j
    BY <1>1, <1>10, <2>1 DEF Stops, InspectRequest
  <2>3. Stops(t)' <=> RequestBlocked(asked[i], j.seen)
    BY <1>2, <2>1, <2>2 DEF Stops, RequestBlocked
  <2>4. PICK q, seen, new :
          q = asked[i] /\ seen = j.seen /\ new = Elements(Inbound(i, q.attack, seen))
    OBVIOUS
  <2>5. /\ \A e \in new : e.id = i
        /\ (\E e \in new : Blocking(e)) => RequestBlocked(q, seen)
        /\ policy.record /\ RequestBlocked(q, seen) => \E e \in new : Blocking(e)
    <3>1. q \in Request
      BY <1>4, <2>4
    <3>2. /\ \A e \in Elements(Inbound(i, q.attack, seen)) : e.id = i
          /\ (\E e \in Elements(Inbound(i, q.attack, seen)) : Blocking(e))
               => RequestBlocked(q, seen)
          /\ policy.record /\ RequestBlocked(q, seen)
               => \E e \in Elements(Inbound(i, q.attack, seen)) : Blocking(e)
      BY <1>3, <3>1, InboundTells
    <3> QED BY <2>4, <3>2
  <2>6. Elements(job'[t].todo) = new
    BY <2>1, <2>2, <2>4
  <2>7. Told(t)' = {e \in new : Blocking(e)}
    BY <1>5, <1>6, <2>1, <2>2, <2>5, <2>6
  <2> QED BY <2>1, <2>2, <2>3, <2>4, <2>5, <2>6, <2>7 DEF Agrees
<1>11. CASE InspectReply(t)
  <2>1. PICK j \in Job : /\ job' = [job EXCEPT ![t] = j] /\ j.do = "judgeReply" /\ j.id = i
                         /\ j.todo = Outward(i, j.found)
    BY <1>3, <1>11, InspectReplyMoves
  <2>2. ~Stops(t) /\ job'[t] = j
    BY <1>1, <1>11, <2>1 DEF Stops, InspectReply
  <2>3. Stops(t)' <=> ReplyBlocked(j.found)
    BY <1>2, <2>1, <2>2 DEF Stops, ReplyBlocked
  <2>4. PICK found, new : found = j.found /\ new = Elements(Outward(i, found))
    OBVIOUS
  <2>5. /\ \A e \in new : e.id = i
        /\ (\E e \in new : Blocking(e)) => ReplyBlocked(found)
        /\ policy.record /\ ReplyBlocked(found) => \E e \in new : Blocking(e)
    BY <1>3, <2>4, OutwardTells
  <2>6. Elements(job'[t].todo) = new
    BY <2>1, <2>2, <2>4
  <2>7. Told(t)' = {e \in new : Blocking(e)}
    BY <1>5, <1>6, <2>1, <2>2, <2>5, <2>6
  <2> QED BY <2>1, <2>2, <2>3, <2>4, <2>5, <2>6, <2>7 DEF Agrees
<1>12. CASE JudgeRequest(t)
  <2>1. /\ job[t].do = "judge" /\ job[t].todo = <<>>
        /\ Stops(t) <=> RequestBlocked(Req(t), job[t].seen)
    BY <1>12, JudgeRequestMoves DEF Stops, Req
  <2>2. CASE \E before, d : /\ Ends(t, before, d)
                            /\ d \in {"ALLOW", "ERROR"} => ~Stops(t)
                            /\ d = "BLOCK" => Stops(t)
    BY <1>8, <2>1, <2>2
  <2>3. CASE ~Stops(t) /\ \E j \in Job : /\ job' = [job EXCEPT ![t] = j] /\ j.do = "call"
                                          /\ j.id = i /\ j.todo = <<>>
    <3>1. job'[t].do = "call" /\ job'[t].id = i /\ job'[t].todo = <<>>
      BY <1>1, <2>3
    <3> QED BY <1>7, <2>3, <3>1
  <2> QED BY <1>3, <1>12, <2>1, <2>2, <2>3, JudgeRequestMoves
<1>13. CASE CallProvider(t)
  <2>1. job[t].do = "call" /\ job[t].todo = <<>> /\ ~Stops(t)
    BY <1>13 DEF CallProvider, Stops, TypeInv, Placed
  <2>2. CASE Ends(t, <<>>, "ERROR")
    BY <1>8, <2>1, <2>2
  <2>3. CASE \E j \in Job : /\ job' = [job EXCEPT ![t] = j] /\ j.id = i /\ j.todo = <<>>
                            /\ j.do \in {"call", "inspectReply"}
    <3>1. job'[t].do \in {"call", "inspectReply"} /\ job'[t].id = i /\ job'[t].todo = <<>>
      BY <1>1, <2>3
    <3> QED BY <1>7, <2>1, <3>1
  <2> QED BY <1>3, <1>13, <2>2, <2>3, CallProviderMoves
<1>14. CASE JudgeReply(t)
  <2>1. /\ job[t].do = "judgeReply" /\ job[t].todo = <<>>
        /\ Ends(t, <<>>, IF ReplyBlocked(job[t].found) THEN "BLOCK" ELSE "ALLOW")
    BY <1>14, JudgeReplyMoves
  <2>2. Stops(t) <=> ReplyBlocked(job[t].found)
    BY <2>1 DEF Stops
  <2> QED BY <1>8, <2>1, <2>2
<1>15. CASE Raise(t)
  <2>1. job'[t] = Idle /\ result'[i].decision = "crashed"
    BY <1>1, <1>3, <1>15, RaiseType DEF Raise
  <2> QED BY <2>1 DEF Agrees
<1> QED BY <1>3, <1>9, <1>10, <1>11, <1>12, <1>13, <1>14, <1>15 DEF Work

LEMMA EmitMoves ==
  ASSUME TypeInv, NEW t \in Thread, Emit(t)
  PROVE  \E e \in Elements(job[t].todo) :
           /\ Raised' = Raised \cup {e} /\ events' \subseteq events \cup {e}
           /\ Raised' \cup Elements(job'[t].todo) = Raised \cup Elements(job[t].todo)
           /\ job'[t].do = job[t].do /\ job'[t].id = job[t].id
           /\ job'[t].seen = job[t].seen /\ job'[t].found = job[t].found
<1>1. job \in [Thread -> Job] /\ job[t] \in Job /\ job[t].todo \in Seq(Event)
  BY JobFields DEF TypeInv, TypeOK
<1>2. PICK todo, e : todo = job[t].todo /\ e = Head(todo)
  OBVIOUS
<1>3. /\ todo \in Seq(Event) /\ todo # <<>>
      /\ job' = [job EXCEPT ![t] = [job[t] EXCEPT !.todo = Tail(todo)]]
  BY <1>1, <1>2 DEF Emit
<1>4. e \in Elements(todo) /\ Elements(todo) = {e} \cup Elements(Tail(todo))
  <2>1. /\ e = todo[1] /\ Len(todo) \in Nat /\ Len(todo) >= 1 /\ DOMAIN todo = 1..Len(todo)
        /\ DOMAIN Tail(todo) = 1..(Len(todo) - 1)
        /\ \A n \in 1..(Len(todo) - 1) : Tail(todo)[n] = todo[n + 1]
    BY <1>2, <1>3
  <2>3. \A n \in 1..(Len(todo) - 1) : n + 1 \in 1..Len(todo)
    BY <2>1
  <2>4. 1 \in 1..Len(todo)
    BY <2>1
  <2>5. ASSUME NEW x \in Elements(todo) PROVE x = e \/ x \in Elements(Tail(todo))
    <3>1. PICK n \in 1..Len(todo) : x = todo[n]
      BY <2>1, <2>5 DEF Elements
    <3>2. CASE n = 1
      BY <2>1, <3>1, <3>2
    <3>3. CASE n # 1
      <4>1. PICK m : m = n - 1
        OBVIOUS
      <4>2. m \in 1..(Len(todo) - 1) /\ m + 1 = n
        BY <2>1, <3>3, <4>1
      <4>3. Tail(todo)[m] = x /\ m \in DOMAIN Tail(todo)
        BY <2>1, <3>1, <4>2
      <4> QED BY <4>3 DEF Elements
    <3> QED BY <3>2, <3>3
  <2>6. {e} \cup Elements(Tail(todo)) \subseteq Elements(todo)
    BY <2>1, <2>3, <2>4 DEF Elements
  <2> QED BY <2>5, <2>6
<1>5. /\ job'[t].todo = Tail(todo) /\ job'[t].do = job[t].do /\ job'[t].id = job[t].id
      /\ job'[t].seen = job[t].seen /\ job'[t].found = job[t].found
  BY <1>1, <1>3 DEF Job
<1>6. Raised' = Raised \cup {e} /\ events' \subseteq events \cup {e}
  BY <1>2 DEF Emit, AfterRecording, Raised
<1> QED BY <1>2, <1>4, <1>5, <1>6

LEMMA EventNext == TypeInv /\ AloneInv /\ EventInv /\ [Next]_vars => EventInv'
<1> SUFFICES ASSUME TypeInv, AloneInv, EventInv, [Next]_vars PROVE EventInv'
  OBVIOUS
<1>0. /\ \A s \in Thread : job[s].do # "idle" => job[s].id \in Id /\ job[s].id \in DOMAIN asked
      /\ "pending" \notin {"BLOCK", "crashed"} \cup {"ALLOW", "ERROR"}
  BY ServedRequest
\* What the other threads were told of is what it was, and so is what stops them.
<1>1. ASSUME NEW s \in Thread, job'[s] = job[s], UNCHANGED policy, job[s].do # "idle",
             asked'[job[s].id] = asked[job[s].id],
             \A e : e.id = job[s].id => (e \in Raised' <=> e \in Raised)
      PROVE  /\ Told(s)' # {} => Stops(s)'
             /\ policy'.record /\ Stops(s)' => Told(s)' # {}
  <2>1. Told(s)' = Told(s)
    BY <1>1 DEF Told, Blocking
  <2>2. Stops(s)' <=> Stops(s)
    BY <1>1 DEF Stops, RequestBlocked, ReplyBlocked
  <2> QED BY <1>1, <2>1, <2>2 DEF EventInv
<1>2. ASSUME NEW t \in Thread, Work(t) PROVE EventInv'
  <2>1. /\ job[t].do # "idle" /\ UNCHANGED <<asked, policy>>
        /\ \A s \in Thread \ {t} : job'[s] = job[s]
        /\ \A k \in Id \ {job[t].id} : result'[k] = result[k]
    BY <1>2, WorkFrame
  <2>2. PICK i \in Id : i = job[t].id /\ i \in DOMAIN asked
    BY <1>0, <2>1
  <2>3. /\ \A s \in Thread \ {t} : job[s].do # "idle" => job[s].id # i
        /\ result[i].decision = "pending"
    BY <2>1, <2>2 DEF AloneInv
  <2>4. CASE Emit(t)
    <3>1. PICK e \in Elements(job[t].todo) :
             /\ Raised' = Raised \cup {e} /\ events' \subseteq events \cup {e}
             /\ Raised' \cup Elements(job'[t].todo) = Raised \cup Elements(job[t].todo)
             /\ job'[t].do = job[t].do /\ job'[t].id = job[t].id
             /\ job'[t].seen = job[t].seen /\ job'[t].found = job[t].found
      BY <2>4, EmitMoves
    <3>2. e.id = i /\ UNCHANGED result
      BY <2>2, <2>4, <3>1 DEF EventInv, Emit
    <3>3. \A x \in Raised' : x.id \in DOMAIN asked'
      BY <2>1, <2>2, <3>1, <3>2 DEF EventInv
    <3>4. \A s \in Thread : \A x \in Elements(job'[s].todo) : x.id = job'[s].id
      <4>1. \A x \in Elements(job'[t].todo) : x.id = i
        <5>1. ASSUME NEW x \in Elements(job'[t].todo) PROVE x \in Elements(job[t].todo)
          <6>1. job[t] \in Job /\ job[t].todo \in Seq(Event) /\ job[t].todo # <<>>
            BY <2>4, JobFields DEF TypeInv, TypeOK, Emit
          <6>2. job'[t].todo = Tail(job[t].todo)
            BY <2>4, <6>1 DEF Emit, TypeInv, TypeOK, Job
          <6>3. \A n \in DOMAIN Tail(job[t].todo) :
                  n + 1 \in DOMAIN job[t].todo /\ Tail(job[t].todo)[n] = job[t].todo[n + 1]
            BY <6>1
          <6> QED BY <5>1, <6>2, <6>3 DEF Elements
        <5> QED BY <2>2, <5>1 DEF EventInv
      <4> QED BY <2>1, <2>2, <3>1, <4>1 DEF EventInv
    <3>5. ASSUME NEW s \in Thread, job'[s].do # "idle"
          PROVE  /\ Told(s)' # {} => Stops(s)'
                 /\ policy'.record /\ Stops(s)' => Told(s)' # {}
      <4>1. CASE s = t
        <5>1. Told(t)' = Told(t)
          BY <2>1, <3>1 DEF Told, Blocking
        <5>2. Stops(t)' <=> Stops(t)
          BY <2>1, <3>1 DEF Stops, RequestBlocked, ReplyBlocked
        <5> QED BY <2>1, <4>1, <5>1, <5>2 DEF EventInv
      <4>2. CASE s # t
        BY <1>1, <2>1, <2>3, <3>1, <3>2, <3>5, <4>2
      <4> QED BY <4>1, <4>2
    <3>6. EventsAgree'
      <4>1. \A x \in events' :
              Blocking(x)' => result'[x.id].decision \in {"BLOCK", "pending", "crashed"}
        BY <2>1, <2>3, <3>1, <3>2 DEF EventInv, EventsAgree, Blocking
      <4>2. policy'.record =>
              \A k \in Id : result'[k].decision = "BLOCK" =>
                \E x \in Raised' : x.id = k /\ Blocking(x)'
        BY <2>1, <3>1, <3>2 DEF EventInv, EventsAgree, Blocking, Raised
      <4> QED BY <4>1, <4>2 DEF EventsAgree, Raised
    <3> QED BY <3>3, <3>4, <3>5, <3>6 DEF EventInv
  <2>5. CASE ~Emit(t)
    <3>1. Agrees(t, i)
      BY <1>2, <2>2, <2>5, EventMoves
    <3>2. UNCHANGED <<events, lost>> /\ Raised' = Raised
      BY <1>2, <2>5, SilentSteps DEF Raised
    <3>3. Idle.do = "idle" /\ Elements(Idle.todo) = {}
      BY IdleJob, NoneToReport
    <3>4. \A s \in Thread : \A x \in Elements(job'[s].todo) : x.id = job'[s].id
      BY <2>1, <3>1, <3>3 DEF EventInv, Agrees
    <3>5. ASSUME NEW s \in Thread, job'[s].do # "idle"
          PROVE  /\ Told(s)' # {} => Stops(s)'
                 /\ policy'.record /\ Stops(s)' => Told(s)' # {}
      <4>1. CASE s = t
        BY <2>1, <3>1, <3>3, <3>5, <4>1 DEF Agrees
      <4>2. CASE s # t
        BY <1>1, <2>1, <3>2, <3>5, <4>2
      <4> QED BY <4>1, <4>2
    <3>6. EventsAgree'
      <4>1. CASE job'[t].do # "idle"
        <5>1. UNCHANGED result
          <6>1. result'[i] = result[i]
            BY <1>2, <2>2, <4>1, WorkFrame
          <6>2. result \in [Id -> Result] /\ result' \in [Id -> Result]
            BY TypePreserved DEF TypeInv, TypeOK
          <6> QED BY <2>1, <2>2, <6>1, <6>2
        <5> QED BY <2>1, <3>2, <5>1 DEF EventInv, EventsAgree, Blocking
      <4>2. CASE job'[t].do = "idle"
        <5>1. /\ result'[i].decision \in Decision \cup {"crashed"}
              /\ result'[i].decision \in {"ALLOW", "ERROR"} =>
                   \A e \in events : e.id = i => ~Blocking(e)
              /\ policy.record /\ result'[i].decision = "BLOCK" =>
                   \E e \in Raised : e.id = i /\ Blocking(e)
          BY <3>1, <4>2 DEF Agrees
        <5>2. \A e : Blocking(e)' <=> Blocking(e)
          BY <2>1 DEF Blocking
        <5>3. \A x \in events : x.id \in Id
          BY DEF TypeInv, TypeOK, Event
        <5>4. \A x \in events' :
                Blocking(x)' => result'[x.id].decision \in {"BLOCK", "pending", "crashed"}
          BY <2>1, <2>2, <3>2, <5>1, <5>2, <5>3 DEF EventInv, EventsAgree, Decision
        <5>5. policy'.record =>
                \A k \in Id : result'[k].decision = "BLOCK" =>
                  \E x \in Raised' : x.id = k /\ Blocking(x)'
          BY <2>1, <2>2, <3>2, <5>1, <5>2 DEF EventInv, EventsAgree, Raised
        <5> QED BY <5>4, <5>5 DEF EventsAgree, Raised
      <4> QED BY <4>1, <4>2
    <3> QED BY <2>1, <3>2, <3>4, <3>5, <3>6 DEF EventInv
  <2> QED BY <2>4, <2>5
<1>3. ASSUME NEW t \in Thread, NEW q \in Requests, Receive(t, q) PROVE EventInv'
  <2>1. PICK i \in Id \ DOMAIN asked :
           /\ job[t].do = "idle" /\ job'[t].do = "inspect" /\ job'[t].id = i
           /\ job'[t].todo = <<>>
           /\ \A s \in Thread \ {t} : job'[s] = job[s]
           /\ DOMAIN asked' = DOMAIN asked \cup {i}
           /\ \A k \in DOMAIN asked : asked'[k] = asked[k]
           /\ UNCHANGED <<policy, events, lost, result, sent>>
    BY <1>3, ReceiveMoves
  <2>2. Raised' = Raised /\ Elements(job'[t].todo) = {}
    BY <2>1, NoneToReport DEF Raised
  <2>3. \A s \in Thread : \A x \in Elements(job'[s].todo) : x.id = job'[s].id
    BY <2>1, <2>2 DEF EventInv
  <2>4. ASSUME NEW s \in Thread, job'[s].do # "idle"
        PROVE  /\ Told(s)' # {} => Stops(s)'
               /\ policy'.record /\ Stops(s)' => Told(s)' # {}
    <3>1. CASE s = t
      <4>1. Told(t)' = {}
        BY <2>1, <2>2 DEF Told, EventInv
      <4>2. ~Stops(t)'
        BY <2>1 DEF Stops
      <4> QED BY <3>1, <4>1, <4>2
    <3>2. CASE s # t
      BY <1>0, <1>1, <2>1, <2>2, <2>4, <3>2
    <3> QED BY <3>1, <3>2
  <2>5. EventsAgree'
    BY <2>1 DEF EventInv, EventsAgree, Blocking
  <2>6. \A x \in Raised' : x.id \in DOMAIN asked'
    BY <2>1, <2>2 DEF EventInv
  <2> QED BY <2>3, <2>4, <2>5, <2>6 DEF EventInv
<1>4. CASE UNCHANGED vars
  BY <1>4 DEF vars, EventInv, EventsAgree, Told, Stops, Raised, Blocking, RequestBlocked,
     ReplyBlocked
<1> QED BY <1>2, <1>3, <1>4 DEF Next

\* Events and decisions tell the same story: an event that says blocked belongs to a request
\* that was blocked, raised, or is not done, and each blocked request was reported unless
\* the report was lost.
THEOREM EventsAreHonest == Spec => []EventsAgree
<1>1. Init => EventInv
  <2> SUFFICES ASSUME Init PROVE EventInv
    OBVIOUS
  <2>1. Idle.do = "idle" /\ Elements(Idle.todo) = {} /\ Nothing.decision = "pending"
    BY IdleJob, NoneToReport DEF Nothing
  <2> QED BY <2>1 DEF Init, EventInv, EventsAgree, Raised
<1>2. EventInv => EventsAgree
  BY DEF EventInv
<1> QED BY <1>1, <1>2, EventNext, TypeInvAlways, AloneInvAlways, PTL DEF Spec
-----------------------------------------------------------------------------
(* Redaction of a text                                                     *)

\* Any set of numbers has a least one: how what holds place by place is proved.
LEMMA Least ==
  ASSUME NEW S \in SUBSET Nat, S # {}
  PROVE  \E n \in S : \A m \in S : n <= m
<1>1. IsWellFoundedOn(OpToRel(<, Nat), Nat)
  BY NatLessThanWellFounded
<1>2. OpToRel(<, Nat) = {ss \in Nat \X Nat : ss[1] < ss[2]}
  BY DEF OpToRel
<1>3. PICK n \in S : \A m \in S : ~(<<m, n>> \in OpToRel(<, Nat))
  BY <1>1, WFMin
<1>4. ASSUME NEW m \in S PROVE n <= m
  <2>1. m \in Nat /\ n \in Nat /\ <<m, n>> \in Nat \X Nat /\ <<m, n>>[1] = m /\ <<m, n>>[2] = n
    OBVIOUS
  <2>2. ~(m < n)
    BY <1>2, <1>3, <2>1
  <2> QED BY <2>1, <2>2
<1> QED BY <1>4

\* The first and the last place of a span.
LEMMA SpanEnds ==
  ASSUME NEW at \in SUBSET (1..Length), at # {}
  PROVE  /\ First(at) \in at /\ \A n \in at : First(at) <= n
         /\ Last(at) \in at /\ \A n \in at : n <= Last(at)
         /\ First(at) \in 1..Length /\ Last(at) \in 1..Length /\ First(at) <= Last(at)
<1>1. \E n \in at : \A m \in at : n <= m
  BY Least
<1>2. \E n \in at : \A m \in at : m <= n
  <2>1. PICK S : S = {Length - n : n \in at}
    OBVIOUS
  <2>2. S \in SUBSET Nat /\ S # {}
    <3>1. \A n \in at : Length - n \in Nat
      OBVIOUS
    <3> QED BY <2>1, <3>1
  <2>3. PICK k \in S : \A m \in S : k <= m
    BY <2>2, Least
  <2>4. PICK n \in at : k = Length - n
    BY <2>1, <2>3
  <2>5. \A m \in at : k <= Length - m
    BY <2>1, <2>3
  <2>6. \A m \in at : m <= n
    BY <2>4, <2>5
  <2> QED BY <2>6
<1>3. First(at) \in at /\ \A n \in at : First(at) <= n
  BY <1>1 DEF First
<1>4. Last(at) \in at /\ \A n \in at : n <= Last(at)
  BY <1>2 DEF Last
<1> QED BY <1>3, <1>4

LEMMA RunEnds ==
  ASSUME NEW run \in Run
  PROVE  /\ run \in SUBSET (1..Length) /\ run # {}
         /\ First(run) \in 1..Length /\ Last(run) \in 1..Length /\ First(run) <= Last(run)
         /\ run = First(run)..Last(run)
<1>1. PICK a, b \in 1..Length : run = a..b
  BY DEF Run
<1>2. run \in SUBSET (1..Length) /\ run # {}
  <2>1. run # {}
    BY DEF Run
  <2> QED BY <2>1, RunPlaces
<1>3. PICK f, l : f = First(run) /\ l = Last(run)
  OBVIOUS
<1>4. /\ f \in run /\ l \in run /\ f \in 1..Length /\ l \in 1..Length /\ f <= l
      /\ \A n \in run : f <= n /\ n <= l
  BY <1>2, <1>3, SpanEnds
<1>5. a = f /\ b = l
  BY <1>1, <1>4
<1> QED BY <1>1, <1>2, <1>3, <1>4, <1>5

\* Of any spans, one comes first.
LEMMA FirstSpan ==
  ASSUME NEW S, S # {}, \A a \in S : a \in SUBSET (1..Length) /\ a # {}
  PROVE  \E a \in S : \A b \in S : ~Precedes(b, a)
<1>1. \A a \in S : First(a) \in 1..Length /\ Last(a) \in 1..Length
  BY SpanEnds
<1>2. PICK a \in S : \A b \in S : First(a) <= First(b)
  <2>1. PICK T : T = {First(b) : b \in S}
    OBVIOUS
  <2>2. T \in SUBSET Nat /\ T # {}
    BY <1>1, <2>1
  <2>3. PICK n \in T : \A m \in T : n <= m
    BY <2>2, Least
  <2> QED BY <2>1, <2>3
<1>3. PICK c \in S : /\ First(c) = First(a)
                    /\ \A b \in S : First(b) = First(a) => Last(b) <= Last(c)
  <2>1. PICK T : T = {Length - Last(b) : b \in {d \in S : First(d) = First(a)}}
    OBVIOUS
  <2>2. T \in SUBSET Nat /\ T # {}
    <3>1. \A b \in S : Length - Last(b) \in Nat
      BY <1>1
    <3> QED BY <2>1, <3>1
  <2>3. PICK n \in T : \A m \in T : n <= m
    BY <2>2, Least
  <2>4. PICK c \in S : First(c) = First(a) /\ n = Length - Last(c)
    BY <2>1, <2>3
  <2>5. \A b \in S : First(b) = First(a) => n <= Length - Last(b)
    BY <2>1, <2>3
  <2>6. ASSUME NEW b \in S, First(b) = First(a) PROVE Last(b) <= Last(c)
    <3>1. PICK p, q \in 1..Length : p = Last(b) /\ q = Last(c)
      BY <1>1
    <3>2. Length - q <= Length - p
      BY <2>4, <2>5, <2>6, <3>1
    <3>3. p <= q
      BY <3>2
    <3> QED BY <3>1, <3>3
  <2> QED BY <2>4, <2>6
<1>4. ASSUME NEW b \in S PROVE ~Precedes(b, c)
  BY <1>1, <1>2, <1>3 DEF Precedes
<1> QED BY <1>4

LEMMA PrecedesOrder ==
  ASSUME NEW S, \A a \in S : a \in SUBSET (1..Length) /\ a # {}
  PROVE  /\ \A a \in S : ~Precedes(a, a)
         /\ \A a, b, c \in S : Precedes(a, b) /\ Precedes(b, c) => Precedes(a, c)
<1>1. \A a \in S : First(a) \in 1..Length /\ Last(a) \in 1..Length
  BY SpanEnds
<1> QED BY <1>1 DEF Precedes

\* What the pass replaces of the spans S.
Passed(S, done) ==
  \A a \in S : a \in done <=> \A b \in done : Precedes(b, a) => First(a) > Last(b)

\* The pass succeeds on any spans: it takes a set of them that holds all that come
\* before one of its own, and goes on with the first one outside of it.
Solved(S, D) ==
  /\ D \subseteq S
  /\ \A a \in D, b \in S : Precedes(b, a) => b \in D
  /\ \E done \in SUBSET D : Passed(D, done)

LEMMA PassGoesOn ==
  ASSUME NEW S, \A a \in S : a \in SUBSET (1..Length) /\ a # {},
         NEW D, Solved(S, D), D # S
  PROVE  \E a \in S \ D : Solved(S, D \cup {a})
<1>1. D \subseteq S /\ \A a \in D, b \in S : Precedes(b, a) => b \in D
  BY DEF Solved
<1>2. PICK done \in SUBSET D : Passed(D, done)
  BY DEF Solved
<1>3. PICK a \in S \ D : \A b \in S \ D : ~Precedes(b, a)
  BY <1>1, FirstSpan
<1>4. ~Precedes(a, a) /\ \A b \in D : ~Precedes(a, b)
  BY <1>1, <1>3
<1>5. \A b \in D \cup {a}, c \in S : Precedes(c, b) => c \in D \cup {a}
  BY <1>1, <1>3
<1>6. CASE \A b \in done : Precedes(b, a) => First(a) > Last(b)
  <2>1. Passed(D \cup {a}, done \cup {a})
    BY <1>2, <1>3, <1>4, <1>6 DEF Passed
  <2> QED BY <1>1, <1>3, <1>5, <2>1 DEF Solved
<1>7. CASE ~\A b \in done : Precedes(b, a) => First(a) > Last(b)
  <2>1. Passed(D \cup {a}, done)
    BY <1>2, <1>3, <1>4, <1>7 DEF Passed
  <2> QED BY <1>1, <1>3, <1>5, <2>1 DEF Solved
<1> QED BY <1>6, <1>7

LEMMA PassEnds ==
  ASSUME NEW S, IsFiniteSet(S), \A a \in S : a \in SUBSET (1..Length) /\ a # {}
  PROVE  \E done \in SUBSET S : Passed(S, done)
<1>1. PICK T : T = {U \in SUBSET S : Solved(S, S \ U)}
  OBVIOUS
<1>2. IsWellFoundedOn(StrictSubsetOrdering(S), SUBSET S)
  BY FS_StrictSubsetOrderingWellFounded, FS_FiniteSubsetsOfFinite
<1>3. S \in T
  <2>1. Solved(S, {})
    BY DEF Solved, Passed
  <2>2. S \ S = {}
    OBVIOUS
  <2> QED BY <1>1, <2>1, <2>2
<1>4. PICK U \in T : \A V \in T : ~(<<V, U>> \in StrictSubsetOrdering(S))
  <2>1. T \subseteq SUBSET S /\ T # {}
    BY <1>1, <1>3
  <2> QED BY <1>2, <2>1, WFMin
<1>5. U \subseteq S /\ Solved(S, S \ U)
  BY <1>1, <1>4
<1>6. U = {}
  <2>1. SUFFICES ASSUME U # {} PROVE FALSE
    OBVIOUS
  <2>2. S \ U # S
    BY <1>5, <2>1
  <2>3. PICK a \in S \ (S \ U) : Solved(S, (S \ U) \cup {a})
    BY <1>5, <2>2, PassGoesOn
  <2>4. PICK V : V = U \ {a}
    OBVIOUS
  <2>5. a \in U /\ V \subseteq U /\ V # U /\ V \subseteq S /\ S \ V = (S \ U) \cup {a}
    BY <1>5, <2>3, <2>4
  <2>6. V \in T
    BY <1>1, <2>3, <2>5
  <2>7. <<V, U>> \in StrictSubsetOrdering(S)
    BY <1>5, <2>5 DEF StrictSubsetOrdering
  <2> QED BY <1>4, <2>6, <2>7
<1>7. S \ U = S
  BY <1>6
<1> QED BY <1>5, <1>7 DEF Solved

\* What the pass replaces is determined: two answers differ first at some span, and agree
\* on all that comes before it.
LEMMA PassDetermined ==
  ASSUME NEW S, \A a \in S : a \in SUBSET (1..Length) /\ a # {},
         NEW done \in SUBSET S, Passed(S, done), NEW other \in SUBSET S, Passed(S, other)
  PROVE  done = other
<1>1. PICK T : T = {a \in S : ~(a \in done <=> a \in other)}
  OBVIOUS
<1>2. SUFFICES ASSUME T # {} PROVE FALSE
  BY <1>1
<1>3. PICK a \in T : \A b \in T : ~Precedes(b, a)
  BY <1>1, <1>2, FirstSpan
<1>4. \A b \in S : Precedes(b, a) => (b \in done <=> b \in other)
  BY <1>1, <1>3
<1> QED BY <1>1, <1>3, <1>4 DEF Passed

LEMMA SpanRuns ==
  ASSUME NEW text \in Text
  PROVE  Spans(text) \subseteq Run /\ IsFiniteSet(Spans(text))
<1>1. \A o \in text : o.at \in Run
  BY DEF Text, Occurrence
<1>2. Spans(text) \subseteq Run
  BY <1>1 DEF Spans
<1>3. IsFiniteSet(SUBSET (1..Length))
  <2>1. 1 \in Int /\ Length \in Int
    OBVIOUS
  <2>2. IsFiniteSet(1..Length)
    BY <2>1, FS_Interval
  <2> QED BY <2>2, FS_SUBSET
<1>4. Spans(text) \subseteq SUBSET (1..Length)
  BY <1>2, RunEnds
<1> QED BY <1>2, <1>3, <1>4, FS_Subset

LEMMA ReplacedIs ==
  ASSUME NEW text \in Text
  PROVE  /\ Replaced(text) \in SUBSET Spans(text)
         /\ Passed(Spans(text), Replaced(text))
<1>1. \A a \in Spans(text) : a \in SUBSET (1..Length) /\ a # {}
  BY SpanRuns, RunEnds
<1>2. \E done \in SUBSET Spans(text) : Passed(Spans(text), done)
  BY <1>1, SpanRuns, PassEnds
<1> QED BY <1>2 DEF Replaced, Passed

\* What redaction leaves of the kinds it saw is a tail.
LEMMA RedactedLeaves ==
  ASSUME NEW text \in Text, NEW seen, seen \cap Kinds(text) \subseteq Seen(text)
  PROVE  LeftOver(text, Redacted(text), seen)
<1>1. PICK done, cut : done = Replaced(text) /\ cut = UNION done
  OBVIOUS
<1>2. done \in SUBSET Spans(text) /\ Passed(Spans(text), done)
  BY <1>1, ReplacedIs
<1>3. SUFFICES ASSUME NEW r \in Redacted(text), r.kind \in seen
               PROVE  \E o, p \in text :
                        /\ o.kind = r.kind /\ r.at \subseteq o.at \ p.at
                        /\ First(o.at) \in p.at /\ Last(p.at) < Last(o.at)
  BY DEF LeftOver
<1>4. PICK o \in text : r = [o EXCEPT !.at = o.at \ cut] /\ r.at # {}
  BY <1>1, <1>3 DEF Redacted
<1>5. o.kind \in Kind /\ o.at \in Run /\ o = [kind |-> o.kind, at |-> o.at]
  BY DEF Text, Occurrence
<1>6. r.kind = o.kind /\ r.at = o.at \ cut
  BY <1>4, <1>5
<1>7. o.at \in Spans(text)
  <2>1. o.kind \in Seen(text)
    BY <1>3, <1>6 DEF Kinds
  <2> QED BY <2>1 DEF Spans
<1>8. o.at \notin done
  BY <1>1, <1>4, <1>6
<1>9. PICK b \in done : Precedes(b, o.at) /\ ~(First(o.at) > Last(b))
  BY <1>2, <1>7, <1>8 DEF Passed
<1>10. PICK p \in text : b = p.at /\ p.at \in Run
  BY <1>2, SpanRuns DEF Spans
<1>11. PICK f, l, g, m \in 1..Length :
         /\ f = First(o.at) /\ l = Last(o.at) /\ o.at = f..l
         /\ g = First(p.at) /\ m = Last(p.at) /\ p.at = g..m
  BY <1>5, <1>10, RunEnds
<1>12. g <= f /\ f <= m
  BY <1>9, <1>10, <1>11 DEF Precedes
<1>13. m < l
  <2>1. SUFFICES ASSUME l <= m PROVE FALSE
    BY <1>11
  <2>2. f..l \subseteq g..m
    BY <1>12, <2>1
  <2>3. p.at \subseteq cut
    BY <1>1, <1>10
  <2> QED BY <1>4, <1>6, <1>11, <2>2, <2>3
<1>14. r.at \subseteq o.at \ p.at
  BY <1>1, <1>6, <1>10
<1>15. First(o.at) \in p.at /\ Last(p.at) < Last(o.at)
  <2>1. f \in g..m
    BY <1>12
  <2> QED BY <1>11, <1>13, <2>1
<1> QED BY <1>6, <1>14, <1>15

\* The pass over the spans of a text, which the model describes by what it leaves done,
\* replaces exactly one set of them, however they overlap.
THEOREM PassDecides ==
  ASSUME NEW text \in Text
  PROVE  /\ Passed(Spans(text), Replaced(text))
         /\ \A done \in SUBSET Spans(text) :
              Passed(Spans(text), done) => done = Replaced(text)
<1>1. \A a \in Spans(text) : a \in SUBSET (1..Length) /\ a # {}
  BY SpanRuns, RunEnds
<1> QED BY <1>1, ReplacedIs, PassDetermined

\* "extra NER types (e.g. person names) are *detected* and reported but not redacted"
\* (docs/GATEWAY.md) is not what redact_pii does: no character comes through of an
\* occurrence that was found and shares no place with another match, no matter if a
\* pattern sees its kind or the analyzer alone.
THEOREM ApartIsRedacted ==
  ASSUME NEW text \in Text, NEW o \in text, o.kind \in Seen(text),
         \A a \in Spans(text) : a # o.at => a \cap o.at = {}
  PROVE  \A r \in Redacted(text) : r.at \cap o.at = {}
<1>1. PICK done, cut : done = Replaced(text) /\ cut = UNION done
  OBVIOUS
<1>2. done \in SUBSET Spans(text) /\ Passed(Spans(text), done)
  BY <1>1, ReplacedIs
<1>3. o.at \in Spans(text) /\ o.at \in Run
  BY DEF Spans, Text, Occurrence
<1>4. ASSUME NEW b \in done, Precedes(b, o.at)
      PROVE  First(o.at) > Last(b)
  <2>1. b \in Spans(text) /\ b \in Run
    BY <1>2, SpanRuns
  <2>2. PICK f, l, g, m \in 1..Length : /\ f = First(o.at) /\ l = Last(o.at) /\ o.at = f..l
                                        /\ g = First(b) /\ m = Last(b) /\ b = g..m
    BY <1>3, <2>1, RunEnds
  <2>3. f \in f..l /\ g \in g..m
    BY <1>3, <2>1, <2>2, RunEnds
  <2>4. b # o.at
    BY <1>4, <2>2 DEF Precedes
  <2>5. f \notin g..m
    BY <1>3, <2>1, <2>2, <2>3, <2>4
  <2>6. g <= f
    BY <1>4, <2>2 DEF Precedes
  <2> QED BY <2>2, <2>5, <2>6
<1>5. o.at \subseteq cut
  BY <1>1, <1>2, <1>3, <1>4 DEF Passed
<1> QED
  <2> SUFFICES ASSUME NEW r \in Redacted(text) PROVE r.at \cap o.at = {}
    OBVIOUS
  <2>1. PICK p \in text : r = [p EXCEPT !.at = p.at \ cut]
    BY <1>1 DEF Redacted
  <2>2. r.at = p.at \ cut
    BY <2>1 DEF Text, Occurrence
  <2> QED BY <1>5, <2>2

\* "Redacts every matched span" is true of every text in which no span ends beyond one it
\* begins in: crossing spans are all that keeps it from being so.
THEOREM UncrossedIsRedacted ==
  ASSUME NEW text \in Text,
         \A a, b \in Spans(text) : First(a) \in b => Last(a) <= Last(b)
  PROVE  Kinds(Redacted(text)) \cap Seen(text) = {}
<1> SUFFICES ASSUME NEW r \in Redacted(text), r.kind \in Seen(text) PROVE FALSE
  BY DEF Kinds
<1>1. PICK done, cut : done = Replaced(text) /\ cut = UNION done
  OBVIOUS
<1>2. done \in SUBSET Spans(text) /\ Passed(Spans(text), done)
  BY <1>1, ReplacedIs
<1>3. PICK o \in text : r = [o EXCEPT !.at = o.at \ cut] /\ r.at # {}
  BY <1>1 DEF Redacted
<1>4. o.kind \in Kind /\ o.at \in Run /\ o = [kind |-> o.kind, at |-> o.at]
  BY DEF Text, Occurrence
<1>5. r.kind = o.kind /\ r.at = o.at \ cut
  BY <1>3, <1>4
<1>6. o.at \in Spans(text) /\ o.at \notin done
  BY <1>1, <1>3, <1>5 DEF Spans
<1>7. PICK b \in done : Precedes(b, o.at) /\ ~(First(o.at) > Last(b))
  BY <1>2, <1>6 DEF Passed
<1>8. b \in Spans(text) /\ b \in Run /\ b \subseteq cut
  BY <1>1, <1>2, <1>7, SpanRuns
<1>9. PICK f, l, g, m \in 1..Length : /\ f = First(o.at) /\ l = Last(o.at) /\ o.at = f..l
                                      /\ g = First(b) /\ m = Last(b) /\ b = g..m
  BY <1>4, <1>8, RunEnds
<1>10. g <= f /\ f <= m
  BY <1>7, <1>9 DEF Precedes
<1>11. l <= m
  <2>1. f \in g..m
    BY <1>10
  <2> QED BY <1>6, <1>8, <1>9, <2>1
<1>12. f..l \subseteq g..m
  BY <1>10, <1>11
<1> QED BY <1>3, <1>5, <1>8, <1>9, <1>12

-----------------------------------------------------------------------------
(* Redaction in the gateway                                                *)

\* Nothing is left over of no kinds, or in nothing.
LEMMA LeftOverNone ==
  /\ \A text, kept : LeftOver(text, kept, {})
  /\ \A text, seen : LeftOver(text, {}, seen)
  BY DEF LeftOver

\* What the client of a request and the provider got hold no more than tails.
Kept(i) ==
  /\ policy.request = "redact" =>
       \A m \in sent[i] : LeftOver(asked[i].messages.inside, m.inside, result[i].seen)
  /\ policy.response # "allow" =>
       LeftOver(result[i].answer, result[i].output, result[i].found)

\* What a thread carries from the inspection to the judgement, and from there to the
\* provider: kinds the scanner still sees, and messages redacted of them.
Carries(t) ==
  /\ job[t].do = "judge" => job[t].seen \subseteq Found(Kind)
  /\ job[t].do = "judgeReply" => job[t].found \subseteq Found(Kind)
  /\ job[t].do \in {"inspect", "judge"} => sent[job[t].id] = {}
  /\ job[t].do \in {"call", "inspectReply", "judgeReply"} =>
       /\ sent[job[t].id] \subseteq {job[t].outbound}
       /\ policy.request = "redact" =>
            LeftOver(Req(t).messages.inside, job[t].outbound.inside, job[t].seen)

KeptInv ==
  /\ scanner = "ready" => NerInstalled
  /\ \A i \in Id : result[i].decision = "pending" => result[i] = Nothing
  /\ \A i \in Id : Kept(i)
  /\ \A t \in Thread : Carries(t)

\* The scanner forgets no kind.
LEMMA ScannerGrows ==
  ASSUME scanner = "ready" => NerInstalled, [Next]_vars
  PROVE  /\ scanner' = "ready" => NerInstalled
         /\ Found(Kind) \subseteq Found(Kind)'
<1>1. ASSUME NEW t \in Thread, Work(t)
      PROVE  UNCHANGED scanner \/ StartBuild \/ FinishBuild
  BY <1>1 DEF Work, BeginAnalyzer, EndAnalyzer, InspectRequest, Emit, JudgeRequest,
     CallProvider, InspectReply, JudgeReply, Raise
<1>2. UNCHANGED scanner \/ StartBuild \/ FinishBuild
  BY <1>1 DEF Next, Receive, vars
<1> QED BY <1>2 DEF StartBuild, FinishBuild, Found

\* A kind that was seen in a text is seen in any part of it that has it.
LEMMA SeenAgain ==
  ASSUME NEW text \in Text, NEW seen, seen \subseteq Found(Kind)
  PROVE  LeftOver(text, Redacted(text), seen)
<1>1. seen \cap Kinds(text) \subseteq Seen(text)
  BY DEF Seen, Found
<1> QED BY <1>1, RedactedLeaves

LEMMA SeenFound ==
  ASSUME NEW text \in Text
  PROVE  Seen(text) \subseteq Found(Kind)
<1>1. Kinds(text) \subseteq Kind
  BY DEF Text, Occurrence, Kinds
<1> QED BY <1>1 DEF Seen, Found

\* What becomes of the thread that takes a step, and of its request.
Carried(t, i) ==
  IF job'[t].do = "idle" THEN result'[i].decision # "pending" /\ Kept(i)' ELSE Carries(t)'

LEMMA CarriedMoves ==
  ASSUME TypeInv, AloneInv, KeptInv, NEW t \in Thread, Work(t), NEW i, i = job[t].id
  PROVE  Carried(t, i)
<1> USE DEF Carried
<1>1. /\ job \in [Thread -> Job] /\ job[t] \in Job /\ result \in [Id -> Result]
      /\ sent \in [Id -> SUBSET Outgoing] /\ Idle.do = "idle"
  BY IdleJob DEF TypeInv, TypeOK
<1>2. job[t].do # "idle" /\ UNCHANGED <<asked, policy>> /\ i \in Id
  BY WorkFrame, ServedRequest
<1>3. Carries(t) /\ result[i] = Nothing /\ Kept(i) /\ Found(Kind) \subseteq Found(Kind)'
  <2>1. [Next]_vars
    BY DEF Next
  <2> QED BY <1>2, <2>1, ScannerGrows DEF KeptInv, AloneInv
<1>4. CASE BeginAnalyzer(t) \/ EndAnalyzer(t)
  <2>1. PICK b : job' = [job EXCEPT ![t] = [job[t] EXCEPT !.building = b]]
    BY <1>4 DEF BeginAnalyzer, EndAnalyzer
  <2>2. UNCHANGED sent
    BY <1>4 DEF BeginAnalyzer, EndAnalyzer
  <2>3. /\ job'[t].do = job[t].do /\ job'[t].id = job[t].id /\ job'[t].seen = job[t].seen
        /\ job'[t].found = job[t].found /\ job'[t].outbound = job[t].outbound
    BY <1>1, <2>1 DEF Job
  <2>4. Req(t)' = Req(t)
    BY <1>2, <2>3 DEF Req
  <2> QED BY <1>2, <1>3, <2>2, <2>3, <2>4 DEF Carries
<1>5. CASE Emit(t)
  <2>1. PICK todo : job' = [job EXCEPT ![t] = [job[t] EXCEPT !.todo = todo]]
    BY <1>5 DEF Emit
  <2>2. UNCHANGED sent
    BY <1>5 DEF Emit
  <2>3. /\ job'[t].do = job[t].do /\ job'[t].id = job[t].id /\ job'[t].seen = job[t].seen
        /\ job'[t].found = job[t].found /\ job'[t].outbound = job[t].outbound
    BY <1>1, <2>1 DEF Job
  <2>4. Req(t)' = Req(t)
    BY <1>2, <2>3 DEF Req
  <2> QED BY <1>2, <1>3, <2>2, <2>3, <2>4 DEF Carries
<1>6. CASE InspectRequest(t)
  <2>1. PICK seen, todo : /\ seen = Seen(Untrusted(Req(t).messages))
                          /\ job' = [job EXCEPT ![t] = [job[t] EXCEPT !.do = "judge",
                                                      !.seen = seen, !.todo = todo]]
    BY <1>6 DEF InspectRequest
  <2>2. seen \subseteq Found(Kind)
    BY <1>2, <2>1, ServedRequest, SeenFound
  <2>3. job[t].do = "inspect" /\ UNCHANGED sent
    BY <1>6 DEF InspectRequest
  <2>4. job'[t].do = "judge" /\ job'[t].id = i /\ job'[t].seen = seen
    BY <1>1, <2>1 DEF Job
  <2> QED BY <1>3, <2>2, <2>3, <2>4 DEF Carries
<1>7. CASE InspectReply(t)
  <2>1. PICK found, todo : /\ found = Seen(job[t].reply)
                           /\ job' = [job EXCEPT ![t] = [job[t] EXCEPT !.do = "judgeReply",
                                                       !.found = found, !.todo = todo]]
    BY <1>7 DEF InspectReply
  <2>2. found \subseteq Found(Kind)
    BY <1>1, <2>1, JobFields, SeenFound
  <2>3. job[t].do = "inspectReply" /\ UNCHANGED sent
    BY <1>7 DEF InspectReply
  <2>4. /\ job'[t].do = "judgeReply" /\ job'[t].id = i /\ job'[t].seen = job[t].seen
        /\ job'[t].found = found /\ job'[t].outbound = job[t].outbound
    BY <1>1, <2>1 DEF Job
  <2>5. Req(t)' = Req(t)
    BY <1>2, <2>4 DEF Req
  <2> QED BY <1>2, <1>3, <2>2, <2>3, <2>4, <2>5 DEF Carries
<1>8. CASE JudgeRequest(t)
  <2>1. /\ job[t].do = "judge" /\ UNCHANGED sent
        /\ sent[i] = {} /\ job[t].seen \subseteq Found(Kind)
    BY <1>3, <1>8 DEF JudgeRequest, Carries
  <2>2. CASE \E d, before : Finish(t, before, [Nothing EXCEPT !.decision = d,
                                                          !.seen = job[t].seen])
                           /\ d \in Decision
    <3>1. PICK d, r : /\ d \in Decision
                      /\ r = [Nothing EXCEPT !.decision = d, !.seen = job[t].seen]
                      /\ job' = [job EXCEPT ![t] = Idle]
                      /\ result' = [result EXCEPT ![i] = r]
      BY <2>2 DEF Finish
    <3>2. result'[i].decision = d /\ result'[i].output = {}
      BY <1>1, <1>2, <3>1 DEF Nothing
    <3>3. Kept(i)'
      BY <1>2, <2>1, <3>2, LeftOverNone DEF Kept
    <3> QED BY <1>1, <3>1, <3>2, <3>3 DEF Decision
  <2>3. CASE /\ job' = [job EXCEPT ![t].do = "call",
                                  ![t].outbound = Outbound(Req(t).messages, job[t].seen)]
    <3>1. PICK q, out : q = Req(t).messages /\ out = Outbound(q, job[t].seen)
      OBVIOUS
    <3>2. job' = [job EXCEPT ![t] = [job[t] EXCEPT !.do = "call", !.outbound = out]]
      BY <2>3, <3>1
    <3>3. /\ job'[t].do = "call" /\ job'[t].id = i /\ job'[t].seen = job[t].seen
          /\ job'[t].outbound = out
      BY <1>1, <3>2 DEF Job
    <3>4. q \in Messages /\ q.inside \in Text
      BY <1>2, <3>1, ServedRequest DEF Messages
    <3>5. policy.request = "redact" => LeftOver(q.inside, out.inside, job[t].seen)
      <4>1. LeftOver(q.inside, Redacted(q.inside), job[t].seen)
        BY <2>1, <3>4, SeenAgain
      <4>2. [q EXCEPT !.inside = Redacted(q.inside)].inside = Redacted(q.inside)
        BY <3>4 DEF Messages
      <4> QED BY <3>1, <4>1, <4>2, LeftOverNone DEF Outbound
    <3>6. Req(t)' = Req(t)
      BY <1>2, <3>3 DEF Req
    <3> QED BY <1>2, <2>1, <3>1, <3>3, <3>5, <3>6 DEF Carries
  <2> QED BY <1>8, <2>2, <2>3 DEF JudgeRequest, Decision
<1>9. CASE CallProvider(t)
  <2>1. /\ job[t].do = "call" /\ sent'[i] \subseteq {job[t].outbound}
        /\ policy.request = "redact" =>
             LeftOver(Req(t).messages.inside, job[t].outbound.inside, job[t].seen)
    BY <1>1, <1>2, <1>3, <1>9 DEF CallProvider, Carries
  <2>2. CASE \E try : job' = [job EXCEPT ![t].try = try]
    <3>1. /\ job'[t].do = "call" /\ job'[t].id = i /\ job'[t].seen = job[t].seen
          /\ job'[t].outbound = job[t].outbound
      BY <1>1, <2>1, <2>2 DEF Job
    <3>2. Req(t)' = Req(t)
      BY <1>2, <3>1 DEF Req
    <3> QED BY <1>2, <2>1, <3>1, <3>2 DEF Carries
  <2>3. CASE \E text : job' = [job EXCEPT ![t].do = "inspectReply", ![t].reply = text]
    <3>1. PICK text : job' = [job EXCEPT ![t] = [job[t] EXCEPT !.do = "inspectReply",
                                                            !.reply = text]]
      BY <2>3
    <3>2. /\ job'[t].do = "inspectReply" /\ job'[t].id = i /\ job'[t].seen = job[t].seen
          /\ job'[t].outbound = job[t].outbound
      BY <1>1, <3>1 DEF Job
    <3>3. Req(t)' = Req(t)
      BY <1>2, <3>2 DEF Req
    <3> QED BY <1>2, <2>1, <3>2, <3>3 DEF Carries
  <2>4. CASE Finish(t, <<>>, [Nothing EXCEPT !.decision = "ERROR", !.seen = job[t].seen])
    <3>1. PICK r : /\ r = [Nothing EXCEPT !.decision = "ERROR", !.seen = job[t].seen]
                   /\ job' = [job EXCEPT ![t] = Idle]
                   /\ result' = [result EXCEPT ![i] = r]
      BY <2>4 DEF Finish
    <3>2. /\ result'[i].decision = "ERROR" /\ result'[i].output = {}
          /\ result'[i].seen = job[t].seen
      BY <1>1, <1>2, <3>1 DEF Nothing
    <3>3. Kept(i)'
      BY <1>2, <2>1, <3>2, LeftOverNone DEF Kept, Req
    <3> QED BY <1>1, <3>1, <3>2, <3>3
  <2> QED BY <1>9, <2>2, <2>3, <2>4 DEF CallProvider, Fail
<1>10. CASE JudgeReply(t)
  <2>1. /\ job[t].do = "judgeReply" /\ UNCHANGED sent
        /\ sent[i] \subseteq {job[t].outbound} /\ job[t].found \subseteq Found(Kind)
        /\ policy.request = "redact" =>
             LeftOver(Req(t).messages.inside, job[t].outbound.inside, job[t].seen)
    BY <1>2, <1>3, <1>10 DEF JudgeReply, Carries
  <2>2. PICK d, out, r :
          /\ d = IF ReplyBlocked(job[t].found) THEN "BLOCK" ELSE "ALLOW"
          /\ out = IF ReplyBlocked(job[t].found) THEN {} ELSE Output(job[t].reply, job[t].found)
          /\ r = [decision |-> d, output |-> out, seen |-> job[t].seen,
                  found |-> job[t].found, answer |-> job[t].reply]
          /\ job' = [job EXCEPT ![t] = Idle] /\ result' = [result EXCEPT ![i] = r]
    BY <1>2, <1>10 DEF JudgeReply, Finish
  <2>3. /\ result'[i].decision = d /\ result'[i].output = out
        /\ result'[i].seen = job[t].seen /\ result'[i].found = job[t].found
        /\ result'[i].answer = job[t].reply
    BY <1>1, <1>2, <2>2
  <2>4. policy.response # "allow" => LeftOver(job[t].reply, out, job[t].found)
    <3>1. LeftOver(job[t].reply, Redacted(job[t].reply), job[t].found)
      BY <1>1, <2>1, JobFields, SeenAgain
    <3>2. policy.response \in {"allow", "redact", "block"}
      BY PolicyFields DEF PIIAction
    <3> QED BY <2>2, <3>1, <3>2, LeftOverNone DEF Output, ReplyBlocked
  <2>5. Kept(i)'
    BY <1>2, <2>1, <2>3, <2>4 DEF Kept, Req
  <2> QED BY <1>1, <2>2, <2>3, <2>5
<1>11. CASE Raise(t)
  <2>1. PICK r : /\ r = [result[i] EXCEPT !.decision = "crashed"]
                 /\ job' = [job EXCEPT ![t] = Idle] /\ result' = [result EXCEPT ![i] = r]
    BY <1>2, <1>11 DEF Raise
  <2>2. result'[i].decision = "crashed" /\ result'[i].output = {} /\ result'[i].seen = {}
    BY <1>1, <1>2, <1>3, <2>1 DEF Nothing
  <2>3. Kept(i)'
    BY <2>2, LeftOverNone DEF Kept
  <2> QED BY <1>1, <2>1, <2>2, <2>3
<1> QED BY <1>4, <1>5, <1>6, <1>7, <1>8, <1>9, <1>10, <1>11 DEF Work

LEMMA KeptNext == TypeInv /\ AloneInv /\ KeptInv /\ [Next]_vars => KeptInv'
<1> SUFFICES ASSUME TypeInv, AloneInv, KeptInv, [Next]_vars PROVE KeptInv'
  OBVIOUS
<1>1. (scanner' = "ready" => NerInstalled) /\ Found(Kind) \subseteq Found(Kind)'
  BY ScannerGrows DEF KeptInv
<1>2. \A s \in Thread : job[s].do # "idle" => job[s].id \in Id /\ job[s].id \in DOMAIN asked
  BY ServedRequest
<1>3. ASSUME NEW t \in Thread, Work(t) PROVE KeptInv'
  <2>1. PICK i \in Id : i = job[t].id
    BY <1>2, <1>3, WorkFrame
  <2>2. /\ job[t].do # "idle" /\ UNCHANGED <<asked, policy>>
        /\ \A s \in Thread \ {t} : job'[s] = job[s]
        /\ job'[t].do # "idle" => job'[t].id = i /\ result'[i] = result[i]
        /\ \A k \in Id \ {i} : result'[k] = result[k] /\ sent'[k] = sent[k]
    BY <1>3, <2>1, WorkFrame
  <2>3. Carried(t, i)
    BY <1>3, <2>1, CarriedMoves
  <2>4. ASSUME NEW s \in Thread \ {t} PROVE Carries(s)'
    <3>1. CASE job[s].do = "idle"
      BY <2>2, <2>4, <3>1 DEF Carries
    <3>2. CASE job[s].do # "idle"
      <4>1. job[s].id \in Id \ {i} /\ job'[s] = job[s]
        BY <1>2, <2>1, <2>2, <2>4, <3>2 DEF AloneInv
      <4>2. sent'[job[s].id] = sent[job[s].id] /\ Req(s)' = Req(s)
        BY <2>2, <4>1 DEF Req
      <4>3. Carries(s)
        BY DEF KeptInv
      <4> QED BY <1>1, <2>2, <4>1, <4>2, <4>3 DEF Carries
    <3> QED BY <3>1, <3>2
  <2>5. ASSUME NEW k \in Id \ {i}
        PROVE  Kept(k)' /\ (result'[k].decision = "pending" => result'[k] = Nothing)
    <3>1. Kept(k) /\ (result[k].decision = "pending" => result[k] = Nothing)
      BY DEF KeptInv
    <3> QED BY <2>2, <2>5, <3>1 DEF Kept
  <2>6. CASE job'[t].do = "idle"
    <3>1. Carries(t)'
      BY <2>6 DEF Carries
    <3> QED BY <1>1, <2>3, <2>4, <2>5, <2>6, <3>1 DEF KeptInv, Carried
  <2>7. CASE job'[t].do # "idle"
    <3>1. result'[i] = Nothing
      BY <2>1, <2>2, <2>7 DEF KeptInv, AloneInv
    <3>2. Kept(i)'
      <4>1. Nothing.seen = {} /\ Nothing.output = {}
        BY DEF Nothing
      <4> QED BY <3>1, <4>1, LeftOverNone DEF Kept
    <3> QED BY <1>1, <2>3, <2>4, <2>5, <2>7, <3>1, <3>2 DEF KeptInv, Carried
  <2> QED BY <2>6, <2>7
<1>4. ASSUME NEW t \in Thread, NEW q \in Requests, Receive(t, q) PROVE KeptInv'
  <2>1. PICK i \in Id \ DOMAIN asked :
          /\ job[t].do = "idle" /\ job'[t].do = "inspect" /\ job'[t].id = i
          /\ \A s \in Thread \ {t} : job'[s] = job[s]
          /\ \A k \in DOMAIN asked : asked'[k] = asked[k]
          /\ UNCHANGED <<policy, result, sent>>
    BY <1>4, ReceiveMoves
  <2>2. sent[i] = {} /\ \A k \in Id \ DOMAIN asked : sent[k] = {}
    BY DEF AloneInv
  <2>3. Carries(t)'
    BY <2>1, <2>2 DEF Carries
  <2>4. ASSUME NEW s \in Thread \ {t} PROVE Carries(s)'
    <3>1. Carries(s) /\ job'[s] = job[s]
      BY <2>1 DEF KeptInv
    <3>2. job[s].do # "idle" => Req(s)' = Req(s)
      BY <1>2, <2>1, <3>1 DEF Req
    <3> QED BY <1>1, <2>1, <3>1, <3>2 DEF Carries
  <2>5. ASSUME NEW k \in Id PROVE Kept(k)'
    <3>1. Kept(k)
      BY DEF KeptInv
    <3>2. CASE k \in DOMAIN asked
      BY <2>1, <3>1, <3>2 DEF Kept
    <3>3. CASE k \notin DOMAIN asked
      BY <2>1, <2>2, <3>1, <3>3 DEF Kept
    <3> QED BY <3>2, <3>3
  <2> QED BY <1>1, <2>1, <2>3, <2>4, <2>5 DEF KeptInv
<1>5. CASE UNCHANGED vars
  BY <1>5 DEF vars, KeptInv, Kept, Carries, Req, Found
<1> QED BY <1>3, <1>4, <1>5 DEF Next

LEMMA InitKept == Init => KeptInv
<1>1. Nothing.seen = {} /\ Nothing.output = {}
  BY DEF Nothing
<1> SUFFICES ASSUME Init PROVE KeptInv
  OBVIOUS
<1>2. \A i \in Id : result[i] = Nothing /\ sent[i] = {}
  BY DEF Init
<1>3. \A i \in Id : Kept(i)
  BY <1>1, <1>2, LeftOverNone DEF Kept
<1>4. \A t \in Thread : job[t].do = "idle"
  BY IdleJob DEF Init
<1>5. \A t \in Thread : Carries(t)
  BY <1>4 DEF Carries
<1>6. scanner # "ready"
  BY DEF Init
<1> QED BY <1>2, <1>3, <1>5, <1>6 DEF KeptInv

\* What the policy redacts does not come through, for any texts, however the spans in them
\* overlap, and although the scan that redacts is not the one that found the kinds: what
\* is left of a kind that was seen is the tail of an occurrence that began inside another.
THEOREM RedactionIsKept == Spec => []RedactionKept
<1>1. KeptInv => RedactionKept
  BY DEF KeptInv, Kept, RedactionKept
<1>2. Spec => []KeptInv
  BY InitKept, KeptNext, TypeInvAlways, AloneInvAlways, PTL DEF Spec
<1> QED BY <1>1, <1>2, PTL

-----------------------------------------------------------------------------
(* How far a request is from its end                                       *)

\* What a thread has to do about the analyzer before it inspects.
ToInspect(j, state) == IF j.building THEN 1 ELSE IF state = "unused" THEN 2 ELSE 0

\* The steps a thread with job j has before it at most.
StepsLeft(j, state) ==
  CASE j.do = "idle" -> 0
    [] j.do = "judgeReply" -> 1 + Len(j.todo)
    [] j.do = "inspectReply" -> 3 + ToInspect(j, state)
    [] j.do = "call" -> 8 - j.try
    [] j.do = "judge" -> 8 + Len(j.todo)
    [] j.do = "inspect" -> 11 + ToInspect(j, state)

LEMMA StepsLeftIs ==
  ASSUME NEW j \in Job, NEW state
  PROVE  /\ j.do = "idle" => StepsLeft(j, state) = 0
         /\ j.do = "judgeReply" => StepsLeft(j, state) = 1 + Len(j.todo)
         /\ j.do = "inspectReply" => StepsLeft(j, state) = 3 + ToInspect(j, state)
         /\ j.do = "call" => StepsLeft(j, state) = 8 - j.try
         /\ j.do = "judge" => StepsLeft(j, state) = 8 + Len(j.todo)
         /\ j.do = "inspect" => StepsLeft(j, state) = 11 + ToInspect(j, state)
         /\ ToInspect(j, state) \in 0..2 /\ Len(j.todo) \in Nat /\ j.try \in 1..2
         /\ StepsLeft(j, state) \in Nat
         /\ StepsLeft(j, state) = 0 <=> j.do = "idle"
<1>1. j.do \in Stage /\ j.try \in 1..2 /\ Len(j.todo) \in Nat
  BY JobFields
<1>2. ToInspect(j, state) \in 0..2
  BY DEF ToInspect
<1>3. /\ j.do = "idle" => StepsLeft(j, state) = 0
      /\ j.do = "judgeReply" => StepsLeft(j, state) = 1 + Len(j.todo)
      /\ j.do = "inspectReply" => StepsLeft(j, state) = 3 + ToInspect(j, state)
      /\ j.do = "call" => StepsLeft(j, state) = 8 - j.try
      /\ j.do = "judge" => StepsLeft(j, state) = 8 + Len(j.todo)
      /\ j.do = "inspect" => StepsLeft(j, state) = 11 + ToInspect(j, state)
  BY DEF StepsLeft
<1> QED BY <1>1, <1>2, <1>3 DEF Stage

\* A step that takes a thread on, by the order of the stages and the events still to emit.
LEMMA Onward ==
  ASSUME NEW j \in Job, NEW k \in Job, NEW s, NEW r,
         \/ k.do = "idle" /\ j.do # "idle"
         \/ k.do = "judgeReply" /\ j.do = "inspectReply" /\ Len(k.todo) <= 1
         \/ k.do = "inspectReply" /\ j.do = "call"
         \/ k.do = "call" /\ j.do = "call" /\ k.try > j.try
         \/ k.do = "call" /\ j.do = "judge"
         \/ k.do = "judge" /\ j.do = "inspect" /\ Len(k.todo) <= 2
         \/ k.do = j.do /\ j.do \in {"judge", "judgeReply"} /\ Len(k.todo) < Len(j.todo)
         \/ /\ k.do = j.do /\ j.do \in {"inspect", "inspectReply"}
            /\ ToInspect(k, r) < ToInspect(j, s)
  PROVE  StepsLeft(k, r) < StepsLeft(j, s)
<1>1. PICK a, b, m, n, x, y :
        /\ a = StepsLeft(j, s) /\ b = StepsLeft(k, r)
        /\ m = ToInspect(j, s) /\ n = ToInspect(k, r) /\ x = Len(j.todo) /\ y = Len(k.todo)
  OBVIOUS
<1>2. /\ j.do = "idle" <=> a = 0
      /\ j.do = "judgeReply" => a = 1 + x
      /\ j.do = "inspectReply" => a = 3 + m
      /\ j.do = "call" => a = 8 - j.try
      /\ j.do = "judge" => a = 8 + x
      /\ j.do = "inspect" => a = 11 + m
      /\ a \in Nat /\ m \in 0..2 /\ x \in Nat /\ j.try \in 1..2
  BY <1>1, StepsLeftIs
<1>3. /\ k.do = "idle" => b = 0
      /\ k.do = "judgeReply" => b = 1 + y
      /\ k.do = "inspectReply" => b = 3 + n
      /\ k.do = "call" => b = 8 - k.try
      /\ k.do = "judge" => b = 8 + y
      /\ k.do = "inspect" => b = 11 + n
      /\ b \in Nat /\ n \in 0..2 /\ y \in Nat /\ k.try \in 1..2
  BY <1>1, StepsLeftIs
<1>4. \/ k.do = "idle" /\ j.do # "idle"
      \/ k.do = "judgeReply" /\ j.do = "inspectReply" /\ y <= 1
      \/ k.do = "inspectReply" /\ j.do = "call"
      \/ k.do = "call" /\ j.do = "call" /\ k.try > j.try
      \/ k.do = "call" /\ j.do = "judge"
      \/ k.do = "judge" /\ j.do = "inspect" /\ y <= 2
      \/ k.do = j.do /\ j.do \in {"judge", "judgeReply"} /\ y < x
      \/ k.do = j.do /\ j.do \in {"inspect", "inspectReply"} /\ n < m
  BY <1>1
<1>5. b < a
  BY <1>2, <1>3, <1>4
<1> QED BY <1>1, <1>5

\* There are at most two events to emit after an inspection, and one after the second.
LEMMA FewToEmit ==
  ASSUME NEW i \in Id, NEW attack \in BOOLEAN, NEW seen
  PROVE  Len(Inbound(i, attack, seen)) <= 2 /\ Len(Outward(i, seen)) <= 1
<1>1. PICK a, b, o : a = AttackEvent(i) /\ b = InboundEvent(i) /\ o = OutboundEvent(i, seen)
  OBVIOUS
<1>2. a \in Event /\ b \in Event /\ o \in Event
  BY <1>1, EventTypes
<1>3. \A e \in Event : <<e>> \in Seq(Event) /\ Len(<<e>>) = 1
  OBVIOUS
<1>4. <<>> \in Seq(Event) /\ Len(<<>>) = 0
  OBVIOUS
<1>5. \A x, y \in Seq(Event) : Len(x \o y) = Len(x) + Len(y)
  OBVIOUS
<1>6. PICK x, y : x = When(attack, AttackEvent(i)) /\ y = When(seen # {}, InboundEvent(i))
  OBVIOUS
<1>7. (x = <<a>> \/ x = <<>>) /\ (y = <<b>> \/ y = <<>>)
  BY <1>1, <1>6 DEF When
<1>8. ASSUME NEW e \in Event, NEW z, z = <<e>> \/ z = <<>>
      PROVE  z \in Seq(Event) /\ (Len(z) = 0 \/ Len(z) = 1)
  <2>1. CASE z = <<e>>
    BY <1>3, <2>1
  <2>2. CASE z = <<>>
    BY <1>4, <2>2
  <2> QED BY <1>8, <2>1, <2>2
<1>9. Inbound(i, attack, seen) = x \o y \/ Inbound(i, attack, seen) = <<>>
  BY <1>6 DEF Inbound, ToEmit
<1>10. Outward(i, seen) = <<o>> \/ Outward(i, seen) = <<>>
  BY <1>1 DEF Outward, ToEmit, When
<1>11. Len(x \o y) <= 2
  <2>1. Len(x \o y) = Len(x) + Len(y)
    BY <1>2, <1>5, <1>7, <1>8
  <2>2. PICK m, n : m = Len(x) /\ n = Len(y)
    OBVIOUS
  <2>3. m \in {0, 1} /\ n \in {0, 1}
    BY <1>2, <1>7, <1>8, <2>2
  <2>4. m + n <= 2
    BY <2>3
  <2> QED BY <2>1, <2>2, <2>4
<1>12. Len(<<o>>) = 1
  BY <1>2, <1>3
<1>13. Len(Inbound(i, attack, seen)) <= 2
  BY <1>4, <1>9, <1>11
<1>14. Len(Outward(i, seen)) <= 1
  <2>1. CASE Outward(i, seen) = <<o>>
    BY <1>12, <2>1
  <2>2. CASE Outward(i, seen) = <<>>
    BY <1>4, <2>2
  <2> QED BY <1>10, <2>1, <2>2
<1> QED BY <1>13, <1>14

\* Each step of a thread brings its request nearer to its end.
LEMMA WorkAdvances ==
  ASSUME TypeInv, TypeInv', NEW t \in Thread, Work(t)
  PROVE  StepsLeft(job'[t], scanner') < StepsLeft(job[t], scanner)
<1>1. /\ job \in [Thread -> Job] /\ job[t] \in Job /\ job'[t] \in Job
      /\ job[t].do # "idle" /\ Idle.do = "idle"
  BY WorkFrame, IdleJob DEF TypeInv, TypeOK
<1>2. /\ job[t].id \in Id /\ Req(t).attack \in BOOLEAN
      /\ job[t].building => job[t].do \in {"inspect", "inspectReply"}
      /\ job[t].todo # <<>> => job[t].do \in {"judge", "judgeReply"}
  BY <1>1, ServedRequest DEF TypeInv, Placed
<1>3. ASSUME NEW before, NEW decision, Ends(t, before, decision)
      PROVE  StepsLeft(job'[t], scanner') < StepsLeft(job[t], scanner)
  <2>1. job'[t].do = "idle"
    BY <1>1, <1>3 DEF Ends
  <2> QED BY <1>1, <2>1, Onward
<1>4. CASE BeginAnalyzer(t) \/ EndAnalyzer(t)
  <2>1. job[t].do \in {"inspect", "inspectReply"} /\ job'[t].do = job[t].do
    BY <1>1, <1>2, <1>4 DEF BeginAnalyzer, EndAnalyzer, Inspecting, Job
  <2>2. ToInspect(job'[t], scanner') < ToInspect(job[t], scanner)
    <3>1. CASE BeginAnalyzer(t)
      <4>1. ~job[t].building /\ job'[t].building /\ scanner = "unused"
        BY <1>1, <3>1 DEF BeginAnalyzer, Inspecting, StartBuild, Job
      <4> QED BY <4>1 DEF ToInspect
    <3>2. CASE EndAnalyzer(t)
      <4>1. job[t].building /\ ~job'[t].building /\ scanner' # "unused"
        BY <1>1, <3>2 DEF EndAnalyzer, FinishBuild, Job
      <4> QED BY <4>1 DEF ToInspect
    <3> QED BY <1>4, <3>1, <3>2
  <2> QED BY <1>1, <2>1, <2>2, Onward
<1>5. CASE InspectRequest(t)
  <2>1. PICK j \in Job : /\ job' = [job EXCEPT ![t] = j] /\ j.do = "judge"
                         /\ j.todo = Inbound(job[t].id, Req(t).attack, j.seen)
    BY <1>5, InspectRequestMoves
  <2>2. job'[t] = j /\ job[t].do = "inspect"
    BY <1>1, <1>5, <2>1 DEF InspectRequest
  <2>3. Len(j.todo) <= 2
    BY <1>2, <2>1, FewToEmit
  <2> QED BY <1>1, <2>1, <2>2, <2>3, Onward
<1>6. CASE InspectReply(t)
  <2>1. PICK j \in Job : /\ job' = [job EXCEPT ![t] = j] /\ j.do = "judgeReply"
                         /\ j.todo = Outward(job[t].id, j.found)
    BY <1>6, InspectReplyMoves
  <2>2. job'[t] = j /\ job[t].do = "inspectReply"
    BY <1>1, <1>6, <2>1 DEF InspectReply
  <2>3. Len(j.todo) <= 1
    BY <1>2, <2>1, FewToEmit
  <2> QED BY <1>1, <2>1, <2>2, <2>3, Onward
<1>7. CASE Emit(t)
  <2>1. PICK todo : todo = job[t].todo
    OBVIOUS
  <2>2. todo \in Seq(Event) /\ todo # <<>> /\ job[t].do \in {"judge", "judgeReply"}
    BY <1>1, <1>2, <1>7, <2>1, JobFields DEF Emit
  <2>3. job'[t].todo = Tail(todo) /\ job'[t].do = job[t].do
    BY <1>1, <1>7, <2>1 DEF Emit, Job
  <2>4. Len(Tail(todo)) < Len(todo)
    BY <2>2
  <2> QED BY <1>1, <2>1, <2>2, <2>3, <2>4, Onward
<1>8. CASE JudgeRequest(t)
  <2>1. CASE \E before, decision : Ends(t, before, decision)
    BY <1>3, <2>1
  <2>2. CASE ~\E before, decision : Ends(t, before, decision)
    <3>1. PICK j \in Job : job' = [job EXCEPT ![t] = j] /\ j.do = "call"
      BY <1>8, <2>2, JudgeRequestMoves
    <3>2. job'[t] = j /\ job[t].do = "judge"
      BY <1>1, <1>8, <3>1 DEF JudgeRequest
    <3> QED BY <1>1, <3>1, <3>2, Onward
  <2> QED BY <2>1, <2>2
<1>9. CASE CallProvider(t)
  <2>1. CASE \E before, decision : Ends(t, before, decision)
    BY <1>3, <2>1
  <2>2. CASE ~\E before, decision : Ends(t, before, decision)
    <3>1. PICK j \in Job : /\ job' = [job EXCEPT ![t] = j]
                           /\ j.do = "inspectReply" \/ (j.do = "call" /\ j.try > job[t].try)
      BY <1>9, <2>2, CallProviderMoves
    <3>2. job'[t] = j /\ job[t].do = "call"
      BY <1>1, <1>9, <3>1 DEF CallProvider
    <3> QED BY <1>1, <3>1, <3>2, Onward
  <2> QED BY <2>1, <2>2
<1>10. CASE JudgeReply(t)
  BY <1>3, <1>10, JudgeReplyMoves
<1>11. CASE Raise(t)
  <2>1. job'[t].do = "idle"
    BY <1>1, <1>11 DEF Raise
  <2> QED BY <1>1, <2>1, Onward
<1> QED BY <1>4, <1>5, <1>6, <1>7, <1>8, <1>9, <1>10, <1>11 DEF Work

\* No step of another thread brings it farther.
LEMMA OthersKeepStepsLeft ==
  ASSUME TypeInv, NEW t \in Thread, [Next]_vars, job'[t] = job[t]
  PROVE  StepsLeft(job'[t], scanner') <= StepsLeft(job[t], scanner)
<1>1. job[t] \in Job /\ job[t].do \in Stage
  BY JobFields DEF TypeInv, TypeOK
<1>2. scanner' # scanner => scanner' # "unused"
  BY DEF Next, Work, BeginAnalyzer, EndAnalyzer, StartBuild, FinishBuild, InspectRequest,
     Emit, JudgeRequest, CallProvider, InspectReply, JudgeReply, Raise, Receive, vars
<1>3. ToInspect(job[t], scanner') <= ToInspect(job[t], scanner)
  BY <1>2 DEF ToInspect
<1>4. PICK a, b, m, n : /\ a = StepsLeft(job[t], scanner) /\ b = StepsLeft(job[t], scanner')
                        /\ m = ToInspect(job[t], scanner) /\ n = ToInspect(job[t], scanner')
  OBVIOUS
<1>5. /\ job[t].do \notin {"inspect", "inspectReply"} => b = a
      /\ job[t].do = "inspect" => a = 11 + m /\ b = 11 + n
      /\ job[t].do = "inspectReply" => a = 3 + m /\ b = 3 + n
      /\ a \in Nat /\ b \in Nat /\ m \in 0..2 /\ n \in 0..2
  <2>1. job[t].do \notin {"inspect", "inspectReply"} => b = a
    BY <1>1, <1>4, StepsLeftIs DEF Stage
  <2> QED BY <1>1, <1>4, <2>1, StepsLeftIs
<1>6. b <= a
  BY <1>3, <1>4, <1>5
<1> QED BY <1>4, <1>6

FewSteps == \A t \in Thread : StepsLeft(job[t], scanner) <= 13

\* What a step does to how far a request is from its end.
LEMMA StepAdvances ==
  ASSUME TypeInv, TypeInv', [Next]_vars, NEW t \in Thread
  PROVE  \/ job[t].do # "idle" /\ StepsLeft(job'[t], scanner') < StepsLeft(job[t], scanner)
         \/ job'[t] = job[t] /\ StepsLeft(job'[t], scanner') <= StepsLeft(job[t], scanner)
         \/ job[t].do = "idle" /\ job'[t].do = "inspect"
<1>1. \/ Work(t) \/ job'[t] = job[t]
      \/ job[t].do = "idle" /\ job'[t].do = "inspect"
  <2>1. ASSUME NEW s \in Thread, Work(s), s # t PROVE job'[t] = job[t]
    BY <2>1, WorkFrame
  <2>2. ASSUME NEW s \in Thread, NEW q \in Requests, Receive(s, q)
        PROVE  job'[t] = job[t] \/ (job[t].do = "idle" /\ job'[t].do = "inspect")
    BY <2>2, ReceiveMoves
  <2> QED BY <2>1, <2>2 DEF Next, vars
<1> QED BY <1>1, WorkAdvances, OthersKeepStepsLeft, WorkFrame

LEMMA FewStepsNext == TypeInv /\ TypeInv' /\ FewSteps /\ [Next]_vars => FewSteps'
<1> SUFFICES ASSUME TypeInv, TypeInv', FewSteps, [Next]_vars, NEW t \in Thread
             PROVE  StepsLeft(job'[t], scanner') <= 13
  BY DEF FewSteps
<1>1. PICK a, b : a = StepsLeft(job[t], scanner) /\ b = StepsLeft(job'[t], scanner')
  OBVIOUS
<1>2. a \in Nat /\ b \in Nat /\ a <= 13
  BY <1>1, StepsLeftIs DEF FewSteps, TypeInv, TypeOK
<1>3. b <= 13
  <2>1. CASE job'[t].do = "inspect"
    <3>1. PICK m : m = ToInspect(job'[t], scanner') /\ m \in 0..2 /\ b = 11 + m
      BY <1>1, <2>1, StepsLeftIs DEF TypeInv, TypeOK
    <3> QED BY <3>1
  <2>2. CASE job'[t].do # "inspect"
    <3>1. b < a \/ b <= a
      BY <1>1, <2>2, StepAdvances
    <3> QED BY <1>2, <3>1
  <2> QED BY <2>1, <2>2
<1> QED BY <1>1, <1>3

\* A request takes at most thirteen steps of its thread, whatever the providers answer,
\* whatever its events meet and whatever overtakes it: each of them brings it nearer to its
\* end, and no other thread drives it back.
THEOREM RequestsAdvance ==
  Spec => /\ []FewSteps
          /\ [][\A t \in Thread :
                  job[t].do # "idle" =>
                    /\ StepsLeft(job[t], scanner) \in 1..13
                    /\ \/ StepsLeft(job'[t], scanner') < StepsLeft(job[t], scanner)
                       \/ /\ job'[t] = job[t]
                          /\ StepsLeft(job'[t], scanner') <= StepsLeft(job[t], scanner)]_vars
<1>1. Init => FewSteps
  <2> SUFFICES ASSUME Init, NEW t \in Thread PROVE StepsLeft(job[t], scanner) <= 13
    BY DEF FewSteps
  <2>1. StepsLeft(job[t], scanner) = 0
    BY IdleJob, StepsLeftIs DEF Init
  <2> QED BY <2>1
<1>2. ASSUME TypeInv, TypeInv', FewSteps, [Next]_vars, NEW t \in Thread, job[t].do # "idle"
      PROVE  /\ StepsLeft(job[t], scanner) \in 1..13
             /\ \/ StepsLeft(job'[t], scanner') < StepsLeft(job[t], scanner)
                \/ /\ job'[t] = job[t]
                   /\ StepsLeft(job'[t], scanner') <= StepsLeft(job[t], scanner)
  <2>1. PICK a : a = StepsLeft(job[t], scanner)
    OBVIOUS
  <2>2. a \in Nat /\ a # 0 /\ a <= 13
    BY <1>2, <2>1, StepsLeftIs DEF TypeInv, TypeOK, FewSteps
  <2>3. a \in 1..13
    BY <2>2
  <2> QED BY <1>2, <2>1, <2>3, StepAdvances
<1>3. TypeInv /\ TypeInv' /\ FewSteps /\ [Next]_vars =>
        [\A t \in Thread :
           job[t].do # "idle" =>
             /\ StepsLeft(job[t], scanner) \in 1..13
             /\ \/ StepsLeft(job'[t], scanner') < StepsLeft(job[t], scanner)
                \/ /\ job'[t] = job[t]
                   /\ StepsLeft(job'[t], scanner') <= StepsLeft(job[t], scanner)]_vars
  BY <1>2
<1> QED BY <1>1, <1>3, FewStepsNext, TypeInvAlways, PTL DEF Spec

\* A request that has no answer yet has a thread.
NoneForgotten ==
  \A i \in DOMAIN asked :
    result[i].decision = "pending" => \E t \in Thread : job[t].do # "idle" /\ job[t].id = i

LEMMA WorkEnds ==
  ASSUME TypeInv, NEW t \in Thread, Work(t), job'[t].do = "idle"
  PROVE  result'[job[t].id].decision # "pending"
<1>1. /\ job \in [Thread -> Job] /\ job[t] \in Job /\ result \in [Id -> Result]
      /\ job[t].id \in Id /\ job[t].do # "idle" /\ "pending" \notin Decision
  BY WorkFrame, ServedRequest DEF TypeInv, TypeOK, Decision
<1>2. CASE \E before, decision : Ends(t, before, decision)
  BY <1>1, <1>2 DEF Ends
<1>3. CASE Raise(t)
  BY <1>1, <1>3 DEF Raise, Result
<1>4. CASE ~(\E before, decision : Ends(t, before, decision)) /\ ~Raise(t)
  <2>1. CASE BeginAnalyzer(t) \/ EndAnalyzer(t) \/ Emit(t)
    BY <1>1, <2>1 DEF BeginAnalyzer, EndAnalyzer, Emit, Job
  <2>2. CASE InspectRequest(t) \/ InspectReply(t)
    BY <1>1, <2>2, InspectRequestMoves, InspectReplyMoves
  <2>3. CASE JudgeRequest(t) \/ CallProvider(t) \/ JudgeReply(t)
    BY <1>1, <1>4, <2>3, JudgeRequestMoves, CallProviderMoves, JudgeReplyMoves
  <2> QED BY <1>4, <2>1, <2>2, <2>3 DEF Work
<1> QED BY <1>2, <1>3, <1>4

\* A request without a decision has a thread at work on it: none is dropped on the way,
\* whichever policy stops it and whatever raises.
THEOREM NobodyIsForgotten == Spec => []NoneForgotten
<1>1. Init => NoneForgotten
  BY DEF Init, NoneForgotten
<1>2. ASSUME TypeInv, NoneForgotten, [Next]_vars PROVE NoneForgotten'
  <2> SUFFICES ASSUME NEW i \in DOMAIN asked', result'[i].decision = "pending"
               PROVE  \E t \in Thread : job'[t].do # "idle" /\ job'[t].id = i
    BY DEF NoneForgotten
  <2>1. ASSUME NEW t \in Thread, Work(t)
        PROVE  \E s \in Thread : job'[s].do # "idle" /\ job'[s].id = i
    <3>1. /\ \A s \in Thread \ {t} : job'[s] = job[s]
          /\ UNCHANGED asked /\ job[t].do # "idle"
          /\ job'[t].do # "idle" => /\ job'[t].id = job[t].id
                                   /\ result'[job[t].id] = result[job[t].id]
          /\ \A k \in Id \ {job[t].id} : result'[k] = result[k]
          /\ job'[t].do = "idle" => result'[job[t].id].decision # "pending"
      BY <1>2, <2>1, WorkFrame, WorkEnds
    <3>2. i \in Id /\ i \in DOMAIN asked
      BY <1>2, <3>1 DEF TypeInv, TypeOK, Id
    <3>3. result[i].decision = "pending"
      BY <3>1, <3>2
    <3>4. PICK s \in Thread : job[s].do # "idle" /\ job[s].id = i
      BY <1>2, <3>2, <3>3 DEF NoneForgotten
    <3> QED BY <3>1, <3>4
  <2>2. ASSUME NEW t \in Thread, NEW q \in Requests, Receive(t, q)
        PROVE  \E s \in Thread : job'[s].do # "idle" /\ job'[s].id = i
    <3>1. PICK n : /\ DOMAIN asked' = DOMAIN asked \cup {n}
                   /\ job'[t].id = n /\ job'[t].do = "inspect"
                   /\ job[t].do = "idle" /\ \A s \in Thread \ {t} : job'[s] = job[s]
                   /\ UNCHANGED result
      BY <1>2, <2>2, ReceiveMoves
    <3> QED BY <1>2, <3>1 DEF NoneForgotten
  <2>3. CASE UNCHANGED vars
    BY <1>2, <2>3 DEF NoneForgotten, vars
  <2> QED BY <1>2, <2>1, <2>2, <2>3 DEF Next
<1> QED BY <1>1, <1>2, TypeInvAlways, PTL DEF Spec
=============================================================================
