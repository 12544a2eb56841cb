------------------------------ MODULE Gateway ------------------------------
(***************************************************************************)
(* POST /v1/gateway/chat (gateway/pipeline.py and gateway/main.py): a      *)
(* request is inspected, judged by the policy of the deployment, routed to *)
(* a provider; the reply is inspected and judged in turn.  The service     *)
(* keeps no state of its own, but the threads of its process share the     *)
(* PII scanner of the proxy, and events go to the proxy's table when the   *)
(* deployment wants them.                                                  *)
(*                                                                         *)
(* A text is the set of its occurrences of PII.  Messages are inspected    *)
(* joined but redacted one by one, so a request tells apart what is inside *)
(* one message and what is spread over two.  Left out: the system prompt,  *)
(* which nobody inspects, token counts, and the fingerprints of the audit  *)
(* log.                                                                    *)
(***************************************************************************)
EXTENDS PiiRedaction, ProviderChain, SecurityEvents, Sequences, FiniteSets

CONSTANTS Thread,       \* request threads
          Policies,     \* the deployments considered
          Requests,     \* the requests considered
          Replies,      \* the texts of the provider replies considered
          MaxRequests,  \* bound: requests served
          MaxFailures   \* bound: requests that raise

PIIAction == {"allow", "redact", "block"}

\* GatewayPolicy, and whether GATEWAY_RECORD_EVENTS is on.
Policy == [attack : BOOLEAN, request : PIIAction, response : PIIAction, record : BOOLEAN]

Messages == [inside : Text, across : Text]
Outgoing == [inside : Remains, across : Text]
Request == [messages : Messages, attack : BOOLEAN, route : Route \cup {"unknown"}]

ASSUME GatewayAssumption ==
  /\ IsFiniteSet(Thread)
  /\ Policies \subseteq Policy
  /\ Requests \subseteq Request /\ Replies \subseteq Text
  /\ {MaxRequests, MaxFailures} \subseteq Nat

VARIABLES policy,    \* the policy of this deployment
          asked,     \* the requests so far: request i is asked[i]
          events,    \* security_events of source gateway
          job,       \* what each request thread still has to do
          audit,     \* the audit log, one trail per request_id
          result,    \* what the client of each request got
          failures,  \* requests that raised so far
          sent,      \* history: what each request sent to a provider, at most one element
          lost       \* history: events that were never written

vars == <<scanner, policy, asked, events, job, audit, result, failures, sent, lost>>

Id == 1..MaxRequests

Decision == {"ALLOW", "BLOCK", "ERROR"}
Line == Decision \cup {"request_received", "request_inspected", "request_policy",
                       "provider_called", "response_inspected"}

\* GatewayResult, as far as the properties look at it.
Nothing == [decision |-> "pending", output |-> {}, seen |-> {}, found |-> {}, answer |-> {}]
Result == [decision : Decision \cup {"pending", "crashed"},
           output : Remains,         \* what the client was given
           seen : SUBSET Kind,      \* request_inspection
           found : SUBSET Kind,     \* response_inspection
           answer : Text]            \* the reply it was made from

Event == [type : {"attack_attempt", "request_blocked", "policy_violation"},
          severity : Severity, id : Id,
          category : {"prompt_injection", "sensitive_data_inbound",
                      "sensitive_information_disclosure"}]

\* A thread's place in run_pipeline: the events still to emit, what was seen in the
\* request, the messages as the policy leaves them, the provider to try, its reply, and
\* what was found in that.
Stage == {"idle", "inspect", "judge", "call", "inspectReply", "judgeReply"}
Job == [do : Stage, building : BOOLEAN, id : Id \cup {0}, todo : Seq(Event),
        seen : SUBSET Kind, outbound : Outgoing, try : 1..2, reply : Text,
        found : SUBSET Kind]
NoMessages == [inside |-> {}, across |-> {}]
Idle == [do |-> "idle", building |-> FALSE, id |-> 0, todo |-> <<>>, seen |-> {},
         outbound |-> NoMessages, try |-> 1, reply |-> {}, found |-> {}]

Init ==
  /\ scanner = "unused"
  /\ policy \in Policies
  /\ asked = <<>> /\ events = {} /\ lost = {}
  /\ job = [t \in Thread |-> Idle]
  /\ audit = [i \in Id |-> <<>>]
  /\ result = [i \in Id |-> Nothing]
  /\ failures = 0
  /\ sent = [i \in Id |-> {}]

-----------------------------------------------------------------------------
(* Inspection                                                              *)

Req(t) == asked[job[t].id]
Untrusted(messages) == messages.inside \cup messages.across

Audit(i, lines) == audit' = [audit EXCEPT ![i] = @ \o lines]

Receive(t, q) ==
  /\ job[t] = Idle
  /\ Len(asked) < MaxRequests
  /\ asked' = Append(asked, q)
  /\ job' = [job EXCEPT ![t] = [Idle EXCEPT !.id = Len(asked) + 1, !.do = "inspect"]]
  /\ Audit(Len(asked) + 1, <<"request_received">>)
  /\ UNCHANGED <<scanner, policy, events, result, failures, sent, lost>>

Inspecting(t) == job[t].do \in {"inspect", "inspectReply"} /\ ~job[t].building

BeginAnalyzer(t) ==
  /\ Inspecting(t)
  /\ StartBuild
  /\ job' = [job EXCEPT ![t].building = TRUE]
  /\ UNCHANGED <<policy, asked, events, audit, result, failures, sent, lost>>

EndAnalyzer(t) ==
  /\ job[t].building
  /\ FinishBuild
  /\ job' = [job EXCEPT ![t].building = FALSE]
  /\ UNCHANGED <<policy, asked, events, audit, result, failures, sent, lost>>

AttackEvent(i) ==
  [type |-> "attack_attempt", severity |-> "high", id |-> i,
   category |-> "prompt_injection"]

\* Seeded defect: the type of the event follows the other policy of the deployment.
InboundEventSwapped(i) ==
  [type |-> IF policy.response = "block" THEN "request_blocked" ELSE "policy_violation",
   severity |-> "medium", id |-> i, category |-> "sensitive_data_inbound"]

InboundEvent(i) ==
  [type |-> IF policy.request = "block" THEN "request_blocked" ELSE "policy_violation",
   severity |-> "medium", id |-> i, category |-> "sensitive_data_inbound"]

OutboundEvent(i, found) ==
  [type |-> IF policy.response = "block" THEN "request_blocked" ELSE "policy_violation",
   severity |-> IF "api_key" \in found THEN "high" ELSE "medium", id |-> i,
   category |-> "sensitive_information_disclosure"]

\* What emit is called with, if the deployment has a sink.
ToEmit(es) == IF policy.record THEN es ELSE <<>>
When(c, e) == IF c THEN <<e>> ELSE <<>>

InspectRequest(t) ==
  LET i == job[t].id
      seen == Seen(Untrusted(Req(t).messages))
  IN  /\ Inspecting(t) /\ job[t].do = "inspect" /\ CanScan
      /\ job' = [job EXCEPT ![t].do = "judge", ![t].seen = seen,
                            ![t].todo = ToEmit(When(Req(t).attack, AttackEvent(i))
                                               \o When(seen # {}, InboundEvent(i)))]
      /\ Audit(i, <<"request_inspected">>)
      /\ UNCHANGED <<scanner, policy, asked, events, result, failures, sent, lost>>

\* record_event_standalone: whether or not the event is written, the request goes on.
Emit(t) ==
  /\ job[t].todo # <<>>
  /\ events' \in AfterRecording(events, Head(job[t].todo))
  /\ lost' = IF Head(job[t].todo) \in events' THEN lost ELSE lost \cup {Head(job[t].todo)}
  /\ job' = [job EXCEPT ![t].todo = Tail(@)]
  /\ UNCHANGED <<scanner, policy, asked, audit, result, failures, sent>>

-----------------------------------------------------------------------------
(* Policy                                                                  *)

\* Seeded defect: the error path returns without its audit line.
FinalLinesUnlessError(decision) == IF decision = "ERROR" THEN <<>> ELSE <<decision>>

FinalLines(decision) == <<decision>>

Finish(t, before, r) ==
  /\ Audit(job[t].id, before \o FinalLines(r.decision))
  /\ result' = [result EXCEPT ![job[t].id] = r]
  /\ job' = [job EXCEPT ![t] = Idle]

\* What will be sent.
Outbound(messages, seen) ==
  IF seen # {} /\ policy.request = "redact"
  THEN [messages EXCEPT !.inside = Redacted(@)] ELSE messages

RequestBlocked(q, seen) ==
  \/ q.attack /\ policy.attack
  \/ seen # {} /\ policy.request = "block"

\* The request is blocked, or redacted and handed on; an unknown route ends it.
JudgeRequest(t) ==
  LET q == Req(t)
      j == job[t]
      blocked == RequestBlocked(q, j.seen)
      End(before, decision) ==
        Finish(t, before, [Nothing EXCEPT !.decision = decision, !.seen = j.seen])
  IN  /\ j.do = "judge" /\ j.todo = <<>>
      /\ \/ blocked /\ End(<<>>, "BLOCK")
         \/ ~blocked /\ q.route = "unknown" /\ End(<<"request_policy">>, "ERROR")
         \/ /\ ~blocked /\ q.route # "unknown"
            /\ Audit(j.id, <<"request_policy">>)
            /\ job' = [job EXCEPT ![t].do = "call",
                                 ![t].outbound = Outbound(q.messages, j.seen)]
            /\ UNCHANGED result
      /\ UNCHANGED <<scanner, policy, asked, events, failures, sent, lost>>

-----------------------------------------------------------------------------
(* The provider and its reply                                              *)

Tries(t) == Chain(Req(t).route)

\* Seeded defect: the chain starts over when it ends.
FailStartsOver(t) ==
  /\ job' = [job EXCEPT ![t].try = 1 + (@ % Len(Tries(t)))]
  /\ UNCHANGED <<audit, result>>

Fail(t) ==
  IF job[t].try < Len(Tries(t))
  THEN job' = [job EXCEPT ![t].try = @ + 1] /\ UNCHANGED <<audit, result>>
  ELSE Finish(t, <<>>, [Nothing EXCEPT !.decision = "ERROR", !.seen = job[t].seen])

CallProvider(t) ==
  LET keyed == HasKey(Req(t).route, FALSE, Tries(t)[job[t].try])
  IN  /\ job[t].do = "call"
      /\ \/ Fail(t)
         \/ /\ keyed
            /\ \E text \in Replies :
                 job' = [job EXCEPT ![t].do = "inspectReply", ![t].reply = text]
            /\ Audit(job[t].id, <<"provider_called">>)
            /\ UNCHANGED result
      /\ sent' = IF keyed THEN [sent EXCEPT ![job[t].id] = {job[t].outbound}] ELSE sent
      /\ UNCHANGED <<scanner, policy, asked, events, failures, lost>>

InspectReply(t) ==
  LET found == Seen(job[t].reply)
  IN  /\ Inspecting(t) /\ job[t].do = "inspectReply" /\ CanScan
      /\ job' = [job EXCEPT ![t].do = "judgeReply", ![t].found = found,
                            ![t].todo = ToEmit(When(found # {},
                                                    OutboundEvent(job[t].id, found)))]
      /\ Audit(job[t].id, <<"response_inspected">>)
      /\ UNCHANGED <<scanner, policy, asked, events, result, failures, sent, lost>>

ReplyBlocked(found) == found # {} /\ policy.response = "block"
Output(reply, found) ==
  IF found # {} /\ policy.response = "redact" THEN Redacted(reply) ELSE reply

JudgeReply(t) ==
  LET j == job[t]
  IN  /\ j.do = "judgeReply" /\ j.todo = <<>>
      /\ Finish(t, <<>>,
                [decision |-> IF ReplyBlocked(j.found) THEN "BLOCK" ELSE "ALLOW",
                 output |-> IF ReplyBlocked(j.found) THEN {} ELSE Output(j.reply, j.found),
                 seen |-> j.seen, found |-> j.found, answer |-> j.reply])
      /\ UNCHANGED <<scanner, policy, asked, events, failures, sent, lost>>

\* A scan raises, or a reply lacks a part it should have: the client gets a 500.
Raise(t) ==
  /\ Inspecting(t)
  /\ failures < MaxFailures
  /\ failures' = failures + 1
  /\ result' = [result EXCEPT ![job[t].id].decision = "crashed"]
  /\ job' = [job EXCEPT ![t] = Idle]
  /\ UNCHANGED <<scanner, policy, asked, events, audit, sent, lost>>

Work(t) ==
  \/ BeginAnalyzer(t) \/ EndAnalyzer(t) \/ InspectRequest(t) \/ Emit(t) \/ JudgeRequest(t)
  \/ CallProvider(t) \/ InspectReply(t) \/ JudgeReply(t) \/ Raise(t)

Next == \E t \in Thread : Work(t) \/ \E q \in Requests : Receive(t, q)

Spec == Init /\ [][Next]_vars

\* A thread that has begun goes on: the clients of both providers have a timeout.
FairSpec == Spec /\ \A t \in Thread : WF_vars(Work(t))

-----------------------------------------------------------------------------
(* Properties                                                              *)

TypeOK ==
  /\ scanner \in ScannerState
  /\ policy \in Policies
  /\ asked \in Seq(Requests) /\ Len(asked) <= MaxRequests
  /\ events \subseteq Event /\ lost \subseteq Event
  /\ job \in [Thread -> Job]
  /\ audit \in [Id -> Seq(Line)]
  /\ result \in [Id -> Result]
  /\ failures \in 0..MaxFailures
  /\ sent \in [Id -> SUBSET Outgoing]

Lines(i) == {audit[i][n] : n \in DOMAIN audit[i]}

\* The audit trail of a request tells its story without the reply: its last line is the
\* decision the client got, no trail holds two decisions or a line twice, a request that
\* raised has none, and no provider saw a request whose trail does not say that the
\* policy let it pass.
TrailTellsDecision ==
  \A i \in Id :
    /\ Cardinality(Lines(i)) = Len(audit[i])
    /\ IF result[i].decision \in Decision
       THEN /\ audit[i][Len(audit[i])] = result[i].decision
            /\ Cardinality(Lines(i) \cap Decision) = 1
       ELSE Lines(i) \cap Decision = {}
    /\ sent[i] # {} => "request_policy" \in Lines(i)

\* What the policy redacts does not come through, although redaction scans anew while
\* another request may be building the analyzer: of the kinds of PII the client is told
\* were seen, a message that a provider was sent, and the output made of a reply, hold no
\* more than the tail of an occurrence that began inside another one.  That goes
\* for names, which only the analyzer sees, as for what the patterns see: docs/GATEWAY.md
\* still says that names are "*detected* and reported but not redacted", the code replaces
\* them (D-054).  What is spread over two messages is seen but not redacted: the code
\* looks at one at a time.
RedactionKept ==
  \A i \in Id :
    /\ policy.request = "redact" =>
         \A m \in sent[i] : LeftOver(asked[i].messages.inside, m.inside, result[i].seen)
    /\ policy.response # "allow" =>
         LeftOver(result[i].answer, result[i].output, result[i].found)

\* "Redacts every matched span" (proxy/middleware/pii_scanner.py): nothing is left in an
\* output of the kinds that were found in its reply.  The pass skips a span that begins
\* inside another one, and what of it lies beyond stays.
RedactionComplete ==
  \A i \in Id :
    policy.response # "allow" => Kinds(result[i].output) \cap result[i].found = {}

\* "request_blocked: a PII block policy" (docs/MONITORING.md): the events and the decision
\* tell the same story.  An event that says blocked belongs to a request that ends in
\* BLOCK, raises, or is not done; and a deployment that records events reports each BLOCK
\* unless the event was lost.
Blocking(e) == e.type = "request_blocked" \/ (e.type = "attack_attempt" /\ policy.attack)

EventsAgree ==
  /\ \A e \in events :
       Blocking(e) => result[e.id].decision \in {"BLOCK", "pending", "crashed"}
  /\ policy.record =>
       \A i \in Id : result[i].decision = "BLOCK" =>
         \E e \in events \cup lost : e.id = i /\ Blocking(e)

\* Every request ends, whatever the providers answer.
EveryRequestEnds == \A i \in Id : (i \in DOMAIN asked) ~> (result[i].decision # "pending")
=============================================================================
