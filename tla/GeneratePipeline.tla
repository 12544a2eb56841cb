-------------------------- MODULE GeneratePipeline --------------------------
(***************************************************************************)
(* POST /v1/generate (proxy/main.py): the guardrails in their order, the   *)
(* quota of a user, the provider with its fallback, the call log and the   *)
(* events.  Requests run in a thread pool; a thread may be overtaken at    *)
(* every database access, provider call and scan, and the quota counters   *)
(* and the scanner are shared by all.                                      *)
(*                                                                         *)
(* A text is what the scanners tell of it.  Left out: token counts, cost,  *)
(* latency, the grounding score, which only decorate the row, and the      *)
(* ownership check, which refuses before anything happens.                 *)
(***************************************************************************)
EXTENDS PiiScanner, ProviderChain, SecurityEvents, Sequences, FiniteSets

CONSTANTS Thread,       \* request threads
          User,
          Session,      \* the session ids clients make up
          Requests,     \* the requests considered
          Replies,      \* the provider replies considered
          Cap,          \* settings.rate_limit_per_session
          MaxRequests,  \* bound: requests served
          MaxFailures   \* bound: requests that raise without cause of their own

Schema == {"none", "known", "unknown"}

Request == [user : User, session : Session, big : BOOLEAN, attack : BOOLEAN,
            text : SUBSET Kind, route : Route, byok : BOOLEAN,
            schema : Schema]
Reply == [text : SUBSET Kind, valid : BOOLEAN]

ASSUME GenerateAssumption ==
  /\ IsFiniteSet(Thread)
  /\ Requests \subseteq Request /\ Replies \subseteq Reply
  /\ {Cap, MaxRequests, MaxFailures} \subseteq Nat

VARIABLES counts,    \* _session_counts
          asked,     \* the requests so far: request i is asked[i]
          rows,      \* call_logs
          events,    \* security_events of this component
          job,       \* what each request thread still has to do
          answered,  \* what the client of each request got
          failures,  \* requests that raised so far
          calls,     \* history: provider calls made for each request, counted up to two
          charged,   \* history: requests a unit of quota was spent for
          lost       \* history: events that were never written

vars ==
  <<scanner, counts, asked, rows, events, job, answered, failures, calls, charged, lost>>

Id == 1..MaxRequests

Blocked == {"input_too_large", "injection_detected", "rate_limit_exceeded"}
Unserved == {"provider_credentials_missing", "provider_failed"}
Code == Blocked \cup Unserved \cup {"schema_validation_failed", "ok"}

\* The columns the properties look at; types is the PII the guardrails speak of.
Row == [id : Id, code : Code, types : SUBSET Kind]

Event == [type : {"policy_violation", "attack_attempt", "request_blocked"},
          severity : Severity, id : Id, types : SUBSET Kind,
          category : {"sensitive_data_inbound", "sensitive_information_disclosure",
                      "prompt_injection", "input_size", "rate_limit"}]

NoReply == [text |-> {}, valid |-> TRUE]

\* A thread's place in the handler: the provider to try, the reply, and what the
\* scans of the prompt and of the reply found.
Stage == {"idle", "scan", "notice", "judge", "call", "scanReply", "noticeReply",
          "check", "log", "alarm"}
Job == [do : Stage, building : BOOLEAN, id : Id \cup {0}, try : 1..2, reply : Reply,
        inbound : SUBSET Kind, outbound : SUBSET Kind, code : Code]
Idle == [do |-> "idle", building |-> FALSE, id |-> 0, try |-> 1, reply |-> NoReply,
         inbound |-> {}, outbound |-> {}, code |-> "ok"]

Init ==
  /\ scanner = "unused"
  /\ counts = [k \in User \cup Session |-> 0]
  /\ asked = <<>> /\ rows = <<>> /\ events = {} /\ charged = {} /\ lost = {}
  /\ job = [t \in Thread |-> Idle]
  /\ answered = [i \in Id |-> "pending"]
  /\ failures = 0
  /\ calls = [i \in Id |-> 0]

-----------------------------------------------------------------------------
(* The request                                                             *)

Req(t) == asked[job[t].id]

\* Moves a thread to its next stage.
Goto(t, stage) == job' = [job EXCEPT ![t].do = stage]
End(t, code) == job' = [job EXCEPT ![t].do = "log", ![t].code = code]

\* An oversized prompt is refused before anything looks at it.
Receive(t, q) ==
  /\ job[t] = Idle
  /\ Len(asked) < MaxRequests
  /\ asked' = Append(asked, q)
  /\ job' = [job EXCEPT ![t] =
               [Idle EXCEPT !.id = Len(asked) + 1,
                            !.do = IF q.big THEN "log" ELSE "scan",
                            !.code = IF q.big THEN "input_too_large" ELSE "ok"]]
  /\ UNCHANGED <<scanner, counts, rows, events, answered, failures, calls, charged, lost>>

Scanning(t) == job[t].do \in {"scan", "scanReply"} /\ ~job[t].building

\* The first scan of the process builds the analyzer.
BeginAnalyzer(t) ==
  /\ Scanning(t)
  /\ StartBuild
  /\ job' = [job EXCEPT ![t].building = TRUE]
  /\ UNCHANGED <<counts, asked, rows, events, answered, failures, calls, charged, lost>>

EndAnalyzer(t) ==
  /\ job[t].building
  /\ FinishBuild
  /\ job' = [job EXCEPT ![t].building = FALSE]
  /\ UNCHANGED <<counts, asked, rows, events, answered, failures, calls, charged, lost>>

\* check_pii of the untrusted text.
ScanPrompt(t) ==
  /\ Scanning(t) /\ job[t].do = "scan" /\ CanScan
  /\ LET found == Found(Req(t).text)
     IN  job' = [job EXCEPT ![t].inbound = found,
                            ![t].do = IF found = {} THEN "judge" ELSE "notice"]
  /\ UNCHANGED <<scanner, counts, asked, rows, events, answered, failures, calls, charged, lost>>

\* Seeded defect: the counter follows the session id the client sent.
QuotaKeySession(q) == q.session

QuotaKey(q) == q.user

\* check_and_increment: no call between its reads and its write, so it is one step.
HasQuota(q) == counts[QuotaKey(q)] < Cap

\* Seeded defect: the counter is read but not advanced.
SpentNothing(q) == counts

Spent(q) == [counts EXCEPT ![QuotaKey(q)] = @ + 1]

\* Seeded defect: the quota is spent before the prompt is judged.
AdmissionQuotaFirst(t, q) ==
  \/ ~HasQuota(q) /\ End(t, "rate_limit_exceeded") /\ UNCHANGED <<counts, charged>>
  \/ HasQuota(q) /\ counts' = Spent(q) /\ charged' = charged \cup {job[t].id}
       /\ IF q.attack THEN End(t, "injection_detected") ELSE Goto(t, "call")

\* A known attack is refused, then a user whose quota is spent.
Admission(t, q) ==
  \/ q.attack /\ End(t, "injection_detected") /\ UNCHANGED <<counts, charged>>
  \/ ~q.attack /\ ~HasQuota(q) /\ End(t, "rate_limit_exceeded") /\ UNCHANGED <<counts, charged>>
  \/ ~q.attack /\ HasQuota(q) /\ Goto(t, "call")
       /\ counts' = Spent(q) /\ charged' = charged \cup {job[t].id}

Judge(t) ==
  /\ job[t].do = "judge"
  /\ Admission(t, Req(t))
  /\ UNCHANGED <<scanner, asked, rows, events, answered, failures, calls, lost>>

-----------------------------------------------------------------------------
(* The provider                                                            *)

Tries(t) == Chain(Req(t).route)

\* Seeded defect: the general handler comes before the special one.
FailureCodeGeneral(keyed) == "provider_failed"

\* MissingCredentialsError and every other ProviderError.
FailureCode(keyed) == IF keyed THEN "provider_failed" ELSE "provider_credentials_missing"

\* Seeded defect: the chain starts over when it ends.
FailStartsOver(t, keyed) ==
  job' = [job EXCEPT ![t].try = 1 + (@ % Len(Tries(t)))]

\* The next provider of the chain, or the error of the last one.
Fail(t, keyed) ==
  IF job[t].try < Len(Tries(t)) THEN job' = [job EXCEPT ![t].try = @ + 1]
  ELSE End(t, FailureCode(keyed))

CallProvider(t) ==
  LET keyed == HasKey(Req(t).route, Req(t).byok, Tries(t)[job[t].try])
  IN  /\ job[t].do = "call"
      /\ \/ Fail(t, keyed)
         \/ keyed /\ \E r \in Replies :
              job' = [job EXCEPT ![t].reply = r, ![t].do = "scanReply"]
      /\ calls' = [calls EXCEPT ![job[t].id] = IF keyed /\ @ < 2 THEN @ + 1 ELSE @]
      /\ UNCHANGED <<scanner, counts, asked, rows, events, answered, failures, charged, lost>>

ScanReply(t) ==
  /\ Scanning(t) /\ job[t].do = "scanReply" /\ CanScan
  /\ LET found == Found(job[t].reply.text)
     IN  job' = [job EXCEPT ![t].outbound = found,
                            ![t].do = IF found = {} THEN "check" ELSE "noticeReply"]
  /\ UNCHANGED <<scanner, counts, asked, rows, events, answered, failures, calls, charged, lost>>

\* The retry of validate_structured_output looks at the same text again, so it fails
\* again.  A schema nobody registered raises KeyError: see Raise.
CheckOutput(t) ==
  /\ job[t].do = "check"
  /\ Req(t).schema # "unknown"
  /\ End(t, IF Req(t).schema = "known" /\ ~job[t].reply.valid
            THEN "schema_validation_failed" ELSE "ok")
  /\ UNCHANGED <<scanner, counts, asked, rows, events, answered, failures, calls, charged, lost>>
-----------------------------------------------------------------------------
(* The call log and the events                                             *)

InboundEvent(i, found) ==
  [type |-> "policy_violation", severity |-> "medium", id |-> i, types |-> found,
   category |-> "sensitive_data_inbound"]

\* A secret in the model's output weighs more than other PII.
OutboundEvent(i, found) ==
  [type |-> "policy_violation", severity |-> IF "api_key" \in found THEN "high" ELSE "medium",
   id |-> i, types |-> found, category |-> "sensitive_information_disclosure"]

AlarmEvent(i, code) ==
  IF code = "injection_detected"
  THEN [type |-> "attack_attempt", severity |-> "high", id |-> i, types |-> {},
        category |-> "prompt_injection"]
  ELSE [type |-> "request_blocked", severity |-> "low", id |-> i, types |-> {},
        category |-> IF code = "input_too_large" THEN "input_size" ELSE "rate_limit"]

\* Seeded defect: the row of an error has no error code.
NewRowUncoded(j) == [id |-> j.id, code |-> "ok", types |-> j.inbound \cup j.outbound]

\* Seeded defect: the scan of the reply replaces that of the prompt.
NewRowReply(j) ==
  [id |-> j.id, code |-> j.code,
   types |-> IF j.outbound = {} THEN j.inbound ELSE j.outbound]

NewRow(j) == [id |-> j.id, code |-> j.code, types |-> j.inbound \cup j.outbound]

\* Seeded defect: only attacks raise an alarm.
AlarmedAttack(code) == code = "injection_detected"

Alarmed(code) == code \in Blocked

Answer(t, code) ==
  /\ job' = [job EXCEPT ![t] = Idle]
  /\ answered' = [answered EXCEPT ![job[t].id] = code]

\* _log commits the row; a blocked request is reported after that, any other one
\* is answered.
LogCall(t) ==
  /\ job[t].do = "log"
  /\ rows' = Append(rows, NewRow(job[t]))
  /\ IF Alarmed(job[t].code) THEN Goto(t, "alarm") /\ UNCHANGED answered
                             ELSE Answer(t, job[t].code)
  /\ UNCHANGED <<scanner, counts, asked, events, failures, calls, charged, lost>>

Record(e) ==
  /\ events' \in AfterRecording(events, e)
  /\ lost' = IF e \in events' THEN lost ELSE lost \cup {e}

\* record_event: whether or not the event is written, the request goes on.
Notice(t) ==
  /\ \/ job[t].do = "notice"
          /\ Record(InboundEvent(job[t].id, job[t].inbound))
          /\ Goto(t, "judge")
     \/ job[t].do = "noticeReply"
          /\ Record(OutboundEvent(job[t].id, job[t].outbound))
          /\ Goto(t, "check")
  /\ UNCHANGED <<scanner, counts, asked, rows, answered, failures, calls, charged>>

Alarm(t) ==
  /\ job[t].do = "alarm"
  /\ Record(AlarmEvent(job[t].id, job[t].code))
  /\ Answer(t, job[t].code)
  /\ UNCHANGED <<scanner, counts, asked, rows, failures, calls, charged>>

-----------------------------------------------------------------------------
(* What ends a request early                                               *)

\* The handler raises and the client gets a 500: an unknown schema always makes it, a
\* scan, a reply without the parts it should have, or the commit of the log may.  Who
\* builds the analyzer or writes an event catches what it meets.
Raise(t) ==
  /\ \/ job[t].do = "check" /\ Req(t).schema = "unknown" /\ UNCHANGED failures
     \/ /\ Scanning(t) \/ job[t].do = "log"
        /\ failures < MaxFailures
        /\ failures' = failures + 1
  /\ Answer(t, "crashed")
  /\ UNCHANGED <<scanner, counts, asked, rows, events, calls, charged, lost>>

Work(t) ==
  \/ BeginAnalyzer(t) \/ EndAnalyzer(t) \/ ScanPrompt(t) \/ Notice(t) \/ Judge(t)
  \/ CallProvider(t) \/ ScanReply(t) \/ CheckOutput(t) \/ LogCall(t) \/ Alarm(t)
  \/ Raise(t)

Next == \E t \in Thread : Work(t) \/ \E q \in Requests : Receive(t, q)

Spec == Init /\ [][Next]_vars

\* A thread that has begun goes on, and a provider call returns or raises: the
\* clients of both providers have a timeout.
FairSpec == Spec /\ \A t \in Thread : WF_vars(Work(t))

-----------------------------------------------------------------------------
(* Properties                                                              *)

TypeOK ==
  /\ scanner \in ScannerState
  /\ counts \in [User \cup Session -> 0..Cap]
  /\ asked \in Seq(Requests) /\ Len(asked) <= MaxRequests
  /\ rows \in Seq(Row)
  /\ events \subseteq Event /\ lost \subseteq Event
  /\ job \in [Thread -> Job]
  /\ answered \in [Id -> Code \cup {"pending", "crashed"}]
  /\ failures \in 0..MaxFailures
  /\ calls \in [Id -> 0..2] /\ charged \subseteq Id

\* "Every call logged": a request that got an answer has one row in the call log, with
\* the outcome its client saw, and no request ever has two.
RowsOf(i) == {r \in DOMAIN rows : rows[r].id = i}

AnsweredAsLogged ==
  \A i \in Id :
    /\ Cardinality(RowsOf(i)) <= 1
    /\ answered[i] \in Code => \E r \in RowsOf(i) : rows[r].code = answered[i]

\* "A client rotating it must not reset quota": however its requests interleave and
\* whatever session ids they carry, a user gets at most Cap requests through to the
\* providers, and each of them was paid for.
Called(u) == {i \in DOMAIN asked : asked[i].user = u /\ calls[i] > 0}

QuotaCoversCalls ==
  \A u \in User : Cardinality(Called(u)) <= counts[u] /\ counts[u] <= Cap

\* A refused request costs nothing: prompts that are too large or an attack use up no
\* quota and reach no provider.
Innocent(u) == {i \in DOMAIN asked : asked[i].user = u /\ ~asked[i].big /\ ~asked[i].attack}

RefusedForFree ==
  \A u \in User : /\ counts[u] <= Cardinality(Innocent(u))
                  /\ Called(u) \subseteq Innocent(u)

\* Log and monitoring tell the same story: a request is logged as blocked if and only if
\* it was reported as blocked, about to be, or its report was lost.
Reported(e) == e \in events \cup lost

AlarmsAgree ==
  /\ \A r \in DOMAIN rows :
       rows[r].code \in Blocked =>
         \/ Reported(AlarmEvent(rows[r].id, rows[r].code))
         \/ \E t \in Thread : job[t].do = "alarm" /\ job[t].id = rows[r].id
  /\ \A e \in events :
       e.type \in {"attack_attempt", "request_blocked"} =>
         \E r \in DOMAIN rows : /\ rows[r].code \in Blocked
                                /\ e = AlarmEvent(rows[r].id, rows[r].code)

\* Log and monitoring name the same PII: what a row says was found, in the prompt or in
\* the reply, is what the events of its request say, but for events that were lost.
DisclosuresReported ==
  \A r \in DOMAIN rows :
    rows[r].types = UNION {e.types : e \in {x \in events \cup lost : x.id = rows[r].id}}

\* "Key was present but the provider rejected the call" (docs/PROVIDERS.md): a request
\* fails with provider_failed only after a provider was called for it.
FailureMeansCalled ==
  \A r \in DOMAIN rows : rows[r].code = "provider_failed" => calls[rows[r].id] > 0

\* Seen from outside the handler is the abstract service: every step of the threads is one
\* of its steps or changes nothing there.  So no request is charged for twice, none
\* is logged as more than blocked without having been charged for, and none is logged or
\* answered twice, whichever of them overtakes another.
Promised == INSTANCE GenerateService
              WITH Customer <- User, Refusal <- Blocked, Service <- Code \ Blocked,
                   owner <- [i \in DOMAIN asked |-> asked[i].user],
                   spent <- [u \in User |-> counts[u]],
                   book <- [r \in DOMAIN rows |-> [id |-> rows[r].id, code |-> rows[r].code]],
                   charged <- charged, answer <- answered

ImplementsService == Promised!Spec

\* Requests that arrive together build one analyzer between them.
OneBuilder ==
  /\ Cardinality({t \in Thread : job[t].building}) <= 1
  /\ scanner = "loading" <=> \E t \in Thread : job[t].building

\* Every request ends, whatever the providers answer.
EveryRequestEnds == \A i \in Id : (i \in DOMAIN asked) ~> (answered[i] # "pending")

\* "Invalid structured output is retried once" (spec.md): a request fails validation
\* only after the provider was asked a second time.  The retry of the code looks at the
\* same text twice instead.
RetriedOnce == \A i \in Id : answered[i] = "schema_validation_failed" => calls[i] >= 2
=============================================================================
