-------------------------- MODULE GenerateService --------------------------
(***************************************************************************)
(* What POST /v1/generate promises to its clients and to those who read    *)
(* its log and its bill, with no guardrails, scanner, providers or threads *)
(* in sight.  Service is prepaid: a request is charged for while it is     *)
(* under way, at most once, and a customer at most Cap times in all; the   *)
(* log speaks of service only for a request that was charged for.  A       *)
(* request gets at most one entry and at most one answer.  The answer is   *)
(* what the entry says, and it may come later than the entry; a request    *)
(* without an entry can only fail.                                         *)
(***************************************************************************)
EXTENDS Naturals, Sequences

CONSTANTS Customer,
          Id,        \* the numbers of the requests
          Refusal,   \* the outcomes that cost nothing
          Service,   \* the outcomes that are charged for
          Cap        \* what a customer may be charged in all

VARIABLES owner,     \* who asked: request i is owner[i]'s
          spent,     \* what each customer was charged
          charged,   \* the requests that were charged for
          book,      \* the log
          answer     \* what each request got

vars == <<owner, spent, charged, book, answer>>

Init ==
  /\ owner = <<>>
  /\ spent = [u \in Customer |-> 0]
  /\ charged = {}
  /\ book = <<>>
  /\ answer = [i \in Id |-> "pending"]

Booked(i) == \E r \in DOMAIN book : book[r].id = i

\* A request that is neither in the log nor answered.
UnderWay(i) == i \in DOMAIN owner /\ ~Booked(i) /\ answer[i] = "pending"

Ask(u) ==
  /\ Len(owner) + 1 \in Id
  /\ owner' = Append(owner, u)
  /\ UNCHANGED <<spent, charged, book, answer>>

\* At most once for each request, and within what its customer may spend.
Charge(i) ==
  /\ UnderWay(i) /\ i \notin charged
  /\ spent[owner[i]] < Cap
  /\ spent' = [spent EXCEPT ![owner[i]] = @ + 1]
  /\ charged' = charged \cup {i}
  /\ UNCHANGED <<owner, book, answer>>

\* The outcome goes to the log, and the client may get it at once.
Book(i, code) ==
  /\ UnderWay(i)
  /\ code \in Service => i \in charged
  /\ book' = Append(book, [id |-> i, code |-> code])
  /\ answer' \in {answer, [answer EXCEPT ![i] = code]}
  /\ UNCHANGED <<owner, spent, charged>>

\* It gets it later.
Answer(i) ==
  /\ answer[i] = "pending"
  /\ \E r \in DOMAIN book : book[r].id = i /\ answer' = [answer EXCEPT ![i] = book[r].code]
  /\ UNCHANGED <<owner, spent, charged, book>>

Fail(i) ==
  /\ UnderWay(i)
  /\ answer' = [answer EXCEPT ![i] = "crashed"]
  /\ UNCHANGED <<owner, spent, charged, book>>

Next ==
  \/ \E u \in Customer : Ask(u)
  \/ \E i \in Id : \/ Charge(i) \/ Answer(i) \/ Fail(i)
                   \/ \E code \in Refusal \cup Service : Book(i, code)

Spec == Init /\ [][Next]_vars
=============================================================================
