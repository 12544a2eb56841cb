----------------------------- MODULE MCGateway -----------------------------
(***************************************************************************)
(* Small instances of Gateway: the deployment of the documented defaults,  *)
(* one that only watches, one that blocks, and two that mix the actions.   *)
(***************************************************************************)
EXTENDS Gateway

Setting(attack, request, response, record) ==
  [attack |-> attack, request |-> request, response |-> response, record |-> record]

MCPolicies == {
  Setting(TRUE, "redact", "redact", TRUE),
  Setting(FALSE, "allow", "allow", TRUE),
  Setting(TRUE, "block", "block", FALSE),
  Setting(TRUE, "block", "redact", TRUE),
  Setting(FALSE, "redact", "block", TRUE)}

\* A card number whose digits begin inside what reads as a phone number, with a name
\* around its end; a name before an address.
Overlapping == {[kind |-> "phone", at |-> 1..3], [kind |-> "card", at |-> 2..5],
                [kind |-> "person", at |-> 5..6]}
NameAndMail == {[kind |-> "person", at |-> 1..2], [kind |-> "email", at |-> 3..4]}
Phone == {[kind |-> "phone", at |-> 1..3]}
\* A key that begins with the end of an address, and a name around its end.
Secret == {[kind |-> "email", at |-> 1..3], [kind |-> "api_key", at |-> 3..5],
           [kind |-> "person", at |-> 5..6]}

Asking(inside, across) ==
  [messages |-> [inside |-> inside, across |-> across], attack |-> FALSE,
   route |-> "default"]

MCRequests == {
  Asking({}, {}),
  Asking(NameAndMail, Phone),
  [Asking(Overlapping, {}) EXCEPT !.attack = TRUE],
  [Asking({}, {}) EXCEPT !.route = "unknown"],
  [Asking({}, {}) EXCEPT !.route = "groq"]}

MCReplies == {{}, Secret}

\* For the redaction run: one deployment, one request.
Redacting1 == {Setting(TRUE, "redact", "redact", TRUE)}
Ask1 == {Asking({}, {})}
Reply1 == {NameAndMail, Secret}
=============================================================================
