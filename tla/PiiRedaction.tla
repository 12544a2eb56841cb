---------------------------- MODULE PiiRedaction ----------------------------
(***************************************************************************)
(* redact_pii of proxy/middleware/pii_scanner.py.  A text is the set of    *)
(* its occurrences of PII: the kind, and the places of its characters.     *)
(* Occurrences may overlap, as when the digits of a card number begin      *)
(* inside what reads as a phone number.                                    *)
(***************************************************************************)
EXTENDS PiiScanner, Naturals

CONSTANT Length   \* bound: the places of a text

ASSUME TextLength == Length \in Nat

\* A match is a run of characters; what redaction leaves of one need not be.
Run == {first..last : first, last \in 1..Length} \ {{}}
Occurrence == [kind : Kind, at : Run]
Text == SUBSET Occurrence
Remains == SUBSET [kind : Kind, at : SUBSET (1..Length)]

Kinds(text) == {o.kind : o \in text}

\* The kinds check_pii reports.
Seen(text) == Found(Kinds(text))

First(at) == CHOOSE n \in at : \A m \in at : n <= m
Last(at) == CHOOSE n \in at : \A m \in at : m <= n

\* The spans: the places of what the scan finds, by pattern or by analyzer alike.
Spans(text) == {o.at : o \in {p \in text : p.kind \in Seen(text)}}

\* The order of the pass: by the first place, the longest first.
Precedes(a, b) ==
  \/ First(a) < First(b)
  \/ First(a) = First(b) /\ Last(a) > Last(b)

\* Seeded defect: a span that begins where the last one ends is taken for an overlap.
ReplacedUnlessAdjacent(text) ==
  CHOOSE done \in SUBSET Spans(text) :
    \A a \in Spans(text) :
      a \in done <=> \A b \in done : Precedes(b, a) => First(a) > Last(b) + 1

\* The spans the pass from left to right replaces: it skips one that begins before the
\* last one it replaced has ended.
Replaced(text) ==
  CHOOSE done \in SUBSET Spans(text) :
    \A a \in Spans(text) :
      a \in done <=> \A b \in done : Precedes(b, a) => First(a) > Last(b)

\* redact_pii scans anew.  What a replaced span covers goes, whoever it belongs to.
Redacted(text) ==
  LET cut == UNION Replaced(text)
  IN  {r \in {[o EXCEPT !.at = @ \ cut] : o \in text} : r.at # {}}

\* What is left of the kinds that were seen is the tail of an occurrence that began
\* inside another one.
LeftOver(text, kept, seen) ==
  \A r \in {s \in kept : s.kind \in seen} :
    \E o, p \in text :
      /\ o.kind = r.kind /\ r.at \subseteq o.at \ p.at
      /\ First(o.at) \in p.at /\ Last(p.at) < Last(o.at)
=============================================================================
