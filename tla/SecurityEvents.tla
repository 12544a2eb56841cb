--------------------------- MODULE SecurityEvents ---------------------------
(***************************************************************************)
(* The monitoring sink of proxy/events.py as its callers see it: an event  *)
(* is written when monitoring is on and the event is severe enough, and a  *)
(* write that fails is rolled back and swallowed, so the caller goes on.   *)
(* The text of a summary is left out: an event is told apart by its type,  *)
(* its severity and the rows it refers to.                                 *)
(***************************************************************************)
EXTENDS Naturals

CONSTANTS EventsEnabled,   \* settings.events_enabled
          MinSeverity      \* settings.events_min_severity

Severity == {"info", "low", "medium", "high", "critical"}

ASSUME EventSettings == EventsEnabled \in BOOLEAN /\ MinSeverity \in Severity

Rank == [info |-> 0, low |-> 1, medium |-> 2, high |-> 3, critical |-> 4]

\* The two early returns of record_event.
Recordable(e) == EventsEnabled /\ Rank[e.severity] >= Rank[MinSeverity]

\* What the event table may hold once record_event returns: the event too, or,
\* when it is filtered out or its commit fails, what it held before.
AfterRecording(events, e) ==
  {events} \cup IF Recordable(e) THEN {events \cup {e}} ELSE {}
=============================================================================
