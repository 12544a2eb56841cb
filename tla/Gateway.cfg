SPECIFICATION FairSpec
CONSTANTS
  Thread = {t1, t2}
  ServerKeys = {"gemini"}
  Policies <- MCPolicies
  Requests <- MCRequests
  Replies <- MCReplies
  Length = 6
  NerInstalled = TRUE
  EventsEnabled = TRUE
  MinSeverity = "info"
  MaxRequests = 2
  MaxFailures = 1
INVARIANTS
  TrailTellsDecision
  RedactionKept
  EventsAgree
PROPERTIES
  EveryRequestEnds
CHECK_DEADLOCK FALSE
