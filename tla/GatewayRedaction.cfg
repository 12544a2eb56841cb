SPECIFICATION Spec
CONSTANTS
  Thread = {t1, t2}
  ServerKeys = {"gemini"}
  Policies <- Redacting1
  Requests <- Ask1
  Replies <- Reply1
  Length = 6
  NerInstalled = TRUE
  EventsEnabled = TRUE
  MinSeverity = "info"
  MaxRequests = 2
  MaxFailures = 1
INVARIANTS
  RedactionComplete
CHECK_DEADLOCK FALSE
