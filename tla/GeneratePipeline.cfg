SPECIFICATION FairSpec
CONSTANTS
  Thread = {t1, t2}
  User = {"ann", "bob"}
  Session = {"s1", "s2"}
  ServerKeys = {"groq"}
  Requests <- MCRequests
  Replies <- MCReplies
  NerInstalled = TRUE
  EventsEnabled = TRUE
  MinSeverity = "info"
  Cap = 1
  MaxRequests = 2
  MaxFailures = 1
INVARIANTS
  AnsweredAsLogged
  QuotaCoversCalls
  RefusedForFree
  AlarmsAgree
  DisclosuresReported
  FailureMeansCalled
PROPERTIES
  ImplementsService
  EveryRequestEnds
CHECK_DEADLOCK FALSE
