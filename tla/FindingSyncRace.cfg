SPECIFICATION Spec
CONSTANTS
  Worker = {w1, w2}
  Project = {p1}
  Test = {t1}
  Suites <- MCSuites
  severityOf <- MCseverityOf
  Outcomes = {"PASS", "FAIL", "OTHER"}
  Targets = {"ACKNOWLEDGED", "RESOLVED", "RETEST_REQUIRED"}
  EventsEnabled = TRUE
  MinSeverity = "info"
  MaxSyncs = 2
  MaxPatches = 0
  MaxBaselines = 0
  MaxFailures = 0
PROPERTIES
  NoDuplicateOpened
CHECK_DEADLOCK FALSE
