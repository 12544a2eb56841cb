SPECIFICATION Spec
CONSTANTS
  Worker = {w1, w2}
  Project = {p1}
  Test = {t1}
  Suites <- MCSuites
  severityOf <- MCseverityOf
  Outcomes = {"PASS", "FAIL", "OTHER"}
  Targets = {"ACKNOWLEDGED", "RESOLVED", "RETEST_REQUIRED"}
  EventsEnabled = TRUE
  MinSeverity = "info"
  MaxSyncs = 3
  MaxPatches = 1
  MaxBaselines = 1
  MaxFailures = 1
SYMMETRY Symmetry
INVARIANTS
  TypeOK
  FailuresCovered
  DuplicatesBounded
  OpeningsAccounted
  TraceableUnlessDied
CHECK_DEADLOCK FALSE
