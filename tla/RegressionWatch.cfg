SPECIFICATION ReadersSpec
CONSTANTS
  Worker = {w1, w2}
  Project = {p1, p2}
  Test = {t1}
  Suites <- MCSuites
  severityOf <- MCseverityOf
  Outcomes = {"PASS", "FAIL"}
  Targets = {"RESOLVED", "ACKNOWLEDGED"}
  EventsEnabled = TRUE
  MinSeverity = "info"
  MaxSyncs = 2
  MaxPatches = 1
  MaxBaselines = 1
  MaxFailures = 1
  Client = {c1}
  policyOf <- MCpolicyOf
  Viewer = {v1}
SYMMETRY Symmetry
INVARIANTS
  RegressionsSound
  PassBacked
  RegressionsJudged
  BoardConsistent
CHECK_DEADLOCK FALSE
