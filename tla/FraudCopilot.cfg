SPECIFICATION Spec
CONSTANTS
  Sample = {s1}
  Upload = {f1}
  MaxDecisions = 1
INVARIANTS
  FailuresTold
  InjectionSurfaced
  DecisionOnEvidence
CHECK_DEADLOCK FALSE
