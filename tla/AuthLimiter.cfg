SPECIFICATION Spec
CONSTANTS
  Thread = {t1, t2, t3}
  Key = {k1, k2}
  Limit = 2
  Window = 5
  MaxClock = 6
SYMMETRY Symmetry
INVARIANTS
  LimitKeptAlone
  ExcessBounded
PROPERTIES
  RefusalsJustified
CHECK_DEADLOCK FALSE
