SPECIFICATION Spec
CONSTANTS
  Thread = {t1, t2}
  Client = {c1, c2}
  Spelling <- MCSpelling
  lower <- MClower
  JwtSecretSet = TRUE
  MaxProjects = 2
  MaxKeys = 1
SYMMETRY Symmetry
INVARIANTS
  AccountsSeparate
  ProjectsIsolated
  WorkspacesBounded
  ListComplete
PROPERTIES
  RevocationHolds
  ImplementsRegistry
CHECK_DEADLOCK FALSE
