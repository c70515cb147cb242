CONSTANTS
  Contents = {c1, c2}
  Workers = {w1, w2}
  Requests = {r1}
  MaxVersion = 3
  MaxFaults = 1
  Guarded = TRUE
SPECIFICATION Spec
INVARIANTS
  TypeOK
  ActiveWasProven
  WritesAreAuthorised
PROPERTY CleanPollOpensGate
SYMMETRY Interchangeable
CHECK_DEADLOCK FALSE
