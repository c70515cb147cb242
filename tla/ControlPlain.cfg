CONSTANTS
  Contents = {c1}
  Workers = {w1}
  Requests = {r1}
  MaxVersion = 3
  MaxFaults = 0
  Guarded = FALSE
SPECIFICATION Spec
PROPERTY CleanPollOpensGate
CHECK_DEADLOCK FALSE
