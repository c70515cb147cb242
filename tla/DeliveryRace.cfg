CONSTANTS
  Subscribers = {s1}
  Channels = {"email"}
  Workers = {w1, w2}
  MaxAttempts = 2
  MaxRevision = 1
  MaxFaults = 1
  MaxRetries = 1
  Feed = {"alert"}
SPECIFICATION Spec
SYMMETRY WorkerSymmetry
INVARIANTS
  TypeOK
  SendContained
  SendOwnsItsRow
  AtMostOnceUnlessExcused
