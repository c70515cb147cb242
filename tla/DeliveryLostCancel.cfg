CONSTANTS
  Subscribers = {s1}
  Channels = {"email"}
  Workers = {w1}
  MaxAttempts = 1
  MaxRevision = 2
  MaxFaults = 0
  MaxRetries = 0
  Feed = {"alert", "cancel"}
SPECIFICATION Spec
PROPERTY CancellationReachesWarned
