CONSTANTS
  Subscribers = {s1}
  Channels = {"email"}
  Workers = {w1}
  MaxAttempts = 2
  MaxRevision = 1
  MaxFaults = 1
  MaxRetries = 0
  Feed = {"alert"}
SPECIFICATION Spec
INVARIANT ExhaustedIsDeadLettered
