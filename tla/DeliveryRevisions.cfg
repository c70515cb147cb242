CONSTANTS
  Subscribers = {s1}
  Channels = {"email"}
  Workers = {w1, w2}
  MaxAttempts = 1
  MaxRevision = 2
  MaxFaults = 0
  MaxRetries = 1
  Feed = {"alert", "cancel"}
SPECIFICATION Spec
SYMMETRY WorkerSymmetry
INVARIANT WithdrawalFollowsWarning
PROPERTIES
  WithdrawalReachesRecorded
  ImplementsFeed
  MonotoneRevisions
