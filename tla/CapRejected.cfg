CONSTANTS
  Messages = {1, 2, 3, 4}
  Feeds <- Feeds4
  Subscribers = {s1}
  Channels = {"email"}
  Lapsing = {}
SPECIFICATION Spec
INVARIANT RetainedForAudit
CHECK_DEADLOCK FALSE
