CONSTANTS
  Messages = {1, 2, 3, 4}
  Feeds <- CapFeeds
  Subscribers = {s1}
  Channels = {"email"}
  Lapsing = {2}
SPECIFICATION Spec
INVARIANTS
  TypeOK
  KeysAreComponents
  RevisionsFollowSending
  QueueFollowsAlert
  NotQueuedTwice
PROPERTIES
  NeverRevived
  MergedRecipientsAreTold
CHECK_DEADLOCK FALSE
