CONSTANTS
  Subscriber = s1
  Worker1 = w1
  Worker2 = w2
  Content = c1
SPECIFICATION FairSpec
PROPERTIES
  QueuedIsSettled
  DueIsPolled
  CatchesUp
CHECK_DEADLOCK FALSE
