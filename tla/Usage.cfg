CONSTANTS
  Users = {u1, u2}
  Requests = {r1, r2, r3, r4}
  UserLimit <- PerUser
  GlobalLimit <- PerFeature
  Minute = 1
  Day = 3
  Stale = 2
  MaxTime = 4
SPECIFICATION Spec
SYMMETRY Interchangeable
INVARIANTS
  TypeOK
  MinuteIsBounded
  DayIsBounded
  RunningIsBounded
CHECK_DEADLOCK FALSE
