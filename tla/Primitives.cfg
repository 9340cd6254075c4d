\* Two waiters and a third thread that posts, opens and closes.
CONSTANTS
  Thread = {t1, t2, t3}
  Waiter = {t1, t2}
  InitialCount = 1
  Counts = {1, 2}
  MaxPosted = 2
SPECIFICATION FairSpec
INVARIANTS
  OpenGateWakes
  PosixSignalsReachSomeone
PROPERTIES
  WaitersReleased
  TimedWaitsReturn
  PosixImplements
CHECK_DEADLOCK FALSE
