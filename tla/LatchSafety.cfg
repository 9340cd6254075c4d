\* Three threads that post, count down and wait in any order.
CONSTANTS
  Thread = {t1, t2, t3}
  Waiter = {t1, t2, t3}
  InitialCount = 1
  Counts = {0, 1, 2}
  MaxPosted = 4
SPECIFICATION Spec
SYMMETRY ThreadSymmetry
INVARIANTS
  TypeOK
  WordTracksCountdown
PROPERTIES
  SleepsOnOpenLatchOnlyInRace
  ImplementsCountdownLatch
CHECK_DEADLOCK FALSE
