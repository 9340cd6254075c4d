\* Two threads, one ticket: the second one to wait has set itself a patience.
CONSTANTS
  Thread = {t1, t2}
  Waiter = {t1, t2}
  InitialCount = 0
  Counts = {1}
  MaxPosted = 1
SPECIFICATION FairSpec
PROPERTIES
  TimedWaitReturns
CHECK_DEADLOCK FALSE
