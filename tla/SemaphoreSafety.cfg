\* Three threads that post zero to two tickets at a time and wait.
CONSTANTS
  Thread = {t1, t2, t3}
  Waiter = {t1, t2, t3}
  InitialCount = 1
  Counts = {0, 1, 2}
  MaxPosted = 2
SPECIFICATION Spec
SYMMETRY ThreadSymmetry
INVARIANTS
  TypeOK
  TicketAccounting
  WordTracksTickets
PROPERTIES
  SleepsOnTicketOnlyInRace
  ImplementsCountingSemaphore
CHECK_DEADLOCK FALSE
