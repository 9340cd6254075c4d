\* Two waiters that find their ticket gone, and a third thread that posts.
CONSTANTS
  Thread = {t1, t2, t3}
  Waiter = {t1, t2, t3}
  InitialCount = 1
  Counts = {1}
  MaxPosted = 2
SPECIFICATION Spec
SYMMETRY ThreadSymmetry
INVARIANTS
  NoTicketLeftBehind
CHECK_DEADLOCK FALSE
