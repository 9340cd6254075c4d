\* A post, a count down and a wait that overlap.
CONSTANTS
  Thread = {t1, t2, t3}
  Waiter = {t1, t2, t3}
  InitialCount = 0
  Counts = {1}
  MaxPosted = 2
SPECIFICATION Spec
SYMMETRY ThreadSymmetry
INVARIANTS
  NeverSpuriouslyClosed
CHECK_DEADLOCK FALSE
