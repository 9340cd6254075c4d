--------------------------- MODULE CountdownLatch ---------------------------
(* What a latch promises: a caller gets through at a moment at which the    *)
(* count is zero, and only a caller with a patience may leave otherwise.    *)
EXTENDS Naturals

CONSTANTS Thread,        \* the threads that use the latch
          InitialCount,  \* count at construction
          Counts         \* counts the latch is changed by

VARIABLES count,         \* what still has to be counted down
          caller         \* per thread: outside, or how it waits

vars == <<count, caller>>

Init == count = InitialCount /\ caller = [t \in Thread |-> "outside"]

Post(n) == count' = count + n /\ UNCHANGED caller

CountDown(n) == n <= count /\ count' = count - n /\ UNCHANGED caller

Arrive(t) ==
  /\ caller[t] = "outside"
  /\ \E how \in {"forever", "patient"} : caller' = [caller EXCEPT ![t] = how]
  /\ UNCHANGED count

Pass(t) ==
  /\ caller[t] # "outside"
  /\ count = 0
  /\ caller' = [caller EXCEPT ![t] = "outside"]
  /\ UNCHANGED count

GiveUp(t) ==
  /\ caller[t] = "patient"
  /\ caller' = [caller EXCEPT ![t] = "outside"]
  /\ UNCHANGED count

Next ==
  \/ \E n \in Counts : Post(n) \/ CountDown(n)
  \/ \E t \in Thread : Arrive(t) \/ Pass(t) \/ GiveUp(t)

Spec == Init /\ [][Next]_vars
=============================================================================
