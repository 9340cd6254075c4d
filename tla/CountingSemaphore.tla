------------------------- MODULE CountingSemaphore -------------------------
(* What a semaphore promises: tickets come from the initial count and from  *)
(* posts, every admitted caller consumes exactly one, and only a caller     *)
(* that has set itself a patience may leave without a ticket.               *)
EXTENDS Naturals

CONSTANTS Thread,        \* the threads that use the semaphore
          InitialCount,  \* tickets available at construction
          Counts         \* the counts Post() is called with

VARIABLES tickets,       \* tickets that can be taken
          admitted,      \* callers let through so far
          caller         \* per thread: outside, or how it waits

vars == <<tickets, admitted, caller>>

Init ==
  /\ tickets = InitialCount
  /\ admitted = 0
  /\ caller = [t \in Thread |-> "outside"]

Post(n) ==
  /\ tickets' = tickets + n
  /\ UNCHANGED <<admitted, caller>>

Arrive(t) ==
  /\ caller[t] = "outside"
  /\ \E how \in {"forever", "patient"} : caller' = [caller EXCEPT ![t] = how]
  /\ UNCHANGED <<tickets, admitted>>

Admit(t) ==
  /\ caller[t] # "outside"
  /\ tickets > 0
  /\ tickets' = tickets - 1
  /\ admitted' = admitted + 1
  /\ caller' = [caller EXCEPT ![t] = "outside"]

GiveUp(t) ==
  /\ caller[t] = "patient"
  /\ caller' = [caller EXCEPT ![t] = "outside"]
  /\ UNCHANGED <<tickets, admitted>>

Next ==
  \/ \E n \in Counts : Post(n)
  \/ \E t \in Thread : Arrive(t) \/ Admit(t) \/ GiveUp(t)

Spec == Init /\ [][Next]_vars
=============================================================================
