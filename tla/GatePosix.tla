----------------------------- MODULE GatePosix -----------------------------
(* Nuclex::Support::Threading::Gate on POSIX systems without a futex. Open  *)
(* and the waits run under the mutex; Close() is a bare atomic store.       *)
EXTENDS Primitive

VARIABLES IsOpen,         \* impl.IsOpen
          pc,             \* idle, or a thread's place in the condition
          patience        \* of the call a thread is in

vars == <<IsOpen, pc, patience>>

Init ==
  /\ IsOpen \in BOOLEAN
  /\ pc = [t \in Thread |-> "idle"]
  /\ patience = [t \in Thread |-> "forever"]

Goto(t, point) == pc' = [pc EXCEPT ![t] = point]

(* Open() signals the condition once. *)
Open ==
  /\ IsOpen' = TRUE
  /\ pc' \in AfterSignals(pc, 1)
  /\ UNCHANGED patience

Close ==
  /\ IsOpen' = FALSE
  /\ UNCHANGED <<pc, patience>>

(* Wait() or WaitFor() goes for the mutex. *)
Wait(t, how) ==
  /\ pc[t] = "idle"
  /\ Goto(t, "entering")
  /\ patience' = [patience EXCEPT ![t] = how]
  /\ UNCHANGED IsOpen

(* It gets the mutex and tests the gate. A Close() between the test and the *)
(* wait or the return changes neither.                                      *)
Proceed(t) ==
  /\ pc[t] \in {"entering", "signaled"}
  /\ Goto(t, IF IsOpen THEN "idle" ELSE "queued")
  /\ UNCHANGED <<IsOpen, patience>>

(* pthread_cond_wait() may come back without a signal. *)
SpuriousWakeUp(t) ==
  /\ pc[t] = "queued"
  /\ Goto(t, "signaled")
  /\ UNCHANGED <<IsOpen, patience>>

(* ETIMEDOUT: false is returned without another test. *)
TimeOut(t) ==
  /\ pc[t] = "queued"
  /\ patience[t] = "elapsed"
  /\ Goto(t, "idle")
  /\ UNCHANGED <<IsOpen, patience>>

PatienceElapses(t) ==
  /\ pc[t] # "idle"
  /\ patience[t] = "running"
  /\ patience' = [patience EXCEPT ![t] = "elapsed"]
  /\ UNCHANGED <<IsOpen, pc>>

Next ==
  \/ \E t \in Thread : pc[t] = "idle" /\ (Open \/ Close)
  \/ \E t \in Waiter :
       \/ \E how \in {"forever", "running"} : Wait(t, how)
       \/ Proceed(t) \/ SpuriousWakeUp(t) \/ TimeOut(t)
       \/ PatienceElapses(t)

Spec == Init /\ [][Next]_vars

-----------------------------------------------------------------------------

(* Opening the gate lets at least one of its waiters go: all of them are    *)
(* never queued in front of an open gate, and a lone waiter never is.       *)
SomeoneGetsThrough ==
  IsOpen /\ Waiter # {} => Queued(pc) # Waiter
=============================================================================
