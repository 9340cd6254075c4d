----------------------------- MODULE LatchPosix -----------------------------
(* Nuclex::Support::Threading::Latch on POSIX systems without a futex.      *)
EXTENDS Primitive

VARIABLES Countdown,     \* impl.Countdown
          pc,            \* idle, or a thread's place in the condition
          patience,      \* of the call a thread is in
          posted         \* history: sum of all Post() arguments

vars == <<Countdown, pc, patience, posted>>

Init ==
  /\ Countdown = InitialCount
  /\ pc = [t \in Thread |-> "idle"]
  /\ patience = [t \in Thread |-> "forever"]
  /\ posted = 0

Goto(t, point) == pc' = [pc EXCEPT ![t] = point]

Post(count) ==
  /\ posted + count <= MaxPosted
  /\ Countdown' = Countdown + count
  /\ posted' = posted + count
  /\ UNCHANGED <<pc, patience>>

(* CountDown(count) below zero is a failed assertion. Reaching zero signals *)
(* the condition once.                                                      *)
CountDown(count) ==
  /\ count <= Countdown
  /\ Countdown' = Countdown - count
  /\ pc' \in AfterSignals(pc, IF Countdown = count THEN 1 ELSE 0)
  /\ UNCHANGED <<patience, posted>>

(* Wait() or WaitFor() goes for the mutex. *)
Wait(t, how) ==
  /\ pc[t] = "idle"
  /\ Goto(t, "entering")
  /\ patience' = [patience EXCEPT ![t] = how]
  /\ UNCHANGED <<Countdown, posted>>

(* Mutant: an if in the place of the loop around pthread_cond_wait(). *)
ProceedWithoutLoop(t) ==
  /\ pc[t] \in {"entering", "signaled"}
  /\ Goto(t, IF Countdown > 0 /\ pc[t] = "entering" THEN "queued" ELSE "idle")
  /\ UNCHANGED <<Countdown, patience, posted>>

(* It gets the mutex and tests the countdown. *)
Proceed(t) ==
  /\ pc[t] \in {"entering", "signaled"}
  /\ Goto(t, IF Countdown > 0 THEN "queued" ELSE "idle")
  /\ UNCHANGED <<Countdown, patience, posted>>

(* pthread_cond_wait() may come back without a signal. *)
SpuriousWakeUp(t) ==
  /\ pc[t] = "queued"
  /\ Goto(t, "signaled")
  /\ UNCHANGED <<Countdown, patience, posted>>

(* ETIMEDOUT: false is returned without another test. *)
TimeOut(t) ==
  /\ pc[t] = "queued"
  /\ patience[t] = "elapsed"
  /\ Goto(t, "idle")
  /\ UNCHANGED <<Countdown, patience, posted>>

PatienceElapses(t) ==
  /\ pc[t] # "idle"
  /\ patience[t] = "running"
  /\ patience' = [patience EXCEPT ![t] = "elapsed"]
  /\ UNCHANGED <<Countdown, pc, posted>>

Next ==
  \/ \E t \in Thread :
       /\ pc[t] = "idle"
       /\ \E count \in Counts : Post(count) \/ CountDown(count)
  \/ \E t \in Waiter :
       \/ \E how \in {"forever", "running"} : Wait(t, how)
       \/ Proceed(t) \/ SpuriousWakeUp(t) \/ TimeOut(t)
       \/ PatienceElapses(t)

Spec == Init /\ [][Next]_vars

-----------------------------------------------------------------------------

TypeOK ==
  /\ Countdown \in Nat
  /\ pc \in [Thread -> {"idle", "entering", "queued", "signaled"}]
  /\ patience \in [Thread -> {"forever", "running", "elapsed"}]
  /\ posted \in Nat

(* Opening the latch lets at least one of its waiters go: all of them are   *)
(* never queued on an open latch, and a lone waiter never is.               *)
SomeoneGetsThrough ==
  Countdown = 0 /\ Waiter # {} => Queued(pc) # Waiter

(* The same promise as the futex build. *)
Abstract == INSTANCE CountdownLatch WITH
  count <- Countdown,
  caller <- [t \in Thread |->
               IF pc[t] = "idle" THEN "outside"
               ELSE IF patience[t] = "forever" THEN "forever" ELSE "patient"]

AbstractStep == [Abstract!Next]_(Abstract!vars)
=============================================================================
