--------------------------- MODULE SemaphorePosix ---------------------------
(* Nuclex::Support::Threading::Semaphore on POSIX systems without a futex:  *)
(* a counter, a mutex and a condition variable.                             *)
EXTENDS Primitive

VARIABLES AdmitCounter,  \* impl.AdmitCounter
          pc,            \* idle, or a thread's place in the condition
          patience,      \* of the call a thread is in
          posted,        \* history: tickets ever posted
          admitted       \* history: calls that took a ticket

vars == <<AdmitCounter, pc, patience, posted, admitted>>

Init ==
  /\ AdmitCounter = InitialCount
  /\ pc = [t \in Thread |-> "idle"]
  /\ patience = [t \in Thread |-> "forever"]
  /\ posted = 0
  /\ admitted = 0

Goto(t, point) == pc' = [pc EXCEPT ![t] = point]

(* Mutant: one signal, however many tickets are posted. *)
PostSignalsOnce(count) ==
  /\ posted + count <= MaxPosted
  /\ AdmitCounter' = AdmitCounter + count
  /\ posted' = posted + count
  /\ pc' \in AfterSignals(pc, 1)
  /\ UNCHANGED <<patience, admitted>>

(* Post(count) signals the condition once per ticket. *)
Post(count) ==
  /\ posted + count <= MaxPosted
  /\ AdmitCounter' = AdmitCounter + count
  /\ posted' = posted + count
  /\ pc' \in AfterSignals(pc, count)
  /\ UNCHANGED <<patience, admitted>>

(* The loop's test: take a ticket and return, or wait for a signal. *)
TestAndTake(t) ==
  \/ /\ AdmitCounter > 0
     /\ AdmitCounter' = AdmitCounter - 1
     /\ admitted' = admitted + 1
     /\ Goto(t, "idle")
  \/ /\ AdmitCounter = 0
     /\ Goto(t, "queued")
     /\ UNCHANGED <<AdmitCounter, admitted>>

(* WaitThenDecrement() or WaitForThenDecrement() goes for the mutex. *)
Wait(t, how) ==
  /\ pc[t] = "idle"
  /\ Goto(t, "entering")
  /\ patience' = [patience EXCEPT ![t] = how]
  /\ UNCHANGED <<AdmitCounter, posted, admitted>>

(* It gets the mutex, for the first time or coming back from a wait. *)
Proceed(t) ==
  /\ pc[t] \in {"entering", "signaled"}
  /\ TestAndTake(t)
  /\ UNCHANGED <<patience, posted>>

(* pthread_cond_wait() may come back without a signal. *)
SpuriousWakeUp(t) ==
  /\ pc[t] = "queued"
  /\ Goto(t, "signaled")
  /\ UNCHANGED <<AdmitCounter, patience, posted, admitted>>

(* ETIMEDOUT: false is returned without another test. *)
TimeOut(t) ==
  /\ pc[t] = "queued"
  /\ patience[t] = "elapsed"
  /\ Goto(t, "idle")
  /\ UNCHANGED <<AdmitCounter, patience, posted, admitted>>

PatienceElapses(t) ==
  /\ pc[t] # "idle"
  /\ patience[t] = "running"
  /\ patience' = [patience EXCEPT ![t] = "elapsed"]
  /\ UNCHANGED <<AdmitCounter, pc, posted, admitted>>

Next ==
  \/ \E t \in Thread, count \in Counts : pc[t] = "idle" /\ Post(count)
  \/ \E t \in Waiter :
       \/ \E how \in {"forever", "running"} : Wait(t, how)
       \/ Proceed(t) \/ SpuriousWakeUp(t) \/ TimeOut(t)
       \/ PatienceElapses(t)

Spec == Init /\ [][Next]_vars

-----------------------------------------------------------------------------

TypeOK ==
  /\ AdmitCounter \in Nat
  /\ pc \in [Thread -> {"idle", "entering", "queued", "signaled"}]
  /\ patience \in [Thread -> {"forever", "running", "elapsed"}]
  /\ posted \in Nat
  /\ admitted \in Nat

(* While somebody is queued, every available ticket has a signalled thread  *)
(* on its way to it: newcomers that take a ticket first, time-outs and      *)
(* spurious wake-ups do not leave a queued thread and a ticket behind.      *)
TicketsHaveTakers ==
  Queued(pc) # {} => AdmitCounter <= Cardinality(Signaled(pc))

(* The same promise as the futex build. *)
Abstract == INSTANCE CountingSemaphore WITH
  tickets <- AdmitCounter,
  caller <- [t \in Thread |->
               IF pc[t] = "idle" THEN "outside"
               ELSE IF patience[t] = "forever" THEN "forever" ELSE "patient"]

AbstractStep == [Abstract!Next]_(Abstract!vars)
=============================================================================
