-------------------------------- MODULE Gate --------------------------------
(* Nuclex::Support::Threading::Gate as built on Linux (futex) and Windows   *)
(* (WaitOnAddress): Source/Threading/Gate.cpp. The word is the whole state. *)
EXTENDS Primitive

VARIABLES platform,       \* the build: "linux" or "windows"
          FutexWord,      \* impl.FutexWord / impl.WaitWord: 1 while open
          pc,             \* where each thread is
          patience,       \* of the call a thread is in
          opens           \* history: calls of Open()

vars == <<platform, FutexWord, pc, patience, opens>>

WaitPoints == {"wait", "asleep", "reload", "clock"}

Init ==
  /\ platform \in {"linux", "windows"}
  /\ FutexWord \in {0, 1}
  /\ pc = [t \in Thread |-> "idle"]
  /\ patience = [t \in Thread |-> "forever"]
  /\ opens = 0

Goto(t, point) == pc' = [pc EXCEPT ![t] = point]

-----------------------------------------------------------------------------
(* Open(), Close() and Set(), which calls one of them *)

OpenStore(t) ==
  /\ pc[t] = "idle"
  /\ opens < MaxPosted
  /\ FutexWord' = 1
  /\ opens' = opens + 1
  /\ Goto(t, "openWake")
  /\ UNCHANGED <<platform, patience>>

OpenWake(t) ==
  /\ pc[t] = "openWake"
  /\ pc' = [PrivateFutexWakeAll(pc, "reload") EXCEPT ![t] = "idle"]
  /\ UNCHANGED <<platform, FutexWord, patience, opens>>

Close(t) ==
  /\ pc[t] = "idle"
  /\ FutexWord' = 0
  /\ UNCHANGED <<platform, pc, patience, opens>>

-----------------------------------------------------------------------------
(* Wait() and WaitFor(patience) *)

WaitLoad(t, how) ==
  /\ pc[t] = "idle"
  /\ Goto(t, IF FutexWord # 0 THEN "idle" ELSE "wait")
  /\ patience' = [patience EXCEPT ![t] = how]
  /\ UNCHANGED <<platform, FutexWord, opens>>

(* Mutant: the value check and the falling asleep come apart. *)
FutexWaitUnchecked(t) ==
  /\ pc[t] = "wait"
  /\ Goto(t, "asleep")
  /\ UNCHANGED <<platform, FutexWord, patience, opens>>

FutexWait(t) ==
  /\ pc[t] = "wait"
  /\ Goto(t, IF PrivateFutexWaitBlocks(FutexWord, 0) THEN "asleep"
             ELSE "reload")
  /\ UNCHANGED <<platform, FutexWord, patience, opens>>

(* EINTR goes straight back to the wait on Linux; a spurious return of      *)
(* WaitOnAddress() looks like any other on Windows.                         *)
Interrupt(t) ==
  /\ pc[t] = "asleep"
  /\ Goto(t, IF platform = "linux" THEN "wait" ELSE "reload")
  /\ UNCHANGED <<platform, FutexWord, patience, opens>>

(* Linux returns false; Windows first compares its own clock. *)
TimeOut(t) ==
  /\ pc[t] = "asleep"
  /\ patience[t] = "elapsed"
  /\ Goto(t, IF platform = "linux" THEN "idle" ELSE "clock")
  /\ UNCHANGED <<platform, FutexWord, patience, opens>>

Reload(t) ==
  /\ pc[t] = "reload"
  /\ Goto(t, IF FutexWord # 0 THEN "idle"
             ELSE IF platform = "windows" /\ patience[t] # "forever"
                  THEN "clock" ELSE "wait")
  /\ UNCHANGED <<platform, FutexWord, patience, opens>>

(* WaitFor() on Windows: give up, or wait for what remains of the patience. *)
CompareClock(t) ==
  /\ pc[t] = "clock"
  /\ Goto(t, IF patience[t] = "elapsed" THEN "idle" ELSE "wait")
  /\ UNCHANGED <<platform, FutexWord, patience, opens>>

PatienceElapses(t) ==
  /\ pc[t] \in WaitPoints
  /\ patience[t] = "running"
  /\ patience' = [patience EXCEPT ![t] = "elapsed"]
  /\ UNCHANGED <<platform, FutexWord, pc, opens>>

-----------------------------------------------------------------------------
(* The steps a thread inside a call takes when it is scheduled. *)
Step(t) ==
  \/ OpenWake(t) \/ FutexWait(t) \/ TimeOut(t) \/ Reload(t) \/ CompareClock(t)

Next ==
  \E t \in Thread :
    \/ OpenStore(t)
    \/ Close(t)
    \/ t \in Waiter /\ \E how \in {"forever", "running"} : WaitLoad(t, how)
    \/ Step(t)
    \/ Interrupt(t)
    \/ PatienceElapses(t)

Spec == Init /\ [][Next]_vars

(* As for the semaphore: threads inside a call are scheduled, clocks        *)
(* advance, and an expired wait is not interrupted every time.              *)
Fairness ==
  \A t \in Thread : /\ WF_vars(Step(t))
                    /\ WF_vars(PatienceElapses(t))
                    /\ SF_vars(TimeOut(t))

FairSpec == Spec /\ Fairness

-----------------------------------------------------------------------------
(* Properties *)

TypeOK ==
  /\ platform \in {"linux", "windows"}
  /\ FutexWord \in {0, 1}
  /\ pc \in [Thread -> {"idle", "openWake"} \cup WaitPoints]
  /\ patience \in [Thread -> Patience]
  /\ opens \in Nat

(* Nobody is asleep in front of an open gate unless the thread that opened  *)
(* it still has its wake-up to send.                                        *)
OpenGateWakes ==
  (FutexWord = 1 /\ \E t \in Thread : pc[t] = "asleep")
    => \E u \in Thread : pc[u] = "openWake"

(* The gate does not hold this thread up. *)
Released(t) == pc[t] \notin WaitPoints \/ FutexWord = 0

(* A thread inside a timed wait whose patience has passed. *)
Overdue(t) == pc[t] \in WaitPoints /\ patience[t] = "elapsed"
=============================================================================
