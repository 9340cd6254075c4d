----------------------------- MODULE Semaphore -----------------------------
(* Nuclex::Support::Threading::Semaphore as built on Linux (futex) and on   *)
(* Windows (WaitOnAddress): Source/Threading/Semaphore.cpp.                 *)
(*                                                                          *)
(* Every atomic load, store, fetch_add, compare_exchange and system call is *)
(* one action; memory is sequentially consistent. A compare_exchange_weak   *)
(* that fails spuriously reloads the value it already had: a stutter.       *)
EXTENDS Primitive

VARIABLES platform,              \* the build: "linux" or "windows"
          AdmitCounter,          \* impl.AdmitCounter
          FutexWord,             \* impl.FutexWord / impl.WaitWord
          pc,                    \* where each thread is
          initialAdmitCounter,   \* local of the waiting methods
          safeAdmitCounter,      \* local of the waiting methods
          patience,              \* of the call a thread is in
          posted,                \* history: tickets ever posted
          admitted               \* history: calls that took a ticket

vars == <<platform, AdmitCounter, FutexWord, pc, initialAdmitCounter,
          safeAdmitCounter, patience, posted, admitted>>
locals == <<initialAdmitCounter, safeAdmitCounter, patience>>
history == <<platform, posted, admitted>>

PostPoints == {"postStore", "postWake"}
WaitPoints == {"snatch", "storeZero", "recheck", "storeOne", "wait",
               "asleep", "reload"}

Init ==
  /\ platform \in {"linux", "windows"}
  /\ AdmitCounter = InitialCount
  /\ FutexWord = 0
  /\ pc = [t \in Thread |-> "idle"]
  /\ initialAdmitCounter = [t \in Thread |-> 0]
  /\ safeAdmitCounter = [t \in Thread |-> 0]
  /\ patience = [t \in Thread |-> "forever"]
  /\ posted = 0
  /\ admitted = 0

Goto(t, point) == pc' = [pc EXCEPT ![t] = point]

-----------------------------------------------------------------------------
(* Post(count) *)

(* Mutant: a post that changes the counter and wakes, but never publishes. *)
PostAddWithoutStore(t, count) ==
  /\ pc[t] = "idle"
  /\ posted + count <= MaxPosted
  /\ AdmitCounter' = AdmitCounter + count
  /\ posted' = posted + count
  /\ Goto(t, IF AdmitCounter > 0 THEN "idle" ELSE "postWake")
  /\ UNCHANGED <<platform, FutexWord, locals, admitted>>

(* AdmitCounter.fetch_add(count): only a post that found the counter at     *)
(* zero goes on to publish and wake, and count = 0 publishes nothing.       *)
PostAdd(t, count) ==
  /\ pc[t] = "idle"
  /\ posted + count <= MaxPosted
  /\ AdmitCounter' = AdmitCounter + count
  /\ posted' = posted + count
  /\ Goto(t, IF AdmitCounter > 0 THEN "idle"
             ELSE IF count > 0 THEN "postStore" ELSE "postWake")
  /\ UNCHANGED <<platform, FutexWord, locals, admitted>>

(* FutexWord = 1: tickets available. *)
PostStore(t) ==
  /\ pc[t] = "postStore"
  /\ FutexWord' = 1
  /\ Goto(t, "postWake")
  /\ UNCHANGED <<AdmitCounter, locals, history>>

(* Every sleeper returns from its wait and re-reads the counter. *)
PostWake(t) ==
  /\ pc[t] = "postWake"
  /\ pc' = [PrivateFutexWakeAll(pc, "reload") EXCEPT ![t] = "idle"]
  /\ UNCHANGED <<AdmitCounter, FutexWord, locals, history>>

-----------------------------------------------------------------------------
(* WaitThenDecrement() and WaitForThenDecrement(patience) *)

(* Where a waiter stands once it has read the counter: it can try to take a *)
(* ticket, or it watched the last one go and has to announce that, or it    *)
(* never saw one and goes to sleep.                                         *)
NextPoint(initial, safe) ==
  IF safe > 0 THEN "snatch" ELSE IF initial > 0 THEN "storeZero" ELSE "wait"

ReadCounter(t) ==
  /\ initialAdmitCounter' = [initialAdmitCounter EXCEPT ![t] = AdmitCounter]
  /\ safeAdmitCounter' = [safeAdmitCounter EXCEPT ![t] = AdmitCounter]
  /\ Goto(t, NextPoint(AdmitCounter, AdmitCounter))

WaitLoad(t, how) ==
  /\ pc[t] = "idle"
  /\ ReadCounter(t)
  /\ patience' = [patience EXCEPT ![t] = how]
  /\ UNCHANGED <<AdmitCounter, FutexWord, history>>

(* Mutant: a plain store where the code compares and swaps. *)
SnatchWithoutCompare(t) ==
  /\ pc[t] = "snatch"
  /\ AdmitCounter' = safeAdmitCounter[t] - 1
  /\ admitted' = admitted + 1
  /\ Goto(t, "idle")
  /\ UNCHANGED <<platform, FutexWord, locals, posted>>

(* Mutant: a fetch_sub without looking whether a ticket is left. *)
SnatchUnchecked(t) ==
  /\ pc[t] = "snatch"
  /\ AdmitCounter' = AdmitCounter - 1
  /\ admitted' = admitted + 1
  /\ Goto(t, "idle")
  /\ UNCHANGED <<platform, FutexWord, locals, posted>>

(* The compare-and-swap that takes a ticket, or learns the current count. *)
Snatch(t) ==
  /\ pc[t] = "snatch"
  /\ \/ /\ AdmitCounter = safeAdmitCounter[t]
        /\ AdmitCounter' = safeAdmitCounter[t] - 1
        /\ admitted' = admitted + 1
        /\ Goto(t, "idle")
        /\ UNCHANGED safeAdmitCounter
     \/ /\ AdmitCounter # safeAdmitCounter[t]
        /\ safeAdmitCounter' = [safeAdmitCounter EXCEPT ![t] = AdmitCounter]
        /\ Goto(t, NextPoint(initialAdmitCounter[t], AdmitCounter))
        /\ UNCHANGED <<AdmitCounter, admitted>>
  /\ UNCHANGED <<platform, FutexWord, initialAdmitCounter, patience, posted>>

(* Mutant: the double check after announcing waiters is left out. *)
StoreZeroWithoutRecheck(t) ==
  /\ pc[t] = "storeZero"
  /\ FutexWord' = 0
  /\ Goto(t, "wait")
  /\ UNCHANGED <<AdmitCounter, locals, history>>

(* FutexWord = 0: threads waiting. *)
StoreZero(t) ==
  /\ pc[t] = "storeZero"
  /\ FutexWord' = 0
  /\ Goto(t, "recheck")
  /\ UNCHANGED <<AdmitCounter, locals, history>>

Recheck(t) ==
  /\ pc[t] = "recheck"
  /\ initialAdmitCounter' = [initialAdmitCounter EXCEPT ![t] = AdmitCounter]
  /\ Goto(t, IF AdmitCounter > 0 THEN "storeOne" ELSE "wait")
  /\ UNCHANGED <<AdmitCounter, FutexWord, safeAdmitCounter, patience, history>>

(* FutexWord = 1 again, without waking anyone, and back to the loop's start. *)
StoreOne(t) ==
  /\ pc[t] = "storeOne"
  /\ FutexWord' = 1
  /\ safeAdmitCounter' =
       [safeAdmitCounter EXCEPT ![t] = initialAdmitCounter[t]]
  /\ Goto(t, "snatch")
  /\ UNCHANGED <<AdmitCounter, initialAdmitCounter, patience, history>>

(* Mutant: the Windows build, too, leaves the timeout to the kernel. *)
NeverElapsedBeforeWait(t) == FALSE

(* Only the Windows build looks at the clock before it sleeps. *)
ElapsedBeforeWait(t) == platform = "windows" /\ patience[t] = "elapsed"

GiveUpBeforeWait(t) ==
  /\ pc[t] = "wait"
  /\ ElapsedBeforeWait(t)
  /\ Goto(t, "idle")
  /\ UNCHANGED <<AdmitCounter, FutexWord, locals, history>>

FutexWait(t) ==
  /\ pc[t] = "wait"
  /\ ~ElapsedBeforeWait(t)
  /\ Goto(t, IF PrivateFutexWaitBlocks(FutexWord, 0) THEN "asleep"
             ELSE "reload")
  /\ UNCHANGED <<AdmitCounter, FutexWord, locals, history>>

(* A signal handler ran (EINTR) or the wait came back spuriously. *)
Interrupt(t) ==
  /\ pc[t] = "asleep"
  /\ Goto(t, "reload")
  /\ UNCHANGED <<AdmitCounter, FutexWord, locals, history>>

(* Mutant: a wait without a patience can time out as well. *)
TimeOutAlways(t) ==
  /\ pc[t] = "asleep"
  /\ Goto(t, "idle")
  /\ UNCHANGED <<AdmitCounter, FutexWord, locals, history>>

(* ETIMEDOUT: the method returns false without another look at the counter. *)
TimeOut(t) ==
  /\ pc[t] = "asleep"
  /\ patience[t] = "elapsed"
  /\ Goto(t, "idle")
  /\ UNCHANGED <<AdmitCounter, FutexWord, locals, history>>

Reload(t) ==
  /\ pc[t] = "reload"
  /\ ReadCounter(t)
  /\ UNCHANGED <<AdmitCounter, FutexWord, patience, history>>

(* Time passes for a thread inside WaitForThenDecrement(). *)
PatienceElapses(t) ==
  /\ pc[t] \in WaitPoints
  /\ patience[t] = "running"
  /\ patience' = [patience EXCEPT ![t] = "elapsed"]
  /\ UNCHANGED <<AdmitCounter, FutexWord, pc, initialAdmitCounter,
                 safeAdmitCounter, history>>

-----------------------------------------------------------------------------
(* The steps a thread inside a call takes when it is scheduled. *)
Step(t) ==
  \/ PostStore(t) \/ PostWake(t)
  \/ Snatch(t) \/ StoreZero(t) \/ Recheck(t) \/ StoreOne(t)
  \/ GiveUpBeforeWait(t) \/ FutexWait(t) \/ TimeOut(t) \/ Reload(t)

Next ==
  \E t \in Thread :
    \/ \E count \in Counts : PostAdd(t, count)
    \/ t \in Waiter /\ \E how \in {"forever", "running"} : WaitLoad(t, how)
    \/ Step(t)
    \/ Interrupt(t)
    \/ PatienceElapses(t)

Spec == Init /\ [][Next]_vars

(* A thread inside a call is scheduled again and again and clocks advance;  *)
(* nobody is obliged to make a call, and no signal has to arrive. Signals   *)
(* do not keep interrupting every single wait of an expired call either:    *)
(* TimeOut, enabled again and again, is taken.                              *)
Fairness ==
  \A t \in Thread : /\ WF_vars(Step(t))
                    /\ WF_vars(PatienceElapses(t))
                    /\ SF_vars(TimeOut(t))

FairSpec == Spec /\ Fairness

-----------------------------------------------------------------------------
(* Properties *)

TypeOK ==
  /\ platform \in {"linux", "windows"}
  /\ AdmitCounter \in Nat
  /\ FutexWord \in {0, 1}
  /\ pc \in [Thread -> {"idle"} \cup PostPoints \cup WaitPoints]
  /\ initialAdmitCounter \in [Thread -> Nat]
  /\ safeAdmitCounter \in [Thread -> Nat]
  /\ patience \in [Thread -> Patience]
  /\ posted \in Nat
  /\ admitted \in Nat

(* The counter is what was supplied minus what was handed out: whatever     *)
(* the interleaving of posts and compare-and-swaps, no ticket is admitted   *)
(* twice and none is lost.                                                  *)
TicketAccounting == AdmitCounter + admitted = InitialCount + posted

(* The futex word may contradict an available ticket only while somebody    *)
(* is about to set it to 1: a post on its way to PostStore, or a waiter     *)
(* between StoreZero and StoreOne. Otherwise nobody is asleep or falling    *)
(* asleep, so the word cannot put a thread to sleep on a ticket.            *)
Correcting(t) == pc[t] \in {"postStore", "recheck", "storeOne"}

WordTracksTickets ==
  AdmitCounter > 0 /\ FutexWord = 0 =>
    \/ \E t \in Thread : Correcting(t)
    \/ \A t \in Thread : pc[t] \notin {"wait", "asleep"}

(* A thread only falls asleep while a ticket is there if another thread is  *)
(* in the middle of correcting the word.                                    *)
FallsAsleep(t) == pc[t] # "asleep" /\ pc'[t] = "asleep"

SleepsOnTicketOnlyInRace ==
  [][\A t \in Thread : FallsAsleep(t) /\ AdmitCounter > 0
                         => \E u \in Thread : Correcting(u)]_vars

(* What Post() exists for: once every call but the sleepers' has ended, no  *)
(* one is left asleep while a ticket is available.                          *)
NoTicketLeftBehind ==
  ~ /\ AdmitCounter > 0
    /\ \E t \in Thread : pc[t] = "asleep"
    /\ \A t \in Thread : pc[t] \in {"idle", "asleep"}

(* The semaphore does not hold this thread up. *)
Served(t) == pc[t] \notin WaitPoints \/ AdmitCounter = 0

(* A thread inside a timed wait whose patience has passed. *)
Overdue(t) == pc[t] \in WaitPoints /\ patience[t] = "elapsed"

(* Semaphore.h of WaitForThenDecrement(): a timed wait does not go on once  *)
(* its patience has passed.                                                 *)
TimedWaitReturns == \A t \in Thread : []<>~Overdue(t)

(* The algorithm implements the counting semaphore of CountingSemaphore.    *)
Abstract == INSTANCE CountingSemaphore WITH
  tickets <- AdmitCounter,
  caller <- [t \in Thread |->
               IF pc[t] \notin WaitPoints THEN "outside"
               ELSE IF patience[t] = "forever" THEN "forever" ELSE "patient"]

ImplementsCountingSemaphore == Abstract!Spec
=============================================================================
