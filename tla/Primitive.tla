----------------------------- MODULE Primitive -----------------------------
(* What the models of the synchronisation primitives in                     *)
(* Nuclex::Support::Threading share: who uses a primitive, and how much;    *)
(* and what the primitives are built on to put a thread to sleep, a futex   *)
(* or a condition variable.                                                 *)
EXTENDS Naturals, FiniteSets, FiniteSetsExt, TLC

CONSTANTS Thread,        \* threads that use the primitive
          Waiter,        \* those among them that wait on it
          InitialCount,  \* constructor argument of semaphore and latch
          Counts,        \* arguments of Post() and CountDown()
          MaxPosted      \* bound: sum of all Post() arguments, calls of Open()

ASSUME PrimitiveAssumption ==
  /\ Waiter \subseteq Thread
  /\ InitialCount \in Nat
  /\ Counts \subseteq Nat
  /\ MaxPosted \in Nat

(* A process has finitely many threads. *)
ASSUME ThreadAssumption == IsFiniteSet(Thread)

(* For model checking where every thread may wait: all of them are alike. *)
ThreadSymmetry == Permutations(Thread)

-----------------------------------------------------------------------------
(* The two kernel services the library's Linux and Windows synchronisation  *)
(* primitives are built on: sleep while a 32 bit word still holds a given   *)
(* value, and wake every thread that sleeps on the word.                    *)
(*                                                                          *)
(* A primitive keeps one program counter per thread; a thread whose counter *)
(* is "asleep" is in the kernel's queue for the primitive's word. That the  *)
(* value check and the falling asleep are one atomic step is what futex(2)  *)
(* and WaitOnAddress() promise.                                             *)

(* FUTEX_WAIT only blocks while the word holds the comparison value,        *)
(* otherwise it comes back with EAGAIN, which the wrapper reports as        *)
(* ValueChanged. The value is compared before the timeout is looked at.     *)
PrivateFutexWaitBlocks(word, comparisonValue) == word = comparisonValue

(* FUTEX_WAKE with INT_MAX: every sleeper resumes at resumePoint.           *)
PrivateFutexWakeAll(pc, resumePoint) ==
  [t \in DOMAIN pc |-> IF pc[t] = "asleep" THEN resumePoint ELSE pc[t]]

(* How long a blocking call is willing to wait: forever, or for a patience  *)
(* that has not passed yet ("running") or has ("elapsed").                  *)
Patience == {"forever", "running", "elapsed"}

-----------------------------------------------------------------------------
(* The POSIX condition variable as the library's portable builds use it:    *)
(* always together with one mutex, which every caller holds while it tests  *)
(* and changes the shared state. A critical section, from locking to        *)
(* unlocking or to falling asleep in pthread_cond_wait(), is one action.    *)
(*                                                                          *)
(* A thread inside a wait is "queued" until it is signalled, and "signaled" *)
(* until it owns the mutex again and re-tests the condition.                *)

Queued(pc) == {t \in DOMAIN pc : pc[t] = "queued"}

Signaled(pc) == {t \in DOMAIN pc : pc[t] = "signaled"}

(* The outcomes of calling pthread_cond_signal() n times: each call resumes *)
(* one queued thread of the system's choosing, if there is one.             *)
AfterSignals(pc, n) ==
  LET resumed == Min({n, Cardinality(Queued(pc))})
  IN  {[t \in DOMAIN pc |-> IF t \in chosen THEN "signaled" ELSE pc[t]] :
         chosen \in kSubset(resumed, Queued(pc))}
=============================================================================
