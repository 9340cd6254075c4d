------------------------------- MODULE Latch -------------------------------
(* Nuclex::Support::Threading::Latch as built on Linux (futex) and Windows  *)
(* (WaitOnAddress): Source/Threading/Latch.cpp. One action per atomic       *)
(* access or system call, sequentially consistent memory.                   *)
EXTENDS Primitive

VARIABLES platform,      \* the build: "linux" or "windows"
          Countdown,     \* impl.Countdown
          FutexWord,     \* impl.FutexWord / impl.WaitWord: 1 while open
          pc,            \* where each thread is
          patience,      \* of the call a thread is in
          posted         \* history: sum of all Post() arguments

vars == <<platform, Countdown, FutexWord, pc, patience, posted>>

PostPoints == {"postStoreZero", "postRecheck", "postStoreOne"}
DownPoints == {"downStore", "downWake"}
WaitPoints == {"wait", "asleep", "reload", "storeZero", "recheck"}

Init ==
  /\ platform \in {"linux", "windows"}
  /\ Countdown = InitialCount
  /\ FutexWord = IF InitialCount > 0 THEN 0 ELSE 1
  /\ pc = [t \in Thread |-> "idle"]
  /\ patience = [t \in Thread |-> "forever"]
  /\ posted = 0

Goto(t, point) == pc' = [pc EXCEPT ![t] = point]

(* A step that stores a value in the futex word and moves on. *)
StoreWord(t, from, value, to) ==
  /\ pc[t] = from
  /\ FutexWord' = value
  /\ Goto(t, to)
  /\ UNCHANGED <<platform, Countdown, patience, posted>>

(* A step that looks at the countdown and moves on accordingly. *)
LoadCountdown(t, from, whenZero, whenPositive) ==
  /\ pc[t] = from
  /\ Goto(t, IF Countdown = 0 THEN whenZero ELSE whenPositive)
  /\ UNCHANGED <<platform, Countdown, FutexWord, patience, posted>>

-----------------------------------------------------------------------------
(* Post(count) *)

PostAdd(t, count) ==
  /\ pc[t] = "idle"
  /\ posted + count <= MaxPosted
  /\ Countdown' = Countdown + count
  /\ posted' = posted + count
  /\ Goto(t, IF Countdown > 0 THEN "idle"
             ELSE IF count > 0 THEN "postStoreZero" ELSE "postRecheck")
  /\ UNCHANGED <<platform, FutexWord, patience>>

PostStoreZero(t) == StoreWord(t, "postStoreZero", 0, "postRecheck")

(* Mutant: Post() trusts its own increment and does not look again. *)
PostRecheckSkipped(t) == LoadCountdown(t, "postRecheck", "idle", "idle")

(* A CountDown() may have opened the latch before PostStoreZero closed it. *)
PostRecheck(t) == LoadCountdown(t, "postRecheck", "postStoreOne", "idle")

PostStoreOne(t) == StoreWord(t, "postStoreOne", 1, "idle")

-----------------------------------------------------------------------------
(* CountDown(count); counting below zero is a failed assertion. *)

(* Mutant: only a count of one is taken for the last one. *)
DownSubtractOne(t, count) ==
  /\ pc[t] = "idle"
  /\ count <= Countdown
  /\ Countdown' = Countdown - count
  /\ Goto(t, IF Countdown # 1 THEN "idle" ELSE "downStore")
  /\ UNCHANGED <<platform, FutexWord, patience, posted>>

(* Mutant: the assertion's condition does not hold. *)
DownSubtractUnchecked(t, count) ==
  /\ pc[t] = "idle"
  /\ Countdown' = Countdown - count
  /\ Goto(t, IF Countdown # count THEN "idle" ELSE "downStore")
  /\ UNCHANGED <<platform, FutexWord, patience, posted>>

DownSubtract(t, count) ==
  /\ pc[t] = "idle"
  /\ count <= Countdown
  /\ Countdown' = Countdown - count
  /\ Goto(t, IF Countdown # count THEN "idle"
             ELSE IF count > 0 THEN "downStore" ELSE "downWake")
  /\ UNCHANGED <<platform, FutexWord, patience, posted>>

DownStore(t) == StoreWord(t, "downStore", 1, "downWake")

(* Mutant: the word changes but the sleepers are not told. *)
DownWakeNobody(t) ==
  /\ pc[t] = "downWake"
  /\ Goto(t, "idle")
  /\ UNCHANGED <<platform, Countdown, FutexWord, patience, posted>>

DownWake(t) ==
  /\ pc[t] = "downWake"
  /\ pc' = [PrivateFutexWakeAll(pc, "reload") EXCEPT ![t] = "idle"]
  /\ UNCHANGED <<platform, Countdown, FutexWord, patience, posted>>

-----------------------------------------------------------------------------
(* Wait() and WaitFor(patience) *)

WaitLoad(t, how) ==
  /\ pc[t] = "idle"
  /\ Goto(t, IF Countdown = 0 THEN "idle" ELSE "wait")
  /\ patience' = [patience EXCEPT ![t] = how]
  /\ UNCHANGED <<platform, Countdown, FutexWord, posted>>

FutexWait(t) ==
  /\ pc[t] = "wait"
  /\ Goto(t, IF PrivateFutexWaitBlocks(FutexWord, 0) THEN "asleep"
             ELSE "reload")
  /\ UNCHANGED <<platform, Countdown, FutexWord, patience, posted>>

(* A signal handler ran (EINTR) or the wait came back spuriously. *)
Interrupt(t) ==
  /\ pc[t] = "asleep"
  /\ Goto(t, "reload")
  /\ UNCHANGED <<platform, Countdown, FutexWord, patience, posted>>

(* WaitFor() returns false without another look at the countdown. *)
TimeOut(t) ==
  /\ pc[t] = "asleep"
  /\ patience[t] = "elapsed"
  /\ Goto(t, "idle")
  /\ UNCHANGED <<platform, Countdown, FutexWord, patience, posted>>

(* Mutant: whoever wakes up takes the latch to be open. *)
ReloadSkipped(t) == LoadCountdown(t, "reload", "idle", "idle")

Reload(t) == LoadCountdown(t, "reload", "idle", "storeZero")

(* Woken with the latch closed: keep the next wait from spinning. *)
StoreZero(t) == StoreWord(t, "storeZero", 0, "recheck")

(* Windows looks at the clock here, Linux leaves the timeout to the kernel. *)
Recheck(t) ==
  LoadCountdown(t, "recheck", "storeOne",
                IF platform = "windows" /\ patience[t] = "elapsed"
                THEN "idle" ELSE "wait")

(* The recheck found the latch open: the call is about to return. *)
StoreOne(t) == StoreWord(t, "storeOne", 1, "idle")

PatienceElapses(t) ==
  /\ pc[t] \in WaitPoints
  /\ patience[t] = "running"
  /\ patience' = [patience EXCEPT ![t] = "elapsed"]
  /\ UNCHANGED <<platform, Countdown, FutexWord, pc, posted>>

-----------------------------------------------------------------------------
(* The steps a thread inside a call takes when it is scheduled. *)
Step(t) ==
  \/ PostStoreZero(t) \/ PostRecheck(t) \/ PostStoreOne(t)
  \/ DownStore(t) \/ DownWake(t)
  \/ FutexWait(t) \/ TimeOut(t) \/ Reload(t)
  \/ StoreZero(t) \/ Recheck(t) \/ StoreOne(t)

Next ==
  \E t \in Thread :
    \/ \E count \in Counts : PostAdd(t, count) \/ DownSubtract(t, count)
    \/ t \in Waiter /\ \E how \in {"forever", "running"} : WaitLoad(t, how)
    \/ Step(t)
    \/ Interrupt(t)
    \/ PatienceElapses(t)

Spec == Init /\ [][Next]_vars

(* As for the semaphore: threads inside a call are scheduled, clocks        *)
(* advance, and an expired futex wait is not interrupted every time.        *)
Fairness ==
  \A t \in Thread : /\ WF_vars(Step(t))
                    /\ WF_vars(PatienceElapses(t))
                    /\ SF_vars(TimeOut(t))

FairSpec == Spec /\ Fairness

-----------------------------------------------------------------------------
(* Properties *)

TypeOK ==
  /\ platform \in {"linux", "windows"}
  /\ Countdown \in Nat
  /\ FutexWord \in {0, 1}
  /\ pc \in [Thread ->
               {"idle", "storeOne"} \cup PostPoints \cup DownPoints
                 \cup WaitPoints]
  /\ patience \in [Thread -> Patience]
  /\ posted \in Nat

(* With the countdown at zero the word may only say "closed" while some     *)
(* thread is still going to look at the countdown or to open the word.      *)
Correcting(t) ==
  pc[t] \in {"downStore", "postRecheck", "postStoreOne", "recheck",
             "storeOne"}

WordTracksCountdown ==
  Countdown = 0 /\ FutexWord = 0 => \E t \in Thread : Correcting(t)

(* A thread only falls asleep on an open latch inside such a window. *)
FallsAsleep(t) == pc[t] # "asleep" /\ pc'[t] = "asleep"

SleepsOnOpenLatchOnlyInRace ==
  [][\A t \in Thread : FallsAsleep(t) /\ Countdown = 0
                         => \E u \in Thread : Correcting(u)]_vars

(* The promise of Post()'s comment: no thread stays asleep on a latch whose *)
(* count is zero once all other calls have ended.                           *)
NeverSpuriouslyClosed ==
  ~ /\ Countdown = 0
    /\ \E t \in Thread : pc[t] = "asleep"
    /\ \A t \in Thread : pc[t] \in {"idle", "asleep"}

(* The latch does not hold this thread up. *)
Released(t) == pc[t] \notin WaitPoints \/ Countdown > 0

(* A thread inside a timed wait whose patience has passed. *)
Overdue(t) == pc[t] \in WaitPoints /\ patience[t] = "elapsed"

(* The algorithm implements the latch of CountdownLatch. *)
Abstract == INSTANCE CountdownLatch WITH
  count <- Countdown,
  caller <- [t \in Thread |->
               IF pc[t] \notin WaitPoints THEN "outside"
               ELSE IF patience[t] = "forever" THEN "forever" ELSE "patient"]

ImplementsCountdownLatch == Abstract!Spec
=============================================================================
