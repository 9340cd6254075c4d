---------------------------- MODULE LatchProofs ----------------------------
(* Theorems about Latch, for any threads, initial count, counts posted and  *)
(* counted down, any bound and both platforms.                              *)
EXTENDS Latch, TLAPS

IInv == TypeOK /\ WordTracksCountdown

-----------------------------------------------------------------------------

(* The constructor's state satisfies the inductive invariant. *)
LEMMA InitInv == Init => IInv
BY PrimitiveAssumption
DEF Init, IInv, TypeOK, WordTracksCountdown, Patience

(* Each step keeps every variable in its range; the countdown stays above   *)
(* zero because callers keep to the assertion in CountDown().               *)
LEMMA TypeStep == TypeOK /\ [Next]_vars => TypeOK'
<1> SUFFICES ASSUME TypeOK, [Next]_vars PROVE TypeOK'
  OBVIOUS
<1> USE PrimitiveAssumption
    DEF TypeOK, PostPoints, DownPoints, WaitPoints, Patience, Goto
<1>1. ASSUME NEW t \in Thread, NEW n \in Counts, PostAdd(t, n)
      PROVE TypeOK'
  BY <1>1 DEF PostAdd
<1>2. ASSUME NEW t \in Thread, NEW n \in Counts, DownSubtract(t, n)
      PROVE TypeOK'
  BY <1>2 DEF DownSubtract
<1>3. ASSUME NEW t \in Thread, NEW how \in {"forever", "running"},
             WaitLoad(t, how)
      PROVE TypeOK'
  BY <1>3 DEF WaitLoad
<1>4. ASSUME NEW t \in Thread,
             \/ PostStoreZero(t) \/ PostStoreOne(t) \/ DownStore(t)
             \/ StoreZero(t) \/ StoreOne(t)
      PROVE TypeOK'
  BY <1>4 DEF PostStoreZero, PostStoreOne, DownStore, StoreZero, StoreOne,
              StoreWord
<1>5. ASSUME NEW t \in Thread, PostRecheck(t) \/ Reload(t) \/ Recheck(t)
      PROVE TypeOK'
  BY <1>5 DEF PostRecheck, Reload, Recheck, LoadCountdown
<1>6. ASSUME NEW t \in Thread, DownWake(t) PROVE TypeOK'
  BY <1>6 DEF DownWake, PrivateFutexWakeAll
<1>7. ASSUME NEW t \in Thread, FutexWait(t) \/ TimeOut(t) \/ Interrupt(t)
      PROVE TypeOK'
  BY <1>7 DEF FutexWait, TimeOut, Interrupt
<1>8. ASSUME NEW t \in Thread, PatienceElapses(t) PROVE TypeOK'
  BY <1>8 DEF PatienceElapses
<1>9. CASE UNCHANGED vars
  BY <1>9 DEF vars
<1> QED
  BY <1>1, <1>2, <1>3, <1>4, <1>5, <1>6, <1>7, <1>8, <1>9 DEF Next, Step

(* The countdown reaches zero only in DownSubtract, the word goes to 0 only *)
(* in PostStoreZero and StoreZero, and all three leave their thread         *)
(* correcting; a thread stops correcting with the word at 1 or having read  *)
(* a countdown above zero.                                                  *)
LEMMA WordStep ==
  TypeOK /\ WordTracksCountdown /\ [Next]_vars => WordTracksCountdown'
<1> SUFFICES ASSUME TypeOK, WordTracksCountdown, [Next]_vars,
                    Countdown' = 0, FutexWord' = 0
             PROVE  \E u \in Thread : Correcting(u)'
  BY DEF WordTracksCountdown
<1> USE PrimitiveAssumption DEF TypeOK, WordTracksCountdown, Correcting, Goto
<1>1. ASSUME NEW t \in Thread, NEW n \in Counts, PostAdd(t, n)
      PROVE \E u \in Thread : Correcting(u)'
  BY <1>1 DEF PostAdd
<1>2. ASSUME NEW t \in Thread, NEW n \in Counts, DownSubtract(t, n)
      PROVE \E u \in Thread : Correcting(u)'
  <2>1. CASE Countdown = n /\ n > 0
    BY <1>2, <2>1 DEF DownSubtract
  <2>2. CASE Countdown = 0
    BY <1>2, <2>2 DEF DownSubtract
  <2> QED
    BY <1>2, <2>1, <2>2 DEF DownSubtract
<1>3. ASSUME NEW t \in Thread, NEW how \in {"forever", "running"},
             WaitLoad(t, how)
      PROVE \E u \in Thread : Correcting(u)'
  BY <1>3 DEF WaitLoad
<1>4. ASSUME NEW t \in Thread, PostStoreZero(t) \/ StoreZero(t)
      PROVE \E u \in Thread : Correcting(u)'
  BY <1>4 DEF PostStoreZero, StoreZero, StoreWord
<1>5. ASSUME NEW t \in Thread, PostStoreOne(t) \/ DownStore(t) \/ StoreOne(t)
      PROVE FALSE
  BY <1>5 DEF PostStoreOne, DownStore, StoreOne, StoreWord
<1>6. ASSUME NEW t \in Thread, PostRecheck(t) \/ Reload(t) \/ Recheck(t)
      PROVE \E u \in Thread : Correcting(u)'
  BY <1>6 DEF PostRecheck, Reload, Recheck, LoadCountdown
<1>7. ASSUME NEW t \in Thread, DownWake(t)
      PROVE \E u \in Thread : Correcting(u)'
  BY <1>7 DEF DownWake, PrivateFutexWakeAll
<1>8. ASSUME NEW t \in Thread, FutexWait(t) \/ TimeOut(t) \/ Interrupt(t)
      PROVE \E u \in Thread : Correcting(u)'
  BY <1>8 DEF FutexWait, TimeOut, Interrupt
<1>9. ASSUME NEW t \in Thread, PatienceElapses(t)
      PROVE \E u \in Thread : Correcting(u)'
  BY <1>9 DEF PatienceElapses
<1>10. CASE UNCHANGED vars
  BY <1>10 DEF vars
<1> QED
  BY <1>1, <1>2, <1>3, <1>4, <1>5, <1>6, <1>7, <1>8, <1>9, <1>10
  DEF Next, Step

(* The inductive invariant holds throughout every behaviour. *)
LEMMA Inductive == Spec => []IInv
<1>1. IInv /\ [Next]_vars => IInv'
  BY TypeStep, WordStep DEF IInv
<1> QED
  BY <1>1, InitInv, PTL DEF Spec

-----------------------------------------------------------------------------

(* Type correctness of the Linux and Windows latch. *)
THEOREM TypeCorrect == Spec => []TypeOK
<1>1. IInv => TypeOK
  BY DEF IInv
<1> QED
  BY <1>1, Inductive, PTL

(* An open latch has a word that says so, or a thread about to look at the  *)
(* countdown or to correct the word.                                        *)
THEOREM WordFollowsCountdown == Spec => []WordTracksCountdown
<1>1. IInv => WordTracksCountdown
  BY DEF IInv
<1> QED
  BY <1>1, Inductive, PTL

(* A thread falls asleep on an open latch only inside such a window. *)
THEOREM SleepsOnlyInRace == Spec => SleepsOnOpenLatchOnlyInRace
<1> DEFINE RaceOnly == \A t \in Thread :
             FallsAsleep(t) /\ Countdown = 0
               => \E u \in Thread : Correcting(u)
<1>1. IInv /\ [Next]_vars => [RaceOnly]_vars
  <2> SUFFICES ASSUME IInv, Next, NEW t \in Thread, FallsAsleep(t),
                      Countdown = 0
               PROVE  \E u \in Thread : Correcting(u)
    OBVIOUS
  <2> USE DEF IInv, TypeOK, FallsAsleep, Goto
  <2>1. FutexWord = 0
    <3>1. ASSUME NEW u \in Thread, FutexWait(u) PROVE FutexWord = 0
      BY <3>1 DEF FutexWait, PrivateFutexWaitBlocks
    <3>2. ASSUME NEW u \in Thread, NEW n \in Counts, PostAdd(u, n)
          PROVE FALSE
      BY <3>2 DEF PostAdd
    <3>3. ASSUME NEW u \in Thread, NEW n \in Counts, DownSubtract(u, n)
          PROVE FALSE
      BY <3>3 DEF DownSubtract
    <3>4. ASSUME NEW u \in Thread, NEW how \in {"forever", "running"},
                 WaitLoad(u, how)
          PROVE FALSE
      BY <3>4 DEF WaitLoad
    <3>5. ASSUME NEW u \in Thread,
                 \/ PostStoreZero(u) \/ PostStoreOne(u) \/ DownStore(u)
                 \/ StoreZero(u) \/ StoreOne(u)
          PROVE FALSE
      BY <3>5 DEF PostStoreZero, PostStoreOne, DownStore, StoreZero,
                  StoreOne, StoreWord
    <3>6. ASSUME NEW u \in Thread, PostRecheck(u) \/ Reload(u) \/ Recheck(u)
          PROVE FALSE
      BY <3>6 DEF PostRecheck, Reload, Recheck, LoadCountdown
    <3>7. ASSUME NEW u \in Thread, DownWake(u) PROVE FALSE
      BY <3>7 DEF DownWake, PrivateFutexWakeAll
    <3>8. ASSUME NEW u \in Thread,
                 TimeOut(u) \/ Interrupt(u) \/ PatienceElapses(u)
          PROVE FALSE
      BY <3>8 DEF TimeOut, Interrupt, PatienceElapses
    <3> QED
      BY <3>1, <3>2, <3>3, <3>4, <3>5, <3>6, <3>7, <3>8 DEF Next, Step
  <2> QED
    BY <2>1 DEF WordTracksCountdown
<1> QED
  BY <1>1, Inductive, PTL DEF Spec, SleepsOnOpenLatchOnlyInRace

-----------------------------------------------------------------------------

(* Every step of the algorithm is a step of the latch or one it does not    *)
(* see; a caller passes where its call read a countdown of zero.            *)
LEMMA StepImplements ==
  TypeOK /\ [Next]_vars => [Abstract!Next]_(Abstract!vars)
<1> SUFFICES ASSUME TypeOK, [Next]_vars
             PROVE  [Abstract!Next]_(Abstract!vars)
  OBVIOUS
<1> USE PrimitiveAssumption
    DEF TypeOK, PostPoints, DownPoints, WaitPoints, Patience, Goto,
        Abstract!vars
<1>1. ASSUME NEW t \in Thread, NEW n \in Counts, PostAdd(t, n)
      PROVE Abstract!Post(n)
  BY <1>1 DEF PostAdd, Abstract!Post
<1>2. ASSUME NEW t \in Thread, NEW n \in Counts, DownSubtract(t, n)
      PROVE Abstract!CountDown(n)
  BY <1>2 DEF DownSubtract, Abstract!CountDown
<1>3. ASSUME NEW t \in Thread, NEW how \in {"forever", "running"},
             WaitLoad(t, how)
      PROVE Abstract!Arrive(t) \/ UNCHANGED Abstract!vars
  BY <1>3 DEF WaitLoad, Abstract!Arrive
<1>4. ASSUME NEW t \in Thread,
             \/ PostStoreZero(t) \/ PostStoreOne(t) \/ DownStore(t)
             \/ StoreZero(t) \/ StoreOne(t)
      PROVE UNCHANGED Abstract!vars
  BY <1>4 DEF PostStoreZero, PostStoreOne, DownStore, StoreZero, StoreOne,
              StoreWord
<1>5. ASSUME NEW t \in Thread, PostRecheck(t)
      PROVE UNCHANGED Abstract!vars
  BY <1>5 DEF PostRecheck, LoadCountdown
<1>6. ASSUME NEW t \in Thread, Reload(t)
      PROVE Abstract!Pass(t) \/ UNCHANGED Abstract!vars
  BY <1>6 DEF Reload, LoadCountdown, Abstract!Pass
<1>7. ASSUME NEW t \in Thread, Recheck(t)
      PROVE \/ Abstract!Pass(t) \/ Abstract!GiveUp(t)
            \/ UNCHANGED Abstract!vars
  BY <1>7 DEF Recheck, LoadCountdown, Abstract!Pass, Abstract!GiveUp
<1>8. ASSUME NEW t \in Thread, TimeOut(t) PROVE Abstract!GiveUp(t)
  BY <1>8 DEF TimeOut, Abstract!GiveUp
<1>9. ASSUME NEW t \in Thread, DownWake(t) PROVE UNCHANGED Abstract!vars
  BY <1>9 DEF DownWake, PrivateFutexWakeAll
<1>10. ASSUME NEW t \in Thread, FutexWait(t) \/ Interrupt(t)
       PROVE UNCHANGED Abstract!vars
  BY <1>10 DEF FutexWait, Interrupt
<1>11. ASSUME NEW t \in Thread, PatienceElapses(t)
       PROVE UNCHANGED Abstract!vars
  BY <1>11 DEF PatienceElapses
<1>12. CASE UNCHANGED vars
  BY <1>12 DEF vars
<1> QED
  BY <1>1, <1>2, <1>3, <1>4, <1>5, <1>6, <1>7, <1>8, <1>9, <1>10, <1>11,
     <1>12 DEF Next, Step, Abstract!Next

(* The algorithm is a countdown latch: nobody passes who did not see the    *)
(* count at zero during the call, or had set itself a patience.             *)
THEOREM Implements == Spec => ImplementsCountdownLatch
<1>1. Init => Abstract!Init
  BY DEF Init, Abstract!Init, WaitPoints
<1>2. IInv /\ [Next]_vars => [Abstract!Next]_(Abstract!vars)
  BY StepImplements DEF IInv
<1> QED
  BY <1>1, <1>2, Inductive, PTL
  DEF Spec, ImplementsCountdownLatch, Abstract!Spec
=============================================================================
