-------------------------- MODULE SemaphoreProofs --------------------------
(* Theorems about Semaphore, for any set of threads and waiters, any        *)
(* initial count, any counts posted, any bound and both platforms.          *)
EXTENDS Semaphore, TLAPS

(* A waiter that is about to compare-and-swap has a count above zero to     *)
(* swap, and one about to jump back to the loop's start with a fresh count  *)
(* brings one along.                                                        *)
LocalsOK ==
  \A t \in Thread :
    /\ pc[t] = "snatch" => safeAdmitCounter[t] > 0
    /\ pc[t] = "storeOne" => initialAdmitCounter[t] > 0

IInv == TypeOK /\ TicketAccounting /\ LocalsOK /\ WordTracksTickets

-----------------------------------------------------------------------------

(* The constructor's state satisfies the inductive invariant. *)
LEMMA InitInv == Init => IInv
BY PrimitiveAssumption
DEF Init, IInv, TypeOK, TicketAccounting, LocalsOK, WordTracksTickets,
    PostPoints, WaitPoints, Patience

(* Each step keeps every local and shared variable in its range. *)
LEMMA TypeStep == TypeOK /\ LocalsOK /\ [Next]_vars => TypeOK'
<1> SUFFICES ASSUME TypeOK, LocalsOK, [Next]_vars PROVE TypeOK'
  OBVIOUS
<1> USE PrimitiveAssumption
    DEF TypeOK, PostPoints, WaitPoints, Patience, Goto, locals, history
<1>1. ASSUME NEW t \in Thread, NEW n \in Counts, PostAdd(t, n)
      PROVE TypeOK'
  BY <1>1 DEF PostAdd
<1>2. ASSUME NEW t \in Thread, NEW how \in {"forever", "running"},
             WaitLoad(t, how)
      PROVE TypeOK'
  BY <1>2 DEF WaitLoad, ReadCounter, NextPoint
<1>3. ASSUME NEW t \in Thread, PostStore(t) PROVE TypeOK'
  BY <1>3 DEF PostStore
<1>4. ASSUME NEW t \in Thread, PostWake(t) PROVE TypeOK'
  BY <1>4 DEF PostWake, PrivateFutexWakeAll
<1>5. ASSUME NEW t \in Thread, Snatch(t) PROVE TypeOK'
  BY <1>5 DEF Snatch, NextPoint, LocalsOK
<1>6. ASSUME NEW t \in Thread, StoreZero(t) PROVE TypeOK'
  BY <1>6 DEF StoreZero
<1>7. ASSUME NEW t \in Thread, Recheck(t) PROVE TypeOK'
  BY <1>7 DEF Recheck
<1>8. ASSUME NEW t \in Thread, StoreOne(t) PROVE TypeOK'
  BY <1>8 DEF StoreOne
<1>9. ASSUME NEW t \in Thread, GiveUpBeforeWait(t) PROVE TypeOK'
  BY <1>9 DEF GiveUpBeforeWait
<1>10. ASSUME NEW t \in Thread, FutexWait(t) PROVE TypeOK'
  BY <1>10 DEF FutexWait
<1>11. ASSUME NEW t \in Thread, TimeOut(t) PROVE TypeOK'
  BY <1>11 DEF TimeOut
<1>12. ASSUME NEW t \in Thread, Reload(t) PROVE TypeOK'
  BY <1>12 DEF Reload, ReadCounter, NextPoint
<1>13. ASSUME NEW t \in Thread, Interrupt(t) PROVE TypeOK'
  BY <1>13 DEF Interrupt
<1>14. ASSUME NEW t \in Thread, PatienceElapses(t) PROVE TypeOK'
  BY <1>14 DEF PatienceElapses
<1>15. CASE UNCHANGED vars
  BY <1>15 DEF vars
<1> QED
  BY <1>1, <1>2, <1>3, <1>4, <1>5, <1>6, <1>7, <1>8, <1>9, <1>10, <1>11,
     <1>12, <1>13, <1>14, <1>15 DEF Next, Step

(* Only a successful compare-and-swap and a post change the two sides of    *)
(* the ticket account, and each changes both.                               *)
LEMMA AccountingStep ==
  TypeOK /\ LocalsOK /\ TicketAccounting /\ [Next]_vars => TicketAccounting'
<1> SUFFICES ASSUME TypeOK, LocalsOK, TicketAccounting, [Next]_vars
             PROVE TicketAccounting'
  OBVIOUS
<1> USE PrimitiveAssumption DEF TypeOK, TicketAccounting
<1>1. ASSUME NEW t \in Thread, NEW n \in Counts, PostAdd(t, n)
      PROVE TicketAccounting'
  BY <1>1 DEF PostAdd
<1>2. ASSUME NEW t \in Thread, Snatch(t) PROVE TicketAccounting'
  BY <1>2 DEF Snatch, LocalsOK
<1>3. ASSUME UNCHANGED <<AdmitCounter, posted, admitted>>
      PROVE TicketAccounting'
  BY <1>3
<1>4. ASSUME NEW t \in Thread,
             \/ \E how \in {"forever", "running"} : WaitLoad(t, how)
             \/ Step(t) /\ ~Snatch(t)
             \/ Interrupt(t)
             \/ PatienceElapses(t)
      PROVE UNCHANGED <<AdmitCounter, posted, admitted>>
  BY <1>4 DEF Step, WaitLoad, ReadCounter, PostStore, PostWake, StoreZero,
              Recheck, StoreOne, GiveUpBeforeWait, FutexWait, TimeOut,
              Reload, Interrupt, PatienceElapses, history
<1>5. CASE UNCHANGED vars
  BY <1>5, <1>3 DEF vars
<1> QED
  BY <1>1, <1>2, <1>3, <1>4, <1>5 DEF Next, Step

(* A thread's target count is above zero whenever it needs it. *)
LEMMA LocalsStep == TypeOK /\ LocalsOK /\ [Next]_vars => LocalsOK'
<1> SUFFICES ASSUME TypeOK, LocalsOK, [Next]_vars PROVE LocalsOK'
  OBVIOUS
<1> USE PrimitiveAssumption DEF TypeOK, LocalsOK, Goto, locals, history
<1>1. ASSUME NEW t \in Thread, NEW n \in Counts, PostAdd(t, n)
      PROVE LocalsOK'
  BY <1>1 DEF PostAdd
<1>2. ASSUME NEW t \in Thread, NEW how \in {"forever", "running"},
             WaitLoad(t, how)
      PROVE LocalsOK'
  BY <1>2 DEF WaitLoad, ReadCounter, NextPoint
<1>3. ASSUME NEW t \in Thread, PostStore(t) PROVE LocalsOK'
  BY <1>3 DEF PostStore
<1>4. ASSUME NEW t \in Thread, PostWake(t) PROVE LocalsOK'
  BY <1>4 DEF PostWake, PrivateFutexWakeAll
<1>5. ASSUME NEW t \in Thread, Snatch(t) PROVE LocalsOK'
  BY <1>5 DEF Snatch, NextPoint
<1>6. ASSUME NEW t \in Thread, StoreZero(t) PROVE LocalsOK'
  BY <1>6 DEF StoreZero
<1>7. ASSUME NEW t \in Thread, Recheck(t) PROVE LocalsOK'
  BY <1>7 DEF Recheck
<1>8. ASSUME NEW t \in Thread, StoreOne(t) PROVE LocalsOK'
  BY <1>8 DEF StoreOne
<1>9. ASSUME NEW t \in Thread, GiveUpBeforeWait(t) PROVE LocalsOK'
  BY <1>9 DEF GiveUpBeforeWait
<1>10. ASSUME NEW t \in Thread, FutexWait(t) PROVE LocalsOK'
  BY <1>10 DEF FutexWait
<1>11. ASSUME NEW t \in Thread, TimeOut(t) PROVE LocalsOK'
  BY <1>11 DEF TimeOut
<1>12. ASSUME NEW t \in Thread, Reload(t) PROVE LocalsOK'
  BY <1>12 DEF Reload, ReadCounter, NextPoint
<1>13. ASSUME NEW t \in Thread, Interrupt(t) PROVE LocalsOK'
  BY <1>13 DEF Interrupt
<1>14. ASSUME NEW t \in Thread, PatienceElapses(t) PROVE LocalsOK'
  BY <1>14 DEF PatienceElapses
<1>15. CASE UNCHANGED vars
  BY <1>15 DEF vars
<1> QED
  BY <1>1, <1>2, <1>3, <1>4, <1>5, <1>6, <1>7, <1>8, <1>9, <1>10, <1>11,
     <1>12, <1>13, <1>14, <1>15 DEF Next, Step

(* The word only goes to 0 in StoreZero, whose thread is then correcting,   *)
(* and the counter only leaves 0 in PostAdd, whose thread then is; a thread *)
(* stops correcting with the word at 1, or having read the counter as 0.    *)
LEMMA WordStep ==
  TypeOK /\ LocalsOK /\ WordTracksTickets /\ [Next]_vars
    => WordTracksTickets'
<1> SUFFICES ASSUME TypeOK, LocalsOK, WordTracksTickets, [Next]_vars,
                    AdmitCounter' > 0, FutexWord' = 0,
                    \A u \in Thread : ~Correcting(u)'
             PROVE  \A u \in Thread : pc'[u] \notin {"wait", "asleep"}
  BY DEF WordTracksTickets
<1> USE PrimitiveAssumption
    DEF TypeOK, WordTracksTickets, Correcting, Goto, locals, history
<1>1. ASSUME NEW t \in Thread, NEW n \in Counts, PostAdd(t, n)
      PROVE \A u \in Thread : pc'[u] \notin {"wait", "asleep"}
  BY <1>1 DEF PostAdd
<1>2. ASSUME NEW t \in Thread, NEW how \in {"forever", "running"},
             WaitLoad(t, how)
      PROVE \A u \in Thread : pc'[u] \notin {"wait", "asleep"}
  BY <1>2 DEF WaitLoad, ReadCounter, NextPoint
<1>3. ASSUME NEW t \in Thread, PostWake(t)
      PROVE \A u \in Thread : pc'[u] \notin {"wait", "asleep"}
  BY <1>3 DEF PostWake, PrivateFutexWakeAll
<1>4. ASSUME NEW t \in Thread, Snatch(t)
      PROVE \A u \in Thread : pc'[u] \notin {"wait", "asleep"}
  BY <1>4 DEF Snatch, NextPoint, LocalsOK
<1>5. ASSUME NEW t \in Thread, Recheck(t)
      PROVE \A u \in Thread : pc'[u] \notin {"wait", "asleep"}
  BY <1>5 DEF Recheck
<1>6. ASSUME NEW t \in Thread, StoreZero(t) PROVE FALSE
  BY <1>6 DEF StoreZero
<1>7. ASSUME NEW t \in Thread, PostStore(t) \/ StoreOne(t) PROVE FALSE
  BY <1>7 DEF PostStore, StoreOne
<1>8. ASSUME NEW t \in Thread, GiveUpBeforeWait(t) \/ FutexWait(t)
      PROVE \A u \in Thread : pc'[u] \notin {"wait", "asleep"}
  BY <1>8 DEF GiveUpBeforeWait, FutexWait, PrivateFutexWaitBlocks
<1>9. ASSUME NEW t \in Thread, TimeOut(t) \/ Interrupt(t)
      PROVE \A u \in Thread : pc'[u] \notin {"wait", "asleep"}
  BY <1>9 DEF TimeOut, Interrupt
<1>10. ASSUME NEW t \in Thread, Reload(t)
       PROVE \A u \in Thread : pc'[u] \notin {"wait", "asleep"}
  BY <1>10 DEF Reload, ReadCounter, NextPoint
<1>11. ASSUME NEW t \in Thread, PatienceElapses(t)
       PROVE \A u \in Thread : pc'[u] \notin {"wait", "asleep"}
  BY <1>11 DEF PatienceElapses
<1>12. CASE UNCHANGED vars
  BY <1>12 DEF vars
<1> QED
  BY <1>1, <1>2, <1>3, <1>4, <1>5, <1>6, <1>7, <1>8, <1>9, <1>10, <1>11,
     <1>12 DEF Next, Step

(* The inductive invariant holds throughout every behaviour. *)
LEMMA Inductive == Spec => []IInv
<1>1. Init => IInv
  BY InitInv
<1>2. IInv /\ [Next]_vars => IInv'
  BY TypeStep, AccountingStep, LocalsStep, WordStep DEF IInv
<1> QED
  BY <1>1, <1>2, PTL DEF Spec

-----------------------------------------------------------------------------

(* Type correctness of the Linux and Windows semaphore. *)
THEOREM TypeCorrect == Spec => []TypeOK
<1>1. IInv => TypeOK
  BY DEF IInv
<1> QED
  BY <1>1, Inductive, PTL

(* No ticket is admitted twice or lost, by any number of threads. *)
THEOREM AccountsTickets == Spec => []TicketAccounting
<1>1. IInv => TicketAccounting
  BY DEF IInv
<1> QED
  BY <1>1, Inductive, PTL

(* The futex word contradicts an available ticket only during the windows   *)
(* in which some thread is about to correct it.                             *)
THEOREM WordFollowsTickets == Spec => []WordTracksTickets
<1>1. IInv => WordTracksTickets
  BY DEF IInv
<1> QED
  BY <1>1, Inductive, PTL

(* A thread falls asleep in spite of an available ticket only inside such a *)
(* window: the one way in which Post() can leave a waiter behind.           *)
THEOREM SleepsOnlyInRace == Spec => SleepsOnTicketOnlyInRace
<1> DEFINE RaceOnly == \A t \in Thread :
             FallsAsleep(t) /\ AdmitCounter > 0
               => \E u \in Thread : Correcting(u)
<1>1. IInv /\ [Next]_vars => [RaceOnly]_vars
  <2> SUFFICES ASSUME IInv, Next, NEW t \in Thread, FallsAsleep(t),
                      AdmitCounter > 0
               PROVE  \E u \in Thread : Correcting(u)
    OBVIOUS
  <2> USE DEF IInv, TypeOK, FallsAsleep, Goto
  <2>1. pc[t] = "wait" /\ FutexWord = 0
    <3>1. ASSUME NEW u \in Thread, FutexWait(u)
          PROVE pc[t] = "wait" /\ FutexWord = 0
      BY <3>1 DEF FutexWait, PrivateFutexWaitBlocks
    <3>2. ASSUME NEW u \in Thread, NEW n \in Counts, PostAdd(u, n)
          PROVE FALSE
      BY <3>2 DEF PostAdd
    <3>3. ASSUME NEW u \in Thread, NEW how \in {"forever", "running"},
                 WaitLoad(u, how)
          PROVE FALSE
      BY <3>3 DEF WaitLoad, ReadCounter, NextPoint
    <3>4. ASSUME NEW u \in Thread, Snatch(u) \/ Reload(u) PROVE FALSE
      BY <3>4 DEF Snatch, Reload, ReadCounter, NextPoint
    <3>5. ASSUME NEW u \in Thread, PostWake(u) PROVE FALSE
      BY <3>5 DEF PostWake, PrivateFutexWakeAll
    <3>6. ASSUME NEW u \in Thread,
                 \/ PostStore(u) \/ StoreZero(u) \/ Recheck(u)
                 \/ StoreOne(u) \/ GiveUpBeforeWait(u) \/ TimeOut(u)
                 \/ Interrupt(u) \/ PatienceElapses(u)
          PROVE FALSE
      BY <3>6 DEF PostStore, StoreZero, Recheck, StoreOne,
                  GiveUpBeforeWait, TimeOut, Interrupt, PatienceElapses
    <3> QED
      BY <3>1, <3>2, <3>3, <3>4, <3>5, <3>6 DEF Next, Step
  <2> QED
    BY <2>1 DEF WordTracksTickets
<1> QED
  BY <1>1, Inductive, PTL DEF Spec, SleepsOnTicketOnlyInRace

-----------------------------------------------------------------------------

(* Every step of the algorithm is a step of the counting semaphore or one   *)
(* that it does not see.                                                    *)
LEMMA StepImplements ==
  TypeOK /\ LocalsOK /\ [Next]_vars => [Abstract!Next]_(Abstract!vars)
<1> SUFFICES ASSUME TypeOK, LocalsOK, [Next]_vars
             PROVE  [Abstract!Next]_(Abstract!vars)
  OBVIOUS
<1> USE PrimitiveAssumption
    DEF TypeOK, PostPoints, WaitPoints, Patience, Goto, locals, history,
        Abstract!vars
<1>1. ASSUME NEW t \in Thread, NEW n \in Counts, PostAdd(t, n)
      PROVE Abstract!Post(n)
  BY <1>1 DEF PostAdd, Abstract!Post
<1>2. ASSUME NEW t \in Thread, NEW how \in {"forever", "running"},
             WaitLoad(t, how)
      PROVE Abstract!Arrive(t)
  BY <1>2 DEF WaitLoad, ReadCounter, NextPoint, Abstract!Arrive
<1>3. ASSUME NEW t \in Thread, Snatch(t)
      PROVE Abstract!Admit(t) \/ UNCHANGED Abstract!vars
  BY <1>3 DEF Snatch, NextPoint, LocalsOK, Abstract!Admit
<1>4. ASSUME NEW t \in Thread, TimeOut(t) \/ GiveUpBeforeWait(t)
      PROVE Abstract!GiveUp(t)
  BY <1>4 DEF TimeOut, GiveUpBeforeWait, ElapsedBeforeWait, Abstract!GiveUp
<1>5. ASSUME NEW t \in Thread, PostWake(t)
      PROVE UNCHANGED Abstract!vars
  BY <1>5 DEF PostWake, PrivateFutexWakeAll
<1>6. ASSUME NEW t \in Thread, Reload(t)
      PROVE UNCHANGED Abstract!vars
  BY <1>6 DEF Reload, ReadCounter, NextPoint
<1>7. ASSUME NEW t \in Thread,
             \/ PostStore(t) \/ StoreZero(t) \/ Recheck(t) \/ StoreOne(t)
             \/ FutexWait(t) \/ Interrupt(t)
      PROVE UNCHANGED Abstract!vars
  BY <1>7 DEF PostStore, StoreZero, Recheck, StoreOne, FutexWait,
              Interrupt
<1>8. ASSUME NEW t \in Thread, PatienceElapses(t)
      PROVE UNCHANGED Abstract!vars
  BY <1>8 DEF PatienceElapses
<1>9. CASE UNCHANGED vars
  BY <1>9 DEF vars
<1> QED
  BY <1>1, <1>2, <1>3, <1>4, <1>5, <1>6, <1>7, <1>8, <1>9
  DEF Next, Step, Abstract!Next

(* The futex algorithm is a counting semaphore: whoever gets out took       *)
(* exactly one ticket, or had set itself a patience.                        *)
THEOREM Implements == Spec => ImplementsCountingSemaphore
<1>1. Init => Abstract!Init
  BY DEF Init, Abstract!Init, WaitPoints
<1>2. IInv /\ [Next]_vars => [Abstract!Next]_(Abstract!vars)
  BY StepImplements DEF IInv
<1> QED
  BY <1>1, <1>2, Inductive, PTL
  DEF Spec, ImplementsCountingSemaphore, Abstract!Spec
=============================================================================
