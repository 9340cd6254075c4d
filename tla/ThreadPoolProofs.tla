-------------------------- MODULE ThreadPoolProofs --------------------------
(* Theorems about ThreadPool, for any number of tasks, any minimum and      *)
(* maximum of threads, any idle time and any width of the counters.         *)
EXTENDS ThreadPool, FiniteSetTheorems, TLAPS

PoolThread == Slot \cup {Owner}
WorkerPoints == AddPoints \cup WorkPoints \cup ExitPoints \cup {"none", "ended"}

(* The ranges of all variables; that of ThreadCount is a theorem below.     *)
Types ==
  /\ IsShuttingDown \in BOOLEAN /\ LightsOut \in BOOLEAN /\ idled \in BOOLEAN
  /\ ThreadCount \in Int
  /\ TaskCount \in 0 .. SizeLimit - 1
  /\ ThreadStatus \in [Slot -> {-1, 0, 1, 2}]
  /\ tickets \in Nat /\ taken \in Nat
  /\ queued \in Nat /\ counting \in Nat /\ posting \in Nat /\ submitted \in Nat
  /\ safeThreadCount \in [Slot -> 0 .. SizeLimit - 1]
  /\ idleHeartBeatCount \in [Slot -> 0 .. IdleShutDownHeartBeats + 1]

(* Workers work, the owner owns, and an index that is used is one of a slot.*)
Places ==
  /\ pc \in [PoolThread -> WorkerPoints \cup OwnerPoints]
  /\ pc[Owner] \in AddPoints \cup OwnerPoints
  /\ \A s \in Slot : pc[s] \in WorkerPoints
  /\ slot \in [PoolThread -> 0 .. MaximumThreadCount + 1]
  /\ \A p \in PoolThread :
       /\ pc[p] = "addScan" => slot[p] > 0
       /\ pc[p] \in {"addJoin", "addSpawn"} => slot[p] \in Slot
  /\ pc[Owner] = "destroy" => slot[Owner] <= MaximumThreadCount
  /\ \A s \in Slot : pc[s] \notin {"idleSub", "idleAdd", "exitStatus"} =>
                       idleHeartBeatCount[s] <= IdleShutDownHeartBeats

(* A thread that has claimed a slot for a new worker. *)
Claims(p) == pc[p] \in {"addJoin", "addSpawn"}

(* A claimed slot is marked, claimed by one thread only, and there is no    *)
(* worker in it, or none that will touch the slot's status again.           *)
ClaimsAreUnique ==
  /\ \A p \in PoolThread : Claims(p) => ThreadStatus[slot[p]] = 1
  /\ \A p, q \in PoolThread :
       Claims(p) /\ Claims(q) /\ slot[p] = slot[q] => p = q
  /\ \A p \in PoolThread :
       /\ pc[p] = "addSpawn" => pc[slot[p]] \in {"none", "ended"}
       /\ pc[p] = "addJoin" =>
            pc[slot[p]] \in {"exitCount", "exitOpen", "ended"}

(* The status of a slot tells where its worker is. *)
StatusTellsThread ==
  \A s \in Slot :
    /\ ThreadStatus[s] = 0 => pc[s] = "none"
    /\ ThreadStatus[s] = 1 =>
         pc[s] = "starting" \/ \E p \in PoolThread : Claims(p) /\ slot[p] = s
    /\ ThreadStatus[s] = 2 =>
         pc[s] \in (AddPoints \cup WorkPoints \cup {"exitStatus"}) \ {"starting"}
    /\ ThreadStatus[s] = -1 => pc[s] \in {"exitCount", "exitOpen", "ended"}

(* The owner shuts the pool down, and only then do workers cancel tasks.    *)
ShutdownIsKnown ==
  /\ IsShuttingDown <=> pc[Owner] \in {"postAll", "lightsOut", "destroy", "gone"}
  /\ \A s \in Slot : pc[s] = "cancel" => IsShuttingDown

(* Workers by where they are: those that ThreadCount counts, those that are *)
(* counted and not about to end, and those that have not decided to end.    *)
CountedPoints ==
  (AddPoints \cup WorkPoints \cup {"exitStatus", "exitCount"}) \ {"idleAdd"}
ActivePoints == (AddPoints \cup WorkPoints) \ {"idleAdd"}
AlivePoints == AddPoints \cup WorkPoints
UnderwayPoints == AddPoints \cup {"grow", "growTasks", "dequeue"}

At(points) == {s \in Slot : pc[s] \in points}
CountAt(points) == Cardinality(At(points))

(* ThreadCount never exceeds the counted workers. Every worker that ended   *)
(* because it was idle was subtracted twice, but no other one ends that way *)
(* unless the count is positive: it falls behind by the slots at most.      *)
CountIsBounded ==
  /\ ThreadCount <= CountAt(CountedPoints)
  /\ CountAt(CountedPoints) - ThreadCount <= MaximumThreadCount

(* While the constructor runs there is nothing to do for the workers, so    *)
(* that none of them adds another one and none is idle enough to end.       *)
Constructing == pc[Owner] \in AddPoints \cup {"constructing"}

ConstructionIsQuiet ==
  Constructing =>
    /\ queued = 0 /\ counting = 0 /\ posting = 0 /\ TaskCount = 0
    /\ \A s \in Slot :
         pc[s] \in {"none", "starting", "loop", "waiting", "idleSub", "idleAdd",
                    "grow", "growTasks", "dequeue"}
    /\ Spawned <= MinimumThreadCount
    /\ pc[Owner] \in {"addCheck", "addScan"} => Spawned < MinimumThreadCount

(* As long as the pool is not being shut down, the count is not more than   *)
(* the workers that stay, and those are enough once the constructor is done.*)
MinimumIsKept ==
  ~IsShuttingDown =>
    /\ ThreadCount <= CountAt(ActivePoints)
    /\ pc[Owner] = "serving" => CountAt(AlivePoints) >= MinimumThreadCount

(* A worker is about to open the gate; one is about to end, or has ended.   *)
Opening == \E s \in Slot : pc[s] = "exitOpen"
Leaving == \E s \in Slot : pc[s] \in ExitPoints \cup {"ended"}

(* Without idle workers the count is exact, workers end only when the pool  *)
(* is shut down and its queue empty, and the last of them opens the gate.   *)
LastOneOpensGate ==
  ~idled =>
    /\ ThreadCount = CountAt(CountedPoints)
    /\ \A s \in Slot : pc[s] # "idleAdd"
    /\ Leaving => IsShuttingDown /\ queued = 0
    /\ Opening \/ LightsOut => ThreadCount = 0
    /\ LightsOut => ~Opening /\ \E s \in Slot : pc[s] = "ended"
    /\ \A s, t \in Slot : pc[s] = "exitOpen" /\ pc[t] = "exitOpen" => s = t
    /\ IsShuttingDown /\ MinimumThreadCount > 0 =>
         ThreadCount > 0 \/ Opening \/ LightsOut
    /\ pc[Owner] \in {"destroy", "gone"} =>
         NobodyLeft /\ (LightsOut \/ MinimumThreadCount = 0)

IInv ==
  /\ Types /\ Places /\ ClaimsAreUnique /\ StatusTellsThread
  /\ ShutdownIsKnown /\ CountIsBounded /\ ConstructionIsQuiet
  /\ MinimumIsKept /\ NoTaskStranded /\ LastOneOpensGate

-----------------------------------------------------------------------------

(* The owner is not one of the workers, and there is at least one slot.     *)
LEMMA SlotFacts ==
  /\ Owner \notin Slot /\ Slot \subseteq PoolThread /\ Owner \in PoolThread
  /\ \A n \in 0 .. MaximumThreadCount + 1 :
       n > 0 /\ n <= MaximumThreadCount => n \in Slot
  BY ThreadPoolAssumption DEF Owner, Slot, PoolThread

(* What conversions and wrapping counters yield. *)
LEMMA SizeFacts ==
  ASSUME NEW n \in Int
  PROVE  n % SizeLimit \in 0 .. SizeLimit - 1
  BY ThreadPoolAssumption

(* The semaphore's operations, as far as its ticket counter goes.           *)
LEMMA SemaphoreFacts ==
  /\ \A n : TaskSemaphore!Post(n) => tickets' = tickets + n /\ taken' = taken
  /\ \A s : TaskSemaphore!Admit(s) =>
       tickets > 0 /\ tickets' = tickets - 1 /\ taken' = taken + 1
  /\ \A s : TaskSemaphore!GiveUp(s) => tickets' = tickets /\ taken' = taken
  BY DEF TaskSemaphore!Post, TaskSemaphore!Admit, TaskSemaphore!GiveUp

(* Each step keeps the variables in their ranges. *)
LEMMA TypeStep ==
  ASSUME Types, Places, [Next]_vars
  PROVE  Types'
<1> USE ThreadPoolAssumption, SizeFacts
    DEF Types, tasks, semaphore, locals, shutdown, threads
<1>1. CASE Enqueue
  BY <1>1 DEF Enqueue
<1>2. CASE CountTask
  BY <1>2 DEF CountTask
<1>3. CASE PostTask
  BY <1>3, SemaphoreFacts DEF PostTask
<1>4. ASSUME NEW p \in PoolThread, AddCheck(p) PROVE Types'
  BY <1>4 DEF AddCheck, AddReturns
<1>5. ASSUME NEW p \in PoolThread, AddScan(p) PROVE Types'
  BY <1>5 DEF AddScan
<1>6. ASSUME NEW p \in PoolThread, AddFails(p) PROVE Types'
  BY <1>6 DEF AddFails, AddReturns
<1>7. ASSUME NEW p \in PoolThread, AddJoin(p) PROVE Types'
  BY <1>7 DEF AddJoin
<1>8. ASSUME NEW p \in PoolThread, AddSpawn(p) PROVE Types'
  BY <1>8 DEF AddSpawn
<1>9. ASSUME NEW s \in Slot, Start(s) PROVE Types'
  BY <1>9 DEF Start
<1>10. ASSUME NEW s \in Slot, Loop(s) PROVE Types'
  BY <1>10 DEF Loop
<1>11. ASSUME NEW s \in Slot, Cancel(s) PROVE Types'
  BY <1>11 DEF Cancel
<1>12. ASSUME NEW s \in Slot, TakeTicket(s) PROVE Types'
  BY <1>12, SemaphoreFacts DEF TakeTicket
<1>13. ASSUME NEW s \in Slot, HeartBeat(s) PROVE Types'
  BY <1>13, SemaphoreFacts DEF HeartBeat, Places
<1>14. ASSUME NEW s \in Slot, IdleSubtract(s) PROVE Types'
  BY <1>14 DEF IdleSubtract
<1>15. ASSUME NEW s \in Slot, IdleAdd(s) PROVE Types'
  BY <1>15 DEF IdleAdd
<1>16. ASSUME NEW s \in Slot, LoadThreadCount(s) PROVE Types'
  BY <1>16 DEF LoadThreadCount, AsSize
<1>17. ASSUME NEW s \in Slot, LoadTaskCount(s) PROVE Types'
  BY <1>17 DEF LoadTaskCount, AsSize
<1>18. ASSUME NEW s \in Slot, Dequeue(s) PROVE Types'
  BY <1>18 DEF Dequeue
<1>19. ASSUME NEW s \in Slot, FinishTask(s) PROVE Types'
  <2>1. TaskCount - 1 \in Int
    OBVIOUS
  <2>2. TaskCount' \in 0 .. SizeLimit - 1
    BY <1>19, <2>1 DEF FinishTask
  <2> QED
    BY <1>19, <2>2 DEF FinishTask
<1>20. ASSUME NEW s \in Slot, ExitStatus(s) PROVE Types'
  BY <1>20 DEF ExitStatus
<1>21. ASSUME NEW s \in Slot, ExitCount(s) PROVE Types'
  BY <1>21 DEF ExitCount
<1>22. ASSUME NEW s \in Slot, ExitOpen(s) PROVE Types'
  BY <1>22 DEF ExitOpen
<1>23. CASE Construct
  BY <1>23 DEF Construct
<1>24. CASE StartShutdown
  BY <1>24 DEF StartShutdown
<1>25. CASE PostAll
  <2>1. tickets' = tickets + MaximumThreadCount /\ taken' = taken
    BY <1>25, SemaphoreFacts DEF PostAll
  <2>2. tickets' \in Nat /\ taken' \in Nat
    BY <2>1
  <2> QED
    BY <1>25, <2>2 DEF PostAll
<1>26. CASE PassLightsOut
  BY <1>26 DEF PassLightsOut, StartDestroy
<1>27. CASE LightsOutTimeOut
  BY <1>27 DEF LightsOutTimeOut, StartDestroy
<1>28. CASE DestroyThread
  BY <1>28 DEF DestroyThread
<1>29. CASE Free
  BY <1>29 DEF Free
<1>30. CASE UNCHANGED vars
  BY <1>30 DEF vars
<1> QED
  BY <1>1, <1>2, <1>3, <1>4, <1>5, <1>6, <1>7, <1>8, <1>9, <1>10, <1>11,
     <1>12, <1>13, <1>14, <1>15, <1>16, <1>17, <1>18, <1>19, <1>20, <1>21,
     <1>22, <1>23, <1>24, <1>25, <1>26, <1>27, <1>28, <1>29, <1>30, SlotFacts
     DEF Next, WorkerStep, OwnerStep, AddThread

(* Workers and the owner stay in their own code, and no index leaves the    *)
(* slots: a scan ends after the last one.                                   *)
LEMMA PlacesStep ==
  ASSUME Types, Places, ClaimsAreUnique, [Next]_vars
  PROVE  Places'
<1> USE ThreadPoolAssumption, SlotFacts
    DEF Places, WorkerPoints, AddPoints, WorkPoints, ExitPoints, OwnerPoints,
        Goto, Caller, locals
<1>1. CASE Enqueue
  BY <1>1 DEF Enqueue
<1>2. CASE CountTask
  BY <1>2 DEF CountTask
<1>3. CASE PostTask
  BY <1>3 DEF PostTask
<1>4. ASSUME NEW p \in PoolThread, AddCheck(p) PROVE Places'
  BY <1>4 DEF AddCheck, AddReturns
<1>5. ASSUME NEW p \in PoolThread, AddScan(p) PROVE Places'
  BY <1>5 DEF AddScan
<1>6. ASSUME NEW p \in PoolThread, AddFails(p) PROVE Places'
  BY <1>6 DEF AddFails, AddReturns
<1>7. ASSUME NEW p \in PoolThread, AddJoin(p) PROVE Places'
  BY <1>7 DEF AddJoin
<1>8. ASSUME NEW p \in PoolThread, AddSpawn(p) PROVE Places'
  BY <1>8 DEF AddSpawn, ClaimsAreUnique
<1>9. ASSUME NEW s \in Slot, Start(s) PROVE Places'
  BY <1>9 DEF Start
<1>10. ASSUME NEW s \in Slot, Loop(s) PROVE Places'
  BY <1>10 DEF Loop
<1>11. ASSUME NEW s \in Slot, Cancel(s) PROVE Places'
  BY <1>11 DEF Cancel
<1>12. ASSUME NEW s \in Slot, TakeTicket(s) PROVE Places'
  BY <1>12 DEF TakeTicket
<1>13. ASSUME NEW s \in Slot, HeartBeat(s) PROVE Places'
  BY <1>13 DEF HeartBeat, Types
<1>14. ASSUME NEW s \in Slot, IdleSubtract(s) PROVE Places'
  BY <1>14 DEF IdleSubtract
<1>15. ASSUME NEW s \in Slot, IdleAdd(s) PROVE Places'
  BY <1>15 DEF IdleAdd, Types
<1>16. ASSUME NEW s \in Slot, LoadThreadCount(s) PROVE Places'
  BY <1>16 DEF LoadThreadCount
<1>17. ASSUME NEW s \in Slot, LoadTaskCount(s) PROVE Places'
  BY <1>17 DEF LoadTaskCount
<1>18. ASSUME NEW s \in Slot, Dequeue(s) PROVE Places'
  BY <1>18 DEF Dequeue, Types
<1>19. ASSUME NEW s \in Slot, FinishTask(s) PROVE Places'
  BY <1>19 DEF FinishTask
<1>20. ASSUME NEW s \in Slot, ExitStatus(s) PROVE Places'
  BY <1>20 DEF ExitStatus, Types
<1>21. ASSUME NEW s \in Slot, ExitCount(s) PROVE Places'
  BY <1>21 DEF ExitCount
<1>22. ASSUME NEW s \in Slot, ExitOpen(s) PROVE Places'
  BY <1>22 DEF ExitOpen
<1>23. CASE Construct
  BY <1>23 DEF Construct
<1>24. CASE StartShutdown
  BY <1>24 DEF StartShutdown
<1>25. CASE PostAll
  BY <1>25 DEF PostAll
<1>26. CASE PassLightsOut
  BY <1>26 DEF PassLightsOut, StartDestroy
<1>27. CASE LightsOutTimeOut
  BY <1>27 DEF LightsOutTimeOut, StartDestroy
<1>28. CASE DestroyThread
  BY <1>28 DEF DestroyThread
<1>29. CASE Free
  BY <1>29 DEF Free
<1>30. CASE UNCHANGED vars
  BY <1>30 DEF vars
<1> QED
  BY <1>1, <1>2, <1>3, <1>4, <1>5, <1>6, <1>7, <1>8, <1>9, <1>10, <1>11,
     <1>12, <1>13, <1>14, <1>15, <1>16, <1>17, <1>18, <1>19, <1>20, <1>21,
     <1>22, <1>23, <1>24, <1>25, <1>26, <1>27, <1>28, <1>29, <1>30, SlotFacts
     DEF Next, WorkerStep, OwnerStep, AddThread

(* A slot is claimed by a compare-and-swap that marks it, and the claim ends *)
(* with the start of a worker in it: no second claim is made meanwhile.     *)
LEMMA ClaimsStep ==
  ASSUME Types, Places, ClaimsAreUnique, StatusTellsThread, [Next]_vars
  PROVE  ClaimsAreUnique'
<1> USE SlotFacts
    DEF ClaimsAreUnique, Claims, Places, Goto, Caller, locals, threads
<1>1. CASE Enqueue
  BY <1>1 DEF Enqueue
<1>2. CASE CountTask
  BY <1>2 DEF CountTask
<1>3. CASE PostTask
  BY <1>3 DEF PostTask
<1>4. ASSUME NEW p \in PoolThread, AddCheck(p) PROVE ClaimsAreUnique'
  BY <1>4 DEF AddCheck, AddReturns
<1>5. ASSUME NEW p \in PoolThread, AddScan(p) PROVE ClaimsAreUnique'
  <2>1. slot[p] \in Slot /\ pc[p] = "addScan"
    BY <1>5 DEF AddScan
  <2>2. CASE ThreadStatus[slot[p]] < 1 /\ UNCHANGED slot
    <3>1. \A q \in PoolThread : Claims(q) => slot[q] # slot[p]
      BY <2>2
    <3>2. /\ ThreadStatus[slot[p]] = -1 =>
               pc[slot[p]] \in {"exitCount", "exitOpen", "ended"}
          /\ ThreadStatus[slot[p]] # -1 => pc[slot[p]] = "none"
      BY <2>1, <2>2 DEF Types, StatusTellsThread
    <3>3. /\ pc' = [pc EXCEPT ![p] = IF ThreadStatus[slot[p]] = -1
                                     THEN "addJoin" ELSE "addSpawn"]
          /\ ThreadStatus' = [ThreadStatus EXCEPT ![slot[p]] = 1]
      BY <1>5, <2>2 DEF AddScan, Types
    <3> QED
      BY <2>1, <2>2, <3>1, <3>2, <3>3 DEF Types
  <2>3. CASE UNCHANGED <<pc, ThreadStatus>>
    <3>1. \A q \in PoolThread : q # p => slot'[q] = slot[q]
      BY <1>5 DEF AddScan
    <3> QED
      BY <2>1, <2>3, <3>1
  <2> QED
    BY <1>5, <2>2, <2>3 DEF AddScan
<1>6. ASSUME NEW p \in PoolThread, AddFails(p) PROVE ClaimsAreUnique'
  BY <1>6 DEF AddFails, AddReturns
<1>7. ASSUME NEW p \in PoolThread, AddJoin(p) PROVE ClaimsAreUnique'
  BY <1>7 DEF AddJoin
<1>8. ASSUME NEW p \in PoolThread, AddSpawn(p) PROVE ClaimsAreUnique'
  BY <1>8 DEF AddSpawn
<1>9. ASSUME NEW s \in Slot, Start(s) PROVE ClaimsAreUnique'
  BY <1>9 DEF Start
<1>10. ASSUME NEW s \in Slot, Loop(s) PROVE ClaimsAreUnique'
  BY <1>10 DEF Loop
<1>11. ASSUME NEW s \in Slot, Cancel(s) PROVE ClaimsAreUnique'
  BY <1>11 DEF Cancel
<1>12. ASSUME NEW s \in Slot, TakeTicket(s) PROVE ClaimsAreUnique'
  BY <1>12 DEF TakeTicket
<1>13. ASSUME NEW s \in Slot, HeartBeat(s) PROVE ClaimsAreUnique'
  BY <1>13 DEF HeartBeat
<1>14. ASSUME NEW s \in Slot, IdleSubtract(s) PROVE ClaimsAreUnique'
  BY <1>14 DEF IdleSubtract
<1>15. ASSUME NEW s \in Slot, IdleAdd(s) PROVE ClaimsAreUnique'
  BY <1>15 DEF IdleAdd
<1>16. ASSUME NEW s \in Slot, LoadThreadCount(s) PROVE ClaimsAreUnique'
  BY <1>16 DEF LoadThreadCount
<1>17. ASSUME NEW s \in Slot, LoadTaskCount(s) PROVE ClaimsAreUnique'
  BY <1>17 DEF LoadTaskCount
<1>18. ASSUME NEW s \in Slot, Dequeue(s) PROVE ClaimsAreUnique'
  BY <1>18 DEF Dequeue
<1>19. ASSUME NEW s \in Slot, FinishTask(s) PROVE ClaimsAreUnique'
  BY <1>19 DEF FinishTask
<1>20. ASSUME NEW s \in Slot, ExitStatus(s) PROVE ClaimsAreUnique'
  BY <1>20 DEF ExitStatus
<1>21. ASSUME NEW s \in Slot, ExitCount(s) PROVE ClaimsAreUnique'
  BY <1>21 DEF ExitCount
<1>22. ASSUME NEW s \in Slot, ExitOpen(s) PROVE ClaimsAreUnique'
  BY <1>22 DEF ExitOpen
<1>23. CASE Construct
  BY <1>23 DEF Construct
<1>24. CASE StartShutdown
  BY <1>24 DEF StartShutdown
<1>25. CASE PostAll
  BY <1>25 DEF PostAll
<1>26. CASE PassLightsOut
  BY <1>26 DEF PassLightsOut, StartDestroy
<1>27. CASE LightsOutTimeOut
  BY <1>27 DEF LightsOutTimeOut, StartDestroy
<1>28. CASE DestroyThread
  BY <1>28 DEF DestroyThread
<1>29. CASE Free
  BY <1>29 DEF Free
<1>30. CASE UNCHANGED vars
  BY <1>30 DEF vars
<1> QED
  BY <1>1, <1>2, <1>3, <1>4, <1>5, <1>6, <1>7, <1>8, <1>9, <1>10, <1>11,
     <1>12, <1>13, <1>14, <1>15, <1>16, <1>17, <1>18, <1>19, <1>20, <1>21,
     <1>22, <1>23, <1>24, <1>25, <1>26, <1>27, <1>28, <1>29, <1>30, SlotFacts
     DEF Next, WorkerStep, OwnerStep, AddThread

(* A slot's status changes hands with its worker: the claim, the start and  *)
(* the end of the worker each set it.                                       *)
LEMMA StatusStep ==
  ASSUME Types, Places, ClaimsAreUnique, StatusTellsThread, [Next]_vars
  PROVE  StatusTellsThread'
<1> USE SlotFacts
    DEF StatusTellsThread, Claims, Places, Goto, Caller, locals, threads,
        WorkerPoints, AddPoints, WorkPoints, ExitPoints, OwnerPoints
<1>1. CASE Enqueue
  BY <1>1 DEF Enqueue
<1>2. CASE CountTask
  BY <1>2 DEF CountTask
<1>3. CASE PostTask
  BY <1>3 DEF PostTask
<1>4. ASSUME NEW p \in PoolThread, AddCheck(p) PROVE StatusTellsThread'
  BY <1>4 DEF AddCheck, AddReturns
<1>5. ASSUME NEW p \in PoolThread, AddScan(p) PROVE StatusTellsThread'
  <2>1. slot[p] \in Slot /\ pc[p] = "addScan"
    BY <1>5 DEF AddScan
  <2>2. CASE ThreadStatus[slot[p]] < 1 /\ UNCHANGED slot
    <3>1. /\ pc' = [pc EXCEPT ![p] = IF ThreadStatus[slot[p]] = -1
                                     THEN "addJoin" ELSE "addSpawn"]
          /\ ThreadStatus' = [ThreadStatus EXCEPT ![slot[p]] = 1]
      BY <1>5, <2>2 DEF AddScan, Types
    <3> QED
      BY <2>1, <2>2, <3>1 DEF Types
  <2>3. CASE UNCHANGED <<pc, ThreadStatus>>
    <3>1. \A q \in PoolThread : q # p => slot'[q] = slot[q]
      BY <1>5 DEF AddScan
    <3> QED
      BY <2>1, <2>3, <3>1
  <2> QED
    BY <1>5, <2>2, <2>3 DEF AddScan
<1>6. ASSUME NEW p \in PoolThread, AddFails(p) PROVE StatusTellsThread'
  BY <1>6 DEF AddFails, AddReturns
<1>7. ASSUME NEW p \in PoolThread, AddJoin(p) PROVE StatusTellsThread'
  BY <1>7 DEF AddJoin
<1>8. ASSUME NEW p \in PoolThread, AddSpawn(p) PROVE StatusTellsThread'
  <2>1. /\ pc[p] = "addSpawn" /\ slot[p] \in Slot
        /\ pc[slot[p]] \in {"none", "ended"} /\ ThreadStatus[slot[p]] = 1
        /\ UNCHANGED ThreadStatus
    BY <1>8 DEF AddSpawn, ClaimsAreUnique
  <2>2. /\ pc'[slot[p]] = "starting"
        /\ pc'[p] \in {"dequeue", "constructing"}
        /\ \A q \in PoolThread \ {p, slot[p]} :
             pc'[q] = pc[q] /\ slot'[q] = slot[q]
    BY <1>8, <2>1 DEF AddSpawn
  <2>3. p \in Slot => ThreadStatus[p] = 2
    BY <2>1 DEF Types, ClaimsAreUnique
  <2>4. p \in Slot => pc'[p] = "dequeue"
    BY <1>8, <2>1 DEF AddSpawn
  <2>5. \A q \in PoolThread : Claims(q) /\ q # p => q # slot[p]
    BY <2>1
  <2> QED
    BY <2>1, <2>2, <2>3, <2>4, <2>5
<1>9. ASSUME NEW s \in Slot, Start(s) PROVE StatusTellsThread'
  <2>1. /\ pc[s] = "starting"
        /\ pc' = [pc EXCEPT ![s] = "loop"]
        /\ ThreadStatus' = [ThreadStatus EXCEPT ![s] = 2]
        /\ UNCHANGED slot
    BY <1>9 DEF Start
  <2>2. \A q \in PoolThread : Claims(q) => Claims(q)'
    BY <2>1
  <2> QED
    BY <2>1, <2>2 DEF Types
<1>10. ASSUME NEW s \in Slot, Loop(s) PROVE StatusTellsThread'
  BY <1>10 DEF Loop
<1>11. ASSUME NEW s \in Slot, Cancel(s) PROVE StatusTellsThread'
  BY <1>11 DEF Cancel
<1>12. ASSUME NEW s \in Slot, TakeTicket(s) PROVE StatusTellsThread'
  BY <1>12 DEF TakeTicket
<1>13. ASSUME NEW s \in Slot, HeartBeat(s) PROVE StatusTellsThread'
  BY <1>13 DEF HeartBeat
<1>14. ASSUME NEW s \in Slot, IdleSubtract(s) PROVE StatusTellsThread'
  BY <1>14 DEF IdleSubtract
<1>15. ASSUME NEW s \in Slot, IdleAdd(s) PROVE StatusTellsThread'
  BY <1>15 DEF IdleAdd
<1>16. ASSUME NEW s \in Slot, LoadThreadCount(s) PROVE StatusTellsThread'
  BY <1>16 DEF LoadThreadCount
<1>17. ASSUME NEW s \in Slot, LoadTaskCount(s) PROVE StatusTellsThread'
  BY <1>17 DEF LoadTaskCount
<1>18. ASSUME NEW s \in Slot, Dequeue(s) PROVE StatusTellsThread'
  BY <1>18 DEF Dequeue
<1>19. ASSUME NEW s \in Slot, FinishTask(s) PROVE StatusTellsThread'
  BY <1>19 DEF FinishTask
<1>20. ASSUME NEW s \in Slot, ExitStatus(s) PROVE StatusTellsThread'
  <2>1. /\ pc[s] = "exitStatus"
        /\ pc' = [pc EXCEPT ![s] = "exitCount"]
        /\ ThreadStatus' = [ThreadStatus EXCEPT ![s] = -1]
        /\ UNCHANGED slot
    BY <1>20 DEF ExitStatus
  <2>2. \A q \in PoolThread : Claims(q) => Claims(q)'
    BY <2>1
  <2> QED
    BY <2>1, <2>2 DEF Types
<1>21. ASSUME NEW s \in Slot, ExitCount(s) PROVE StatusTellsThread'
  BY <1>21 DEF ExitCount
<1>22. ASSUME NEW s \in Slot, ExitOpen(s) PROVE StatusTellsThread'
  BY <1>22 DEF ExitOpen
<1>23. CASE Construct
  BY <1>23 DEF Construct
<1>24. CASE StartShutdown
  BY <1>24 DEF StartShutdown
<1>25. CASE PostAll
  BY <1>25 DEF PostAll
<1>26. CASE PassLightsOut
  BY <1>26 DEF PassLightsOut, StartDestroy
<1>27. CASE LightsOutTimeOut
  BY <1>27 DEF LightsOutTimeOut, StartDestroy
<1>28. CASE DestroyThread
  BY <1>28 DEF DestroyThread
<1>29. CASE Free
  BY <1>29 DEF Free
<1>30. CASE UNCHANGED vars
  BY <1>30 DEF vars
<1> QED
  BY <1>1, <1>2, <1>3, <1>4, <1>5, <1>6, <1>7, <1>8, <1>9, <1>10, <1>11,
     <1>12, <1>13, <1>14, <1>15, <1>16, <1>17, <1>18, <1>19, <1>20, <1>21,
     <1>22, <1>23, <1>24, <1>25, <1>26, <1>27, <1>28, <1>29, <1>30, SlotFacts
     DEF Next, WorkerStep, OwnerStep, AddThread

(* Shutting down is what the owner does last. *)
LEMMA ShutdownStep ==
  ASSUME Types, Places, ShutdownIsKnown, ClaimsAreUnique, [Next]_vars
  PROVE  ShutdownIsKnown'
<1> USE SlotFacts
    DEF ShutdownIsKnown, Places, Goto, Caller, shutdown, AddPoints, OwnerPoints
<1>1. CASE Enqueue
  BY <1>1 DEF Enqueue
<1>2. CASE CountTask
  BY <1>2 DEF CountTask
<1>3. CASE PostTask
  BY <1>3 DEF PostTask
<1>4. ASSUME NEW p \in PoolThread, AddCheck(p) PROVE ShutdownIsKnown'
  BY <1>4 DEF AddCheck, AddReturns
<1>5. ASSUME NEW p \in PoolThread, AddScan(p) PROVE ShutdownIsKnown'
  BY <1>5 DEF AddScan
<1>6. ASSUME NEW p \in PoolThread, AddFails(p) PROVE ShutdownIsKnown'
  BY <1>6 DEF AddFails, AddReturns
<1>7. ASSUME NEW p \in PoolThread, AddJoin(p) PROVE ShutdownIsKnown'
  BY <1>7 DEF AddJoin
<1>8. ASSUME NEW p \in PoolThread, AddSpawn(p) PROVE ShutdownIsKnown'
  BY <1>8 DEF AddSpawn
<1>9. ASSUME NEW s \in Slot, Start(s) PROVE ShutdownIsKnown'
  BY <1>9 DEF Start
<1>10. ASSUME NEW s \in Slot, Loop(s) PROVE ShutdownIsKnown'
  BY <1>10 DEF Loop
<1>11. ASSUME NEW s \in Slot, Cancel(s) PROVE ShutdownIsKnown'
  BY <1>11 DEF Cancel
<1>12. ASSUME NEW s \in Slot, TakeTicket(s) PROVE ShutdownIsKnown'
  BY <1>12 DEF TakeTicket
<1>13. ASSUME NEW s \in Slot, HeartBeat(s) PROVE ShutdownIsKnown'
  BY <1>13 DEF HeartBeat
<1>14. ASSUME NEW s \in Slot, IdleSubtract(s) PROVE ShutdownIsKnown'
  BY <1>14 DEF IdleSubtract
<1>15. ASSUME NEW s \in Slot, IdleAdd(s) PROVE ShutdownIsKnown'
  BY <1>15 DEF IdleAdd
<1>16. ASSUME NEW s \in Slot, LoadThreadCount(s) PROVE ShutdownIsKnown'
  BY <1>16 DEF LoadThreadCount
<1>17. ASSUME NEW s \in Slot, LoadTaskCount(s) PROVE ShutdownIsKnown'
  BY <1>17 DEF LoadTaskCount
<1>18. ASSUME NEW s \in Slot, Dequeue(s) PROVE ShutdownIsKnown'
  BY <1>18 DEF Dequeue
<1>19. ASSUME NEW s \in Slot, FinishTask(s) PROVE ShutdownIsKnown'
  BY <1>19 DEF FinishTask
<1>20. ASSUME NEW s \in Slot, ExitStatus(s) PROVE ShutdownIsKnown'
  BY <1>20 DEF ExitStatus
<1>21. ASSUME NEW s \in Slot, ExitCount(s) PROVE ShutdownIsKnown'
  BY <1>21 DEF ExitCount
<1>22. ASSUME NEW s \in Slot, ExitOpen(s) PROVE ShutdownIsKnown'
  BY <1>22 DEF ExitOpen
<1>23. CASE Construct
  BY <1>23 DEF Construct
<1>24. CASE StartShutdown
  BY <1>24 DEF StartShutdown
<1>25. CASE PostAll
  BY <1>25 DEF PostAll
<1>26. CASE PassLightsOut
  BY <1>26 DEF PassLightsOut, StartDestroy
<1>27. CASE LightsOutTimeOut
  BY <1>27 DEF LightsOutTimeOut, StartDestroy
<1>28. CASE DestroyThread
  BY <1>28 DEF DestroyThread
<1>29. CASE Free
  BY <1>29 DEF Free
<1>30. CASE UNCHANGED vars
  BY <1>30 DEF vars
<1> QED
  BY <1>1, <1>2, <1>3, <1>4, <1>5, <1>6, <1>7, <1>8, <1>9, <1>10, <1>11,
     <1>12, <1>13, <1>14, <1>15, <1>16, <1>17, <1>18, <1>19, <1>20, <1>21,
     <1>22, <1>23, <1>24, <1>25, <1>26, <1>27, <1>28, <1>29, <1>30, SlotFacts
     DEF Next, WorkerStep, OwnerStep, AddThread

-----------------------------------------------------------------------------
(* Counting workers *)

In(x, points) == IF x \in points THEN 1 ELSE 0

(* There are at most as many workers anywhere as there are slots.           *)
LEMMA CountFacts ==
  ASSUME NEW points
  PROVE  /\ IsFiniteSet(At(points))
         /\ CountAt(points) \in 0 .. MaximumThreadCount
         /\ CountAt(points) = 0 <=> At(points) = {}
<1>1. IsFiniteSet(Slot) /\ Cardinality(Slot) = MaximumThreadCount
  <2>1. 1 \in Int /\ MaximumThreadCount \in Int
    BY ThreadPoolAssumption
  <2> QED
    BY <2>1, FS_Interval, ThreadPoolAssumption DEF Slot
<1>2. At(points) \subseteq Slot
  BY DEF At
<1>3. IsFiniteSet(At(points)) /\ CountAt(points) <= MaximumThreadCount
  BY <1>1, <1>2, FS_Subset DEF CountAt
<1>4. CountAt(points) \in Nat
  BY <1>3, FS_CardinalityType DEF CountAt
<1>5. CountAt(points) = 0 <=> At(points) = {}
  BY <1>3, FS_EmptySet DEF CountAt
<1> QED
  BY <1>3, <1>4, <1>5, ThreadPoolAssumption

(* If all workers but one are at the same points as before, or as good as,  *)
(* the number of those at certain points changes with that one.             *)
LEMMA Moves ==
  ASSUME NEW s \in Slot, NEW points,
         \A t \in Slot : t # s => (pc'[t] \in points <=> pc[t] \in points)
  PROVE  CountAt(points)' =
           CountAt(points) + In(pc'[s], points) - In(pc[s], points)
<1>1. IsFiniteSet(At(points)) /\ CountAt(points) \in Nat
  BY CountFacts
<1>2. CASE pc[s] \in points <=> pc'[s] \in points
  <2>1. At(points)' = At(points)
    BY <1>2 DEF At
  <2> QED
    BY <1>1, <1>2, <2>1 DEF CountAt, In
<1>3. CASE pc[s] \notin points /\ pc'[s] \in points
  <2>1. At(points)' = At(points) \cup {s} /\ s \notin At(points)
    BY <1>3 DEF At
  <2>2. Cardinality(At(points) \cup {s}) = Cardinality(At(points)) + 1
    BY <1>1, <2>1, FS_AddElement
  <2> QED
    BY <1>1, <1>3, <2>1, <2>2 DEF CountAt, In
<1>4. CASE pc[s] \in points /\ pc'[s] \notin points
  <2>1. At(points)' = At(points) \ {s} /\ s \in At(points)
    BY <1>4 DEF At
  <2>2. Cardinality(At(points) \ {s}) = Cardinality(At(points)) - 1
    BY <1>1, <2>1, FS_RemoveElement
  <2> QED
    BY <1>1, <1>4, <2>1, <2>2 DEF CountAt, In
<1> QED
  BY <1>2, <1>3, <1>4

(* A worker that starts is one more, whoever made it. *)
LEMMA SpawnMoves ==
  ASSUME Places, ClaimsAreUnique, NEW p \in PoolThread, AddSpawn(p), NEW points,
         "addSpawn" \in points <=> "dequeue" \in points
  PROVE  CountAt(points)' = CountAt(points)
           + In("starting", points) - In(pc[slot[p]], points)
<1>1. /\ slot[p] \in Slot /\ pc[p] = "addSpawn" /\ pc[slot[p]] \in {"none", "ended"}
  BY DEF AddSpawn, Places, ClaimsAreUnique
<1>2. pc'[slot[p]] = "starting"
  BY <1>1, SlotFacts DEF AddSpawn, Places
<1>3. \A t \in Slot : t # slot[p] => pc'[t] = IF t = p THEN "dequeue" ELSE pc[t]
  BY <1>1, SlotFacts DEF AddSpawn, Places, Caller
<1>4. \A t \in Slot : t # slot[p] => (pc'[t] \in points <=> pc[t] \in points)
  BY <1>1, <1>3
<1> QED
  BY <1>1, <1>2, <1>4, Moves

(* Most steps change no number: the thread stays where it is, or among the  *)
(* points at which workers are counted and not about to end.                *)
Inside ==
  \A s \in Slot : \/ pc'[s] = pc[s]
                  \/ pc[s] \in ActivePoints /\ pc'[s] \in ActivePoints

(* A step of that kind keeps every number of threads the pool is about. *)
LEMMA InsideCounts ==
  ASSUME Inside
  PROVE  /\ At(CountedPoints)' = At(CountedPoints)
         /\ At(ActivePoints)' = At(ActivePoints)
         /\ At(AlivePoints)' = At(AlivePoints)
  BY DEF Inside, At, CountedPoints, ActivePoints, AlivePoints, AddPoints,
         WorkPoints

(* The steps of that kind. *)
LEMMA InsideSteps ==
  ASSUME Places,
         \/ Enqueue \/ CountTask \/ PostTask
         \/ \E p \in PoolThread :
              AddCheck(p) \/ AddScan(p) \/ AddFails(p) \/ AddJoin(p)
         \/ \E s \in Slot :
              \/ Start(s) \/ Loop(s) \/ TakeTicket(s) \/ HeartBeat(s)
              \/ LoadThreadCount(s) \/ LoadTaskCount(s)
              \/ Dequeue(s) \/ FinishTask(s)
         \/ Construct \/ StartShutdown \/ PostAll
         \/ PassLightsOut \/ LightsOutTimeOut \/ DestroyThread \/ Free
         \/ UNCHANGED vars
  PROVE  Inside /\ UNCHANGED <<ThreadCount, LightsOut, idled>>
<1> DEFINE Kept == Inside /\ UNCHANGED <<ThreadCount, LightsOut, idled>>
<1> USE SlotFacts
    DEF threads, shutdown, Inside, ActivePoints, AddPoints, WorkPoints, Places, Goto
<1>1. CASE Enqueue \/ CountTask \/ PostTask
  BY <1>1 DEF Enqueue, CountTask, PostTask
<1>2. ASSUME NEW p \in PoolThread,
             AddCheck(p) \/ AddScan(p) \/ AddFails(p) \/ AddJoin(p)
      PROVE  Kept
  <2>1. CASE AddCheck(p)
    BY <2>1 DEF AddCheck, AddReturns, Caller
  <2>2. CASE AddScan(p)
    BY <2>2 DEF AddScan
  <2>3. CASE AddFails(p) \/ AddJoin(p)
    BY <2>3 DEF AddFails, AddJoin, AddReturns, Caller
  <2> QED
    BY <1>2, <2>1, <2>2, <2>3
<1>3. ASSUME NEW s \in Slot, Start(s) \/ Loop(s) \/ TakeTicket(s) \/ HeartBeat(s)
      PROVE  Kept
  <2>1. CASE Start(s) \/ Loop(s)
    BY <2>1 DEF Start, Loop
  <2>2. CASE TakeTicket(s) \/ HeartBeat(s)
    BY <2>2 DEF TakeTicket, HeartBeat
  <2> QED
    BY <1>3, <2>1, <2>2
<1>4. ASSUME NEW s \in Slot, LoadThreadCount(s) \/ LoadTaskCount(s) PROVE Kept
  BY <1>4 DEF LoadThreadCount, LoadTaskCount
<1>5. ASSUME NEW s \in Slot, Dequeue(s) \/ FinishTask(s) PROVE Kept
  BY <1>5 DEF Dequeue, FinishTask
<1>6. CASE Construct \/ StartShutdown \/ PostAll
  BY <1>6 DEF Construct, StartShutdown, PostAll
<1>7. CASE PassLightsOut \/ LightsOutTimeOut
  BY <1>7 DEF PassLightsOut, LightsOutTimeOut, StartDestroy
<1>8. CASE DestroyThread \/ Free \/ UNCHANGED vars
  BY <1>8 DEF DestroyThread, Free, vars
<1> QED
  BY <1>1, <1>2, <1>3, <1>4, <1>5, <1>6, <1>7, <1>8

(* The steps of a worker on its way out. *)
LEMMA ExitSteps ==
  ASSUME Places, NEW s \in Slot,
         \/ Cancel(s) \/ IdleSubtract(s) \/ IdleAdd(s)
         \/ ExitStatus(s) \/ ExitCount(s) \/ ExitOpen(s)
  PROVE  /\ \A p \in PoolThread : p # s => pc'[p] = pc[p]
         /\ Cancel(s) => pc[s] = "cancel" /\ pc'[s] \in {"cancel", "exitStatus"}
         /\ IdleSubtract(s) =>
              pc[s] = "idleSub" /\ pc'[s] \in {"exitStatus", "idleAdd"}
         /\ IdleAdd(s) => pc[s] = "idleAdd" /\ pc'[s] = "grow"
         /\ ExitStatus(s) => pc[s] = "exitStatus" /\ pc'[s] = "exitCount"
         /\ ExitCount(s) => pc[s] = "exitCount" /\ pc'[s] \in {"exitOpen", "ended"}
         /\ ExitOpen(s) => pc[s] = "exitOpen" /\ pc'[s] = "ended"
<1> USE SlotFacts DEF Places, Goto
<1>1. CASE Cancel(s)
  BY <1>1 DEF Cancel, IdleSubtract, IdleAdd, ExitStatus, ExitCount, ExitOpen
<1>2. CASE IdleSubtract(s) \/ IdleAdd(s)
  BY <1>2 DEF Cancel, IdleSubtract, IdleAdd, ExitStatus, ExitCount, ExitOpen
<1>3. CASE ExitStatus(s) \/ ExitCount(s) \/ ExitOpen(s)
  BY <1>3 DEF Cancel, IdleSubtract, IdleAdd, ExitStatus, ExitCount, ExitOpen
<1> QED
  BY <1>1, <1>2, <1>3

(* A worker on its way out changes the number of those at any points by     *)
(* leaving some for others.                                                 *)
LEMMA ExitMoves ==
  ASSUME Places, NEW s \in Slot,
         \/ Cancel(s) \/ IdleSubtract(s) \/ IdleAdd(s)
         \/ ExitStatus(s) \/ ExitCount(s) \/ ExitOpen(s),
         NEW points
  PROVE  CountAt(points)' =
           CountAt(points) + In(pc'[s], points) - In(pc[s], points)
<1>1. \A t \in Slot : t # s => pc'[t] = pc[t]
  BY ExitSteps, SlotFacts
<1> QED
  BY <1>1, Moves

(* The count follows the workers: only an idle worker that ends is          *)
(* subtracted without leaving, and that only if the count is positive.      *)
LEMMA CountStep ==
  ASSUME Types, Places, ClaimsAreUnique, CountIsBounded, [Next]_vars
  PROVE  CountIsBounded'
<1> USE ThreadPoolAssumption
    DEF Types, CountIsBounded, In, CountedPoints, AddPoints, WorkPoints
<1>1. ASSUME Inside /\ UNCHANGED <<ThreadCount, LightsOut, idled>>
      PROVE  CountIsBounded'
  BY <1>1, InsideCounts DEF CountAt
<1>2. ASSUME NEW p \in PoolThread, AddSpawn(p) PROVE CountIsBounded'
  <2>1. CountAt(CountedPoints)' = CountAt(CountedPoints)
          + In("starting", CountedPoints) - In(pc[slot[p]], CountedPoints)
    BY <1>2, SpawnMoves
  <2>2. pc[slot[p]] \in {"none", "ended"} /\ ThreadCount' = ThreadCount + 1
    BY <1>2 DEF AddSpawn, ClaimsAreUnique
  <2>3. CountAt(CountedPoints) \in Nat
    BY CountFacts
  <2> QED
    BY <2>1, <2>2, <2>3
<1>3. ASSUME NEW s \in Slot,
             \/ Cancel(s) \/ IdleSubtract(s) \/ IdleAdd(s)
             \/ ExitStatus(s) \/ ExitCount(s) \/ ExitOpen(s)
      PROVE  CountIsBounded'
  <2> DEFINE now == CountAt(CountedPoints)
  <2>1. now' = now + In(pc'[s], CountedPoints) - In(pc[s], CountedPoints)
    BY <1>3, ExitMoves
  <2>2. now \in 0 .. MaximumThreadCount
    BY CountFacts
  <2> HIDE DEF now
  <2>3. CASE Cancel(s) \/ ExitStatus(s) \/ ExitOpen(s)
    <3>1. ThreadCount' = ThreadCount
      BY <2>3 DEF Cancel, ExitStatus, ExitOpen, threads
    <3> QED
      BY <2>1, <2>2, <2>3, <3>1, ExitSteps DEF now
  <2>4. CASE IdleSubtract(s)
    <3>1. ThreadCount' = ThreadCount - 1
      BY <2>4 DEF IdleSubtract
    <3>2. pc'[s] = "exitStatus" => ThreadCount > 0
      BY <2>4, SlotFacts DEF IdleSubtract, Goto, Places
    <3> QED
      BY <2>1, <2>2, <2>4, <3>1, <3>2, ExitSteps DEF now
  <2>5. CASE IdleAdd(s)
    <3>1. ThreadCount' = ThreadCount + 1
      BY <2>5 DEF IdleAdd
    <3> QED
      BY <2>1, <2>2, <2>5, <3>1, ExitSteps DEF now
  <2>6. CASE ExitCount(s)
    <3>1. ThreadCount' = ThreadCount - 1
      BY <2>6 DEF ExitCount
    <3> QED
      BY <2>1, <2>2, <2>6, <3>1, ExitSteps DEF now
  <2> QED
    BY <1>3, <2>3, <2>4, <2>5, <2>6
<1> QED
  BY <1>1, <1>2, <1>3, InsideSteps, SlotFacts
     DEF Next, WorkerStep, OwnerStep, AddThread

(* The owner does not take the shutdown back, and it serves after the last   *)
(* worker it has to make.                                                   *)
OwnerGoesOn ==
  /\ IsShuttingDown => IsShuttingDown'
  /\ pc'[Owner] = "serving" =>
       \/ pc[Owner] = "serving"
       \/ pc[Owner] = "constructing" /\ ~(Spawned < MinimumThreadCount)

(* Every step is one with which the owner goes on. *)
LEMMA OwnerSteps ==
  ASSUME Places, ClaimsAreUnique, [Next]_vars
  PROVE  OwnerGoesOn
<1> USE SlotFacts
    DEF OwnerGoesOn, Places, ClaimsAreUnique, Goto, Caller, shutdown, AddPoints
<1>1. CASE Enqueue
  BY <1>1 DEF Enqueue
<1>2. CASE CountTask
  BY <1>2 DEF CountTask
<1>3. CASE PostTask
  BY <1>3 DEF PostTask
<1>4. ASSUME NEW p \in PoolThread, AddCheck(p) PROVE OwnerGoesOn
  BY <1>4 DEF AddCheck, AddReturns
<1>5. ASSUME NEW p \in PoolThread, AddScan(p) PROVE OwnerGoesOn
  BY <1>5 DEF AddScan
<1>6. ASSUME NEW p \in PoolThread, AddFails(p) PROVE OwnerGoesOn
  BY <1>6 DEF AddFails, AddReturns
<1>7. ASSUME NEW p \in PoolThread, AddJoin(p) PROVE OwnerGoesOn
  BY <1>7 DEF AddJoin
<1>8. ASSUME NEW p \in PoolThread, AddSpawn(p) PROVE OwnerGoesOn
  BY <1>8 DEF AddSpawn
<1>9. ASSUME NEW s \in Slot, Start(s) PROVE OwnerGoesOn
  BY <1>9 DEF Start
<1>10. ASSUME NEW s \in Slot, Loop(s) PROVE OwnerGoesOn
  BY <1>10 DEF Loop
<1>11. ASSUME NEW s \in Slot, Cancel(s) PROVE OwnerGoesOn
  BY <1>11 DEF Cancel
<1>12. ASSUME NEW s \in Slot, TakeTicket(s) PROVE OwnerGoesOn
  BY <1>12 DEF TakeTicket
<1>13. ASSUME NEW s \in Slot, HeartBeat(s) PROVE OwnerGoesOn
  BY <1>13 DEF HeartBeat
<1>14. ASSUME NEW s \in Slot, IdleSubtract(s) PROVE OwnerGoesOn
  BY <1>14 DEF IdleSubtract
<1>15. ASSUME NEW s \in Slot, IdleAdd(s) PROVE OwnerGoesOn
  BY <1>15 DEF IdleAdd
<1>16. ASSUME NEW s \in Slot, LoadThreadCount(s) PROVE OwnerGoesOn
  BY <1>16 DEF LoadThreadCount
<1>17. ASSUME NEW s \in Slot, LoadTaskCount(s) PROVE OwnerGoesOn
  BY <1>17 DEF LoadTaskCount
<1>18. ASSUME NEW s \in Slot, Dequeue(s) PROVE OwnerGoesOn
  BY <1>18 DEF Dequeue
<1>19. ASSUME NEW s \in Slot, FinishTask(s) PROVE OwnerGoesOn
  BY <1>19 DEF FinishTask
<1>20. ASSUME NEW s \in Slot, ExitStatus(s) PROVE OwnerGoesOn
  BY <1>20 DEF ExitStatus
<1>21. ASSUME NEW s \in Slot, ExitCount(s) PROVE OwnerGoesOn
  BY <1>21 DEF ExitCount
<1>22. ASSUME NEW s \in Slot, ExitOpen(s) PROVE OwnerGoesOn
  BY <1>22 DEF ExitOpen
<1>23. CASE Construct
  BY <1>23 DEF Construct
<1>24. CASE StartShutdown
  BY <1>24 DEF StartShutdown
<1>25. CASE PostAll
  BY <1>25 DEF PostAll
<1>26. CASE PassLightsOut
  BY <1>26 DEF PassLightsOut, StartDestroy
<1>27. CASE LightsOutTimeOut
  BY <1>27 DEF LightsOutTimeOut, StartDestroy
<1>28. CASE DestroyThread
  BY <1>28 DEF DestroyThread
<1>29. CASE Free
  BY <1>29 DEF Free
<1>30. CASE UNCHANGED vars
  BY <1>30 DEF vars
<1> QED
  BY <1>1, <1>2, <1>3, <1>4, <1>5, <1>6, <1>7, <1>8, <1>9, <1>10, <1>11,
     <1>12, <1>13, <1>14, <1>15, <1>16, <1>17, <1>18, <1>19, <1>20, <1>21,
     <1>22, <1>23, <1>24, <1>25, <1>26, <1>27, <1>28, <1>29, <1>30, SlotFacts
     DEF Next, WorkerStep, OwnerStep, AddThread

(* The workers that stay are among those that have not decided to end.      *)
LEMMA ActiveAreAlive ==
  CountAt(ActivePoints) <= CountAt(AlivePoints)
<1>1. At(ActivePoints) \subseteq At(AlivePoints)
  BY DEF At, ActivePoints, AlivePoints
<1>2. IsFiniteSet(At(AlivePoints))
  BY CountFacts
<1> QED
  BY <1>1, <1>2, FS_Subset DEF CountAt

(* When the constructor has made its last worker, all of them are there.    *)
LEMMA ConstructedAreAlive ==
  ASSUME Types, Places, StatusTellsThread, ConstructionIsQuiet,
         pc[Owner] = "constructing", ~(Spawned < MinimumThreadCount)
  PROVE  CountAt(AlivePoints) >= MinimumThreadCount
<1> DEFINE made == {s \in Slot : ThreadStatus[s] # 0}
<1>1. made \subseteq At(AlivePoints)
  <2>1. \A p \in PoolThread : ~Claims(p)
    BY DEF Claims, ConstructionIsQuiet, Constructing, PoolThread
  <2>2. \A s \in Slot : pc[s] \in AlivePoints \/ pc[s] = "none"
    BY DEF ConstructionIsQuiet, Constructing, AlivePoints, AddPoints, WorkPoints
  <2>3. \A s \in Slot : pc[s] = "none" => ThreadStatus[s] = 0
    BY <2>1 DEF StatusTellsThread, Types, AddPoints, WorkPoints
  <2> QED
    BY <2>2, <2>3 DEF At
<1>2. IsFiniteSet(At(AlivePoints))
  BY CountFacts
<1>3. /\ Cardinality(made) <= CountAt(AlivePoints) /\ Cardinality(made) \in Nat
      /\ CountAt(AlivePoints) \in Nat
  BY <1>1, <1>2, FS_Subset, FS_CardinalityType DEF CountAt
<1> QED
  BY <1>3, ThreadPoolAssumption DEF Spawned

(* An idle worker goes only while more than the minimum are counted, and    *)
(* the count is never more than the workers that stay: the minimum stays.   *)
LEMMA MinimumStep ==
  ASSUME Types, Places, ClaimsAreUnique, StatusTellsThread, ShutdownIsKnown,
         ConstructionIsQuiet, MinimumIsKept, [Next]_vars
  PROVE  MinimumIsKept'
<1> DEFINE active == CountAt(ActivePoints)
           alive == CountAt(AlivePoints)
<1> SUFFICES ASSUME ~IsShuttingDown'
             PROVE  /\ ThreadCount' <= active'
                    /\ pc'[Owner] = "serving" => alive' >= MinimumThreadCount
  BY DEF MinimumIsKept
<1>1. /\ ~IsShuttingDown /\ ThreadCount <= active /\ ThreadCount \in Int
      /\ active \in Nat /\ alive \in Nat /\ active <= alive
      /\ MinimumThreadCount \in Nat
  BY OwnerSteps, CountFacts, ActiveAreAlive, ThreadPoolAssumption
     DEF OwnerGoesOn, MinimumIsKept, Types
<1>2. pc'[Owner] = "serving" => alive >= MinimumThreadCount
  BY <1>1, OwnerSteps, ConstructedAreAlive
     DEF OwnerGoesOn, MinimumIsKept
<1>3. CASE Inside /\ UNCHANGED <<ThreadCount, LightsOut, idled>>
  <2>1. active' = active /\ alive' = alive
    BY <1>3, InsideCounts DEF CountAt
  <2> QED
    BY <1>1, <1>2, <1>3, <2>1
<1>4. ASSUME NEW p \in PoolThread, AddSpawn(p)
      PROVE  ThreadCount' = ThreadCount + 1 /\ active' = active + 1 /\ alive' = alive + 1
  <2>1. pc[slot[p]] \in {"none", "ended"} /\ ThreadCount' = ThreadCount + 1
    BY <1>4 DEF AddSpawn, ClaimsAreUnique
  <2>2. active' = active + In("starting", ActivePoints) - In(pc[slot[p]], ActivePoints)
    BY <1>4, SpawnMoves DEF ActivePoints, AlivePoints, AddPoints, WorkPoints
  <2>3. alive' = alive + In("starting", AlivePoints) - In(pc[slot[p]], AlivePoints)
    BY <1>4, SpawnMoves DEF ActivePoints, AlivePoints, AddPoints, WorkPoints
  <2> QED
    BY <1>1, <2>1, <2>2, <2>3 DEF In, ActivePoints, AlivePoints, AddPoints, WorkPoints
<1>5. ASSUME NEW s \in Slot,
             \/ Cancel(s) \/ IdleSubtract(s) \/ IdleAdd(s)
             \/ ExitStatus(s) \/ ExitCount(s) \/ ExitOpen(s)
      PROVE  /\ ThreadCount' <= active'
             /\ alive' = alive \/ (alive' = alive - 1 /\ alive > MinimumThreadCount)
  <2>1. /\ active' = active + In(pc'[s], ActivePoints) - In(pc[s], ActivePoints)
        /\ alive' = alive + In(pc'[s], AlivePoints) - In(pc[s], AlivePoints)
    BY <1>5, ExitMoves
  <2> HIDE DEF active, alive
  <2>2. CASE IdleSubtract(s)
    <3>1. ThreadCount' = ThreadCount - 1
      BY <2>2 DEF IdleSubtract
    <3>2. pc'[s] = "exitStatus" => ThreadCount > MinimumThreadCount
      BY <2>2, SlotFacts DEF IdleSubtract, Goto, Places
    <3>3. /\ In(pc[s], ActivePoints) = 1 /\ In(pc'[s], ActivePoints) = 0
          /\ In(pc[s], AlivePoints) = 1
          /\ In(pc'[s], AlivePoints) = IF pc'[s] = "exitStatus" THEN 0 ELSE 1
      BY <2>2, ExitSteps DEF In, ActivePoints, AlivePoints, AddPoints, WorkPoints
    <3> QED
      BY <1>1, <2>1, <3>1, <3>2, <3>3 DEF active, alive
  <2>3. CASE IdleAdd(s)
    <3>1. ThreadCount' = ThreadCount + 1
      BY <2>3 DEF IdleAdd
    <3>2. /\ In(pc[s], ActivePoints) = 0 /\ In(pc'[s], ActivePoints) = 1
          /\ In(pc[s], AlivePoints) = 1 /\ In(pc'[s], AlivePoints) = 1
      BY <2>3, ExitSteps DEF In, ActivePoints, AlivePoints, AddPoints, WorkPoints
    <3> QED
      BY <1>1, <2>1, <3>1, <3>2 DEF active, alive
  <2>4. CASE ExitCount(s)
    <3>1. ThreadCount' = ThreadCount - 1
      BY <2>4 DEF ExitCount
    <3>2. /\ In(pc[s], ActivePoints) = 0 /\ In(pc'[s], ActivePoints) = 0
          /\ In(pc[s], AlivePoints) = 0 /\ In(pc'[s], AlivePoints) = 0
      BY <2>4, ExitSteps DEF In, ActivePoints, AlivePoints, AddPoints, WorkPoints
    <3> QED
      BY <1>1, <2>1, <3>1, <3>2 DEF active, alive
  <2>5. CASE ExitStatus(s) \/ ExitOpen(s)
    <3>1. ThreadCount' = ThreadCount
      BY <2>5 DEF ExitStatus, ExitOpen, threads
    <3>2. /\ In(pc[s], ActivePoints) = 0 /\ In(pc'[s], ActivePoints) = 0
          /\ In(pc[s], AlivePoints) = 0 /\ In(pc'[s], AlivePoints) = 0
      BY <2>5, ExitSteps DEF In, ActivePoints, AlivePoints, AddPoints, WorkPoints
    <3> QED
      BY <1>1, <2>1, <3>1, <3>2 DEF active, alive
  <2>6. ~Cancel(s)
    BY <1>1 DEF Cancel, ShutdownIsKnown
  <2> QED
    BY <1>5, <2>2, <2>3, <2>4, <2>5, <2>6
<1>6. ASSUME NEW p \in PoolThread, AddSpawn(p)
      PROVE  /\ ThreadCount' <= active'
             /\ pc'[Owner] = "serving" => alive' >= MinimumThreadCount
  BY <1>1, <1>2, <1>4, <1>6
<1>7. ASSUME NEW s \in Slot,
             \/ Cancel(s) \/ IdleSubtract(s) \/ IdleAdd(s)
             \/ ExitStatus(s) \/ ExitCount(s) \/ ExitOpen(s)
      PROVE  /\ ThreadCount' <= active'
             /\ pc'[Owner] = "serving" => alive' >= MinimumThreadCount
  BY <1>1, <1>2, <1>5, <1>7
<1> QED
  BY <1>3, <1>6, <1>7, InsideSteps, SlotFacts
     DEF Next, WorkerStep, OwnerStep, AddThread

(* As long as there is no task, no worker is about to add another one; and   *)
(* as long as no more workers are made than are needed, none of them ends.  *)
QuietWork ==
  Constructing =>
    /\ queued = 0 /\ counting = 0 /\ posting = 0 /\ TaskCount = 0
    /\ \A s \in Slot :
         pc[s] \in {"none", "starting", "loop", "waiting", "idleSub", "idleAdd",
                    "grow", "growTasks", "dequeue"}

(* While the constructor runs, the count is within the minimum. *)
LEMMA ConstructedAreCounted ==
  ASSUME Types, StatusTellsThread, CountIsBounded, ConstructionIsQuiet, Constructing
  PROVE  ThreadCount <= MinimumThreadCount
<1> DEFINE made == {s \in Slot : ThreadStatus[s] # 0}
<1>1. At(CountedPoints) \subseteq made
  BY DEF At, StatusTellsThread, CountedPoints, AddPoints, WorkPoints
<1>2. IsFiniteSet(made)
  <2>1. IsFiniteSet(Slot)
    BY ThreadPoolAssumption, FS_Interval DEF Slot
  <2> QED
    BY <2>1, FS_Subset
<1>3. CountAt(CountedPoints) <= Cardinality(made)
  BY <1>1, <1>2, FS_Subset DEF CountAt
<1>4. Cardinality(made) \in Nat /\ CountAt(CountedPoints) \in Nat
  BY <1>2, CountFacts, FS_CardinalityType
<1>5. Cardinality(made) <= MinimumThreadCount
  BY DEF ConstructionIsQuiet, Spawned
<1> QED
  BY <1>3, <1>4, <1>5, ThreadPoolAssumption DEF Types, CountIsBounded

(* The workers stay quiet until the constructor is done. *)
LEMMA QuietStep ==
  ASSUME Types, Places, ClaimsAreUnique, ShutdownIsKnown, QuietWork,
         Constructing => ThreadCount <= MinimumThreadCount, [Next]_vars
  PROVE  QuietWork'
<1> USE SlotFacts, ThreadPoolAssumption
    DEF QuietWork, Constructing, Places, ClaimsAreUnique, ShutdownIsKnown,
        Goto, Caller, tasks, AddPoints, OwnerPoints
<1>1. CASE Enqueue
  BY <1>1 DEF Enqueue
<1>2. CASE CountTask
  BY <1>2 DEF CountTask, Types
<1>3. CASE PostTask
  BY <1>3 DEF PostTask
<1>4. ASSUME NEW p \in PoolThread, AddCheck(p) PROVE QuietWork'
  BY <1>4 DEF AddCheck, AddReturns
<1>5. ASSUME NEW p \in PoolThread, AddScan(p) PROVE QuietWork'
  BY <1>5 DEF AddScan
<1>6. ASSUME NEW p \in PoolThread, AddFails(p) PROVE QuietWork'
  BY <1>6 DEF AddFails, AddReturns
<1>7. ASSUME NEW p \in PoolThread, AddJoin(p) PROVE QuietWork'
  BY <1>7 DEF AddJoin
<1>8. ASSUME NEW p \in PoolThread, AddSpawn(p) PROVE QuietWork'
  BY <1>8 DEF AddSpawn
<1>9. ASSUME NEW s \in Slot, Start(s) PROVE QuietWork'
  BY <1>9 DEF Start
<1>10. ASSUME NEW s \in Slot, Loop(s) PROVE QuietWork'
  BY <1>10 DEF Loop
<1>11. ASSUME NEW s \in Slot, Cancel(s) PROVE QuietWork'
  BY <1>11 DEF Cancel
<1>12. ASSUME NEW s \in Slot, TakeTicket(s) PROVE QuietWork'
  BY <1>12 DEF TakeTicket
<1>13. ASSUME NEW s \in Slot, HeartBeat(s) PROVE QuietWork'
  BY <1>13 DEF HeartBeat
<1>14. ASSUME NEW s \in Slot, IdleSubtract(s) PROVE QuietWork'
  BY <1>14 DEF IdleSubtract, Types
<1>15. ASSUME NEW s \in Slot, IdleAdd(s) PROVE QuietWork'
  BY <1>15 DEF IdleAdd
<1>16. ASSUME NEW s \in Slot, LoadThreadCount(s) PROVE QuietWork'
  BY <1>16 DEF LoadThreadCount
<1>17. ASSUME NEW s \in Slot, LoadTaskCount(s) PROVE QuietWork'
  BY <1>17, SizeFacts DEF LoadTaskCount, Types, AsSize
<1>18. ASSUME NEW s \in Slot, Dequeue(s) PROVE QuietWork'
  BY <1>18 DEF Dequeue
<1>19. ASSUME NEW s \in Slot, FinishTask(s) PROVE QuietWork'
  BY <1>19 DEF FinishTask
<1>20. ASSUME NEW s \in Slot, ExitStatus(s) PROVE QuietWork'
  BY <1>20 DEF ExitStatus
<1>21. ASSUME NEW s \in Slot, ExitCount(s) PROVE QuietWork'
  BY <1>21 DEF ExitCount
<1>22. ASSUME NEW s \in Slot, ExitOpen(s) PROVE QuietWork'
  BY <1>22 DEF ExitOpen
<1>23. CASE Construct
  BY <1>23 DEF Construct
<1>24. CASE StartShutdown
  BY <1>24 DEF StartShutdown
<1>25. CASE PostAll
  BY <1>25 DEF PostAll
<1>26. CASE PassLightsOut
  BY <1>26 DEF PassLightsOut, StartDestroy
<1>27. CASE LightsOutTimeOut
  BY <1>27 DEF LightsOutTimeOut, StartDestroy
<1>28. CASE DestroyThread
  BY <1>28 DEF DestroyThread
<1>29. CASE Free
  BY <1>29 DEF Free
<1>30. CASE UNCHANGED vars
  BY <1>30 DEF vars
<1> QED
  BY <1>1, <1>2, <1>3, <1>4, <1>5, <1>6, <1>7, <1>8, <1>9, <1>10, <1>11,
     <1>12, <1>13, <1>14, <1>15, <1>16, <1>17, <1>18, <1>19, <1>20, <1>21,
     <1>22, <1>23, <1>24, <1>25, <1>26, <1>27, <1>28, <1>29, <1>30, SlotFacts
     DEF Next, WorkerStep, OwnerStep, AddThread

(* The slots with a worker made, or about to be made. *)
Made == {s \in Slot : ThreadStatus[s] # 0}

(* The constructor scans while a worker is missing and claims one slot.     *)
ConstructorGoesOn ==
  Constructing' =>
    /\ Constructing
    /\ pc'[Owner] \in {"addCheck", "addScan"} =>
         pc[Owner] \in {"addCheck", "addScan"} \/ Spawned < MinimumThreadCount
    /\ \/ Made' = Made
       \/ /\ pc[Owner] \in {"addCheck", "addScan"}
          /\ pc'[Owner] \notin {"addCheck", "addScan"}
          /\ \E s \in Slot : s \notin Made /\ Made' = Made \cup {s}

(* Every step is one with which the constructor goes on. *)
LEMMA ConstructorSteps ==
  ASSUME Types, Places, ClaimsAreUnique, StatusTellsThread, QuietWork,
         [Next]_vars
  PROVE  ConstructorGoesOn
<1> USE SlotFacts
    DEF ConstructorGoesOn, QuietWork, Constructing, Places, ClaimsAreUnique,
        Goto, Caller, threads, AddPoints, OwnerPoints
<1>1. CASE Enqueue
  BY <1>1 DEF Enqueue, Made, Types
<1>2. CASE CountTask
  BY <1>2 DEF CountTask, Made, Types
<1>3. CASE PostTask
  BY <1>3 DEF PostTask, Made, Types
<1>4. ASSUME NEW p \in PoolThread, AddCheck(p) PROVE ConstructorGoesOn
  BY <1>4 DEF AddCheck, AddReturns, Made, Types
<1>5. ASSUME NEW p \in PoolThread, AddScan(p) PROVE ConstructorGoesOn
  <2>1. slot[p] \in Slot /\ pc[p] = "addScan"
    BY <1>5 DEF AddScan
  <2>2. CASE ThreadStatus[slot[p]] < 1 /\ UNCHANGED slot
    <3>1. /\ pc' = [pc EXCEPT ![p] = IF ThreadStatus[slot[p]] = -1
                                     THEN "addJoin" ELSE "addSpawn"]
          /\ ThreadStatus' = [ThreadStatus EXCEPT ![slot[p]] = 1]
      BY <1>5, <2>2 DEF AddScan, Types
    <3>2. Constructing' => p = Owner /\ Constructing
      <4>1. CASE p = Owner
        BY <2>1, <4>1
      <4>2. CASE p \in Slot
        BY <2>1, <3>1, <4>2
      <4> QED
        BY <4>1, <4>2 DEF PoolThread
    <3>3. Constructing => ThreadStatus[slot[p]] = 0
      BY <2>1, <2>2 DEF Types, StatusTellsThread
    <3>4. Constructing => slot[p] \notin Made /\ Made' = Made \cup {slot[p]}
      BY <2>1, <3>1, <3>3 DEF Types, Made
    <3> QED
      BY <2>1, <3>1, <3>2, <3>4
  <2>3. CASE UNCHANGED <<pc, ThreadStatus>>
    BY <2>1, <2>3 DEF Made
  <2> QED
    BY <1>5, <2>2, <2>3 DEF AddScan
<1>6. ASSUME NEW p \in PoolThread, AddFails(p) PROVE ConstructorGoesOn
  BY <1>6 DEF AddFails, AddReturns, Made, Types
<1>7. ASSUME NEW p \in PoolThread, AddJoin(p) PROVE ConstructorGoesOn
  BY <1>7 DEF AddJoin, Made, Types
<1>8. ASSUME NEW p \in PoolThread, AddSpawn(p) PROVE ConstructorGoesOn
  BY <1>8 DEF AddSpawn, Made, Types
<1>9. ASSUME NEW s \in Slot, Start(s) PROVE ConstructorGoesOn
  <2>1. ThreadStatus[s] # 0
    BY <1>9 DEF Start, StatusTellsThread
  <2>2. Made' = Made
    BY <1>9, <2>1 DEF Start, Types, Made
  <2> QED
    BY <1>9, <2>2 DEF Start
<1>10. ASSUME NEW s \in Slot, Loop(s) PROVE ConstructorGoesOn
  BY <1>10 DEF Loop, Made, Types
<1>11. ASSUME NEW s \in Slot, Cancel(s) PROVE ConstructorGoesOn
  BY <1>11 DEF Cancel, Made, Types
<1>12. ASSUME NEW s \in Slot, TakeTicket(s) PROVE ConstructorGoesOn
  BY <1>12 DEF TakeTicket, Made, Types
<1>13. ASSUME NEW s \in Slot, HeartBeat(s) PROVE ConstructorGoesOn
  BY <1>13 DEF HeartBeat, Made, Types
<1>14. ASSUME NEW s \in Slot, IdleSubtract(s) PROVE ConstructorGoesOn
  BY <1>14 DEF IdleSubtract, Made, Types
<1>15. ASSUME NEW s \in Slot, IdleAdd(s) PROVE ConstructorGoesOn
  BY <1>15 DEF IdleAdd, Made, Types
<1>16. ASSUME NEW s \in Slot, LoadThreadCount(s) PROVE ConstructorGoesOn
  BY <1>16 DEF LoadThreadCount, Made, Types
<1>17. ASSUME NEW s \in Slot, LoadTaskCount(s) PROVE ConstructorGoesOn
  BY <1>17 DEF LoadTaskCount, Made, Types
<1>18. ASSUME NEW s \in Slot, Dequeue(s) PROVE ConstructorGoesOn
  BY <1>18 DEF Dequeue, Made, Types
<1>19. ASSUME NEW s \in Slot, FinishTask(s) PROVE ConstructorGoesOn
  BY <1>19 DEF FinishTask, Made, Types
<1>20. ASSUME NEW s \in Slot, ExitStatus(s) PROVE ConstructorGoesOn
  BY <1>20 DEF ExitStatus, Made, Types
<1>21. ASSUME NEW s \in Slot, ExitCount(s) PROVE ConstructorGoesOn
  BY <1>21 DEF ExitCount, Made, Types
<1>22. ASSUME NEW s \in Slot, ExitOpen(s) PROVE ConstructorGoesOn
  BY <1>22 DEF ExitOpen, Made, Types
<1>23. CASE Construct
  BY <1>23 DEF Construct, Made, Types
<1>24. CASE StartShutdown
  BY <1>24 DEF StartShutdown, Made, Types
<1>25. CASE PostAll
  BY <1>25 DEF PostAll, Made, Types
<1>26. CASE PassLightsOut
  BY <1>26 DEF PassLightsOut, StartDestroy, Made, Types
<1>27. CASE LightsOutTimeOut
  BY <1>27 DEF LightsOutTimeOut, StartDestroy, Made, Types
<1>28. CASE DestroyThread
  BY <1>28 DEF DestroyThread, Made, Types
<1>29. CASE Free
  BY <1>29 DEF Free, Made, Types
<1>30. CASE UNCHANGED vars
  BY <1>30 DEF vars, Made, Types
<1> QED
  BY <1>1, <1>2, <1>3, <1>4, <1>5, <1>6, <1>7, <1>8, <1>9, <1>10, <1>11,
     <1>12, <1>13, <1>14, <1>15, <1>16, <1>17, <1>18, <1>19, <1>20, <1>21,
     <1>22, <1>23, <1>24, <1>25, <1>26, <1>27, <1>28, <1>29, <1>30, SlotFacts
     DEF Next, WorkerStep, OwnerStep, AddThread

(* The constructor makes the workers it has to make and disturbs none.      *)
LEMMA ConstructionStep ==
  ASSUME Types, Places, ClaimsAreUnique, StatusTellsThread, ShutdownIsKnown,
         CountIsBounded, ConstructionIsQuiet, [Next]_vars
  PROVE  ConstructionIsQuiet'
<1>1. QuietWork
  BY DEF QuietWork, ConstructionIsQuiet
<1>2. QuietWork' /\ ConstructorGoesOn
  BY <1>1, QuietStep, ConstructorSteps, ConstructedAreCounted
<1>3. /\ IsFiniteSet(Made) /\ Spawned = Cardinality(Made) /\ Spawned \in Nat
      /\ Spawned' = Cardinality(Made')
  <2>1. IsFiniteSet(Slot)
    BY ThreadPoolAssumption, FS_Interval DEF Slot
  <2>2. IsFiniteSet(Made)
    BY <2>1, FS_Subset DEF Made
  <2> QED
    BY <2>2, FS_CardinalityType DEF Made, Spawned
<1>4. ASSUME Constructing', Made' = Made
      PROVE  /\ Spawned' <= MinimumThreadCount
             /\ pc'[Owner] \in {"addCheck", "addScan"} => Spawned' < MinimumThreadCount
  BY <1>2, <1>3, <1>4 DEF ConstructorGoesOn, ConstructionIsQuiet
<1>5. ASSUME Constructing', NEW s \in Slot, s \notin Made, Made' = Made \cup {s},
             pc[Owner] \in {"addCheck", "addScan"},
             pc'[Owner] \notin {"addCheck", "addScan"}
      PROVE  /\ Spawned' <= MinimumThreadCount
             /\ pc'[Owner] \in {"addCheck", "addScan"} => Spawned' < MinimumThreadCount
  <2>1. Spawned' = Spawned + 1
    BY <1>3, <1>5, FS_AddElement
  <2>2. Spawned < MinimumThreadCount
    BY <1>2, <1>5 DEF ConstructorGoesOn, ConstructionIsQuiet
  <2> QED
    BY <1>3, <1>5, <2>1, <2>2, ThreadPoolAssumption
<1>6. Constructing' =>
        /\ Spawned' <= MinimumThreadCount
        /\ pc'[Owner] \in {"addCheck", "addScan"} => Spawned' < MinimumThreadCount
  BY <1>2, <1>4, <1>5 DEF ConstructorGoesOn
<1> QED
  BY <1>2, <1>6 DEF ConstructionIsQuiet, QuietWork

(* How a step changes the tasks that are queued against the tickets and the *)
(* submitters that are on their way to make one: a step that leaves less    *)
(* brings a worker under way, one of a worker that is not any more brings   *)
(* more or leaves no task.                                                  *)
Announced == tickets + counting + posting

UnderwayKept(t) == pc'[t] \in UnderwayPoints <=> pc[t] \in UnderwayPoints

UnderwayGoesOn ==
  \/ /\ \A t \in Slot : UnderwayKept(t)
     /\ queued' + Announced <= queued + Announced'
  \/ \E s \in Slot :
       /\ \A t \in Slot : t # s => UnderwayKept(t)
       /\ pc[s] \notin UnderwayPoints /\ pc'[s] \in UnderwayPoints
       /\ queued' + Announced <= queued + Announced' + 1
  \/ \E s \in Slot :
       /\ \A t \in Slot : t # s => UnderwayKept(t)
       /\ pc[s] \in UnderwayPoints /\ pc'[s] \notin UnderwayPoints
       /\ queued' + Announced + 1 <= queued + Announced' \/ queued' = 0

(* Every step is one of these. *)
LEMMA UnderwaySteps ==
  ASSUME Types, Places, ClaimsAreUnique, [Next]_vars
  PROVE  UnderwayGoesOn
<1> USE SlotFacts
    DEF UnderwayGoesOn, UnderwayKept, Announced, UnderwayPoints, AddPoints,
        Types, Places, Goto, Caller, tasks, semaphore
<1>1. CASE Enqueue
  BY <1>1 DEF Enqueue
<1>2. CASE CountTask
  BY <1>2 DEF CountTask
<1>3. CASE PostTask
  BY <1>3, SemaphoreFacts DEF PostTask
<1>4. ASSUME NEW p \in PoolThread, AddCheck(p) PROVE UnderwayGoesOn
  BY <1>4 DEF AddCheck, AddReturns
<1>5. ASSUME NEW p \in PoolThread, AddScan(p) PROVE UnderwayGoesOn
  BY <1>5 DEF AddScan
<1>6. ASSUME NEW p \in PoolThread, AddFails(p) PROVE UnderwayGoesOn
  BY <1>6 DEF AddFails, AddReturns
<1>7. ASSUME NEW p \in PoolThread, AddJoin(p) PROVE UnderwayGoesOn
  BY <1>7 DEF AddJoin
<1>8. ASSUME NEW p \in PoolThread, AddSpawn(p) PROVE UnderwayGoesOn
  BY <1>8 DEF AddSpawn, ClaimsAreUnique
<1>9. ASSUME NEW s \in Slot, Start(s) PROVE UnderwayGoesOn
  BY <1>9 DEF Start
<1>10. ASSUME NEW s \in Slot, Loop(s) PROVE UnderwayGoesOn
  BY <1>10 DEF Loop
<1>11. ASSUME NEW s \in Slot, Cancel(s) PROVE UnderwayGoesOn
  BY <1>11 DEF Cancel
<1>12. ASSUME NEW s \in Slot, TakeTicket(s) PROVE UnderwayGoesOn
  BY <1>12, SemaphoreFacts DEF TakeTicket
<1>13. ASSUME NEW s \in Slot, HeartBeat(s) PROVE UnderwayGoesOn
  BY <1>13, SemaphoreFacts DEF HeartBeat
<1>14. ASSUME NEW s \in Slot, IdleSubtract(s) PROVE UnderwayGoesOn
  BY <1>14 DEF IdleSubtract
<1>15. ASSUME NEW s \in Slot, IdleAdd(s) PROVE UnderwayGoesOn
  BY <1>15 DEF IdleAdd
<1>16. ASSUME NEW s \in Slot, LoadThreadCount(s) PROVE UnderwayGoesOn
  BY <1>16 DEF LoadThreadCount
<1>17. ASSUME NEW s \in Slot, LoadTaskCount(s) PROVE UnderwayGoesOn
  BY <1>17 DEF LoadTaskCount
<1>18. ASSUME NEW s \in Slot, Dequeue(s) PROVE UnderwayGoesOn
  BY <1>18 DEF Dequeue
<1>19. ASSUME NEW s \in Slot, FinishTask(s) PROVE UnderwayGoesOn
  BY <1>19 DEF FinishTask
<1>20. ASSUME NEW s \in Slot, ExitStatus(s) PROVE UnderwayGoesOn
  BY <1>20 DEF ExitStatus
<1>21. ASSUME NEW s \in Slot, ExitCount(s) PROVE UnderwayGoesOn
  BY <1>21 DEF ExitCount
<1>22. ASSUME NEW s \in Slot, ExitOpen(s) PROVE UnderwayGoesOn
  BY <1>22 DEF ExitOpen
<1>23. CASE Construct
  BY <1>23 DEF Construct
<1>24. CASE StartShutdown
  BY <1>24 DEF StartShutdown
<1>25. CASE PostAll
  BY <1>25, SemaphoreFacts, ThreadPoolAssumption DEF PostAll
<1>26. CASE PassLightsOut
  BY <1>26 DEF PassLightsOut, StartDestroy
<1>27. CASE LightsOutTimeOut
  BY <1>27 DEF LightsOutTimeOut, StartDestroy
<1>28. CASE DestroyThread
  BY <1>28 DEF DestroyThread
<1>29. CASE Free
  BY <1>29 DEF Free
<1>30. CASE UNCHANGED vars
  BY <1>30 DEF vars
<1> QED
  BY <1>1, <1>2, <1>3, <1>4, <1>5, <1>6, <1>7, <1>8, <1>9, <1>10, <1>11,
     <1>12, <1>13, <1>14, <1>15, <1>16, <1>17, <1>18, <1>19, <1>20, <1>21,
     <1>22, <1>23, <1>24, <1>25, <1>26, <1>27, <1>28, <1>29, <1>30, SlotFacts
     DEF Next, WorkerStep, OwnerStep, AddThread

(* Tickets and workers under way cover the queue, whatever happens. *)
LEMMA StrandStep ==
  ASSUME Types, Places, ClaimsAreUnique, NoTaskStranded, [Next]_vars
  PROVE  NoTaskStranded'
<1> DEFINE under == CountAt(UnderwayPoints)
<1>1. /\ under = Cardinality(Underway) /\ under' = Cardinality(Underway)'
  BY DEF Underway, CountAt, At, UnderwayPoints
<1>2. under \in Nat
  BY CountFacts
<1>3. under' \in Nat
  <2>1. under' = Cardinality(At(UnderwayPoints)')
    BY DEF CountAt
  <2>2. IsFiniteSet(At(UnderwayPoints)')
    <3>1. IsFiniteSet(Slot)
      BY ThreadPoolAssumption, FS_Interval DEF Slot
    <3> QED
      BY <3>1, FS_Subset DEF At
  <2> QED
    BY <2>1, <2>2, FS_CardinalityType
<1>4. Types'
  BY TypeStep
<1>5. queued \in Nat /\ Announced \in Nat /\ queued <= Announced + under
  BY <1>1, <1>2 DEF NoTaskStranded, Announced, Types
<1>6. queued' \in Nat /\ tickets' \in Nat /\ counting' \in Nat /\ posting' \in Nat
  BY <1>4 DEF Types
<1>7. queued' <= Announced' + under' => NoTaskStranded'
  BY <1>1, <1>3, <1>6 DEF NoTaskStranded, Announced
<1>8. ASSUME \A t \in Slot : UnderwayKept(t),
             queued' + Announced <= queued + Announced'
      PROVE  NoTaskStranded'
  <2>1. under' = under
    <3>1. At(UnderwayPoints)' = At(UnderwayPoints)
      BY <1>8 DEF At, UnderwayKept
    <3> QED
      BY <3>1 DEF CountAt
  <2> QED
    BY <1>2, <1>3, <1>5, <1>6, <1>7, <1>8, <2>1 DEF Announced
<1>9. ASSUME NEW s \in Slot, \A t \in Slot : t # s => UnderwayKept(t),
             pc[s] \notin UnderwayPoints, pc'[s] \in UnderwayPoints,
             queued' + Announced <= queued + Announced' + 1
      PROVE  NoTaskStranded'
  <2>1. under' = under + 1
    BY <1>2, <1>9, Moves DEF UnderwayKept, In
  <2> QED
    BY <1>2, <1>3, <1>5, <1>6, <1>7, <1>9, <2>1 DEF Announced
<1>10. ASSUME NEW s \in Slot, \A t \in Slot : t # s => UnderwayKept(t),
             pc[s] \in UnderwayPoints, pc'[s] \notin UnderwayPoints,
             queued' + Announced + 1 <= queued + Announced' \/ queued' = 0
      PROVE  NoTaskStranded'
  <2>1. under' = under - 1
    BY <1>2, <1>10, Moves DEF UnderwayKept, In
  <2> QED
    BY <1>2, <1>3, <1>5, <1>6, <1>7, <1>10, <2>1 DEF Announced
<1> QED
  BY <1>8, <1>9, <1>10, UnderwaySteps DEF UnderwayGoesOn

(* The count is zero when nobody is counted. *)
LEMMA CountedFacts ==
  /\ CountAt(CountedPoints) \in Nat
  /\ CountAt(CountedPoints) = 0 <=> \A s \in Slot : pc[s] \notin CountedPoints
<1>1. /\ CountAt(CountedPoints) \in Nat
      /\ CountAt(CountedPoints) = 0 <=> At(CountedPoints) = {}
  BY CountFacts
<1>2. At(CountedPoints) = {} <=> \A s \in Slot : pc[s] \notin CountedPoints
  BY DEF At
<1> QED
  BY <1>1, <1>2

(* The steps inside, seen from the gate. *)
LEMMA InsideGate ==
  ASSUME Types, Places, ShutdownIsKnown, MinimumIsKept, LastOneOpensGate, ~idled,
         Inside, UNCHANGED <<ThreadCount, LightsOut, idled>>,
         OwnerGoesOn, pc[Owner] = "serving" \/ queued' <= queued,
         IsShuttingDown' => IsShuttingDown \/ pc[Owner] = "serving",
         pc'[Owner] \in {"destroy", "gone"} =>
           \/ pc[Owner] \in {"destroy", "gone"}
           \/ pc[Owner] = "lightsOut" /\ (LightsOut \/ NobodyLeft),
         queued' \in Nat
  PROVE  LastOneOpensGate'
<1> USE DEF ActivePoints, CountedPoints, AddPoints, WorkPoints, ExitPoints
<1>1. /\ ThreadCount' = CountAt(CountedPoints)'
      /\ \A s \in Slot : pc'[s] # "idleAdd"
  BY InsideCounts DEF CountAt, LastOneOpensGate, Inside
<1>2. (Leaving' <=> Leaving) /\ (Opening' <=> Opening)
  BY DEF Leaving, Opening, Inside
<1>3. Leaving' => IsShuttingDown' /\ queued' = 0
  BY <1>2 DEF LastOneOpensGate, OwnerGoesOn, ShutdownIsKnown, Types
<1>4. /\ Opening' \/ LightsOut' => ThreadCount' = 0
      /\ LightsOut' => ~Opening' /\ \E s \in Slot : pc'[s] = "ended"
      /\ \A s, t \in Slot : pc'[s] = "exitOpen" /\ pc'[t] = "exitOpen" => s = t
  BY <1>2 DEF LastOneOpensGate, Inside
<1>5. pc[Owner] = "serving" /\ MinimumThreadCount > 0 => ThreadCount > 0
  <2> SUFFICES ASSUME pc[Owner] = "serving", MinimumThreadCount > 0, ThreadCount = 0
               PROVE  FALSE
    BY CountedFacts DEF LastOneOpensGate
  <2>1. At(AlivePoints) = {}
    BY CountedFacts DEF LastOneOpensGate, At, AlivePoints
  <2>2. CountAt(AlivePoints) = 0
    BY <2>1, CountFacts
  <2> QED
    BY <2>2, ThreadPoolAssumption DEF MinimumIsKept, ShutdownIsKnown
<1>6. IsShuttingDown' /\ MinimumThreadCount > 0 =>
        ThreadCount' > 0 \/ Opening' \/ LightsOut'
  BY <1>2, <1>5 DEF LastOneOpensGate
<1>7. LightsOut => NobodyLeft
  <2>1. LightsOut => \A s \in Slot : pc[s] \notin CountedPoints \cup {"idleAdd", "exitOpen"}
    BY CountedFacts DEF LastOneOpensGate, Opening
  <2> QED
    BY <2>1 DEF NobodyLeft, Places, WorkerPoints
<1>8. NobodyLeft => MinimumThreadCount = 0 \/ LightsOut \/ ~IsShuttingDown
  <2>1. NobodyLeft => CountAt(CountedPoints) = 0 /\ ~Opening
    BY CountedFacts DEF NobodyLeft, Opening
  <2> QED
    BY <2>1, ThreadPoolAssumption DEF LastOneOpensGate
<1>9. NobodyLeft => NobodyLeft'
  BY DEF NobodyLeft, Inside
<1>10. pc'[Owner] \in {"destroy", "gone"} =>
         NobodyLeft' /\ (LightsOut' \/ MinimumThreadCount = 0)
  BY <1>7, <1>8, <1>9 DEF LastOneOpensGate, ShutdownIsKnown
<1> QED
  BY <1>1, <1>3, <1>4, <1>6, <1>10 DEF LastOneOpensGate

(* What the owner and the submitters do to the queue and the shutdown.      *)
OwnerEnds ==
  /\ pc[Owner] = "serving" \/ queued' <= queued
  /\ IsShuttingDown' => IsShuttingDown \/ pc[Owner] = "serving"
  /\ pc'[Owner] \in {"destroy", "gone"} =>
       \/ pc[Owner] \in {"destroy", "gone"}
       \/ pc[Owner] = "lightsOut" /\ (LightsOut \/ NobodyLeft)

(* Tasks come while the owner serves, and the destructor passes its gate.   *)
LEMMA OwnerEndSteps ==
  ASSUME Types, Places, ClaimsAreUnique, [Next]_vars
  PROVE  OwnerEnds
<1> USE SlotFacts
    DEF OwnerEnds, Types, Places, ClaimsAreUnique, Goto, Caller, tasks,
        shutdown, AddPoints, OwnerPoints
<1>1. CASE Enqueue
  BY <1>1 DEF Enqueue
<1>2. CASE CountTask
  BY <1>2 DEF CountTask
<1>3. CASE PostTask
  BY <1>3 DEF PostTask
<1>4. ASSUME NEW p \in PoolThread, AddCheck(p) PROVE OwnerEnds
  BY <1>4 DEF AddCheck, AddReturns
<1>5. ASSUME NEW p \in PoolThread, AddScan(p) PROVE OwnerEnds
  BY <1>5 DEF AddScan
<1>6. ASSUME NEW p \in PoolThread, AddFails(p) PROVE OwnerEnds
  BY <1>6 DEF AddFails, AddReturns
<1>7. ASSUME NEW p \in PoolThread, AddJoin(p) PROVE OwnerEnds
  BY <1>7 DEF AddJoin
<1>8. ASSUME NEW p \in PoolThread, AddSpawn(p) PROVE OwnerEnds
  BY <1>8 DEF AddSpawn
<1>9. ASSUME NEW s \in Slot, Start(s) PROVE OwnerEnds
  BY <1>9 DEF Start
<1>10. ASSUME NEW s \in Slot, Loop(s) PROVE OwnerEnds
  BY <1>10 DEF Loop
<1>11. ASSUME NEW s \in Slot, Cancel(s) PROVE OwnerEnds
  BY <1>11 DEF Cancel
<1>12. ASSUME NEW s \in Slot, TakeTicket(s) PROVE OwnerEnds
  BY <1>12 DEF TakeTicket
<1>13. ASSUME NEW s \in Slot, HeartBeat(s) PROVE OwnerEnds
  BY <1>13 DEF HeartBeat
<1>14. ASSUME NEW s \in Slot, IdleSubtract(s) PROVE OwnerEnds
  BY <1>14 DEF IdleSubtract
<1>15. ASSUME NEW s \in Slot, IdleAdd(s) PROVE OwnerEnds
  BY <1>15 DEF IdleAdd
<1>16. ASSUME NEW s \in Slot, LoadThreadCount(s) PROVE OwnerEnds
  BY <1>16 DEF LoadThreadCount
<1>17. ASSUME NEW s \in Slot, LoadTaskCount(s) PROVE OwnerEnds
  BY <1>17 DEF LoadTaskCount
<1>18. ASSUME NEW s \in Slot, Dequeue(s) PROVE OwnerEnds
  BY <1>18 DEF Dequeue
<1>19. ASSUME NEW s \in Slot, FinishTask(s) PROVE OwnerEnds
  BY <1>19 DEF FinishTask
<1>20. ASSUME NEW s \in Slot, ExitStatus(s) PROVE OwnerEnds
  BY <1>20 DEF ExitStatus
<1>21. ASSUME NEW s \in Slot, ExitCount(s) PROVE OwnerEnds
  BY <1>21 DEF ExitCount
<1>22. ASSUME NEW s \in Slot, ExitOpen(s) PROVE OwnerEnds
  BY <1>22 DEF ExitOpen
<1>23. CASE Construct
  BY <1>23 DEF Construct
<1>24. CASE StartShutdown
  BY <1>24 DEF StartShutdown
<1>25. CASE PostAll
  BY <1>25 DEF PostAll
<1>26. CASE PassLightsOut
  BY <1>26 DEF PassLightsOut, StartDestroy
<1>27. CASE LightsOutTimeOut
  BY <1>27 DEF LightsOutTimeOut, StartDestroy
<1>28. CASE DestroyThread
  BY <1>28 DEF DestroyThread
<1>29. CASE Free
  BY <1>29 DEF Free
<1>30. CASE UNCHANGED vars
  BY <1>30 DEF vars
<1> QED
  BY <1>1, <1>2, <1>3, <1>4, <1>5, <1>6, <1>7, <1>8, <1>9, <1>10, <1>11,
     <1>12, <1>13, <1>14, <1>15, <1>16, <1>17, <1>18, <1>19, <1>20, <1>21,
     <1>22, <1>23, <1>24, <1>25, <1>26, <1>27, <1>28, <1>29, <1>30, SlotFacts
     DEF Next, WorkerStep, OwnerStep, AddThread

(* A worker is started: the gate is still closed, and nobody is about to    *)
(* open it.                                                                 *)
LEMMA SpawnGate ==
  ASSUME Types, Places, ClaimsAreUnique, ShutdownIsKnown, LastOneOpensGate, ~idled,
         NEW p \in PoolThread, AddSpawn(p)
  PROVE  LastOneOpensGate'
<1> USE DEF CountedPoints, AddPoints, WorkPoints, ExitPoints
<1> DEFINE now == CountAt(CountedPoints)
<1>1. /\ pc[p] = "addSpawn" /\ slot[p] \in Slot /\ pc[slot[p]] \in {"none", "ended"}
      /\ ThreadCount' = ThreadCount + 1
      /\ UNCHANGED <<queued, IsShuttingDown, LightsOut, idled>>
  BY DEF AddSpawn, Places, ClaimsAreUnique, tasks, shutdown
<1>2. /\ pc'[slot[p]] = "starting"
      /\ \A t \in Slot : t # slot[p] => pc'[t] = IF t = p THEN "dequeue" ELSE pc[t]
      /\ pc'[Owner] = IF p = Owner THEN "constructing" ELSE pc[Owner]
  BY <1>1, SlotFacts DEF AddSpawn, Places, Caller
<1>3. ThreadCount' = CountAt(CountedPoints)'
  <2>1. CountAt(CountedPoints)' = now + In("starting", CountedPoints)
                                      - In(pc[slot[p]], CountedPoints)
    BY SpawnMoves
  <2>2. In("starting", CountedPoints) = 1 /\ In(pc[slot[p]], CountedPoints) = 0
    BY <1>1 DEF In
  <2> QED
    BY <1>1, <2>1, <2>2, CountedFacts DEF LastOneOpensGate
<1>4. ThreadCount > 0 \/ ~IsShuttingDown
  <2>1. CASE p = Owner
    BY <1>1, <2>1 DEF ShutdownIsKnown
  <2>2. CASE p \in Slot
    BY <1>1, <2>2, CountedFacts DEF LastOneOpensGate
  <2> QED
    BY <2>1, <2>2 DEF PoolThread
<1>5. ~Opening /\ ~LightsOut
  BY <1>4 DEF LastOneOpensGate, Opening, Leaving, Types
<1>6. ~Opening' /\ ~LightsOut' /\ \A s \in Slot : pc'[s] \notin {"exitOpen", "idleAdd"}
  BY <1>1, <1>2, <1>5 DEF LastOneOpensGate, Opening
<1>7. Leaving' => IsShuttingDown' /\ queued' = 0
  BY <1>1, <1>2 DEF LastOneOpensGate, Leaving
<1>8. pc'[Owner] \notin {"destroy", "gone"}
  <2>1. CASE p = Owner
    BY <1>2, <2>1
  <2>2. CASE p \in Slot
    BY <1>1, <1>2, <2>2, SlotFacts DEF LastOneOpensGate, NobodyLeft
  <2> QED
    BY <2>1, <2>2 DEF PoolThread
<1>9. IsShuttingDown' => ThreadCount' > 0
  BY <1>1, <1>4 DEF Types
<1> QED
  BY <1>3, <1>6, <1>7, <1>8, <1>9 DEF LastOneOpensGate, Opening

(* A worker cancels tasks, or marks its slot, on its way out. *)
LEMMA CancelGate ==
  ASSUME Types, Places, ShutdownIsKnown, LastOneOpensGate, ~idled,
         NEW s \in Slot, Cancel(s) \/ ExitStatus(s)
  PROVE  LastOneOpensGate'
<1> USE DEF CountedPoints, AddPoints, WorkPoints, ExitPoints
<1>1. /\ \A p \in PoolThread : p # s => pc'[p] = pc[p]
      /\ pc[s] \in {"cancel", "exitStatus"} 
      /\ pc[s] = "cancel" => pc'[s] \in {"cancel", "exitStatus"}
      /\ pc[s] = "exitStatus" => pc'[s] = "exitCount"
  BY ExitSteps
<1>2. /\ UNCHANGED <<ThreadCount, IsShuttingDown, LightsOut, idled>>
      /\ queued' = 0 \/ (pc'[s] = "cancel" /\ queued > 0) \/ queued' = queued
      /\ pc'[s] = "exitStatus" => queued' = 0
      /\ pc[s] = "exitStatus" => queued' = queued
  BY <1>1 DEF Cancel, ExitStatus, threads, shutdown, tasks, Types
<1>3. IsShuttingDown
  BY <1>1 DEF LastOneOpensGate, Leaving, ShutdownIsKnown
<1>4. ThreadCount' = CountAt(CountedPoints)'
  <2>1. CountAt(CountedPoints)' = CountAt(CountedPoints) + In(pc'[s], CountedPoints)
                                    - In(pc[s], CountedPoints)
    BY ExitMoves
  <2>2. In(pc'[s], CountedPoints) = 1 /\ In(pc[s], CountedPoints) = 1
    BY <1>1 DEF In
  <2> QED
    BY <1>2, <2>1, <2>2, CountedFacts DEF LastOneOpensGate
<1>5. \A t \in Slot : /\ pc'[t] = "exitOpen" <=> pc[t] = "exitOpen"
                      /\ pc'[t] = "ended" <=> pc[t] = "ended"
                      /\ pc'[t] = "idleAdd" <=> pc[t] = "idleAdd"
  BY <1>1, SlotFacts
<1>6. Opening' <=> Opening
  BY <1>5 DEF Opening
<1>7. Leaving' => queued' = 0
  <2>1. CASE pc'[s] = "cancel"
    BY <1>1, <1>2, <2>1, SlotFacts DEF LastOneOpensGate, Leaving, Types
  <2>2. CASE pc'[s] # "cancel"
    BY <1>1, <1>2, <2>2 DEF LastOneOpensGate, Leaving
  <2> QED
    BY <2>1, <2>2
<1>8. pc'[Owner] \notin {"destroy", "gone"}
  BY <1>1, SlotFacts DEF LastOneOpensGate, NobodyLeft
<1> QED
  BY <1>2, <1>3, <1>4, <1>5, <1>6, <1>7, <1>8 DEF LastOneOpensGate

(* A worker is uncounted: if it was the last one, it goes to open the gate. *)
LEMMA CountGate ==
  ASSUME Types, Places, ShutdownIsKnown, LastOneOpensGate, ~idled,
         NEW s \in Slot, ExitCount(s)
  PROVE  LastOneOpensGate'
<1> USE DEF CountedPoints, AddPoints, WorkPoints, ExitPoints
<1>1. /\ \A p \in PoolThread : p # s => pc'[p] = pc[p]
      /\ pc[s] = "exitCount"
      /\ pc'[s] = IF ThreadCount = 1 THEN "exitOpen" ELSE "ended"
  BY ExitSteps, SlotFacts DEF ExitCount, Goto, Places
<1>2. /\ UNCHANGED <<queued, IsShuttingDown, LightsOut, idled>>
      /\ ThreadCount' = ThreadCount - 1
  BY DEF ExitCount, shutdown, tasks
<1>3. IsShuttingDown /\ queued = 0
  BY <1>1 DEF LastOneOpensGate, Leaving
<1>4. ThreadCount' = CountAt(CountedPoints)'
  <2>1. CountAt(CountedPoints)' = CountAt(CountedPoints) + In(pc'[s], CountedPoints)
                                    - In(pc[s], CountedPoints)
    BY ExitMoves
  <2>2. In(pc'[s], CountedPoints) = 0 /\ In(pc[s], CountedPoints) = 1
    BY <1>1 DEF In
  <2> QED
    BY <1>2, <2>1, <2>2, CountedFacts DEF LastOneOpensGate
<1>5. ThreadCount > 0
  BY <1>1, CountedFacts DEF LastOneOpensGate
<1>6. ~LightsOut /\ \A t \in Slot : pc[t] # "exitOpen"
  BY <1>5 DEF LastOneOpensGate, Opening, Types
<1>7. \A t \in Slot : /\ pc'[t] = "exitOpen" => t = s /\ ThreadCount = 1
                      /\ pc'[t] # "idleAdd"
  BY <1>1, <1>6, SlotFacts DEF LastOneOpensGate
<1>8. Opening' <=> ThreadCount = 1
  BY <1>1, <1>7 DEF Opening
<1>9. pc'[Owner] \notin {"destroy", "gone"}
  BY <1>1, SlotFacts DEF LastOneOpensGate, NobodyLeft
<1>10. /\ Opening' => ThreadCount' = 0
       /\ ThreadCount' > 0 \/ Opening'
  BY <1>2, <1>5, <1>8 DEF Types
<1> QED
  BY <1>2, <1>3, <1>4, <1>6, <1>7, <1>9, <1>10 DEF LastOneOpensGate

(* The last worker opens the gate and ends. *)
LEMMA OpenGate ==
  ASSUME Types, Places, ShutdownIsKnown, LastOneOpensGate, ~idled,
         NEW s \in Slot, ExitOpen(s)
  PROVE  LastOneOpensGate'
<1> USE DEF CountedPoints, AddPoints, WorkPoints, ExitPoints
<1>1. /\ \A p \in PoolThread : p # s => pc'[p] = pc[p]
      /\ pc[s] = "exitOpen" /\ pc'[s] = "ended"
  BY ExitSteps
<1>2. UNCHANGED <<ThreadCount, queued, IsShuttingDown, idled>> /\ LightsOut'
  BY DEF ExitOpen, threads, tasks
<1>3. IsShuttingDown /\ queued = 0 /\ ThreadCount = 0
  BY <1>1 DEF LastOneOpensGate, Leaving, Opening
<1>4. ThreadCount' = CountAt(CountedPoints)'
  <2>1. CountAt(CountedPoints)' = CountAt(CountedPoints) + In(pc'[s], CountedPoints)
                                    - In(pc[s], CountedPoints)
    BY ExitMoves
  <2>2. In(pc'[s], CountedPoints) = 0 /\ In(pc[s], CountedPoints) = 0
    BY <1>1 DEF In
  <2> QED
    BY <1>2, <2>1, <2>2, CountedFacts DEF LastOneOpensGate
<1>5. \A t \in Slot : pc'[t] # "exitOpen" /\ pc'[t] # "idleAdd"
  BY <1>1, SlotFacts DEF LastOneOpensGate
<1>6. ~Opening' /\ \E t \in Slot : pc'[t] = "ended"
  BY <1>1, <1>5 DEF Opening
<1>7. pc'[Owner] \notin {"destroy", "gone"}
  BY <1>1, SlotFacts DEF LastOneOpensGate, NobodyLeft
<1> QED
  BY <1>2, <1>3, <1>4, <1>5, <1>6, <1>7 DEF LastOneOpensGate

(* As long as no worker has been idle for too long, the last one to end     *)
(* opens the gate, and nobody passes it before.                             *)
LEMMA LastOneStep ==
  ASSUME Types, Places, ClaimsAreUnique, ShutdownIsKnown, MinimumIsKept,
         LastOneOpensGate, [Next]_vars
  PROVE  LastOneOpensGate'
<1>1. CASE Inside /\ UNCHANGED <<ThreadCount, LightsOut, idled>>
  <2>1. queued' \in Nat
    BY TypeStep DEF Types
  <2>2. CASE ~idled
    BY <1>1, <2>1, <2>2, InsideGate, OwnerSteps, OwnerEndSteps DEF OwnerEnds
  <2>3. CASE idled
    BY <1>1, <2>3 DEF LastOneOpensGate
  <2> QED
    BY <2>2, <2>3
<1>2. ASSUME NEW p \in PoolThread, AddSpawn(p) PROVE LastOneOpensGate'
  <2>1. CASE idled
    BY <1>2, <2>1 DEF AddSpawn, shutdown, LastOneOpensGate
  <2> QED
    BY <1>2, <2>1, SpawnGate
<1>3. ASSUME NEW s \in Slot, Cancel(s) \/ ExitStatus(s) PROVE LastOneOpensGate'
  <2>1. CASE idled
    BY <1>3, <2>1 DEF Cancel, ExitStatus, shutdown, LastOneOpensGate
  <2> QED
    BY <1>3, <2>1, CancelGate
<1>4. ASSUME NEW s \in Slot, ExitCount(s) PROVE LastOneOpensGate'
  <2>1. CASE idled
    BY <1>4, <2>1 DEF ExitCount, shutdown, LastOneOpensGate
  <2> QED
    BY <1>4, <2>1, CountGate
<1>5. ASSUME NEW s \in Slot, ExitOpen(s) PROVE LastOneOpensGate'
  <2>1. CASE idled
    BY <1>5, <2>1 DEF ExitOpen, LastOneOpensGate
  <2> QED
    BY <1>5, <2>1, OpenGate
<1>6. ASSUME NEW s \in Slot, IdleSubtract(s) PROVE LastOneOpensGate'
  BY <1>6 DEF IdleSubtract, LastOneOpensGate
<1>7. ASSUME NEW s \in Slot, IdleAdd(s) PROVE LastOneOpensGate'
  BY <1>7 DEF IdleAdd, shutdown, LastOneOpensGate
<1> QED
  BY <1>1, <1>2, <1>3, <1>4, <1>5, <1>6, <1>7, InsideSteps, SlotFacts
     DEF Next, WorkerStep, OwnerStep, AddThread

(* A worker starts where there is none, or one that has ended. *)
OnlyFreeSlotsStart ==
  \A s \in Slot : pc[s] # "starting" /\ pc'[s] = "starting"
                    => pc[s] \in {"none", "ended"}

(* Every step starts workers in such slots only. *)
LEMMA StartSteps ==
  ASSUME Places, ClaimsAreUnique, [Next]_vars
  PROVE  OnlyFreeSlotsStart
<1> USE SlotFacts
    DEF OnlyFreeSlotsStart, Places, ClaimsAreUnique, Goto, Caller
<1>1. CASE Enqueue
  BY <1>1 DEF Enqueue
<1>2. CASE CountTask
  BY <1>2 DEF CountTask
<1>3. CASE PostTask
  BY <1>3 DEF PostTask
<1>4. ASSUME NEW p \in PoolThread, AddCheck(p) PROVE OnlyFreeSlotsStart
  BY <1>4 DEF AddCheck, AddReturns
<1>5. ASSUME NEW p \in PoolThread, AddScan(p) PROVE OnlyFreeSlotsStart
  BY <1>5 DEF AddScan
<1>6. ASSUME NEW p \in PoolThread, AddFails(p) PROVE OnlyFreeSlotsStart
  BY <1>6 DEF AddFails, AddReturns
<1>7. ASSUME NEW p \in PoolThread, AddJoin(p) PROVE OnlyFreeSlotsStart
  BY <1>7 DEF AddJoin
<1>8. ASSUME NEW p \in PoolThread, AddSpawn(p) PROVE OnlyFreeSlotsStart
  BY <1>8 DEF AddSpawn
<1>9. ASSUME NEW s \in Slot, Start(s) PROVE OnlyFreeSlotsStart
  BY <1>9 DEF Start
<1>10. ASSUME NEW s \in Slot, Loop(s) PROVE OnlyFreeSlotsStart
  BY <1>10 DEF Loop
<1>11. ASSUME NEW s \in Slot, Cancel(s) PROVE OnlyFreeSlotsStart
  BY <1>11 DEF Cancel
<1>12. ASSUME NEW s \in Slot, TakeTicket(s) PROVE OnlyFreeSlotsStart
  BY <1>12 DEF TakeTicket
<1>13. ASSUME NEW s \in Slot, HeartBeat(s) PROVE OnlyFreeSlotsStart
  BY <1>13 DEF HeartBeat
<1>14. ASSUME NEW s \in Slot, IdleSubtract(s) PROVE OnlyFreeSlotsStart
  BY <1>14 DEF IdleSubtract
<1>15. ASSUME NEW s \in Slot, IdleAdd(s) PROVE OnlyFreeSlotsStart
  BY <1>15 DEF IdleAdd
<1>16. ASSUME NEW s \in Slot, LoadThreadCount(s) PROVE OnlyFreeSlotsStart
  BY <1>16 DEF LoadThreadCount
<1>17. ASSUME NEW s \in Slot, LoadTaskCount(s) PROVE OnlyFreeSlotsStart
  BY <1>17 DEF LoadTaskCount
<1>18. ASSUME NEW s \in Slot, Dequeue(s) PROVE OnlyFreeSlotsStart
  BY <1>18 DEF Dequeue
<1>19. ASSUME NEW s \in Slot, FinishTask(s) PROVE OnlyFreeSlotsStart
  BY <1>19 DEF FinishTask
<1>20. ASSUME NEW s \in Slot, ExitStatus(s) PROVE OnlyFreeSlotsStart
  BY <1>20 DEF ExitStatus
<1>21. ASSUME NEW s \in Slot, ExitCount(s) PROVE OnlyFreeSlotsStart
  BY <1>21 DEF ExitCount
<1>22. ASSUME NEW s \in Slot, ExitOpen(s) PROVE OnlyFreeSlotsStart
  BY <1>22 DEF ExitOpen
<1>23. CASE Construct
  BY <1>23 DEF Construct
<1>24. CASE StartShutdown
  BY <1>24 DEF StartShutdown
<1>25. CASE PostAll
  BY <1>25 DEF PostAll
<1>26. CASE PassLightsOut
  BY <1>26 DEF PassLightsOut, StartDestroy
<1>27. CASE LightsOutTimeOut
  BY <1>27 DEF LightsOutTimeOut, StartDestroy
<1>28. CASE DestroyThread
  BY <1>28 DEF DestroyThread
<1>29. CASE Free
  BY <1>29 DEF Free
<1>30. CASE UNCHANGED vars
  BY <1>30 DEF vars
<1> QED
  BY <1>1, <1>2, <1>3, <1>4, <1>5, <1>6, <1>7, <1>8, <1>9, <1>10, <1>11,
     <1>12, <1>13, <1>14, <1>15, <1>16, <1>17, <1>18, <1>19, <1>20, <1>21,
     <1>22, <1>23, <1>24, <1>25, <1>26, <1>27, <1>28, <1>29, <1>30, SlotFacts
     DEF Next, WorkerStep, OwnerStep, AddThread

-----------------------------------------------------------------------------
(* Theorems *)

(* A pool under construction. *)
LEMMA InitHolds ==
  Init => IInv
<1> SUFFICES ASSUME Init PROVE IInv
  OBVIOUS
<1> USE ThreadPoolAssumption, SlotFacts DEF Init, Owner
<1>1. Types
  <2>1. 0 \in 0 .. SizeLimit - 1 /\ 0 \in 0 .. IdleShutDownHeartBeats + 1
    OBVIOUS
  <2>2. /\ ThreadStatus \in [Slot -> {-1, 0, 1, 2}]
        /\ safeThreadCount \in [Slot -> 0 .. SizeLimit - 1]
        /\ idleHeartBeatCount \in [Slot -> 0 .. IdleShutDownHeartBeats + 1]
    BY <2>1
  <2>3. IsShuttingDown \in BOOLEAN /\ LightsOut \in BOOLEAN /\ idled \in BOOLEAN
    OBVIOUS
  <2>4. /\ ThreadCount \in Int /\ TaskCount \in 0 .. SizeLimit - 1
        /\ tickets \in Nat /\ taken \in Nat /\ queued \in Nat /\ counting \in Nat
        /\ posting \in Nat /\ submitted \in Nat
    BY <2>1
  <2> QED
    BY <2>2, <2>3, <2>4 DEF Types
<1>2. /\ pc[Owner] = "constructing" /\ \A s \in Slot : pc[s] = "none"
      /\ \A p \in PoolThread : slot[p] = 0 /\ ~Claims(p)
  BY DEF PoolThread, Claims
<1>3. Places
  BY <1>2 DEF Places, PoolThread, WorkerPoints, OwnerPoints
<1>4. ClaimsAreUnique /\ StatusTellsThread
  BY <1>2 DEF ClaimsAreUnique, StatusTellsThread, Claims, PoolThread
<1>5. ShutdownIsKnown
  BY <1>2 DEF ShutdownIsKnown
<1>6. \A points : "none" \notin points => At(points) = {} /\ CountAt(points) = 0
  BY <1>2, FS_EmptySet DEF At, CountAt
<1>7. CountAt(CountedPoints) = 0
  BY <1>6 DEF CountedPoints, AddPoints, WorkPoints
<1>8. CountAt(ActivePoints) = 0
  BY <1>6 DEF ActivePoints, AddPoints, WorkPoints
<1>9. Cardinality(Underway) = 0
  <2>1. Underway = {}
    BY <1>2 DEF Underway, AddPoints
  <2> QED
    BY <2>1, FS_EmptySet
<1>10. Spawned = 0
  <2>1. {s \in Slot : ThreadStatus[s] # 0} = {}
    OBVIOUS
  <2> QED
    BY <2>1, FS_EmptySet DEF Spawned
<1>11. CountIsBounded
  BY <1>7 DEF CountIsBounded
<1>12. ConstructionIsQuiet
  BY <1>2, <1>10 DEF ConstructionIsQuiet
<1>13. MinimumIsKept
  BY <1>2, <1>8 DEF MinimumIsKept
<1>14. NoTaskStranded
  BY <1>9 DEF NoTaskStranded
<1>15. LastOneOpensGate
  BY <1>2, <1>7 DEF LastOneOpensGate, Leaving, Opening, ExitPoints
<1> QED
  BY <1>1, <1>3, <1>4, <1>5, <1>11, <1>12, <1>13, <1>14, <1>15 DEF IInv

(* Every step of a worker, of the owner or of a submitter preserves the     *)
(* inductive invariant.                                                     *)
THEOREM Invariance ==
  Spec => []IInv
<1>1. Init => IInv
  BY InitHolds
<1>2. IInv /\ [Next]_vars => IInv'
  <2> SUFFICES ASSUME IInv, [Next]_vars PROVE IInv'
    OBVIOUS
  <2>1. /\ Types /\ Places /\ ClaimsAreUnique /\ StatusTellsThread
        /\ ShutdownIsKnown /\ CountIsBounded /\ ConstructionIsQuiet
        /\ MinimumIsKept /\ NoTaskStranded /\ LastOneOpensGate
    BY DEF IInv
  <2>2. Types' /\ Places' /\ ClaimsAreUnique' /\ StatusTellsThread'
    BY <2>1, TypeStep, PlacesStep, ClaimsStep, StatusStep
  <2>3. ShutdownIsKnown' /\ CountIsBounded' /\ ConstructionIsQuiet'
    BY <2>1, ShutdownStep, CountStep, ConstructionStep
  <2>4. MinimumIsKept' /\ NoTaskStranded' /\ LastOneOpensGate'
    BY <2>1, MinimumStep, StrandStep, LastOneStep
  <2> QED
    BY <2>2, <2>3, <2>4 DEF IInv
<1> QED
  BY <1>1, <1>2, PTL DEF Spec

(* All variables stay in their ranges: indices within the slots and one     *)
(* past them, the signed thread count within the number of slots, on either *)
(* side, although an idle worker that ends is subtracted from it twice, and *)
(* the idle time of a worker one heart beat above its limit at most.        *)
THEOREM TypeCorrectness ==
  Spec => []TypeOK
<1>1. IInv => TypeOK
  <2> SUFFICES ASSUME IInv PROVE TypeOK
    OBVIOUS
  <2>1. Types /\ Places /\ CountIsBounded
    BY DEF IInv
  <2>2. ThreadCount \in -MaximumThreadCount .. MaximumThreadCount
    BY <2>1, CountFacts, ThreadPoolAssumption DEF CountIsBounded, Types
  <2>3. pc \in [Slot \cup {Owner} ->
                  AddPoints \cup WorkPoints \cup ExitPoints \cup OwnerPoints
                    \cup {"none", "ended"}]
    BY <2>1 DEF Places, PoolThread, WorkerPoints
  <2> QED
    BY <2>1, <2>2, <2>3 DEF TypeOK, Types, Places, PoolThread
<1> QED
  BY <1>1, Invariance, PTL

(* No task is left in the queue without a ticket, a worker past the         *)
(* semaphore or a submitter that will still post one.                       *)
THEOREM TasksAreNotStranded ==
  Spec => []NoTaskStranded
<1>1. IInv => NoTaskStranded
  BY DEF IInv
<1> QED
  BY <1>1, Invariance, PTL

(* Idle workers that race to end leave the minimum number of threads.       *)
THEOREM MinimumStays ==
  Spec => []MinimumStaysActive
<1>1. IInv => MinimumStaysActive
  <2> SUFFICES ASSUME IInv, pc[Owner] = "serving"
               PROVE  Cardinality(Alive) >= MinimumThreadCount
    BY DEF MinimumStaysActive
  <2>1. CountAt(AlivePoints) >= MinimumThreadCount
    BY DEF IInv, ShutdownIsKnown, MinimumIsKept
  <2>2. Alive = At(AlivePoints)
    BY DEF IInv, Places, WorkerPoints, Alive, At, AlivePoints, ExitPoints,
           AddPoints, WorkPoints
  <2> QED
    BY <2>1, <2>2 DEF CountAt
<1> QED
  BY <1>1, Invariance, PTL

(* The destructor frees the pool after its last worker has ended, with an   *)
(* empty queue, and its wait only times out if there never was a worker.    *)
THEOREM PoolOutlivesWorkers ==
  Spec => []NothingOutlivesPool
<1>1. IInv => NothingOutlivesPool
  <2> SUFFICES ASSUME IInv, ~idled
               PROVE  /\ pc[Owner] = "gone" =>
                           NobodyLeft /\ (queued = 0 \/ MinimumThreadCount = 0)
                      /\ pc[Owner] = "lightsOut" /\ ~LightsOut /\ NobodyLeft =>
                           MinimumThreadCount = 0
    BY DEF NothingOutlivesPool
  <2>1. LightsOut => queued = 0
    BY DEF IInv, LastOneOpensGate, Leaving
  <2>2. NobodyLeft => CountAt(CountedPoints) = 0 /\ ~Opening
    BY CountedFacts DEF NobodyLeft, Opening, CountedPoints, AddPoints, WorkPoints
  <2>3. pc[Owner] = "lightsOut" => IsShuttingDown
    BY DEF IInv, ShutdownIsKnown
  <2> QED
    BY <2>1, <2>2, <2>3, ThreadPoolAssumption DEF IInv, LastOneOpensGate
<1> QED
  BY <1>1, Invariance, PTL

(* A thread object is only assigned a new thread when its old one, if there *)
(* was one, has ended: the claim of a slot waits for the worker before it.  *)
THEOREM ThreadObjectsAreFree ==
  Spec => NoThreadOverwritten
<1>1. IInv /\ [Next]_vars => [OnlyFreeSlotsStart]_vars
  BY StartSteps DEF IInv
<1> QED
  BY <1>1, Invariance, PTL DEF Spec, NoThreadOverwritten, OnlyFreeSlotsStart
=============================================================================
