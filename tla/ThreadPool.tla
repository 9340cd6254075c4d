----------------------------- MODULE ThreadPool -----------------------------
(* Nuclex::Support::Threading::ThreadPool with its own worker threads       *)
(* (Source/Threading/ThreadPool.cpp): workers that take tickets from a      *)
(* semaphore and tasks from a queue, grow under load and end when idle, and *)
(* a destructor that waits for the last of them.                            *)
(*                                                                          *)
(* Every access to a shared atomic is one action. TaskSemaphore is used     *)
(* through what Semaphore is shown to implement, CountingSemaphore.         *)
(* LightsOut is opened once and waited for once: a flag. The concurrent     *)
(* queue, which orders the tasks of one producer only, is the number of     *)
(* tasks in it: which of them a worker gets makes no difference here.       *)
EXTENDS Integers, FiniteSets

CONSTANTS MaxTasks,                \* bound: tasks submitted over the whole run
          MinimumThreadCount,      \* constructor arguments
          MaximumThreadCount,
          IdleShutDownHeartBeats,  \* ThreadPoolConfig, 10 in the code
          SizeLimit                \* values of std::size_t

ASSUME ThreadPoolAssumption ==
  /\ MaxTasks \in Nat
  /\ MinimumThreadCount \in Nat
  /\ MaximumThreadCount \in Nat \ {0}
  /\ MinimumThreadCount <= MaximumThreadCount
  /\ IdleShutDownHeartBeats \in Nat
  /\ SizeLimit \in Nat \ {0}

Slot == 1 .. MaximumThreadCount  \* a worker thread has the slot's number
Owner == 0                       \* the thread that constructs and destroys

VARIABLES IsShuttingDown, ThreadCount, TaskCount, LightsOut,
          ThreadStatus,   \* per slot: -1 killed, 0 unused, 1 made, 2 running
          tickets,        \* of TaskSemaphore
          taken,          \* history: tickets taken
          queued,         \* tasks in ScheduledTasks
          counting,       \* submitTask() calls that still have to count,
          posting,        \* and to post
          submitted,      \* history: tasks submitted
          pc,             \* where each worker and the owner are
          slot,           \* the index in AddThread() and DestroyInstance()
          safeThreadCount,     \* local of the work loop
          idleHeartBeatCount,  \* local of the work loop
          idled           \* history: a worker was idle for too long

vars == <<IsShuttingDown, ThreadCount, TaskCount, LightsOut, ThreadStatus,
          tickets, taken, queued, counting, posting, submitted, pc, slot, safeThreadCount,
          idleHeartBeatCount, idled>>
tasks == <<TaskCount, queued, counting, posting, submitted>>
semaphore == <<tickets, taken>>
locals == <<slot, safeThreadCount, idleHeartBeatCount>>
shutdown == <<IsShuttingDown, LightsOut, idled>>
threads == <<ThreadCount, ThreadStatus>>

AddPoints == {"addCheck", "addScan", "addJoin", "addSpawn"}
WorkPoints == {"starting", "loop", "cancel", "waiting", "idleSub", "idleAdd",
               "grow", "growTasks", "dequeue", "running"}
ExitPoints == {"exitStatus", "exitCount", "exitOpen"}
OwnerPoints == {"constructing", "serving", "postAll", "lightsOut", "destroy",
                "gone"}

Init ==
  /\ IsShuttingDown = FALSE
  /\ ThreadCount = 0
  /\ TaskCount = 0
  /\ LightsOut = FALSE
  /\ ThreadStatus = [s \in Slot |-> 0]
  /\ tickets = 0
  /\ taken = 0
  /\ queued = 0
  /\ counting = 0
  /\ posting = 0
  /\ submitted = 0
  /\ pc = [p \in Slot \cup {Owner} |->
             IF p = Owner THEN "constructing" ELSE "none"]
  /\ slot = [p \in Slot \cup {Owner} |-> 0]
  /\ safeThreadCount = [s \in Slot |-> 0]
  /\ idleHeartBeatCount = [s \in Slot |-> 0]
  /\ idled = FALSE

(* The conversion of an int to std::size_t. *)
AsSize(n) == n % SizeLimit

Goto(p, point) == pc' = [pc EXCEPT ![p] = point]

TaskSemaphore == INSTANCE CountingSemaphore WITH
  Thread <- Slot, InitialCount <- 0, Counts <- {1, MaximumThreadCount},
  admitted <- taken,
  caller <- [s \in Slot |-> IF pc[s] = "waiting" THEN "patient" ELSE "outside"]

-----------------------------------------------------------------------------
(* submitTask(): enqueue, count, post, by any number of threads. A task     *)
(* the queue has no memory for is destroyed and leaves no trace.            *)

(* A pool is only submitted to between its construction and destruction. *)
Enqueue ==
  /\ pc[Owner] = "serving"
  /\ submitted < MaxTasks
  /\ submitted' = submitted + 1
  /\ queued' = queued + 1
  /\ counting' = counting + 1
  /\ UNCHANGED <<TaskCount, posting, semaphore, threads, locals, shutdown, pc>>

CountTask ==
  /\ counting > 0
  /\ TaskCount' = (TaskCount + 1) % SizeLimit
  /\ counting' = counting - 1
  /\ posting' = posting + 1
  /\ UNCHANGED <<queued, submitted, semaphore, threads, locals, shutdown, pc>>

(* Mutant: a task is not announced while an earlier one still is. *)
PostTaskOnce ==
  /\ posting > 0
  /\ posting' = posting - 1
  /\ UNCHANGED <<TaskCount, queued, counting, submitted, threads, locals,
                 shutdown, pc>>
  /\ IF tickets = 0 THEN TaskSemaphore!Post(1) ELSE UNCHANGED semaphore

PostTask ==
  /\ posting > 0
  /\ posting' = posting - 1
  /\ UNCHANGED <<TaskCount, queued, counting, submitted, threads, locals,
                 shutdown, pc>>
  /\ TaskSemaphore!Post(1)

-----------------------------------------------------------------------------
(* AddThread(), called by the constructor and by workers *)

Caller(p) == IF p = Owner THEN "constructing" ELSE "dequeue"

AddReturns(p) ==
  /\ Goto(p, Caller(p))
  /\ slot' = [slot EXCEPT ![p] = 0]

AddCheck(p) ==
  /\ pc[p] = "addCheck"
  /\ IF IsShuttingDown
     THEN AddReturns(p)
     ELSE Goto(p, "addScan") /\ slot' = [slot EXCEPT ![p] = 1]
  /\ UNCHANGED <<tasks, semaphore, threads, shutdown,
                 safeThreadCount, idleHeartBeatCount>>

(* No slot left to look at. *)
AddFails(p) ==
  /\ pc[p] = "addScan"
  /\ slot[p] > MaximumThreadCount
  /\ AddReturns(p)
  /\ UNCHANGED <<tasks, semaphore, threads, shutdown,
                 safeThreadCount, idleHeartBeatCount>>

(* Mutant: the slot's status is looked at, but not marked. *)
AddScanUnclaimed(p) ==
  /\ pc[p] = "addScan"
  /\ slot[p] <= MaximumThreadCount
  /\ \/ /\ ThreadStatus[slot[p]] < 1
        /\ Goto(p, IF ThreadStatus[slot[p]] = -1 THEN "addJoin"
                   ELSE "addSpawn")
        /\ UNCHANGED slot
     \/ /\ ThreadStatus[slot[p]] >= 1
        /\ slot' = [slot EXCEPT ![p] = @ + 1]
        /\ UNCHANGED pc
  /\ UNCHANGED <<ThreadStatus, ThreadCount, tasks, semaphore, shutdown,
                 safeThreadCount, idleHeartBeatCount>>

(* Looks at one slot. The compare-and-swap claims one that is unused or     *)
(* whose thread has ended. Where it fails, by itself or because another     *)
(* thread was faster, it is repeated for an unused slot only.               *)
AddScan(p) ==
  /\ pc[p] = "addScan"
  /\ slot[p] <= MaximumThreadCount
  /\ \/ /\ ThreadStatus[slot[p]] < 1
        /\ Goto(p, IF ThreadStatus[slot[p]] = -1 THEN "addJoin"
                   ELSE "addSpawn")
        /\ ThreadStatus' = [ThreadStatus EXCEPT ![slot[p]] = 1]
        /\ UNCHANGED slot
     \/ /\ ThreadStatus[slot[p]] # 0
        /\ slot' = [slot EXCEPT ![p] = @ + 1]
        /\ UNCHANGED <<pc, ThreadStatus>>
  /\ UNCHANGED <<ThreadCount, tasks, semaphore, shutdown,
                 safeThreadCount, idleHeartBeatCount>>

(* The thread that has ended may still be on its way out. *)
AddJoin(p) ==
  /\ pc[p] = "addJoin"
  /\ pc[slot[p]] = "ended"
  /\ Goto(p, "addSpawn")
  /\ UNCHANGED <<tasks, semaphore, threads, locals, shutdown>>

(* The thread is counted, then started. The operating system is assumed to  *)
(* have a thread to give.                                                   *)
AddSpawn(p) ==
  /\ pc[p] = "addSpawn"
  /\ ThreadCount' = ThreadCount + 1
  /\ pc' = [pc EXCEPT ![slot[p]] = "starting", ![p] = Caller(p)]
  /\ slot' = [slot EXCEPT ![p] = 0]
  /\ UNCHANGED <<ThreadStatus, tasks, semaphore, shutdown,
                 safeThreadCount, idleHeartBeatCount>>

AddThread(p) ==
  AddCheck(p) \/ AddScan(p) \/ AddFails(p) \/ AddJoin(p) \/ AddSpawn(p)

-----------------------------------------------------------------------------
(* runThreadWorkLoop() *)

Start(s) ==
  /\ pc[s] = "starting"
  /\ ThreadStatus' = [ThreadStatus EXCEPT ![s] = 2]
  /\ Goto(s, "loop")
  /\ UNCHANGED <<ThreadCount, tasks, semaphore, locals, shutdown>>

(* Mutant: workers do not notice that the pool is going down. *)
LoopForever(s) ==
  /\ pc[s] = "loop"
  /\ Goto(s, "waiting")
  /\ UNCHANGED <<tasks, semaphore, threads, locals, shutdown>>

Loop(s) ==
  /\ pc[s] = "loop"
  /\ Goto(s, IF IsShuttingDown THEN "cancel" ELSE "waiting")
  /\ UNCHANGED <<tasks, semaphore, threads, locals, shutdown>>

(* Mutant: the shutdown leaves the queue alone. *)
CancelNothing(s) ==
  /\ pc[s] = "cancel"
  /\ Goto(s, "exitStatus")
  /\ UNCHANGED <<tasks, semaphore, threads, locals, shutdown>>

(* cancelAllTasks() destroys queued tasks, one after the other. *)
Cancel(s) ==
  /\ pc[s] = "cancel"
  /\ \/ queued > 0 /\ queued' = queued - 1 /\ UNCHANGED pc
     \/ queued = 0 /\ Goto(s, "exitStatus") /\ UNCHANGED queued
  /\ UNCHANGED <<TaskCount, counting, posting, submitted, semaphore, threads,
                 locals, shutdown>>

TakeTicket(s) ==
  /\ pc[s] = "waiting"
  /\ Goto(s, "grow")
  /\ TaskSemaphore!Admit(s)
  /\ UNCHANGED <<tasks, threads, locals, shutdown>>

(* WaitForThenDecrement() timed out. *)
HeartBeat(s) ==
  /\ pc[s] = "waiting"
  /\ idleHeartBeatCount' = [idleHeartBeatCount EXCEPT ![s] = @ + 1]
  /\ Goto(s, IF idleHeartBeatCount'[s] > IdleShutDownHeartBeats
             THEN "idleSub" ELSE "grow")
  /\ TaskSemaphore!GiveUp(s)
  /\ UNCHANGED <<tasks, threads, shutdown, slot, safeThreadCount>>

(* Mutant: an off-by-one lets one worker too many go. *)
IdleSubtractAtMinimum(s) ==
  /\ pc[s] = "idleSub"
  /\ ThreadCount' = ThreadCount - 1
  /\ idled' = TRUE
  /\ Goto(s, IF ThreadCount > 0 /\ ThreadCount >= MinimumThreadCount
             THEN "exitStatus" ELSE "idleAdd")
  /\ UNCHANGED <<ThreadStatus, tasks, semaphore, locals, IsShuttingDown,
                 LightsOut>>

(* An idle worker may go if the pool stays above its minimum. *)
IdleSubtract(s) ==
  /\ pc[s] = "idleSub"
  /\ ThreadCount' = ThreadCount - 1
  /\ idled' = TRUE
  /\ Goto(s, IF ThreadCount > 0 /\ ThreadCount > MinimumThreadCount
             THEN "exitStatus" ELSE "idleAdd")
  /\ UNCHANGED <<ThreadStatus, tasks, semaphore, locals, IsShuttingDown,
                 LightsOut>>

(* Mutant: one count too many is given back. *)
IdleAddTwo(s) ==
  /\ pc[s] = "idleAdd"
  /\ ThreadCount' = ThreadCount + 2
  /\ idleHeartBeatCount' =
       [idleHeartBeatCount EXCEPT ![s] = IdleShutDownHeartBeats]
  /\ Goto(s, "grow")
  /\ UNCHANGED <<ThreadStatus, tasks, semaphore, shutdown, slot,
                 safeThreadCount>>

IdleAdd(s) ==
  /\ pc[s] = "idleAdd"
  /\ ThreadCount' = ThreadCount + 1
  /\ idleHeartBeatCount' =
       [idleHeartBeatCount EXCEPT ![s] = IdleShutDownHeartBeats]
  /\ Goto(s, "grow")
  /\ UNCHANGED <<ThreadStatus, tasks, semaphore, shutdown, slot,
                 safeThreadCount>>

LoadThreadCount(s) ==
  /\ pc[s] = "grow"
  /\ safeThreadCount' = [safeThreadCount EXCEPT ![s] = AsSize(ThreadCount)]
  /\ Goto(s, IF AsSize(ThreadCount) < MaximumThreadCount
             THEN "growTasks" ELSE "dequeue")
  /\ UNCHANGED <<tasks, semaphore, threads, shutdown, slot,
                 idleHeartBeatCount>>

LoadTaskCount(s) ==
  /\ pc[s] = "growTasks"
  /\ Goto(s, IF TaskCount > AsSize(safeThreadCount[s] + 1)
             THEN "addCheck" ELSE "dequeue")
  /\ safeThreadCount' = [safeThreadCount EXCEPT ![s] = 0]
  /\ UNCHANGED <<tasks, semaphore, threads, shutdown, slot,
                 idleHeartBeatCount>>

(* The queue is taken not to miss a task whose enqueue has returned. *)
Dequeue(s) ==
  /\ pc[s] = "dequeue"
  /\ \/ /\ queued > 0
        /\ queued' = queued - 1
        /\ idleHeartBeatCount' = [idleHeartBeatCount EXCEPT ![s] = 0]
        /\ Goto(s, "running")
     \/ /\ queued = 0
        /\ Goto(s, "loop")
        /\ UNCHANGED <<queued, idleHeartBeatCount>>
  /\ UNCHANGED <<TaskCount, counting, posting, submitted, semaphore, threads,
                 shutdown, slot, safeThreadCount>>

(* The task has run; it is uncounted, destroyed and its memory recycled. *)
FinishTask(s) ==
  /\ pc[s] = "running"
  /\ TaskCount' = (TaskCount - 1) % SizeLimit
  /\ Goto(s, "loop")
  /\ UNCHANGED <<queued, counting, posting, submitted, semaphore, threads,
                 locals, shutdown>>

ExitStatus(s) ==
  /\ pc[s] = "exitStatus"
  /\ ThreadStatus' = [ThreadStatus EXCEPT ![s] = -1]
  /\ Goto(s, "exitCount")
  /\ idleHeartBeatCount' = [idleHeartBeatCount EXCEPT ![s] = 0]
  /\ UNCHANGED <<ThreadCount, tasks, semaphore, shutdown, slot,
                 safeThreadCount>>

ExitCount(s) ==
  /\ pc[s] = "exitCount"
  /\ ThreadCount' = ThreadCount - 1
  /\ Goto(s, IF ThreadCount = 1 THEN "exitOpen" ELSE "ended")
  /\ UNCHANGED <<ThreadStatus, tasks, semaphore, locals, shutdown>>

ExitOpen(s) ==
  /\ pc[s] = "exitOpen"
  /\ LightsOut' = TRUE
  /\ Goto(s, "ended")
  /\ UNCHANGED <<IsShuttingDown, idled, tasks, semaphore, threads, locals>>

-----------------------------------------------------------------------------
(* The owner: constructor, destructor, DestroyInstance() *)

Spawned == Cardinality({s \in Slot : ThreadStatus[s] # 0})

(* AddThread() once per minimum thread. No worker can have added or ended   *)
(* one by then: there is no task, and nobody has been idle for long.        *)
Construct ==
  /\ pc[Owner] = "constructing"
  /\ Goto(Owner, IF Spawned < MinimumThreadCount THEN "addCheck"
                 ELSE "serving")
  /\ UNCHANGED <<tasks, semaphore, threads, locals, shutdown>>

(* ~ThreadPool(), called when nobody is submitting any more. *)
StartShutdown ==
  /\ pc[Owner] = "serving"
  /\ counting = 0 /\ posting = 0
  /\ IsShuttingDown' = TRUE
  /\ Goto(Owner, "postAll")
  /\ UNCHANGED <<LightsOut, idled, tasks, semaphore, threads, locals>>

PostAll ==
  /\ pc[Owner] = "postAll"
  /\ Goto(Owner, "lightsOut")
  /\ TaskSemaphore!Post(MaximumThreadCount)
  /\ UNCHANGED <<tasks, threads, locals, shutdown>>

StartDestroy ==
  /\ slot' = [slot EXCEPT ![Owner] = MaximumThreadCount]
  /\ Goto(Owner, "destroy")
  /\ UNCHANGED <<tasks, semaphore, threads, shutdown, safeThreadCount,
                 idleHeartBeatCount>>

PassLightsOut ==
  /\ pc[Owner] = "lightsOut"
  /\ LightsOut
  /\ StartDestroy

(* Five seconds are taken to be longer than any task and any delay in       *)
(* scheduling: they only pass if no thread is left to open the gate.        *)
NobodyLeft == \A s \in Slot : pc[s] \in {"none", "ended"}

LightsOutTimeOut ==
  /\ pc[Owner] = "lightsOut"
  /\ ~LightsOut
  /\ NobodyLeft
  /\ StartDestroy

(* Joins a thread that was killed, detaches one that was not (where a build *)
(* with assertions ends); after the last one, the memory is freed.          *)
DestroyThread ==
  /\ pc[Owner] = "destroy"
  /\ slot[Owner] > 0
  /\ ThreadStatus[slot[Owner]] = -1 => pc[slot[Owner]] = "ended"
  /\ slot' = [slot EXCEPT ![Owner] = @ - 1]
  /\ UNCHANGED <<pc, tasks, semaphore, threads, shutdown, safeThreadCount,
                 idleHeartBeatCount>>

Free ==
  /\ pc[Owner] = "destroy"
  /\ slot[Owner] = 0
  /\ Goto(Owner, "gone")
  /\ UNCHANGED <<tasks, semaphore, threads, locals, shutdown>>

-----------------------------------------------------------------------------
(* The steps a worker takes when it is scheduled; a time-out is not one.    *)
WorkerStep(s) ==
  \/ AddThread(s) \/ Start(s) \/ Loop(s) \/ Cancel(s) \/ TakeTicket(s)
  \/ IdleSubtract(s) \/ IdleAdd(s) \/ LoadThreadCount(s) \/ LoadTaskCount(s)
  \/ Dequeue(s) \/ FinishTask(s)
  \/ ExitStatus(s) \/ ExitCount(s) \/ ExitOpen(s)

OwnerStep ==
  \/ AddThread(Owner) \/ Construct \/ PostAll
  \/ PassLightsOut \/ LightsOutTimeOut \/ DestroyThread \/ Free

(* What a thread does with a pool that has been freed is undefined; the     *)
(* model does not follow it.                                                *)
Next ==
  /\ pc[Owner] # "gone"
  /\ \/ Enqueue \/ CountTask \/ PostTask
     \/ \E s \in Slot : WorkerStep(s) \/ HeartBeat(s)
     \/ OwnerStep
     \/ StartShutdown

Spec == Init /\ [][Next]_vars

(* Threads that can take a step take it some time, and tasks end. Nobody    *)
(* has to submit a task or to destroy the pool, and no heart beat is        *)
(* counted on: the Linux semaphore does not guarantee any.                  *)
Fairness ==
  /\ \A s \in Slot : WF_vars(pc[Owner] # "gone" /\ WorkerStep(s))
  /\ WF_vars(CountTask) /\ WF_vars(PostTask)
  /\ WF_vars(OwnerStep)

FairSpec == Spec /\ Fairness

-----------------------------------------------------------------------------
(* Properties *)

TypeOK ==
  /\ IsShuttingDown \in BOOLEAN
  /\ ThreadCount \in -MaximumThreadCount .. MaximumThreadCount
  /\ TaskCount \in 0 .. SizeLimit - 1
  /\ LightsOut \in BOOLEAN
  /\ ThreadStatus \in [Slot -> {-1, 0, 1, 2}]
  /\ tickets \in Nat
  /\ taken \in Nat
  /\ {queued, counting, posting, submitted} \subseteq Nat
  /\ pc \in [Slot \cup {Owner} ->
               AddPoints \cup WorkPoints \cup ExitPoints \cup OwnerPoints
                 \cup {"none", "ended"}]
  /\ slot \in [Slot \cup {Owner} -> 0 .. MaximumThreadCount + 1]
  /\ safeThreadCount \in [Slot -> 0 .. SizeLimit - 1]
  /\ idleHeartBeatCount \in [Slot -> 0 .. IdleShutDownHeartBeats + 1]
  /\ idled \in BOOLEAN

(* For every task in the queue there is a ticket, a worker that has come    *)
(* through the semaphore or a submitter that still has to post: heart beats *)
(* that steal tasks, workers that end and bursts of tasks strand none.      *)
Underway == {s \in Slot : pc[s] \in AddPoints \cup {"grow", "growTasks", "dequeue"}}

NoTaskStranded ==
  queued <= tickets + Cardinality(Underway) + counting + posting

(* ThreadPool.h: the minimum number of threads "always stay active". Idle   *)
(* workers that race to end leave that many, until the pool shuts down.     *)
Alive == {s \in Slot : pc[s] \notin ExitPoints \cup {"none", "ended"}}

MinimumStaysActive ==
  pc[Owner] = "serving" => Cardinality(Alive) >= MinimumThreadCount

(* A thread object is only overwritten once its thread has ended. *)
NoThreadOverwritten ==
  [][\A s \in Slot : pc[s] # "starting" /\ pc'[s] = "starting"
                       => pc[s] \in {"none", "ended"}]_vars

(* Unless a worker had been idle for too long, the destructor frees the     *)
(* pool after all workers have ended and no task is queued. As ~ThreadPool()*)
(* asserts, the last worker, if there was one at all, has opened the gate.  *)
(* A pool whose minimum is zero never gets a worker: its tasks stay queued. *)
NothingOutlivesPool ==
  ~idled =>
    /\ pc[Owner] = "gone" => NobodyLeft /\ (queued = 0 \/ MinimumThreadCount = 0)
    /\ pc[Owner] = "lightsOut" /\ ~LightsOut /\ NobodyLeft => MinimumThreadCount = 0

(* The assertion in DestroyInstance(): no thread is still running when its  *)
(* object is destroyed.                                                     *)
ThreadFinishedBeforeDestruction ==
  pc[Owner] = "destroy" /\ slot[Owner] > 0 => ThreadStatus[slot[Owner]] < 1

(* Queued tasks are executed or cancelled, as long as the pool is there. *)
TasksHandled == queued > 0 ~> queued = 0 \/ pc[Owner] = "gone"

(* The destructor returns. *)
DestructorReturns == IsShuttingDown ~> pc[Owner] = "gone"
=============================================================================
