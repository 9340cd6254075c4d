--------------------------- MODULE ConcurrentJob ---------------------------
(* Nuclex::Support::Threading::ConcurrentJob (Source/Threading/             *)
(* ConcurrentJob.cpp): a job that clients start, restart, cancel and wait   *)
(* for, and that runs either on a thread of its own or on a thread pool.    *)
(*                                                                          *)
(* Everything done while stateMutex is held is one action. The pool is one  *)
(* that runs every task it is given, see ThreadPool.                        *)
EXTENDS Naturals, FiniteSets

CONSTANTS Client,    \* threads that control the job
          Starter,   \* those that start it, if it has a thread of its own
          Worker,    \* threads or tasks that can exist at the same time
          NoWorker   \* model value

ASSUME ConcurrentJobAssumption == Starter \subseteq Client /\ NoWorker \notin Worker

VARIABLES pooled,            \* whether threadPool was given, never changes
          status,
          sourceStopped,     \* stopSource.stop_requested()
          backgroundThread,  \* the thread held by that member
          client,            \* where each client is
          thread,            \* the std::thread a client holds in Start()
          worker,            \* where each worker is
          token,             \* of the DoWork() call of each worker
          destructor,        \* where ~ConcurrentJob() is
          wanted             \* history: a start not yet answered by DoWork()

vars == <<pooled, status, sourceStopped, backgroundThread, client, thread,
          worker, token, destructor, wanted>>
source == <<sourceStopped, token>>

Done == {"Stopped", "Succeeded", "Failed"}
Status == Done \cup {"Scheduled", "Running", "Canceling",
                     "CancelingWithRestart"}

WaitPoints == {"wait", "timedWait", "join", "timedJoin"}
Waiting(how) == <<how, "waiting">>   \* inside the condition variable
Woken(how) == <<how, "woken">>       \* about to own the mutex again
WaitPoint == WaitPoints \X {"waiting", "woken"}

ClientPoint == {<<"idle">>, <<"spawn">>, <<"swap">>, <<"joinOld">>} \cup WaitPoint
DestructorPoint ==
  {<<"alive">>, Waiting("wait"), Woken("wait"), <<"joinThread">>, <<"destroyed">>}

Init ==
  /\ pooled \in BOOLEAN
  /\ status = "Stopped"
  /\ sourceStopped = FALSE
  /\ backgroundThread = NoWorker
  /\ client = [c \in Client |-> <<"idle">>]
  /\ thread = [c \in Client |-> NoWorker]
  /\ worker = [w \in Worker |-> "none"]
  /\ token = [w \in Worker |-> "current"]
  /\ destructor = <<"alive">>
  /\ wanted = FALSE

ClientGoes(c, point) == client' = [client EXCEPT ![c] = point]

(* A client is free to call a method until the destructor runs. *)
MayCall(c) == client[c] = <<"idle">> /\ destructor = <<"alive">>

(* A token belongs to the current stop source, which may still be asked to  *)
(* stop it, or was stopped, or belongs to a source that is no longer there. *)
Stopped(tokens) ==
  [w \in Worker |-> IF tokens[w] = "current" THEN "stopped" ELSE tokens[w]]
Orphaned(tokens) ==
  [w \in Worker |-> IF tokens[w] = "current" THEN "orphaned" ELSE tokens[w]]
GetToken == IF sourceStopped THEN "stopped" ELSE "current"

-----------------------------------------------------------------------------
(* Start() and StartOrRestart() *)

(* Mutant: a job that is still being cancelled is scheduled anew, too. *)
ScheduleWhileCanceling(c) ==
  /\ status \in Done \cup {"Canceling"}
  /\ status' = "Scheduled"
  /\ ClientGoes(c, <<"spawn">>)
  /\ UNCHANGED source

(* A job that has ended is scheduled anew, with a fresh stop source if need *)
(* be; the worker is created after the mutex has been released.             *)
Schedule(c) ==
  /\ status \in Done
  /\ status' = "Scheduled"
  /\ IF sourceStopped
     THEN sourceStopped' = FALSE /\ token' = Orphaned(token)
     ELSE UNCHANGED source
  /\ ClientGoes(c, <<"spawn">>)

(* A cancelled DoWork() call is to be followed by another one. *)
RepeatAfterCancel ==
  /\ status = "Canceling"
  /\ status' = "CancelingWithRestart"
  /\ UNCHANGED <<source, client>>

Start(c) ==
  /\ MayCall(c)
  /\ \/ Schedule(c)
     \/ RepeatAfterCancel
     \/ status \in {"Scheduled", "Running", "CancelingWithRestart"}
        /\ UNCHANGED <<status, source, client>>
  /\ wanted' = (wanted \/ status # "Running")
  /\ UNCHANGED <<pooled, backgroundThread, thread, worker, destructor>>

(* request_stop() on the stop source, which is then replaced: no call sees  *)
(* a stopped source, so the replacement in Schedule is a precaution.        *)
StopAndReplace == sourceStopped' = FALSE /\ token' = Stopped(token)

(* Mutant: DoWork() is asked to stop by a restart but not to start over. *)
RestartStopsOnly ==
  /\ status = "Running"
  /\ status' = "Canceling"
  /\ StopAndReplace
  /\ UNCHANGED client

RestartRunning ==
  /\ status = "Running"
  /\ status' = "CancelingWithRestart"
  /\ StopAndReplace
  /\ UNCHANGED client

StartOrRestart(c) ==
  /\ MayCall(c)
  /\ \/ RestartRunning
     \/ RepeatAfterCancel
     \/ Schedule(c)
     \/ status \in {"Scheduled", "CancelingWithRestart"}
        /\ UNCHANGED <<status, source, client>>
  /\ wanted' = TRUE
  /\ UNCHANGED <<pooled, backgroundThread, thread, worker, destructor>>

(* std::thread's constructor, or ThreadPool::Schedule(); both are assumed   *)
(* to succeed.                                                              *)
Spawn(c) ==
  /\ client[c] = <<"spawn">>
  /\ \E w \in Worker :
       /\ worker[w] = "none"
       /\ worker' = [worker EXCEPT ![w] = "entry"]
       /\ thread' = [thread EXCEPT ![c] = IF pooled THEN NoWorker ELSE w]
  /\ ClientGoes(c, IF pooled THEN <<"idle">> ELSE <<"swap">>)
  /\ UNCHANGED <<pooled, status, source, backgroundThread, destructor, wanted>>

(* Mutant: the thread of an earlier run is not joined. *)
SwapWithoutJoin(c) ==
  /\ client[c] = <<"swap">>
  /\ backgroundThread' = thread[c]
  /\ thread' = [thread EXCEPT ![c] = backgroundThread]
  /\ ClientGoes(c, <<"idle">>)
  /\ UNCHANGED <<pooled, status, source, worker, destructor, wanted>>

(* backgroundThread.swap(), without the mutex *)
Swap(c) ==
  /\ client[c] = <<"swap">>
  /\ backgroundThread' = thread[c]
  /\ thread' = [thread EXCEPT ![c] = backgroundThread]
  /\ ClientGoes(c, IF backgroundThread = NoWorker THEN <<"idle">>
                   ELSE <<"joinOld">>)
  /\ UNCHANGED <<pooled, status, source, worker, destructor, wanted>>

JoinOld(c) ==
  /\ client[c] = <<"joinOld">>
  /\ worker[thread[c]] = "ended"
  /\ worker' = [worker EXCEPT ![thread[c]] = "none"]
  /\ thread' = [thread EXCEPT ![c] = NoWorker]
  /\ ClientGoes(c, <<"idle">>)
  /\ UNCHANGED <<pooled, status, source, backgroundThread, destructor, wanted>>

-----------------------------------------------------------------------------
(* Cancel(), also called by the destructor *)

DoCancel ==
  /\ wanted' = FALSE
  /\ IF status \in {"Running", "Scheduled"}
     THEN status' = "Canceling" /\ StopAndReplace
     ELSE /\ status' = IF status = "CancelingWithRestart" THEN "Canceling"
                       ELSE status
          /\ UNCHANGED source

Cancel(c) ==
  /\ MayCall(c)
  /\ DoCancel
  /\ UNCHANGED <<pooled, backgroundThread, client, thread, worker, destructor>>

-----------------------------------------------------------------------------
(* Wait() and Join(), with or without a patience *)

(* The loop's test: Join() takes the result along (an exception is thrown   *)
(* again), both go to sleep on a job that has not ended.                    *)
TestOrSleep(c, how) ==
  /\ IF status \in Done
     THEN /\ ClientGoes(c, <<"idle">>)
          /\ status' = IF how \in {"join", "timedJoin"} THEN "Stopped"
                       ELSE status
     ELSE ClientGoes(c, Waiting(how)) /\ UNCHANGED status
  /\ UNCHANGED <<pooled, source, backgroundThread, thread, worker, destructor,
                 wanted>>

WaitOrJoin(c, how) == MayCall(c) /\ TestOrSleep(c, how)

Resume(c, how) == client[c] = Woken(how) /\ TestOrSleep(c, how)

SpuriousWakeUp(c, how) ==
  /\ client[c] = Waiting(how)
  /\ ClientGoes(c, Woken(how))
  /\ UNCHANGED <<pooled, status, source, backgroundThread, thread, worker,
                 destructor, wanted>>

(* wait_until() reports a timeout: false, whatever the status is by now. *)
TimeOut(c, how) ==
  /\ client[c] \in {Waiting(how), Woken(how)}
  /\ how \in {"timedWait", "timedJoin"}
  /\ ClientGoes(c, <<"idle">>)
  /\ UNCHANGED <<pooled, status, source, backgroundThread, thread, worker,
                 destructor, wanted>>

-----------------------------------------------------------------------------
(* callDoWorkOnConcurrentJob() *)

(* Mutant: the status is not looked at before the first call of DoWork(). *)
EnterAlways(w) ==
  /\ worker[w] = "entry"
  /\ status' = "Running"
  /\ token' = [token EXCEPT ![w] = GetToken]
  /\ worker' = [worker EXCEPT ![w] = "work"]
  /\ wanted' = FALSE
  /\ UNCHANGED <<pooled, sourceStopped, backgroundThread, client, thread,
                 destructor>>

(* A job that was cancelled before it came to run does not run. *)
Enter(w) ==
  /\ worker[w] = "entry"
  /\ IF status = "Canceling"
     THEN /\ status' = "Stopped"
          /\ worker' = [worker EXCEPT ![w] = "notify"]
          /\ UNCHANGED <<token, wanted>>
     ELSE /\ status' = "Running"
          /\ token' = [token EXCEPT ![w] = GetToken]
          /\ worker' = [worker EXCEPT ![w] = "work"]
          /\ wanted' = FALSE
  /\ UNCHANGED <<pooled, sourceStopped, backgroundThread, client, thread,
                 destructor>>

(* Mutant: the repeated call of DoWork() gets the token of the first. *)
RepeatWithOldToken(w) ==
  /\ worker[w] = "work"
  /\ status = "CancelingWithRestart"
  /\ status' = "Running"
  /\ wanted' = FALSE
  /\ UNCHANGED <<pooled, source, backgroundThread, client, thread, worker,
                 destructor>>

(* DoWork() returns or throws to find a restart requested: an exception is  *)
(* dropped and DoWork() called again, with a new token.                     *)
Repeat(w) ==
  /\ worker[w] = "work"
  /\ status = "CancelingWithRestart"
  /\ status' = "Running"
  /\ token' = [token EXCEPT ![w] = GetToken]
  /\ wanted' = FALSE
  /\ UNCHANGED <<pooled, sourceStopped, backgroundThread, client, thread,
                 worker, destructor>>

(* DoWork() returns or throws, and that was it. *)
Finish(w) ==
  /\ worker[w] = "work"
  /\ status # "CancelingWithRestart"
  /\ status' \in {"Succeeded", "Failed"}
  /\ worker' = [worker EXCEPT ![w] = "notify"]
  /\ UNCHANGED <<pooled, source, backgroundThread, client, thread, destructor,
                 wanted>>

(* Mutant: notify_one() instead of notify_all(). *)
NotifyOne(w) ==
  /\ worker[w] = "notify"
  /\ worker' = [worker EXCEPT ![w] = IF pooled THEN "none" ELSE "ended"]
  /\ LET waiting == {c \in Client :
                        \E how \in WaitPoints : client[c] = Waiting(how)}
     IN IF waiting = {}
        THEN UNCHANGED client
        ELSE \E c \in waiting : ClientGoes(c, Woken(client[c][1]))
  /\ destructor' = IF destructor = Waiting("wait") THEN Woken("wait")
                   ELSE destructor
  /\ UNCHANGED <<pooled, status, source, backgroundThread, thread, wanted>>

(* statusChangedCondition.notify_all(), after the mutex has been released.  *)
(* A task of the pool is then over, a thread waits to be joined.            *)
Notify(w) ==
  /\ worker[w] = "notify"
  /\ worker' = [worker EXCEPT ![w] = IF pooled THEN "none" ELSE "ended"]
  /\ client' = [c \in Client |->
                  IF \E how \in WaitPoints : client[c] = Waiting(how)
                  THEN Woken(client[c][1]) ELSE client[c]]
  /\ destructor' = IF destructor = Waiting("wait") THEN Woken("wait")
                   ELSE destructor
  /\ UNCHANGED <<pooled, status, source, backgroundThread, thread, wanted>>

-----------------------------------------------------------------------------
(* ~ConcurrentJob(), once no client uses the job any more *)

DestroyCancel ==
  /\ destructor = <<"alive">>
  /\ \A c \in Client : client[c] = <<"idle">>
  /\ DoCancel
  /\ destructor' = Woken("wait")
  /\ UNCHANGED <<pooled, backgroundThread, client, thread, worker>>

DestroyTest ==
  /\ destructor = Woken("wait")
  /\ destructor' = IF status \in Done THEN <<"joinThread">> ELSE Waiting("wait")
  /\ UNCHANGED <<pooled, status, source, backgroundThread, client, thread,
                 worker, wanted>>

(* Mutant: the thread is not joined. *)
DestroyWithoutJoin ==
  /\ destructor = <<"joinThread">>
  /\ destructor' = <<"destroyed">>
  /\ UNCHANGED <<pooled, status, source, client, thread, worker,
                 backgroundThread, wanted>>

(* backgroundThread is joined, if there is one, and the members destroyed. *)
DestroyJoin ==
  /\ destructor = <<"joinThread">>
  /\ \/ backgroundThread = NoWorker /\ UNCHANGED worker
     \/ /\ backgroundThread # NoWorker
        /\ worker[backgroundThread] = "ended"
        /\ worker' = [worker EXCEPT ![backgroundThread] = "none"]
  /\ destructor' = <<"destroyed">>
  /\ backgroundThread' = NoWorker
  /\ UNCHANGED <<pooled, status, source, client, thread, wanted>>

-----------------------------------------------------------------------------
ClientStep(c) ==
  \/ Spawn(c) \/ Swap(c) \/ JoinOld(c)
  \/ \E how \in WaitPoints : Resume(c, how)

Next ==
  \/ \E c \in Client :
       \/ (pooled \/ c \in Starter) /\ (Start(c) \/ StartOrRestart(c))
       \/ Cancel(c)
       \/ ClientStep(c)
       \/ \E how \in WaitPoints :
            WaitOrJoin(c, how) \/ SpuriousWakeUp(c, how) \/ TimeOut(c, how)
  \/ \E w \in Worker : Enter(w) \/ Repeat(w) \/ Finish(w) \/ Notify(w)
  \/ DestroyCancel \/ DestroyTest \/ DestroyJoin

Spec == Init /\ [][Next]_vars

(* Threads that can take a step take it some time, and a DoWork() that has  *)
(* been asked to stop returns. One that has not may run forever.            *)
Fairness ==
  /\ \A c \in Client : WF_vars(ClientStep(c))
  /\ \A w \in Worker :
       /\ WF_vars(Enter(w) \/ Notify(w))
       /\ WF_vars(token[w] = "stopped" /\ (Repeat(w) \/ Finish(w)))
  /\ WF_vars(DestroyTest) /\ WF_vars(DestroyJoin)

FairSpec == Spec /\ Fairness

-----------------------------------------------------------------------------
(* Properties *)

Working == {w \in Worker : worker[w] = "work"}

(* Types, and that no thread object leaves the scope of a start while there *)
(* is still a thread in it, which would terminate the program.              *)
TypeOK ==
  /\ pooled \in BOOLEAN
  /\ status \in Status
  /\ sourceStopped \in BOOLEAN
  /\ backgroundThread \in Worker \cup {NoWorker}
  /\ client \in [Client -> ClientPoint]
  /\ thread \in [Client -> Worker \cup {NoWorker}]
  /\ \A c \in Client : thread[c] # NoWorker <=>
                        client[c] \in {<<"swap">>, <<"joinOld">>}
  /\ worker \in [Worker -> {"none", "entry", "work", "notify", "ended"}]
  /\ token \in [Worker -> {"current", "stopped", "orphaned"}]
  /\ destructor \in DestructorPoint
  /\ wanted \in BOOLEAN

(* DoWork() never runs twice at a time, however starts, restarts, joins and *)
(* cancellations interleave with the end of a run, and a job whose status   *)
(* says it has ended does not run: the status says what the workers do. A   *)
(* start request stays pending until DoWork() is called for it or a later   *)
(* cancellation revokes it, and nothing else makes DoWork() be called.      *)
StatusMatchesWork ==
  /\ wanted <=> status \in {"Scheduled", "CancelingWithRestart"}
  /\ Cardinality(Working) <= 1
  /\ status \in Done => Working = {}
  /\ status = "Running" => Working # {}

(* A cancellation or restart that comes while DoWork() runs reaches exactly *)
(* the token that this call was given, and one that was meant for an        *)
(* earlier call does not.                                                   *)
CancelReachesWork ==
  \A w \in Working :
    token[w] = IF status = "Running" THEN "current" ELSE "stopped"

(* The worker calls DoWork(), for the first time or again, only if it is    *)
(* asked for: a cancellation that comes before the call prevents it.        *)
WorkOnlyOnDemand ==
  [][\A w \in Worker : Enter(w) \/ Repeat(w) =>
       (worker'[w] = "work" => wanted)]_vars

(* A job that has a thread of its own is destroyed after that thread. *)
ThreadDoesNotOutliveJob ==
  destructor = <<"destroyed">> /\ ~pooled =>
    \A w \in Worker : worker[w] = "none"

(* The destructor's comment: "Wait until the background thread has          *)
(* finished", for a job on either kind of thread.                           *)
WorkerDoesNotOutliveJob ==
  destructor = <<"destroyed">> => \A w \in Worker : worker[w] # "notify"

(* A start request is answered: DoWork() is called or the request revoked.  *)
StartAnswered == wanted ~> ~wanted

(* Nobody stays in Wait() or Join() after the job has ended for good, and   *)
(* the destructor returns.                                                  *)
WaitersReturn ==
  /\ \A c \in Client : []<>(client[c][1] \notin WaitPoints \/ status \notin Done)
  /\ destructor # <<"alive">> ~> destructor = <<"destroyed">>
=============================================================================
