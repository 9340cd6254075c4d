------------------------- MODULE ConcurrentJobProofs -------------------------
(* Theorems about ConcurrentJob, for any clients, any number of which start *)
(* the job, any threads or tasks, and both kinds of job.                    *)
EXTENDS ConcurrentJob, FiniteSetTheorems, TLAPS

(* A worker that calls DoWork() or is on its way there. *)
Engaged(w) == worker[w] \in {"entry", "work"}

(* There is at most one run, from a client that is about to create its      *)
(* worker to the end of DoWork(), and none of a job that has ended.         *)
OneRun ==
  /\ \A c, d \in Client :
       client[c] = <<"spawn">> /\ client[d] = <<"spawn">> => c = d
  /\ \A v, w \in Worker : Engaged(v) /\ Engaged(w) => v = w
  /\ \A c \in Client, w \in Worker : client[c] = <<"spawn">> => ~Engaged(w)
  /\ status \in Done => /\ \A c \in Client : client[c] # <<"spawn">>
                        /\ \A w \in Worker : ~Engaged(w)

(* The status tells how far the run has got and whether it is wanted.       *)
StatusTellsRun ==
  /\ status = "Running" => \E w \in Worker : worker[w] = "work"
  /\ status = "Scheduled" => \A w \in Worker : worker[w] # "work"
  /\ wanted <=> status \in {"Scheduled", "CancelingWithRestart"}

(* A stop source is replaced as soon as it has been asked to stop, so that  *)
(* the token of a run is current until the run is to end.                   *)
TokenTellsRun == sourceStopped = FALSE /\ CancelReachesWork

(* The destructor runs alone.                                               *)
ClientsAreGone ==
  destructor # <<"alive">> => \A c \in Client : client[c] = <<"idle">>

(* A thread is held by somebody until it is joined.                         *)
ThreadsAreHeld ==
  ~pooled => \A w \in Worker :
               worker[w] # "none" => \/ backgroundThread = w
                                     \/ \E c \in Client : thread[c] = w

IInv ==
  /\ TypeOK /\ OneRun /\ StatusTellsRun /\ TokenTellsRun
  /\ ClientsAreGone /\ ThreadsAreHeld /\ ThreadDoesNotOutliveJob

-----------------------------------------------------------------------------

(* A call is inside the condition variable or not, and remembers its kind.  *)
LEMMA WaitsAreApart ==
  ASSUME NEW how \in WaitPoints
  PROVE  /\ Waiting(how) \in ClientPoint /\ Woken(how) \in ClientPoint
         /\ Waiting(how) \notin {<<"idle">>, <<"spawn">>, <<"swap">>, <<"joinOld">>}
         /\ Woken(how) \notin {<<"idle">>, <<"spawn">>, <<"swap">>, <<"joinOld">>}
         /\ Waiting(how) \notin {<<"alive">>, <<"joinThread">>, <<"destroyed">>}
         /\ Woken(how) \notin {<<"alive">>, <<"joinThread">>, <<"destroyed">>}
         /\ Waiting(how)[1] = how
  BY DEF Waiting, Woken, ClientPoint, WaitPoint

(* The other places a client can be in. *)
LEMMA Places ==
  /\ {<<"idle">>, <<"spawn">>, <<"swap">>, <<"joinOld">>} \subseteq ClientPoint
  /\ <<"idle">> \notin {<<"swap">>, <<"joinOld">>}
  /\ <<"spawn">> \notin {<<"swap">>, <<"joinOld">>}
  /\ "wait" \in WaitPoints
  BY DEF ClientPoint, WaitPoints

(* What becomes of the tokens when the stop source is asked to stop or goes. *)
LEMMA TokensStay ==
  ASSUME token \in [Worker -> {"current", "stopped", "orphaned"}]
  PROVE  /\ Stopped(token) \in [Worker -> {"current", "stopped", "orphaned"}]
         /\ Orphaned(token) \in [Worker -> {"current", "stopped", "orphaned"}]
  BY DEF Stopped, Orphaned

(* Each step keeps every variable in its range, and a thread object is held *)
(* by a client exactly from its construction to the end of the exchange.    *)
LEMMA TypeStep == TypeOK /\ [Next]_vars => TypeOK'
<1> SUFFICES ASSUME TypeOK, [Next]_vars PROVE TypeOK'
  OBVIOUS
<1> USE ConcurrentJobAssumption, Places, TokensStay
    DEF TypeOK, Status, Done, ClientGoes, MayCall, source,
        DestructorPoint
<1>1. ASSUME NEW c \in Client, Start(c) \/ StartOrRestart(c) PROVE TypeOK'
  <2>1. /\ MayCall(c)
        /\ \/ Schedule(c) \/ RepeatAfterCancel \/ RestartRunning
           \/ UNCHANGED <<status, source, client>>
        /\ UNCHANGED <<pooled, backgroundThread, thread, worker, destructor>>
    BY <1>1 DEF Start, StartOrRestart
  <2>6. wanted' \in BOOLEAN
    BY <1>1 DEF Start, StartOrRestart
  <2>2. CASE Schedule(c)
    <3>1. /\ sourceStopped' \in BOOLEAN
          /\ token' \in [Worker -> {"current", "stopped", "orphaned"}]
      BY <2>2 DEF Schedule
    <3>2. /\ client' = [client EXCEPT ![c] = <<"spawn">>]
          /\ status' \in Status
      BY <2>2 DEF Schedule
    <3> QED
      BY <2>1, <2>6, <3>1, <3>2
  <2>3. CASE RepeatAfterCancel
    BY <2>1, <2>6, <2>3 DEF RepeatAfterCancel
  <2>4. CASE RestartRunning
    BY <2>1, <2>6, <2>4 DEF RestartRunning, StopAndReplace
  <2>5. CASE UNCHANGED <<status, source, client>>
    BY <2>1, <2>6, <2>5
  <2> QED
    BY <2>1, <2>2, <2>3, <2>4, <2>5
<1>3. ASSUME NEW c \in Client, Cancel(c) PROVE TypeOK'
  BY <1>3 DEF Cancel, DoCancel, StopAndReplace
<1>4. ASSUME NEW c \in Client, Spawn(c) PROVE TypeOK'
  BY <1>4 DEF Spawn
<1>5. ASSUME NEW c \in Client, Swap(c) PROVE TypeOK'
  BY <1>5 DEF Swap
<1>6. ASSUME NEW c \in Client, JoinOld(c) PROVE TypeOK'
  BY <1>6 DEF JoinOld
<1>7. ASSUME NEW c \in Client, NEW how \in WaitPoints,
             WaitOrJoin(c, how) \/ Resume(c, how)
      PROVE TypeOK'
  BY <1>7, WaitsAreApart DEF WaitOrJoin, Resume, TestOrSleep
<1>8. ASSUME NEW c \in Client, NEW how \in WaitPoints,
             SpuriousWakeUp(c, how) \/ TimeOut(c, how)
      PROVE TypeOK'
  BY <1>8, WaitsAreApart DEF SpuriousWakeUp, TimeOut
<1>9. ASSUME NEW w \in Worker, Enter(w) PROVE TypeOK'
  BY <1>9 DEF Enter, GetToken
<1>10. ASSUME NEW w \in Worker, Repeat(w) \/ Finish(w) PROVE TypeOK'
  BY <1>10 DEF Repeat, Finish, GetToken
<1>11. ASSUME NEW w \in Worker, Notify(w) PROVE TypeOK'
  <2>1. worker' \in [Worker -> {"none", "entry", "work", "notify", "ended"}]
    BY <1>11 DEF Notify
  <2>2. ASSUME NEW c \in Client
        PROVE  client'[c] = client[c]
                 \/ \E how \in WaitPoints :
                      client[c] = Waiting(how) /\ client'[c] = Woken(how)
    BY <1>11, WaitsAreApart DEF Notify
  <2>3. destructor' \in {destructor, Woken("wait")}
    BY <1>11 DEF Notify
  <2> QED
    BY <1>11, <2>1, <2>2, <2>3, WaitsAreApart DEF Notify
<1>12. CASE DestroyCancel
  BY <1>12, WaitsAreApart DEF DestroyCancel, DoCancel, StopAndReplace
<1>13. CASE DestroyTest
  BY <1>13, WaitsAreApart DEF DestroyTest
<1>14. CASE DestroyJoin
  BY <1>14 DEF DestroyJoin
<1>15. CASE UNCHANGED vars
  BY <1>15 DEF vars
<1> QED
  BY <1>1, <1>3, <1>4, <1>5, <1>6, <1>7, <1>8, <1>9, <1>10, <1>11,
     <1>12, <1>13, <1>14, <1>15 DEF Next, ClientStep

-----------------------------------------------------------------------------

(* What a step does that neither begins, redirects nor ends a run.          *)
Quiet ==
  /\ \A c \in Client : client'[c] = <<"spawn">> <=> client[c] = <<"spawn">>
  /\ \A w \in Worker : Engaged(w)' <=> Engaged(w)
  /\ \A w \in Worker : worker'[w] = "work" <=> worker[w] = "work"
  /\ status' = status \/ (status \in Done /\ status' = "Stopped")
  /\ UNCHANGED <<sourceStopped, token, wanted>>

(* What a start, a restart and a cancellation come down to.                 *)
Begins(c) == MayCall(c) /\ Schedule(c) /\ UNCHANGED worker /\ wanted' = TRUE

Redirects ==
  /\ RepeatAfterCancel \/ RestartRunning
  /\ UNCHANGED worker
  /\ wanted' = TRUE

Revokes == DoCancel /\ UNCHANGED <<client, worker>>

(* A start of a job whose start is pending changes nothing, and one of a    *)
(* job that runs is not remembered; other calls go three ways.              *)
LEMMA StartSteps ==
  ASSUME TypeOK, StatusTellsRun, NEW c \in Client, Start(c) \/ StartOrRestart(c)
  PROVE  Begins(c) \/ Redirects \/ Quiet
<1> USE DEF TypeOK, Begins, Redirects, StatusTellsRun
<1>1. CASE Schedule(c)
  BY <1>1 DEF Start, StartOrRestart, Schedule, Done
<1>2. CASE RepeatAfterCancel
  BY <1>2 DEF Start, StartOrRestart, RepeatAfterCancel
<1>3. CASE RestartRunning
  BY <1>3 DEF Start, StartOrRestart, Schedule, RepeatAfterCancel,
              RestartRunning, Done
<1>4. CASE UNCHANGED <<status, source, client>>
  <2>1. wanted' = wanted
    BY <1>4 DEF Start, StartOrRestart, Schedule, RepeatAfterCancel, RestartRunning, Done
  <2> QED
    BY <1>4, <2>1 DEF Start, StartOrRestart, Quiet, source, Engaged
<1> QED
  BY <1>1, <1>2, <1>3, <1>4 DEF Start, StartOrRestart

(* Waiting, joining and exchanging threads are quiet.                       *)
LEMMA QuietClients ==
  ASSUME TypeOK, NEW c \in Client,
         \/ Swap(c) \/ JoinOld(c)
         \/ \E how \in WaitPoints :
              \/ WaitOrJoin(c, how) \/ Resume(c, how)
              \/ SpuriousWakeUp(c, how) \/ TimeOut(c, how)
  PROVE  Quiet
<1> USE DEF TypeOK, Quiet, Engaged, source, ClientGoes, MayCall
<1>1. CASE Swap(c)
  BY <1>1 DEF Swap
<1>2. CASE JoinOld(c)
  BY <1>2 DEF JoinOld
<1>3. ASSUME NEW how \in WaitPoints, WaitOrJoin(c, how) \/ Resume(c, how)
      PROVE Quiet
  <2>1. client[c] = <<"idle">> \/ client[c] = Woken(how)
    BY <1>3 DEF WaitOrJoin, Resume
  <2>2. client' \in {[client EXCEPT ![c] = <<"idle">>],
                     [client EXCEPT ![c] = Waiting(how)]}
    BY <1>3 DEF WaitOrJoin, Resume, TestOrSleep
  <2>3. /\ <<"idle">> # <<"spawn">>
        /\ Woken(how) # <<"spawn">> /\ Waiting(how) # <<"spawn">>
    BY WaitsAreApart
  <2>4. ASSUME NEW d \in Client
        PROVE  client'[d] = <<"spawn">> <=> client[d] = <<"spawn">>
    BY <2>1, <2>2, <2>3
  <2>5. /\ status' = status \/ (status \in Done /\ status' = "Stopped")
        /\ UNCHANGED <<source, worker, wanted>>
    BY <1>3 DEF WaitOrJoin, Resume, TestOrSleep
  <2> QED
    BY <2>4, <2>5
<1>4. ASSUME NEW how \in WaitPoints, SpuriousWakeUp(c, how) \/ TimeOut(c, how)
      PROVE Quiet
  BY <1>4, WaitsAreApart DEF SpuriousWakeUp, TimeOut
<1> QED
  BY <1>1, <1>2, <1>3, <1>4

(* So are notifying and the rest of the destructor.                         *)
LEMMA QuietElsewhere ==
  ASSUME TypeOK,
         \/ \E w \in Worker : Notify(w)
         \/ DestroyTest \/ DestroyJoin \/ UNCHANGED vars
  PROVE  Quiet
<1> USE DEF TypeOK, Quiet, Engaged, source
<1>1. ASSUME NEW w \in Worker, Notify(w) PROVE Quiet
  <2>1. ASSUME NEW c \in Client
        PROVE  client'[c] = <<"spawn">> <=> client[c] = <<"spawn">>
    BY <1>1, WaitsAreApart DEF Notify
  <2>2. worker' \in {[worker EXCEPT ![w] = "none"], [worker EXCEPT ![w] = "ended"]}
    BY <1>1 DEF Notify
  <2>3. worker[w] = "notify" /\ UNCHANGED <<status, source, wanted>>
    BY <1>1 DEF Notify
  <2> QED
    BY <2>1, <2>2, <2>3
<1>2. CASE DestroyTest
  BY <1>2 DEF DestroyTest
<1>3. CASE DestroyJoin
  BY <1>3 DEF DestroyJoin
<1>4. CASE UNCHANGED vars
  BY <1>4 DEF vars
<1> QED
  BY <1>1, <1>2, <1>3, <1>4

(* All steps, as the run sees them.                                         *)
LEMMA Steps ==
  ASSUME TypeOK, StatusTellsRun, [Next]_vars
  PROVE  \/ Quiet \/ Redirects \/ Revokes
         \/ \E c \in Client : Begins(c) \/ Spawn(c)
         \/ \E w \in Worker : Enter(w) \/ Repeat(w) \/ Finish(w)
<1>1. ASSUME NEW c \in Client, Cancel(c) PROVE Revokes
  BY <1>1 DEF Cancel, Revokes
<1>2. CASE DestroyCancel
  BY <1>2 DEF DestroyCancel, Revokes
<1>3. ASSUME DestroyTest \/ DestroyJoin \/ UNCHANGED vars PROVE Quiet
  BY <1>3, QuietElsewhere
<1>4. ASSUME NEW c \in Client,
             \/ Swap(c) \/ JoinOld(c)
             \/ \E how \in WaitPoints :
                  \/ WaitOrJoin(c, how) \/ Resume(c, how)
                  \/ SpuriousWakeUp(c, how) \/ TimeOut(c, how)
      PROVE Quiet
  BY <1>4, QuietClients
<1>5. ASSUME NEW w \in Worker, Notify(w) PROVE Quiet
  BY <1>5, QuietElsewhere
<1> QED
  BY <1>1, <1>2, <1>3, <1>4, <1>5, StartSteps DEF Next, ClientStep

-----------------------------------------------------------------------------

(* A quiet step keeps whatever is said about the run.                       *)
LEMMA QuietKeepsRun ==
  ASSUME OneRun, StatusTellsRun, TokenTellsRun, Quiet
  PROVE  OneRun' /\ StatusTellsRun' /\ TokenTellsRun'
<1> USE DEF Quiet
<1>1. OneRun'
  BY DEF OneRun, Done
<1>2. StatusTellsRun'
  BY DEF StatusTellsRun, Done
<1>3. TokenTellsRun'
  BY DEF TokenTellsRun, CancelReachesWork, Working, StatusTellsRun, OneRun,
         Done, Engaged
<1> QED
  BY <1>1, <1>2, <1>3

(* Only one client and one worker at a time carry the run on: a start       *)
(* passes it to the client, its Spawn() to a worker, and Finish() ends it.  *)
LEMMA OneRunStep ==
  TypeOK /\ OneRun /\ StatusTellsRun /\ TokenTellsRun /\ [Next]_vars => OneRun'
<1> SUFFICES ASSUME TypeOK, OneRun, StatusTellsRun, TokenTellsRun, [Next]_vars
             PROVE  OneRun'
  OBVIOUS
<1> USE DEF OneRun, Engaged, Done
<1>1. CASE Quiet
  BY <1>1, QuietKeepsRun
<1>2. CASE Redirects
  BY <1>2 DEF Redirects, RepeatAfterCancel, RestartRunning
<1>3. CASE Revokes
  BY <1>3 DEF Revokes, DoCancel
<1>4. ASSUME NEW c \in Client, Begins(c) PROVE OneRun'
  BY <1>4 DEF Begins, Schedule, ClientGoes, TypeOK
<1>5. ASSUME NEW c \in Client, Spawn(c) PROVE OneRun'
  BY <1>5 DEF Spawn, ClientGoes, TypeOK
<1>6. ASSUME NEW w \in Worker, Enter(w) PROVE OneRun'
  BY <1>6 DEF Enter, TypeOK
<1>7. ASSUME NEW w \in Worker, Repeat(w) PROVE OneRun'
  BY <1>7 DEF Repeat
<1>8. ASSUME NEW w \in Worker, Finish(w) PROVE OneRun'
  BY <1>8 DEF Finish, TypeOK
<1> QED
  BY <1>1, <1>2, <1>3, <1>4, <1>5, <1>6, <1>7, <1>8, Steps

(* The status follows the run, and only a start makes it wanted.            *)
LEMMA StatusStep ==
  TypeOK /\ OneRun /\ StatusTellsRun /\ TokenTellsRun /\ [Next]_vars
    => StatusTellsRun'
<1> SUFFICES ASSUME TypeOK, OneRun, StatusTellsRun, TokenTellsRun, [Next]_vars
             PROVE  StatusTellsRun'
  OBVIOUS
<1> USE DEF StatusTellsRun
<1>1. CASE Quiet
  BY <1>1, QuietKeepsRun
<1>2. CASE Redirects
  BY <1>2 DEF Redirects, RepeatAfterCancel, RestartRunning
<1>3. CASE Revokes
  BY <1>3 DEF Revokes, DoCancel
<1>4. ASSUME NEW c \in Client, Begins(c) PROVE StatusTellsRun'
  BY <1>4 DEF Begins, Schedule, OneRun, Engaged
<1>5. ASSUME NEW c \in Client, Spawn(c) PROVE StatusTellsRun'
  BY <1>5 DEF Spawn, TypeOK
<1>6. ASSUME NEW w \in Worker, Enter(w) PROVE StatusTellsRun'
  BY <1>6 DEF Enter, TypeOK
<1>7. ASSUME NEW w \in Worker, Repeat(w) PROVE StatusTellsRun'
  BY <1>7 DEF Repeat
<1>8. ASSUME NEW w \in Worker, Finish(w) PROVE StatusTellsRun'
  BY <1>8 DEF Finish
<1> QED
  BY <1>1, <1>2, <1>3, <1>4, <1>5, <1>6, <1>7, <1>8, Steps

(* A stop request reaches the token of the only run, and a call of DoWork() *)
(* begins with a token that nobody has asked to stop.                       *)
LEMMA TokenStep ==
  TypeOK /\ OneRun /\ StatusTellsRun /\ TokenTellsRun /\ [Next]_vars
    => TokenTellsRun'
<1> SUFFICES ASSUME TypeOK, OneRun, StatusTellsRun, TokenTellsRun, [Next]_vars
             PROVE  TokenTellsRun'
  OBVIOUS
<1> USE DEF TokenTellsRun, CancelReachesWork, Working
<1>1. CASE Quiet
  BY <1>1, QuietKeepsRun
<1>2. CASE Redirects
  BY <1>2 DEF Redirects, RepeatAfterCancel, RestartRunning, source,
              StopAndReplace, Stopped, TypeOK
<1>3. CASE Revokes
  BY <1>3 DEF Revokes, DoCancel, source, StopAndReplace, Stopped, TypeOK,
              StatusTellsRun
<1>4. ASSUME NEW c \in Client, Begins(c) PROVE TokenTellsRun'
  BY <1>4 DEF Begins, Schedule, OneRun, Engaged, source
<1>5. ASSUME NEW c \in Client, Spawn(c) PROVE TokenTellsRun'
  BY <1>5 DEF Spawn, source, TypeOK
<1>6. ASSUME NEW w \in Worker, Enter(w) PROVE TokenTellsRun'
  BY <1>6 DEF Enter, GetToken, OneRun, Engaged, TypeOK
<1>7. ASSUME NEW w \in Worker, Repeat(w) PROVE TokenTellsRun'
  BY <1>7 DEF Repeat, GetToken, OneRun, Engaged, TypeOK
<1>8. ASSUME NEW w \in Worker, Finish(w) PROVE TokenTellsRun'
  BY <1>8 DEF Finish, source, OneRun, Engaged, TypeOK
<1> QED
  BY <1>1, <1>2, <1>3, <1>4, <1>5, <1>6, <1>7, <1>8, Steps

(* Nobody calls a method of a job that is being destroyed.                  *)
LEMMA ClientsStep == TypeOK /\ ClientsAreGone /\ [Next]_vars => ClientsAreGone'
<1> SUFFICES ASSUME TypeOK, ClientsAreGone, [Next]_vars,
                    destructor' # <<"alive">>, NEW c \in Client
             PROVE  client'[c] = <<"idle">>
  BY DEF ClientsAreGone
<1> USE DEF ClientsAreGone, ClientGoes, MayCall
<1>1. CASE destructor = <<"alive">>
  <2>1. destructor' = destructor \/ DestroyCancel
    BY <1>1, WaitsAreApart, Places DEF Next, Start, StartOrRestart, Cancel,
         ClientStep, Spawn, Swap, JoinOld, Resume, WaitOrJoin, TestOrSleep,
         SpuriousWakeUp, TimeOut, Enter, Repeat, Finish, Notify, DestroyTest,
         DestroyJoin, vars
  <2> QED
    BY <1>1, <2>1 DEF DestroyCancel
<1>2. CASE destructor # <<"alive">>
  <2>1. ASSUME NEW d \in Client
        PROVE  /\ client[d] = <<"idle">>
               /\ ~(Start(d) \/ StartOrRestart(d) \/ Cancel(d))
               /\ ~(Spawn(d) \/ Swap(d) \/ JoinOld(d))
    BY <1>2 DEF Start, StartOrRestart, Cancel, Spawn, Swap, JoinOld
  <2>2. ASSUME NEW d \in Client, NEW how \in WaitPoints
        PROVE  /\ ~WaitOrJoin(d, how) /\ ~Resume(d, how)
               /\ ~SpuriousWakeUp(d, how) /\ ~TimeOut(d, how)
    BY <1>2, <2>1, WaitsAreApart DEF WaitOrJoin, Resume, SpuriousWakeUp, TimeOut
  <2>3. ASSUME NEW w \in Worker, Notify(w) PROVE client'[c] = <<"idle">>
    BY <2>1, <2>3, WaitsAreApart DEF Notify
  <2>4. ASSUME NEW w \in Worker, Enter(w) \/ Repeat(w) \/ Finish(w)
        PROVE  UNCHANGED client
    BY <2>4 DEF Enter, Repeat, Finish
  <2>5. ASSUME DestroyCancel \/ DestroyTest \/ DestroyJoin \/ UNCHANGED vars
        PROVE  UNCHANGED client
    BY <2>5 DEF DestroyCancel, DestroyTest, DestroyJoin, vars
  <2> QED
    BY <2>1, <2>2, <2>3, <2>4, <2>5 DEF Next, ClientStep
<1> QED
  BY <1>1, <1>2

(* A thread passes from the client that made it to the job and from there   *)
(* to the next client that exchanges it, until it has been joined.          *)
LEMMA HeldStep == TypeOK /\ ThreadsAreHeld /\ [Next]_vars => ThreadsAreHeld'
<1> SUFFICES ASSUME TypeOK, ThreadsAreHeld, [Next]_vars,
                    ~pooled', NEW v \in Worker, worker'[v] # "none"
             PROVE  \/ backgroundThread' = v
                    \/ \E c \in Client : thread'[c] = v
  BY DEF ThreadsAreHeld
<1> DEFINE Held == backgroundThread' = v \/ \E c \in Client : thread'[c] = v
<1> USE DEF ThreadsAreHeld
<1>1. ASSUME UNCHANGED <<pooled, worker, backgroundThread, thread>> PROVE Held
  BY <1>1
<1>2. ASSUME NEW c \in Client, Spawn(c) PROVE Held
  <2>1. thread[c] = NoWorker
    BY <1>2, Places DEF Spawn, TypeOK
  <2>2. PICK w \in Worker : /\ worker' = [worker EXCEPT ![w] = "entry"]
                           /\ thread' = [thread EXCEPT ![c] = w]
    BY <1>2 DEF Spawn
  <2>3. UNCHANGED backgroundThread /\ thread'[c] = w
    BY <1>2, <2>2 DEF Spawn, TypeOK
  <2>4. CASE v = w
    BY <2>3, <2>4
  <2>5. CASE v # w
    BY <1>2, <2>1, <2>2, <2>3, <2>5, ConcurrentJobAssumption DEF Spawn, TypeOK
  <2> QED
    BY <2>4, <2>5
<1>3. ASSUME NEW c \in Client, Swap(c) PROVE Held
  BY <1>3 DEF Swap, TypeOK
<1>4. ASSUME NEW c \in Client, JoinOld(c) PROVE Held
  BY <1>4 DEF JoinOld, TypeOK
<1>5. ASSUME NEW w \in Worker, Enter(w) \/ Repeat(w) \/ Finish(w) \/ Notify(w)
      PROVE  Held
  BY <1>5 DEF Enter, Repeat, Finish, Notify, TypeOK
<1>6. CASE DestroyJoin
  BY <1>6 DEF DestroyJoin, TypeOK
<1>7. ASSUME NEW c \in Client,
             \/ Start(c) \/ StartOrRestart(c) \/ Cancel(c)
             \/ \E how \in WaitPoints :
                  \/ WaitOrJoin(c, how) \/ Resume(c, how)
                  \/ SpuriousWakeUp(c, how) \/ TimeOut(c, how)
      PROVE  Held
  BY <1>1, <1>7 DEF Start, StartOrRestart, Cancel, WaitOrJoin, Resume,
       TestOrSleep, SpuriousWakeUp, TimeOut
<1>8. CASE DestroyCancel \/ DestroyTest \/ UNCHANGED vars
  BY <1>1, <1>8 DEF DestroyCancel, DestroyTest, vars
<1> QED
  BY <1>2, <1>3, <1>4, <1>5, <1>6, <1>7, <1>8 DEF Next, ClientStep

(* When the destructor has joined the job's thread, there is no other one:  *)
(* no client is left to hold any.                                           *)
LEMMA JoinedStep ==
  TypeOK /\ ClientsAreGone /\ ThreadsAreHeld /\ ThreadDoesNotOutliveJob
    /\ [Next]_vars => ThreadDoesNotOutliveJob'
<1> SUFFICES ASSUME TypeOK, ClientsAreGone, ThreadsAreHeld,
                    ThreadDoesNotOutliveJob, [Next]_vars,
                    destructor' = <<"destroyed">>, ~pooled', NEW w \in Worker
             PROVE  worker'[w] = "none"
  BY DEF ThreadDoesNotOutliveJob
<1>1. CASE DestroyJoin
  <2>1. \A c \in Client : client[c] = <<"idle">>
    BY <1>1 DEF DestroyJoin, ClientsAreGone
  <2>2. \A c \in Client : thread[c] = NoWorker
    BY <2>1, Places DEF TypeOK
  <2>3. worker[w] # "none" => backgroundThread = w
    <3>1. ~pooled
      BY <1>1 DEF DestroyJoin
    <3> QED
      BY <2>2, <3>1, ConcurrentJobAssumption DEF ThreadsAreHeld
  <2>4. w # NoWorker
    BY ConcurrentJobAssumption
  <2> QED
    BY <1>1, <2>3, <2>4 DEF DestroyJoin, TypeOK
<1>2. CASE ~DestroyJoin
  <2>1. destructor = <<"destroyed">> /\ ~pooled
    BY <1>2, WaitsAreApart, Places DEF Next, Start, StartOrRestart, Cancel,
         ClientStep, Spawn, Swap, JoinOld, Resume, WaitOrJoin, TestOrSleep,
         SpuriousWakeUp, TimeOut, Enter, Repeat, Finish, Notify,
         DestroyCancel, DestroyTest, vars
  <2>2. /\ \A v \in Worker : worker[v] = "none"
        /\ \A c \in Client : client[c] = <<"idle">>
    BY <2>1 DEF ThreadDoesNotOutliveJob, ClientsAreGone
  <2>3. /\ \A c \in Client : ~Spawn(c) /\ ~JoinOld(c)
        /\ \A v \in Worker : ~Enter(v) /\ ~Repeat(v) /\ ~Finish(v) /\ ~Notify(v)
    BY <2>2 DEF Spawn, JoinOld, Enter, Repeat, Finish, Notify
  <2>4. UNCHANGED worker
    BY <1>2, <2>3 DEF Next, Start, StartOrRestart, Cancel, ClientStep, Swap,
         Resume, WaitOrJoin, TestOrSleep, SpuriousWakeUp, TimeOut,
         DestroyCancel, DestroyTest, vars
  <2> QED
    BY <2>2, <2>4
<1> QED
  BY <1>1, <1>2

-----------------------------------------------------------------------------

(* The inductive invariant holds in the first state and in every later one. *)
THEOREM Invariance == Spec => []IInv
<1>1. Init => IInv
  <2> SUFFICES ASSUME Init PROVE IInv
    OBVIOUS
  <2> USE ConcurrentJobAssumption, Places DEF Init
  <2>1. TypeOK
    BY DEF TypeOK, Status, Done, DestructorPoint
  <2>2. OneRun /\ StatusTellsRun /\ TokenTellsRun
    BY DEF OneRun, Engaged, StatusTellsRun, Done, TokenTellsRun,
           CancelReachesWork, Working
  <2>3. ClientsAreGone /\ ThreadsAreHeld /\ ThreadDoesNotOutliveJob
    BY DEF ClientsAreGone, ThreadsAreHeld, ThreadDoesNotOutliveJob
  <2> QED
    BY <2>1, <2>2, <2>3 DEF IInv
<1>2. IInv /\ [Next]_vars => IInv'
  BY TypeStep, OneRunStep, StatusStep, TokenStep, ClientsStep, HeldStep,
     JoinedStep DEF IInv
<1> QED
  BY <1>1, <1>2, PTL DEF Spec

(* Every variable stays in its range, and no std::thread is destroyed while *)
(* it still holds a thread.                                                 *)
THEOREM TypeCorrectness == Spec => []TypeOK
BY Invariance, PTL DEF IInv

(* DoWork() never runs twice at a time, never for a job whose status says   *)
(* it has ended, and always for one that says it is running.                *)
THEOREM StatusIsTrue == Spec => []StatusMatchesWork
<1>1. IInv => StatusMatchesWork
  <2> SUFFICES ASSUME IInv PROVE StatusMatchesWork
    OBVIOUS
  <2> USE DEF IInv
  <2>1. Cardinality(Working) <= 1
    <3>1. CASE Working = {}
      BY <3>1, FS_EmptySet
    <3>2. CASE Working # {}
      <4>1. PICK w \in Worker : Working = {w}
        BY <3>2 DEF Working, OneRun, Engaged
      <4>2. Cardinality(Working) = 1
        BY <4>1, FS_Singleton, Zenon
      <4> QED
        BY <4>2
    <3> QED
      BY <3>1, <3>2
  <2>2. /\ status \in Done => Working = {}
        /\ status = "Running" => Working # {}
    BY DEF OneRun, Engaged, StatusTellsRun, Working
  <2> QED
    BY <2>1, <2>2 DEF StatusMatchesWork, StatusTellsRun
<1> QED
  BY <1>1, Invariance, PTL

(* A cancellation reaches the token of the call of DoWork() that runs.      *)
THEOREM CancellationReachesRun == Spec => []CancelReachesWork
<1>1. IInv => CancelReachesWork
  BY DEF IInv, TokenTellsRun
<1> QED
  BY <1>1, Invariance, PTL

(* DoWork() is called only while a start is pending.                        *)
THEOREM WorkIsDemanded == Spec => WorkOnlyOnDemand
<1>1. IInv /\ [Next]_vars =>
        [\A w \in Worker : Enter(w) \/ Repeat(w) =>
           (worker'[w] = "work" => wanted)]_vars
  <2> SUFFICES ASSUME IInv, NEW w \in Worker, Enter(w) \/ Repeat(w),
                      worker'[w] = "work"
               PROVE  wanted
    OBVIOUS
  <2>1. CASE Enter(w)
    BY <2>1 DEF IInv, TypeOK, Status, OneRun, StatusTellsRun, Engaged, Enter
  <2>2. CASE Repeat(w)
    BY <2>2 DEF IInv, StatusTellsRun, Repeat
  <2> QED
    BY <2>1, <2>2
<1> QED
  BY <1>1, Invariance, PTL DEF Spec, WorkOnlyOnDemand

(* A job with a thread of its own is gone only when all its threads are.    *)
THEOREM NoThreadOutlivesJob == Spec => []ThreadDoesNotOutliveJob
<1>1. IInv => ThreadDoesNotOutliveJob
  BY DEF IInv
<1> QED
  BY <1>1, Invariance, PTL
=============================================================================
