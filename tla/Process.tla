------------------------------ MODULE Process ------------------------------
(* Nuclex::Support::Threading::Process: a client starts another program,    *)
(* feeds and drains its pipes, waits for it and kills it                    *)
(* (Source/Threading/Process.Linux.cpp and Process.Windows.cpp). The client *)
(* makes one call after the other while the child runs beside it.           *)
(*                                                                          *)
(* Both intercepted output streams are treated alike and are one here, and  *)
(* pipes hold a number of portions. Calls that throw because the process is *)
(* not started, or started already, change nothing and are left out.        *)
EXTENDS Integers, Sequences

CONSTANTS PipeSize,   \* portions that fit into a pipe
          MaxStarts,  \* bound: how often the client starts the program
          MaxOutput   \* bound: portions that each child writes

VARIABLES impl,    \* PlatformDependentImplementationData
          client,  \* the call in progress: its steps to come and its variables
          child,   \* the process under the id that impl has or had
          pipe,    \* portions in stdin and in the output pipe
          log      \* history

vars == <<impl, client, child, pipe, log>>

ProcessAssumption == PipeSize \in Nat /\ MaxStarts \in Nat /\ MaxOutput \in Nat

(* The stage is that of the destructor, if it runs: what it has guarded with *)
(* try, or what comes after that.                                           *)
Idle == [todo |-> <<>>, stage |-> "call", phase |-> "pump", result |-> FALSE,
         patience |-> TRUE]
NoChild == [state |-> "none", killed |-> FALSE, written |-> 0]
EmptyPipes == [stdin |-> 0, out |-> 0]

Init ==
  /\ \E p \in {"linux", "windows"} :
       impl = [platform |-> p, started |-> FALSE, finished |-> FALSE, open |-> FALSE,
               masked |-> FALSE, destroyed |-> FALSE]
  /\ client = Idle
  /\ child = NoChild
  /\ pipe = EmptyPipes
  /\ log = [starts |-> 0, lost |-> 0, stranger |-> "none", impatient |-> FALSE]

Windows == impl.platform = "windows"
Underway == client.todo # <<>> \/ client.stage # "call"
Free == ~Underway /\ ~impl.destroyed
Calls(steps) == client' = [Idle EXCEPT !.todo = steps]
At(step) == client.todo # <<>> /\ Head(client.todo) = step
Rest == Tail(client.todo)
Goes(steps) == client' = [client EXCEPT !.todo = steps]

(* An exception ends the call, or the stage in which the destructor is. *)
Throws == Goes(<<>>)

-----------------------------------------------------------------------------
(* Start() *)

Launched ==
  /\ impl' = [impl EXCEPT !.started = TRUE, !.finished = FALSE, !.open = TRUE]
  /\ pipe' = EmptyPipes
  /\ UNCHANGED client

(* The child is forked first and then looks for its program. *)
StartLinux ==
  /\ Free /\ ~Windows /\ ~impl.started /\ log.starts < MaxStarts
  /\ Launched
  /\ child' = [NoChild EXCEPT !.state = "forked"]
  /\ log' = [log EXCEPT !.starts = @ + 1]

(* executeChildProcess(): without a program to run, the exception leaves    *)
(* Start() in the child, too, which goes on as a copy of the client.        *)
ExecuteChildProcess ==
  /\ child.state = "forked"
  /\ \E s \in {"running", "copy"} : child' = [child EXCEPT !.state = s]
  /\ UNCHANGED <<impl, client, pipe, log>>

(* Without a program to run, CreateProcess() fails in the client. *)
StartWindows ==
  /\ Free /\ Windows /\ ~impl.started /\ log.starts < MaxStarts
  /\ \/ Launched /\ child' = [NoChild EXCEPT !.state = "running"]
     \/ UNCHANGED <<impl, pipe, client, child>>
  /\ log' = [log EXCEPT !.starts = @ + 1]

-----------------------------------------------------------------------------
(* The child *)

Alive == child.state \in {"forked", "running", "copy"}

ChildWrites ==
  /\ child.state = "running" /\ impl.open /\ ~child.killed
  /\ child.written < MaxOutput /\ pipe.out < PipeSize
  /\ pipe' = [pipe EXCEPT !.out = @ + 1]
  /\ child' = [child EXCEPT !.written = @ + 1]
  /\ UNCHANGED <<impl, client, log>>

ChildReads ==
  /\ child.state = "running" /\ pipe.stdin > 0
  /\ pipe' = [pipe EXCEPT !.stdin = @ - 1]
  /\ UNCHANGED <<impl, client, child, log>>

(* On its own account, or because it was asked to or killed. It remains as  *)
(* a zombie, or as a process object, until its exit code was fetched.       *)
ChildExits ==
  /\ Alive
  /\ child' = [child EXCEPT !.state = "exited"]
  /\ UNCHANGED <<impl, client, pipe, log>>

-----------------------------------------------------------------------------
(* IsRunning(): on Linux the zombie is reaped, and its id may be given to   *)
(* another process.                                                         *)
Reaped ==
  /\ child' = [child EXCEPT !.state = "gone"]
  /\ impl' = [impl EXCEPT !.finished = TRUE]

IsRunningLinux ==
  /\ Free /\ ~Windows /\ impl.started /\ ~impl.finished
  /\ child.state = "exited"
  /\ Reaped
  /\ UNCHANGED <<client, pipe, log>>

(* Write(). The flag that was to make the pipe non-blocking was set as a descriptor  *)
(* flag, which it is not: a write to the full pipe blocks. Without a reader *)
(* the client gets an exception, or the signal SIGPIPE.                     *)
WriteLinux ==
  /\ At("write") /\ ~Windows
  /\ pipe.stdin < PipeSize \/ ~Alive
  /\ pipe' = IF Alive THEN [pipe EXCEPT !.stdin = @ + 1] ELSE pipe
  /\ Goes(Rest)
  /\ UNCHANGED <<impl, child, log>>

(* A full pipe takes nothing. *)
WriteWindows ==
  /\ At("write") /\ Windows
  /\ pipe' = IF Alive /\ pipe.stdin < PipeSize
             THEN [pipe EXCEPT !.stdin = @ + 1] ELSE pipe
  /\ Goes(Rest)
  /\ UNCHANGED <<impl, child, log>>

(* PumpOutputStreams(): what is in the pipe goes to the subscribers. *)
Drained == [pipe EXCEPT !.out = 0]

PumpOutputStreams ==
  /\ Free /\ impl.started
  /\ pipe' = Drained
  /\ UNCHANGED <<impl, client, child, log>>

-----------------------------------------------------------------------------
(* Wait(), Join(), Kill() and the destructor as sequences of steps *)

(* Mutant: Windows' Join() does not drain the pipe once more. *)
JoinWithoutPump == <<"poll", "timeout", "close">>

JoinSteps == <<"wait", "timeout", "close">>

JoinStepsWindows == <<"poll", "timeout", "pump", "close">>

Joins == IF Windows THEN JoinStepsWindows ELSE JoinSteps

(* With a patience of zero, Linux does not ask the child to exit before. *)
KillSteps(ask) == (IF ask THEN <<"ask">> ELSE <<>>) \o <<"wait", "kill">>
KillStepsWindows == <<"ask", "wait", "kill">>
Kills(ask) == IF Windows THEN KillStepsWindows ELSE KillSteps(ask)

(* ~Process(): Kill() if the child still runs, Join(), and what they throw  *)
(* is ignored.                                                              *)
Enters(stage, steps) == client' = [Idle EXCEPT !.stage = stage, !.todo = steps]
BeginDestructor(running) ==
  \/ ~impl.started /\ Enters("end", <<"destroy">>)
  \/ impl.started /\ running /\ Enters("kill", Kills(TRUE))
  \/ impl.started /\ ~running /\ Enters("join", Joins)
BeginDestructorLinux == ~Windows /\ BeginDestructor(~impl.finished)
BeginDestructorWindows == Windows /\ BeginDestructor(Alive)

Call ==
  /\ Free
  /\ \/ /\ impl.started
        /\ \/ Calls(<<"wait">>) \/ Calls(<<"write">>) \/ Calls(Joins)
           \/ \E ask \in BOOLEAN : Calls(Kills(ask))
     \/ BeginDestructorLinux \/ BeginDestructorWindows
  /\ UNCHANGED <<impl, child, pipe, log>>

(* The signal SIGCHLD is blocked for the thread while it waits. That this   *)
(* was done is not noted, and so it is never undone.                        *)
BeginWait ==
  /\ At("wait")
  /\ IF impl.finished
     THEN client' = [client EXCEPT !.todo = Rest, !.result = TRUE] /\ UNCHANGED impl
     ELSE /\ client' = [client EXCEPT !.todo = <<"loop">> \o Rest, !.phase = "pump",
                                      !.patience = TRUE]
          /\ impl' = [impl EXCEPT !.masked = @ \/ ~Windows]
  /\ UNCHANGED <<child, pipe, log>>

(* The same loop in Join() on Windows looks before it drains. *)
BeginJoinWindows ==
  /\ At("poll")
  /\ client' = [client EXCEPT !.todo = <<"loop">> \o Rest, !.phase = "look",
                              !.patience = TRUE]
  /\ UNCHANGED <<impl, child, pipe, log>>

LoopPump ==
  /\ At("loop") /\ client.phase = "pump"
  /\ pipe' = Drained
  /\ client' = [client EXCEPT !.phase = "look"]
  /\ UNCHANGED <<impl, child, log>>

LoopLook ==
  /\ At("loop") /\ client.phase = "look"
  /\ IF child.state = "exited"
     THEN /\ client' = [client EXCEPT !.todo = Rest, !.result = TRUE]
          /\ IF Windows THEN UNCHANGED <<impl, child>> ELSE Reaped
     ELSE client' = [client EXCEPT !.phase = "tired"] /\ UNCHANGED <<impl, child>>
  /\ UNCHANGED <<pipe, log>>

(* HasTimedOut(), GetTickCount() *)
LoopTired ==
  /\ At("loop") /\ client.phase = "tired"
  /\ client' = IF client.patience THEN [client EXCEPT !.phase = "pump"]
               ELSE [client EXCEPT !.todo = Rest, !.result = FALSE]
  /\ UNCHANGED <<impl, child, pipe, log>>

PatienceElapses ==
  /\ At("loop") /\ client.patience
  /\ client' = [client EXCEPT !.patience = FALSE]
  /\ UNCHANGED <<impl, child, pipe, log>>

(* RequestProcessTermination(), KillProcess(): a signal to the id that was  *)
(* reaped reaches a process that got it since, or nobody, which throws.     *)
Ask ==
  /\ At("ask")
  /\ \/ child.state # "gone" /\ Goes(Rest) /\ UNCHANGED log
     \/ child.state = "gone"
        /\ \/ Throws /\ UNCHANGED log
           \/ /\ Goes(Rest)
              /\ log' = [log EXCEPT !.stranger =
                           IF client.stage = "call" THEN "Kill" ELSE "destructor"]
  /\ UNCHANGED <<impl, child, pipe>>

(* On Windows a child that exited meanwhile cannot be terminated. *)
KillProcess ==
  /\ At("kill")
  /\ \/ client.result /\ Goes(Rest) /\ UNCHANGED child
     \/ ~client.result /\ Alive /\ Goes(Rest) /\ child' = [child EXCEPT !.killed = TRUE]
     \/ ~client.result /\ ~Alive /\ UNCHANGED child
        /\ IF Windows THEN Throws ELSE Goes(Rest)
  /\ UNCHANGED <<impl, pipe, log>>

(* TimeoutError *)
ThrowTimeout ==
  /\ At("timeout")
  /\ IF client.result THEN Goes(Rest) /\ UNCHANGED log
     ELSE Throws /\ log' = [log EXCEPT !.impatient = TRUE]
  /\ UNCHANGED <<impl, child, pipe>>

PumpBeforeClose ==
  /\ At("pump")
  /\ pipe' = Drained
  /\ Goes(Rest)
  /\ UNCHANGED <<impl, child, log>>

(* The end of Join(): what is still in the pipe is lost. A child that was   *)
(* ended by a signal makes Join() throw afterwards.                         *)
Close ==
  /\ At("close")
  /\ impl' = [impl EXCEPT !.started = FALSE, !.finished = FALSE, !.open = FALSE]
  /\ child' = [child EXCEPT !.state = "gone"]
  /\ log' = [log EXCEPT !.lost = @ + pipe.out]
  /\ pipe' = EmptyPipes
  /\ Goes(Rest) \/ Throws

Catch ==
  /\ client.todo = <<>>
  /\ \/ client.stage = "kill" /\ Enters("join", Joins)
     \/ client.stage = "join" /\ Enters("end", <<"destroy">>)
  /\ UNCHANGED <<impl, child, pipe, log>>

Destroy ==
  /\ At("destroy")
  /\ impl' = [impl EXCEPT !.destroyed = TRUE]
  /\ client' = Idle
  /\ UNCHANGED <<child, pipe, log>>

ClientStep ==
  \/ WriteLinux \/ WriteWindows \/ BeginWait \/ BeginJoinWindows
  \/ LoopPump \/ LoopLook \/ LoopTired \/ Ask \/ KillProcess \/ ThrowTimeout
  \/ PumpBeforeClose \/ Close \/ Catch \/ Destroy

Next ==
  \/ StartLinux \/ StartWindows \/ IsRunningLinux \/ PumpOutputStreams \/ Call
  \/ ClientStep \/ PatienceElapses
  \/ ExecuteChildProcess \/ ChildWrites \/ ChildReads \/ ChildExits

Fairness == WF_vars(ClientStep) /\ WF_vars(PatienceElapses)
Spec == Init /\ [][Next]_vars
FairSpec == Spec /\ Fairness

-----------------------------------------------------------------------------
(* Properties *)

TypeOK ==
  /\ impl.started => impl.open
  /\ impl.finished => child.state = "gone"
  /\ client.phase \in {"pump", "look", "tired"}
  /\ pipe.stdin \in 0..PipeSize /\ pipe.out \in 0..PipeSize
  /\ child.written \in 0..MaxOutput
  /\ log.starts \in 0..MaxStarts

(* Only an explicit Kill() of a child that is known to have ended can reach *)
(* another process.                                                         *)
StrangersAreSafe == log.stranger # "destructor"

(* The Windows build loses no output. On Linux, output written just before  *)
(* the child exits is lost when Join() closes the pipe.                     *)
OutputReadBeforeClose == log.lost > 0 => ~Windows

(* A process object that is gone leaves no child and no open pipe behind,   *)
(* unless the last millisecond's patience was not enough.                   *)
NothingLeftBehind ==
  impl.destroyed /\ ~log.impatient => ~impl.open /\ child.state \in {"none", "gone"}

(* A Wait() that says that the child ended is right. *)
WaitIsRight ==
  At("close") => child.state \in {"exited", "gone"}

(* Every call returns, but a write on Linux to a pipe that the child does   *)
(* not read.                                                                *)
CallsReturn == []<>(~Underway \/ (At("write") /\ ~Windows))
=============================================================================
