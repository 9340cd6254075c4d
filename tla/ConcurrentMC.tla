---------------------------- MODULE ConcurrentMC ----------------------------
(* Model checking of the components that several threads or processes use   *)
(* at a time: the concurrent event, the service provider and the child      *)
(* process. They do not interact; a behaviour exercises one of them, its    *)
(* subject, and the others stay in their initial states.                    *)
EXTENDS Integers, Sequences

CONSTANTS Thread, Callback, Address, None, Scope, Scripts,
          SmallestCapacity, MaxChanges,     \* of the event,
          MaxCalls,                         \* of the services,
          PipeSize, MaxStarts, MaxOutput    \* and of the process

VARIABLES subject,
          subscribers, recyclableSubscribers, queue, call, fault, revived,
          changes, overtaken,
          script, bindings, slots, mutex, contexts, requests, outcome,
          impl, client, child, pipe, log

(* How an application registers services (ServiceCollection.h). Services are *)
(* numbered in the order of their type_index. What a factory needs is a     *)
(* sequence of <<method, service>>, the requests it makes when called.      *)
Add(lifetime, s, provided, needs) ==
  [lifetime |-> lifetime, service |-> s, provided |-> provided, needs |-> needs]

AddSingleton(s, needs) == Add("singleton", s, FALSE, needs)
AddSingletonInstance(s) == Add("singleton", s, TRUE, <<>>)
AddScoped(s, needs) == Add("scoped", s, FALSE, needs)
AddScopedInstance(s) == Add("scoped", s, TRUE, <<>>)
AddTransient(s, needs) == Add("transient", s, FALSE, needs)
AddTransientPrototype(s) == Add("transient", s, TRUE, <<>>)
RemoveAll(s) == [lifetime |-> "removed", service |-> s]

(* What applications register: a scoped and a singleton service below a     *)
(* transient one; a cycle; several bindings of a service, and one that      *)
(* changes its lifetime; factory methods used by factories.                 *)
ApplicationScripts == {
  <<AddTransient(3, <<<<"get", 1>>>>), AddScoped(1, <<<<"get", 2>>>>),
    AddSingleton(2, <<>>)>>,
  <<AddSingleton(1, <<<<"get", 2>>>>), AddTransient(2, <<<<"try", 1>>>>)>>,
  <<AddScoped(1, <<>>), AddSingleton(1, <<>>), AddSingletonInstance(1),
    AddTransientPrototype(2), RemoveAll(2), AddScopedInstance(3),
    AddScoped(2, <<<<"all", 1>>, <<"try", 3>>>>)>>,
  <<AddSingleton(1, <<<<"factory", 2>>>>), AddSingleton(2, <<>>),
    AddTransient(3, <<<<"scope", 3>>>>)>>}

Event == INSTANCE ConcurrentEvent
Services == INSTANCE Services
Process == INSTANCE Process

ASSUME ConcurrentAssumption ==
  /\ Event!ConcurrentEventAssumption
  /\ Services!ServicesAssumption
  /\ Process!ProcessAssumption

eventVars == <<subscribers, recyclableSubscribers, queue, call, fault, revived,
               changes, overtaken>>
serviceVars == <<script, bindings, slots, mutex, contexts, requests, outcome>>
processVars == <<impl, client, child, pipe, log>>
vars == <<subject, eventVars, serviceVars, processVars>>

Init ==
  /\ subject \in {"event", "services", "process"}
  /\ Event!Init /\ Process!Init
  /\ Services!Init
  /\ subject # "services" => script = CHOOSE S \in Scripts : TRUE
  /\ subject # "process" => impl.platform = "linux"

OfEvent(step) ==
  subject = "event" /\ step /\ UNCHANGED <<subject, serviceVars, processVars>>
OfServices(step) ==
  subject = "services" /\ step /\ UNCHANGED <<subject, eventVars, processVars>>
OfProcess(step) ==
  subject = "process" /\ step /\ UNCHANGED <<subject, eventVars, serviceVars>>

Next ==
  \/ OfEvent(Event!Next) \/ OfServices(Services!Next) \/ OfProcess(Process!Next)

Fairness ==
  /\ \A t \in Thread :
       WF_vars(OfEvent(Event!Step(t)) \/ OfServices(Services!Continue(t)))
  /\ WF_vars(OfProcess(Process!ClientStep))
  /\ WF_vars(OfProcess(Process!PatienceElapses))

FairSpec == Init /\ [][Next]_vars /\ Fairness

-----------------------------------------------------------------------------
(* Properties, taken from the modules *)

(* Every component's variables are what they are meant to be. *)
TypeOK == Event!TypeOK /\ Services!TypeOK /\ Process!TypeOK

(* The subscriber arrays: what the counters count, that nobody uses an array*)
(* that was freed, and when a thread is left without one.                   *)
ArraysOutliveReaders ==
  /\ Event!ReferencesCounted /\ Event!NoUseAfterFree
  /\ Event!FailsOnlyWhenOvertaken

(* No array changes while somebody holds it, and no subscriber is lost but  *)
(* to two other changes that are made during a single one.                  *)
SubscriptionsAreKept ==
  Event!HeldArraysStay /\ Event!ChangesOnlyLostWhenOvertakenTwice

(* One instance of each singleton and scoped service, in the right slot,    *)
(* after the instances it depends on; a cycle is reported where there is    *)
(* one, and every mutex has an owner that will release it.                  *)
ResolutionIsSound ==
  /\ Services!OneInstanceEach /\ Services!SlotsHoldTheirBinding
  /\ Services!DependenciesFirst /\ Services!CyclesAreReal /\ Services!MutexesAccounted

(* A child is reaped and its output read; nobody else is killed.            *)
ChildrenAreAccounted ==
  /\ Process!StrangersAreSafe /\ Process!OutputReadBeforeClose
  /\ Process!NothingLeftBehind /\ Process!WaitIsRight

(* Every call comes to an end. *)
CallsReturn == Event!CallsReturn /\ Services!RequestsEnd /\ Process!CallsReturn
=============================================================================
