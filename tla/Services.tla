------------------------------ MODULE Services ------------------------------
(* Dependency injection: StandardServiceCollection, the provider it builds, *)
(* and service scopes (Source/Services, Include/Nuclex/Support/Services).   *)
(*                                                                          *)
(* A request is worked off as a sequence of jobs: locking a mutex,          *)
(* activating a binding in the current resolution context, opening another  *)
(* context for it, or throwing. A service's factory makes requests of its   *)
(* own, and each thread has a stack of contexts with the factories that run *)
(* in them. Reading a presence flag, locking a mutex and finishing a        *)
(* factory are separate steps.                                              *)
EXTENDS Integers, Sequences, FiniteSets, SequencesExt

CONSTANTS Thread,
          Scope,      \* service scopes that may be created
          Scripts,    \* what the application registers, see below
          MaxCalls    \* bound: requests that each thread makes

VARIABLES script,     \* registrations still to be made
          bindings,   \* the StandardBindingSet, by lifetime and service
          slots,      \* instances and presence flags, of the root and of scopes
          mutex,      \* who holds the ChangeMutex of an instance set
          contexts,   \* ResolutionContexts of each thread, innermost last
          requests,   \* how many requests each thread has made
          outcome     \* how each thread's latest request ended

vars == <<script, bindings, slots, mutex, contexts, requests, outcome>>

Root == "root"                  \* the StandardServiceProvider
Lifetime == {"singleton", "scoped", "transient"}
Nobody == "nobody"
NoEntry == [lifetime |-> "none", service |-> 0, nr |-> 0]

-----------------------------------------------------------------------------
Service == {op.service : op \in UNION {ToSet(S) : S \in Scripts}}

(* What a factory may ask of the provider it is given, and what may be      *)
(* registered. An instance or prototype that is provided needs nothing.     *)
Need == {"get", "try", "all", "factory", "scope"} \X Service
Registration ==
  {op \in [lifetime : Lifetime, service : Service, provided : BOOLEAN, needs : Seq(Need)] :
     op.provided => op.needs = <<>>}
  \cup [lifetime : {"removed"}, service : Service]

ServicesAssumption ==
  /\ Nobody \notin Thread /\ MaxCalls \in Nat
  /\ IsFiniteSet(Service) /\ Service \subseteq Nat \ {0}
  /\ Scripts \subseteq Seq(Registration)

Init ==
  /\ script \in Scripts
  /\ bindings = [l \in Lifetime |-> [s \in Service |-> <<>>]]
  /\ slots = <<>>
  /\ mutex = [h \in {Root} \cup Scope |-> Nobody]
  /\ contexts = [t \in Thread |-> <<>>]
  /\ requests = [t \in Thread |-> 0]
  /\ outcome = [t \in Thread |-> "none"]

(* AddServiceBinding(), AddPrototypedService(), RemoveAll(): a service has  *)
(* bindings of one lifetime only.                                           *)
Registered(op) ==
  [l \in Lifetime |->
     [bindings[l] EXCEPT ![op.service] =
        IF l = op.lifetime THEN Append(@, op) ELSE <<>>]]

Register ==
  /\ Root \notin DOMAIN slots
  /\ script # <<>>
  /\ bindings' = Registered(Head(script))
  /\ script' = Tail(script)
  /\ UNCHANGED <<slots, mutex, contexts, requests, outcome>>

Count(lifetime, services) ==
  Cardinality(UNION {{s} \X DOMAIN bindings[lifetime][s] : s \in services})

(* GenerateUniqueIndexes(): the position in the multimap, by service first. *)
UniqueServiceIndex(e) == Count(e.lifetime, {s \in Service : s < e.service}) + e.nr

(* The constructor of StandardInstanceSet. An instance that was placed into *)
(* an occupied slot leaks the one before; some threads have that one.       *)
EmptySlot == [made |-> 0, of |-> NoEntry, guarded |-> TRUE]
InstanceSet(lifetime) == [i \in 1..Count(lifetime, Service) |-> EmptySlot]

BuildServiceProvider ==
  /\ Root \notin DOMAIN slots
  /\ script = <<>>
  /\ slots' = [h \in {Root} |-> InstanceSet("singleton")]
  /\ UNCHANGED <<script, bindings, mutex, contexts, requests, outcome>>

(* By the provider or by another scope *)
CreateScope(h) ==
  /\ Root \in DOMAIN slots
  /\ h \notin DOMAIN slots
  /\ slots' = [g \in DOMAIN slots \cup {h} |->
                 IF g = h THEN InstanceSet("scoped") ELSE slots[g]]
  /\ UNCHANGED <<script, bindings, mutex, contexts, requests, outcome>>

-----------------------------------------------------------------------------
(* From requests to jobs *)

Lock(m) == [do |-> "lock", mutex |-> m, entry |-> NoEntry, peek |-> FALSE]
Activate(e) == [do |-> "activate", mutex |-> "", entry |-> e, peek |-> FALSE]
Open(e, peek) == [do |-> "open", mutex |-> "", entry |-> e, peek |-> peek]
Throw == [do |-> "throw", mutex |-> "", entry |-> NoEntry, peek |-> FALSE]

Entries(l, s) ==
  [i \in DOMAIN bindings[l][s] |-> [lifetime |-> l, service |-> s, nr |-> i]]

(* The first of some lifetimes the service is bound with *)
FirstBound(lifetimes, s) ==
  LET bound == {i \in DOMAIN lifetimes : bindings[lifetimes[i]][s] # <<>>}
  IN IF bound = {} THEN <<>> ELSE Entries(lifetimes[Min(bound)], s)

(* findLast(), for the root and for scopes *)
LastBound(lifetimes, s) ==
  LET all == FirstBound(lifetimes, s) IN IF all = <<>> THEN all ELSE <<Last(all)>>
RootLifetimes == <<"singleton", "transient">>
ScopeLifetimes == <<"scoped", "singleton", "transient">>

Each(entries, Job(_)) == [i \in DOMAIN entries |-> Job(entries[i])]
OrThrow(jobs) == IF jobs = <<>> THEN <<Throw>> ELSE jobs
OrNothing(method, jobs) == IF method = "try" THEN jobs ELSE OrThrow(jobs)

(* Requests by the application: each binding gets a resolution context of   *)
(* its own, unless its presence flag is looked at first, and set.           *)
FromRoot(e) == Open(e, e.lifetime = "singleton")
FromScope(e) == Open(e, e.lifetime = "scoped")
FromFactory(e) == Open(e, e.lifetime # "transient")

RootGetService(method, s) ==
  OrNothing(method, Each(LastBound(RootLifetimes, s), FromRoot))
RootGetServiceFactory(s) ==
  OrThrow(Each(LastBound(RootLifetimes, s), FromFactory))
RootGetServices(s) == Each(FirstBound(RootLifetimes, s), FromRoot)

ScopeGetService(method, s) ==
  OrNothing(method, Each(LastBound(ScopeLifetimes, s), FromScope))
ScopeGetServiceFactory(s) ==
  OrThrow(Each(LastBound(ScopeLifetimes, s), FromFactory))
ScopeGetServices(s) == Each(FirstBound(ScopeLifetimes, s), FromScope)

(* Requests by factories, in the context they run in. The mutex of the      *)
(* singletons is held in the context of the root. In the context of a scope *)
(* it is acquired for singletons, but the scope's own mutex is not.         *)
InRoot(entries) == Each(entries, Activate)
InScope(entries) ==
  (IF entries # <<>> /\ entries[1].lifetime = "singleton"
   THEN <<Lock(Root)>> ELSE <<>>) \o Each(entries, Activate)

RootContextGetService(method, s) ==
  OrNothing(method, InRoot(LastBound(RootLifetimes, s)))
RootContextGetServiceFactory(s) == RootGetServiceFactory(s)
RootContextGetServices(s) == InRoot(FirstBound(RootLifetimes, s))

ScopeContextGetService(method, s) ==
  OrNothing(method, InScope(LastBound(ScopeLifetimes, s)))
ScopeContextGetServiceFactory(s) == ScopeGetServiceFactory(s)
ScopeContextGetServices(s) == InScope(FirstBound(ScopeLifetimes, s))

JobsOutside(h, method, s) ==
  CASE method \in {"get", "try"} ->
         IF h = Root THEN RootGetService(method, s) ELSE ScopeGetService(method, s)
    [] method = "factory" ->
         IF h = Root THEN RootGetServiceFactory(s) ELSE ScopeGetServiceFactory(s)
    [] method = "all" ->
         IF h = Root THEN RootGetServices(s) ELSE ScopeGetServices(s)

(* A factory method for a service is called right away, while the service   *)
(* that asked for it is constructed; a scope cannot be created there.       *)
JobsInside(h, method, s) ==
  CASE method \in {"get", "try"} ->
         IF h = Root THEN RootContextGetService(method, s)
         ELSE ScopeContextGetService(method, s)
    [] method = "factory" ->
         IF h = Root THEN RootContextGetServiceFactory(s)
         ELSE ScopeContextGetServiceFactory(s)
    [] method = "all" ->
         IF h = Root THEN RootContextGetServices(s) ELSE ScopeContextGetServices(s)
    [] method = "scope" -> <<Throw>>

-----------------------------------------------------------------------------
(* Working off jobs *)

Frame(e, todo) == [entry |-> e, todo |-> todo]
Context(h, frame) == [via |-> h, locks |-> {}, frames |-> <<frame>>]

Binding(e) == bindings[e.lifetime][e.service][e.nr]
InstanceSetOf(h, e) == IF e.lifetime = "singleton" THEN Root ELSE h
SlotOf(h, e) == slots[InstanceSetOf(h, e)][UniqueServiceIndex(e)]
IsAlreadyCreated(h, e) == e.lifetime # "transient" /\ SlotOf(h, e).made > 0

Current(t) == Last(contexts[t])
Top(t) == Last(Current(t).frames)
Busy(t) == contexts[t] # <<>>
Due(t, do) == Busy(t) /\ Top(t).todo # <<>> /\ Head(Top(t).todo).do = do
Job(t) == Head(Top(t).todo)

(* The stack of a thread with another innermost context, or context's frame *)
WithContext(t, c) == [contexts EXCEPT ![t] = Append(Front(@), c)]
WithFrames(t, c, frames) == WithContext(t, [c EXCEPT !.frames = frames])
TopDone(t) == [Top(t) EXCEPT !.todo = Tail(@)]
FramesDone(t) == Append(Front(Current(t).frames), TopDone(t))
JobDone(t) == contexts' = WithFrames(t, Current(t), FramesDone(t))

(* A request by the application *)
Request(t, h, method, s) ==
  /\ ~Busy(t)
  /\ h \in DOMAIN slots
  /\ requests[t] < MaxCalls
  /\ requests' = [requests EXCEPT ![t] = @ + 1]
  /\ contexts' = [contexts EXCEPT ![t] =
       <<Context(h, Frame(NoEntry, JobsOutside(h, method, s)))>>]
  /\ outcome' = [outcome EXCEPT ![t] = "none"]
  /\ UNCHANGED <<script, bindings, slots, mutex>>

(* An instance that is there is returned without taking the mutex. Else a   *)
(* new context is opened; for a transient service, nothing is locked yet.   *)
Peek(t) ==
  /\ Due(t, "open")
  /\ LET e == Job(t).entry
         h == Current(t).via
         own == CASE e.lifetime = "singleton" -> <<Lock(Root)>>
                  [] e.lifetime = "scoped" -> <<Lock(h)>>
                  [] e.lifetime = "transient" -> <<>>
     IN IF Job(t).peek /\ IsAlreadyCreated(h, e)
        THEN JobDone(t)
        ELSE contexts' = [contexts EXCEPT ![t] =
               Append(WithFrames(t, Current(t), FramesDone(t))[t],
                      Context(h, Frame(NoEntry, own \o <<Activate(e)>>)))]
  /\ UNCHANGED <<script, bindings, slots, mutex, requests, outcome>>

(* AcquireSingletonChangeMutex(), AcquireScopedChangeMutex(): once for each *)
(* context. Another context of the same thread does not count, and the      *)
(* mutex is not recursive.                                                  *)
Acquire(t) ==
  /\ Due(t, "lock")
  /\ LET m == Job(t).mutex IN
     \/ m \in Current(t).locks /\ JobDone(t) /\ UNCHANGED mutex
     \/ /\ m \notin Current(t).locks
        /\ mutex[m] = Nobody
        /\ mutex' = [mutex EXCEPT ![m] = t]
        /\ contexts' = WithFrames(t, [Current(t) EXCEPT !.locks = @ \cup {m}],
                                  FramesDone(t))
  /\ UNCHANGED <<script, bindings, slots, requests, outcome>>

(* The resolutionStack *)
UnderConstruction(t) ==
  {Current(t).frames[i].entry.service : i \in DOMAIN Current(t).frames} \ {0}

(* What has to happen before an instance is there: its factory's requests.  *)
(* The factory of a transient service runs under the singletons' mutex.     *)
Construction(t, e) ==
  LET b == Binding(e)
      inside == FlattenSeq([i \in DOMAIN b.needs |->
                  JobsInside(Current(t).via, b.needs[i][1], b.needs[i][2])])
  IN IF e.lifetime = "transient" /\ ~b.provided THEN <<Lock(Root)>> \o inside
     ELSE inside

(* Mutant: the presence flag is not read again under the mutex. *)
ActivateUnseen(t) ==
  /\ Due(t, "activate")
  /\ LET e == Job(t).entry
     IN /\ e.service \notin UnderConstruction(t)
        /\ contexts' = WithFrames(t, Current(t),
                         Append(FramesDone(t), Frame(e, Construction(t, e))))
        /\ UNCHANGED slots
  /\ UNCHANGED <<script, bindings, mutex, requests, outcome>>

(* ActivateSingletonService(), ActivateScopedService() and                  *)
(* ActivateTransientService(), up to where the factory is called            *)
ActivateService(t) ==
  /\ Due(t, "activate")
  /\ LET e == Job(t).entry
         h == InstanceSetOf(Current(t).via, e)
     IN \/ /\ IsAlreadyCreated(Current(t).via, e)
           /\ JobDone(t)
           /\ UNCHANGED slots
        \/ /\ ~IsAlreadyCreated(Current(t).via, e)
           /\ e.service \notin UnderConstruction(t)
           /\ contexts' = WithFrames(t, Current(t),
                            Append(FramesDone(t), Frame(e, Construction(t, e))))
           /\ slots' = IF e.lifetime = "transient" THEN slots
                       ELSE [slots EXCEPT ![h][UniqueServiceIndex(e)].guarded =
                               @ /\ h \in Current(t).locks]
  /\ UNCHANGED <<script, bindings, mutex, requests, outcome>>

(* The factory returns, and the instance is put into its slot. *)
Construct(t) ==
  /\ Busy(t) /\ Top(t).todo = <<>> /\ Top(t).entry # NoEntry
  /\ LET e == Top(t).entry
         h == InstanceSetOf(Current(t).via, e)
     IN slots' = IF e.lifetime = "transient" THEN slots
                 ELSE [slots EXCEPT ![h][UniqueServiceIndex(e)] =
                         [SlotOf(h, e) EXCEPT !.made = @ + 1, !.of = e]]
  /\ contexts' = WithFrames(t, Current(t), Front(Current(t).frames))
  /\ UNCHANGED <<script, bindings, mutex, requests, outcome>>

Released(held) == [m \in DOMAIN mutex |-> IF m \in held THEN Nobody ELSE mutex[m]]

(* The destructor of a ResolutionContext, and with the outermost one the    *)
(* end of the request                                                       *)
CloseContext(t) ==
  /\ Busy(t) /\ Top(t).todo = <<>> /\ Top(t).entry = NoEntry
  /\ mutex' = Released(Current(t).locks)
  /\ contexts' = [contexts EXCEPT ![t] = Front(@)]
  /\ outcome' = IF Len(contexts[t]) = 1
                THEN [outcome EXCEPT ![t] = "returned"] ELSE outcome
  /\ UNCHANGED <<script, bindings, slots, requests>>

(* Mutant: an exception leaves the mutexes locked. *)
UnwindLocked(t, what) ==
  /\ contexts' = [contexts EXCEPT ![t] = <<>>]
  /\ outcome' = [outcome EXCEPT ![t] = what]
  /\ UNCHANGED <<script, bindings, slots, mutex, requests>>

(* An exception goes through all the factories and contexts of the request. *)
Unwind(t, what) ==
  /\ mutex' = Released(UNION {c.locks : c \in ToSet(contexts[t])})
  /\ contexts' = [contexts EXCEPT ![t] = <<>>]
  /\ outcome' = [outcome EXCEPT ![t] = what]
  /\ UNCHANGED <<script, bindings, slots, requests>>

(* UnresolvedDependencyError, or a scope requested in a resolution chain    *)
ThrowUnresolved(t) == Due(t, "throw") /\ Unwind(t, "unresolved")

(* CheckForDependencyCycle() *)
ThrowCyclic(t) ==
  /\ Due(t, "activate")
  /\ ~IsAlreadyCreated(Current(t).via, Job(t).entry)
  /\ Job(t).entry.service \in UnderConstruction(t)
  /\ Unwind(t, "cyclic")

(* A factory, or the copy of a prototype, may throw. *)
FactoryThrows(t) ==
  /\ Busy(t) /\ Top(t).todo = <<>> /\ Top(t).entry # NoEntry
  /\ Unwind(t, "failed")

Continue(t) ==
  \/ Peek(t) \/ Acquire(t) \/ ActivateService(t) \/ Construct(t)
  \/ CloseContext(t) \/ ThrowUnresolved(t) \/ ThrowCyclic(t) \/ FactoryThrows(t)

Next ==
  \/ Register \/ BuildServiceProvider
  \/ \E h \in Scope : CreateScope(h)
  \/ \E t \in Thread :
       \/ Continue(t)
       \/ \E h \in DOMAIN slots, s \in Service,
             method \in {"get", "try", "all", "factory"} : Request(t, h, method, s)

Fairness == \A t \in Thread : WF_vars(Continue(t))
Spec == Init /\ [][Next]_vars
FairSpec == Spec /\ Fairness

-----------------------------------------------------------------------------
(* Properties *)

Contexts(t) == ToSet(contexts[t])

TypeOK ==
  /\ \A h \in DOMAIN slots : \A i \in DOMAIN slots[h] : slots[h][i].made \in 0..2
  /\ \A m \in DOMAIN mutex : mutex[m] \in Thread \cup {Nobody}
  /\ \A t \in Thread :
       /\ requests[t] \in 0..MaxCalls
       /\ \A c \in Contexts(t) :
            Len(c.frames) <= Cardinality(Service) + 1 /\ c.locks \subseteq DOMAIN mutex
       /\ outcome[t] \in {"none", "returned", "unresolved", "cyclic", "failed"}

(* Each mutex is held by the one context that says so. *)
MutexesAccounted ==
  \A m \in DOMAIN mutex, t \in Thread :
    Cardinality({i \in DOMAIN contexts[t] : m \in contexts[t][i].locks})
      = IF mutex[m] = t THEN 1 ELSE 0

(* An instance that is found for a binding is one that this binding made. *)
SlotsHoldTheirBinding ==
  \A h \in DOMAIN slots, s \in Service :
    \A e \in ToSet(Entries(IF h = Root THEN "singleton" ELSE "scoped", s)) :
      SlotOf(h, e).made > 0 => SlotOf(h, e).of = e

(* One instance for each provider or scope (ServiceLifetime.h). For scoped  *)
(* services that takes the scope's mutex, which requests by factories do    *)
(* not acquire.                                                             *)
OneInstanceEach ==
  \A h \in DOMAIN slots : \A i \in DOMAIN slots[h] :
    slots[h][i].made > 1 => h # Root /\ ~slots[h][i].guarded

(* An instance is there only after everything its factory asked for.        *)
DependenciesFirst ==
  \A h \in DOMAIN slots : \A i \in DOMAIN slots[h] :
    slots[h][i].made > 0 =>
      \A need \in ToSet(Binding(slots[h][i].of).needs) :
        \A l \in {"singleton", "scoped"} :
          LET es == Entries(l, need[2]) IN
          need[1] # "try" /\ es # <<>> =>
            \/ IsAlreadyCreated(h, Last(es))
            \/ l = "scoped" /\ h = Root

(* A dependency cycle is reported only where there is one. *)
Needs(s) == UNION {{need[2] : need \in ToSet(b.needs)} :
                   b \in UNION {ToSet(bindings[l][s]) : l \in Lifetime}}
CyclesAreReal ==
  (\E t \in Thread : outcome[t] = "cyclic") =>
    \E C \in (SUBSET Service) \ {{}} : \A s \in C : Needs(s) \cap C # {}

(* Every request comes to an end, unless a factory calls the factory method *)
(* of another service: that opens a second context, which waits for the     *)
(* mutex that the first one holds.                                          *)
NestsFactories == \E l \in Lifetime, s \in Service :
  \E i \in DOMAIN bindings[l][s] : \E need \in ToSet(bindings[l][s][i].needs) :
    need[1] = "factory"
RequestsEnd == \A t \in Thread : []<>(~Busy(t) \/ NestsFactories)
=============================================================================
