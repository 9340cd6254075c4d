-------------------------- MODULE ConcurrentEvent --------------------------
(* Nuclex::Support::Events::ConcurrentEvent (Include/Nuclex/Support/Events/ *)
(* ConcurrentEvent.h): threads subscribe, unsubscribe and fire. The current *)
(* array of subscribers is never changed but replaced by a changed copy; a  *)
(* reference count keeps it while somebody fires, and one array that is no  *)
(* longer used is kept for the next change.                                 *)
(*                                                                          *)
(* What is done under the spin lock is one action, and so is every atomic   *)
(* operation with the private work up to the next one. A callback that      *)
(* changes subscriptions is like a thread that does so meanwhile.           *)
EXTENDS Integers, Sequences, FiniteSets

CONSTANTS Thread, Callback,  \* threads, and delegates they subscribe
          Address,           \* of arrays that can exist at the same time
          None,              \* nullptr
          SmallestCapacity,  \* 4 in the code
          MaxChanges         \* bound: calls of Subscribe() and Unsubscribe()

ConcurrentEventAssumption ==
  /\ IsFiniteSet(Thread) /\ None \notin Address
  /\ SmallestCapacity \in Nat \ {0} /\ MaxChanges \in Nat

VARIABLES subscribers, recyclableSubscribers,
          queue,    \* what is at each address, a BroadcastQueue if live
          call,     \* what each thread has yet to do, and its local variables
          fault,    \* undefined behaviour, which ends the program
          revived,  \* history: arrays put to use without a reference
          changes,  \* history: how many changes were begun
          overtaken \* history: changes made since a thread read subscribers

vars == <<subscribers, recyclableSubscribers, queue, call, fault, revived,
          changes, overtaken>>
history == <<fault, revived, changes, overtaken>>

NoCall == [todo |-> <<>>, delegate |-> None, held |-> None, current |-> None,
           fresh |-> None, spare |-> None, index |-> 0]
NoQueue == [live |-> FALSE, refs |-> 0, capacity |-> 0, callbacks |-> <<>>]

Init ==
  /\ subscribers = None
  /\ recyclableSubscribers = None
  /\ queue = [a \in Address |-> NoQueue]
  /\ call = [t \in Thread |-> NoCall]
  /\ fault = "none"
  /\ revived = {}
  /\ changes = 0
  /\ overtaken = [t \in Thread |-> 0]

PowersOfTwo(n) ==
  LET power[k \in 0..n] == IF k = 0 THEN 1 ELSE 2 * power[k - 1]
  IN {power[k] : k \in 0..n}

(* allocateBroadcastQueue() and BitTricks::GetUpperPowerOfTwo() *)
CapacityFor(n) ==
  IF n <= SmallestCapacity THEN SmallestCapacity
  ELSE CHOOSE c \in PowersOfTwo(n) : n <= c /\ c < 2 * n

Allocated(callbacks) ==
  [live |-> TRUE, refs |-> 1, capacity |-> CapacityFor(Len(callbacks)),
   callbacks |-> callbacks]

At(t, step) == call[t].todo # <<>> /\ Head(call[t].todo) = step
Has(t, step) == \E i \in DOMAIN call[t].todo : call[t].todo[i] = step
Rest(t) == Tail(call[t].todo)

(* A thread has a list of steps to come and its locals in a call, until     *)
(* there is nothing left to do.                                             *)
Goes(t, todo, locals) ==
  call' = [call EXCEPT ![t] = IF todo = <<>> THEN NoCall
                              ELSE [locals EXCEPT !.todo = todo]]

-----------------------------------------------------------------------------
(* References, recycling and allocation *)

(* Mutant: the array is read without taking a reference. *)
AcquireUncounted(t, found, missing, locals) ==
  /\ Goes(t, IF subscribers = None THEN missing ELSE found,
          [locals EXCEPT !.held = subscribers, !.current = subscribers])
  /\ overtaken' = [overtaken EXCEPT ![t] = 0]
  /\ UNCHANGED <<subscribers, recyclableSubscribers, queue, fault, revived>>

(* Every method fetches the current array and a reference to it under the   *)
(* spin lock.                                                               *)
Acquire(t, found, missing, locals) ==
  LET a == subscribers IN
  /\ IF a = None
     THEN Goes(t, missing, [locals EXCEPT !.current = None]) /\ UNCHANGED queue
     ELSE /\ Goes(t, found, [locals EXCEPT !.held = a, !.current = a])
          /\ queue' = [queue EXCEPT ![a].refs = @ + 1]
  /\ overtaken' = [overtaken EXCEPT ![t] = 0]
  /\ UNCHANGED <<subscribers, recyclableSubscribers, fault, revived>>

(* Who drops the last reference has to recycle the array. The counter is    *)
(* unsigned: a negative one here is one that wraps around there.            *)
DropReference(t, a, locals) ==
  /\ queue' = [queue EXCEPT ![a].refs = @ - 1]
  /\ IF queue[a].refs = 1
     THEN Goes(t, <<"recycle">> \o Rest(t), [locals EXCEPT !.spare = a])
     ELSE Goes(t, Rest(t), locals)
  /\ UNCHANGED <<subscribers, recyclableSubscribers, history>>

(* The destructor of ReleaseBroadcastQueueScope *)
Release(t) ==
  /\ At(t, "release")
  /\ DropReference(t, call[t].held, [call[t] EXCEPT !.held = None])

(* The reference of the event itself, once another array is current *)
DropReplaced(t) ==
  /\ At(t, "drop")
  /\ DropReference(t, call[t].current, call[t])

Freed(a, queues) ==
  IF a = None THEN queues ELSE [queues EXCEPT ![a] = NoQueue]

(* An array becomes the recyclable one; the previous one is freed. *)
Recycle(t) ==
  /\ At(t, "recycle")
  /\ recyclableSubscribers' = call[t].spare
  /\ queue' = Freed(recyclableSubscribers, queue)
  /\ Goes(t, Rest(t), [call[t] EXCEPT !.spare = None])
  /\ UNCHANGED <<subscribers, history>>

(* The array that was to be the current one is given up. *)
Discard(t) ==
  /\ At(t, "discard")
  /\ call[t].fresh # None
  /\ recyclableSubscribers' = call[t].fresh
  /\ queue' = Freed(recyclableSubscribers,
                    [queue EXCEPT ![call[t].fresh].refs = 0])
  /\ Goes(t, Rest(t), [call[t] EXCEPT !.fresh = None])
  /\ UNCHANGED <<subscribers, history>>

(* An allocator that prefers to hand out addresses it has used before *)
Unused(queues) == CHOOSE a \in Address : ~queues[a].live

(* Mutant: the recycled array is used however small it is. *)
ObtainAnySize(callbacks, extra, required, a) ==
  LET old == recyclableSubscribers IN
  /\ recyclableSubscribers' = None
  /\ IF old # None
     THEN a = old /\ queue' = [queue EXCEPT ![a].refs = @ + extra,
                                            ![a].callbacks = callbacks]
     ELSE /\ a = Unused(queue) /\ ~queue[a].live
          /\ queue' = [queue EXCEPT ![a] = Allocated(callbacks)]

(* The recyclable array if it is large enough, or a new one, filled with    *)
(* the callbacks                                                            *)
Obtain(callbacks, extra, required, a) ==
  LET old == recyclableSubscribers
      without == IF old # None /\ queue[old].capacity < required
                 THEN Freed(old, queue) ELSE queue
  IN /\ recyclableSubscribers' = None
     /\ IF old # None /\ queue[old].capacity >= required
        THEN /\ a = old
             /\ queue' = [queue EXCEPT ![a].refs = @ + extra,
                                       ![a].callbacks = callbacks]
        ELSE /\ a = Unused(without) /\ ~without[a].live
             /\ queue' = [without EXCEPT ![a] = Allocated(callbacks)]

-----------------------------------------------------------------------------
(* Emit(), EmitAndCollect() and the call operator *)

EmitAcquire(t) ==
  /\ call[t].todo = <<>>
  /\ Acquire(t, <<"calling", "release">>, <<>>,
             [call[t] EXCEPT !.index = 1])
  /\ UNCHANGED changes

(* The next callback is called; one that throws ends the emission. *)
CallBack(t) ==
  /\ At(t, "calling")
  /\ \/ /\ call[t].index <= Len(queue[call[t].held].callbacks)
        /\ Goes(t, call[t].todo, [call[t] EXCEPT !.index = @ + 1])
     \/ Goes(t, Rest(t), [call[t] EXCEPT !.index = 0])
  /\ UNCHANGED <<subscribers, recyclableSubscribers, queue, history>>

-----------------------------------------------------------------------------
(* Subscribe() *)

Subscribe(t, d) ==
  /\ call[t].todo = <<>>
  /\ changes < MaxChanges
  /\ Acquire(t, <<"take", "release", "install">>, <<"first", "install">>,
             [call[t] EXCEPT !.delegate = d])
  /\ changes' = changes + 1

SubscribeAgain(t) ==
  /\ At(t, "subscribe")
  /\ Acquire(t, <<"take", "release", "install">>, <<"first", "install">>, call[t])
  /\ UNCHANGED changes

(* Without subscribers so far. A recycled array has no reference yet and is *)
(* not given one.                                                           *)
TakeFirst(t) ==
  /\ At(t, "first")
  /\ \E a \in Address :
       /\ Obtain(<<call[t].delegate>>, 0, 0, a)
       /\ Goes(t, Rest(t), [call[t] EXCEPT !.fresh = a])
  /\ revived' = revived \cup ({recyclableSubscribers} \ {None})
  /\ UNCHANGED <<subscribers, fault, changes, overtaken>>

Take(t) ==
  /\ At(t, "take")
  /\ LET callbacks == queue[call[t].held].callbacks
     IN \E a \in Address :
          /\ Obtain(Append(callbacks, call[t].delegate), 1,
                    Len(callbacks) + 1, a)
          /\ Goes(t, Rest(t), [call[t] EXCEPT !.fresh = a])
  /\ UNCHANGED <<subscribers, history>>

(* Mutant: the new array is stored without a comparison. *)
SwapBlindly(t, done, again) ==
  /\ subscribers' = call[t].fresh
  /\ Goes(t, (IF call[t].current = None THEN <<>> ELSE <<"drop">>) \o done,
          [call[t] EXCEPT !.fresh = None])
  /\ overtaken' = [s \in Thread |-> IF Has(s, "install")
                                  THEN overtaken[s] + 1 ELSE 0]
  /\ UNCHANGED <<recyclableSubscribers, queue, fault, revived, changes>>

(* The new array takes the place of the one that was read, or is given up.  *)
(* The comparison is one of addresses, and in Subscribe() nothing keeps the *)
(* array with that address from having been used for something else.        *)
CompareAndSwap(t, done, again) ==
  /\ IF subscribers = call[t].current
     THEN /\ subscribers' = call[t].fresh
          /\ Goes(t, (IF call[t].current = None THEN <<>> ELSE <<"drop">>) \o done,
                  [call[t] EXCEPT !.fresh = None])
          /\ overtaken' = [s \in Thread |-> IF Has(s, "install")
                                          THEN overtaken[s] + 1 ELSE 0]
     ELSE /\ Goes(t, <<"discard">> \o again, call[t])
          /\ UNCHANGED <<subscribers, overtaken>>
  /\ UNCHANGED <<recyclableSubscribers, queue, fault, revived, changes>>

Install(t) ==
  /\ At(t, "install")
  /\ CompareAndSwap(t, <<>>, <<"subscribe">>)

-----------------------------------------------------------------------------
(* Unsubscribe() *)

Unsubscribe(t, d) ==
  /\ call[t].todo = <<>>
  /\ changes < MaxChanges
  /\ Acquire(t, <<"search", "release">>, <<>>, [call[t] EXCEPT !.delegate = d])
  /\ changes' = changes + 1

UnsubscribeAgain(t) ==
  /\ At(t, "unsubscribe")
  /\ Acquire(t, <<"search", "release">>, <<>>, call[t])
  /\ UNCHANGED changes

Without(callbacks, i) == SubSeq(callbacks, 1, i - 1) \o
                         SubSeq(callbacks, i + 1, Len(callbacks))

(* The first occurrence is left out of the copy; without any, false is      *)
(* returned. The last subscriber leaves no array behind. The capacity asked *)
(* of a recycled array is that of the larger one.                           *)
Search(t) ==
  /\ At(t, "search")
  /\ LET callbacks == queue[call[t].held].callbacks
         found == {i \in DOMAIN callbacks : callbacks[i] = call[t].delegate}
         first == CHOOSE i \in found : \A j \in found : i <= j
     IN \/ /\ found = {}
           /\ Goes(t, Rest(t), call[t])
           /\ UNCHANGED <<recyclableSubscribers, queue>>
        \/ /\ found # {}
           /\ Len(callbacks) = 1
           /\ Goes(t, <<"replace", "release">>, [call[t] EXCEPT !.fresh = None])
           /\ UNCHANGED <<recyclableSubscribers, queue>>
        \/ /\ found # {}
           /\ Len(callbacks) > 1
           /\ \E a \in Address :
                /\ Obtain(Without(callbacks, first), 1, Len(callbacks), a)
                /\ Goes(t, <<"replace", "release">>, [call[t] EXCEPT !.fresh = a])
  /\ UNCHANGED <<subscribers, history>>

Replace(t) ==
  /\ At(t, "replace")
  /\ CompareAndSwap(t, <<"release">>, <<"release", "unsubscribe">>)

-----------------------------------------------------------------------------
(* Undefined behaviour *)

(* Unsubscribe() found its callback, and others to be kept. *)
NeedsCopy(t) ==
  LET callbacks == queue[call[t].held].callbacks
  IN Len(callbacks) > 1 /\ call[t].delegate \in {callbacks[i] : i \in DOMAIN callbacks}

(* The arrays the next step of a thread works on *)
Touched(t) ==
  LET next == IF call[t].todo = <<>> THEN "begin" ELSE Head(call[t].todo) IN
  CASE next \in {"begin", "subscribe", "unsubscribe"} -> {subscribers}
    [] next \in {"calling", "release"} -> {call[t].held}
    [] next = "take" \/ (next = "search" /\ NeedsCopy(t)) ->
         {call[t].held, recyclableSubscribers}
    [] next = "search" /\ ~NeedsCopy(t) -> {call[t].held}
    [] next = "drop" -> {call[t].current}
    [] next \in {"first", "recycle", "discard"} -> {recyclableSubscribers}
    [] OTHER -> {}

UsesFreed(t) == \E a \in Touched(t) \ {None} : ~queue[a].live

UseAfterFree(t) ==
  /\ UsesFreed(t)
  /\ fault' = "useAfterFree"
  /\ UNCHANGED <<subscribers, recyclableSubscribers, queue, call, revived,
                 changes, overtaken>>

(* Unsubscribe() has no array of its own to give up. *)
NullDereference(t) ==
  /\ At(t, "discard")
  /\ call[t].fresh = None
  /\ fault' = "nullDereference"
  /\ UNCHANGED <<subscribers, recyclableSubscribers, queue, call, revived,
                 changes, overtaken>>

-----------------------------------------------------------------------------
Continue(t) ==
  \/ CallBack(t) \/ Release(t) \/ DropReplaced(t) \/ Recycle(t) \/ Discard(t)
  \/ SubscribeAgain(t) \/ TakeFirst(t) \/ Take(t) \/ Install(t)
  \/ UnsubscribeAgain(t) \/ Search(t) \/ Replace(t)

Begin(t) ==
  \/ EmitAcquire(t)
  \/ \E d \in Callback : Subscribe(t, d) \/ Unsubscribe(t, d)

Step(t) ==
  /\ fault = "none"
  /\ \/ UseAfterFree(t)
     \/ NullDereference(t)
     \/ ~UsesFreed(t) /\ Continue(t)

Next ==
  \E t \in Thread :
    Step(t) \/ (fault = "none" /\ ~UsesFreed(t) /\ Begin(t))

Fairness == \A t \in Thread : WF_vars(Step(t))
Spec == Init /\ [][Next]_vars
FairSpec == Spec /\ Fairness

-----------------------------------------------------------------------------
(* Properties *)

Holders(a) == {t \in Thread : call[t].held = a}
Owner(a) == IF subscribers = a THEN 1 ELSE 0
ToDrop(t, a) == call[t].current = a /\ Has(t, "drop")
Pending(a) ==
  Cardinality({t \in Thread : call[t].fresh = a \/ ToDrop(t, a)})

TypeOK ==
  /\ subscribers \in Address \cup {None}
  /\ recyclableSubscribers \in Address \cup {None}
  /\ \A a \in Address :
       /\ queue[a].refs \in Int
       /\ Len(queue[a].callbacks) <= queue[a].capacity
  /\ \A t \in Thread :
       /\ {call[t].held, call[t].current, call[t].fresh, call[t].spare}
            \subseteq Address \cup {None}
       /\ call[t].index \in Nat
  /\ fault \in {"none", "useAfterFree", "nullDereference"}
  /\ changes \in 0..MaxChanges

(* The counter of an array says how many still need it: the event, threads  *)
(* that fire or copy it, and a thread that made it or has to drop it.       *)
ReferencesCounted ==
  revived = {} =>
    \A a \in Address :
      queue[a].live =>
        queue[a].refs = Cardinality(Holders(a)) + Owner(a) + Pending(a)

(* No array is used after it was freed, unless one was revived before. *)
NoUseAfterFree == fault = "useAfterFree" => revived # {}

(* Without an array of its own only the last subscriber's departure fails,  *)
(* and only after another change came first: nothing puts the array that it *)
(* still holds back in place.                                               *)
FailsOnlyWhenOvertaken ==
  fault = "nullDereference" /\ revived = {} =>
    \E t \in Thread : /\ At(t, "discard") /\ call[t].fresh = None
                      /\ call[t].held = call[t].current
                      /\ subscribers # call[t].current

(* An array that somebody reads is not written to. *)
HeldArraysStay ==
  [][revived' = {} =>
       \A t \in Thread :
         call[t].held # None /\ call'[t].held = call[t].held =>
           queue'[call[t].held].callbacks = queue[call[t].held].callbacks]_vars

(* A change that undoes somebody else's is one of Subscribe() and was       *)
(* overtaken at least twice: the array it read was replaced and used again. *)
Keeps(old, new, d) ==
  new = Append(old, d) \/ \E i \in DOMAIN old : old[i] = d /\ new = Without(old, i)
Callbacks(a) == IF a = None THEN <<>> ELSE queue[a].callbacks

ChangesOnlyLostWhenOvertakenTwice ==
  [][revived = {} =>
       \A t \in Thread :
         /\ subscribers' # subscribers
         /\ call'[t] # call[t]
         /\ ~Keeps(Callbacks(subscribers), Callbacks(subscribers'), call[t].delegate)
         => At(t, "install") /\ overtaken[t] >= 2]_vars

(* Every call comes to its end unless the program does. *)
CallsReturn == \A t \in Thread : []<>(call[t].todo = <<>> \/ fault # "none")
=============================================================================
