------------------------------- MODULE Event -------------------------------
(* Nuclex::Support::Events::Event: a list of delegates that are called when *)
(* the event is emitted (Include/Nuclex/Support/Events/Event.h). The list   *)
(* lies in the event itself up to BuiltInSubscriberCount delegates and on   *)
(* the heap when it is longer.                                              *)
(*                                                                          *)
(* A step of an emission is the call of one delegate with everything that   *)
(* the callback does to the event, and what the loop makes of it. Callbacks *)
(* follow the documentation: they subscribe others and unsubscribe only     *)
(* themselves. An emission does not tell apart whether results are kept.    *)
EXTENDS Integers, Sequences, SequencesExt, FiniteSetsExt, Delegate

CONSTANTS Subscriber,             \* delegates that are used
          BuiltInSubscriberCount, \* 2 in the code
          CapacityFactor,         \* 8 in the code
          MaxSubscribers          \* bound: subscribers of the event

VARIABLES observers, \* the list, its capacity and whether it was moved
          emission   \* the call of Emit() or EmitAndCollect() in progress

EventAssumption ==
  /\ BuiltInSubscriberCount \in Nat \ {0} /\ CapacityFactor \in Nat \ {0, 1}
  /\ MaxSubscribers \in Nat
  /\ CallEmptyDelegate # NoInstance

NoEmission == [active |-> FALSE]

Init == observers = [list |-> <<>>, reserved |-> 0, moved |-> FALSE]
        /\ emission = NoEmission

OnHeap(o) == Len(o.list) > BuiltInSubscriberCount

(* How often the event has a delegate subscribed. *)
Times(list, d) == Cardinality({i \in DOMAIN list : Equal(list[i], d)})

(* The list is moved to the heap, or to a larger block on it. *)
Subscribed(o, d) ==
  LET full == Len(o.list) = BuiltInSubscriberCount
      grows == OnHeap(o) /\ Len(o.list) >= o.reserved
  IN [list |-> Append(o.list, d),
      reserved |-> IF full THEN BuiltInSubscriberCount * CapacityFactor
                   ELSE IF grows THEN o.reserved * 2 ELSE o.reserved,
      moved |-> o.moved \/ full \/ grows]

(* The last delegate takes the place of the one that leaves; when the list  *)
(* fits into the event again it is moved there and the block is freed.      *)
Unsubscribed(o, d) ==
  LET last == Len(o.list)
      found == {i \in 1..last : Equal(o.list[i], d)}
  IN IF found = {} THEN o
     ELSE [list |-> SubSeq([o.list EXCEPT ![Min(found)] = o.list[last]], 1, last - 1),
           reserved |-> IF last - 1 > BuiltInSubscriberCount THEN o.reserved ELSE 0,
           moved |-> o.moved \/ last - 1 = BuiltInSubscriberCount]

-----------------------------------------------------------------------------
(* The owner of the event, outside of emissions *)

Subscribe(d) ==
  /\ ~emission.active /\ Len(observers.list) < MaxSubscribers
  /\ observers' = [Subscribed(observers, d) EXCEPT !.moved = FALSE]
  /\ UNCHANGED emission

Unsubscribe(d) ==
  /\ ~emission.active
  /\ observers' = [Unsubscribed(observers, d) EXCEPT !.moved = FALSE]
  /\ UNCHANGED emission

(* Emit() and EmitAndCollect() *)
Emit ==
  /\ ~emission.active
  /\ emission' = [active |-> TRUE, index |-> 0, known |-> Len(observers.list),
                  loop |-> IF OnHeap(observers) THEN "heap" ELSE "stack",
                  outcome |-> "running", irregular |-> FALSE,
                  before |-> observers.list, called |-> <<>>, added |-> <<>>,
                  left |-> {}]
  /\ UNCHANGED observers

-----------------------------------------------------------------------------
(* The loops of an emission *)

(* The stack loop reads the memory inside of the event, which holds the     *)
(* capacity and a pointer once the list is on the heap; the heap loop reads *)
(* a block that may be gone.                                                *)
Readable ==
  IF emission.loop = "stack" THEN ~OnHeap(observers) ELSE ~observers.moved

(* What a callback does: two changes, of which either may be none. *)
Change(d) == [does : {"subscribe"}, who : Subscriber]
             \union [does : {"unsubscribe", "nothing"}, who : {d}]

Changed(o, change) ==
  CASE change.does = "subscribe" -> Subscribed(o, change.who)
    [] change.does = "unsubscribe" -> Unsubscribed(o, change.who)
    [] change.does = "nothing" -> o

Addition(change) == IF change.does = "subscribe" THEN <<change.who>> ELSE <<>>

\* Mutant: the loop goes on to the next place in any case.
ContinueAlways(count, e) == [e EXCEPT !.index = @ + 1, !.known = count]

(* Where the loop goes on: at the same place if the list became shorter.    *)
(* Each loop asks how many subscribers there were, not how many there are,  *)
(* before it changes into the other loop, so it never does.                 *)
Continue(count, e) ==
  [e EXCEPT !.index = IF count < e.known THEN @ ELSE @ + 1, !.known = count]

(* A delegate is called; empty ones throw, others may. *)
CallNext ==
  /\ emission.active /\ emission.outcome = "running" /\ emission.index < emission.known
  /\ IF ~Readable
     THEN emission' = [emission EXCEPT !.outcome = "undefined"] /\ UNCHANGED observers
     ELSE LET d == observers.list[emission.index + 1] IN
       \/ /\ emission' = [emission EXCEPT !.outcome = "thrown"]
          /\ UNCHANGED observers
       \/ /\ HasTarget(d)
          /\ \E first, second \in Change(d) :
               LET after == Changed(Changed(observers, first), second)
                   refreshed == emission.loop = "heap" /\ Len(after.list) > emission.known
                   leaves == "unsubscribe" \in {first.does, second.does}
                   joins == Addition(first) \o Addition(second)
               IN /\ Len(observers.list) + Len(joins) <= MaxSubscribers
                  /\ observers' = [after EXCEPT !.moved = @ /\ ~refreshed]
                  /\ emission' =
                       [Continue(Len(after.list), emission) EXCEPT
                          !.called = Append(@, d), !.added = @ \o joins,
                          !.left = @ \union (IF leaves THEN {d} ELSE {}),
                          !.irregular =
                            @ \/ (leaves /\ (joins # <<>> \/ Times(observers.list, d) > 1))]

(* The method returns, or the exception reaches the caller. *)
Return ==
  /\ emission.active /\ emission.outcome # "undefined"
  /\ emission.index >= emission.known \/ emission.outcome = "thrown"
  /\ emission' = NoEmission
  /\ observers' = [observers EXCEPT !.moved = FALSE]

Next ==
  \/ \E d \in Subscriber : Subscribe(d) \/ Unsubscribe(d)
  \/ Emit \/ CallNext \/ Return

Spec == Init /\ [][Next]_<<observers, emission>>

-----------------------------------------------------------------------------
(* Properties *)

TypeOK ==
  /\ observers.list \in BoundedSeq(Subscriber, MaxSubscribers)
  /\ OnHeap(observers) <=> observers.reserved > 0
  /\ OnHeap(observers) => Len(observers.list) <= observers.reserved
  /\ emission.active => emission.index \in Nat /\ emission.known \in Nat

(* Unless a callback unsubscribes itself and subscribes another one at a    *)
(* time, or is subscribed more than once and unsubscribes itself, an        *)
(* emission that reaches its end has called everyone who was subscribed     *)
(* from beginning to end as often as subscribed, and nobody more often than *)
(* subscribed before or meanwhile.                                          *)
ReachesSubscribers ==
  (/\ emission.active /\ emission.outcome = "running" /\ ~emission.irregular
   /\ emission.index >= emission.known)
    => \A d \in Subscriber :
         LET calls == Times(emission.called, d)
             before == Times(emission.before, d)
         IN /\ calls <= before + Times(emission.added, d)
            /\ d \notin emission.left => calls >= before

(* Memory that is not a delegate is read only if the list has moved between *)
(* the event and the heap meanwhile, or in such a case.                      *)
FaultsOnlyWhenMoved ==
  (emission.active /\ emission.outcome = "undefined" /\ ~emission.irregular)
    => \/ emission.loop = "stack" /\ Len(emission.before) <= BuiltInSubscriberCount
          /\ emission.added # <<>>
       \/ emission.loop = "heap" /\ Len(emission.before) > BuiltInSubscriberCount
          /\ emission.left # {}

(* An emission reaches its subscribers, and only them. *)
EmissionReachesSubscribers == ReachesSubscribers /\ FaultsOnlyWhenMoved
=============================================================================
