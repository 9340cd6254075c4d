-------------------------- MODULE ConcurrentProofs --------------------------
(* Theorems about the concurrent event and the child process, as            *)
(* ConcurrentMC composes them, and about the types of all three components: *)
(* for any finite set of threads, any callbacks and addresses; for pipes of *)
(* any size, any number of starts and portions of output; and all bounds.   *)
(* What is said of the event's counters is about what happens before an     *)
(* array is put to use without a reference, as its properties are.          *)
EXTENDS ServicesProofs

-----------------------------------------------------------------------------
(* The concurrent event: what a call in progress has yet to do *)

(* Steps to come while the thread holds an array; while it has made one and *)
(* not put it in place; while it has the reference of the event to drop;    *)
(* and while it has an array to recycle.                                    *)
Keeping ==
  {<<"calling", "release">>, <<"release">>,
   <<"take", "release", "install">>, <<"release", "install">>,
   <<"search", "release">>, <<"replace", "release">>, <<"drop", "release">>,
   <<"recycle", "release">>, <<"discard", "release", "unsubscribe">>,
   <<"release", "unsubscribe">>}
Making ==
  {<<"release", "install">>, <<"recycle", "install">>, <<"install">>,
   <<"discard", "subscribe">>}
Replacing == {<<"replace", "release">>, <<"discard", "release", "unsubscribe">>}
Dropping == {<<"drop">>, <<"drop", "release">>}
Recycling ==
  {<<"recycle">>, <<"recycle", "install">>, <<"recycle", "release">>,
   <<"recycle", "unsubscribe">>}
Installing ==
  {<<"take", "release", "install">>, <<"release", "install">>,
   <<"recycle", "install">>, <<"install">>, <<"first", "install">>}
Todos ==
  Keeping \cup Making \cup Dropping \cup Recycling
  \cup {<<>>, <<"first", "install">>, <<"subscribe">>, <<"unsubscribe">>}

(* Steps during which the array that was read is held. *)
Reading ==
  {<<"take", "release", "install">>, <<"search", "release">>} \cup Replacing

Place == Address \cup {None}
CallRecord ==
  [todo : Todos, delegate : Callback \cup {None}, held : Place,
   current : Place, fresh : Place, spare : Place, index : Nat]
QueueRecord(q) ==
  /\ q = [live |-> q.live, refs |-> q.refs, capacity |-> q.capacity,
          callbacks |-> q.callbacks]
  /\ q.live \in BOOLEAN /\ q.refs \in Int /\ q.callbacks \in Seq(Callback)

Types ==
  /\ subscribers \in Place /\ recyclableSubscribers \in Place
  /\ call \in [Thread -> CallRecord]
  /\ overtaken \in [Thread -> Nat]
  /\ queue = [a \in Address |-> queue[a]]
  /\ \A a \in Address : QueueRecord(queue[a])

(* Which local variables a call uses at which point *)
Fits(c, todo) ==
  /\ c.held # None <=> todo \in Keeping
  /\ c.spare # None <=> todo \in Recycling
  /\ todo \in Making => c.fresh # None
  /\ c.fresh # None => todo \in Making \cup Replacing
  /\ todo \in Dropping => c.current # None
  /\ todo \in Reading => c.held = c.current
  /\ \/ todo \in Installing
     \/ todo = <<"subscribe">> \/ todo = <<"discard", "subscribe">>
     => c.delegate \in Callback
  /\ todo = <<"first", "install">> => c.current = None

LocalsFollowTodo == \A t \in Thread : Fits(call[t], call[t].todo)

(* What a thread has to drop *)
Drops(t) == IF call[t].todo \in Dropping THEN call[t].current ELSE None

(* Whatever can be reached is live; an array that was made is its maker's   *)
(* alone, and one that is to be recycled, or was, is nobody's.              *)
LiveAt(a, n) == queue[a].live /\ queue[a].refs = n

ReachableIsLive ==
  /\ subscribers # None => queue[subscribers].live
  /\ \A t \in Thread :
       /\ call[t].held # None => queue[call[t].held].live
       /\ Drops(t) # None => queue[Drops(t)].live
       /\ call[t].fresh # None => LiveAt(call[t].fresh, 1)
       /\ call[t].spare # None => /\ LiveAt(call[t].spare, 0)
                                  /\ call[t].spare # recyclableSubscribers
  /\ \A s, t \in Thread :
       call[t].spare # None /\ call[t].spare = call[s].spare => s = t
  /\ recyclableSubscribers # None => LiveAt(recyclableSubscribers, 0)

(* The counter of an array, in the terms used here *)
Keepers(a) == {t \in Thread : call[t].held = a}
Debtors(a) == {t \in Thread : call[t].fresh = a \/ Drops(t) = a}
Needs(a) ==
  Cardinality(Keepers(a)) + (IF subscribers = a THEN 1 ELSE 0)
  + Cardinality(Debtors(a))
CountsAreRight == \A a \in Address : queue[a].live => queue[a].refs = Needs(a)

(* A departing last subscriber that comes too late holds the array it wanted*)
(* to replace, which is not the current one.                                *)
Late(t) ==
  call[t].todo = <<"discard", "release", "unsubscribe">> /\ call[t].fresh = None
LateOnesHold ==
  \A t \in Thread : Late(t) => subscribers # call[t].current
FaultsAreLate == fault = "nullDereference" => \E t \in Thread : Late(t)

(* What a thread that is to put an array in place knows of the current one. *)
Faithful(t) ==
  /\ call[t].todo \in Installing =>
       /\ overtaken[t] = 0 => subscribers = call[t].current
       /\ overtaken[t] = 1 => subscribers # call[t].current
       /\ overtaken[t] = 0 /\ call[t].fresh # None =>
            queue[call[t].fresh].callbacks =
              Append(Event!Callbacks(call[t].current), call[t].delegate)
  /\ call[t].todo = <<"replace", "release">> =>
       Event!Keeps(Event!Callbacks(call[t].current),
                   Event!Callbacks(call[t].fresh), call[t].delegate)
CopiesAreFaithful == \A t \in Thread : Faithful(t)

EventOK ==
  /\ Types /\ LocalsFollowTodo /\ ReachableIsLive /\ CountsAreRight
  /\ LateOnesHold /\ CopiesAreFaithful
EventInv ==
  revived = {} => EventOK /\ fault # "useAfterFree" /\ FaultsAreLate

-----------------------------------------------------------------------------

(* What begins with which step *)
LEMMA Heads ==
  ASSUME NEW todo \in Todos, todo # <<>>
  PROVE  /\ Head(todo) = "calling" => todo = <<"calling", "release">>
         /\ Head(todo) = "release" =>
              todo \in {<<"release">>, <<"release", "install">>,
                        <<"release", "unsubscribe">>}
         /\ Head(todo) = "take" => todo = <<"take", "release", "install">>
         /\ Head(todo) = "search" => todo = <<"search", "release">>
         /\ Head(todo) = "replace" => todo = <<"replace", "release">>
         /\ Head(todo) = "drop" => todo \in Dropping
         /\ Head(todo) = "recycle" => todo \in Recycling
         /\ Head(todo) = "discard" =>
              todo \in {<<"discard", "subscribe">>,
                        <<"discard", "release", "unsubscribe">>}
         /\ Head(todo) = "first" => todo = <<"first", "install">>
         /\ Head(todo) = "install" => todo = <<"install">>
         /\ Head(todo) = "subscribe" => todo = <<"subscribe">>
         /\ Head(todo) = "unsubscribe" => todo = <<"unsubscribe">>
  BY DEF Todos, Keeping, Making, Dropping, Recycling

(* What is left after it *)
LEMMA Tails ==
  /\ Tail(<<"calling", "release">>) = <<"release">>
  /\ Tail(<<"release">>) = <<>>
  /\ Tail(<<"release", "install">>) = <<"install">>
  /\ Tail(<<"release", "unsubscribe">>) = <<"unsubscribe">>
  /\ Tail(<<"take", "release", "install">>) = <<"release", "install">>
  /\ Tail(<<"search", "release">>) = <<"release">>
  /\ Tail(<<"drop">>) = <<>>
  /\ Tail(<<"drop", "release">>) = <<"release">>
  /\ Tail(<<"recycle">>) = <<>>
  /\ Tail(<<"recycle", "install">>) = <<"install">>
  /\ Tail(<<"recycle", "release">>) = <<"release">>
  /\ Tail(<<"recycle", "unsubscribe">>) = <<"unsubscribe">>
  /\ Tail(<<"discard", "subscribe">>) = <<"subscribe">>
  /\ Tail(<<"discard", "release", "unsubscribe">>) = <<"release", "unsubscribe">>
  /\ Tail(<<"first", "install">>) = <<"install">>
  OBVIOUS

(* One step in front of another, or of two others *)
LEMMA Pair ==
  ASSUME NEW S, NEW x \in S, NEW y \in S
  PROVE  <<x>> \o <<y>> = <<x, y>>
<1> DEFINE s == <<x>>  t == <<y>>  u == <<x, y>>
<1>1. /\ s \in Seq(S) /\ t \in Seq(S) /\ u \in Seq(S)
      /\ Len(s) = 1 /\ Len(t) = 1 /\ Len(u) = 2
      /\ s[1] = x /\ t[1] = y /\ u[1] = x /\ u[2] = y
  OBVIOUS
<1> HIDE DEF s, t, u
<1>2. /\ s \o t \in Seq(S) /\ Len(s \o t) = 2
      /\ \A i \in 1 .. 2 : (s \o t)[i] = IF i <= 1 THEN s[i] ELSE t[i - 1]
  BY <1>1, ConcatProperties
<1>3. (s \o t)[1] = u[1] /\ (s \o t)[2] = u[2]
  BY <1>1, <1>2
<1>4. ASSUME NEW i \in 1 .. 2 PROVE (s \o t)[i] = u[i]
  <2>1. i = 1 \/ i = 2
    OBVIOUS
  <2> QED
    BY <2>1, <1>3
<1>5. s \o t = u
  BY <1>1, <1>2, <1>4, SeqEqual
<1> QED
  BY <1>5 DEF s, t, u

(* As above *)
LEMMA Triple ==
  ASSUME NEW S, NEW x \in S, NEW y \in S, NEW z \in S
  PROVE  <<x>> \o <<y, z>> = <<x, y, z>>
<1> DEFINE s == <<x>>  t == <<y, z>>  u == <<x, y, z>>
<1>1. s \in Seq(S) /\ t \in Seq(S) /\ u \in Seq(S)
  OBVIOUS
<1>2. Len(s) = 1 /\ Len(t) = 2 /\ Len(u) = 3
  OBVIOUS
<1>3. s[1] = u[1] /\ t[1] = u[2] /\ t[2] = u[3]
  OBVIOUS
<1> HIDE DEF s, t, u
<1>4. /\ s \o t \in Seq(S) /\ Len(s \o t) = Len(s) + Len(t)
      /\ \A i \in 1 .. Len(s) + Len(t) :
           (s \o t)[i] = IF i <= Len(s) THEN s[i] ELSE t[i - Len(s)]
  BY <1>1, ConcatProperties
<1>5. (s \o t)[1] = u[1] /\ (s \o t)[2] = u[2] /\ (s \o t)[3] = u[3]
  <2>1. 1 \in 1 .. 3 /\ 2 \in 1 .. 3 /\ 3 \in 1 .. 3
        /\ 2 - 1 = 1 /\ 3 - 1 = 2 /\ 1 + 2 = 3
    OBVIOUS
  <2>2. (s \o t)[1] = s[1]
    BY <1>2, <1>4, <2>1
  <2>3. (s \o t)[2] = t[1]
    BY <1>2, <1>4, <2>1
  <2>4. (s \o t)[3] = t[2]
    BY <1>2, <1>4, <2>1
  <2> QED
    BY <1>3, <2>2, <2>3, <2>4
<1>6. ASSUME NEW i \in 1 .. 3 PROVE (s \o t)[i] = u[i]
  <2>1. i = 1 \/ i = 2 \/ i = 3
    OBVIOUS
  <2> QED
    BY <2>1, <1>5
<1>7. s \o t = u
  BY <1>1, <1>2, <1>4, <1>6, SeqEqual
<1> QED
  BY <1>7 DEF s, t, u

(* Steps that are put in front of others *)
LEMMA Prefixes ==
  /\ <<"recycle">> \o <<>> = <<"recycle">>
  /\ <<"recycle">> \o <<"install">> = <<"recycle", "install">>
  /\ <<"recycle">> \o <<"release">> = <<"recycle", "release">>
  /\ <<"recycle">> \o <<"unsubscribe">> = <<"recycle", "unsubscribe">>
  /\ <<"drop">> \o <<>> = <<"drop">>
  /\ <<"drop">> \o <<"release">> = <<"drop", "release">>
  /\ <<>> \o <<>> = <<>>
  /\ <<>> \o <<"release">> = <<"release">>
  /\ <<"discard">> \o <<"subscribe">> = <<"discard", "subscribe">>
  /\ <<"discard">> \o <<"release", "unsubscribe">>
       = <<"discard", "release", "unsubscribe">>
<1> DEFINE steps == {"recycle", "install", "release", "unsubscribe", "drop",
                     "discard", "subscribe"}
<1>1. \A x, y \in steps : <<x>> \o <<y>> = <<x, y>>
  BY Pair
<1>2. <<"discard">> \o <<"release", "unsubscribe">>
       = <<"discard", "release", "unsubscribe">>
  <2>1. \A x, y, z \in steps : <<x>> \o <<y, z>> = <<x, y, z>>
    BY Triple
  <2> QED
    BY <2>1
<1>3. /\ <<"recycle">> \o <<>> = <<"recycle">> /\ <<"drop">> \o <<>> = <<"drop">>
      /\ <<>> \o <<>> = <<>> /\ <<>> \o <<"release">> = <<"release">>
  OBVIOUS
<1> QED
  BY <1>1, <1>2, <1>3

(* What a call has yet to do, told by its todo list *)
LEMMA Contents ==
  ASSUME NEW t, call[t].todo \in Todos
  PROVE  /\ Event!Has(t, "install") <=> call[t].todo \in Installing
         /\ Event!Has(t, "drop") <=> call[t].todo \in Dropping
  BY DEF Event!Has, Installing, Todos, Keeping, Making, Dropping, Recycling

(* Where a thread goes on, and that the others stay where they are *)
LEMMA GoesFacts ==
  ASSUME call \in [Thread -> CallRecord], NEW t \in Thread, NEW todo \in Todos,
         NEW locals \in CallRecord, Event!Goes(t, todo, locals)
  PROVE  /\ call' \in [Thread -> CallRecord]
         /\ \A s \in Thread \ {t} : call'[s] = call[s]
         /\ todo = <<>> => call'[t] = Event!NoCall
         /\ todo # <<>> =>
              /\ call'[t].todo = todo /\ call'[t].delegate = locals.delegate
              /\ call'[t].held = locals.held /\ call'[t].current = locals.current
              /\ call'[t].fresh = locals.fresh /\ call'[t].spare = locals.spare
              /\ call'[t].index = locals.index
<1>1. Event!NoCall \in CallRecord
  BY DEF Event!NoCall, CallRecord, Todos, Place
<1>2. [locals EXCEPT !.todo = todo] \in CallRecord
  BY DEF CallRecord
<1> QED
  BY <1>1, <1>2 DEF Event!Goes, CallRecord

-----------------------------------------------------------------------------
(* The event: what a step does to the references to arrays *)

(* No other thread moves. *)
Elsewhere(t) == \A s \in Thread \ {t} : call'[s] = call[s]
SameArrays == UNCHANGED <<subscribers, recyclableSubscribers, queue>>

(* Nothing; a reference to the current array is taken; *)
Stays(t) ==
  /\ SameArrays
  /\ call'[t].held = call[t].held /\ call'[t].fresh = call[t].fresh
  /\ Drops(t)' = Drops(t) /\ call'[t].spare = call[t].spare

Acquires(t) ==
  /\ subscribers # None
  /\ queue' = [queue EXCEPT ![subscribers].refs = @ + 1]
  /\ UNCHANGED <<subscribers, recyclableSubscribers>>
  /\ call[t].held = None /\ call'[t].held = subscribers
  /\ call[t].fresh = None /\ call'[t].fresh = None
  /\ Drops(t) = None /\ Drops(t)' = None
  /\ call[t].spare = None /\ call'[t].spare = None

(* One is given back, and who gives back the last one has to recycle; *)
Gives(t, a) ==
  /\ queue' = [queue EXCEPT ![a].refs = @ - 1]
  /\ UNCHANGED <<subscribers, recyclableSubscribers>>
  /\ call'[t].fresh = call[t].fresh
  /\ Drops(t)' = None
  /\ \/ call[t].held = a /\ call'[t].held = None /\ Drops(t) = None
     \/ Drops(t) = a /\ call'[t].held = call[t].held
  /\ call[t].spare = None
  /\ call'[t].spare = IF queue[a].refs = 1 THEN a ELSE None

(* an array becomes the recyclable one, with or without having been used;   *)
Recycles(t) ==
  /\ call[t].spare # None /\ call'[t].spare = None
  /\ recyclableSubscribers' = call[t].spare
  /\ queue' = Event!Freed(recyclableSubscribers, queue)
  /\ UNCHANGED subscribers
  /\ call'[t].held = call[t].held /\ call'[t].fresh = call[t].fresh
  /\ Drops(t)' = Drops(t)

Discards(t) ==
  /\ call[t].fresh # None /\ call'[t].fresh = None
  /\ recyclableSubscribers' = call[t].fresh
  /\ queue' = Event!Freed(recyclableSubscribers,
                          [queue EXCEPT ![call[t].fresh].refs = 0])
  /\ UNCHANGED subscribers
  /\ call'[t].held = call[t].held /\ call'[t].spare = call[t].spare
  /\ Drops(t)' = Drops(t)

(* an array is made, from the recyclable one or at an unused address;       *)
Obtains(a, callbacks) ==
  /\ recyclableSubscribers' = None
  /\ a = recyclableSubscribers \/ ~queue[a].live
  /\ queue'[a].live /\ queue'[a].refs = 1 /\ queue'[a].callbacks = callbacks
  /\ \A b \in Address \ {a} :
       \/ queue'[b] = queue[b]
       \/ b = recyclableSubscribers /\ queue'[b] = Event!NoQueue

Creates(t, a) ==
  /\ call[t].fresh = None /\ call'[t].fresh = a
  /\ \E callbacks \in Seq(Callback) : Obtains(a, callbacks)
  /\ UNCHANGED subscribers
  /\ call'[t].held = call[t].held /\ call'[t].spare = call[t].spare
  /\ Drops(t)' = Drops(t)

(* and one becomes the current one. *)
Swaps(t) ==
  /\ subscribers = call[t].current /\ subscribers' = call[t].fresh
  /\ UNCHANGED <<recyclableSubscribers, queue>>
  /\ call'[t].fresh = None
  /\ call'[t].held = call[t].held /\ call'[t].spare = call[t].spare
  /\ Drops(t) = None /\ Drops(t)' = subscribers

(* These are all the things a step may do to arrays. *)
Effect(t) ==
  \/ Stays(t) \/ Acquires(t) \/ Recycles(t) \/ Discards(t) \/ Swaps(t)
  \/ \E a \in Address : Gives(t, a) \/ Creates(t, a)

(* Counting references changes nothing else about an array. *)
LEMMA CountingStep ==
  ASSUME Types, NEW a \in Address, NEW n \in Int,
         queue' = [queue EXCEPT ![a].refs = n]
  PROVE  /\ queue' = [b \in Address |-> queue'[b]]
         /\ \A b \in Address : QueueRecord(queue'[b])
         /\ queue'[a].refs = n
         /\ \A b \in Address : /\ queue'[b].live = queue[b].live
                               /\ queue'[b].callbacks = queue[b].callbacks
                               /\ b # a => queue'[b] = queue[b]
<1>1. QueueRecord(queue[a])
  BY DEF Types
<1>2. \A b \in Address \ {a} : queue'[b] = queue[b] /\ QueueRecord(queue[b])
  BY DEF Types
<1>3. queue'[a] = [queue[a] EXCEPT !.refs = n]
  BY DEF Types
<1>4. /\ QueueRecord(queue'[a]) /\ queue'[a].live = queue[a].live
      /\ queue'[a].callbacks = queue[a].callbacks /\ queue'[a].refs = n
  BY <1>1, <1>3 DEF QueueRecord
<1>5. queue' = [b \in Address |-> queue'[b]]
  BY DEF Types
<1> QED
  BY <1>2, <1>4, <1>5

(* A thread goes on with new locals that fit to what it has yet to do. *)
LEMMA GoesOn ==
  ASSUME Types, LocalsFollowTodo, NEW t \in Thread, NEW todo \in Todos,
         NEW new \in CallRecord, Event!Goes(t, todo, new), Fits(new, todo)
  PROVE  /\ call' \in [Thread -> CallRecord] /\ LocalsFollowTodo' /\ Elsewhere(t)
         /\ call'[t].held = new.held /\ call'[t].fresh = new.fresh
         /\ call'[t].spare = new.spare /\ call'[t].todo = todo
         /\ todo # <<>> => /\ call'[t].current = new.current
                           /\ call'[t].delegate = new.delegate
         /\ Drops(t)' = IF todo \in Dropping THEN new.current ELSE None
<1>1. call' \in [Thread -> CallRecord] /\ Elsewhere(t)
  BY GoesFacts DEF Types, Elsewhere
<1>2. /\ Fits(call'[t], todo) /\ call'[t].todo = todo
      /\ call'[t].held = new.held /\ call'[t].fresh = new.fresh
      /\ call'[t].spare = new.spare
      /\ todo # <<>> => /\ call'[t].current = new.current
                        /\ call'[t].delegate = new.delegate
  <2>1. CASE todo = <<>>
    <3>1. /\ todo \notin Keeping /\ todo \notin Recycling /\ todo \notin Making
          /\ todo \notin Replacing /\ todo \notin Dropping
          /\ todo \notin Reading /\ todo \notin Installing
          /\ todo # <<"first", "install">>
      BY <2>1 DEF Keeping, Making, Recycling, Dropping, Reading, Replacing,
                  Installing
    <3>2. call'[t] = Event!NoCall
      BY <2>1, GoesFacts DEF Types
    <3> QED
      BY <2>1, <3>1, <3>2 DEF Fits, Event!NoCall
  <2>2. CASE todo # <<>>
    BY <2>2, GoesFacts DEF Types, Fits
  <2> QED
    BY <2>1, <2>2
<1>3. LocalsFollowTodo'
  <2>1. ASSUME NEW s \in Thread \ {t} PROVE Fits(call'[s], call'[s].todo)
    BY <1>1 DEF Elsewhere, LocalsFollowTodo
  <2> QED
    BY <1>2, <2>1 DEF LocalsFollowTodo
<1>4. todo = <<>> => todo \notin Dropping
  BY DEF Dropping
<1> QED
  BY <1>1, <1>2, <1>3, <1>4 DEF Drops

(* Every method begins by getting hold of the current array, if there is one*)
LEMMA AcquireStep ==
  ASSUME Types, LocalsFollowTodo, NEW t \in Thread,
         NEW locals \in CallRecord, NEW found, NEW missing,
         Event!Acquire(t, found, missing, locals),
         call[t].todo \in {<<>>, <<"subscribe">>, <<"unsubscribe">>},
         /\ locals.held = None /\ locals.fresh = None /\ locals.spare = None,
         \/ found = <<"calling", "release">> /\ missing = <<>>
         \/ found = <<"search", "release">> /\ missing = <<>>
         \/ /\ found = <<"take", "release", "install">>
            /\ missing = <<"first", "install">> /\ locals.delegate \in Callback
  PROVE  /\ Types' /\ LocalsFollowTodo' /\ Elsewhere(t)
         /\ Stays(t) \/ Acquires(t)
         /\ call'[t].todo \in {found, missing} /\ call'[t].fresh = None
         /\ call'[t].todo # <<>> => call'[t].current = subscribers
         /\ overtaken'[t] = 0 /\ subscribers' = subscribers
         /\ \A s \in Thread \ {t} : overtaken'[s] = overtaken[s]
<1> USE DEF Event!Acquire
<1>1. found \in Todos /\ missing \in Todos
  BY DEF Todos, Keeping
<1>2. /\ call[t].held = None /\ call[t].fresh = None /\ call[t].spare = None
      /\ Drops(t) = None
  BY DEF LocalsFollowTodo, Fits, Drops, Keeping, Making, Recycling, Dropping,
         Replacing
<1>3. /\ overtaken' \in [Thread -> Nat] /\ overtaken'[t] = 0
      /\ subscribers' = subscribers
      /\ \A s \in Thread \ {t} : overtaken'[s] = overtaken[s]
  BY DEF Types
<1>4. CASE subscribers = None
  <2> DEFINE new == [locals EXCEPT !.current = None]
  <2>1. /\ new \in CallRecord /\ new.held = None /\ new.fresh = None
        /\ new.spare = None /\ new.current = None /\ new.delegate = locals.delegate
    BY DEF CallRecord, Place
  <2>2. Event!Goes(t, missing, new) /\ SameArrays
    BY <1>4 DEF SameArrays
  <2> HIDE DEF new
  <2>3. Fits(new, missing) /\ missing \notin Dropping
    <3> USE <2>1 DEF Fits, Keeping, Making, Recycling, Dropping, Reading,
                     Replacing, Installing
    <3>1. CASE missing = <<>>
      BY <3>1
    <3>2. CASE missing = <<"first", "install">> /\ locals.delegate \in Callback
      BY <3>2
    <3> QED
      BY <3>1, <3>2
  <2>4. /\ call' \in [Thread -> CallRecord] /\ LocalsFollowTodo' /\ Elsewhere(t)
        /\ Stays(t) /\ call'[t].fresh = None /\ call'[t].todo = missing
        /\ missing # <<>> => call'[t].current = subscribers
    BY <1>1, <1>2, <1>4, <2>1, <2>2, <2>3, GoesOn DEF Stays
  <2>5. Types'
    BY <1>3, <2>2, <2>4 DEF Types, SameArrays, QueueRecord
  <2> QED
    BY <1>3, <2>4, <2>5
<1>5. CASE subscribers # None
  <2> DEFINE new == [locals EXCEPT !.held = subscribers, !.current = subscribers]
  <2>1. /\ new \in CallRecord /\ new.held = subscribers /\ new.fresh = None
        /\ new.spare = None /\ new.current = subscribers
        /\ new.delegate = locals.delegate
    BY DEF CallRecord, Types
  <2>2. /\ Event!Goes(t, found, new)
        /\ queue' = [queue EXCEPT ![subscribers].refs = @ + 1]
        /\ UNCHANGED <<subscribers, recyclableSubscribers>>
    BY <1>5
  <2> HIDE DEF new
  <2>3. Fits(new, found) /\ found \notin Dropping
    BY <1>5, <2>1 DEF Fits, Keeping, Making, Recycling, Dropping, Reading,
                      Replacing, Installing
  <2>4. /\ call' \in [Thread -> CallRecord] /\ LocalsFollowTodo' /\ Elsewhere(t)
        /\ Acquires(t) /\ call'[t].fresh = None /\ call'[t].todo = found
        /\ found # <<>> => call'[t].current = subscribers
    BY <1>1, <1>2, <1>5, <2>1, <2>2, <2>3, GoesOn DEF Acquires
  <2>5. Types'
    <3>1. subscribers \in Address /\ queue[subscribers].refs + 1 \in Int
      BY <1>5 DEF Types, QueueRecord, Place
    <3>2. queue' = [queue EXCEPT ![subscribers].refs = queue[subscribers].refs + 1]
      BY <2>2
    <3> QED
      BY <1>3, <2>2, <2>4, <3>1, <3>2, CountingStep DEF Types
  <2> QED
    BY <1>3, <2>4, <2>5
<1> QED
  BY <1>4, <1>5

(* A reference is given back: what is left to do is the rest, or to recycle *)
(* the array first.                                                         *)
LEMMA DropStep ==
  ASSUME Types, LocalsFollowTodo, NEW t \in Thread, NEW a \in Address,
         NEW new \in CallRecord, Event!DropReference(t, a, new),
         Tail(call[t].todo) \in {<<>>, <<"install">>, <<"unsubscribe">>, <<"release">>},
         Fits(new, Tail(call[t].todo)), call[t].spare = None,
         /\ new.fresh = call[t].fresh
         /\ \/ call[t].held = a /\ new.held = None /\ Drops(t) = None
            \/ Drops(t) = a /\ new.held = call[t].held
  PROVE  /\ Types' /\ LocalsFollowTodo' /\ Elsewhere(t) /\ Gives(t, a)
         /\ call'[t].todo \notin Replacing
         /\ call'[t].todo \in Installing <=> Tail(call[t].todo) \in Installing
         /\ call'[t].todo # <<>> => /\ call'[t].current = new.current
                                   /\ call'[t].delegate = new.delegate
<1> DEFINE rest == Tail(call[t].todo)
           more == <<"recycle">> \o rest
           last == [new EXCEPT !.spare = a]
<1>1. /\ queue' = [queue EXCEPT ![a].refs = queue[a].refs - 1]
      /\ UNCHANGED <<subscribers, recyclableSubscribers, overtaken>>
      /\ queue[a].refs = 1 => Event!Goes(t, more, last)
      /\ queue[a].refs # 1 => Event!Goes(t, rest, new)
  BY DEF Event!DropReference, Event!Rest, Event!history
<1>2. /\ rest \in Todos /\ more \in Todos /\ more \in Recycling
      /\ rest \notin Dropping /\ more \notin Dropping
      /\ more \notin Reading
      /\ more \in Keeping <=> rest \in Keeping
      /\ more \in Making <=> rest \in Making
      /\ more \in Installing <=> rest \in Installing
      /\ more # <<"first", "install">> /\ more \notin Replacing
      /\ rest \notin Replacing
      /\ more # <<"subscribe">> /\ more # <<"discard", "subscribe">>
  <2> HIDE DEF rest, more
  <2>1. CASE rest = <<>>
    <3>1. more = <<"recycle">>
      BY <2>1, Prefixes DEF more
    <3> QED
      BY <2>1, <3>1 DEF Todos, Keeping, Making, Recycling, Dropping, Reading,
                      Replacing, Installing
  <2>2. CASE rest = <<"install">>
    <3>1. more = <<"recycle", "install">>
      BY <2>2, Prefixes DEF more
    <3> QED
      BY <2>2, <3>1 DEF Todos, Keeping, Making, Recycling, Dropping, Reading,
                      Replacing, Installing
  <2>3. CASE rest = <<"unsubscribe">>
    <3>1. more = <<"recycle", "unsubscribe">>
      BY <2>3, Prefixes DEF more
    <3> QED
      BY <2>3, <3>1 DEF Todos, Keeping, Making, Recycling, Dropping, Reading,
                      Replacing, Installing
  <2>4. CASE rest = <<"release">>
    <3>1. more = <<"recycle", "release">>
      BY <2>4, Prefixes DEF more
    <3> QED
      BY <2>4, <3>1 DEF Todos, Keeping, Making, Recycling, Dropping, Reading,
                      Replacing, Installing
  <2> QED
    BY <2>1, <2>2, <2>3, <2>4 DEF rest
<1>3. /\ last \in CallRecord /\ last.held = new.held /\ last.fresh = new.fresh
      /\ last.spare = a /\ last.current = new.current
      /\ last.delegate = new.delegate
  BY DEF CallRecord, Place
<1> HIDE DEF last, more
<1>4. Fits(last, more)
  BY <1>2, <1>3, ConcurrentAssumption DEF Fits, Event!ConcurrentEventAssumption
<1>5. new.spare = None
  BY <1>2 DEF Fits, Recycling
<1>6. /\ call' \in [Thread -> CallRecord] /\ LocalsFollowTodo' /\ Elsewhere(t)
      /\ Gives(t, a)
      /\ call'[t].todo \notin Replacing
      /\ call'[t].todo \in Installing <=> rest \in Installing
      /\ call'[t].todo # <<>> => /\ call'[t].current = new.current
                                /\ call'[t].delegate = new.delegate
  <2>1. CASE queue[a].refs = 1
    BY <1>1, <1>2, <1>3, <1>4, <2>1, GoesOn DEF Gives
  <2>2. CASE queue[a].refs # 1
    BY <1>1, <1>2, <1>5, <2>2, GoesOn DEF Gives
  <2> QED
    BY <2>1, <2>2
<1>7. Types'
  <2>1. queue[a].refs - 1 \in Int
    BY DEF Types, QueueRecord
  <2> QED
    BY <1>1, <1>6, <2>1, CountingStep DEF Types
<1> QED
  BY <1>6, <1>7

-----------------------------------------------------------------------------
(* The event: counting references *)

(* What the module of the event assumes, in the terms used here *)
LEMMA Assumptions ==
  /\ IsFiniteSet(Thread) /\ None \notin Address
  BY ConcurrentAssumption
  DEF Event!ConcurrentEventAssumption, Event!IsFiniteSet, IsFiniteSet

(* Sets of threads have sizes, and a set that differs in one thread has a   *)
(* size that differs by one.                                                *)
LEMMA Sizes ==
  ASSUME NEW S, S \subseteq Thread
  PROVE  /\ Cardinality(S) \in Nat
         /\ Cardinality(S) = 0 <=> S = {}
         /\ \A t \in Thread \ S : Cardinality(S \cup {t}) = Cardinality(S) + 1
<1>1. IsFiniteSet(S)
  BY Assumptions, FS_Subset
<1> QED
  BY <1>1, FS_CardinalityType, FS_EmptySet, FS_AddElement

(* Two sets that differ in one thread at most differ in size by one at most.*)
LEMMA OneMoves ==
  ASSUME NEW S, NEW T, S \subseteq Thread, T \subseteq Thread, NEW t \in Thread,
         \A s \in Thread \ {t} : s \in S <=> s \in T
  PROVE  /\ Cardinality(S) \in Nat /\ Cardinality(T) \in Nat
         /\ t \in S /\ t \notin T => Cardinality(S) = Cardinality(T) + 1
         /\ t \notin S /\ t \in T => Cardinality(T) = Cardinality(S) + 1
         /\ (t \in S <=> t \in T) => Cardinality(T) = Cardinality(S)
<1>1. CASE t \in S /\ t \notin T
  <2>1. S = T \cup {t}
    BY <1>1
  <2> QED
    BY <1>1, <2>1, Sizes
<1>2. CASE t \notin S /\ t \in T
  <2>1. T = S \cup {t}
    BY <1>2
  <2> QED
    BY <1>2, <2>1, Sizes
<1>3. CASE t \in S <=> t \in T
  <2>1. S = T
    BY <1>3
  <2> QED
    BY <1>3, <2>1, Sizes
<1> QED
  BY <1>1, <1>2, <1>3

(* Two members make two. *)
LEMMA AtLeastTwo ==
  ASSUME NEW S, S \subseteq Thread, NEW s \in S, NEW t \in S, s # t
  PROVE  Cardinality(S) >= 2
<1>1. /\ S \ {s} \subseteq Thread /\ S \ {s} # {} /\ s \in Thread \ (S \ {s})
      /\ (S \ {s}) \cup {s} = S
  OBVIOUS
<1>2. Cardinality(S \ {s}) \in Nat /\ Cardinality(S \ {s}) # 0
  BY <1>1, Sizes
<1>3. Cardinality(S) = Cardinality(S \ {s}) + 1
  BY <1>1, Sizes
<1> QED
  BY <1>2, <1>3

(* What is counted as needed *)
LEMMA NeedsFacts ==
  ASSUME NEW a \in Address
  PROVE  /\ Needs(a) \in Nat
         /\ Needs(a) = 0 => /\ subscribers # a
                            /\ \A t \in Thread : /\ call[t].held # a
                                                 /\ call[t].fresh # a
                                                 /\ Drops(t) # a
         /\ Needs(a) = 1 /\ Debtors(a) # {} =>
              /\ subscribers # a /\ \A t \in Thread : call[t].held # a
              /\ \A s, t \in Debtors(a) : s = t
<1> DEFINE h == Cardinality(Keepers(a))
           d == Cardinality(Debtors(a))
<1>1. Keepers(a) \subseteq Thread /\ Debtors(a) \subseteq Thread
  BY DEF Keepers, Debtors
<1>2. h \in Nat /\ d \in Nat /\ (h = 0 <=> Keepers(a) = {}) /\ (d = 0 <=> Debtors(a) = {})
  BY <1>1, Sizes
<1>3. \A s, t \in Debtors(a) : s # t => d >= 2
  BY <1>1, AtLeastTwo
<1>4. /\ Keepers(a) = {} => \A t \in Thread : call[t].held # a
      /\ Debtors(a) = {} => \A t \in Thread : call[t].fresh # a /\ Drops(t) # a
  BY DEF Keepers, Debtors
<1>5. Needs(a) = h + (IF subscribers = a THEN 1 ELSE 0) + d
  BY DEF Needs
<1> HIDE DEF h, d
<1>6. Needs(a) \in Nat
  BY <1>2, <1>5
<1>7. Needs(a) = 0 => h = 0 /\ d = 0 /\ subscribers # a
  BY <1>2, <1>5
<1>8. Needs(a) = 1 /\ d # 0 => h = 0 /\ d = 1 /\ subscribers # a
  BY <1>2, <1>5
<1>9. \A s, t \in Debtors(a) : d = 1 => s = t
  BY <1>2, <1>3
<1> QED
  BY <1>2, <1>4, <1>6, <1>7, <1>8, <1>9

(* An array without references is used by nobody. *)
LEMMA Unneeded ==
  ASSUME EventOK, NEW a \in Address, LiveAt(a, 0)
  PROVE  /\ subscribers # a
         /\ \A t \in Thread : /\ call[t].held # a /\ call[t].fresh # a
                              /\ Drops(t) # a
  BY NeedsFacts DEF EventOK, CountsAreRight, LiveAt

(* An array that was made is used by its maker only. *)
LEMMA Private ==
  ASSUME EventOK, NEW t \in Thread, call[t].fresh # None
  PROVE  /\ call[t].fresh \in Address /\ subscribers # call[t].fresh
         /\ recyclableSubscribers # call[t].fresh
         /\ \A s \in Thread : /\ call[s].held # call[t].fresh
                              /\ call[s].spare # call[t].fresh
                              /\ Drops(s) # call[t].fresh
                              /\ call[s].fresh = call[t].fresh => s = t
<1> DEFINE a == call[t].fresh
<1>1. a \in Address /\ LiveAt(a, 1) /\ Needs(a) = 1
  BY DEF EventOK, Types, CallRecord, Place, ReachableIsLive, CountsAreRight, LiveAt
<1>2. /\ t \in Debtors(a) /\ a # None
      /\ \A s \in Thread : Drops(s) = a \/ call[s].fresh = a => s \in Debtors(a)
  BY DEF Debtors
<1>3. \A s \in Thread : call[s].fresh # None => Drops(s) = None
  BY DEF EventOK, LocalsFollowTodo, Fits, Drops, Making, Replacing, Dropping
<1>4. recyclableSubscribers # a /\ \A s \in Thread : call[s].spare # a
  BY <1>1 DEF EventOK, ReachableIsLive, LiveAt
<1>5. /\ subscribers # a /\ \A s \in Thread : call[s].held # a
      /\ \A s \in Debtors(a) : s = t
  BY <1>1, <1>2, NeedsFacts
<1>6. \A s \in Thread : Drops(s) # a
  BY <1>2, <1>3, <1>5
<1> QED
  BY <1>1, <1>2, <1>4, <1>5, <1>6

(* What is needed is live and has a reference. *)
LEMMA Needed ==
  ASSUME EventOK, NEW a \in Address,
         \/ subscribers = a
         \/ \E t \in Thread : call[t].held = a \/ Drops(t) = a \/ call[t].fresh = a
  PROVE  queue[a].live /\ queue[a].refs = Needs(a) /\ queue[a].refs >= 1
<1>1. queue[a].live
  BY Assumptions DEF EventOK, ReachableIsLive, LiveAt
<1>2. queue[a].refs = Needs(a)
  BY <1>1 DEF EventOK, CountsAreRight
<1> QED
  BY <1>1, <1>2, NeedsFacts

(* A condition as a number *)
One(condition) == IF condition THEN 1 ELSE 0

(* What a step of one thread does to what is needed of an array *)
LEMMA NeedsMove ==
  ASSUME NEW t \in Thread, Elsewhere(t), NEW a \in Address
  PROVE  /\ Needs(a) \in Int
         /\ Needs(a)' = Needs(a)
              + One(call'[t].held = a) - One(call[t].held = a)
              + One(subscribers' = a) - One(subscribers = a)
              + One(call'[t].fresh = a \/ Drops(t)' = a)
              - One(call[t].fresh = a \/ Drops(t) = a)
<1> DEFINE k == Cardinality(Keepers(a))
           d == Cardinality(Debtors(a))
           l == Cardinality(Keepers(a)')
           e == Cardinality(Debtors(a)')
<1>1. \A s \in Thread \ {t} : call'[s] = call[s] /\ Drops(s)' = Drops(s)
  BY DEF Elsewhere, Drops
<1>2. /\ Keepers(a) \subseteq Thread /\ Keepers(a)' \subseteq Thread
      /\ \A s \in Thread \ {t} : s \in Keepers(a) <=> s \in Keepers(a)'
      /\ t \in Keepers(a) <=> call[t].held = a
      /\ t \in Keepers(a)' <=> call'[t].held = a
  BY <1>1 DEF Keepers
<1>3. /\ Debtors(a) \subseteq Thread /\ Debtors(a)' \subseteq Thread
      /\ \A s \in Thread \ {t} : s \in Debtors(a) <=> s \in Debtors(a)'
      /\ t \in Debtors(a) <=> call[t].fresh = a \/ Drops(t) = a
      /\ t \in Debtors(a)' <=> call'[t].fresh = a \/ Drops(t)' = a
  BY <1>1 DEF Debtors
<1>4. /\ k \in Nat /\ l \in Nat
      /\ l = k + One(call'[t].held = a) - One(call[t].held = a)
  BY <1>2, OneMoves DEF One
<1>5. /\ d \in Nat /\ e \in Nat
      /\ e = d + One(call'[t].fresh = a \/ Drops(t)' = a)
               - One(call[t].fresh = a \/ Drops(t) = a)
  BY <1>3, OneMoves DEF One
<1>6. /\ Needs(a) = k + One(subscribers = a) + d
      /\ Needs(a)' = l + One(subscribers' = a) + e
  BY DEF Needs, One
<1> HIDE DEF k, d, l, e
<1> QED
  BY <1>4, <1>5, <1>6 DEF One

(* Nothing changes about arrays in use but their counters. *)
ContentStays ==
  \A a \in Address :
    queue[a].live /\ queue[a].refs # 0 => queue'[a].callbacks = queue[a].callbacks

(* The part of the invariant that is about arrays *)
ArraysOK == ReachableIsLive /\ CountsAreRight

(* Whatever is used is at an address. *)
UsedAreAddresses ==
  /\ recyclableSubscribers # None => recyclableSubscribers \in Address
  /\ subscribers # None => subscribers \in Address
  /\ \A t \in Thread :
       /\ call[t].held # None => call[t].held \in Address
       /\ Drops(t) # None => Drops(t) \in Address
       /\ call[t].fresh # None => call[t].fresh \in Address
       /\ call[t].spare # None => call[t].spare \in Address

(* The types say so. *)
LEMMA AddressesAreUsed ==
  Types => UsedAreAddresses
  BY DEF Types, UsedAreAddresses, CallRecord, Place, Drops

(* A step that does nothing to arrays *)
LEMMA StaysKeeps ==
  ASSUME EventOK, NEW t \in Thread, Elsewhere(t), Stays(t)
  PROVE  ArraysOK' /\ ContentStays
<1>1. \A s \in Thread : /\ call'[s].held = call[s].held
                        /\ call'[s].fresh = call[s].fresh
                        /\ call'[s].spare = call[s].spare
                        /\ Drops(s)' = Drops(s)
  BY DEF Elsewhere, Stays, Drops
<1>2. ReachableIsLive'
  BY <1>1 DEF EventOK, ReachableIsLive, LiveAt, Stays, SameArrays
<1>3. \A a \in Address : Needs(a)' = Needs(a)
  BY <1>1 DEF Needs, Keepers, Debtors, Stays, SameArrays
<1> QED
  BY <1>2, <1>3 DEF EventOK, CountsAreRight, Stays, SameArrays, ArraysOK,
     ContentStays

(* A reference to the current array more *)
LEMMA AcquiresKeeps ==
  ASSUME EventOK, NEW t \in Thread, Elsewhere(t), Acquires(t)
  PROVE  ArraysOK' /\ ContentStays
<1> DEFINE a == subscribers
<1>1. a \in Address /\ queue[a].refs \in Int
  BY DEF EventOK, Types, Place, Acquires, QueueRecord
<1>2. /\ queue'[a].refs = queue[a].refs + 1
      /\ \A b \in Address : /\ queue'[b].live = queue[b].live
                            /\ queue'[b].callbacks = queue[b].callbacks
                            /\ b # a => queue'[b] = queue[b]
  <2>1. queue' = [queue EXCEPT ![a].refs = queue[a].refs + 1]
    BY DEF Acquires
  <2>2. queue[a].refs + 1 \in Int /\ Types
    BY <1>1 DEF EventOK
  <2> QED
    BY <1>1, <2>1, <2>2, CountingStep
<1>3. queue[a].live /\ queue[a].refs >= 1
  BY <1>1, Needed
<1>4. ReachableIsLive'
  <2>1. \A s \in Thread : call[s].fresh # a /\ call[s].spare # a
    <3>0. a # None
      BY <1>1, Assumptions
    <3>1. ASSUME NEW s \in Thread, call[s].fresh = a  PROVE  FALSE
      <4>1. call[s].fresh # None
        BY <3>0, <3>1
      <4>2. subscribers # call[s].fresh
        BY <4>1, Private
      <4> QED
        BY <3>1, <4>2
    <3>2. ASSUME NEW s \in Thread, call[s].spare = a  PROVE  FALSE
      <4>1. call[s].spare # None => LiveAt(call[s].spare, 0)
        BY DEF EventOK, ReachableIsLive
      <4>2. queue[a].refs = 0
        BY <3>0, <3>2, <4>1 DEF LiveAt
      <4> QED
        BY <1>3, <4>2
    <3> QED
      BY <3>1, <3>2
  <2>2. \A s \in Thread : /\ call'[s].held \in {call[s].held, a}
                          /\ call'[s].fresh = call[s].fresh
                          /\ call'[s].spare = call[s].spare
                          /\ Drops(s)' = Drops(s)
    BY DEF Elsewhere, Acquires, Drops
  <2>3. UsedAreAddresses
    BY AddressesAreUsed DEF EventOK
  <2>4. subscribers' = a /\ recyclableSubscribers' = recyclableSubscribers
    BY DEF Acquires
  <2>5. recyclableSubscribers # a
    BY <1>1, <1>3, Assumptions DEF EventOK, ReachableIsLive, LiveAt
  <2>6. ASSUME NEW s \in Thread
        PROVE  /\ call[s].held # None => queue'[call[s].held].live
               /\ Drops(s) # None => queue'[Drops(s)].live
               /\ call[s].fresh # None => /\ queue'[call[s].fresh].live
                                         /\ queue'[call[s].fresh].refs = 1
               /\ call[s].spare # None => /\ queue'[call[s].spare].live
                                         /\ queue'[call[s].spare].refs = 0
    BY <1>2, <2>1, <2>3 DEF EventOK, ReachableIsLive, LiveAt, UsedAreAddresses
  <2>7. recyclableSubscribers # None =>
          queue'[recyclableSubscribers].live /\ queue'[recyclableSubscribers].refs = 0
    BY <1>2, <2>3, <2>5 DEF EventOK, ReachableIsLive, LiveAt, UsedAreAddresses
  <2>8. queue'[a].live
    BY <1>1, <1>2, <1>3
  <2>9. /\ \A s \in Thread : call[s].spare # None => call[s].spare # recyclableSubscribers
        /\ \A s, u \in Thread :
             call[u].spare # None /\ call[u].spare = call[s].spare => s = u
    BY DEF EventOK, ReachableIsLive
  <2> HIDE DEF a
  <2> QED
    BY <2>2, <2>4, <2>6, <2>7, <2>8, <2>9 DEF ReachableIsLive, LiveAt
<1>5. CountsAreRight'
  <2> SUFFICES ASSUME NEW b \in Address, queue'[b].live PROVE queue'[b].refs = Needs(b)'
    BY DEF CountsAreRight
  <2>1. queue[b].refs = Needs(b) /\ b # None
    BY <1>2, Assumptions DEF EventOK, CountsAreRight
  <2>2. Needs(b)' = Needs(b) + One(b = a)
    BY <2>1, NeedsMove DEF Acquires, One
  <2> QED
    BY <1>1, <1>2, <2>1, <2>2, NeedsMove DEF One
<1> QED
  BY <1>2, <1>4, <1>5 DEF ArraysOK, ContentStays

(* What everybody uses, in the terms of the next state *)
LEMMA Reached ==
  ASSUME EventOK
  PROVE  /\ UsedAreAddresses
         /\ \A s \in Thread :
              /\ call[s].held # None => queue[call[s].held].live
              /\ Drops(s) # None => queue[Drops(s)].live
              /\ call[s].fresh # None => LiveAt(call[s].fresh, 1)
              /\ call[s].spare # None => /\ LiveAt(call[s].spare, 0)
                                        /\ call[s].spare # recyclableSubscribers
         /\ \A s, u \in Thread :
              call[u].spare # None /\ call[u].spare = call[s].spare => s = u
         /\ subscribers # None => queue[subscribers].live
         /\ recyclableSubscribers # None => LiveAt(recyclableSubscribers, 0)
         /\ \A s \in Thread : call[s].fresh # None => Drops(s) = None
  BY AddressesAreUsed
  DEF EventOK, ReachableIsLive, LocalsFollowTodo, Fits, Drops, Making, Replacing,
      Dropping

(* Giving a reference back *)
LEMMA GivesKeeps ==
  ASSUME EventOK, NEW t \in Thread, Elsewhere(t), NEW a \in Address, Gives(t, a)
  PROVE  ArraysOK' /\ ContentStays
<1>1. /\ queue'[a].refs = queue[a].refs - 1 /\ queue[a].refs \in Int
      /\ \A b \in Address : /\ queue'[b].live = queue[b].live
                            /\ queue'[b].callbacks = queue[b].callbacks
                            /\ b # a => queue'[b] = queue[b]
  <2>1. queue' = [queue EXCEPT ![a].refs = queue[a].refs - 1]
    BY DEF Gives
  <2>2. queue[a].refs \in Int /\ queue[a].refs - 1 \in Int /\ Types
    BY DEF EventOK, Types, QueueRecord
  <2> QED
    BY <2>1, <2>2, CountingStep
<1>2. queue[a].live /\ queue[a].refs >= 1 /\ a # None
  BY Needed, Assumptions DEF Gives
<1>3. \A s \in Thread : call[s].fresh # a /\ call[s].spare # a
  BY <1>1, <1>2, Private, Reached DEF LiveAt, Gives
<1>4. recyclableSubscribers # a
  BY <1>1, <1>2, Reached DEF LiveAt
<1>5. \A s \in Thread : /\ call'[s].held \in {call[s].held, None}
                        /\ call'[s].fresh = call[s].fresh
                        /\ s # t => call'[s].spare = call[s].spare
                        /\ Drops(s)' \in {Drops(s), None}
  BY DEF Elsewhere, Gives, Drops
<1>6. call'[t].spare = (IF queue[a].refs = 1 THEN a ELSE None)
  BY DEF Gives
<1>7. subscribers' = subscribers /\ recyclableSubscribers' = recyclableSubscribers
  BY DEF Gives
<1>8. ASSUME NEW s \in Thread
      PROVE  /\ call[s].held # None => queue'[call[s].held].live
             /\ Drops(s) # None => queue'[Drops(s)].live
             /\ call[s].fresh # None => /\ queue'[call[s].fresh].live
                                       /\ queue'[call[s].fresh].refs = 1
             /\ call[s].spare # None => /\ queue'[call[s].spare].live
                                       /\ queue'[call[s].spare].refs = 0
  BY <1>1, <1>3, Reached DEF LiveAt, UsedAreAddresses
<1>9. /\ recyclableSubscribers # None => /\ queue'[recyclableSubscribers].live
                                        /\ queue'[recyclableSubscribers].refs = 0
      /\ subscribers # None => queue'[subscribers].live
      /\ queue'[a].live /\ (queue[a].refs = 1 => queue'[a].refs = 0)
  BY <1>1, <1>2, <1>4, Reached DEF LiveAt, UsedAreAddresses
<1>10. ReachableIsLive'
  <2>1. \A s \in Thread :
          call'[s].spare # None =>
            \/ s # t /\ call'[s].spare = call[s].spare
            \/ s = t /\ call'[s].spare = a /\ queue'[a].refs = 0
    BY <1>5, <1>6, <1>9
  <2> QED
    BY <1>3, <1>4, <1>5, <1>7, <1>8, <1>9, <2>1, Reached DEF ReachableIsLive, LiveAt
<1>11. CountsAreRight'
  <2> SUFFICES ASSUME NEW b \in Address, queue'[b].live PROVE queue'[b].refs = Needs(b)'
    BY DEF CountsAreRight
  <2>1. queue[b].refs = Needs(b) /\ b # None
    BY <1>1, Assumptions DEF EventOK, CountsAreRight
  <2>2. Needs(b)' = Needs(b) - One(b = a)
    <3>1. CASE call[t].held = a /\ call'[t].held = None /\ Drops(t) = None
      BY <1>7, <2>1, <3>1, NeedsMove DEF Gives, One
    <3>2. CASE Drops(t) = a /\ call'[t].held = call[t].held
      <4>1. call[t].fresh = None /\ call'[t].fresh = None /\ Drops(t)' = None
        BY <1>2, <3>2, Reached DEF Gives
      <4> QED
        BY <1>7, <2>1, <3>2, <4>1, NeedsMove DEF One
    <3> QED
      BY <3>1, <3>2 DEF Gives
  <2> QED
    BY <1>1, <2>1, <2>2, NeedsMove DEF One
<1> QED
  BY <1>1, <1>10, <1>11 DEF ArraysOK, ContentStays

(* Freeing the array that was recyclable *)
LEMMA FreedFacts ==
  ASSUME EventOK, NEW queues, queues = [b \in Address |-> queues[b]]
  PROVE  LET freed == Event!Freed(recyclableSubscribers, queues) IN
         /\ freed = [b \in Address |-> freed[b]]
         /\ \A b \in Address :
              freed[b] = IF b = recyclableSubscribers THEN Event!NoQueue ELSE queues[b]
  BY Reached, Assumptions DEF Event!Freed, UsedAreAddresses

(* Recycling an array *)
LEMMA RecyclesKeeps ==
  ASSUME EventOK, NEW t \in Thread, Elsewhere(t), Recycles(t)
  PROVE  ArraysOK' /\ ContentStays
<1> DEFINE a == call[t].spare
           r == recyclableSubscribers
<1>1. a \in Address /\ LiveAt(a, 0) /\ a # r /\ a # None
  BY Reached, Assumptions DEF Recycles, UsedAreAddresses
<1>2. \A b \in Address : queue'[b] = IF b = r THEN Event!NoQueue ELSE queue[b]
  BY FreedFacts DEF Recycles, EventOK, Types
<1>3. r # None => /\ r \in Address /\ subscribers # r
                  /\ \A s \in Thread : /\ call[s].held # r /\ call[s].fresh # r
                                       /\ Drops(s) # r /\ call[s].spare # r
  BY Reached, Unneeded DEF UsedAreAddresses
<1>4. \A s \in Thread : /\ call'[s].held = call[s].held
                        /\ call'[s].fresh = call[s].fresh
                        /\ s # t => call'[s].spare = call[s].spare
                        /\ Drops(s)' = Drops(s)
  BY DEF Elsewhere, Recycles, Drops
<1>5. /\ call'[t].spare = None /\ subscribers' = subscribers
      /\ recyclableSubscribers' = a
  BY DEF Recycles
<1>6. ASSUME NEW s \in Thread
      PROVE  /\ call[s].held # None => queue'[call[s].held].live
             /\ Drops(s) # None => queue'[Drops(s)].live
             /\ call[s].fresh # None => /\ queue'[call[s].fresh].live
                                       /\ queue'[call[s].fresh].refs = 1
             /\ call[s].spare # None => /\ queue'[call[s].spare].live
                                       /\ queue'[call[s].spare].refs = 0
  BY <1>2, <1>3, Reached DEF LiveAt, UsedAreAddresses
<1>7. /\ queue'[a].live /\ queue'[a].refs = 0
      /\ subscribers # None => queue'[subscribers].live
  BY <1>1, <1>2, <1>3, Reached DEF LiveAt, UsedAreAddresses
<1>8. \A s \in Thread : s # t => call[s].spare # a
  BY <1>1, Reached
<1> HIDE DEF a, r
<1>9. ReachableIsLive'
  BY <1>4, <1>5, <1>6, <1>7, <1>8, Reached DEF ReachableIsLive, LiveAt
<1>10. \A b \in Address : Needs(b)' = Needs(b)
  BY <1>4, <1>5 DEF Needs, Keepers, Debtors
<1>11. CountsAreRight'
  BY <1>2, <1>10 DEF CountsAreRight, EventOK, Event!NoQueue
<1>12. ContentStays
  <2> SUFFICES ASSUME NEW b \in Address, queue[b].live, queue[b].refs # 0
               PROVE  queue'[b].callbacks = queue[b].callbacks
    BY DEF ContentStays
  <2>1. b # r
    BY Reached, Assumptions DEF LiveAt, r
  <2> QED
    BY <1>2, <2>1
<1> QED
  BY <1>9, <1>11, <1>12 DEF ArraysOK

(* Giving up an array that was made *)
LEMMA DiscardsKeeps ==
  ASSUME EventOK, NEW t \in Thread, Elsewhere(t), Discards(t)
  PROVE  ArraysOK' /\ ContentStays
<1> DEFINE a == call[t].fresh
           r == recyclableSubscribers
           counted == [queue EXCEPT ![a].refs = 0]
<1>1. /\ a \in Address /\ LiveAt(a, 1) /\ a # r /\ a # None /\ subscribers # a
      /\ \A s \in Thread : /\ call[s].held # a /\ call[s].spare # a
                           /\ Drops(s) # a /\ (call[s].fresh = a => s = t)
  BY Private, Reached DEF Discards
<1>2. /\ counted = [b \in Address |-> counted[b]]
      /\ counted[a].refs = 0 /\ counted[a].live = queue[a].live
      /\ counted[a].callbacks = queue[a].callbacks
      /\ \A b \in Address \ {a} : counted[b] = queue[b]
  <2>1. /\ queue = [b \in Address |-> queue[b]] /\ QueueRecord(queue[a])
    BY <1>1 DEF EventOK, Types
  <2>2. counted[a] = [queue[a] EXCEPT !.refs = 0]
    BY <1>1, <2>1
  <2> QED
    BY <1>1, <2>1, <2>2 DEF QueueRecord
<1>3. queue' = Event!Freed(r, counted) /\ recyclableSubscribers' = a
      /\ subscribers' = subscribers
  BY DEF Discards
<1> HIDE DEF counted
<1>4. \A b \in Address : queue'[b] = IF b = r THEN Event!NoQueue ELSE counted[b]
  BY <1>2, <1>3, FreedFacts
<1>5. r # None => /\ r \in Address /\ subscribers # r
                  /\ \A s \in Thread : /\ call[s].held # r /\ call[s].fresh # r
                                       /\ Drops(s) # r /\ call[s].spare # r
  BY Reached, Unneeded DEF UsedAreAddresses
<1>6. \A s \in Thread : /\ call'[s].held = call[s].held
                        /\ s # t => call'[s].fresh = call[s].fresh
                        /\ call'[s].spare = call[s].spare
                        /\ Drops(s)' = Drops(s)
  BY DEF Elsewhere, Discards, Drops
<1>7. call'[t].fresh = None
  BY DEF Discards
<1>8. ASSUME NEW s \in Thread
      PROVE  /\ call[s].held # None => queue'[call[s].held].live
             /\ Drops(s) # None => queue'[Drops(s)].live
             /\ call[s].fresh # None /\ s # t => /\ queue'[call[s].fresh].live
                                                /\ queue'[call[s].fresh].refs = 1
             /\ call[s].spare # None => /\ queue'[call[s].spare].live
                                       /\ queue'[call[s].spare].refs = 0
  <2> HIDE DEF a, r
  <2> QED
    BY <1>1, <1>2, <1>4, <1>5, Reached DEF LiveAt, UsedAreAddresses
<1>9. /\ queue'[a].live /\ queue'[a].refs = 0
      /\ subscribers # None => queue'[subscribers].live
  <2> HIDE DEF r
  <2> QED
    BY <1>1, <1>2, <1>4, <1>5, Reached DEF LiveAt, UsedAreAddresses
<1>10. ReachableIsLive'
  <2> HIDE DEF a, r
  <2> QED
    BY <1>1, <1>3, <1>6, <1>7, <1>8, <1>9, Reached DEF ReachableIsLive, LiveAt
<1>11. CountsAreRight'
  <2> SUFFICES ASSUME NEW b \in Address, queue'[b].live PROVE queue'[b].refs = Needs(b)'
    BY DEF CountsAreRight
  <2>1. b # r /\ queue'[b] = counted[b] /\ b # None
    BY <1>4, Assumptions DEF Event!NoQueue
  <2>2. queue[b].refs = Needs(b)
    BY <1>2, <2>1 DEF EventOK, CountsAreRight
  <2>3. Needs(b)' = Needs(b) - One(b = a)
    BY <1>1, <1>3, <1>6, <1>7, <2>1, NeedsMove DEF One
  <2> QED
    <3>1. CASE b = a
      BY <1>1, <1>2, <2>1, <2>2, <2>3, <3>1 DEF One, LiveAt
    <3>2. CASE b # a
      <4>1. queue'[b] = queue[b]
        BY <1>2, <2>1, <3>2
      <4> QED
        BY <2>2, <2>3, <3>2, <4>1, NeedsMove DEF One
    <3> QED
      BY <3>1, <3>2
<1>12. ContentStays
  <2> SUFFICES ASSUME NEW b \in Address, queue[b].live, queue[b].refs # 0
               PROVE  queue'[b].callbacks = queue[b].callbacks
    BY DEF ContentStays
  <2>1. b # r
    BY Reached, Assumptions DEF LiveAt
  <2> QED
    BY <1>2, <1>4, <2>1
<1> QED
  BY <1>10, <1>11, <1>12 DEF ArraysOK

(* Making an array *)
LEMMA MakesKeeps ==
  ASSUME EventOK, NEW t \in Thread, Elsewhere(t), NEW a \in Address, Creates(t, a)
  PROVE  ArraysOK' /\ ContentStays
<1> DEFINE r == recyclableSubscribers
<1>1. a # None /\ (a = r \/ ~queue[a].live)
  BY Assumptions DEF Creates, Obtains
<1>2. /\ subscribers # a
      /\ \A s \in Thread : /\ call[s].held # a /\ call[s].fresh # a
                           /\ Drops(s) # a /\ call[s].spare # a
  <2>1. CASE a = r
    BY <1>1, <2>1, Reached, Unneeded
  <2>2. CASE ~queue[a].live
    BY <1>1, <2>2, Reached DEF LiveAt
  <2> QED
    BY <1>1, <2>1, <2>2
<1>3. r # None => /\ r \in Address /\ subscribers # r
                  /\ \A s \in Thread : /\ call[s].held # r /\ call[s].fresh # r
                                       /\ Drops(s) # r /\ call[s].spare # r
  BY Reached, Unneeded DEF UsedAreAddresses
<1>4. /\ queue'[a].live /\ queue'[a].refs = 1
      /\ \A b \in Address : b # a /\ b # r => queue'[b] = queue[b]
      /\ \A b \in Address : b # a /\ b = r =>
           queue'[b] = queue[b] \/ queue'[b] = Event!NoQueue
      /\ recyclableSubscribers' = None /\ subscribers' = subscribers
  BY DEF Creates, Obtains
<1>5. \A s \in Thread : /\ call'[s].held = call[s].held
                        /\ s # t => call'[s].fresh = call[s].fresh
                        /\ call'[s].spare = call[s].spare
                        /\ Drops(s)' = Drops(s)
  BY DEF Elsewhere, Creates, Drops
<1>6. call[t].fresh = None /\ call'[t].fresh = a
  BY DEF Creates
<1> HIDE DEF r
<1>7. ASSUME NEW s \in Thread
      PROVE  /\ call[s].held # None => queue'[call[s].held].live
             /\ Drops(s) # None => queue'[Drops(s)].live
             /\ call[s].fresh # None => /\ queue'[call[s].fresh].live
                                       /\ queue'[call[s].fresh].refs = 1
             /\ call[s].spare # None => /\ queue'[call[s].spare].live
                                       /\ queue'[call[s].spare].refs = 0
  BY <1>2, <1>3, <1>4, Reached, Assumptions DEF LiveAt, UsedAreAddresses
<1>8. subscribers # None => queue'[subscribers].live
  BY <1>2, <1>3, <1>4, Reached, Assumptions DEF LiveAt, UsedAreAddresses
<1>9. ReachableIsLive'
  BY <1>1, <1>4, <1>5, <1>6, <1>7, <1>8, Reached DEF ReachableIsLive, LiveAt
<1>10. CountsAreRight'
  <2> SUFFICES ASSUME NEW b \in Address, queue'[b].live PROVE queue'[b].refs = Needs(b)'
    BY DEF CountsAreRight
  <2>1. b # None
    BY Assumptions
  <2>2. Needs(b)' = Needs(b) + One(b = a)
    BY <1>1, <1>2, <1>4, <1>5, <1>6, <2>1, NeedsMove DEF One
  <2>3. Needs(a) = 0
    <3>1. Keepers(a) = {} /\ Debtors(a) = {}
      BY <1>2 DEF Keepers, Debtors
    <3>2. Cardinality({}) = 0
      BY FS_EmptySet
    <3> QED
      BY <1>2, <3>1, <3>2 DEF Needs
  <2>4. CASE b = a
    BY <1>4, <2>2, <2>3, <2>4 DEF One
  <2>5. CASE b # a
    <3>1. queue'[b] = queue[b]
      BY <1>4, <2>5 DEF Event!NoQueue
    <3> QED
      BY <2>2, <2>5, <3>1, NeedsMove DEF One, EventOK, CountsAreRight
  <2> QED
    BY <2>4, <2>5
<1>11. ContentStays
  <2> SUFFICES ASSUME NEW b \in Address, queue[b].live, queue[b].refs # 0
               PROVE  queue'[b].callbacks = queue[b].callbacks
    BY DEF ContentStays
  <2>1. b # r
    BY Reached, Assumptions DEF LiveAt, r
  <2> QED
    BY <1>1, <1>4, <2>1
<1> QED
  BY <1>9, <1>10, <1>11 DEF ArraysOK

(* Replacing the current array *)
LEMMA SwapsKeeps ==
  ASSUME EventOK, NEW t \in Thread, Elsewhere(t), Swaps(t)
  PROVE  ArraysOK' /\ ContentStays
<1> DEFINE c == subscribers
           f == call[t].fresh
<1>1. /\ subscribers' = f /\ queue' = queue /\ call'[t].fresh = None
      /\ recyclableSubscribers' = recyclableSubscribers
      /\ call'[t].held = call[t].held /\ call'[t].spare = call[t].spare
      /\ Drops(t) = None /\ Drops(t)' = c
  BY DEF Swaps
<1>2. \A s \in Thread : /\ call'[s].held = call[s].held
                        /\ s # t => call'[s].fresh = call[s].fresh
                        /\ call'[s].spare = call[s].spare
                        /\ s # t => Drops(s)' = Drops(s)
  BY <1>1 DEF Elsewhere, Drops
<1>3. f # None => c # f
  BY Private
<1> HIDE DEF c, f
<1>4. ReachableIsLive'
  BY <1>1, <1>2, Reached DEF ReachableIsLive, LiveAt, c, f
<1>5. CountsAreRight'
  <2> SUFFICES ASSUME NEW b \in Address PROVE Needs(b)' = Needs(b)
    BY <1>1 DEF CountsAreRight, EventOK
  <2>1. b # None
    BY Assumptions
  <2>2. subscribers = c /\ call[t].fresh = f
    BY DEF c, f
  <2> QED
    BY <1>1, <1>3, <2>1, <2>2, NeedsMove DEF One
<1> QED
  BY <1>1, <1>4, <1>5 DEF ArraysOK, ContentStays
(* Whatever a step does to the arrays, the counters stay right and nothing  *)
(* that is used is freed or written to.                                     *)
LEMMA EffectKeeps ==
  ASSUME EventOK, NEW t \in Thread, Elsewhere(t), Effect(t)
  PROVE  ArraysOK' /\ ContentStays
  BY StaysKeeps, AcquiresKeeps, GivesKeeps, RecyclesKeeps, DiscardsKeeps,
     MakesKeeps, SwapsKeeps DEF Effect

-----------------------------------------------------------------------------
(* The event: what each step does *)

(* What the methods of the event do to memory they are given *)
Allotted(a, callbacks) ==
  /\ Obtains(a, callbacks)
  /\ queue' = [b \in Address |-> queue'[b]]
  /\ \A b \in Address : QueueRecord(queue'[b])

(* An array is obtained for a copy: the recyclable one with the reference   *)
(* that it lacked, or a new one.                                            *)
LEMMA ObtainStep ==
  ASSUME EventOK, NEW a \in Address, NEW callbacks \in Seq(Callback),
         NEW extra, NEW required,
         Event!Obtain(callbacks, extra, required, a),
         extra = 1 \/ recyclableSubscribers = None
  PROVE  Allotted(a, callbacks)
<1> DEFINE old == recyclableSubscribers
           without == IF old # None /\ queue[old].capacity < required
                      THEN Event!Freed(old, queue) ELSE queue
           new == Event!Allocated(callbacks)
<1>1. /\ queue = [b \in Address |-> queue[b]]
      /\ \A b \in Address : QueueRecord(queue[b])
      /\ old # None => old \in Address /\ LiveAt(old, 0)
      /\ recyclableSubscribers' = None
  BY Reached DEF EventOK, Types, UsedAreAddresses, Event!Obtain
<1>2. CASE old # None /\ queue[old].capacity >= required
  <2>1. /\ a = old /\ extra = 1
        /\ queue' = [queue EXCEPT ![a].refs = @ + extra, ![a].callbacks = callbacks]
    BY <1>2 DEF Event!Obtain
  <2>2. PICK q, n : q = queue[a] /\ n = q.refs + extra
    OBVIOUS
  <2>3. q.live /\ QueueRecord(q) /\ n = 1
    BY <1>1, <1>2, <2>1, <2>2 DEF LiveAt
  <2>4. /\ queue' = [b \in Address |-> queue'[b]]
        /\ \A b \in Address \ {a} : queue'[b] = queue[b]
        /\ queue'[a] = [q EXCEPT !.refs = n, !.callbacks = callbacks]
    BY <1>1, <2>1, <2>2
  <2>5. PICK p : p = queue'[a]
    OBVIOUS
  <2>6. p = [q EXCEPT !.refs = n, !.callbacks = callbacks] /\ n \in Int
    BY <2>3, <2>4, <2>5
  <2>7. QueueRecord(p) /\ p.live = q.live /\ p.refs = n /\ p.callbacks = callbacks
    BY <2>3, <2>6 DEF QueueRecord
  <2> QED
    BY <1>1, <2>1, <2>3, <2>4, <2>5, <2>7 DEF Allotted, Obtains
<1>3. CASE ~(old # None /\ queue[old].capacity >= required)
  <2>1. ~without[a].live /\ queue' = [without EXCEPT ![a] = new]
    BY <1>3 DEF Event!Obtain
  <2>2. /\ without = [b \in Address |-> without[b]]
        /\ \A b \in Address : \/ without[b] = queue[b]
                              \/ b = old /\ without[b] = Event!NoQueue
    BY <1>1 DEF Event!Freed
  <2> HIDE DEF without
  <2>3. /\ QueueRecord(new) /\ new.live /\ new.refs = 1 /\ new.callbacks = callbacks
    BY DEF QueueRecord, Event!Allocated
  <2>4. QueueRecord(Event!NoQueue)
    BY DEF QueueRecord, Event!NoQueue
  <2> HIDE DEF new
  <2>5. /\ queue' = [b \in Address |-> queue'[b]] /\ queue'[a] = new
        /\ \A b \in Address \ {a} : queue'[b] = without[b]
    BY <2>1, <2>2
  <2>6. a = old \/ ~queue[a].live
    BY <2>1, <2>2
  <2> QED
    BY <1>1, <2>2, <2>3, <2>4, <2>5, <2>6 DEF Allotted, Obtains
<1> QED
  BY <1>2, <1>3

(* A step whose effect is known and which leaves variables as they are meant*)
(* to be; what it leaves its thread with; and that it replaces the current  *)
(* array or does not.                                                       *)
Advances(t) == Types' /\ LocalsFollowTodo' /\ Elsewhere(t) /\ Effect(t)
OwnIsRight(t) == Faithful(t) /\ (Late(t) => subscribers # call[t].current)
Unswapped(t) ==
  /\ subscribers' = subscribers
  /\ \A s \in Thread \ {t} : overtaken'[s] = overtaken[s]
Swapped(t) ==
  /\ subscribers' # subscribers
  /\ \A s \in Thread \ {t} :
       call[s].todo \in Installing => overtaken'[s] = overtaken[s] + 1
Does(t) == Advances(t) /\ OwnIsRight(t)' /\ (Unswapped(t) \/ Swapped(t))

(* A thread that is not about to replace an array has nothing to keep. *)
LEMMA OwnsNothing ==
  ASSUME NEW t \in Thread, call'[t].todo \notin Installing,
         call'[t].todo # <<"replace", "release">>,
         call'[t].todo # <<"discard", "release", "unsubscribe">>
  PROVE  OwnIsRight(t)'
  BY DEF OwnIsRight, Faithful, Late

(* Somebody's copy stays one of what he read, while steps are taken that do *)
(* not change what is used, and replacing the current array is noticed.     *)
LEMMA StaysFaithful ==
  ASSUME EventOK, ContentStays, NEW s \in Thread,
         call'[s].todo \in Installing => call[s].todo \in Installing,
         call'[s].todo = <<"replace", "release">> =>
           call[s].todo = <<"replace", "release">>,
         call'[s].todo \in Installing \cup {<<"replace", "release">>} =>
           /\ call'[s].current = call[s].current
           /\ call'[s].fresh = call[s].fresh
           /\ call'[s].delegate = call[s].delegate,
         \/ subscribers' = subscribers /\ overtaken'[s] = overtaken[s]
         \/ /\ subscribers' # subscribers
            /\ call[s].todo \in Installing => overtaken'[s] = overtaken[s] + 1
  PROVE  Faithful(s)'
<1>1. PICK c, f, d : /\ c = call[s].current /\ f = call[s].fresh
                     /\ d = call[s].delegate
  OBVIOUS
<1>2. Faithful(s) /\ overtaken[s] \in Nat
  BY DEF EventOK, CopiesAreFaithful, Types
<1>3. f # None => queue'[f].callbacks = queue[f].callbacks
  BY <1>1, Reached DEF ContentStays, LiveAt, UsedAreAddresses
<1>4. ASSUME c = None \/ c = subscribers \/ c = call[s].held
      PROVE  Event!Callbacks(c)' = Event!Callbacks(c)
  <2>1. CASE c = None
    BY <2>1 DEF Event!Callbacks
  <2>2. CASE c # None
    <3>1. c \in Address
      BY <1>4, <2>2, Reached DEF UsedAreAddresses
    <3>2. queue[c].live /\ queue[c].refs # 0
      <4>1. queue[c].live /\ queue[c].refs >= 1
        <5>1. subscribers = c \/ \E t \in Thread : call[t].held = c
          BY <1>4, <2>2
        <5> QED
          BY <3>1, <5>1, Needed
      <4>2. queue[c].refs \in Int
        BY <3>1 DEF EventOK, Types, QueueRecord
      <4> QED
        BY <4>1, <4>2
    <3> QED
      BY <2>2, <3>1, <3>2 DEF Event!Callbacks, ContentStays
  <2> QED
    BY <2>1, <2>2
<1>5. ASSUME call'[s].todo \in Installing
      PROVE  /\ overtaken'[s] = 0 => subscribers' = c
             /\ overtaken'[s] = 1 => subscribers' # c
             /\ overtaken'[s] = 0 /\ f # None =>
                  queue'[f].callbacks = Append(Event!Callbacks(c)', d)
  <2>1. /\ overtaken[s] = 0 => subscribers = c
        /\ overtaken[s] = 1 => subscribers # c
        /\ overtaken[s] = 0 /\ f # None =>
             queue[f].callbacks = Append(Event!Callbacks(c), d)
    BY <1>1, <1>2, <1>5 DEF Faithful
  <2>2. CASE subscribers' = subscribers /\ overtaken'[s] = overtaken[s]
    BY <1>3, <1>4, <2>1, <2>2
  <2>3. CASE subscribers' # subscribers /\ overtaken'[s] = overtaken[s] + 1
    BY <1>2, <2>1, <2>3
  <2> QED
    BY <1>5, <2>2, <2>3
<1>6. ASSUME call'[s].todo = <<"replace", "release">>
      PROVE  Event!Keeps(Event!Callbacks(c)', Event!Callbacks(f)', d)
  <2>1. Event!Keeps(Event!Callbacks(c), Event!Callbacks(f), d)
    BY <1>1, <1>2, <1>6 DEF Faithful
  <2>2. c = call[s].held
    BY <1>1, <1>6 DEF EventOK, LocalsFollowTodo, Fits, Reading, Replacing
  <2>3. Event!Callbacks(f)' = Event!Callbacks(f)
    BY <1>3 DEF Event!Callbacks
  <2> QED
    BY <1>4, <2>1, <2>2, <2>3
<1>7. call'[s].todo \in Installing \cup {<<"replace", "release">>} =>
        call'[s].current = c /\ call'[s].fresh = f /\ call'[s].delegate = d
  BY <1>1
<1> QED
  BY <1>5, <1>6, <1>7 DEF Faithful, Event!Callbacks

(* A thread goes on without touching arrays. *)
LEMMA StayStep ==
  ASSUME EventOK, NEW t \in Thread, NEW todo \in Todos, NEW new \in CallRecord,
         Event!Goes(t, todo, new), Fits(new, todo), SameArrays,
         overtaken' = overtaken,
         /\ new.held = call[t].held /\ new.fresh = call[t].fresh
         /\ new.spare = call[t].spare
         /\ Drops(t) = IF todo \in Dropping THEN new.current ELSE None
  PROVE  Advances(t)
<1>1. Types /\ LocalsFollowTodo
  BY DEF EventOK
<1>2. /\ call' \in [Thread -> CallRecord] /\ LocalsFollowTodo' /\ Elsewhere(t)
      /\ Stays(t)
  BY <1>1, GoesOn DEF Stays
<1>3. Types'
  BY <1>1, <1>2 DEF Types, SameArrays, QueueRecord
<1> QED
  BY <1>2, <1>3 DEF Advances, Effect

(* Calling a callback *)
LEMMA CallBackStep ==
  ASSUME EventOK, NEW t \in Thread, Event!CallBack(t)
  PROVE  Does(t)
<1>1. /\ call[t] \in CallRecord /\ Fits(call[t], call[t].todo)
      /\ call[t].todo = <<"calling", "release">>
  BY Heads DEF Event!CallBack, Event!At, EventOK, Types, LocalsFollowTodo, CallRecord
<1>2. Drops(t) = None /\ SameArrays /\ overtaken' = overtaken
  BY <1>1 DEF Drops, Dropping, Event!CallBack, Event!history, SameArrays
<1> DEFINE next == [call[t] EXCEPT !.index = call[t].index + 1]
           last == [call[t] EXCEPT !.index = 0]
<1>3. /\ next \in CallRecord /\ last \in CallRecord
      /\ Fits(next, <<"calling", "release">>)
      /\ Fits(last, <<"calling", "release">>)
      /\ next.held = call[t].held /\ next.fresh = call[t].fresh
      /\ next.spare = call[t].spare
      /\ last.held = call[t].held /\ last.fresh = call[t].fresh
      /\ last.spare = call[t].spare
  BY <1>1 DEF CallRecord, Fits
<1>4. \/ Event!Goes(t, <<"calling", "release">>, next)
      \/ Event!Goes(t, <<"release">>, last)
  BY <1>1, Tails DEF Event!CallBack, Event!Rest
<1> HIDE DEF next, last
<1>5. Fits(last, <<"release">>) /\ <<"release">> \in Todos
      /\ <<"release">> \notin Dropping
  BY <1>3 DEF Fits, Todos, Keeping, Making, Recycling, Dropping, Reading,
     Replacing, Installing
<1>6. <<"calling", "release">> \in Todos /\ <<"calling", "release">> \notin Dropping
  BY DEF Todos, Keeping, Dropping
<1>7. call \in [Thread -> CallRecord]
  BY DEF EventOK, Types
<1>8. Advances(t) /\ call'[t].todo \in {<<"calling", "release">>, <<"release">>}
  <2>1. CASE Event!Goes(t, <<"calling", "release">>, next)
    BY <1>2, <1>3, <1>6, <1>7, <2>1, StayStep, GoesFacts
  <2>2. CASE Event!Goes(t, <<"release">>, last)
    BY <1>2, <1>3, <1>5, <1>7, <2>2, StayStep, GoesFacts
  <2> QED
    BY <1>4, <2>1, <2>2
<1>9. OwnIsRight(t)'
  BY <1>8, OwnsNothing DEF Installing
<1> QED
  BY <1>2, <1>8, <1>9 DEF Does, Unswapped, SameArrays

(* Beginning to emit, to subscribe or to unsubscribe, or once more: what is  *)
(* left to do, and that nothing but a reference is taken *)
LEMMA AcquireShape ==
  ASSUME Types, LocalsFollowTodo, NEW t \in Thread,
         Event!Begin(t) \/ Event!SubscribeAgain(t) \/ Event!UnsubscribeAgain(t)
  PROVE  /\ Types' /\ LocalsFollowTodo' /\ Elsewhere(t) /\ (Stays(t) \/ Acquires(t))
         /\ call'[t].todo \in {<<>>, <<"calling", "release">>, <<"search", "release">>,
                               <<"take", "release", "install">>, <<"first", "install">>}
         /\ call'[t].fresh = None
         /\ call'[t].todo # <<>> => call'[t].current = subscribers
         /\ overtaken'[t] = 0 /\ subscribers' = subscribers
         /\ \A s \in Thread \ {t} : overtaken'[s] = overtaken[s]
<1>1. Types /\ LocalsFollowTodo /\ call[t] \in CallRecord
      /\ Fits(call[t], call[t].todo)
  BY DEF Types, LocalsFollowTodo
<1>2. CASE Event!EmitAcquire(t)
  <2> DEFINE new == [call[t] EXCEPT !.index = 1]
  <2>1. /\ call[t].todo = <<>>
        /\ Event!Acquire(t, <<"calling", "release">>, <<>>, new)
    BY <1>2 DEF Event!EmitAcquire
  <2>2. new \in CallRecord /\ new.held = None /\ new.fresh = None /\ new.spare = None
    BY <1>1, <2>1 DEF CallRecord, Fits, Keeping, Making, Recycling, Replacing
  <2> HIDE DEF new
  <2> QED
    BY <1>1, <2>1, <2>2, AcquireStep
<1>3. CASE \E d \in Callback : Event!Subscribe(t, d)
  <2>1. PICK d \in Callback : Event!Subscribe(t, d)
    BY <1>3
  <2> DEFINE new == [call[t] EXCEPT !.delegate = d]
  <2>2. /\ call[t].todo = <<>>
        /\ Event!Acquire(t, <<"take", "release", "install">>,
                         <<"first", "install">>, new)
    BY <2>1 DEF Event!Subscribe
  <2>3. /\ new \in CallRecord /\ new.held = None /\ new.fresh = None
        /\ new.spare = None /\ new.delegate \in Callback
    BY <1>1, <2>2 DEF CallRecord, Fits, Keeping, Making, Recycling, Replacing
  <2> HIDE DEF new
  <2> QED
    BY <1>1, <2>2, <2>3, AcquireStep
<1>4. CASE Event!SubscribeAgain(t)
  <2>1. /\ call[t].todo = <<"subscribe">>
        /\ Event!Acquire(t, <<"take", "release", "install">>,
                         <<"first", "install">>, call[t])
    BY <1>1, <1>4, Heads DEF Event!SubscribeAgain, Event!At, CallRecord
  <2>2. /\ call[t].held = None /\ call[t].fresh = None
        /\ call[t].spare = None /\ call[t].delegate \in Callback
    BY <1>1, <2>1 DEF CallRecord, Fits, Keeping, Making, Recycling, Replacing,
                     Installing
  <2> QED
    BY <1>1, <2>1, <2>2, AcquireStep
<1>5. CASE \E d \in Callback : Event!Unsubscribe(t, d)
  <2>1. PICK d \in Callback : Event!Unsubscribe(t, d)
    BY <1>5
  <2> DEFINE new == [call[t] EXCEPT !.delegate = d]
  <2>2. /\ call[t].todo = <<>>
        /\ Event!Acquire(t, <<"search", "release">>, <<>>, new)
    BY <2>1 DEF Event!Unsubscribe
  <2>3. /\ new \in CallRecord /\ new.held = None /\ new.fresh = None
        /\ new.spare = None
    BY <1>1, <2>2 DEF CallRecord, Fits, Keeping, Making, Recycling, Replacing
  <2> HIDE DEF new
  <2> QED
    BY <1>1, <2>2, <2>3, AcquireStep
<1>6. CASE Event!UnsubscribeAgain(t)
  <2>1. /\ call[t].todo = <<"unsubscribe">>
        /\ Event!Acquire(t, <<"search", "release">>, <<>>, call[t])
    BY <1>1, <1>6, Heads DEF Event!UnsubscribeAgain, Event!At, CallRecord
  <2>2. /\ call[t].held = None /\ call[t].fresh = None /\ call[t].spare = None
    BY <1>1, <2>1 DEF CallRecord, Fits, Keeping, Making, Recycling, Replacing
  <2> QED
    BY <1>1, <2>1, <2>2, AcquireStep
<1> QED
  BY <1>2, <1>3, <1>4, <1>5, <1>6 DEF Event!Begin

(* ... as a step that keeps the rest of the invariant *)
LEMMA AcquireSteps ==
  ASSUME EventOK, NEW t \in Thread,
         Event!Begin(t) \/ Event!SubscribeAgain(t) \/ Event!UnsubscribeAgain(t)
  PROVE  Does(t)
<1>1. Types /\ LocalsFollowTodo /\ call[t] \in CallRecord
      /\ Fits(call[t], call[t].todo)
  BY DEF EventOK, Types, LocalsFollowTodo
<1>2. /\ Types' /\ LocalsFollowTodo' /\ Elsewhere(t) /\ (Stays(t) \/ Acquires(t))
      /\ call'[t].todo \in {<<>>, <<"calling", "release">>, <<"search", "release">>,
                            <<"take", "release", "install">>, <<"first", "install">>}
      /\ call'[t].fresh = None
      /\ call'[t].todo # <<>> => call'[t].current = subscribers
      /\ overtaken'[t] = 0 /\ subscribers' = subscribers
      /\ \A s \in Thread \ {t} : overtaken'[s] = overtaken[s]
  BY <1>1, AcquireShape
<1>3. /\ call'[t].todo # <<"replace", "release">>
      /\ call'[t].todo # <<"discard", "release", "unsubscribe">>
      /\ call'[t].todo \in Installing => call'[t].todo # <<>>
  <2>1. <<>> \notin Installing
    BY DEF Installing
  <2>2. call'[t].todo # <<"replace", "release">>
    BY <1>2
  <2>3. call'[t].todo # <<"discard", "release", "unsubscribe">>
    BY <1>2
  <2> QED
    BY <2>1, <2>2, <2>3
<1>4. OwnIsRight(t)'
  BY <1>2, <1>3 DEF OwnIsRight, Faithful, Late
<1> QED
  BY <1>2, <1>4 DEF Does, Advances, Effect, Unswapped
(* A thread goes on with an array that it made. *)
LEMMA MakeStep ==
  ASSUME EventOK, NEW t \in Thread, NEW a \in Address,
         NEW callbacks \in Seq(Callback), Allotted(a, callbacks),
         NEW todo \in Todos, NEW new \in CallRecord,
         Event!Goes(t, todo, new), Fits(new, todo), todo \notin Dropping,
         UNCHANGED <<subscribers, overtaken>>,
         /\ new.held = call[t].held /\ new.spare = call[t].spare
         /\ call[t].fresh = None /\ new.fresh = a /\ Drops(t) = None
  PROVE  Advances(t)
<1>1. Types /\ LocalsFollowTodo
  BY DEF EventOK
<1>2. /\ call' \in [Thread -> CallRecord] /\ LocalsFollowTodo' /\ Elsewhere(t)
      /\ Creates(t, a)
  BY <1>1, GoesOn DEF Creates, Allotted
<1>3. Types'
  BY <1>1, <1>2 DEF Types, Allotted, Obtains, Place
<1> QED
  BY <1>2, <1>3 DEF Advances, Effect

(* Giving back the reference to the array that was read *)
LEMMA ReleaseStep ==
  ASSUME EventOK, NEW t \in Thread, Event!Release(t)
  PROVE  Does(t)
<1>1. /\ Types /\ LocalsFollowTodo /\ call[t] \in CallRecord
      /\ Fits(call[t], call[t].todo)
  BY DEF EventOK, Types, LocalsFollowTodo
<1>2. call[t].todo \in {<<"release">>, <<"release", "install">>,
                       <<"release", "unsubscribe">>}
  BY <1>1, Heads DEF Event!Release, Event!At, CallRecord
<1> DEFINE new == [call[t] EXCEPT !.held = None]
           a == call[t].held
<1>3. /\ new \in CallRecord /\ new.held = None /\ new.fresh = call[t].fresh
      /\ new.spare = call[t].spare /\ new.current = call[t].current
      /\ new.delegate = call[t].delegate
      /\ Event!DropReference(t, a, new)
  BY <1>1 DEF CallRecord, Place, Event!Release
<1> HIDE DEF new
<1>4. /\ Tail(call[t].todo) \in {<<>>, <<"install">>, <<"unsubscribe">>}
      /\ Tail(call[t].todo) \in Installing => call[t].todo \in Installing
      /\ Fits(new, Tail(call[t].todo)) /\ call[t].spare = None
      /\ a # None /\ Drops(t) = None
  <2> USE <1>1, <1>3, Tails
      DEF Fits, Drops, Keeping, Making, Recycling, Dropping, Reading, Replacing,
          Installing
  <2>1. CASE call[t].todo = <<"release">>
    BY <2>1
  <2>2. CASE call[t].todo = <<"release", "install">>
    BY <2>2
  <2>3. CASE call[t].todo = <<"release", "unsubscribe">>
    BY <2>3
  <2> QED
    BY <1>2, <2>1, <2>2, <2>3
<1>5. a \in Address
  BY <1>1, <1>4 DEF CallRecord, Place
<1>6. /\ Types' /\ LocalsFollowTodo' /\ Elsewhere(t) /\ Gives(t, a)
      /\ call'[t].todo \notin Replacing
      /\ call'[t].todo \in Installing <=> Tail(call[t].todo) \in Installing
      /\ call'[t].todo # <<>> => /\ call'[t].current = new.current
                                /\ call'[t].delegate = new.delegate
  BY <1>1, <1>3, <1>4, <1>5, DropStep
<1>7. Advances(t) /\ ContentStays
  BY <1>5, <1>6, EffectKeeps DEF Advances, Effect
<1>8. subscribers' = subscribers /\ overtaken' = overtaken
  BY DEF Event!Release, Event!DropReference, Event!history
<1>9. /\ <<"replace", "release">> \in Replacing
      /\ <<"discard", "release", "unsubscribe">> \in Replacing
      /\ <<>> \notin Installing
  BY DEF Installing, Replacing
<1>10. Faithful(t)'
  BY <1>3, <1>4, <1>6, <1>7, <1>8, <1>9, StaysFaithful DEF Gives
<1>11. OwnIsRight(t)'
  BY <1>6, <1>9, <1>10 DEF OwnIsRight, Late
<1> QED
  BY <1>7, <1>8, <1>11 DEF Does, Unswapped

(* Giving back the reference that the event had to the replaced array *)
LEMMA DropReplacedStep ==
  ASSUME EventOK, NEW t \in Thread, Event!DropReplaced(t)
  PROVE  Does(t)
<1>1. /\ Types /\ LocalsFollowTodo /\ call[t] \in CallRecord
      /\ Fits(call[t], call[t].todo)
  BY DEF EventOK, Types, LocalsFollowTodo
<1>2. call[t].todo \in Dropping
  BY <1>1, Heads DEF Event!DropReplaced, Event!At, CallRecord
<1> DEFINE a == call[t].current
<1>3. Event!DropReference(t, a, call[t])
  BY DEF Event!DropReplaced
<1>4. /\ Tail(call[t].todo) \in {<<>>, <<"release">>}
      /\ Tail(call[t].todo) \notin Installing
      /\ Fits(call[t], Tail(call[t].todo)) /\ call[t].spare = None
      /\ a # None /\ Drops(t) = a
  <2> USE <1>1, Tails
      DEF Fits, Drops, Keeping, Making, Recycling, Dropping, Reading, Replacing,
          Installing
  <2>1. CASE call[t].todo = <<"drop">>
    BY <2>1
  <2>2. CASE call[t].todo = <<"drop", "release">>
    BY <2>2
  <2> QED
    BY <1>2, <2>1, <2>2
<1>5. a \in Address
  BY <1>1, <1>4 DEF CallRecord, Place
<1>6. /\ Types' /\ LocalsFollowTodo' /\ Elsewhere(t) /\ Gives(t, a)
      /\ call'[t].todo \notin Replacing
      /\ call'[t].todo \in Installing <=> Tail(call[t].todo) \in Installing
      /\ call'[t].todo # <<>> => /\ call'[t].current = call[t].current
                                /\ call'[t].delegate = call[t].delegate
  BY <1>1, <1>3, <1>4, <1>5, DropStep
<1>7. Advances(t) /\ ContentStays
  BY <1>5, <1>6, EffectKeeps DEF Advances, Effect
<1>8. subscribers' = subscribers /\ overtaken' = overtaken
  BY DEF Event!DropReplaced, Event!DropReference, Event!history
<1>9. /\ <<"replace", "release">> \in Replacing
      /\ <<"discard", "release", "unsubscribe">> \in Replacing
      /\ <<>> \notin Installing
  BY DEF Installing, Replacing
<1>10. Faithful(t)'
  BY <1>4, <1>6, <1>7, <1>8, <1>9, StaysFaithful DEF Gives
<1>11. OwnIsRight(t)'
  BY <1>6, <1>9, <1>10 DEF OwnIsRight, Late
<1> QED
  BY <1>7, <1>8, <1>11 DEF Does, Unswapped

(* Putting an array aside *)
LEMMA RecycleStep ==
  ASSUME EventOK, NEW t \in Thread, Event!Recycle(t)
  PROVE  Does(t)
<1>1. /\ Types /\ LocalsFollowTodo /\ call[t] \in CallRecord
      /\ Fits(call[t], call[t].todo)
  BY DEF EventOK, Types, LocalsFollowTodo
<1>2. call[t].todo \in Recycling
  BY <1>1, Heads DEF Event!Recycle, Event!At, CallRecord
<1> DEFINE new == [call[t] EXCEPT !.spare = None]
           rest == Tail(call[t].todo)
<1>3. /\ new \in CallRecord /\ new.spare = None /\ new.fresh = call[t].fresh
      /\ new.held = call[t].held /\ new.current = call[t].current
      /\ new.delegate = call[t].delegate
      /\ Event!Goes(t, rest, new)
      /\ recyclableSubscribers' = call[t].spare
      /\ queue' = Event!Freed(recyclableSubscribers, queue)
      /\ UNCHANGED <<subscribers, overtaken>>
  BY <1>1 DEF CallRecord, Place, Event!Recycle, Event!Rest, Event!history
<1> HIDE DEF new
<1>4. /\ rest \in Todos /\ rest \notin Dropping
      /\ Fits(new, rest) /\ call[t].spare # None /\ Drops(t) = None
      /\ rest \in Installing => call[t].todo \in Installing
      /\ rest \notin Replacing
  <2> USE <1>1, <1>3, Tails
      DEF Fits, Drops, Keeping, Making, Recycling, Dropping, Reading, Replacing,
          Installing, Todos
  <2>1. CASE call[t].todo = <<"recycle">>
    BY <2>1
  <2>2. CASE call[t].todo = <<"recycle", "install">>
    BY <2>2
  <2>3. CASE call[t].todo = <<"recycle", "release">>
    BY <2>3
  <2>4. CASE call[t].todo = <<"recycle", "unsubscribe">>
    BY <2>4
  <2> QED
    BY <1>2, <2>1, <2>2, <2>3, <2>4
<1> HIDE DEF rest
<1>5. /\ call' \in [Thread -> CallRecord] /\ LocalsFollowTodo' /\ Elsewhere(t)
      /\ Recycles(t) /\ call'[t].todo = rest
      /\ rest # <<>> => /\ call'[t].current = call[t].current
                        /\ call'[t].delegate = call[t].delegate
  BY <1>1, <1>3, <1>4, GoesOn DEF Recycles
<1>6. /\ queue' = [b \in Address |-> queue'[b]]
      /\ \A b \in Address : QueueRecord(queue'[b])
  <2>1. QueueRecord(Event!NoQueue)
    BY DEF QueueRecord, Event!NoQueue
  <2>2. queue = [b \in Address |-> queue[b]] /\ \A b \in Address : QueueRecord(queue[b])
    BY <1>1 DEF Types
  <2> QED
    BY <1>3, <2>1, <2>2, FreedFacts
<1>7. Types'
  BY <1>1, <1>3, <1>5, <1>6 DEF Types, CallRecord
<1>8. Advances(t) /\ ContentStays
  BY <1>5, <1>7, EffectKeeps DEF Advances, Effect
<1>9. /\ <<"replace", "release">> \in Replacing
      /\ <<"discard", "release", "unsubscribe">> \in Replacing
      /\ <<>> \notin Installing
  BY DEF Installing, Replacing
<1>10. Faithful(t)'
  BY <1>3, <1>4, <1>5, <1>8, <1>9, StaysFaithful DEF Recycles
<1>11. OwnIsRight(t)'
  BY <1>4, <1>5, <1>9, <1>10 DEF OwnIsRight, Late
<1> QED
  BY <1>3, <1>8, <1>11 DEF Does, Unswapped

(* Giving up an array that was made *)
LEMMA DiscardStep ==
  ASSUME EventOK, NEW t \in Thread, Event!Discard(t)
  PROVE  Does(t)
<1>1. /\ Types /\ LocalsFollowTodo /\ call[t] \in CallRecord
      /\ Fits(call[t], call[t].todo)
  BY DEF EventOK, Types, LocalsFollowTodo
<1>2. call[t].todo \in {<<"discard", "subscribe">>,
                       <<"discard", "release", "unsubscribe">>}
  BY <1>1, Heads DEF Event!Discard, Event!At, CallRecord
<1> DEFINE a == call[t].fresh
           new == [call[t] EXCEPT !.fresh = None]
           rest == Tail(call[t].todo)
           counted == [queue EXCEPT ![a].refs = 0]
<1>3. /\ new \in CallRecord /\ new.spare = call[t].spare /\ new.fresh = None
      /\ new.held = call[t].held /\ new.current = call[t].current
      /\ new.delegate = call[t].delegate
      /\ a \in Address /\ a # None
      /\ Event!Goes(t, rest, new)
      /\ recyclableSubscribers' = a
      /\ queue' = Event!Freed(recyclableSubscribers, counted)
      /\ UNCHANGED <<subscribers, overtaken>>
  BY <1>1 DEF CallRecord, Place, Event!Discard, Event!Rest, Event!history
<1> HIDE DEF new
<1>4. /\ rest \in Todos /\ rest \notin Dropping
      /\ Fits(new, rest) /\ Drops(t) = None
      /\ rest \in {<<"subscribe">>, <<"release", "unsubscribe">>}
  <2> USE <1>1, <1>3, Tails
      DEF Fits, Drops, Keeping, Making, Recycling, Dropping, Reading, Replacing,
          Installing, Todos
  <2>1. CASE call[t].todo = <<"discard", "subscribe">>
    BY <2>1
  <2>2. CASE call[t].todo = <<"discard", "release", "unsubscribe">>
    BY <2>2
  <2> QED
    BY <1>2, <2>1, <2>2
<1> HIDE DEF rest
<1>5. /\ call' \in [Thread -> CallRecord] /\ LocalsFollowTodo' /\ Elsewhere(t)
      /\ Discards(t) /\ call'[t].todo = rest
  BY <1>1, <1>3, <1>4, GoesOn DEF Discards
<1>6. /\ queue' = [b \in Address |-> queue'[b]]
      /\ \A b \in Address : QueueRecord(queue'[b])
  <2>1. QueueRecord(Event!NoQueue)
    BY DEF QueueRecord, Event!NoQueue
  <2>2. queue = [b \in Address |-> queue[b]] /\ \A b \in Address : QueueRecord(queue[b])
    BY <1>1 DEF Types
  <2>3. /\ counted = [b \in Address |-> counted[b]]
        /\ \A b \in Address \ {a} : counted[b] = queue[b]
        /\ counted[a] = [queue[a] EXCEPT !.refs = 0]
    BY <1>3, <2>2
  <2> HIDE DEF counted
  <2>4. QueueRecord(counted[a])
    <3>1. PICK q, c : q = queue[a] /\ c = counted[a]
      OBVIOUS
    <3>2. QueueRecord(q) /\ c = [q EXCEPT !.refs = 0]
      BY <1>3, <2>2, <2>3, <3>1
    <3>3. QueueRecord(c)
      BY <3>2 DEF QueueRecord
    <3> QED
      BY <3>1, <3>3
  <2> QED
    BY <1>3, <2>1, <2>2, <2>3, <2>4, FreedFacts
<1>7. Types'
  BY <1>1, <1>3, <1>5, <1>6 DEF Types, Place
<1>8. OwnIsRight(t)'
  BY <1>4, <1>5, OwnsNothing DEF Installing
<1> QED
  BY <1>3, <1>5, <1>7, <1>8 DEF Does, Advances, Effect, Unswapped

(* The array that was read keeps its contents. *)
LEMMA HeldStays ==
  ASSUME EventOK, ContentStays, NEW t \in Thread, call[t].held # None
  PROVE  /\ call[t].held \in Address
         /\ queue'[call[t].held].callbacks = queue[call[t].held].callbacks
         /\ queue[call[t].held].callbacks \in Seq(Callback)
<1> DEFINE c == call[t].held
<1>1. c \in Address
  BY Reached DEF UsedAreAddresses
<1>2. queue[c].live /\ queue[c].refs >= 1
  BY <1>1, Needed
<1>3. queue[c].refs \in Int /\ queue[c].callbacks \in Seq(Callback)
  BY <1>1 DEF EventOK, Types, QueueRecord
<1>4. queue[c].refs # 0
  BY <1>2, <1>3
<1> QED
  BY <1>1, <1>2, <1>3, <1>4 DEF ContentStays

(* The first subscriber's array *)
LEMMA TakeFirstStep ==
  ASSUME EventOK, NEW t \in Thread, Event!TakeFirst(t), revived' = {}
  PROVE  Does(t)
<1>1. /\ Types /\ LocalsFollowTodo /\ call[t] \in CallRecord
      /\ Fits(call[t], call[t].todo)
  BY DEF EventOK, Types, LocalsFollowTodo
<1>2. call[t].todo = <<"first", "install">>
  BY <1>1, Heads DEF Event!TakeFirst, Event!At, CallRecord
<1>3. recyclableSubscribers = None
  BY DEF Event!TakeFirst
<1>4. /\ call[t].held = None /\ call[t].spare = None /\ call[t].fresh = None
      /\ call[t].current = None /\ call[t].delegate \in Callback /\ Drops(t) = None
  BY <1>1, <1>2 DEF Fits, Drops, Keeping, Making, Recycling, Dropping, Replacing,
     Installing
<1> DEFINE d == call[t].delegate
           callbacks == <<d>>
<1>5. PICK a \in Address : /\ Event!Obtain(callbacks, 0, 0, a)
                           /\ Event!Goes(t, Event!Rest(t), [call[t] EXCEPT !.fresh = a])
  BY DEF Event!TakeFirst
<1> DEFINE new == [call[t] EXCEPT !.fresh = a]
<1>6. /\ new \in CallRecord /\ new.fresh = a /\ new.held = None
      /\ new.spare = None /\ new.current = None /\ new.delegate = d
      /\ Event!Goes(t, <<"install">>, new)
  BY <1>1, <1>2, <1>4, <1>5, Tails DEF CallRecord, Place, Event!Rest
<1> HIDE DEF new
<1>7. /\ Fits(new, <<"install">>) /\ <<"install">> \in Todos
      /\ <<"install">> \notin Dropping
  BY <1>4, <1>6, Assumptions DEF Fits, Todos, Keeping, Making, Recycling, Dropping,
     Reading, Replacing, Installing
<1>8. callbacks \in Seq(Callback) /\ callbacks = Append(<<>>, d)
  BY <1>4
<1> HIDE DEF callbacks
<1>9. Allotted(a, callbacks)
  BY <1>3, <1>5, <1>8, ObtainStep
<1>10. UNCHANGED <<subscribers, overtaken>>
  BY DEF Event!TakeFirst
<1>11. Advances(t)
  BY <1>4, <1>6, <1>7, <1>8, <1>9, <1>10, MakeStep
<1>12. /\ call'[t].todo = <<"install">> /\ call'[t].current = None
       /\ call'[t].fresh = a /\ call'[t].delegate = d
  BY <1>1, <1>6, <1>7, GoesFacts DEF Types
<1>13. queue'[a].callbacks = Append(<<>>, d)
  BY <1>8, <1>9 DEF Allotted, Obtains
<1>14. Faithful(t) /\ call[t].todo \in Installing
  BY <1>2 DEF EventOK, CopiesAreFaithful, Installing
<1>15. OwnIsRight(t)'
  BY <1>4, <1>10, <1>12, <1>13, <1>14 DEF OwnIsRight, Faithful, Late, Event!Callbacks
<1> QED
  BY <1>10, <1>11, <1>15 DEF Does, Unswapped

(* A copy with one more subscriber *)
LEMMA TakeStep ==
  ASSUME EventOK, NEW t \in Thread, Event!Take(t)
  PROVE  Does(t)
<1>1. /\ Types /\ LocalsFollowTodo /\ call[t] \in CallRecord
      /\ Fits(call[t], call[t].todo)
  BY DEF EventOK, Types, LocalsFollowTodo
<1>2. call[t].todo = <<"take", "release", "install">>
  BY <1>1, Heads DEF Event!Take, Event!At, CallRecord
<1>3. /\ call[t].held # None /\ call[t].spare = None /\ call[t].fresh = None
      /\ call[t].held = call[t].current /\ call[t].delegate \in Callback
      /\ Drops(t) = None
  BY <1>1, <1>2 DEF Fits, Drops, Keeping, Making, Recycling, Dropping, Replacing,
     Reading, Installing
<1> DEFINE d == call[t].delegate
           c == call[t].held
           callbacks == Append(queue[c].callbacks, d)
<1>4. PICK a \in Address :
        /\ Event!Obtain(callbacks, 1, Len(queue[c].callbacks) + 1, a)
        /\ Event!Goes(t, Event!Rest(t), [call[t] EXCEPT !.fresh = a])
  BY DEF Event!Take
<1> DEFINE new == [call[t] EXCEPT !.fresh = a]
           rest == <<"release", "install">>
<1>5. /\ new \in CallRecord /\ new.fresh = a /\ new.held = c
      /\ new.spare = None /\ new.current = c /\ new.delegate = d
      /\ Event!Goes(t, rest, new)
  BY <1>1, <1>2, <1>3, <1>4, Tails DEF CallRecord, Place, Event!Rest
<1> HIDE DEF new
<1>6. Fits(new, rest) /\ rest \in Todos /\ rest \notin Dropping
  BY <1>3, <1>5, Assumptions DEF Fits, Todos, Keeping, Making, Recycling, Dropping,
     Reading, Replacing, Installing
<1>7. callbacks \in Seq(Callback)
  <2>1. c \in Address
    BY <1>3, Reached DEF UsedAreAddresses
  <2>2. queue[c].callbacks \in Seq(Callback)
    BY <1>1, <2>1 DEF Types, QueueRecord
  <2> QED
    BY <1>3, <2>2, AppendProperties
<1> HIDE DEF callbacks
<1>8. Allotted(a, callbacks)
  BY <1>4, <1>7, ObtainStep
<1>9. UNCHANGED <<subscribers, overtaken>>
  BY DEF Event!Take, Event!history
<1>10. Advances(t) /\ ContentStays
  <2>1. Advances(t)
    BY <1>3, <1>5, <1>6, <1>7, <1>8, <1>9, MakeStep
  <2> QED
    BY <2>1, EffectKeeps DEF Advances
<1>11. /\ call'[t].todo = rest /\ call'[t].current = c
       /\ call'[t].fresh = a /\ call'[t].delegate = d
  BY <1>1, <1>5, <1>6, GoesFacts DEF Types
<1>12. queue'[a].callbacks = Append(queue'[c].callbacks, d)
  <2>1. queue'[a].callbacks = callbacks
    BY <1>8 DEF Allotted, Obtains
  <2>2. queue'[c].callbacks = queue[c].callbacks
    BY <1>3, <1>10, HeldStays
  <2> QED
    BY <2>1, <2>2 DEF callbacks
<1>13. Faithful(t) /\ call[t].todo \in Installing
  BY <1>2 DEF EventOK, CopiesAreFaithful, Installing
<1>14. OwnIsRight(t)'
  BY <1>3, <1>9, <1>11, <1>12, <1>13 DEF OwnIsRight, Faithful, Late, Event!Callbacks
<1> QED
  BY <1>9, <1>10, <1>14 DEF Does, Unswapped

(* The new array takes the place of the current one: whoever else is about  *)
(* to do the same is overtaken.                                             *)
LEMMA SwapStep ==
  ASSUME EventOK, NEW t \in Thread, NEW done \in {<<>>, <<"release">>},
         call[t].todo \in {<<"install">>, <<"replace", "release">>},
         done = <<"release">> <=> call[t].todo = <<"replace", "release">>,
         subscribers = call[t].current, subscribers' = call[t].fresh,
         UNCHANGED <<recyclableSubscribers, queue>>,
         Event!Goes(t, (IF call[t].current = None THEN <<>> ELSE <<"drop">>) \o done,
                    [call[t] EXCEPT !.fresh = None]),
         overtaken' = [s \in Thread |-> IF Event!Has(s, "install")
                                        THEN overtaken[s] + 1 ELSE 0]
  PROVE  Does(t)
<1>1. /\ Types /\ LocalsFollowTodo /\ call[t] \in CallRecord
      /\ Fits(call[t], call[t].todo)
  BY DEF EventOK, Types, LocalsFollowTodo
<1>2. /\ call[t].held # None <=> done = <<"release">>
      /\ call[t].spare = None /\ Drops(t) = None
      /\ done = <<"release">> => call[t].held = call[t].current
      /\ done = <<>> => call[t].fresh # None
  <2> USE <1>1 DEF Fits, Drops, Keeping, Making, Recycling, Dropping, Replacing,
                   Reading
  <2>1. CASE call[t].todo = <<"install">> /\ done = <<>>
    BY <2>1
  <2>2. CASE call[t].todo = <<"replace", "release">> /\ done = <<"release">>
    BY <2>2
  <2> QED
    BY <2>1, <2>2
<1> DEFINE new == [call[t] EXCEPT !.fresh = None]
           c == call[t].current
           todo == (IF c = None THEN <<>> ELSE <<"drop">>) \o done
<1>3. /\ new \in CallRecord /\ new.fresh = None /\ new.held = call[t].held
      /\ new.spare = None /\ new.current = c
      /\ Event!Goes(t, todo, new)
  BY <1>1, <1>2 DEF CallRecord, Place
<1>4. /\ c = None => todo = <<>> /\ done = <<>>
      /\ c # None /\ done = <<>> => todo = <<"drop">>
      /\ c # None /\ done = <<"release">> => todo = <<"drop", "release">>
  BY <1>2, Prefixes
<1> HIDE DEF new, todo
<1>5. /\ todo \in Todos /\ Fits(new, todo)
      /\ todo \notin Installing /\ todo \notin Replacing
      /\ IF todo \in Dropping THEN c # None ELSE c = None
  <2> USE <1>2, <1>3
      DEF Fits, Todos, Keeping, Making, Recycling, Dropping, Reading, Replacing,
          Installing
  <2>1. CASE todo = <<>> /\ c = None /\ done = <<>>
    BY <2>1
  <2>2. CASE todo = <<"drop">> /\ c # None /\ done = <<>>
    BY <2>2
  <2>3. CASE todo = <<"drop", "release">> /\ c # None /\ done = <<"release">>
    BY <2>3
  <2> QED
    BY <1>4, <2>1, <2>2, <2>3
<1>6. /\ call' \in [Thread -> CallRecord] /\ LocalsFollowTodo' /\ Elsewhere(t)
      /\ Swaps(t) /\ call'[t].todo = todo
  <2>1. /\ call' \in [Thread -> CallRecord] /\ LocalsFollowTodo' /\ Elsewhere(t)
        /\ call'[t].held = call[t].held /\ call'[t].fresh = None
        /\ call'[t].spare = None /\ call'[t].todo = todo
        /\ Drops(t)' = IF todo \in Dropping THEN c ELSE None
    BY <1>1, <1>3, <1>5, GoesOn
  <2>2. Drops(t)' = subscribers
    BY <1>5, <2>1
  <2> QED
    BY <1>2, <2>1, <2>2 DEF Swaps
<1>7. Types'
  <2>1. /\ \A s \in Thread : call[s].todo \in Todos /\ overtaken[s] \in Nat
        /\ call[t].fresh \in Place
    BY <1>1 DEF Types, CallRecord
  <2>2. overtaken' \in [Thread -> Nat]
    BY <2>1
  <2> QED
    BY <1>1, <1>6, <2>1, <2>2 DEF Types
<1>8. Swapped(t)
  <2>1. subscribers' # subscribers
    <3>1. CASE call[t].fresh # None
      BY <3>1, Private
    <3>2. CASE call[t].fresh = None
      BY <1>2, <3>2
    <3> QED
      BY <3>1, <3>2
  <2>2. ASSUME NEW s \in Thread, call[s].todo \in Installing
        PROVE  overtaken'[s] = overtaken[s] + 1
    <3>1. call[s].todo \in Todos
      BY <1>1 DEF Types, CallRecord
    <3> QED
      BY <2>2, <3>1, Contents
  <2> QED
    BY <2>1, <2>2 DEF Swapped
<1>9. OwnIsRight(t)'
  BY <1>5, <1>6, OwnsNothing DEF Replacing
<1> QED
  BY <1>6, <1>7, <1>8, <1>9 DEF Does, Advances, Effect

(* A subscriber's new array is put in place or is to be given up. *)
LEMMA InstallStep ==
  ASSUME EventOK, NEW t \in Thread, Event!Install(t)
  PROVE  Does(t)
<1>1. /\ Types /\ LocalsFollowTodo /\ call[t] \in CallRecord
      /\ Fits(call[t], call[t].todo)
  BY DEF EventOK, Types, LocalsFollowTodo
<1>2. call[t].todo = <<"install">> /\ Event!CompareAndSwap(t, <<>>, <<"subscribe">>)
  BY <1>1, Heads DEF Event!Install, Event!At, CallRecord
<1>3. CASE subscribers = call[t].current
  <2>1. /\ subscribers' = call[t].fresh /\ UNCHANGED <<recyclableSubscribers, queue>>
        /\ Event!Goes(t, (IF call[t].current = None THEN <<>> ELSE <<"drop">>) \o <<>>,
                      [call[t] EXCEPT !.fresh = None])
        /\ overtaken' = [s \in Thread |-> IF Event!Has(s, "install")
                                          THEN overtaken[s] + 1 ELSE 0]
    BY <1>2, <1>3 DEF Event!CompareAndSwap
  <2>2. /\ <<>> \in {<<>>, <<"release">>}
        /\ call[t].todo \in {<<"install">>, <<"replace", "release">>}
        /\ <<>> = <<"release">> <=> call[t].todo = <<"replace", "release">>
    BY <1>2
  <2> QED
    BY <1>3, <2>1, <2>2, SwapStep
<1>4. CASE subscribers # call[t].current
  <2>1. /\ Event!Goes(t, <<"discard", "subscribe">>, call[t]) /\ SameArrays
        /\ overtaken' = overtaken
    BY <1>2, <1>4, Prefixes DEF Event!CompareAndSwap, SameArrays
  <2>2. /\ <<"discard", "subscribe">> \in Todos
        /\ Fits(call[t], <<"discard", "subscribe">>)
        /\ Drops(t) = None
        /\ <<"discard", "subscribe">> \notin Dropping
        /\ <<"discard", "subscribe">> \notin Installing
    BY <1>1, <1>2
    DEF Fits, Drops, Todos, Keeping, Making, Recycling, Dropping, Reading,
        Replacing, Installing
  <2>3. Advances(t)
    BY <1>1, <2>1, <2>2, StayStep
  <2>4. call'[t].todo = <<"discard", "subscribe">>
    BY <1>1, <2>1, <2>2, GoesFacts DEF Types
  <2>5. OwnIsRight(t)'
    BY <2>2, <2>4, OwnsNothing
  <2> QED
    BY <2>1, <2>3, <2>5 DEF Does, Unswapped, SameArrays
<1> QED
  BY <1>3, <1>4

(* A departing subscriber's new array, or none, is put in place or given up.*)
LEMMA ReplaceStep ==
  ASSUME EventOK, NEW t \in Thread, Event!Replace(t)
  PROVE  Does(t)
<1>1. /\ Types /\ LocalsFollowTodo /\ call[t] \in CallRecord
      /\ Fits(call[t], call[t].todo)
  BY DEF EventOK, Types, LocalsFollowTodo
<1>2. /\ call[t].todo = <<"replace", "release">>
      /\ Event!CompareAndSwap(t, <<"release">>, <<"release", "unsubscribe">>)
  BY <1>1, Heads DEF Event!Replace, Event!At, CallRecord
<1>3. CASE subscribers = call[t].current
  <2>1. /\ subscribers' = call[t].fresh /\ UNCHANGED <<recyclableSubscribers, queue>>
        /\ Event!Goes(t, (IF call[t].current = None THEN <<>> ELSE <<"drop">>)
                         \o <<"release">>,
                      [call[t] EXCEPT !.fresh = None])
        /\ overtaken' = [s \in Thread |-> IF Event!Has(s, "install")
                                          THEN overtaken[s] + 1 ELSE 0]
    BY <1>2, <1>3 DEF Event!CompareAndSwap
  <2>2. /\ <<"release">> \in {<<>>, <<"release">>}
        /\ call[t].todo \in {<<"install">>, <<"replace", "release">>}
        /\ <<"release">> = <<"release">> <=> call[t].todo = <<"replace", "release">>
    BY <1>2
  <2> QED
    BY <1>3, <2>1, <2>2, SwapStep
<1>4. CASE subscribers # call[t].current
  <2> DEFINE todo == <<"discard", "release", "unsubscribe">>
  <2>1. /\ Event!Goes(t, todo, call[t]) /\ SameArrays /\ overtaken' = overtaken
    BY <1>2, <1>4, Prefixes DEF Event!CompareAndSwap, SameArrays
  <2>2. /\ todo \in Todos /\ Fits(call[t], todo) /\ Drops(t) = None
        /\ todo \notin Dropping /\ todo \notin Installing
        /\ todo # <<"replace", "release">> /\ todo # <<>>
    BY <1>1, <1>2
    DEF Fits, Drops, Todos, Keeping, Making, Recycling, Dropping, Reading,
        Replacing, Installing
  <2> HIDE DEF todo
  <2>3. Advances(t)
    BY <1>1, <2>1, <2>2, StayStep
  <2>4. call'[t].todo = todo /\ call'[t].current = call[t].current
    BY <1>1, <2>1, <2>2, GoesFacts DEF Types
  <2>5. OwnIsRight(t)'
    BY <1>4, <2>1, <2>2, <2>4 DEF OwnIsRight, Faithful, Late, SameArrays
  <2> QED
    BY <2>1, <2>3, <2>5 DEF Does, Unswapped, SameArrays
<1> QED
  BY <1>3, <1>4

(* A set of numbers that is not empty has a least one. *)
LEMMA Least ==
  ASSUME NEW S, S \subseteq Nat, S # {}
  PROVE  \E i \in S : \A j \in S : i <= j
<1> DEFINE R == {p \in Nat \X Nat : p[1] < p[2]}
<1>1. IsWellFoundedOn(R, Nat)
  BY NatLessThanWellFounded DEF OpToRel
<1>2. \A x, y \in Nat : <<y, x>> \notin R => x <= y
  OBVIOUS
<1> HIDE DEF R
<1>3. \E x \in S : \A y \in S : <<y, x>> \notin R
  BY <1>1, WFMin
<1> QED
  BY <1>2, <1>3

(* A sequence without one of its elements *)
LEMMA WithoutOne ==
  ASSUME NEW S, NEW s \in Seq(S), NEW i \in 1 .. Len(s)
  PROVE  /\ Event!Without(s, i) \in Seq(S)
         /\ Len(s) = 1 => Event!Without(s, i) = <<>>
<1>1. SubSeq(s, 1, i - 1) \in Seq(S)
  <2>1. \A j \in 1 .. i - 1 : s[j] \in S
    OBVIOUS
  <2> QED
    BY <2>1, SubSeqProperties
<1>2. SubSeq(s, i + 1, Len(s)) \in Seq(S)
  <2>1. \A j \in i + 1 .. Len(s) : s[j] \in S
    OBVIOUS
  <2>2. i + 1 \in Int /\ Len(s) \in Int
    OBVIOUS
  <2> QED
    BY <2>1, <2>2, SubSeqProperties
<1>3. Event!Without(s, i) \in Seq(S)
  BY <1>1, <1>2, ConcatProperties DEF Event!Without
<1>4. ASSUME Len(s) = 1 PROVE Event!Without(s, i) = <<>>
  <2>1. SubSeq(s, 1, i - 1) = <<>> /\ SubSeq(s, i + 1, Len(s)) = <<>>
    <3>1. i = 1
      BY <1>4
    <3> QED
      BY <1>4, <3>1, SubSeqEmpty
  <2>2. <<>> \o <<>> = <<>>
    OBVIOUS
  <2> QED
    BY <2>1, <2>2 DEF Event!Without
<1> QED
  BY <1>3, <1>4

(* A departing subscriber is not found, is the last one, or is left out of a*)
(* copy.                                                                    *)
LEMMA SearchStep ==
  ASSUME EventOK, NEW t \in Thread, Event!Search(t)
  PROVE  Does(t)
<1>1. /\ Types /\ LocalsFollowTodo /\ call[t] \in CallRecord
      /\ Fits(call[t], call[t].todo)
  BY DEF EventOK, Types, LocalsFollowTodo
<1>2. call[t].todo = <<"search", "release">>
  BY <1>1, Heads DEF Event!Search, Event!At, CallRecord
<1>3. /\ call[t].held # None /\ call[t].spare = None /\ call[t].fresh = None
      /\ call[t].held = call[t].current /\ Drops(t) = None
  BY <1>1, <1>2 DEF Fits, Drops, Keeping, Making, Recycling, Dropping, Replacing,
     Reading
<1> DEFINE d == call[t].delegate
           c == call[t].held
           callbacks == queue[c].callbacks
           found == {i \in DOMAIN callbacks : callbacks[i] = d}
           first == CHOOSE i \in found : \A j \in found : i <= j
           replace == <<"replace", "release">>
<1>4. UNCHANGED <<subscribers, overtaken>>
  BY DEF Event!Search, Event!history
<1>5. callbacks \in Seq(Callback)
  <2>1. c \in Address
    BY <1>3, Reached DEF UsedAreAddresses
  <2> QED
    BY <1>1, <2>1 DEF Types, QueueRecord
<1>6. found # {} => /\ first \in 1 .. Len(callbacks) /\ callbacks[first] = d
                    /\ first \in DOMAIN callbacks
  <2>1. found \subseteq Nat /\ DOMAIN callbacks = 1 .. Len(callbacks)
    BY <1>5
  <2>2. found # {} => first \in found
    BY <2>1, Least
  <2> HIDE DEF first
  <2> QED
    BY <2>1, <2>2
<1>7. \/ /\ found = {} /\ Event!Goes(t, <<"release">>, call[t])
         /\ UNCHANGED <<recyclableSubscribers, queue>>
      \/ /\ found # {} /\ Len(callbacks) = 1
         /\ Event!Goes(t, replace, [call[t] EXCEPT !.fresh = None])
         /\ UNCHANGED <<recyclableSubscribers, queue>>
      \/ /\ found # {} /\ Len(callbacks) > 1
         /\ \E a \in Address :
              /\ Event!Obtain(Event!Without(callbacks, first), 1, Len(callbacks), a)
              /\ Event!Goes(t, replace, [call[t] EXCEPT !.fresh = a])
  BY <1>2, Tails DEF Event!Search, Event!Rest
<1>8. /\ replace \in Todos /\ <<"release">> \in Todos
      /\ replace \notin Dropping /\ <<"release">> \notin Dropping
      /\ replace \notin Installing /\ <<"release">> \notin Installing
      /\ replace # <<"discard", "release", "unsubscribe">>
      /\ replace # <<>> /\ <<"release">> # <<>>
      /\ Fits(call[t], <<"release">>) /\ Fits(call[t], replace)
      /\ \A new : new.held = c /\ new.spare = None /\ new.current = c
                  => Fits(new, replace)
  BY <1>3
  DEF Fits, Todos, Keeping, Making, Recycling, Dropping, Reading, Replacing,
      Installing
<1> HIDE DEF first, found, replace
<1>9. CASE Event!Goes(t, <<"release">>, call[t])
           /\ UNCHANGED <<recyclableSubscribers, queue>>
  <2>1. Advances(t)
    BY <1>1, <1>3, <1>4, <1>8, <1>9, StayStep DEF SameArrays
  <2>2. call'[t].todo = <<"release">>
    BY <1>1, <1>8, <1>9, GoesFacts DEF Types
  <2>3. OwnIsRight(t)'
    BY <1>8, <2>2, OwnsNothing
  <2> QED
    BY <1>4, <2>1, <2>3 DEF Does, Unswapped
<1>10. CASE /\ found # {} /\ Len(callbacks) = 1
            /\ Event!Goes(t, replace, [call[t] EXCEPT !.fresh = None])
            /\ UNCHANGED <<recyclableSubscribers, queue>>
  <2> DEFINE new == [call[t] EXCEPT !.fresh = None]
  <2>1. /\ new \in CallRecord /\ new.fresh = None /\ new.held = c
        /\ new.spare = None /\ new.current = c /\ new.delegate = d
        /\ Event!Goes(t, replace, new)
    BY <1>1, <1>3, <1>10 DEF CallRecord, Place
  <2> HIDE DEF new
  <2>2. Advances(t)
    BY <1>3, <1>4, <1>8, <1>10, <2>1, StayStep DEF SameArrays
  <2>3. /\ call'[t].todo = replace /\ call'[t].current = c
        /\ call'[t].fresh = None /\ call'[t].delegate = d
    BY <1>1, <1>8, <2>1, GoesFacts DEF Types
  <2>4. Event!Keeps(callbacks, <<>>, d)
    BY <1>5, <1>6, <1>10, WithoutOne DEF Event!Keeps
  <2>5. queue'[c].callbacks = callbacks
    BY <1>10
  <2>6. OwnIsRight(t)'
    BY <1>3, <1>8, <2>3, <2>4, <2>5 DEF OwnIsRight, Faithful, Late, Event!Callbacks
  <2> QED
    BY <1>4, <2>2, <2>6 DEF Does, Unswapped
<1>11. ASSUME found # {}, NEW a \in Address,
              Event!Obtain(Event!Without(callbacks, first), 1, Len(callbacks), a),
              Event!Goes(t, replace, [call[t] EXCEPT !.fresh = a])
       PROVE  Does(t)
  <2> DEFINE new == [call[t] EXCEPT !.fresh = a]
             rest == Event!Without(callbacks, first)
  <2>1. /\ new \in CallRecord /\ new.fresh = a /\ new.held = c
        /\ new.spare = None /\ new.current = c /\ new.delegate = d
        /\ Event!Goes(t, replace, new)
    BY <1>1, <1>3, <1>11 DEF CallRecord, Place
  <2> HIDE DEF new
  <2>2. rest \in Seq(Callback) /\ Event!Keeps(callbacks, rest, d)
    BY <1>5, <1>6, <1>11, WithoutOne DEF Event!Keeps
  <2>3. Allotted(a, rest)
    <3> HIDE DEF rest
    <3> QED
      BY <1>11, <2>2, ObtainStep DEF rest
  <2> HIDE DEF rest
  <2>4. Advances(t) /\ ContentStays
    <3>1. Advances(t)
      BY <1>3, <1>4, <1>8, <2>1, <2>2, <2>3, MakeStep
    <3> QED
      BY <3>1, EffectKeeps DEF Advances
  <2>5. /\ call'[t].todo = replace /\ call'[t].current = c
        /\ call'[t].fresh = a /\ call'[t].delegate = d
    BY <1>1, <1>8, <2>1, GoesFacts DEF Types
  <2>6. queue'[c].callbacks = callbacks /\ queue'[a].callbacks = rest
    BY <1>3, <2>3, <2>4, HeldStays DEF Allotted, Obtains
  <2>7. OwnIsRight(t)'
    BY <1>3, <1>8, <2>2, <2>5, <2>6, Assumptions
    DEF OwnIsRight, Faithful, Late, Event!Callbacks
  <2> QED
    BY <1>4, <2>4, <2>7 DEF Does, Unswapped
<1> QED
  BY <1>7, <1>9, <1>10, <1>11

-----------------------------------------------------------------------------
(* The event: the inductive invariant and what follows from it *)

(* A thread that comes too late still holds the array it wanted to replace. *)
LEMMA LateHolds ==
  ASSUME EventOK, NEW t \in Thread, Late(t)
  PROVE  call[t].held # None /\ call[t].held = call[t].current
  BY DEF EventOK, LocalsFollowTodo, Fits, Late, Keeping, Reading, Replacing

(* What one thread does leaves the others what they have, too. *)
LEMMA DoesKeeps ==
  ASSUME EventOK, NEW t \in Thread, Does(t)
  PROVE  EventOK'
<1>1. Types' /\ LocalsFollowTodo' /\ Elsewhere(t) /\ Effect(t)
  BY DEF Does, Advances
<1>2. ArraysOK' /\ ContentStays
  BY <1>1, EffectKeeps
<1>3. ASSUME NEW s \in Thread, s # t PROVE OwnIsRight(s)'
  <2>1. call'[s] = call[s]
    BY <1>1, <1>3 DEF Elsewhere
  <2>2. \/ subscribers' = subscribers /\ overtaken'[s] = overtaken[s]
        \/ /\ subscribers' # subscribers
           /\ call[s].todo \in Installing => overtaken'[s] = overtaken[s] + 1
    BY <1>3 DEF Does, Unswapped, Swapped
  <2>3. Faithful(s)'
    BY <1>2, <2>1, <2>2, StaysFaithful
  <2>4. ASSUME Late(s)' PROVE subscribers' # call'[s].current
    <3>1. Late(s)
      BY <2>1, <2>4 DEF Late
    <3>2. /\ subscribers # call[s].current
          /\ call[s].held # None /\ call[s].held = call[s].current
      BY <3>1, LateHolds DEF EventOK, LateOnesHold
    <3>3. subscribers' \in {subscribers, call[t].fresh}
      BY <1>1 DEF Effect, Stays, SameArrays, Acquires, Gives, Recycles, Discards,
         Creates, Swaps
    <3>4. call[t].fresh # call[s].held
      BY <3>2, Private
    <3> QED
      BY <2>1, <3>2, <3>3, <3>4
  <2> QED
    BY <2>3, <2>4 DEF OwnIsRight
<1>4. \A s \in Thread : OwnIsRight(s)'
  BY <1>3 DEF Does
<1> QED
  BY <1>1, <1>2, <1>4 DEF EventOK, ArraysOK, OwnIsRight, CopiesAreFaithful, LateOnesHold

(* No thread is about to use an array that is not live. *)
LEMMA NothingFreed ==
  ASSUME EventOK, NEW t \in Thread
  PROVE  ~Event!UsesFreed(t)
<1>1. /\ call[t] \in CallRecord /\ Fits(call[t], call[t].todo)
      /\ call[t].todo \in Todos
  BY DEF EventOK, Types, LocalsFollowTodo, CallRecord
<1> DEFINE next == IF call[t].todo = <<>> THEN "begin" ELSE Head(call[t].todo)
<1>2. ASSUME NEW a \in Event!Touched(t), a # None
      PROVE  a \in {subscribers, recyclableSubscribers, call[t].held, Drops(t)}
  <2>1. next = "drop" => Drops(t) = call[t].current
    BY <1>1, Heads DEF Drops
  <2>2. CASE next \in {"begin", "subscribe", "unsubscribe"}
    BY <1>2, <2>2 DEF Event!Touched
  <2>3. CASE next \in {"calling", "release"}
    BY <1>2, <2>3 DEF Event!Touched
  <2>4. CASE next \in {"take", "search"}
    BY <1>2, <2>4 DEF Event!Touched
  <2>5. CASE next = "drop"
    BY <1>2, <2>1, <2>5 DEF Event!Touched
  <2>6. CASE next \in {"first", "recycle", "discard"}
    BY <1>2, <2>6 DEF Event!Touched
  <2>7. CASE next \notin {"begin", "subscribe", "unsubscribe", "calling",
                         "release", "search", "take", "drop", "first",
                         "recycle", "discard"}
    BY <1>2, <2>7 DEF Event!Touched
  <2> QED
    BY <2>2, <2>3, <2>4, <2>5, <2>6, <2>7
<1>3. ASSUME NEW a \in Event!Touched(t), a # None PROVE queue[a].live
  BY <1>2, <1>3, Reached DEF LiveAt
<1> QED
  BY <1>3 DEF Event!UsesFreed

(* A thread without an array to give up has come too late. *)
LEMMA NullIsLate ==
  ASSUME EventOK, NEW t \in Thread, Event!NullDereference(t)
  PROVE  Late(t)
<1>1. /\ call[t] \in CallRecord /\ Fits(call[t], call[t].todo)
  BY DEF EventOK, Types, LocalsFollowTodo
<1>2. call[t].todo \in {<<"discard", "subscribe">>,
                       <<"discard", "release", "unsubscribe">>}
  BY <1>1, Heads DEF Event!NullDereference, Event!At, CallRecord
<1>3. call[t].todo # <<"discard", "subscribe">>
  BY <1>1 DEF Fits, Making, Event!NullDereference
<1> QED
  BY <1>2, <1>3 DEF Late, Event!NullDereference

(* Every step a thread takes on its own *)
LEMMA ContinueDoes ==
  ASSUME EventOK, NEW t \in Thread, Event!Continue(t), revived' = {}
  PROVE  Does(t)
<1>1. CASE Event!CallBack(t)
  BY <1>1, CallBackStep
<1>2. CASE Event!Release(t)
  BY <1>2, ReleaseStep
<1>3. CASE Event!DropReplaced(t)
  BY <1>3, DropReplacedStep
<1>4. CASE Event!Recycle(t)
  BY <1>4, RecycleStep
<1>5. CASE Event!Discard(t)
  BY <1>5, DiscardStep
<1>6. CASE Event!SubscribeAgain(t)
  BY <1>6, AcquireSteps
<1>7. CASE Event!TakeFirst(t)
  BY <1>7, TakeFirstStep
<1>8. CASE Event!Take(t)
  BY <1>8, TakeStep
<1>9. CASE Event!Install(t)
  BY <1>9, InstallStep
<1>10. CASE Event!UnsubscribeAgain(t)
  BY <1>10, AcquireSteps
<1>11. CASE Event!Search(t)
  BY <1>11, SearchStep
<1>12. CASE Event!Replace(t)
  BY <1>12, ReplaceStep
<1> QED
  BY <1>1, <1>2, <1>3, <1>4, <1>5, <1>6, <1>7, <1>8, <1>9, <1>10, <1>11, <1>12
  DEF Event!Continue

(* No step undoes a revival, and none but the two faults changes fault. *)
LEMMA HistoryOfSteps ==
  ASSUME NEW t \in Thread, Event!Continue(t) \/ Event!Begin(t)
  PROVE  fault' = fault /\ revived \subseteq revived'
  BY DEF Event!Continue, Event!Begin, Event!CallBack, Event!Release,
     Event!DropReplaced, Event!DropReference, Event!Recycle, Event!Discard,
     Event!SubscribeAgain, Event!TakeFirst, Event!Take, Event!Install,
     Event!UnsubscribeAgain, Event!Search, Event!Replace, Event!CompareAndSwap,
     Event!Acquire, Event!EmitAcquire, Event!Subscribe, Event!Unsubscribe,
     Event!history

(* The event begins as it is meant to be. *)
LEMMA EventBegins ==
  ASSUME Event!Init
  PROVE  EventInv
<1> USE DEF Event!Init
<1>1. \A t \in Thread : call[t] = Event!NoCall
  OBVIOUS
<1>2. /\ Event!NoCall \in CallRecord /\ Event!NoCall.todo = <<>>
      /\ Event!NoCall.held = None /\ Event!NoCall.spare = None
      /\ Event!NoCall.fresh = None
  BY DEF Event!NoCall, CallRecord, Todos, Place
<1>3. QueueRecord(Event!NoQueue) /\ ~Event!NoQueue.live
  BY DEF Event!NoQueue, QueueRecord
<1>4. /\ <<>> \notin Keeping /\ <<>> \notin Making /\ <<>> \notin Replacing
      /\ <<>> \notin Dropping /\ <<>> \notin Recycling /\ <<>> \notin Installing
      /\ <<>> \notin Reading
  BY DEF Keeping, Making, Replacing, Dropping, Recycling, Installing, Reading
<1> HIDE DEF Event!NoCall
<1>5. Types
  BY <1>2, <1>3 DEF Types, Place
<1>6. LocalsFollowTodo
  <2>1. <<>> \notin Making \cup Replacing
    BY <1>4
  <2>2. Fits(Event!NoCall, Event!NoCall.todo)
    BY <1>2, <1>4, <2>1 DEF Fits
  <2> QED
    BY <1>1, <2>2 DEF LocalsFollowTodo
<1>7. ReachableIsLive
  BY <1>1, <1>2, <1>4 DEF ReachableIsLive, Drops
<1>8. CountsAreRight
  BY <1>3 DEF CountsAreRight
<1> HIDE DEF Event!Init
<1>9. LateOnesHold /\ CopiesAreFaithful
  <2>1. \A t \in Thread : call[t].todo = <<>>
    BY <1>1, <1>2
  <2>2. LateOnesHold
    BY <2>1, <1>4 DEF LateOnesHold, Late
  <2>3. \A t \in Thread : Faithful(t)
    <3>1. <<>> # <<"replace", "release">>
      OBVIOUS
    <3> QED
      BY <2>1, <3>1, <1>4 DEF Faithful
  <2> QED
    BY <2>2, <2>3 DEF CopiesAreFaithful
<1>10. fault # "nullDereference" /\ fault # "useAfterFree"
  BY DEF Event!Init
<1> QED
  BY <1>5, <1>6, <1>7, <1>8, <1>9, <1>10 DEF EventInv, EventOK, FaultsAreLate

(* Every step of the event keeps the invariant. *)
LEMMA EventContinues ==
  ASSUME EventInv, Event!Next
  PROVE  EventInv'
<1> SUFFICES ASSUME revived' = {}
             PROVE  EventOK' /\ fault' # "useAfterFree" /\ FaultsAreLate'
  BY DEF EventInv
<1>1. PICK t \in Thread :
        \/ Event!Step(t)
        \/ fault = "none" /\ ~Event!UsesFreed(t) /\ Event!Begin(t)
  BY DEF Event!Next
<1>2. fault = "none"
  BY <1>1 DEF Event!Step
<1>3. CASE Event!UseAfterFree(t)
  <2>1. revived = {} /\ Event!UsesFreed(t)
    BY <1>3 DEF Event!UseAfterFree
  <2> QED
    BY <2>1, NothingFreed DEF EventInv
<1>4. CASE Event!NullDereference(t)
  <2>1. EventOK
    BY <1>4 DEF Event!NullDereference, EventInv
  <2>2. Late(t)
    BY <1>4, <2>1, NullIsLate
  <2>3. UNCHANGED <<subscribers, recyclableSubscribers, queue, call, overtaken>>
        /\ fault' = "nullDereference"
    BY <1>4 DEF Event!NullDereference
  <2>4. Late(t)'
    BY <2>2, <2>3 DEF Late
  <2>5. EventOK'
    <3> USE <2>3 DEF Drops, LiveAt
    <3>1. Types' /\ LocalsFollowTodo' /\ ReachableIsLive'
      BY <2>1 DEF EventOK, Types, LocalsFollowTodo, ReachableIsLive, QueueRecord
    <3>2. CountsAreRight'
      BY <2>1 DEF EventOK, CountsAreRight, Needs, Keepers, Debtors
    <3>3. LateOnesHold' /\ CopiesAreFaithful'
      BY <2>1 DEF EventOK, LateOnesHold, Late, CopiesAreFaithful, Faithful,
         Event!Callbacks
    <3> QED
      BY <3>1, <3>2, <3>3 DEF EventOK
  <2> QED
    BY <2>3, <2>4, <2>5 DEF FaultsAreLate
<1>5. CASE Event!Continue(t) \/ Event!Begin(t)
  <2>1. revived = {} /\ fault' = "none"
    BY <1>2, <1>5, HistoryOfSteps
  <2>2. EventOK
    BY <2>1 DEF EventInv
  <2>3. Does(t)
    <3>1. CASE Event!Continue(t)
      BY <2>2, <3>1, ContinueDoes
    <3>2. CASE Event!Begin(t)
      BY <2>2, <3>2, AcquireSteps
    <3> QED
      BY <1>5, <3>1, <3>2
  <2>4. EventOK'
    BY <2>2, <2>3, DoesKeeps
  <2> QED
    BY <2>1, <2>4 DEF FaultsAreLate
<1> QED
  BY <1>1, <1>3, <1>4, <1>5 DEF Event!Step

(* Nothing changes for the event in a step of another component. *)
LEMMA EventRests ==
  ASSUME EventInv, UNCHANGED eventVars
  PROVE  EventInv'
<1> USE DEF eventVars, Drops, LiveAt
<1>1. ASSUME EventOK PROVE EventOK'
  <2>1. Types' /\ LocalsFollowTodo' /\ ReachableIsLive'
    BY <1>1 DEF EventOK, Types, LocalsFollowTodo, ReachableIsLive, QueueRecord
  <2>2. CountsAreRight'
    BY <1>1 DEF EventOK, CountsAreRight, Needs, Keepers, Debtors
  <2>3. LateOnesHold' /\ CopiesAreFaithful'
    BY <1>1 DEF EventOK, LateOnesHold, Late, CopiesAreFaithful, Faithful,
       Event!Callbacks
  <2> QED
    BY <2>1, <2>2, <2>3 DEF EventOK
<1>2. FaultsAreLate => FaultsAreLate'
  BY DEF FaultsAreLate, Late
<1> QED
  BY <1>1, <1>2 DEF EventInv

(* The invariant in the words of the properties *)
LEMMA EventIsSafe ==
  ASSUME EventInv
  PROVE  ArraysOutliveReaders
<1>1. ASSUME revived = {}, NEW a \in Address, queue[a].live
      PROVE  queue[a].refs = Event!Cardinality(Event!Holders(a))
                             + Event!Owner(a) + Event!Pending(a)
  <2>1. EventOK /\ a # None
    BY <1>1, Assumptions DEF EventInv
  <2>2. \A t \in Thread : call[t].todo \in Todos
    BY <2>1 DEF EventOK, Types, CallRecord
  <2>3. ASSUME NEW t \in Thread PROVE Drops(t) = a <=> Event!ToDrop(t, a)
    <3>1. Event!Has(t, "drop") <=> call[t].todo \in Dropping
      BY <2>2, Contents
    <3> QED
      BY <2>1, <3>1 DEF Drops, Event!ToDrop
  <2>4. /\ Event!Holders(a) = Keepers(a)
        /\ {t \in Thread : call[t].fresh = a \/ Event!ToDrop(t, a)} = Debtors(a)
    BY <2>3 DEF Event!Holders, Keepers, Debtors
  <2>5. ASSUME NEW S PROVE Event!Cardinality(S) = Cardinality(S)
    BY DEF Event!Cardinality, Cardinality
  <2>6. queue[a].refs = Needs(a)
    BY <1>1, <2>1 DEF EventOK, CountsAreRight
  <2> QED
    BY <2>4, <2>5, <2>6, NeedsFacts DEF Needs, Event!Owner, Event!Pending
<1>2. ASSUME fault = "nullDereference", revived = {}
      PROVE  \E t \in Thread : /\ Event!At(t, "discard") /\ call[t].fresh = None
                               /\ call[t].held = call[t].current
                               /\ subscribers # call[t].current
  <2>1. EventOK /\ FaultsAreLate
    BY <1>2 DEF EventInv
  <2>2. PICK t \in Thread : Late(t)
    BY <1>2, <2>1 DEF FaultsAreLate
  <2>3. Event!At(t, "discard") /\ call[t].fresh = None
    BY <2>2 DEF Late, Event!At
  <2>4. call[t].held = call[t].current /\ subscribers # call[t].current
    BY <2>1, <2>2, LateHolds DEF EventOK, LateOnesHold
  <2> QED
    BY <2>3, <2>4
<1> QED
  BY <1>1, <1>2
  DEF ArraysOutliveReaders, Event!ReferencesCounted, Event!NoUseAfterFree,
      Event!FailsOnlyWhenOvertaken, EventInv

(* A step that does not count on a revived array leaves those that are held *)
(* as they are.                                                             *)
LEMMA ReadersAreSafe ==
  ASSUME EventInv, Event!Next, revived' = {}, NEW t \in Thread,
         call[t].held # None
  PROVE  queue'[call[t].held].callbacks = queue[call[t].held].callbacks
<1>1. PICK s \in Thread :
        \/ Event!UseAfterFree(s) \/ Event!NullDereference(s)
        \/ Event!Continue(s) \/ Event!Begin(s)
  BY DEF Event!Next, Event!Step
<1>2. CASE Event!UseAfterFree(s) \/ Event!NullDereference(s)
  BY <1>2 DEF Event!UseAfterFree, Event!NullDereference
<1>3. CASE Event!Continue(s) \/ Event!Begin(s)
  <2>1. EventOK
    BY <1>3, HistoryOfSteps DEF EventInv
  <2>2. Does(s)
    BY <1>3, <2>1, ContinueDoes, AcquireSteps
  <2>3. ContentStays
    BY <2>1, <2>2, EffectKeeps DEF Does, Advances
  <2> QED
    BY <2>1, <2>3, HeldStays
<1> QED
  BY <1>1, <1>2, <1>3

(* Only two steps replace the current array. *)
LEMMA OnlySwapsReplace ==
  ASSUME NEW t \in Thread, Event!Continue(t) \/ Event!Begin(t),
         subscribers' # subscribers
  PROVE  /\ Event!Install(t) \/ Event!Replace(t)
         /\ subscribers = call[t].current /\ subscribers' = call[t].fresh
  BY DEF Event!Continue, Event!Begin, Event!CallBack, Event!Release,
     Event!DropReplaced, Event!DropReference, Event!Recycle, Event!Discard,
     Event!SubscribeAgain, Event!TakeFirst, Event!Take, Event!Install,
     Event!UnsubscribeAgain, Event!Search, Event!Replace, Event!CompareAndSwap,
     Event!Acquire, Event!EmitAcquire, Event!Subscribe, Event!Unsubscribe,
     Event!history

(* What replaces the current array differs from it by what its maker is to  *)
(* add or to leave out, unless he adds and was overtaken twice.             *)
LEMMA SwapsAreRight ==
  ASSUME EventInv, Event!Next, revived = {}, NEW t \in Thread,
         subscribers' # subscribers, call'[t] # call[t],
         ~Event!Keeps(Event!Callbacks(subscribers), Event!Callbacks(subscribers'),
                      call[t].delegate)
  PROVE  Event!At(t, "install") /\ overtaken[t] >= 2
<1>1. PICK s \in Thread :
        \/ Event!UseAfterFree(s) \/ Event!NullDereference(s)
        \/ Event!Continue(s) \/ Event!Begin(s)
  BY DEF Event!Next, Event!Step
<1>2. Event!Continue(s) \/ Event!Begin(s)
  BY <1>1 DEF Event!UseAfterFree, Event!NullDereference
<1>3. EventOK
  BY DEF EventInv
<1>4. /\ Event!Install(s) \/ Event!Replace(s)
      /\ subscribers = call[s].current /\ subscribers' = call[s].fresh
  BY <1>2, OnlySwapsReplace
<1>5. s = t
  <2>1. Elsewhere(s)
    BY <1>3, <1>4, InstallStep, ReplaceStep DEF Does, Advances
  <2> QED
    BY <2>1 DEF Elsewhere
<1>6. /\ Faithful(t) /\ overtaken[t] \in Nat /\ call[t] \in CallRecord
      /\ Fits(call[t], call[t].todo)
  BY <1>3 DEF EventOK, CopiesAreFaithful, Types, LocalsFollowTodo
<1>7. CASE Event!Install(t)
  <2>1. call[t].todo = <<"install">>
    BY <1>6, <1>7, Heads DEF Event!Install, Event!At, CallRecord
  <2>2. /\ call[t].todo \in Installing /\ call[t].todo \in Making
        /\ call[t].fresh # None
    BY <1>6, <2>1 DEF Fits, Making, Installing
  <2>3. overtaken[t] # 1
    BY <1>4, <1>5, <1>6, <2>2 DEF Faithful
  <2>4. overtaken[t] # 0
    BY <1>4, <1>5, <1>6, <2>2 DEF Faithful, Event!Keeps, Event!Callbacks
  <2> QED
    BY <1>6, <1>7, <2>3, <2>4 DEF Event!Install
<1>8. CASE Event!Replace(t)
  <2>1. call[t].todo = <<"replace", "release">>
    BY <1>6, <1>8, Heads DEF Event!Replace, Event!At, CallRecord
  <2> QED
    BY <1>4, <1>5, <1>6, <2>1 DEF Faithful, Event!Callbacks
<1> QED
  BY <1>4, <1>5, <1>7, <1>8

(* Every state of the event is one the invariant describes. *)
LEMMA EventInvariance ==
  FairSpec => []EventInv
<1>1. Init => EventInv
  BY EventBegins DEF Init
<1>2. EventInv /\ [Next]_vars => EventInv'
  BY EventContinues, EventRests
  DEF Next, OfEvent, OfServices, OfProcess, vars, eventVars
<1> QED
  BY <1>1, <1>2, PTL DEF FairSpec

(* ConcurrentEvent.h keeps an array of subscribers as long as anybody reads *)
(* it: its counter is right, and no thread uses one that was freed. The     *)
(* null dereference of an Unsubscribe() without an array of its own needs   *)
(* somebody else's change in between.                                       *)
THEOREM ArraysAreKept ==
  FairSpec => []ArraysOutliveReaders
<1>1. EventInv => ArraysOutliveReaders
  BY EventIsSafe
<1> QED
  BY <1>1, EventInvariance, PTL

(* ConcurrentEvent.h: nobody writes to an array that is being called or     *)
(* copied, and a change replaces the array it was made from, so that no     *)
(* subscriber is lost, but for a Subscribe() that was overtaken twice.      *)
THEOREM SubscribersAreKept ==
  FairSpec => SubscriptionsAreKept
<1> DEFINE Held == revived' = {} =>
             \A t \in Thread :
               call[t].held # None /\ call'[t].held = call[t].held =>
                 queue'[call[t].held].callbacks = queue[call[t].held].callbacks
           Changes == revived = {} =>
             \A t \in Thread :
               /\ subscribers' # subscribers
               /\ call'[t] # call[t]
               /\ ~Event!Keeps(Event!Callbacks(subscribers),
                               Event!Callbacks(subscribers'), call[t].delegate)
               => Event!At(t, "install") /\ overtaken[t] >= 2
<1>1. EventInv /\ [Next]_vars => [Held]_Event!vars
  <2> SUFFICES ASSUME EventInv, [Next]_vars, ~UNCHANGED Event!vars PROVE Held
    OBVIOUS
  <2>1. Event!Next
    BY DEF Next, OfEvent, OfServices, OfProcess, vars, eventVars, Event!vars
  <2> QED
    BY <2>1, ReadersAreSafe
<1>2. EventInv /\ [Next]_vars => [Changes]_Event!vars
  <2> SUFFICES ASSUME EventInv, [Next]_vars, ~UNCHANGED Event!vars PROVE Changes
    OBVIOUS
  <2>1. Event!Next
    BY DEF Next, OfEvent, OfServices, OfProcess, vars, eventVars, Event!vars
  <2> QED
    BY <2>1, SwapsAreRight
<1>3. FairSpec => [][Held]_Event!vars
  BY <1>1, EventInvariance, PTL DEF FairSpec
<1>4. FairSpec => [][Changes]_Event!vars
  BY <1>2, EventInvariance, PTL DEF FairSpec
<1> QED
  BY <1>3, <1>4
  DEF SubscriptionsAreKept, Event!HeldArraysStay,
      Event!ChangesOnlyLostWhenOvertakenTwice

-----------------------------------------------------------------------------
(* The event: arrays have room for their callbacks, whatever happened before*)

(* The function that the powers of two are taken from *)
Doubles(f, n) == f = [k \in 0 .. n |-> IF k = 0 THEN 1 ELSE 2 * f[k - 1]]

LEMMA DoublesGoOn ==
  ASSUME NEW n \in Nat, NEW f, Doubles(f, n)
  PROVE  \E g : Doubles(g, n + 1)
<1> DEFINE g == [k \in 0 .. n + 1 |-> IF k = 0 THEN 1 ELSE 2 * f[k - 1]]
<1>1. ASSUME NEW k \in 0 .. n  PROVE g[k] = f[k]
  <2>1. g[k] = IF k = 0 THEN 1 ELSE 2 * f[k - 1]
    OBVIOUS
  <2>2. f[k] = IF k = 0 THEN 1 ELSE 2 * f[k - 1]
    BY DEF Doubles
  <2> QED
    BY <2>1, <2>2
<1>2. ASSUME NEW k \in 0 .. n + 1  PROVE g[k] = IF k = 0 THEN 1 ELSE 2 * g[k - 1]
  <2>1. g[k] = IF k = 0 THEN 1 ELSE 2 * f[k - 1]
    OBVIOUS
  <2>2. k # 0 => k - 1 \in 0 .. n
    OBVIOUS
  <2> HIDE DEF g
  <2> QED
    BY <1>1, <2>1, <2>2
<1>3. g = [k \in 0 .. n + 1 |-> g[k]]
  OBVIOUS
<1> HIDE DEF g
<1>4. Doubles(g, n + 1)
  BY <1>2, <1>3 DEF Doubles
<1> QED
  BY <1>4

LEMMA DoublesExist ==
  ASSUME NEW n \in Nat
  PROVE  \E f : Doubles(f, n)
<1> DEFINE S == {m \in Nat : \E f : Doubles(f, m)}
<1>1. 0 \in S
  <2> DEFINE f == [k \in 0 .. 0 |-> 1]
  <2>1. f = [k \in 0 .. 0 |-> IF k = 0 THEN 1 ELSE 2 * f[k - 1]]
    OBVIOUS
  <2> HIDE DEF f
  <2> QED
    BY <2>1 DEF Doubles
<1>2. \A m \in Nat : m \in S => m + 1 \in S
  BY DoublesGoOn
<1> HIDE DEF S
<1>3. n \in S
  BY <1>1, <1>2, EveryNumber
<1> QED
  BY <1>3 DEF S

LEMMA DoublesAreNumbers ==
  ASSUME NEW n \in Nat, NEW f, Doubles(f, n)
  PROVE  \A k \in 0 .. n : f[k] \in Nat
<1> DEFINE S == {m \in Nat : m \in 0 .. n => f[m] \in Nat}
<1>1. 0 \in S
  BY DEF Doubles
<1>2. ASSUME NEW m \in Nat, m \in S  PROVE m + 1 \in S
  <2> SUFFICES ASSUME m + 1 \in 0 .. n  PROVE f[m + 1] \in Nat
    OBVIOUS
  <2>1. m + 1 # 0 /\ m + 1 - 1 = m /\ m \in 0 .. n
    OBVIOUS
  <2>2. f[m + 1] = 2 * f[m]
    BY <2>1 DEF Doubles
  <2> QED
    BY <1>2, <2>1, <2>2
<1> HIDE DEF S
<1>3. Nat \subseteq S
  BY <1>1, <1>2, EveryNumber
<1> QED
  BY <1>3 DEF S

(* Between a number and its double there is a power of two.                 *)
LEMMA DoublesReach ==
  ASSUME NEW n \in Nat, NEW f, Doubles(f, n), n > 0
  PROVE  \E k \in 0 .. n : n <= f[k] /\ f[k] < 2 * n
<1> DEFINE S == {m \in Nat : m >= 1 /\ m <= n =>
                   \E k \in 0 .. m : f[k] \in Nat /\ m <= f[k] /\ f[k] < 2 * m}
<1>1. 0 \in S
  OBVIOUS
<1>2. ASSUME NEW m \in Nat, m \in S  PROVE m + 1 \in S
  <2> SUFFICES ASSUME m + 1 <= n
               PROVE  \E k \in 0 .. m + 1 :
                        f[k] \in Nat /\ m + 1 <= f[k] /\ f[k] < 2 * (m + 1)
    OBVIOUS
  <2>1. CASE m = 0
    <3>1. 0 \in 0 .. n /\ f[0] = 1
      BY DEF Doubles
    <3>2. 1 \in 0 .. n /\ f[1] = 2 * f[0]
      BY <2>1 DEF Doubles
    <3> QED
      BY <2>1, <3>1, <3>2
  <2>2. CASE m >= 1
    <3>1. PICK k \in 0 .. m : f[k] \in Nat /\ m <= f[k] /\ f[k] < 2 * m
      BY <1>2, <2>2
    <3>2. CASE f[k] >= m + 1
      BY <3>1, <3>2
    <3>3. CASE f[k] = m
      <4>1. k + 1 \in 0 .. n /\ k + 1 # 0 /\ k + 1 - 1 = k
        OBVIOUS
      <4>2. f[k + 1] = 2 * f[k]
        BY <4>1 DEF Doubles
      <4>3. k + 1 \in 0 .. m + 1
        OBVIOUS
      <4> QED
        BY <2>2, <3>3, <4>2, <4>3
    <3> QED
      BY <3>1, <3>2, <3>3
  <2> QED
    BY <2>1, <2>2
<1> HIDE DEF S
<1>3. n \in S
  BY <1>1, <1>2, EveryNumber
<1> QED
  BY <1>3 DEF S

(* An array that is allocated has room for what it is allocated for.        *)
LEMMA CapacityIs ==
  ASSUME NEW n \in Nat
  PROVE  /\ Event!CapacityFor(n) \in Int
         /\ Event!CapacityFor(n) >= n /\ Event!CapacityFor(n) >= SmallestCapacity
<1>1. SmallestCapacity \in Nat /\ SmallestCapacity > 0
  BY ConcurrentAssumption DEF ConcurrentAssumption, Event!ConcurrentEventAssumption
<1>2. CASE n <= SmallestCapacity
  BY <1>1, <1>2 DEF Event!CapacityFor
<1>3. CASE n > SmallestCapacity
  <2>1. /\ \E c \in Event!PowersOfTwo(n) : n <= c /\ c < 2 * n
        /\ Event!PowersOfTwo(n) \subseteq Nat
    <3> DEFINE f == CHOOSE f : Doubles(f, n)
    <3>1. Doubles(f, n)
      BY DoublesExist
    <3>2. Event!PowersOfTwo(n) = {f[k] : k \in 0 .. n}
      BY DEF Event!PowersOfTwo, Doubles
    <3> HIDE DEF f
    <3>3. \E k \in 0 .. n : n <= f[k] /\ f[k] < 2 * n
      BY <1>1, <1>3, <3>1, DoublesReach
    <3>4. Event!PowersOfTwo(n) \subseteq Nat
      BY <3>1, <3>2, DoublesAreNumbers
    <3> QED
      BY <3>2, <3>3, <3>4
  <2>2. Event!CapacityFor(n) \in Event!PowersOfTwo(n) /\ n <= Event!CapacityFor(n)
    BY <1>1, <1>3, <2>1 DEF Event!CapacityFor
  <2> QED
    BY <1>1, <1>3, <2>1, <2>2
<1> QED
  BY <1>1, <1>2, <1>3

(* Arrays that are what they are meant to be, and have room for what they   *)
(* hold; and the event whose arrays are                                     *)
Roomy(q) ==
  /\ q.capacity \in Int /\ Len(q.callbacks) <= q.capacity
  /\ q.live => q.capacity >= SmallestCapacity
Queues(queues) ==
  /\ queues = [a \in Address |-> queues[a]]
  /\ \A a \in Address : QueueRecord(queues[a]) /\ Roomy(queues[a])
Proper == Types /\ LocalsFollowTodo /\ Queues(queue)

LEMMA NewQueues ==
  ASSUME NEW callbacks \in Seq(Callback)
  PROVE  /\ QueueRecord(Event!NoQueue) /\ Roomy(Event!NoQueue)
         /\ QueueRecord(Event!Allocated(callbacks)) /\ Roomy(Event!Allocated(callbacks))
<1>1. QueueRecord(Event!NoQueue) /\ Roomy(Event!NoQueue)
  BY DEF QueueRecord, Roomy, Event!NoQueue
<1>2. PICK n : n = Event!CapacityFor(Len(callbacks))
  OBVIOUS
<1>3. n \in Int /\ n >= Len(callbacks) /\ n >= SmallestCapacity
  BY <1>2, CapacityIs
<1>4. Event!Allocated(callbacks) =
        [live |-> TRUE, refs |-> 1, capacity |-> n, callbacks |-> callbacks]
  BY <1>2 DEF Event!Allocated
<1> QED
  BY <1>1, <1>3, <1>4 DEF QueueRecord, Roomy

LEMMA FreedQueues ==
  ASSUME NEW queues, Queues(queues), NEW a \in Place
  PROVE  /\ Queues(Event!Freed(a, queues))
         /\ \A b \in Address :
              \/ Event!Freed(a, queues)[b] = queues[b]
              \/ b = a /\ Event!Freed(a, queues)[b] = Event!NoQueue
<1> DEFINE freed == [queues EXCEPT ![a] = Event!NoQueue]
<1>1. CASE a = None
  BY <1>1 DEF Event!Freed
<1>2. CASE a # None
  <2>1. a \in Address /\ Event!Freed(a, queues) = freed
    BY <1>2 DEF Place, Event!Freed
  <2>2. /\ freed = [b \in Address |-> freed[b]] /\ freed[a] = Event!NoQueue
        /\ \A b \in Address \ {a} : freed[b] = queues[b]
    BY <2>1 DEF Queues
  <2>3. QueueRecord(Event!NoQueue) /\ Roomy(Event!NoQueue)
    BY DEF QueueRecord, Roomy, Event!NoQueue
  <2> HIDE DEF freed
  <2> QED
    BY <2>1, <2>2, <2>3 DEF Queues
<1> QED
  BY <1>1, <1>2

LEMMA CountedQueues ==
  ASSUME NEW queues, Queues(queues), NEW a \in Address, NEW n \in Int
  PROVE  Queues([queues EXCEPT ![a].refs = n])
<1> DEFINE counted == [queues EXCEPT ![a].refs = n]
<1>1. PICK q : q = queues[a]
  OBVIOUS
<1>2. PICK p : p = [q EXCEPT !.refs = n]
  OBVIOUS
<1>3. /\ counted = [b \in Address |-> counted[b]] /\ counted[a] = p
      /\ \A b \in Address \ {a} : counted[b] = queues[b]
  BY <1>1, <1>2 DEF Queues
<1>4. QueueRecord(q) /\ Roomy(q)
  BY <1>1 DEF Queues
<1>5. /\ QueueRecord(p) /\ p.callbacks = q.callbacks /\ p.capacity = q.capacity
      /\ p.live = q.live
  BY <1>2, <1>4 DEF QueueRecord
<1>6. Roomy(p)
  BY <1>4, <1>5 DEF Roomy
<1> HIDE DEF counted
<1>7. Queues(counted)
  BY <1>3, <1>5, <1>6 DEF Queues
<1> QED
  BY <1>7 DEF counted

(* An array is obtained: the recyclable one only if it is large enough.     *)
LEMMA ObtainedQueues ==
  ASSUME Queues(queue), recyclableSubscribers \in Place, NEW a \in Address,
         NEW callbacks \in Seq(Callback), NEW extra \in Int, NEW required \in Int,
         Event!Obtain(callbacks, extra, required, a),
         \/ Len(callbacks) <= required
         \/ /\ recyclableSubscribers # None => queue[recyclableSubscribers].live
            /\ Len(callbacks) = 1
  PROVE  Queues(queue') /\ recyclableSubscribers' = None
<1> DEFINE old == recyclableSubscribers
<1>1. recyclableSubscribers' = None
  BY DEF Event!Obtain
<1>2. CASE old # None /\ queue[old].capacity >= required
  <2>1. /\ a = old
        /\ queue' = [queue EXCEPT ![a].refs = @ + extra, ![a].callbacks = callbacks]
    BY <1>2 DEF Event!Obtain
  <2>2. PICK q, n : q = queue[a] /\ n = q.refs + extra
    OBVIOUS
  <2>3. QueueRecord(q) /\ Roomy(q) /\ n \in Int
    BY <2>2 DEF Queues, QueueRecord
  <2>4. PICK counted : counted = [queue EXCEPT ![a].refs = n]
    OBVIOUS
  <2>5. /\ counted = [b \in Address |-> counted[b]]
        /\ counted[a] = [q EXCEPT !.refs = n]
        /\ \A b \in Address \ {a} : counted[b] = queue[b]
    BY <2>2, <2>4 DEF Queues
  <2>6. PICK c : c = counted[a]
    OBVIOUS
  <2>7. PICK p : p = [c EXCEPT !.callbacks = callbacks]
    OBVIOUS
  <2>8. /\ queue' = [b \in Address |-> queue'[b]] /\ queue'[a] = p
        /\ \A b \in Address \ {a} : queue'[b] = queue[b]
    <3>1. queue' = [counted EXCEPT ![a].callbacks = callbacks]
      BY <2>1, <2>2, <2>4
    <3> QED
      BY <2>5, <2>6, <2>7, <3>1
  <2>9. /\ QueueRecord(c) /\ c.capacity = q.capacity /\ c.live = q.live
    BY <2>3, <2>5, <2>6 DEF QueueRecord
  <2>10. /\ QueueRecord(p) /\ p.callbacks = callbacks /\ p.capacity = q.capacity
         /\ p.live = q.live
    BY <2>7, <2>9 DEF QueueRecord
  <2>11. Len(callbacks) <= q.capacity
    <3>1. SmallestCapacity \in Nat /\ SmallestCapacity > 0
      BY ConcurrentAssumption
      DEF ConcurrentAssumption, Event!ConcurrentEventAssumption
    <3>2. q.capacity >= required /\ q.capacity \in Int /\ Len(callbacks) \in Int
      BY <1>2, <2>1, <2>2, <2>3 DEF Roomy
    <3>3. CASE Len(callbacks) <= required
      BY <3>2, <3>3
    <3>4. CASE queue[old].live /\ Len(callbacks) = 1
      BY <2>1, <2>2, <2>3, <3>1, <3>4 DEF Roomy
    <3> QED
      BY <1>2, <3>3, <3>4
  <2>12. Roomy(p)
    BY <2>3, <2>10, <2>11 DEF Roomy
  <2> QED
    BY <1>1, <2>8, <2>10, <2>12 DEF Queues
<1>3. CASE ~(old # None /\ queue[old].capacity >= required)
  <2> DEFINE without == IF old # None /\ queue[old].capacity < required
                        THEN Event!Freed(old, queue) ELSE queue
             new == Event!Allocated(callbacks)
  <2>1. queue' = [without EXCEPT ![a] = new]
    BY <1>3 DEF Event!Obtain
  <2>2. Queues(without)
    BY FreedQueues
  <2>3. QueueRecord(new) /\ Roomy(new)
    BY NewQueues
  <2> HIDE DEF without, new
  <2>4. /\ queue' = [b \in Address |-> queue'[b]] /\ queue'[a] = new
        /\ \A b \in Address \ {a} : queue'[b] = without[b]
    BY <2>1, <2>2 DEF Queues
  <2> QED
    BY <1>1, <2>2, <2>3, <2>4 DEF Queues
<1> QED
  BY <1>2, <1>3

LEMMA ProperCall ==
  ASSUME Proper, NEW t \in Thread
  PROVE  /\ Types /\ LocalsFollowTodo /\ call[t] \in CallRecord
         /\ call[t].todo \in Todos /\ Fits(call[t], call[t].todo)
         /\ Queues(queue) /\ overtaken \in [Thread -> Nat]
         /\ subscribers \in Place /\ recyclableSubscribers \in Place
  BY DEF Proper, Types, LocalsFollowTodo, CallRecord

(* A thread goes on. *)
LEMMA ProperStep ==
  ASSUME Proper, NEW t \in Thread, NEW todo \in Todos, NEW new \in CallRecord,
         Event!Goes(t, todo, new), Fits(new, todo), Queues(queue'),
         subscribers' \in Place, recyclableSubscribers' \in Place,
         overtaken' \in [Thread -> Nat]
  PROVE  Proper'
<1>1. Types /\ LocalsFollowTodo
  BY DEF Proper
<1>2. call' \in [Thread -> CallRecord] /\ LocalsFollowTodo'
  BY <1>1, GoesOn
<1> QED
  BY <1>2 DEF Proper, Types, Queues

(* Nothing but a reference is taken or given back. *)
LEMMA AcquireProper ==
  ASSUME Proper, NEW t \in Thread,
         Event!Begin(t) \/ Event!SubscribeAgain(t) \/ Event!UnsubscribeAgain(t)
  PROVE  Proper'
<1>1. Types' /\ LocalsFollowTodo' /\ (Stays(t) \/ Acquires(t))
  BY AcquireShape DEF Proper
<1>2. CASE Stays(t)
  BY <1>1, <1>2 DEF Proper, Stays, SameArrays
<1>3. CASE Acquires(t)
  <2>1. subscribers \in Address /\ queue[subscribers].refs \in Int
    BY <1>3 DEF Acquires, Proper, Types, Place, QueueRecord
  <2>2. PICK n : n = queue[subscribers].refs + 1
    OBVIOUS
  <2>3. n \in Int /\ queue' = [queue EXCEPT ![subscribers].refs = n]
    BY <1>3, <2>1, <2>2 DEF Acquires
  <2>4. Queues(queue')
    BY <2>1, <2>3, CountedQueues DEF Proper
  <2> QED
    BY <1>1, <2>4 DEF Proper
<1> QED
  BY <1>1, <1>2, <1>3

LEMMA DropProper ==
  ASSUME Proper, NEW t \in Thread, NEW a \in Address,
         NEW new \in CallRecord, Event!DropReference(t, a, new),
         Tail(call[t].todo) \in {<<>>, <<"install">>, <<"unsubscribe">>, <<"release">>},
         Fits(new, Tail(call[t].todo)), call[t].spare = None,
         /\ new.fresh = call[t].fresh
         /\ \/ call[t].held = a /\ new.held = None /\ Drops(t) = None
            \/ Drops(t) = a /\ new.held = call[t].held
  PROVE  Proper'
<1>1. Types' /\ LocalsFollowTodo'
  BY DropStep DEF Proper
<1>2. queue[a].refs \in Int
  BY DEF Proper, Types, QueueRecord
<1>3. PICK n : n = queue[a].refs - 1
  OBVIOUS
<1>4. n \in Int /\ queue' = [queue EXCEPT ![a].refs = n]
  BY <1>2, <1>3 DEF Event!DropReference
<1>5. Queues(queue')
  BY <1>4, CountedQueues DEF Proper
<1> QED
  BY <1>1, <1>5 DEF Proper

LEMMA ReleaseProper ==
  ASSUME Proper, NEW t \in Thread, Event!Release(t)
  PROVE  Proper'
<1>1. /\ Types /\ LocalsFollowTodo /\ call[t] \in CallRecord
      /\ Fits(call[t], call[t].todo)
  BY ProperCall
<1>2. call[t].todo \in {<<"release">>, <<"release", "install">>,
                       <<"release", "unsubscribe">>}
  BY <1>1, Heads DEF Event!Release, Event!At, CallRecord
<1> DEFINE new == [call[t] EXCEPT !.held = None]
           a == call[t].held
<1>3. /\ new \in CallRecord /\ new.held = None /\ new.fresh = call[t].fresh
      /\ new.spare = call[t].spare /\ new.current = call[t].current
      /\ new.delegate = call[t].delegate
      /\ Event!DropReference(t, a, new)
  BY <1>1 DEF CallRecord, Place, Event!Release
<1> HIDE DEF new
<1>4. /\ Tail(call[t].todo) \in {<<>>, <<"install">>, <<"unsubscribe">>}
      /\ Fits(new, Tail(call[t].todo)) /\ call[t].spare = None
      /\ a # None /\ Drops(t) = None
  <2> USE <1>1, <1>3, Tails
      DEF Fits, Drops, Keeping, Making, Recycling, Dropping, Reading, Replacing,
          Installing
  <2>1. CASE call[t].todo = <<"release">>
    BY <2>1
  <2>2. CASE call[t].todo = <<"release", "install">>
    BY <2>2
  <2>3. CASE call[t].todo = <<"release", "unsubscribe">>
    BY <2>3
  <2> QED
    BY <1>2, <2>1, <2>2, <2>3
<1>5. a \in Address
  BY <1>1, <1>4 DEF CallRecord, Place
<1> QED
  BY <1>3, <1>4, <1>5, DropProper

LEMMA DropReplacedProper ==
  ASSUME Proper, NEW t \in Thread, Event!DropReplaced(t)
  PROVE  Proper'
<1>1. /\ Types /\ LocalsFollowTodo /\ call[t] \in CallRecord
      /\ Fits(call[t], call[t].todo)
  BY ProperCall
<1>2. call[t].todo \in Dropping
  BY <1>1, Heads DEF Event!DropReplaced, Event!At, CallRecord
<1> DEFINE a == call[t].current
<1>3. Event!DropReference(t, a, call[t])
  BY DEF Event!DropReplaced
<1>4. /\ Tail(call[t].todo) \in {<<>>, <<"release">>}
      /\ Fits(call[t], Tail(call[t].todo)) /\ call[t].spare = None
      /\ a # None /\ Drops(t) = a
  <2> USE <1>1, Tails
      DEF Fits, Drops, Keeping, Making, Recycling, Dropping, Reading, Replacing,
          Installing
  <2>1. CASE call[t].todo = <<"drop">>
    BY <2>1
  <2>2. CASE call[t].todo = <<"drop", "release">>
    BY <2>2
  <2> QED
    BY <1>2, <2>1, <2>2
<1>5. a \in Address
  BY <1>1, <1>4 DEF CallRecord, Place
<1> QED
  BY <1>1, <1>3, <1>4, <1>5, DropProper

(* An array becomes the recyclable one. *)
LEMMA RecycleProper ==
  ASSUME Proper, NEW t \in Thread, Event!Recycle(t)
  PROVE  Proper'
<1>1. /\ call[t] \in CallRecord /\ Fits(call[t], call[t].todo)
      /\ Queues(queue) /\ overtaken \in [Thread -> Nat]
      /\ subscribers \in Place /\ recyclableSubscribers \in Place
  BY ProperCall
<1>2. call[t].todo \in Recycling
  BY <1>1, Heads DEF Event!Recycle, Event!At, CallRecord
<1> DEFINE new == [call[t] EXCEPT !.spare = None]
           rest == Tail(call[t].todo)
<1>3. /\ new \in CallRecord /\ new.spare = None /\ new.fresh = call[t].fresh
      /\ new.held = call[t].held /\ new.current = call[t].current
      /\ new.delegate = call[t].delegate
      /\ Event!Goes(t, rest, new)
      /\ recyclableSubscribers' = call[t].spare /\ call[t].spare \in Place
      /\ queue' = Event!Freed(recyclableSubscribers, queue)
      /\ UNCHANGED <<subscribers, overtaken>>
  BY <1>1 DEF CallRecord, Place, Event!Recycle, Event!Rest, Event!history
<1> HIDE DEF new
<1>4. rest \in Todos /\ Fits(new, rest)
  <2> USE <1>1, <1>3, Tails
      DEF Fits, Drops, Keeping, Making, Recycling, Dropping, Reading, Replacing,
          Installing, Todos
  <2>1. CASE call[t].todo = <<"recycle">>
    BY <2>1
  <2>2. CASE call[t].todo = <<"recycle", "install">>
    BY <2>2
  <2>3. CASE call[t].todo = <<"recycle", "release">>
    BY <2>3
  <2>4. CASE call[t].todo = <<"recycle", "unsubscribe">>
    BY <2>4
  <2> QED
    BY <1>2, <2>1, <2>2, <2>3, <2>4
<1> HIDE DEF rest
<1>5. Queues(queue')
  BY <1>1, <1>3, FreedQueues
<1> QED
  BY <1>1, <1>3, <1>4, <1>5, ProperStep

LEMMA DiscardProper ==
  ASSUME Proper, NEW t \in Thread, Event!Discard(t)
  PROVE  Proper'
<1>1. /\ call[t] \in CallRecord /\ Fits(call[t], call[t].todo)
      /\ Queues(queue) /\ overtaken \in [Thread -> Nat]
      /\ subscribers \in Place /\ recyclableSubscribers \in Place
  BY ProperCall
<1>2. call[t].todo \in {<<"discard", "subscribe">>,
                       <<"discard", "release", "unsubscribe">>}
  BY <1>1, Heads DEF Event!Discard, Event!At, CallRecord
<1> DEFINE a == call[t].fresh
           new == [call[t] EXCEPT !.fresh = None]
           rest == Tail(call[t].todo)
           counted == [queue EXCEPT ![a].refs = 0]
<1>3. /\ new \in CallRecord /\ new.spare = call[t].spare /\ new.fresh = None
      /\ new.held = call[t].held /\ new.current = call[t].current
      /\ new.delegate = call[t].delegate
      /\ a \in Address
      /\ Event!Goes(t, rest, new)
      /\ recyclableSubscribers' = a /\ a \in Place
      /\ queue' = Event!Freed(recyclableSubscribers, counted)
      /\ UNCHANGED <<subscribers, overtaken>>
  BY <1>1 DEF CallRecord, Place, Event!Discard, Event!Rest, Event!history
<1> HIDE DEF new
<1>4. rest \in Todos /\ Fits(new, rest)
  <2> USE <1>1, <1>3, Tails
      DEF Fits, Drops, Keeping, Making, Recycling, Dropping, Reading, Replacing,
          Installing, Todos
  <2>1. CASE call[t].todo = <<"discard", "subscribe">>
    BY <2>1
  <2>2. CASE call[t].todo = <<"discard", "release", "unsubscribe">>
    BY <2>2
  <2> QED
    BY <1>2, <2>1, <2>2
<1> HIDE DEF rest
<1>5. Queues(counted)
  BY <1>1, <1>3, CountedQueues
<1> HIDE DEF counted
<1>6. Queues(queue')
  BY <1>1, <1>3, <1>5, FreedQueues
<1> QED
  BY <1>1, <1>3, <1>4, <1>6, ProperStep

LEMMA CallBackProper ==
  ASSUME Proper, NEW t \in Thread, Event!CallBack(t)
  PROVE  Proper'
<1>1. /\ call[t] \in CallRecord /\ Fits(call[t], call[t].todo)
      /\ Queues(queue) /\ overtaken \in [Thread -> Nat]
      /\ subscribers \in Place /\ recyclableSubscribers \in Place
      /\ call[t].todo = <<"calling", "release">>
  BY ProperCall, Heads DEF Event!CallBack, Event!At
<1>2. UNCHANGED <<subscribers, recyclableSubscribers, queue, overtaken>>
  BY DEF Event!CallBack, Event!history
<1> DEFINE next == [call[t] EXCEPT !.index = call[t].index + 1]
           last == [call[t] EXCEPT !.index = 0]
<1>3. /\ next \in CallRecord /\ last \in CallRecord
      /\ Fits(next, <<"calling", "release">>)
      /\ Fits(last, <<"calling", "release">>)
  BY <1>1 DEF CallRecord, Fits
<1>4. \/ Event!Goes(t, <<"calling", "release">>, next)
      \/ Event!Goes(t, <<"release">>, last)
  BY <1>1, Tails DEF Event!CallBack, Event!Rest
<1> HIDE DEF next, last
<1>5. /\ Fits(last, <<"release">>) /\ <<"release">> \in Todos
      /\ <<"calling", "release">> \in Todos
  BY <1>3 DEF Fits, Todos, Keeping, Making, Recycling, Dropping, Reading,
     Replacing, Installing
<1> QED
  BY <1>1, <1>2, <1>3, <1>4, <1>5, ProperStep

(* The first subscriber's array has room for him even if it was recycled.   *)
LEMMA TakeFirstProper ==
  ASSUME Proper, NEW t \in Thread, Event!TakeFirst(t), ~Event!UsesFreed(t)
  PROVE  Proper'
<1>1. /\ call[t] \in CallRecord /\ Fits(call[t], call[t].todo)
      /\ Queues(queue) /\ overtaken \in [Thread -> Nat]
      /\ subscribers \in Place /\ recyclableSubscribers \in Place
      /\ call[t].todo = <<"first", "install">>
  BY ProperCall, Heads DEF Event!TakeFirst, Event!At
<1>2. /\ call[t].held = None /\ call[t].spare = None /\ call[t].fresh = None
      /\ call[t].current = None /\ call[t].delegate \in Callback
  BY <1>1 DEF Fits, Keeping, Making, Recycling, Dropping, Replacing, Installing
<1>3. recyclableSubscribers # None => queue[recyclableSubscribers].live
  <2>1. Head(call[t].todo) = "first" /\ call[t].todo # <<>>
    BY <1>1
  <2>2. Event!Touched(t) = {recyclableSubscribers}
    BY <2>1 DEF Event!Touched
  <2> QED
    BY <2>2 DEF Event!UsesFreed
<1> DEFINE callbacks == <<call[t].delegate>>
<1>4. PICK a \in Address : /\ Event!Obtain(callbacks, 0, 0, a)
                           /\ Event!Goes(t, Event!Rest(t), [call[t] EXCEPT !.fresh = a])
  BY DEF Event!TakeFirst
<1> DEFINE new == [call[t] EXCEPT !.fresh = a]
<1>5. /\ new \in CallRecord /\ new.fresh = a /\ new.held = None
      /\ new.spare = None /\ new.current = None /\ new.delegate \in Callback
      /\ Event!Goes(t, <<"install">>, new)
  BY <1>1, <1>2, <1>4, Tails DEF CallRecord, Place, Event!Rest
<1> HIDE DEF new
<1>6. Fits(new, <<"install">>) /\ <<"install">> \in Todos
  BY <1>5, Assumptions DEF Fits, Todos, Keeping, Making, Recycling, Dropping,
     Reading, Replacing, Installing
<1>7. callbacks \in Seq(Callback) /\ Len(callbacks) = 1
  BY <1>2
<1> HIDE DEF callbacks
<1>8. Queues(queue') /\ recyclableSubscribers' = None
  <2>1. Queues(queue) /\ recyclableSubscribers \in Place
    BY <1>1
  <2>2. Event!Obtain(callbacks, 0, 0, a)
    BY <1>4
  <2>3. 0 \in Int
    OBVIOUS
  <2>4. \/ Len(callbacks) <= 0
        \/ /\ recyclableSubscribers # None => queue[recyclableSubscribers].live
           /\ Len(callbacks) = 1
    BY <1>3, <1>7
  <2> QED
    BY <1>7, <2>1, <2>2, <2>3, <2>4, ObtainedQueues
<1>9. UNCHANGED <<subscribers, overtaken>> /\ None \in Place
  BY DEF Event!TakeFirst, Place
<1> QED
  BY <1>1, <1>5, <1>6, <1>8, <1>9, ProperStep

LEMMA HeldCallbacks ==
  ASSUME Proper, NEW t \in Thread, call[t].held # None
  PROVE  call[t].held \in Address /\ queue[call[t].held].callbacks \in Seq(Callback)
  BY ProperCall DEF CallRecord, Place, Queues, QueueRecord

LEMMA TakeProper ==
  ASSUME Proper, NEW t \in Thread, Event!Take(t)
  PROVE  Proper'
<1>1. /\ call[t] \in CallRecord /\ Fits(call[t], call[t].todo)
      /\ Queues(queue) /\ overtaken \in [Thread -> Nat]
      /\ subscribers \in Place /\ recyclableSubscribers \in Place
      /\ call[t].todo = <<"take", "release", "install">>
  BY ProperCall, Heads DEF Event!Take, Event!At
<1>2. /\ call[t].held # None /\ call[t].spare = None /\ call[t].fresh = None
      /\ call[t].held = call[t].current /\ call[t].delegate \in Callback
  BY <1>1 DEF Fits, Keeping, Making, Recycling, Dropping, Replacing, Reading,
     Installing
<1> DEFINE held == queue[call[t].held].callbacks
           callbacks == Append(held, call[t].delegate)
           rest == <<"release", "install">>
<1>3. PICK a \in Address :
        /\ Event!Obtain(callbacks, 1, Len(held) + 1, a)
        /\ Event!Goes(t, Event!Rest(t), [call[t] EXCEPT !.fresh = a])
  BY DEF Event!Take
<1> DEFINE new == [call[t] EXCEPT !.fresh = a]
<1>4. /\ new \in CallRecord /\ new.fresh = a /\ new.held = call[t].held
      /\ new.spare = None /\ new.current = call[t].held
      /\ new.delegate \in Callback /\ Event!Goes(t, rest, new)
  BY <1>1, <1>2, <1>3, Tails DEF CallRecord, Place, Event!Rest
<1> HIDE DEF new
<1>5. Fits(new, rest) /\ rest \in Todos
  BY <1>2, <1>4, Assumptions DEF Fits, Todos, Keeping, Making, Recycling, Dropping,
     Reading, Replacing, Installing
<1>6. held \in Seq(Callback)
  BY <1>2, HeldCallbacks
<1> HIDE DEF held
<1>7. PICK n : n = Len(held) + 1
  OBVIOUS
<1>8. n \in Int /\ callbacks \in Seq(Callback) /\ Len(callbacks) <= n
  BY <1>2, <1>6, <1>7, AppendProperties
<1> HIDE DEF callbacks
<1>9. Queues(queue') /\ recyclableSubscribers' = None
  <2>1. Event!Obtain(callbacks, 1, n, a) /\ 1 \in Int
    BY <1>3, <1>7
  <2> QED
    BY <1>1, <1>8, <2>1, ObtainedQueues
<1>10. UNCHANGED <<subscribers, overtaken>> /\ None \in Place
  BY DEF Event!Take, Event!history, Place
<1> QED
  BY <1>1, <1>4, <1>5, <1>9, <1>10, ProperStep

(* A sequence without one of its elements is not longer than before.        *)
LEMMA WithoutIsShorter ==
  ASSUME NEW S, NEW s \in Seq(S), NEW i \in 1 .. Len(s)
  PROVE  Event!Without(s, i) \in Seq(S) /\ Len(Event!Without(s, i)) <= Len(s)
<1> DEFINE front == SubSeq(s, 1, i - 1)  back == SubSeq(s, i + 1, Len(s))
<1>1. front \in Seq(S) /\ Len(front) = i - 1
  <2>1. /\ \A j \in 1 .. i - 1 : s[j] \in S
        /\ 1 \in Int /\ i - 1 \in Int /\ i - 1 >= 0
    OBVIOUS
  <2> QED
    BY <2>1, SubSeqProperties
<1>2. back \in Seq(S) /\ Len(back) = Len(s) - i
  <2>1. /\ \A j \in i + 1 .. Len(s) : s[j] \in S
        /\ i + 1 \in Int /\ Len(s) \in Int /\ Len(s) - i >= 0
    OBVIOUS
  <2> QED
    BY <2>1, SubSeqProperties
<1>3. Event!Without(s, i) = front \o back
  BY DEF Event!Without
<1> HIDE DEF front, back
<1>4. front \o back \in Seq(S) /\ Len(front \o back) = Len(s) - 1
  BY <1>1, <1>2, ConcatProperties
<1> QED
  BY <1>3, <1>4

LEMMA SearchProper ==
  ASSUME Proper, NEW t \in Thread, Event!Search(t)
  PROVE  Proper'
<1>1. /\ call[t] \in CallRecord /\ Fits(call[t], call[t].todo)
      /\ Queues(queue) /\ overtaken \in [Thread -> Nat]
      /\ subscribers \in Place /\ recyclableSubscribers \in Place
      /\ call[t].todo = <<"search", "release">>
  BY ProperCall, Heads DEF Event!Search, Event!At
<1>2. /\ call[t].held # None /\ call[t].spare = None /\ call[t].fresh = None
      /\ call[t].held = call[t].current
  BY <1>1 DEF Fits, Keeping, Making, Recycling, Dropping, Replacing, Reading
<1> DEFINE callbacks == queue[call[t].held].callbacks
           found == {i \in DOMAIN callbacks : callbacks[i] = call[t].delegate}
           first == CHOOSE i \in found : \A j \in found : i <= j
           replace == <<"replace", "release">>
<1>3. /\ UNCHANGED <<subscribers, overtaken>> /\ None \in Place
      /\ \/ /\ Event!Goes(t, <<"release">>, call[t])
            /\ UNCHANGED <<recyclableSubscribers, queue>>
         \/ /\ Event!Goes(t, replace, [call[t] EXCEPT !.fresh = None])
            /\ UNCHANGED <<recyclableSubscribers, queue>>
         \/ /\ found # {}
            /\ \E a \in Address :
                 /\ Event!Obtain(Event!Without(callbacks, first), 1, Len(callbacks), a)
                 /\ Event!Goes(t, replace, [call[t] EXCEPT !.fresh = a])
  BY <1>1, Tails DEF Event!Search, Event!Rest, Event!history, Place
<1>4. callbacks \in Seq(Callback)
  BY <1>2, HeldCallbacks
<1>5. found # {} => first \in 1 .. Len(callbacks)
  <2>1. found \subseteq Nat /\ DOMAIN callbacks = 1 .. Len(callbacks)
    BY <1>4
  <2>2. found # {} => first \in found
    BY <2>1, Least
  <2> HIDE DEF first
  <2> QED
    BY <2>1, <2>2
<1>6. /\ replace \in Todos /\ <<"release">> \in Todos
      /\ Fits(call[t], <<"release">>)
      /\ \A new : /\ new.held = call[t].held /\ new.spare = None
                  /\ new.current = call[t].held
                  => Fits(new, replace)
  BY <1>2
  DEF Fits, Todos, Keeping, Making, Recycling, Dropping, Reading, Replacing,
      Installing
<1> HIDE DEF callbacks, first, found, replace
<1>7. ASSUME NEW a \in Place, Event!Goes(t, replace, [call[t] EXCEPT !.fresh = a]),
             Queues(queue'), recyclableSubscribers' \in Place
      PROVE  Proper'
  <2> DEFINE new == [call[t] EXCEPT !.fresh = a]
  <2>1. /\ new \in CallRecord /\ new.held = call[t].held
        /\ new.spare = None /\ new.current = call[t].held
        /\ Event!Goes(t, replace, new)
    BY <1>1, <1>2, <1>7 DEF CallRecord, Place
  <2> HIDE DEF new
  <2>2. Fits(new, replace)
    BY <1>6, <2>1
  <2> QED
    BY <1>1, <1>3, <1>6, <1>7, <2>1, <2>2, ProperStep
<1>8. CASE Event!Goes(t, <<"release">>, call[t])
           /\ UNCHANGED <<recyclableSubscribers, queue>>
  BY <1>1, <1>3, <1>6, <1>8, ProperStep
<1>9. CASE Event!Goes(t, replace, [call[t] EXCEPT !.fresh = None])
           /\ UNCHANGED <<recyclableSubscribers, queue>>
  BY <1>1, <1>3, <1>7, <1>9
<1>10. ASSUME found # {}, NEW a \in Address,
              Event!Obtain(Event!Without(callbacks, first), 1, Len(callbacks), a),
              Event!Goes(t, replace, [call[t] EXCEPT !.fresh = a])
       PROVE  Proper'
  <2>1. PICK rest, n : rest = Event!Without(callbacks, first) /\ n = Len(callbacks)
    OBVIOUS
  <2>2. rest \in Seq(Callback) /\ n \in Int /\ Len(rest) <= n
    BY <1>4, <1>5, <1>10, <2>1, WithoutIsShorter
  <2>3. Queues(queue') /\ recyclableSubscribers' = None
    <3>1. Event!Obtain(rest, 1, n, a) /\ 1 \in Int
      BY <1>10, <2>1
    <3> QED
      BY <1>1, <2>2, <3>1, ObtainedQueues
  <2>4. a \in Place
    BY DEF Place
  <2> QED
    BY <1>3, <1>7, <1>10, <2>3, <2>4
<1> QED
  BY <1>3, <1>8, <1>9, <1>10

(* The comparison and the exchange of the current array *)
LEMMA SwapProper ==
  ASSUME Proper, NEW t \in Thread, NEW done \in {<<>>, <<"release">>}, NEW again,
         \/ /\ call[t].todo = <<"install">> /\ done = <<>> /\ again = <<"subscribe">>
         \/ /\ call[t].todo = <<"replace", "release">> /\ done = <<"release">>
            /\ again = <<"release", "unsubscribe">>,
         Event!CompareAndSwap(t, done, again)
  PROVE  Proper'
<1>1. /\ call[t] \in CallRecord /\ Fits(call[t], call[t].todo)
      /\ Queues(queue) /\ overtaken \in [Thread -> Nat]
      /\ subscribers \in Place /\ recyclableSubscribers \in Place
  BY ProperCall
<1>2. /\ call[t].held # None <=> done = <<"release">>
      /\ call[t].spare = None
      /\ done = <<"release">> => call[t].held = call[t].current
      /\ call[t].fresh \in Place
  <2> USE <1>1 DEF Fits, Keeping, Making, Recycling, Dropping, Replacing, Reading,
                   CallRecord
  <2>1. CASE call[t].todo = <<"install">> /\ done = <<>>
    BY <2>1
  <2>2. CASE call[t].todo = <<"replace", "release">> /\ done = <<"release">>
    BY <2>2
  <2> QED
    BY <2>1, <2>2
<1>3. UNCHANGED <<recyclableSubscribers, queue>>
  BY DEF Event!CompareAndSwap
<1>4. CASE subscribers = call[t].current
  <2> DEFINE new == [call[t] EXCEPT !.fresh = None]
             c == call[t].current
             todo == (IF c = None THEN <<>> ELSE <<"drop">>) \o done
  <2>1. /\ new \in CallRecord /\ new.fresh = None /\ new.held = call[t].held
        /\ new.spare = None /\ new.current = c
        /\ Event!Goes(t, todo, new) /\ subscribers' = call[t].fresh
        /\ overtaken' = [s \in Thread |-> IF Event!Has(s, "install")
                                          THEN overtaken[s] + 1 ELSE 0]
    BY <1>1, <1>2, <1>4 DEF CallRecord, Place, Event!CompareAndSwap
  <2>2. /\ c = None => todo = <<>> /\ done = <<>>
        /\ c # None /\ done = <<>> => todo = <<"drop">>
        /\ c # None /\ done = <<"release">> => todo = <<"drop", "release">>
    BY <1>2, Prefixes
  <2> HIDE DEF new, todo
  <2>3. todo \in Todos /\ Fits(new, todo)
    <3> USE <1>2, <2>1
        DEF Fits, Todos, Keeping, Making, Recycling, Dropping, Reading, Replacing,
            Installing
    <3>1. CASE todo = <<>> /\ c = None /\ done = <<>>
      BY <3>1
    <3>2. CASE todo = <<"drop">> /\ c # None /\ done = <<>>
      BY <3>2
    <3>3. CASE todo = <<"drop", "release">> /\ c # None /\ done = <<"release">>
      BY <3>3
    <3> QED
      BY <2>2, <3>1, <3>2, <3>3
  <2>4. overtaken' \in [Thread -> Nat]
    BY <1>1, <2>1
  <2> QED
    BY <1>1, <1>2, <1>3, <2>1, <2>3, <2>4, ProperStep
<1>5. CASE subscribers # call[t].current
  <2> DEFINE todo == <<"discard">> \o again
  <2>1. /\ Event!Goes(t, todo, call[t])
        /\ subscribers' = subscribers /\ overtaken' = overtaken
    BY <1>5 DEF Event!CompareAndSwap
  <2>2. \/ /\ todo = <<"discard", "subscribe">>
           /\ call[t].todo = <<"install">>
        \/ /\ todo = <<"discard", "release", "unsubscribe">>
           /\ call[t].todo = <<"replace", "release">>
    BY Prefixes
  <2> HIDE DEF todo
  <2>3. todo \in Todos /\ Fits(call[t], todo)
    <3> USE <1>1
        DEF Fits, Todos, Keeping, Making, Recycling, Dropping, Reading, Replacing,
            Installing
    <3>1. CASE todo = <<"discard", "subscribe">> /\ call[t].todo = <<"install">>
      BY <3>1
    <3>2. CASE /\ todo = <<"discard", "release", "unsubscribe">>
               /\ call[t].todo = <<"replace", "release">>
      BY <3>2
    <3> QED
      BY <2>2, <3>1, <3>2
  <2> QED
    BY <1>1, <1>3, <2>1, <2>3, ProperStep
<1> QED
  BY <1>4, <1>5

LEMMA InstallProper ==
  ASSUME Proper, NEW t \in Thread, Event!Install(t) \/ Event!Replace(t)
  PROVE  Proper'
<1>1. call[t].todo \in Todos
  BY ProperCall
<1>2. CASE Event!Install(t)
  <2>1. call[t].todo = <<"install">> /\ Event!CompareAndSwap(t, <<>>, <<"subscribe">>)
    BY <1>1, <1>2, Heads DEF Event!Install, Event!At
  <2> QED
    BY <2>1, SwapProper
<1>3. CASE Event!Replace(t)
  <2>1. /\ call[t].todo = <<"replace", "release">>
        /\ Event!CompareAndSwap(t, <<"release">>, <<"release", "unsubscribe">>)
    BY <1>1, <1>3, Heads DEF Event!Replace, Event!At
  <2> QED
    BY <2>1, SwapProper
<1> QED
  BY <1>2, <1>3

EventTyped ==
  /\ Proper /\ changes \in 0 .. MaxChanges
  /\ fault \in {"none", "useAfterFree", "nullDereference"}

LEMMA ProperBegins ==
  ASSUME Event!Init
  PROVE  EventTyped
<1>1. /\ subscribers = None /\ recyclableSubscribers = None
      /\ queue = [a \in Address |-> Event!NoQueue]
      /\ call = [t \in Thread |-> Event!NoCall] /\ fault = "none" /\ changes = 0
      /\ overtaken = [t \in Thread |-> 0]
  BY DEF Event!Init
<1>2. /\ Event!NoCall \in CallRecord /\ Event!NoCall.todo = <<>>
      /\ Fits(Event!NoCall, <<>>)
  BY DEF Event!NoCall, CallRecord, Place, Todos, Fits, Keeping, Making, Recycling,
     Dropping, Reading, Replacing, Installing
<1>3. Queues(queue)
  <2>1. QueueRecord(Event!NoQueue) /\ Roomy(Event!NoQueue)
    BY DEF QueueRecord, Roomy, Event!NoQueue
  <2> QED
    BY <1>1, <2>1 DEF Queues
<1>4. Types /\ LocalsFollowTodo
  BY <1>1, <1>2, <1>3 DEF Types, LocalsFollowTodo, Place, Queues
<1>5. changes \in 0 .. MaxChanges
  BY <1>1, ConcurrentAssumption
  DEF ConcurrentAssumption, Event!ConcurrentEventAssumption
<1> QED
  BY <1>1, <1>3, <1>4, <1>5 DEF EventTyped, Proper

LEMMA ProperRests ==
  ASSUME Proper, UNCHANGED <<subscribers, recyclableSubscribers, queue, call, overtaken>>
  PROVE  Proper'
  BY DEF Proper, Types, LocalsFollowTodo, Queues

LEMMA ContinueProper ==
  ASSUME Proper, NEW t \in Thread, Event!Continue(t), ~Event!UsesFreed(t)
  PROVE  Proper'
  BY CallBackProper, ReleaseProper, DropReplacedProper, RecycleProper, DiscardProper,
     AcquireProper, TakeFirstProper, TakeProper, InstallProper, SearchProper
  DEF Event!Continue

LEMMA ChangesAreFew ==
  ASSUME changes \in 0 .. MaxChanges, NEW t \in Thread, Event!Continue(t) \/ Event!Begin(t)
  PROVE  changes' \in 0 .. MaxChanges
<1>1. CASE Event!Continue(t)
  <2>1. changes' = changes
    BY <1>1
    DEF Event!Continue, Event!CallBack, Event!Release,
        Event!DropReplaced, Event!DropReference, Event!Recycle, Event!Discard,
        Event!SubscribeAgain, Event!TakeFirst, Event!Take, Event!Install,
        Event!UnsubscribeAgain, Event!Search, Event!Replace, Event!CompareAndSwap,
        Event!history
  <2> QED
    BY <2>1
<1>2. CASE Event!Begin(t)
  <2>1. \/ changes' = changes
        \/ changes < MaxChanges /\ changes' = changes + 1
    BY <1>2 DEF Event!Begin, Event!EmitAcquire, Event!Subscribe, Event!Unsubscribe
  <2>2. MaxChanges \in Nat
    BY ConcurrentAssumption DEF ConcurrentAssumption, Event!ConcurrentEventAssumption
  <2> QED
    BY <2>1, <2>2
<1> QED
  BY <1>1, <1>2

LEMMA TypedStep ==
  ASSUME EventTyped, Event!Next
  PROVE  EventTyped'
<1>1. PICK t \in Thread :
        \/ Event!UseAfterFree(t) \/ Event!NullDereference(t)
        \/ ~Event!UsesFreed(t) /\ (Event!Continue(t) \/ Event!Begin(t))
  BY DEF Event!Next, Event!Step
<1>2. CASE Event!UseAfterFree(t) \/ Event!NullDereference(t)
  <2>1. /\ UNCHANGED <<subscribers, recyclableSubscribers, queue, call, overtaken, changes>>
        /\ fault' \in {"useAfterFree", "nullDereference"}
    BY <1>2 DEF Event!UseAfterFree, Event!NullDereference
  <2> QED
    BY <2>1, ProperRests DEF EventTyped
<1>3. CASE ~Event!UsesFreed(t) /\ (Event!Continue(t) \/ Event!Begin(t))
  <2>1. Proper'
    BY <1>3, ContinueProper, AcquireProper DEF EventTyped
  <2>2. fault' = fault
    BY <1>3, HistoryOfSteps
  <2>3. changes' \in 0 .. MaxChanges
    BY <1>3, ChangesAreFew DEF EventTyped
  <2> QED
    BY <2>1, <2>2, <2>3 DEF EventTyped
<1> QED
  BY <1>1, <1>2, <1>3

LEMMA TypedRests ==
  ASSUME EventTyped, UNCHANGED eventVars
  PROVE  EventTyped'
<1>1. UNCHANGED <<subscribers, recyclableSubscribers, queue, call, fault, changes,
                  overtaken>>
  BY DEF eventVars
<1>2. Proper'
  BY <1>1, ProperRests DEF EventTyped
<1> QED
  BY <1>1, <1>2 DEF EventTyped

LEMMA EventIsTyped ==
  FairSpec => []Event!TypeOK
<1>1. Init => EventTyped
  BY ProperBegins DEF Init
<1>2. EventTyped /\ [Next]_vars => EventTyped'
  <2> SUFFICES ASSUME EventTyped, [Next]_vars PROVE EventTyped'
    OBVIOUS
  <2>1. CASE OfEvent(Event!Next)
    BY <2>1, TypedStep DEF OfEvent
  <2>2. CASE UNCHANGED eventVars
    BY <2>2, TypedRests
  <2> QED
    BY <2>1, <2>2 DEF Next, OfServices, OfProcess, vars
<1>3. EventTyped => Event!TypeOK
  <2> SUFFICES ASSUME EventTyped PROVE Event!TypeOK
    OBVIOUS
  <2>1. subscribers \in Place /\ recyclableSubscribers \in Place
    BY DEF EventTyped, Proper, Types
  <2>2. \A a \in Address : /\ queue[a].refs \in Int
                           /\ Len(queue[a].callbacks) <= queue[a].capacity
    BY DEF EventTyped, Proper, Queues, QueueRecord, Roomy
  <2>3. \A t \in Thread : call[t] \in CallRecord
    BY DEF EventTyped, Proper, Types
  <2> QED
    BY <2>1, <2>2, <2>3 DEF EventTyped, Event!TypeOK, CallRecord, Place
<1> QED
  BY <1>1, <1>2, <1>3, PTL DEF FairSpec

-----------------------------------------------------------------------------
(* Processes: the child is reaped and its output read. *)

(* The inductive invariant *)

(* What a call, or a stage of the destructor, has yet to do *)
JoinTodos ==
  {<<"wait", "timeout", "close">>, <<"loop", "timeout", "close">>,
   <<"timeout", "close">>, <<"close">>,
   <<"poll", "timeout", "pump", "close">>, <<"loop", "timeout", "pump", "close">>,
   <<"timeout", "pump", "close">>, <<"pump", "close">>}
KillTodos ==
  {<<"ask", "wait", "kill">>, <<"wait", "kill">>, <<"loop", "kill">>, <<"kill">>}
Plans ==
  JoinTodos \cup KillTodos
  \cup {<<>>, <<"wait">>, <<"loop">>, <<"write">>, <<"destroy">>}

(* On Windows, Join() has more to do after waiting. *)
LinuxTodos ==
  {<<"wait", "timeout", "close">>, <<"loop", "timeout", "close">>,
   <<"timeout", "close">>}

ClientTypes ==
  /\ impl \in [platform : {"linux", "windows"}, started : BOOLEAN,
               finished : BOOLEAN, open : BOOLEAN, masked : BOOLEAN,
               destroyed : BOOLEAN]
  /\ client \in [todo : Plans, stage : {"call", "kill", "join", "end"},
                 phase : {"pump", "look", "tired"}, result : BOOLEAN,
                 patience : BOOLEAN]
  /\ child \in [state : {"none", "forked", "running", "copy", "exited", "gone"},
                killed : BOOLEAN, written : 0 .. MaxOutput]
  /\ pipe \in [stdin : 0 .. PipeSize, out : 0 .. PipeSize]
  /\ log \in [starts : 0 .. MaxStarts, lost : Nat,
              stranger : {"none", "Kill", "destructor"}, impatient : BOOLEAN]

(* Each stage of the destructor does what is its own, and Windows its own.  *)
StagesFit ==
  /\ client.stage = "kill" => client.todo \in KillTodos \cup {<<>>}
  /\ client.stage = "join" => client.todo \in JoinTodos \cup {<<>>}
  /\ client.stage = "end" <=> client.todo = <<"destroy">>
  /\ Process!Windows => client.todo \notin LinuxTodos

(* What the process object says of the child is true; so is what a call has *)
(* found out, because the client does nothing else meanwhile.               *)
Ended == child.state \in {"exited", "gone"}

ChildIsKnown ==
  /\ impl.open = impl.started
  /\ ~impl.started => child.state \in {"none", "gone"}
  /\ impl.started /\ ~impl.finished => child.state \notin {"none", "gone"}
  /\ impl.finished => child.state = "gone"
  /\ client.result /\ Process!Underway => Ended
  /\ client.todo \in {<<"pump", "close">>, <<"close">>} => Ended
  /\ client.stage = "kill" /\ client.todo = <<"ask", "wait", "kill">> =>
       child.state # "gone"

OutputIsRead ==
  /\ Process!Windows /\ client.todo = <<"close">> => pipe.out = 0
  /\ Process!OutputReadBeforeClose

(* The destructor comes to its end with the child joined or after a timeout.*)
JoinIsDone ==
  \/ client.stage = "join" /\ client.todo = <<>>
  \/ client.stage = "end"
  \/ impl.destroyed
  => ~impl.started \/ log.impatient

ProcessInv ==
  /\ ClientTypes /\ StagesFit /\ ChildIsKnown /\ OutputIsRead /\ JoinIsDone
  /\ Process!StrangersAreSafe

-----------------------------------------------------------------------------
(* The steps of a call *)

(* What begins with which step, and what is left after it *)
LEMMA PlanHeads ==
  ASSUME NEW todo \in Plans, todo # <<>>
  PROVE  /\ Head(todo) = "write" => todo = <<"write">>
         /\ Head(todo) = "destroy" => todo = <<"destroy">>
         /\ Head(todo) = "ask" => todo = <<"ask", "wait", "kill">>
         /\ Head(todo) = "kill" => todo = <<"kill">>
         /\ Head(todo) = "wait" =>
              todo \in {<<"wait">>, <<"wait", "kill">>,
                        <<"wait", "timeout", "close">>}
         /\ Head(todo) = "poll" => todo = <<"poll", "timeout", "pump", "close">>
         /\ Head(todo) = "loop" =>
              todo \in {<<"loop">>, <<"loop", "kill">>,
                        <<"loop", "timeout", "close">>,
                        <<"loop", "timeout", "pump", "close">>}
         /\ Head(todo) = "timeout" =>
              todo \in {<<"timeout", "close">>, <<"timeout", "pump", "close">>}
         /\ Head(todo) = "pump" => todo = <<"pump", "close">>
         /\ Head(todo) = "close" => todo = <<"close">>
BY DEF Plans, JoinTodos, KillTodos

(* What is left of a plan after its first step is a plan, too. *)
LEMMA PlanTails ==
  /\ Tail(<<"write">>) = <<>>
  /\ Tail(<<"ask", "wait", "kill">>) = <<"wait", "kill">>
  /\ Tail(<<"kill">>) = <<>>
  /\ Tail(<<"wait">>) = <<>>
  /\ Tail(<<"wait", "kill">>) = <<"kill">>
  /\ Tail(<<"wait", "timeout", "close">>) = <<"timeout", "close">>
  /\ Tail(<<"poll", "timeout", "pump", "close">>) = <<"timeout", "pump", "close">>
  /\ Tail(<<"loop">>) = <<>>
  /\ Tail(<<"loop", "kill">>) = <<"kill">>
  /\ Tail(<<"loop", "timeout", "close">>) = <<"timeout", "close">>
  /\ Tail(<<"loop", "timeout", "pump", "close">>) = <<"timeout", "pump", "close">>
  /\ Tail(<<"timeout", "close">>) = <<"close">>
  /\ Tail(<<"timeout", "pump", "close">>) = <<"pump", "close">>
  /\ Tail(<<"pump", "close">>) = <<"close">>
  /\ Tail(<<"close">>) = <<>>
OBVIOUS

(* A step in front of others *)
LEMMA Prefix ==
  ASSUME NEW S, NEW x \in S, NEW s \in Seq(S), NEW u \in Seq(S),
         Len(u) = Len(s) + 1, u[1] = x,
         \A i \in 1 .. Len(s) : u[i + 1] = s[i]
  PROVE  <<x>> \o s = u
<1> DEFINE t == <<x>>
<1>1. t \in Seq(S) /\ Len(t) = 1 /\ t[1] = x
  OBVIOUS
<1> HIDE DEF t
<1>2. /\ t \o s \in Seq(S) /\ Len(t \o s) = Len(t) + Len(s)
      /\ \A i \in 1 .. Len(t) + Len(s) :
           (t \o s)[i] = IF i <= Len(t) THEN t[i] ELSE s[i - Len(t)]
  BY <1>1, ConcatProperties
<1>3. ASSUME NEW i \in 1 .. Len(u) PROVE (t \o s)[i] = u[i]
  <2>1. CASE i = 1
    BY <1>1, <1>2, <2>1
  <2>2. CASE i > 1
    <3> DEFINE j == i - 1
    <3>1. j \in 1 .. Len(s) /\ i = j + 1
      BY <2>2
    <3>2. (t \o s)[i] = s[j]
      BY <1>1, <1>2, <2>2
    <3> QED
      BY <3>1, <3>2
  <2>3. i = 1 \/ i > 1
    OBVIOUS
  <2> QED
    BY <2>1, <2>2, <2>3
<1>4. t \o s = u
  BY <1>1, <1>2, <1>3, SeqEqual
<1> QED
  BY <1>4 DEF t

(* The loop in front of what comes after it *)
LEMMA Loops ==
  /\ <<"loop">> \o <<>> = <<"loop">>
  /\ <<"loop">> \o <<"kill">> = <<"loop", "kill">>
  /\ <<"loop">> \o <<"timeout", "close">> = <<"loop", "timeout", "close">>
  /\ <<"loop">> \o <<"timeout", "pump", "close">>
       = <<"loop", "timeout", "pump", "close">>
<1> DEFINE S == {"loop", "kill", "timeout", "pump", "close"}
<1>1. <<"loop">> \o <<"kill">> = <<"loop", "kill">>
  <2> DEFINE s == <<"kill">>  u == <<"loop", "kill">>
  <2>1. /\ s \in Seq(S) /\ u \in Seq(S) /\ Len(u) = Len(s) + 1
        /\ u[1] = "loop" /\ \A i \in 1 .. Len(s) : u[i + 1] = s[i]
    OBVIOUS
  <2> QED
    BY <2>1, Prefix
<1>2. <<"loop">> \o <<"timeout", "close">> = <<"loop", "timeout", "close">>
  <2> DEFINE s == <<"timeout", "close">>  u == <<"loop", "timeout", "close">>
  <2>1. /\ s \in Seq(S) /\ u \in Seq(S) /\ Len(u) = Len(s) + 1
        /\ u[1] = "loop" /\ \A i \in 1 .. Len(s) : u[i + 1] = s[i]
    OBVIOUS
  <2> QED
    BY <2>1, Prefix
<1>3. <<"loop">> \o <<"timeout", "pump", "close">>
        = <<"loop", "timeout", "pump", "close">>
  <2> DEFINE s == <<"timeout", "pump", "close">>
             u == <<"loop", "timeout", "pump", "close">>
  <2>1. /\ s \in Seq(S) /\ u \in Seq(S) /\ Len(u) = Len(s) + 1
        /\ u[1] = "loop" /\ \A i \in 1 .. Len(s) : u[i + 1] = s[i]
    OBVIOUS
  <2> QED
    BY <2>1, Prefix
<1> QED
  BY <1>1, <1>2, <1>3

(* What Kill() and Join() have to do *)
LEMMA Begins ==
  /\ Process!Joins \in JoinTodos /\ Process!Joins # <<>>
  /\ Process!Windows => Process!Joins \notin LinuxTodos
  /\ Process!Joins \notin {<<"pump", "close">>, <<"close">>}
  /\ \A ask \in BOOLEAN :
       Process!Kills(ask) \in {<<"ask", "wait", "kill">>, <<"wait", "kill">>}
<1> DEFINE S == {"ask", "wait", "kill"}
           s == <<"wait", "kill">>  u == <<"ask", "wait", "kill">>
<1>1. <<"ask">> \o <<"wait", "kill">> = <<"ask", "wait", "kill">>
  <2>1. /\ s \in Seq(S) /\ u \in Seq(S) /\ Len(u) = Len(s) + 1
        /\ u[1] = "ask" /\ \A i \in 1 .. Len(s) : u[i + 1] = s[i]
    OBVIOUS
  <2> QED
    BY <2>1, Prefix
<1>2. <<>> \o <<"wait", "kill">> = <<"wait", "kill">>
  OBVIOUS
<1>3. \A ask \in BOOLEAN :
       Process!Kills(ask) \in {<<"ask", "wait", "kill">>, <<"wait", "kill">>}
  BY <1>1, <1>2 DEF Process!Kills, Process!KillSteps, Process!KillStepsWindows
<1>4. /\ Process!Joins \in JoinTodos /\ Process!Joins # <<>>
      /\ Process!Windows => Process!Joins \notin LinuxTodos
      /\ Process!Joins \notin {<<"pump", "close">>, <<"close">>}
  BY DEF Process!Joins, Process!JoinSteps, Process!JoinStepsWindows,
         JoinTodos, LinuxTodos
<1> QED
  BY <1>3, <1>4

(* The records do not lose fields. *)
LEMMA Fields ==
  ASSUME ClientTypes
  PROVE  /\ impl.platform \in {"linux", "windows"}
         /\ client.todo \in Plans
  BY DEF ClientTypes

-----------------------------------------------------------------------------
(* The steps *)

(* The constructor leaves everything as the invariant wants it. *)
LEMMA ProcessBegins ==
  Process!Init => ProcessInv
BY ConcurrentAssumption
DEF Process!Init, ProcessInv, ClientTypes, StagesFit, ChildIsKnown, OutputIsRead,
    JoinIsDone, Process!StrangersAreSafe, Process!OutputReadBeforeClose,
    Process!Idle, Process!NoChild, Process!EmptyPipes, Process!Windows,
    Process!Underway, Process!ProcessAssumption, Plans, JoinTodos, KillTodos,
    LinuxTodos, Ended

(* The start of a child, which the process object takes note of, and one    *)
(* that fails                                                               *)
LEMMA StartKeeps ==
  ASSUME ProcessInv, ~Process!Underway, ~impl.destroyed,
         impl' = [impl EXCEPT !.started = TRUE, !.finished = FALSE, !.open = TRUE],
         pipe' = [stdin |-> 0, out |-> 0], client' = client,
         NEW s \in {"forked", "running"},
         child' = [state |-> s, killed |-> FALSE, written |-> 0],
         log.starts < MaxStarts, log' = [log EXCEPT !.starts = @ + 1]
  PROVE  ProcessInv'
<1>1. /\ impl'.started /\ ~impl'.finished /\ impl'.open /\ ~impl'.destroyed
      /\ impl'.platform = impl.platform /\ child'.state = s
      /\ pipe'.out = 0 /\ log'.lost = log.lost
      /\ log'.stranger = log.stranger
  BY DEF ProcessInv, ClientTypes
<1>2. client.todo = <<>> /\ client.stage = "call"
  BY DEF Process!Underway
<1>3. ClientTypes'
  <2> DEFINE n == log.starts + 1
  <2>1. n \in 0 .. MaxStarts /\ log' = [log EXCEPT !.starts = n]
    BY ConcurrentAssumption DEF ProcessInv, ClientTypes, Process!ProcessAssumption
  <2> HIDE DEF n
  <2>2. /\ 0 \in 0 .. PipeSize /\ 0 \in 0 .. MaxOutput
    BY ConcurrentAssumption DEF Process!ProcessAssumption
  <2> QED
    BY <2>1, <2>2 DEF ProcessInv, ClientTypes
<1>4. StagesFit' /\ Process!StrangersAreSafe'
  BY <1>1 DEF ProcessInv, StagesFit, Process!StrangersAreSafe, Process!Windows
<1>5. ChildIsKnown'
  BY <1>1, <1>2 DEF ChildIsKnown, Ended, Process!Underway
<1>6. OutputIsRead'
  BY <1>1 DEF ProcessInv, OutputIsRead, Process!OutputReadBeforeClose, Process!Windows
<1>7. JoinIsDone'
  BY <1>1, <1>2 DEF JoinIsDone
<1> QED
  BY <1>3, <1>4, <1>5, <1>6, <1>7 DEF ProcessInv

(* As above *)
LEMMA StartFails ==
  ASSUME ProcessInv, UNCHANGED <<impl, pipe, client, child>>,
         log.starts < MaxStarts, log' = [log EXCEPT !.starts = @ + 1]
  PROVE  ProcessInv'
<1>1. /\ log'.lost = log.lost /\ log'.stranger = log.stranger
      /\ log'.impatient = log.impatient
  BY DEF ProcessInv, ClientTypes
<1>2. ClientTypes'
  BY ConcurrentAssumption DEF ProcessInv, ClientTypes, Process!ProcessAssumption
<1>3. StagesFit' /\ Process!StrangersAreSafe'
  BY <1>1 DEF ProcessInv, StagesFit, Process!StrangersAreSafe, Process!Windows
<1>4. ChildIsKnown'
  BY DEF ProcessInv, ChildIsKnown, Ended, Process!Underway
<1>5. OutputIsRead' /\ JoinIsDone'
  BY <1>1 DEF ProcessInv, OutputIsRead, JoinIsDone, Process!OutputReadBeforeClose,
              Process!Windows
<1> QED
  BY <1>2, <1>3, <1>4, <1>5 DEF ProcessInv

(* What the invariant says of a child that lives does not tell whether it   *)
(* is a program, a copy of the client or has ended.                         *)
LEMMA LivesOn ==
  ASSUME ProcessInv, Process!Alive, NEW s \in {"running", "copy", "exited"},
         child' = [child EXCEPT !.state = s], UNCHANGED <<impl, client, pipe, log>>
  PROVE  ProcessInv'
<1>1. child'.state = s
  BY DEF ProcessInv, ClientTypes
<1>2. ClientTypes'
  BY DEF ProcessInv, ClientTypes
<1>3. /\ StagesFit' /\ Process!StrangersAreSafe' /\ OutputIsRead' /\ JoinIsDone'
  BY DEF ProcessInv, StagesFit, OutputIsRead, JoinIsDone, Process!StrangersAreSafe,
         Process!OutputReadBeforeClose, Process!Windows
<1>4. ChildIsKnown'
  BY <1>1 DEF ProcessInv, ChildIsKnown, Ended, Process!Underway, Process!Alive
<1> QED
  BY <1>2, <1>3, <1>4 DEF ProcessInv

(* A step that only the pipe to the child feels *)
LEMMA Unmoved ==
  ASSUME ProcessInv, UNCHANGED <<impl, client, log, child>>, pipe'.out = pipe.out,
         ClientTypes'
  PROVE  ProcessInv'
BY DEF ProcessInv, StagesFit, ChildIsKnown, OutputIsRead, JoinIsDone, Ended,
       Process!StrangersAreSafe, Process!OutputReadBeforeClose, Process!Windows,
       Process!Underway

(* Start(), and what the child does on its own *)
LEMMA ChildKeeps ==
  ASSUME ProcessInv,
         \/ Process!StartLinux \/ Process!StartWindows
         \/ Process!ExecuteChildProcess \/ Process!ChildWrites
         \/ Process!ChildReads \/ Process!ChildExits
  PROVE  ProcessInv'
<1>1. CASE Process!StartLinux
  <2>1. /\ ~Process!Windows /\ ~Process!Underway /\ ~impl.destroyed
        /\ impl' = [impl EXCEPT !.started = TRUE, !.finished = FALSE, !.open = TRUE]
        /\ pipe' = [stdin |-> 0, out |-> 0] /\ client' = client
        /\ child' = [state |-> "forked", killed |-> FALSE, written |-> 0]
        /\ log.starts < MaxStarts /\ log' = [log EXCEPT !.starts = @ + 1]
    BY <1>1 DEF Process!StartLinux, Process!Launched, Process!Free,
       Process!NoChild, Process!EmptyPipes
  <2> QED
    BY <2>1, StartKeeps
<1>2. CASE Process!StartWindows
  <2>1. /\ Process!Windows /\ ~Process!Underway /\ ~impl.destroyed
        /\ client' = client
        /\ log.starts < MaxStarts /\ log' = [log EXCEPT !.starts = @ + 1]
    BY <1>2 DEF Process!StartWindows, Process!Launched, Process!Free
  <2>2. CASE UNCHANGED <<impl, pipe, client, child>>
    BY <2>1, <2>2, StartFails
  <2>3. CASE Process!Launched /\ child' = [Process!NoChild EXCEPT !.state = "running"]
    <3>1. /\ impl' = [impl EXCEPT !.started = TRUE, !.finished = FALSE, !.open = TRUE]
          /\ pipe' = [stdin |-> 0, out |-> 0] /\ client' = client
          /\ child' = [state |-> "running", killed |-> FALSE, written |-> 0]
      BY <2>3 DEF Process!Launched, Process!NoChild, Process!EmptyPipes
    <3> QED
      BY <2>1, <3>1, StartKeeps
  <2> QED
    BY <1>2, <2>2, <2>3 DEF Process!StartWindows
<1>3. CASE Process!ExecuteChildProcess
  BY <1>3, LivesOn DEF Process!ExecuteChildProcess, Process!Alive
<1>4. CASE Process!ChildWrites
  <2>1. CASE client.todo = <<"close">>
    BY <1>4, <2>1 DEF Process!ChildWrites, ProcessInv, ChildIsKnown, Ended
  <2>2. CASE client.todo # <<"close">>
    <3> DEFINE n == pipe.out + 1  m == child.written + 1
    <3>a. /\ n \in 0 .. PipeSize /\ pipe' = [pipe EXCEPT !.out = n]
          /\ m \in 0 .. MaxOutput /\ child' = [child EXCEPT !.written = m]
      BY <1>4, ConcurrentAssumption
      DEF ProcessInv, ClientTypes, Process!ChildWrites, Process!ProcessAssumption
    <3> HIDE DEF n, m
    <3>1. ClientTypes'
      BY <1>4, <3>a DEF ProcessInv, ClientTypes, Process!ChildWrites
    <3>2. /\ UNCHANGED <<impl, client, log>> /\ child'.state = child.state
      BY <1>4 DEF ProcessInv, ClientTypes, Process!ChildWrites
    <3>3. StagesFit' /\ JoinIsDone' /\ Process!StrangersAreSafe'
      BY <3>2 DEF ProcessInv, StagesFit, JoinIsDone, Process!StrangersAreSafe,
         Process!Windows
    <3>4. ChildIsKnown'
      BY <3>2 DEF ProcessInv, ChildIsKnown, Ended, Process!Underway
    <3>5. OutputIsRead'
      BY <2>2, <3>2 DEF ProcessInv, OutputIsRead, Process!OutputReadBeforeClose,
         Process!Windows
    <3> QED
      BY <3>1, <3>3, <3>4, <3>5 DEF ProcessInv
  <2> QED
    BY <2>1, <2>2
<1>5. CASE Process!ChildReads
    <3> DEFINE n == pipe.stdin - 1
    <3>a. n \in 0 .. PipeSize /\ pipe' = [pipe EXCEPT !.stdin = n]
      BY <1>5, ConcurrentAssumption
      DEF ProcessInv, ClientTypes, Process!ChildReads, Process!ProcessAssumption
    <3> HIDE DEF n
    <3>1. ClientTypes'
      BY <1>5, <3>a DEF ProcessInv, ClientTypes, Process!ChildReads
    <3>2. /\ UNCHANGED <<impl, client, log, child>> /\ pipe'.out = pipe.out
      BY <1>5 DEF ProcessInv, ClientTypes, Process!ChildReads
    <3> QED
      BY <3>1, <3>2, Unmoved
<1>6. CASE Process!ChildExits
  BY <1>6, LivesOn DEF Process!ChildExits
<1> QED
  BY <1>1, <1>2, <1>3, <1>4, <1>5, <1>6

(* A step of a call changes nothing that the invariant knows of the child   *)
(* and the process object, or says itself why it may.                       *)
LEMMA Progress ==
  ASSUME ProcessInv, ClientTypes', StagesFit', client'.stage = client.stage,
         /\ impl'.platform = impl.platform /\ impl'.started = impl.started
         /\ impl'.finished = impl.finished /\ impl'.open = impl.open
         /\ impl'.destroyed = impl.destroyed,
         child'.state = child.state,
         log'.lost = log.lost, log'.stranger # "destructor",
         log.impatient => log'.impatient,
         client'.result => Ended,
         client'.todo \in {<<"pump", "close">>, <<"close">>} => Ended,
         client'.todo # <<"ask", "wait", "kill">>,
         Process!Windows /\ client'.todo = <<"close">> => pipe'.out = 0,
         client.stage = "join" /\ client'.todo = <<>> =>
           client.todo = <<>> \/ log'.impatient
  PROVE  ProcessInv'
<1>1. ChildIsKnown'
  BY DEF ProcessInv, ChildIsKnown, Ended
<1>2. OutputIsRead'
  BY DEF ProcessInv, OutputIsRead, Process!OutputReadBeforeClose, Process!Windows
<1>3. JoinIsDone'
  BY DEF ProcessInv, JoinIsDone
<1> QED
  BY <1>1, <1>2, <1>3 DEF ProcessInv, Process!StrangersAreSafe

(* What a step of a call leaves to be done fits the stage. *)
LEMMA PlanFits ==
  ASSUME ProcessInv, NEW u, client'.stage = client.stage, client'.todo = u,
         impl'.platform = impl.platform,
         \/ u = <<>> /\ client.todo # <<"destroy">>
         \/ client.todo \in {<<"wait">>, <<"loop">>} /\ u = <<"loop">>
         \/ client.todo \in {<<"ask", "wait", "kill">>} /\ u = <<"wait", "kill">>
         \/ /\ client.todo \in {<<"wait", "kill">>, <<"loop", "kill">>}
            /\ u \in {<<"loop", "kill">>, <<"kill">>}
         \/ /\ client.todo \in {<<"wait", "timeout", "close">>,
                                <<"loop", "timeout", "close">>}
            /\ u \in {<<"loop", "timeout", "close">>, <<"timeout", "close">>}
         \/ /\ client.todo \in {<<"poll", "timeout", "pump", "close">>,
                                <<"loop", "timeout", "pump", "close">>}
            /\ u \in {<<"loop", "timeout", "pump", "close">>,
                      <<"timeout", "pump", "close">>}
         \/ client.todo = <<"timeout", "close">> /\ u = <<"close">>
         \/ client.todo = <<"timeout", "pump", "close">> /\ u = <<"pump", "close">>
         \/ client.todo = <<"pump", "close">> /\ u = <<"close">>
  PROVE  StagesFit' /\ u \in Plans
<1>1. u \in Plans
  BY DEF Plans, JoinTodos, KillTodos
<1>2. (client.stage = "kill" => client.todo \in KillTodos \cup {<<>>})'
  <2>1. client.stage = "kill" => client.todo \in KillTodos \cup {<<>>}
    BY DEF ProcessInv, StagesFit
  <2>2. client.todo \in KillTodos \cup {<<>>} => u \in KillTodos \cup {<<>>}
    BY DEF KillTodos
  <2> QED
    BY <2>1, <2>2
<1>3. (client.stage = "join" => client.todo \in JoinTodos \cup {<<>>})'
  <2>1. client.stage = "join" => client.todo \in JoinTodos \cup {<<>>}
    BY DEF ProcessInv, StagesFit
  <2>2. client.todo \in JoinTodos \cup {<<>>} => u \in JoinTodos \cup {<<>>}
    BY DEF JoinTodos
  <2> QED
    BY <2>1, <2>2
<1>4. (client.stage = "end" <=> client.todo = <<"destroy">>)'
  <2>1. u # <<"destroy">>
    OBVIOUS
  <2>2. client.todo # <<"destroy">>
    OBVIOUS
  <2> QED
    BY <2>1, <2>2 DEF ProcessInv, StagesFit
<1>5. Process!Windows => u \notin LinuxTodos
  <2>1. Process!Windows => client.todo \notin LinuxTodos
    BY DEF ProcessInv, StagesFit
  <2> QED
    BY <2>1 DEF LinuxTodos
<1>6. (Process!Windows => client.todo \notin LinuxTodos)'
  BY <1>5 DEF Process!Windows
<1> QED
  BY <1>1, <1>2, <1>3, <1>4, <1>6 DEF StagesFit
(* Write() *)
LEMMA WriteKeeps ==
  ASSUME ProcessInv, Process!WriteLinux \/ Process!WriteWindows
  PROVE  ProcessInv'
<1>1. /\ client.todo = <<"write">> /\ client' = [client EXCEPT !.todo = <<>>]
      /\ UNCHANGED <<impl, child, log>>
      /\ \E n \in 0 .. PipeSize : pipe' = [pipe EXCEPT !.stdin = n]
  <2>1. /\ client.todo # <<>> /\ Head(client.todo) = "write"
        /\ client' = [client EXCEPT !.todo = Tail(client.todo)]
        /\ UNCHANGED <<impl, child, log>>
    BY DEF Process!WriteLinux, Process!WriteWindows, Process!At, Process!Goes,
       Process!Rest
  <2>2. \E n \in 0 .. PipeSize : pipe' = [pipe EXCEPT !.stdin = n]
    <3>1. pipe = [pipe EXCEPT !.stdin = pipe.stdin] /\ pipe.stdin \in 0 .. PipeSize
      BY DEF ProcessInv, ClientTypes
    <3>2. pipe.stdin < PipeSize => pipe.stdin + 1 \in 0 .. PipeSize
      BY <3>1, ConcurrentAssumption DEF Process!ProcessAssumption
    <3>3. CASE pipe' = pipe
      BY <3>1, <3>3
    <3>4. CASE pipe.stdin < PipeSize /\ pipe' = [pipe EXCEPT !.stdin = @ + 1]
      BY <3>2, <3>4
    <3> QED
      BY <3>3, <3>4 DEF Process!WriteLinux, Process!WriteWindows
  <2>3. client.todo = <<"write">>
    BY <2>1, PlanHeads, Fields DEF ProcessInv
  <2>4. client' = [client EXCEPT !.todo = <<>>]
    BY <2>1, <2>3, PlanTails
  <2> QED
    BY <2>1, <2>2, <2>3, <2>4
<1>2. /\ client'.todo = <<>> /\ client'.stage = client.stage
      /\ client'.result = client.result /\ pipe'.out = pipe.out
  BY <1>1 DEF ProcessInv, ClientTypes
<1>3. StagesFit'
  BY <1>1, <1>2, PlanFits
<1>4. ClientTypes'
  BY <1>1 DEF ProcessInv, ClientTypes, Plans
<1>5. client.result => Ended
  BY <1>1 DEF ProcessInv, ChildIsKnown, Process!Underway
<1>6. client.stage # "join"
  BY <1>1 DEF ProcessInv, StagesFit, JoinTodos
<1> QED
  BY <1>1, <1>2, <1>3, <1>4, <1>5, <1>6, Progress
  DEF ProcessInv, Process!StrangersAreSafe

(* Wait(), and the beginning of the same loop in Join() on Windows *)
LEMMA BeginWaitKeeps ==
  ASSUME ProcessInv, Process!BeginWait
  PROVE  ProcessInv'
<1>1. /\ client.todo # <<>> /\ Head(client.todo) = "wait"
      /\ UNCHANGED <<child, pipe, log>>
  BY DEF Process!BeginWait, Process!At
<1>2. client.result => Ended
  BY <1>1 DEF ProcessInv, ChildIsKnown, Process!Underway
<1> DEFINE u == Tail(client.todo)  v == <<"loop">> \o u
<1>3. /\ client.todo \in {<<"wait">>, <<"wait", "kill">>, <<"wait", "timeout", "close">>}
      /\ \/ client.todo = <<"wait">> /\ u = <<>> /\ v = <<"loop">>
         \/ client.todo = <<"wait", "kill">> /\ u = <<"kill">> /\ v = <<"loop", "kill">>
         \/ /\ client.todo = <<"wait", "timeout", "close">>
            /\ u = <<"timeout", "close">> /\ v = <<"loop", "timeout", "close">>
  BY <1>1, PlanHeads, PlanTails, Loops, Fields DEF ProcessInv
<1> HIDE DEF u, v
<1>4. CASE /\ impl.finished /\ impl' = impl
           /\ client' = [client EXCEPT !.todo = u, !.result = TRUE]
  <2>1. /\ client'.todo = u /\ client'.stage = client.stage /\ client'.result
    BY <1>4 DEF ProcessInv, ClientTypes
  <2>2. StagesFit' /\ u \in Plans
    BY <1>3, <1>4, <2>1, PlanFits
  <2>3. ClientTypes'
    BY <1>1, <1>4, <2>2 DEF ProcessInv, ClientTypes
  <2>4. Ended
    BY <1>4 DEF ProcessInv, ChildIsKnown, Ended
  <2>5. u \notin {<<"pump", "close">>, <<"close">>, <<"ask", "wait", "kill">>}
    BY <1>3
  <2>6. client.stage = "join" => u # <<>>
    BY <1>3 DEF ProcessInv, StagesFit, JoinTodos
  <2> QED
    BY <1>1, <1>4, <2>1, <2>2, <2>3, <2>4, <2>5, <2>6, Progress
    DEF ProcessInv, Process!StrangersAreSafe
<1>5. CASE /\ impl' = [impl EXCEPT !.masked = @ \/ ~Process!Windows]
           /\ client' = [client EXCEPT !.todo = v, !.phase = "pump", !.patience = TRUE]
  <2>1. /\ client'.todo = v /\ client'.stage = client.stage
        /\ client'.result = client.result
    BY <1>5 DEF ProcessInv, ClientTypes
  <2>2. /\ impl'.platform = impl.platform /\ impl'.started = impl.started
        /\ impl'.finished = impl.finished /\ impl'.open = impl.open
        /\ impl'.destroyed = impl.destroyed
    BY <1>5 DEF ProcessInv, ClientTypes
  <2>3. StagesFit' /\ v \in Plans
    BY <1>3, <2>1, <2>2, PlanFits
  <2>4. ClientTypes'
    BY <1>1, <1>5, <2>3 DEF ProcessInv, ClientTypes
  <2>5. v \notin {<<>>, <<"pump", "close">>, <<"close">>, <<"ask", "wait", "kill">>}
    BY <1>3
  <2> QED
    BY <1>1, <1>2, <2>1, <2>2, <2>3, <2>4, <2>5, Progress
    DEF ProcessInv, Process!StrangersAreSafe
<1> QED
  BY <1>4, <1>5 DEF Process!BeginWait, Process!Rest, u, v

(* As above *)
LEMMA BeginJoinKeeps ==
  ASSUME ProcessInv, Process!BeginJoinWindows
  PROVE  ProcessInv'
<1>1. /\ client.todo # <<>> /\ Head(client.todo) = "poll"
      /\ UNCHANGED <<impl, child, pipe, log>>
      /\ client' = [client EXCEPT !.todo = <<"loop">> \o Tail(client.todo),
                                  !.phase = "look", !.patience = TRUE]
  BY DEF Process!BeginJoinWindows, Process!At, Process!Rest
<1>2. client.result => Ended
  BY <1>1 DEF ProcessInv, ChildIsKnown, Process!Underway
<1> DEFINE v == <<"loop", "timeout", "pump", "close">>
<1>3. /\ client.todo = <<"poll", "timeout", "pump", "close">>
      /\ client' = [client EXCEPT !.todo = v, !.phase = "look", !.patience = TRUE]
  BY <1>1, PlanHeads, PlanTails, Loops, Fields DEF ProcessInv
<1>4. v \notin {<<>>, <<"pump", "close">>, <<"close">>, <<"ask", "wait", "kill">>}
  OBVIOUS
<1>5. StagesFit' /\ v \in Plans /\ client'.todo = v /\ client'.stage = client.stage
      /\ client'.result = client.result
  <2>1. /\ client'.todo = v /\ client'.stage = client.stage
        /\ client'.result = client.result
    BY <1>3 DEF ProcessInv, ClientTypes
  <2> QED
    BY <1>1, <1>3, <2>1, PlanFits
<1> HIDE DEF v
<1>6. ClientTypes'
  BY <1>1, <1>3, <1>5 DEF ProcessInv, ClientTypes
<1> QED
  BY <1>1, <1>2, <1>4, <1>5, <1>6, Progress DEF ProcessInv, Process!StrangersAreSafe

(* The loop in Wait() and Join() *)
LEMMA LoopKeeps ==
  ASSUME ProcessInv,
         \/ Process!LoopPump \/ Process!LoopLook \/ Process!LoopTired
         \/ Process!PatienceElapses
  PROVE  ProcessInv'
<1>1. client.todo # <<>> /\ Head(client.todo) = "loop"
  BY DEF Process!LoopPump, Process!LoopLook, Process!LoopTired,
         Process!PatienceElapses, Process!At
<1>2. client.result => Ended
  BY <1>1 DEF ProcessInv, ChildIsKnown, Process!Underway
<1> DEFINE u == Tail(client.todo)
<1>3. \/ client.todo = <<"loop">> /\ u = <<>>
      \/ client.todo = <<"loop", "kill">> /\ u = <<"kill">>
      \/ client.todo = <<"loop", "timeout", "close">> /\ u = <<"timeout", "close">>
      \/ client.todo = <<"loop", "timeout", "pump", "close">> /\ u = <<"timeout", "pump", "close">>
  BY <1>1, PlanHeads, PlanTails, Fields DEF ProcessInv
<1> HIDE DEF u
<1>4. client.todo \notin {<<>>, <<"pump", "close">>, <<"close">>, <<"destroy">>,
                          <<"ask", "wait", "kill">>}
  BY <1>3
<1>5. u \notin {<<"pump", "close">>, <<"close">>, <<"ask", "wait", "kill">>}
  BY <1>3
<1>6. client.stage = "join" => u # <<>>
  <2>1. ASSUME client.todo = <<"loop">>  PROVE client.stage # "join"
    <3>1. client.todo \notin JoinTodos \cup {<<>>}
      BY <2>1 DEF JoinTodos
    <3> QED
      BY <3>1 DEF ProcessInv, StagesFit
  <2>2. ASSUME client.todo = <<"loop", "kill">>  PROVE client.stage # "join"
    <3>1. client.todo \notin JoinTodos \cup {<<>>}
      BY <2>2 DEF JoinTodos
    <3> QED
      BY <3>1 DEF ProcessInv, StagesFit
  <2> QED
    BY <1>3, <2>1, <2>2
<1>7. ASSUME NEW p \in {"pump", "look", "tired"}, NEW q \in BOOLEAN,
             client' = [client EXCEPT !.phase = p, !.patience = q],
             UNCHANGED <<impl, child, log>>,
             pipe' = pipe \/ pipe' = Process!Drained
      PROVE  ProcessInv'
  <2>1. /\ client'.todo = client.todo /\ client'.stage = client.stage
        /\ client'.result = client.result
    BY <1>7 DEF ProcessInv, ClientTypes
  <2>2. 0 \in 0 .. PipeSize
    BY ConcurrentAssumption DEF Process!ProcessAssumption
  <2>3. pipe' \in [stdin : 0 .. PipeSize, out : 0 .. PipeSize]
    <3>1. pipe' = pipe \/ pipe' = [pipe EXCEPT !.out = 0]
      BY <1>7 DEF Process!Drained
    <3> QED
      BY <2>2, <3>1 DEF ProcessInv, ClientTypes
  <2>7. client' \in [todo : Plans, stage : {"call", "kill", "join", "end"},
                     phase : {"pump", "look", "tired"}, result : BOOLEAN,
                     patience : BOOLEAN]
    BY <1>7 DEF ProcessInv, ClientTypes
  <2>5. ClientTypes'
    <3>1. UNCHANGED <<impl, child, log>>
      BY <1>7
    <3> QED
      BY <2>3, <2>7, <3>1 DEF ProcessInv, ClientTypes
  <2>4. StagesFit'
    BY <1>7, <2>1 DEF ProcessInv, StagesFit, Process!Windows
  <2> QED
    BY <1>2, <1>4, <1>7, <2>1, <2>4, <2>5, Progress
    DEF ProcessInv, Process!StrangersAreSafe
<1>8. ASSUME NEW r \in BOOLEAN, r => Ended,
             client' = [client EXCEPT !.todo = u, !.result = r],
             UNCHANGED <<impl, child, pipe, log>>
      PROVE  ProcessInv'
  <2>1. /\ client'.todo = u /\ client'.stage = client.stage /\ client'.result = r
    BY <1>8 DEF ProcessInv, ClientTypes
  <2>2. StagesFit' /\ u \in Plans
    BY <1>3, <1>4, <1>8, <2>1, PlanFits
  <2>3. ClientTypes'
    BY <1>8, <2>2 DEF ProcessInv, ClientTypes
  <2> QED
    BY <1>5, <1>6, <1>8, <2>1, <2>2, <2>3, Progress
    DEF ProcessInv, Process!StrangersAreSafe
<1>9. CASE Process!LoopPump
  <2>1. client' = [client EXCEPT !.phase = "look", !.patience = client.patience]
        /\ client.patience \in BOOLEAN
    BY <1>9 DEF Process!LoopPump, ProcessInv, ClientTypes
  <2> QED
    BY <1>7, <1>9, <2>1 DEF Process!LoopPump
<1>10. CASE Process!LoopLook
  <2>1. CASE child.state # "exited"
    <3>1. client' = [client EXCEPT !.phase = "tired", !.patience = client.patience]
          /\ client.patience \in BOOLEAN
      BY <1>10, <2>1 DEF Process!LoopLook, ProcessInv, ClientTypes
    <3> QED
      BY <1>7, <1>10, <2>1, <3>1 DEF Process!LoopLook
  <2>2. CASE child.state = "exited" /\ Process!Windows
    BY <1>8, <1>10, <2>2 DEF Process!LoopLook, Process!Rest, Ended, u
  <2>3. CASE child.state = "exited" /\ ~Process!Windows
    <3>1. /\ child' = [child EXCEPT !.state = "gone"]
          /\ impl' = [impl EXCEPT !.finished = TRUE]
          /\ client' = [client EXCEPT !.todo = u, !.result = TRUE]
          /\ UNCHANGED <<pipe, log>>
      BY <1>10, <2>3 DEF Process!LoopLook, Process!Reaped, Process!Rest, u
    <3>2. /\ client'.todo = u /\ client'.stage = client.stage /\ client'.result
          /\ child'.state = "gone" /\ impl'.platform = impl.platform
          /\ impl'.started = impl.started /\ impl'.open = impl.open
          /\ impl'.finished /\ impl'.destroyed = impl.destroyed
      BY <3>1 DEF ProcessInv, ClientTypes
    <3>3. StagesFit' /\ u \in Plans
      BY <1>3, <1>4, <3>2, PlanFits
    <3>4. ClientTypes'
      BY <3>1, <3>3 DEF ProcessInv, ClientTypes
    <3>5. ChildIsKnown'
      BY <1>5, <2>3, <3>2 DEF ProcessInv, ChildIsKnown, Ended
    <3>6. OutputIsRead' /\ Process!StrangersAreSafe'
      BY <2>3, <3>1, <3>2 DEF ProcessInv, OutputIsRead, Process!Windows,
         Process!OutputReadBeforeClose, Process!StrangersAreSafe
    <3>7. JoinIsDone'
      BY <1>6, <3>1, <3>2 DEF ProcessInv, JoinIsDone
    <3> QED
      BY <3>3, <3>4, <3>5, <3>6, <3>7 DEF ProcessInv
  <2> QED
    BY <2>1, <2>2, <2>3
<1>11. CASE Process!LoopTired
  <2>1. CASE client.patience
    <3>1. client' = [client EXCEPT !.phase = "pump", !.patience = client.patience]
          /\ client.patience \in BOOLEAN
      BY <1>11, <2>1 DEF Process!LoopTired, ProcessInv, ClientTypes
    <3> QED
      BY <1>7, <1>11, <3>1 DEF Process!LoopTired
  <2>2. CASE ~client.patience
    BY <1>8, <1>11, <2>2 DEF Process!LoopTired, Process!Rest, u
  <2> QED
    BY <2>1, <2>2
<1>12. CASE Process!PatienceElapses
  <2>1. client' = [client EXCEPT !.phase = client.phase, !.patience = FALSE]
        /\ client.phase \in {"pump", "look", "tired"}
    BY <1>12 DEF Process!PatienceElapses, ProcessInv, ClientTypes
  <2> QED
    BY <1>7, <1>12, <2>1 DEF Process!PatienceElapses
<1> QED
  BY <1>9, <1>10, <1>11, <1>12

(* Kill() *)
LEMMA KillKeeps ==
  ASSUME ProcessInv, Process!Ask \/ Process!KillProcess
  PROVE  ProcessInv'
<1>1. client.todo # <<>> /\ UNCHANGED <<impl, pipe>>
  BY DEF Process!Ask, Process!KillProcess, Process!At
<1>2. client.result => Ended
  BY <1>1 DEF ProcessInv, ChildIsKnown, Process!Underway
<1>3. CASE Process!Ask
  <2>1. client.todo = <<"ask", "wait", "kill">> /\ Tail(client.todo) = <<"wait", "kill">>
    BY <1>1, <1>3, PlanHeads, PlanTails, Fields DEF Process!Ask, Process!At, ProcessInv
  <2>2. PICK u \in {<<>>, <<"wait", "kill">>} : client' = [client EXCEPT !.todo = u]
    BY <1>3, <2>1 DEF Process!Ask, Process!Goes, Process!Throws, Process!Rest
  <2>3. /\ client'.todo = u /\ client'.stage = client.stage
        /\ client'.result = client.result
    BY <2>2 DEF ProcessInv, ClientTypes
  <2>4. StagesFit' /\ u \in Plans
    BY <1>1, <2>1, <2>2, <2>3, PlanFits
  <2>5. /\ child' = child
        /\ \/ log' = log
           \/ client.stage = "call" /\ log' = [log EXCEPT !.stranger = "Kill"]
    BY <1>3, <2>1
    DEF Process!Ask, ProcessInv, StagesFit, ChildIsKnown, KillTodos, JoinTodos, ClientTypes
  <2>6. ClientTypes'
    BY <1>1, <2>2, <2>4, <2>5 DEF ProcessInv, ClientTypes
  <2>7. log'.lost = log.lost /\ log'.stranger # "destructor"
        /\ log'.impatient = log.impatient
    BY <2>5 DEF ProcessInv, ClientTypes, Process!StrangersAreSafe
  <2>8. u \notin {<<"pump", "close">>, <<"close">>, <<"ask", "wait", "kill">>}
    BY <2>2
  <2>9. client.stage # "join"
    BY <2>1 DEF ProcessInv, StagesFit, JoinTodos
  <2> QED
    BY <1>1, <1>2, <2>3, <2>4, <2>5, <2>6, <2>7, <2>8, <2>9, Progress
<1>4. CASE Process!KillProcess
  <2>1. client.todo = <<"kill">> /\ Tail(client.todo) = <<>>
    BY <1>1, <1>4, PlanHeads, PlanTails, Fields DEF Process!KillProcess, Process!At, ProcessInv
  <2>2. client' = [client EXCEPT !.todo = <<>>] /\ log' = log
    BY <1>4, <2>1 DEF Process!KillProcess, Process!Goes, Process!Throws, Process!Rest
  <2>3. /\ client'.todo = <<>> /\ client'.stage = client.stage
        /\ client'.result = client.result
    BY <2>2 DEF ProcessInv, ClientTypes
  <2>4. StagesFit'
    BY <1>1, <2>1, <2>3, PlanFits
  <2>5. child' = child \/ child' = [child EXCEPT !.killed = TRUE]
    BY <1>4 DEF Process!KillProcess
  <2>6. child'.state = child.state
    BY <2>5 DEF ProcessInv, ClientTypes
  <2>7. ClientTypes'
    BY <1>1, <2>2, <2>5 DEF ProcessInv, ClientTypes, Plans
  <2>8. client.stage # "join"
    BY <2>1 DEF ProcessInv, StagesFit, JoinTodos
  <2> QED
    BY <1>1, <1>2, <2>2, <2>3, <2>4, <2>6, <2>7, <2>8, Progress
    DEF ProcessInv, Process!StrangersAreSafe
<1> QED
  BY <1>3, <1>4

(* The end of Join() *)
LEMMA JoinKeeps ==
  ASSUME ProcessInv,
         Process!ThrowTimeout \/ Process!PumpBeforeClose \/ Process!Close
  PROVE  ProcessInv'
<1>1. client.todo # <<>>
  BY DEF Process!ThrowTimeout, Process!PumpBeforeClose, Process!Close, Process!At
<1>2. client.result => Ended
  BY <1>1 DEF ProcessInv, ChildIsKnown, Process!Underway
<1>3. CASE Process!ThrowTimeout
  <2> DEFINE u == Tail(client.todo)
  <2>1. \/ client.todo = <<"timeout", "close">> /\ u = <<"close">>
        \/ client.todo = <<"timeout", "pump", "close">> /\ u = <<"pump", "close">>
    BY <1>1, <1>3, PlanHeads, PlanTails, Fields
    DEF Process!ThrowTimeout, Process!At, ProcessInv
  <2> HIDE DEF u
  <2>2. /\ UNCHANGED <<impl, child, pipe>>
        /\ \/ client.result /\ client' = [client EXCEPT !.todo = u] /\ log' = log
           \/ /\ client' = [client EXCEPT !.todo = <<>>]
              /\ log' = [log EXCEPT !.impatient = TRUE]
    BY <1>3 DEF Process!ThrowTimeout, Process!Goes, Process!Throws, Process!Rest, u
  <2>3. PICK w \in {u, <<>>} :
          /\ client' = [client EXCEPT !.todo = w]
          /\ w = u => client.result /\ log' = log
          /\ w = <<>> => log' = [log EXCEPT !.impatient = TRUE]
    BY <2>1, <2>2
  <2>4. /\ client'.todo = w /\ client'.stage = client.stage
        /\ client'.result = client.result
    BY <2>3 DEF ProcessInv, ClientTypes
  <2>5. StagesFit' /\ w \in Plans
    BY <2>1, <2>2, <2>3, <2>4, PlanFits
  <2>6. w # <<>> => w = u
    BY <2>3
  <2>7. /\ log'.lost = log.lost /\ log'.stranger # "destructor"
        /\ log.impatient => log'.impatient
        /\ w = <<>> => log'.impatient
    BY <2>3, <2>6 DEF ProcessInv, ClientTypes, Process!StrangersAreSafe
  <2>8. ClientTypes'
    BY <2>2, <2>3, <2>5, <2>6 DEF ProcessInv, ClientTypes
  <2>9. w # <<"ask", "wait", "kill">>
    BY <2>1, <2>3
  <2>10. ~(Process!Windows /\ w = <<"close">>)
    <3>1. w = <<"close">> => client.todo = <<"timeout", "close">>
      BY <2>1, <2>6
    <3> QED
      BY <3>1 DEF ProcessInv, StagesFit, LinuxTodos
  <2>11. w \in {<<"pump", "close">>, <<"close">>} => Ended
    BY <1>2, <2>3, <2>6
  <2> QED
    BY <1>2, <2>2, <2>4, <2>5, <2>7, <2>8, <2>9, <2>10, <2>11, Progress
<1>4. CASE Process!PumpBeforeClose
  <2>1. client.todo = <<"pump", "close">> /\ Tail(client.todo) = <<"close">>
    BY <1>1, <1>4, PlanHeads, PlanTails, Fields
    DEF Process!PumpBeforeClose, Process!At, ProcessInv
  <2>2. /\ client' = [client EXCEPT !.todo = <<"close">>]
        /\ pipe' = [pipe EXCEPT !.out = 0] /\ UNCHANGED <<impl, child, log>>
    BY <1>4, <2>1
    DEF Process!PumpBeforeClose, Process!Goes, Process!Rest, Process!Drained
  <2>3. /\ client'.todo = <<"close">> /\ client'.stage = client.stage
        /\ client'.result = client.result /\ pipe'.out = 0
    BY <2>2 DEF ProcessInv, ClientTypes
  <2>4. StagesFit' /\ <<"close">> \in Plans
    BY <2>1, <2>2, <2>3, PlanFits
  <2>5. 0 \in 0 .. PipeSize
    BY ConcurrentAssumption DEF Process!ProcessAssumption
  <2>6. ClientTypes'
    BY <2>2, <2>4, <2>5 DEF ProcessInv, ClientTypes
  <2>7. Ended
    BY <2>1 DEF ProcessInv, ChildIsKnown
  <2>8. <<"close">> # <<>> /\ <<"close">> # <<"ask", "wait", "kill">>
    OBVIOUS
  <2> QED
    BY <2>2, <2>3, <2>4, <2>6, <2>7, <2>8, Progress
    DEF ProcessInv, Process!StrangersAreSafe
<1>5. CASE Process!Close
  <2>1. client.todo = <<"close">> /\ Tail(client.todo) = <<>>
    BY <1>1, <1>5, PlanHeads, PlanTails, Fields DEF Process!Close, Process!At, ProcessInv
  <2>2. /\ impl' = [impl EXCEPT !.started = FALSE, !.finished = FALSE, !.open = FALSE]
        /\ child' = [child EXCEPT !.state = "gone"]
        /\ log' = [log EXCEPT !.lost = @ + pipe.out]
        /\ pipe' = [stdin |-> 0, out |-> 0]
        /\ client' = [client EXCEPT !.todo = <<>>]
    BY <1>5, <2>1
    DEF Process!Close, Process!Goes, Process!Throws, Process!Rest, Process!EmptyPipes
  <2>3. /\ client'.todo = <<>> /\ client'.stage = client.stage
        /\ impl'.started = FALSE /\ impl'.finished = FALSE /\ impl'.open = FALSE
        /\ impl'.platform = impl.platform
        /\ child'.state = "gone" /\ log'.stranger = log.stranger
        /\ log'.lost = log.lost + pipe.out
    BY <2>2 DEF ProcessInv, ClientTypes
  <2>4. StagesFit' /\ <<>> \in Plans
    BY <2>1, <2>3, PlanFits
  <2>5. 0 \in 0 .. PipeSize /\ log.lost + pipe.out \in Nat
    BY ConcurrentAssumption DEF Process!ProcessAssumption, ProcessInv, ClientTypes
  <2>6. ClientTypes'
    <3> DEFINE n == log.lost + pipe.out
    <3>1. log' = [log EXCEPT !.lost = n] /\ n \in Nat
      BY <2>2, <2>5
    <3> HIDE DEF n
    <3> QED
      BY <2>2, <2>4, <2>5, <3>1 DEF ProcessInv, ClientTypes
  <2>7. ChildIsKnown'
    <3>1. <<>> # <<"ask", "wait", "kill">>
      OBVIOUS
    <3> QED
      BY <2>3, <3>1 DEF ChildIsKnown, Ended
  <2>8. OutputIsRead'
    <3>1. Process!Windows => log.lost = 0 /\ pipe.out = 0
      BY <2>1 DEF ProcessInv, ClientTypes, OutputIsRead, Process!OutputReadBeforeClose
    <3>2. Process!Windows => log'.lost = 0
      BY <2>3, <3>1
    <3> QED
      BY <2>3, <3>2 DEF OutputIsRead, Process!Windows, Process!OutputReadBeforeClose
  <2>9. JoinIsDone' /\ Process!StrangersAreSafe'
    BY <2>3 DEF ProcessInv, JoinIsDone, Process!StrangersAreSafe
  <2> QED
    BY <2>4, <2>6, <2>7, <2>8, <2>9 DEF ProcessInv
<1> QED
  BY <1>3, <1>4, <1>5

(* What the steps of Join() and the end of the destructor are not *)
LEMMA JoinsAre ==
  /\ Process!Joins \in Plans /\ Process!Joins \in JoinTodos
  /\ Process!Windows => Process!Joins \notin LinuxTodos
  /\ Process!Joins \notin {<<>>, <<"pump", "close">>, <<"close">>, <<"destroy">>}
<1>1. Process!Joins # <<"destroy">>
  BY DEF Process!Joins, Process!JoinSteps, Process!JoinStepsWindows
<1> QED
  BY <1>1, Begins DEF Plans

(* As above *)
LEMMA DestroyIs ==
  /\ <<"destroy">> \in Plans /\ <<"destroy">> \notin LinuxTodos
  /\ <<"destroy">> \notin {<<>>, <<"pump", "close">>, <<"close">>}
BY DEF Plans, LinuxTodos

(* Between calls: a call begins, or is over at once. *)
LEMMA CallsKeep ==
  ASSUME ProcessInv,
         Process!Call \/ Process!PumpOutputStreams \/ Process!IsRunningLinux
  PROVE  ProcessInv'
<1>1. client.todo = <<>> /\ client.stage = "call" /\ ~impl.destroyed
  BY DEF Process!Call, Process!PumpOutputStreams, Process!IsRunningLinux,
         Process!Free, Process!Underway
<1>2. CASE Process!PumpOutputStreams
  <2>1. pipe' = [pipe EXCEPT !.out = 0] /\ UNCHANGED <<impl, client, child, log>>
    BY <1>2 DEF Process!PumpOutputStreams, Process!Drained
  <2>2. 0 \in 0 .. PipeSize
    BY ConcurrentAssumption DEF Process!ProcessAssumption
  <2>3. ClientTypes'
    BY <2>1, <2>2 DEF ProcessInv, ClientTypes
  <2>4. StagesFit' /\ ChildIsKnown' /\ JoinIsDone' /\ Process!StrangersAreSafe'
    BY <2>1 DEF ProcessInv, StagesFit, ChildIsKnown, JoinIsDone, Ended,
       Process!StrangersAreSafe, Process!Windows, Process!Underway
  <2>5. OutputIsRead'
    BY <1>1, <2>1
    DEF ProcessInv, OutputIsRead, Process!OutputReadBeforeClose, Process!Windows
  <2> QED
    BY <2>3, <2>4, <2>5 DEF ProcessInv
<1>3. CASE Process!IsRunningLinux
  <2>1. /\ child' = [child EXCEPT !.state = "gone"]
        /\ impl' = [impl EXCEPT !.finished = TRUE]
        /\ impl.started /\ UNCHANGED <<client, pipe, log>>
    BY <1>3 DEF Process!IsRunningLinux, Process!Reaped
  <2>2. /\ child'.state = "gone" /\ impl'.finished /\ impl'.started
        /\ impl'.open = impl.open /\ impl'.platform = impl.platform
        /\ impl'.destroyed = impl.destroyed
    BY <2>1 DEF ProcessInv, ClientTypes
  <2>3. ClientTypes'
    BY <2>1 DEF ProcessInv, ClientTypes
  <2>4. StagesFit' /\ Process!StrangersAreSafe' /\ OutputIsRead'
    BY <2>1, <2>2 DEF ProcessInv, StagesFit, OutputIsRead, Process!Windows,
       Process!OutputReadBeforeClose, Process!StrangersAreSafe
  <2>5. ChildIsKnown'
    BY <1>1, <2>1, <2>2 DEF ProcessInv, ChildIsKnown, Ended
  <2>6. JoinIsDone'
    BY <1>1, <2>1, <2>2 DEF JoinIsDone
  <2> QED
    BY <2>3, <2>4, <2>5, <2>6 DEF ProcessInv
<1>4. CASE Process!Call
  <2>1. UNCHANGED <<impl, child, pipe, log>>
    BY <1>4 DEF Process!Call
  <2> DEFINE Begun ==
        \E w \in {"call", "kill", "join", "end"}, u \in Plans :
          /\ client' = [todo |-> u, stage |-> w, phase |-> "pump",
                        result |-> FALSE, patience |-> TRUE]
          /\ w = "kill" => u \in KillTodos /\ child.state # "gone"
          /\ w = "join" => u \in JoinTodos
          /\ w = "end" => ~impl.started
          /\ w = "end" <=> u = <<"destroy">>
          /\ Process!Windows => u \notin LinuxTodos
          /\ u \notin {<<>>, <<"pump", "close">>, <<"close">>}
  <2>2. Begun
    <3>1. ASSUME NEW u \in {<<"wait">>, <<"write">>}, Process!Calls(u)
          PROVE  Begun
      <4>1. /\ u \in Plans /\ u \notin LinuxTodos
            /\ u \notin {<<>>, <<"pump", "close">>, <<"close">>, <<"destroy">>}
        BY DEF Plans, LinuxTodos
      <4>2. client' = [todo |-> u, stage |-> "call", phase |-> "pump",
                       result |-> FALSE, patience |-> TRUE]
        BY <3>1 DEF Process!Calls, Process!Idle
      <4> QED
        BY <4>1, <4>2
    <3>2. CASE Process!Calls(Process!Joins)
      BY <3>2, JoinsAre DEF Process!Calls, Process!Idle
    <3>3. ASSUME NEW ask \in BOOLEAN, Process!Calls(Process!Kills(ask))
          PROVE  Begun
      <4>1. PICK u : u = Process!Kills(ask)
        OBVIOUS
      <4>2. u \in {<<"ask", "wait", "kill">>, <<"wait", "kill">>}
        BY <4>1, Begins
      <4>3. client' = [todo |-> u, stage |-> "call", phase |-> "pump",
                       result |-> FALSE, patience |-> TRUE]
        BY <3>3, <4>1 DEF Process!Calls, Process!Idle
      <4>4. /\ u \in Plans /\ u \notin LinuxTodos
            /\ u \notin {<<>>, <<"pump", "close">>, <<"close">>, <<"destroy">>}
        BY <4>2 DEF Plans, KillTodos, LinuxTodos
      <4> QED
        BY <4>3, <4>4
    <3>4. CASE Process!BeginDestructorLinux \/ Process!BeginDestructorWindows
      <4>1. CASE ~impl.started /\ Process!Enters("end", <<"destroy">>)
        BY <4>1, DestroyIs DEF Process!Enters, Process!Idle
      <4>2. CASE impl.started /\ Process!Enters("join", Process!Joins)
        BY <4>2, JoinsAre DEF Process!Enters, Process!Idle
      <4>3. CASE impl.started /\ child.state # "gone"
                 /\ Process!Enters("kill", Process!Kills(TRUE))
        <5>1. PICK u : u = Process!Kills(TRUE)
          OBVIOUS
        <5>2. u \in {<<"ask", "wait", "kill">>, <<"wait", "kill">>}
          BY <5>1, Begins
        <5>3. client' = [todo |-> u, stage |-> "kill", phase |-> "pump",
                         result |-> FALSE, patience |-> TRUE]
          BY <4>3, <5>1 DEF Process!Enters, Process!Idle
        <5>4. /\ u \in Plans /\ u \notin LinuxTodos /\ u \in KillTodos
              /\ u \notin {<<>>, <<"pump", "close">>, <<"close">>, <<"destroy">>}
          BY <5>2 DEF Plans, KillTodos, LinuxTodos
        <5> QED
          BY <4>3, <5>3, <5>4
      <4>4. impl.started /\ ~impl.finished => child.state # "gone"
        BY DEF ProcessInv, ChildIsKnown
      <4>5. Process!Alive => child.state # "gone"
        BY DEF Process!Alive
      <4> QED
        BY <3>4, <4>1, <4>2, <4>3, <4>4, <4>5
        DEF Process!BeginDestructorLinux, Process!BeginDestructorWindows,
            Process!BeginDestructor
    <3> QED
      BY <1>4, <3>1, <3>2, <3>3, <3>4 DEF Process!Call
  <2>9. PICK w \in {"call", "kill", "join", "end"}, u \in Plans :
          /\ client' = [todo |-> u, stage |-> w, phase |-> "pump",
                        result |-> FALSE, patience |-> TRUE]
          /\ w = "kill" => u \in KillTodos /\ child.state # "gone"
          /\ w = "join" => u \in JoinTodos
          /\ w = "end" => ~impl.started
          /\ w = "end" <=> u = <<"destroy">>
          /\ Process!Windows => u \notin LinuxTodos
          /\ u \notin {<<>>, <<"pump", "close">>, <<"close">>}
    BY <2>2
  <2>3. client'.todo = u /\ client'.stage = w /\ ~client'.result
    BY <2>9
  <2>4. ClientTypes'
    BY <2>1, <2>9 DEF ProcessInv, ClientTypes
  <2>5. StagesFit'
    BY <2>1, <2>9, <2>3 DEF StagesFit, Process!Windows
  <2>6. ChildIsKnown'
    BY <2>1, <2>9, <2>3 DEF ProcessInv, ChildIsKnown, Ended
  <2>7. OutputIsRead' /\ Process!StrangersAreSafe'
    BY <2>1, <2>9, <2>3 DEF ProcessInv, OutputIsRead, Process!Windows,
       Process!OutputReadBeforeClose, Process!StrangersAreSafe
  <2>8. JoinIsDone'
    BY <1>1, <2>1, <2>9, <2>3 DEF JoinIsDone
  <2> QED
    BY <2>4, <2>5, <2>6, <2>7, <2>8 DEF ProcessInv
<1> QED
  BY <1>2, <1>3, <1>4

(* The destructor goes on to its next stage, and to its end. *)
LEMMA DestructorKeeps ==
  ASSUME ProcessInv, Process!Catch \/ Process!Destroy
  PROVE  ProcessInv'
<1>1. CASE Process!Catch
  <2>1. client.todo = <<>> /\ UNCHANGED <<impl, child, pipe, log>>
    BY <1>1 DEF Process!Catch
  <2>2. PICK w \in {"join", "end"}, u \in Plans :
          /\ client' = [todo |-> u, stage |-> w, phase |-> "pump",
                        result |-> FALSE, patience |-> TRUE]
          /\ w = "join" => u \in JoinTodos
          /\ w = "end" => client.stage = "join"
          /\ w = "end" <=> u = <<"destroy">>
          /\ Process!Windows => u \notin LinuxTodos
          /\ u \notin {<<>>, <<"pump", "close">>, <<"close">>}
    <3>1. CASE Process!Enters("join", Process!Joins)
      BY <3>1, JoinsAre DEF Process!Enters, Process!Idle
    <3>2. CASE client.stage = "join" /\ Process!Enters("end", <<"destroy">>)
      BY <3>2, DestroyIs DEF Process!Enters, Process!Idle
    <3> QED
      BY <1>1, <3>1, <3>2 DEF Process!Catch
  <2>3. client'.todo = u /\ client'.stage = w /\ ~client'.result
    BY <2>2
  <2>4. ClientTypes'
    BY <2>1, <2>2 DEF ProcessInv, ClientTypes
  <2>5. StagesFit'
    BY <2>1, <2>2, <2>3 DEF StagesFit, Process!Windows
  <2>6. ChildIsKnown'
    BY <2>1, <2>2, <2>3 DEF ProcessInv, ChildIsKnown, Ended
  <2>7. OutputIsRead' /\ Process!StrangersAreSafe'
    BY <2>1, <2>2, <2>3 DEF ProcessInv, OutputIsRead, Process!Windows,
       Process!OutputReadBeforeClose, Process!StrangersAreSafe
  <2>8. JoinIsDone'
    BY <2>1, <2>2, <2>3 DEF ProcessInv, JoinIsDone
  <2> QED
    BY <2>4, <2>5, <2>6, <2>7, <2>8 DEF ProcessInv
<1>2. CASE Process!Destroy
  <2>1. /\ client.todo = <<"destroy">> /\ UNCHANGED <<child, pipe, log>>
        /\ impl' = [impl EXCEPT !.destroyed = TRUE]
        /\ client' = [todo |-> <<>>, stage |-> "call", phase |-> "pump",
                      result |-> FALSE, patience |-> TRUE]
    BY <1>2, PlanHeads, Fields
    DEF Process!Destroy, Process!At, Process!Idle, ProcessInv
  <2>2. /\ impl'.started = impl.started /\ impl'.finished = impl.finished
        /\ impl'.open = impl.open /\ impl'.platform = impl.platform
    BY <2>1 DEF ProcessInv, ClientTypes
  <2>3. client.stage = "end" \/ client.stage = "call"
    BY <2>1 DEF ProcessInv, ClientTypes, StagesFit, KillTodos, JoinTodos
  <2>4. ClientTypes'
    BY <2>1 DEF ProcessInv, ClientTypes, Plans
  <2>5. StagesFit'
    BY <2>1 DEF StagesFit, LinuxTodos
  <2>6. ChildIsKnown'
    BY <2>1, <2>2 DEF ProcessInv, ChildIsKnown, Ended
  <2>7. OutputIsRead' /\ Process!StrangersAreSafe'
    BY <2>1, <2>2 DEF ProcessInv, OutputIsRead, Process!Windows,
       Process!OutputReadBeforeClose, Process!StrangersAreSafe
  <2>8. JoinIsDone'
    BY <2>1, <2>2, <2>3 DEF ProcessInv, JoinIsDone, StagesFit
  <2> QED
    BY <2>4, <2>5, <2>6, <2>7, <2>8 DEF ProcessInv
<1> QED
  BY <1>1, <1>2

-----------------------------------------------------------------------------
(* Theorems *)

(* The other components leave the process alone. *)
LEMMA ProcessRests ==
  ASSUME ProcessInv, UNCHANGED processVars
  PROVE  ProcessInv'
BY DEF processVars, ProcessInv, ClientTypes, StagesFit, ChildIsKnown, Ended, OutputIsRead,
       JoinIsDone, Process!StrangersAreSafe, Process!OutputReadBeforeClose,
       Process!Windows, Process!Underway

(* The inductive invariant holds throughout every behaviour. *)
LEMMA ProcessInvariance ==
  FairSpec => []ProcessInv
<1>1. Init => ProcessInv
  BY ProcessBegins DEF Init
<1>2. ProcessInv /\ [Next]_vars => ProcessInv'
  <2>1. ProcessInv /\ Process!Next => ProcessInv'
    BY ChildKeeps, CallsKeep, WriteKeeps, BeginWaitKeeps, BeginJoinKeeps, LoopKeeps,
       KillKeeps, JoinKeeps, DestructorKeeps
    DEF Process!Next, Process!ClientStep
  <2> QED
    BY <2>1, ProcessRests DEF Next, OfEvent, OfServices, OfProcess, vars
<1> QED
  BY <1>1, <1>2, PTL DEF FairSpec

(* Process.Linux.cpp, Process.Windows.cpp: the destructor never signals a   *)
(* process that is not its child; on Windows all output is read before the  *)
(* pipes are closed; unless the last Join() timed out, the destructor leaves*)
(* no child and no open pipe; and Wait() tells the truth.                   *)
THEOREM ChildrenAreKept ==
  FairSpec => []ChildrenAreAccounted
<1>1. ProcessInv => ChildrenAreAccounted
  <2> SUFFICES ASSUME ProcessInv PROVE ChildrenAreAccounted
    OBVIOUS
  <2>1. Process!NothingLeftBehind
    BY DEF ProcessInv, JoinIsDone, ChildIsKnown, Process!NothingLeftBehind
  <2>2. Process!WaitIsRight
    <3>1. client.todo # <<>> /\ Head(client.todo) = "close" =>
            client.todo = <<"close">>
      BY PlanHeads, Fields DEF ProcessInv
    <3> QED
      BY <3>1 DEF ProcessInv, ChildIsKnown, Ended, Process!WaitIsRight, Process!At
  <2> QED
    BY <2>1, <2>2 DEF ProcessInv, OutputIsRead, ChildrenAreAccounted
<1> QED
  BY <1>1, ProcessInvariance, PTL

(* The flags of the process object agree with each other and with the child,*)
(* and no pipe holds more than it can.                                      *)
THEOREM ProcessIsTyped ==
  FairSpec => []Process!TypeOK
<1>1. ProcessInv => Process!TypeOK
  BY DEF ProcessInv, ClientTypes, ChildIsKnown, Process!TypeOK
<1> QED
  BY <1>1, ProcessInvariance, PTL

-----------------------------------------------------------------------------
(* All three components *)

(* Whatever is called in which order: every counter, reference, flag and    *)
(* mutex of the three components has a value that it is meant to have. No   *)
(* array of subscribers ever holds more than it has room for, even after    *)
(* one was put to use without a reference.                                  *)
THEOREM TypeCorrectness == FairSpec => []TypeOK
<1>1. Event!TypeOK /\ Services!TypeOK /\ Process!TypeOK => TypeOK
  BY DEF TypeOK
<1> QED
  BY <1>1, EventIsTyped, ServicesAreTyped, ProcessIsTyped, PTL
=============================================================================
