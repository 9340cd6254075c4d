---------------------------- MODULE RecencyList ----------------------------
(* The doubly linked list that KeyedArrayCache and SequentialSlotCache keep *)
(* their occupied slots in, and the operations that both implement alike on *)
(* it. A cache is a record: "key" and "value" of each slot, its neighbours  *)
(* "less" and "more" recently used, the ends of the list and the count.     *)
EXTENDS Integers, Sequences, SequencesExt, FiniteSets

CONSTANTS Slot,  \* 0..capacity - 1
          Null   \* no slot; no key; no value

Vacant == [key |-> [s \in Slot |-> Null], value |-> [s \in Slot |-> Null],
           less |-> [s \in Slot |-> Null], more |-> [s \in Slot |-> Null],
           most |-> Null, least |-> Null, count |-> 0]

(* The slots of the list from the least recently used one on. *)
Order(c) ==
  LET walk[n \in 0..Cardinality(Slot)] ==
        IF n = 0 THEN <<>>
        ELSE LET walked == walk[n - 1]
                 next == IF walked = <<>> THEN c.least ELSE c.more[Last(walked)]
             IN IF next = Null THEN walked ELSE Append(walked, next)
  IN walk[Cardinality(Slot)]

(* What the list stands for. *)
Entries(c) ==
  [i \in DOMAIN Order(c) |-> [key |-> c.key[Order(c)[i]],
                              value |-> c.value[Order(c)[i]]]]

LinkMostRecentlyUsed(c, s) ==
  IF c.most = Null
  THEN [c EXCEPT !.less[s] = Null, !.more[s] = Null, !.least = s, !.most = s]
  ELSE [c EXCEPT !.less[s] = c.most, !.more[s] = Null, !.more[c.most] = s,
                 !.most = s]

UnlinkMostRecentlyUsed(c, s) ==
  LET older == c.less[s]  younger == c.more[s] IN
  [c EXCEPT !.least = IF older = Null THEN younger ELSE @,
            !.more = IF older = Null THEN @ ELSE [@ EXCEPT ![older] = younger],
            !.most = IF younger = Null THEN older ELSE @,
            !.less = IF younger = Null THEN @ ELSE [@ EXCEPT ![younger] = older]]

\* Mutant: a slot that is used again keeps its place in the list.
MakeMostRecentlyUsedNever(c, s) == c

(* The most recently used slot, and only it, has no younger neighbour. *)
MakeMostRecentlyUsed(c, s) ==
  IF c.more[s] = Null THEN c ELSE LinkMostRecentlyUsed(UnlinkMostRecentlyUsed(c, s), s)

Occupy(c, s, key, value) ==
  [LinkMostRecentlyUsed(c, s) EXCEPT
     !.key[s] = key, !.value[s] = value, !.count = @ + 1]

(* Values are destroyed; the pointers of their slots keep what they held. *)
Vacate(c, slots) ==
  [c EXCEPT !.key = [s \in Slot |-> IF s \in slots THEN Null ELSE @[s]],
            !.value = [s \in Slot |-> IF s \in slots THEN Null ELSE @[s]],
            !.count = @ - Cardinality(slots)]

Removed(c, s) == Vacate(UnlinkMostRecentlyUsed(c, s), {s})

Cleared(c) ==
  [Vacate(c, ToSet(Order(c))) EXCEPT !.count = 0, !.least = Null, !.most = Null]

(* The oldest slots are vacated without being unlinked one by one. *)
EvictedDownTo(c, count) ==
  LET drop == IF count < c.count THEN c.count - count ELSE 0
      rest == Vacate(c, ToSet(SubSeq(Order(c), 1, drop)))
  IN IF drop = Len(Order(c)) THEN [rest EXCEPT !.least = Null, !.most = Null]
     ELSE LET oldest == Order(c)[drop + 1] IN
          [rest EXCEPT !.less[oldest] = Null, !.least = oldest]

(* Some of the slots are removed one by one, in the order of a sequence. *)
RemovedOneByOne(c, sequence, gone) ==
  LET rest[i \in 0..Len(sequence)] ==
        IF i = 0 THEN c
        ELSE IF sequence[i] \in gone THEN Removed(rest[i - 1], sequence[i])
        ELSE rest[i - 1]
  IN rest[Len(sequence)]

(* The policy callback is asked about every value, from the oldest one on. *)
EvictedWhere(c, values) ==
  RemovedOneByOne(c, Order(c), {s \in Slot : c.value[s] \in values})

(* The list holds the occupied slots, count of them, linked in both ways.   *)
Consistent(c) ==
  LET order == Order(c) IN
  /\ c.count = Len(order) /\ ToSet(order) = {s \in Slot : c.key[s] # Null}
  /\ Cardinality(ToSet(order)) = Len(order)
  /\ c.most = IF order = <<>> THEN Null ELSE Last(order)
  /\ \A i \in DOMAIN order :
       c.less[order[i]] = IF i = 1 THEN Null ELSE order[i - 1]

WellTyped(c, keys, values) ==
  /\ c.key \in [Slot -> keys \union {Null}]
  /\ c.value \in [Slot -> values \union {Null}]
  /\ c.less \in [Slot -> Slot \union {Null}]
  /\ c.more \in [Slot -> Slot \union {Null}]
  /\ {c.most, c.least} \subseteq Slot \union {Null}
  /\ c.count \in 0..Cardinality(Slot)
=============================================================================
