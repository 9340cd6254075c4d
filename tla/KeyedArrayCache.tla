--------------------------- MODULE KeyedArrayCache ---------------------------
(* Nuclex::Support::Collections::KeyedArrayCache: a cache that searches its *)
(* slots for a key one after the other                                      *)
(* (Include/Nuclex/Support/Collections/KeyedArrayCache.h). It may hold      *)
(* several values under a key, of which lookups use the one in the lowest   *)
(* slot. Reading the count changes nothing.                                 *)
EXTENDS RecencyList

CONSTANTS Key, Value

VARIABLE keyed

KeyedAssumption ==
  /\ Slot # {} /\ IsFiniteSet(Slot) /\ Slot = 0..Cardinality(Slot) - 1
  /\ Null \notin Key /\ Null \notin Value /\ Null \notin Slot

Init == keyed = Vacant

Lowest(slots) == CHOOSE s \in slots : \A t \in slots : s <= t
Found(key) == {s \in Slot : keyed.key[s] = key}

(* The slot behind the occupied ones, if it is free, or the first free one. *)
FreeSlot ==
  IF keyed.key[keyed.count] = Null THEN keyed.count ELSE Lowest(Found(Null))

Insert(key, value) ==
  IF keyed.count < Cardinality(Slot)
  THEN keyed' = Occupy(keyed, FreeSlot, key, value)
  ELSE keyed' = MakeMostRecentlyUsed(
                  [keyed EXCEPT !.key[keyed.least] = key,
                                !.value[keyed.least] = value], keyed.least)

(* Get() and TryGet() *)
Get(key) ==
  Found(key) # {} /\ keyed' = MakeMostRecentlyUsed(keyed, Lowest(Found(key)))

TryTake(key) ==
  Found(key) # {} /\ keyed' = Removed(keyed, Lowest(Found(key)))

TryRemove(key) ==
  keyed' = RemovedOneByOne(keyed, [i \in 1..Cardinality(Slot) |-> i - 1], Found(key))

Clear == keyed' = Cleared(keyed)
EvictDownTo(count) == keyed' = EvictedDownTo(keyed, count)
EvictWhere(values) == keyed' = EvictedWhere(keyed, values)

Next ==
  \/ \E key \in Key : Get(key) \/ TryTake(key) \/ TryRemove(key)
  \/ \E key \in Key, value \in Value : Insert(key, value)
  \/ Clear
  \/ \E count \in 0..Cardinality(Slot) : EvictDownTo(count)
  \/ \E values \in SUBSET Value : EvictWhere(values)

Spec == Init /\ [][Next]_keyed

-----------------------------------------------------------------------------
(* Properties *)

TypeOK == WellTyped(keyed, Key, Value)

(* The list of the used slots is consistent. *)
ListConsistent == Consistent(keyed)

(* The cache implements an LRU cache. *)
Lru == INSTANCE LruCache WITH entries <- Entries(keyed), Capacity <- Cardinality(Slot)
ImplementsLruCache == Lru!Spec
=============================================================================
