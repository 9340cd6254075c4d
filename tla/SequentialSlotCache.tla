------------------------- MODULE SequentialSlotCache -------------------------
(* Nuclex::Support::Collections::SequentialSlotCache: a cache whose keys    *)
(* are the numbers of its slots                                             *)
(* (Include/Nuclex/Support/Collections/SequentialSlotCache.h). IsOccupied   *)
(* is the slot holding its own number as its key.                           *)
EXTENDS RecencyList

CONSTANTS Value

VARIABLE slotted

SlottedAssumption ==
  /\ Slot # {} /\ IsFiniteSet(Slot) /\ Slot = 0..Cardinality(Slot) - 1
  /\ Null \notin Value /\ Null \notin Slot

Init == slotted = Vacant

IsOccupied(key) == slotted.key[key] = key

(* The value of an occupied slot is replaced. *)
Insert(key, value) ==
  slotted' = IF IsOccupied(key)
             THEN MakeMostRecentlyUsed([slotted EXCEPT !.value[key] = value], key)
             ELSE Occupy(slotted, key, key, value)

TryInsert(key, value) ==
  ~IsOccupied(key) /\ slotted' = Occupy(slotted, key, key, value)

(* Get() and TryGet() *)
Get(key) == IsOccupied(key) /\ slotted' = MakeMostRecentlyUsed(slotted, key)

TryTake(key) == IsOccupied(key) /\ slotted' = Removed(slotted, key)
TryRemove(key) == IsOccupied(key) /\ slotted' = Removed(slotted, key)

Clear == slotted' = Cleared(slotted)
EvictDownTo(count) == slotted' = EvictedDownTo(slotted, count)
EvictWhere(values) == slotted' = EvictedWhere(slotted, values)

Next ==
  \/ \E key \in Slot : Get(key) \/ TryTake(key) \/ TryRemove(key)
  \/ \E key \in Slot, value \in Value : Insert(key, value) \/ TryInsert(key, value)
  \/ Clear
  \/ \E count \in 0..Cardinality(Slot) : EvictDownTo(count)
  \/ \E values \in SUBSET Value : EvictWhere(values)

Spec == Init /\ [][Next]_slotted

-----------------------------------------------------------------------------
(* Properties *)

TypeOK == WellTyped(slotted, Slot, Value)

(* The list of the occupied slots is consistent. *)
ListConsistent == Consistent(slotted)

(* The cache implements an LRU cache with a single value for each key. *)
Lru == INSTANCE LruCache WITH Key <- Slot, entries <- Entries(slotted),
                              Capacity <- Cardinality(Slot)
ImplementsLruCache == Lru!Spec
=============================================================================
