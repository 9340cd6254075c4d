----------------------------- MODULE RingQueue -----------------------------
(* Nuclex::Support::Collections::RingQueue: a queue in a block of memory    *)
(* that its items wrap around in                                            *)
(* (Include/Nuclex/Support/Collections/RingQueue.h). The template has two   *)
(* versions of most methods. Items of kind "bytes" are copied with memcpy,  *)
(* so are "words", which take WordSize bytes each; "objects" have a copy    *)
(* constructor that may throw and a destructor.                             *)
(*                                                                          *)
(* Items are numbered in the order of their arrival, modulo Numbers, and    *)
(* "content" holds the ones that the queue has accepted and not handed out. *)
(* Some calls are executed wrongly by the code (see Mishandled); "intact"   *)
(* tells that no such call was made. Nothing is modelled after one.         *)
EXTENDS Integers, Sequences, SequencesExt

CONSTANTS InitialCapacity, \* a power of two
          WordSize,        \* sizeof(TItem) of "words", more than 1
          MaxCount,        \* bound: items of one call
          MaxItems,        \* bound: items in the queue
          Numbers          \* bound: how many items can be told apart

VARIABLE ring

RingAssumption ==
  /\ InitialCapacity \in Nat \ {0} /\ WordSize \in Nat \ {0, 1}
  /\ {MaxCount, MaxItems, Numbers} \subseteq Nat /\ Numbers > MaxItems

InvalidIndex == -1
Garbage == -1   \* memory without an item in it

(* BitTricks::GetUpperPowerOfTwo() *)
PowersOfTwo(n) ==
  LET power[k \in 0..n] == IF k = 0 THEN 1 ELSE 2 * power[k - 1]
  IN {power[k] : k \in 0..n}
UpperPowerOfTwo(value) ==
  CHOOSE p \in PowersOfTwo(value) : p >= value /\ p < 2 * value

Allocated(size) == [c \in 0..size - 1 |-> Garbage]

Init ==
  \E kind \in {"bytes", "words", "objects"} :
    ring = [kind |-> kind, cells |-> Allocated(InitialCapacity),
            capacity |-> InitialCapacity, startIndex |-> InvalidIndex,
            endIndex |-> InvalidIndex, content |-> <<>>, next |-> 0, intact |-> TRUE]

Empty(r) == r.startIndex = InvalidIndex
Linear(r) == ~Empty(r) /\ r.startIndex < r.endIndex
Wrapped(r) == ~Empty(r) /\ ~Linear(r)

Count(r) ==
  IF Empty(r) THEN 0
  ELSE IF Linear(r) THEN r.endIndex - r.startIndex
  ELSE r.endIndex + (r.capacity - r.startIndex)

(* Where the items are, the oldest one first. *)
Places(r) == [i \in 1..Count(r) |-> (r.startIndex + i - 1) % r.capacity]

(* memcpy(), or copy constructors one by one; what ends up outside of the   *)
(* allocated memory is not recorded.                                        *)
Put(cells, at, items) ==
  [c \in DOMAIN cells |->
     IF c - at + 1 \in DOMAIN items THEN items[c - at + 1] ELSE cells[c]]

(* Reading moves objects out and destroys them. What bytes and words leave  *)
(* behind is as good as garbage.                                            *)
Vacated(r, cells) ==
  [c \in DOMAIN r.cells |-> IF c \in cells THEN Garbage ELSE r.cells[c]]

-----------------------------------------------------------------------------
(* Write(). "items" are those that are copied before a copy constructor     *)
(* throws, "count" is what the caller asked for.                            *)

EmplaceInEmpty(r, items) ==
  [r EXCEPT !.cells = Put(@, 0, items),
            !.startIndex = IF items = <<>> THEN InvalidIndex ELSE 0,
            !.endIndex = Len(items)]

(* Behind the items there is room, or the free memory at the front is used. *)
EmplaceBehind(r, items) ==
  [r EXCEPT !.cells = Put(@, r.endIndex, items), !.endIndex = @ + Len(items)]

EmplaceAround(r, items) ==
  LET remaining == r.capacity - r.endIndex IN
  [r EXCEPT !.cells = Put(Put(@, r.endIndex, items), 0,
                          SubSeq(items, remaining + 1, Len(items))),
            !.endIndex = IF items = <<>> THEN @ ELSE Len(items) - remaining]

(* A larger block of memory. memcpy() is told the number of items instead   *)
(* of their size.                                                           *)
Copied(r, items) ==
  IF r.kind = "words" THEN SubSeq(items, 1, Len(items) \div WordSize) ELSE items

ReallocateWhenLinear(r, items, total) ==
  LET existing == [i \in 1..Count(r) |-> r.cells[r.startIndex + i - 1]]
      capacity == UpperPowerOfTwo(total)
  IN [r EXCEPT !.cells = Put(Put(Allocated(capacity), 0, Copied(r, existing)),
                             Count(r), Copied(r, items)),
               !.capacity = capacity, !.startIndex = 0,
               !.endIndex = Count(r) + Len(items)]

(* The first segment is read from endIndex on. For objects the old block is *)
(* never exchanged for the new one and items are moved out of uninitialized *)
(* memory, after which the memory holds nothing one could rely on.          *)
ReallocateWhenWrapped(r, items, total) ==
  LET segment == r.capacity - r.startIndex
      first == [i \in 1..segment |-> r.cells[(r.endIndex + i - 1) % r.capacity]]
      second == [i \in 1..r.endIndex |-> r.cells[i - 1]]
      capacity == UpperPowerOfTwo(total)
  IN [r EXCEPT !.cells =
                 IF r.kind = "objects" THEN Allocated(r.capacity)
                 ELSE Put(Put(Put(Allocated(capacity), 0, Copied(r, first)),
                              segment, Copied(r, second)),
                          segment + r.endIndex, Copied(r, items)),
               !.capacity = capacity, !.startIndex = 0, !.endIndex = total]

\* Mutant: one item too many is wrapped around, onto the oldest one.
FitsOnTop(r, count) == count - (r.capacity - r.endIndex) <= r.startIndex + 1

(* Objects are wrapped only if a gap remains, bytes and words also fill it. *)
FitsAround(r, count) ==
  LET wrapped == count - (r.capacity - r.endIndex) IN
  wrapped < r.startIndex + (IF r.kind = "objects" THEN 0 ELSE 1)

Written(r, items, count) ==
  CASE Empty(r) -> EmplaceInEmpty(
         IF count > r.capacity
         THEN [r EXCEPT !.cells = Allocated(r.capacity),
                        !.capacity = UpperPowerOfTwo(count)]
         ELSE r, items)
    [] Linear(r) /\ count <= r.capacity - r.endIndex -> EmplaceBehind(r, items)
    [] Linear(r) /\ count > r.capacity - r.endIndex ->
         IF FitsAround(r, count) THEN EmplaceAround(r, items)
         ELSE ReallocateWhenLinear(r, items, Count(r) + count)
    [] Wrapped(r) ->
         IF count <= r.startIndex - r.endIndex THEN EmplaceBehind(r, items)
         ELSE ReallocateWhenWrapped(r, items, Count(r) + count)

(* Calls to Write() that the code executes wrongly: the queue is empty and  *)
(* the memory allocated for many items is too small; memory grows while the *)
(* items are wrapped, or holds words; a copy constructor throws while the   *)
(* items are being wrapped around.                                          *)
WriteMishandled(r, items, count) ==
  \/ Empty(r) /\ count > r.capacity
  \/ /\ Linear(r) /\ count > r.capacity - r.endIndex
     /\ \/ r.kind = "words" /\ ~FitsAround(r, count)
        \/ /\ FitsAround(r, count) /\ Len(items) < count
           /\ r.endIndex < r.capacity \/ items # <<>>
  \/ /\ Wrapped(r) /\ count > r.startIndex - r.endIndex
     /\ r.kind # "bytes" \/ r.startIndex # r.endIndex

Arriving(n) == [i \in 1..n |-> (ring.next + i - 1) % Numbers]

Write(count, done) ==
  /\ ring.intact /\ Len(ring.content) + count <= MaxItems
  /\ done < count => ring.kind = "objects"
  /\ LET items == Arriving(done) IN
     ring' = [Written(ring, items, count) EXCEPT
                !.content = @ \o items,
                !.next = (@ + done) % Numbers,
                !.intact = ~WriteMishandled(ring, items, count)]

-----------------------------------------------------------------------------
(* Read(). Objects are handed out by an assignment that may throw, after    *)
(* "done" of them.                                                          *)

ExtractFromLinear(r, done) ==
  [r EXCEPT !.cells = Vacated(r, r.startIndex..r.startIndex + done - 1),
            !.startIndex = IF done = Count(r) THEN InvalidIndex ELSE @ + done]

(* The method for objects adds what is left of its loop counter, nothing.   *)
ExtractFromSegment(r, count, done) ==
  [r EXCEPT !.cells = Vacated(r, r.startIndex..r.startIndex + done - 1),
            !.startIndex = IF done < count THEN @ + done
                           ELSE IF count = r.capacity - r.startIndex THEN 0
                           ELSE IF r.kind = "objects" THEN @
                           ELSE @ + count]

ExtractFromBoth(r, count) ==
  LET rest == count - (r.capacity - r.startIndex) IN
  [r EXCEPT !.cells = Vacated(r, (r.startIndex..r.capacity - 1) \union (0..rest - 1)),
            !.startIndex = IF rest = r.endIndex THEN InvalidIndex
                           ELSE IF r.kind = "objects" THEN @ + count + rest
                           ELSE @ + rest]

(* Calls to Read() that the code executes wrongly: the start does not move  *)
(* behind the objects of a segment, or moves on from where it was instead   *)
(* of from the front; an exception between two segments is swallowed.       *)
ReadMishandled(r, count, done) ==
  LET segment == r.capacity - r.startIndex IN
  /\ Wrapped(r)
  /\ IF count <= segment THEN r.kind = "objects" /\ done = count /\ count < segment
     ELSE count < Count(r) \/ done < count

Read(count, done) ==
  /\ ring.intact /\ count <= Count(ring)
  /\ done < count => ring.kind = "objects"
  /\ ring' = [(IF Linear(ring) THEN ExtractFromLinear(ring, done)
               ELSE IF count <= ring.capacity - ring.startIndex
               THEN ExtractFromSegment(ring, count, done)
               ELSE ExtractFromBoth(ring, count)) EXCEPT
                !.content = SubSeq(@, done + 1, Len(@)),
                !.intact = ~ReadMishandled(ring, count, done)]

(* The copy constructor, after which the client goes on with the copy. When *)
(* the items do not wrap, it copies from the front of the memory instead of *)
(* from startIndex.                                                         *)
Copy ==
  LET fresh == [ring EXCEPT !.cells = Allocated(ring.capacity),
                            !.startIndex = InvalidIndex, !.endIndex = InvalidIndex]
      from(cell, n) == [i \in 1..n |-> ring.cells[cell + i - 1]]
  IN /\ ring.intact /\ ~Empty(ring)
     /\ ring' = IF Linear(ring)
                THEN [EmplaceInEmpty(fresh, from(0, Count(ring)))
                        EXCEPT !.intact = (ring.startIndex = 0)]
                ELSE EmplaceBehind(
                       EmplaceInEmpty(fresh, from(ring.startIndex,
                                                  ring.capacity - ring.startIndex)),
                       from(0, ring.endIndex))

(* The destructor, followed by a new queue of the same kind. In a wrapped   *)
(* queue only the first object of either segment is destroyed, repeatedly.  *)
Destroy ==
  /\ ring.intact /\ ~Empty(ring)
  /\ LET destroyed == IF Linear(ring) THEN ToSet(Places(ring)) ELSE {ring.startIndex, 0}
     IN ring' = [ring EXCEPT
          !.cells = Vacated(ring, destroyed), !.content = <<>>,
          !.startIndex = InvalidIndex, !.endIndex = InvalidIndex,
          !.intact = ring.kind # "objects" \/ destroyed = ToSet(Places(ring))]

Next ==
  \/ \E count \in 1..MaxCount, done \in 0..MaxCount :
       done <= count /\ (Write(count, done) \/ Read(count, done))
  \/ Copy \/ Destroy

Spec == Init /\ [][Next]_ring

-----------------------------------------------------------------------------
(* Properties *)

TypeOK ==
  /\ ring.kind \in {"bytes", "words", "objects"}
  /\ ring.cells \in [DOMAIN ring.cells -> 0..Numbers - 1 \union {Garbage}]
  /\ ring.intact => /\ DOMAIN ring.cells = 0..ring.capacity - 1
                    /\ ring.startIndex \in 0..ring.capacity - 1 \union {InvalidIndex}

(* As long as no mishandled call was made, the memory holds the items that  *)
(* were accepted and not handed out yet, in the order of their arrival.     *)
KeepsOrder ==
  ring.intact =>
    [i \in 1..Count(ring) |-> ring.cells[Places(ring)[i]]] = ring.content

(* ... and objects live in the places of the queue's items, nowhere else:   *)
(* each one is destroyed exactly once.                                      *)
ObjectsLiveInQueue ==
  (ring.intact /\ ring.kind = "objects") =>
    {c \in DOMAIN ring.cells : ring.cells[c] # Garbage} = ToSet(Places(ring))
=============================================================================
