----------------------------- MODULE ShiftQueue -----------------------------
(* Nuclex::Support::Collections::ShiftQueue: a queue whose items always lie *)
(* side by side and are shifted to the front of the memory when space is    *)
(* needed (Include/Nuclex/Support/Collections/ShiftQueue.h). Items of kind  *)
(* "plain" are copied with memcpy, "objects" with constructors that may     *)
(* throw.                                                                   *)
(*                                                                          *)
(* Items are numbered in the order of their arrival, modulo Numbers, and    *)
(* "content" holds the ones that the queue has accepted and not handed out. *)
(* "intact" tells that no call was made that the code executes wrongly.     *)
EXTENDS Integers, Sequences

CONSTANTS InitialCapacity, \* a power of two
          MaxCount,        \* bound: items of one call
          MaxItems,        \* bound: items in the queue
          Numbers          \* bound: how many items can be told apart

VARIABLE shift

ShiftAssumption ==
  /\ InitialCapacity \in Nat \ {0}
  /\ {MaxCount, MaxItems, Numbers} \subseteq Nat /\ Numbers > MaxItems

Garbage == -1   \* memory without an item in it

(* BitTricks::GetUpperPowerOfTwo() *)
PowersOfTwo(n) ==
  LET power[k \in 0..n] == IF k = 0 THEN 1 ELSE 2 * power[k - 1]
  IN {power[k] : k \in 0..n}
UpperPowerOfTwo(value) ==
  CHOOSE p \in PowersOfTwo(value) : p >= value /\ p < 2 * value

Allocated(size) == [c \in 0..size - 1 |-> Garbage]

Init ==
  \E kind \in {"plain", "objects"} :
    shift = [kind |-> kind, cells |-> Allocated(InitialCapacity),
             capacity |-> InitialCapacity, startIndex |-> 0, endIndex |-> 0,
             content |-> <<>>, next |-> 0, intact |-> TRUE]

Count(s) == s.endIndex - s.startIndex

(* Access(): the items that lie in the queue. *)
Access(s) == [i \in 1..Count(s) |-> s.cells[s.startIndex + i - 1]]

Put(cells, at, items) ==
  [c \in DOMAIN cells |->
     IF c - at + 1 \in DOMAIN items THEN items[c - at + 1] ELSE cells[c]]

(* shiftItems(), into the same memory or a new block. When a constructor    *)
(* throws after "moved" items, the others are destroyed.                    *)
Shifted(s, capacity, moved) ==
  [s EXCEPT !.cells = Put(Allocated(capacity), 0, SubSeq(Access(s), 1, moved)),
            !.capacity = capacity, !.startIndex = 0, !.endIndex = moved,
            !.content = SubSeq(@, 1, moved)]

\* Mutant: the used part of the memory is taken for free.
MakeSpaceUnshifted(s, count, moved) ==
  IF s.capacity >= count THEN s ELSE Shifted(s, UpperPowerOfTwo(2 * count), moved)

(* makeSpace(): once more than half of what the items span is empty they    *)
(* are shifted in any case, otherwise only into a larger block.             *)
MakeSpace(s, count, moved) ==
  IF s.startIndex > Count(s)
  THEN Shifted(s, IF s.capacity >= Count(s) + count THEN s.capacity
                  ELSE UpperPowerOfTwo(s.startIndex + Count(s) + count), moved)
  ELSE IF s.capacity - s.endIndex >= count THEN s
  ELSE Shifted(s, UpperPowerOfTwo((Count(s) + count) * 2), moved)

(* emplaceItems(), moveEmplaceItems() and what subclasses do with Promise() *)
Emplaced(s, done) ==
  LET items == [i \in 1..done |-> (s.next + i - 1) % Numbers] IN
  [s EXCEPT !.cells = Put(@, s.endIndex, items), !.endIndex = @ + done,
            !.content = @ \o items, !.next = (@ + done) % Numbers]

(* Write() and Shove(); the constructor throws at the items moved to make   *)
(* space, at one of the new items, or never.                                *)
Write(count, done) ==
  LET used == Count(shift) IN
  /\ shift.intact /\ used + count <= MaxItems
  /\ done < count => shift.kind = "objects"
  /\ \/ shift' = Emplaced(MakeSpace(shift, count, used), done)
     \/ \E moved \in 0..used - 1 :
          /\ shift.kind = "objects" /\ done = 0
          /\ MakeSpace(shift, count, moved) # shift
          /\ shift' = MakeSpace(shift, count, moved)

(* Unpromise(): a subclass takes back what it had reserved at the end. *)
Unpromise(count) ==
  /\ shift.intact /\ count <= Count(shift)
  /\ shift' = [shift EXCEPT !.endIndex = @ - count,
                            !.cells = Put(@, shift.endIndex - count,
                                          [i \in 1..count |-> Garbage]),
                            !.content = SubSeq(@, 1, Len(@) - count)]

Skipped(s, count) ==
  [s EXCEPT !.startIndex = @ + count,
            !.cells = Put(@, s.startIndex, [i \in 1..count |-> Garbage]),
            !.content = SubSeq(@, count + 1, Len(@))]

Skip(count) ==
  /\ shift.intact /\ count <= Count(shift)
  /\ shift' = Skipped(shift, count)

(* Read(): an assignment may throw after "done" objects. Plain items are    *)
(* copied from the front of the memory instead of from startIndex.          *)
Read(count, done) ==
  LET items == IF shift.kind = "plain"
               THEN [i \in 1..done |-> shift.cells[i - 1]]
               ELSE SubSeq(Access(shift), 1, done)
  IN /\ shift.intact /\ count <= Count(shift)
     /\ done < count => shift.kind = "objects"
     /\ shift' = [Skipped(shift, done) EXCEPT
                    !.intact = items = SubSeq(shift.content, 1, done)]

(* The copy constructor, after which the client goes on with the copy. *)
Copy ==
  /\ shift.intact
  /\ shift' = Shifted(shift, shift.capacity, Count(shift))

Next ==
  \/ \E count \in 1..MaxCount :
       \/ Skip(count) \/ Unpromise(count)
       \/ \E done \in 0..count : Write(count, done) \/ Read(count, done)
  \/ Copy

Spec == Init /\ [][Next]_shift

-----------------------------------------------------------------------------
(* Properties *)

TypeOK ==
  /\ shift.kind \in {"plain", "objects"}
  /\ shift.cells \in [0..shift.capacity - 1 -> 0..Numbers - 1 \union {Garbage}]
  /\ shift.endIndex \in 0..shift.capacity /\ shift.startIndex \in 0..shift.endIndex

(* The memory holds the items that were accepted and not handed out yet, in *)
(* the order of their arrival, nothing lives outside of that range, and no  *)
(* call fails to hand out the right items but a read of plain ones.         *)
KeepsOrder ==
  IF shift.intact
  THEN /\ Access(shift) = shift.content
       /\ \A c \in DOMAIN shift.cells :
            shift.cells[c] # Garbage <=> c \in shift.startIndex..shift.endIndex - 1
  ELSE shift.kind = "plain"
=============================================================================
