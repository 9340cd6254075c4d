----------------------------- MODULE DataProofs -----------------------------
(* Theorems about the components that one thread uses at a time, for every  *)
(* size of what they keep: queues, caches, the rolling logger and the event.*)
EXTENDS DataMC, SequenceTheorems, FiniteSetTheorems, WellFoundedInduction, TLAPS

-----------------------------------------------------------------------------
(* Side by side *)

(* A step of the program is a step of one component. *)
LEMMA OneAtATime ==
  ASSUME [Next]_vars
  PROVE  /\ [Ring!Next]_ring /\ [Shift!Next]_shift
         /\ [Keyed!Next]_keyed /\ [Slotted!Next]_slotted
         /\ [Logger!Next]_logger /\ [Event!Next]_<<observers, emission>>
<1> USE DEF vars, rest, queues, event, settings, ini
<1>1. CASE UNCHANGED vars
  BY <1>1
<1>2. CASE Next
  BY <1>2 DEF Next, Of
<1> QED
  BY <1>1, <1>2

-----------------------------------------------------------------------------
(* Numbers and sequences *)

(* What holds of zero and of the successor of each number that it holds of  *)
(* holds of every number.                                                   *)
LEMMA EveryNumber ==
  ASSUME NEW S, 0 \in S, \A n \in Nat : n \in S => n + 1 \in S
  PROVE  Nat \subseteq S
<1> DEFINE R == {p \in Nat \X Nat : p[1] < p[2]}
<1>1. IsWellFoundedOn(R, Nat)
  BY NatLessThanWellFounded DEF OpToRel
<1>2. \A x, y \in Nat : <<y, x>> \notin R => x <= y
  OBVIOUS
<1> HIDE DEF R
<1> SUFFICES ASSUME Nat \ S # {}  PROVE FALSE
  OBVIOUS
<1>3. PICK x \in Nat \ S : \A y \in Nat \ S : <<y, x>> \notin R
  BY <1>1, WFMin
<1>4. \A y \in Nat \ S : x <= y
  BY <1>2, <1>3
<1>5. x # 0 /\ x - 1 \in Nat /\ x - 1 + 1 = x
  BY <1>3
<1>6. x - 1 \in S
  BY <1>4, <1>5
<1> QED
  BY <1>3, <1>5, <1>6

(* The function that the powers of two are taken from *)
Doubles(f, n) == f = [k \in 0 .. n |-> IF k = 0 THEN 1 ELSE 2 * f[k - 1]]

(* It can be continued, exists up to every number, and its values are       *)
(* numbers.                                                                 *)
LEMMA DoublesGoOn ==
  ASSUME NEW n \in Nat, NEW f, Doubles(f, n)
  PROVE  \E g : Doubles(g, n + 1)
<1> DEFINE g == [k \in 0 .. n + 1 |-> IF k = 0 THEN 1 ELSE 2 * f[k - 1]]
<1>1. ASSUME NEW k \in 0 .. n  PROVE g[k] = f[k]
  <2>1. g[k] = IF k = 0 THEN 1 ELSE 2 * f[k - 1]
    OBVIOUS
  <2>2. f[k] = IF k = 0 THEN 1 ELSE 2 * f[k - 1]
    BY DEF Doubles
  <2> QED
    BY <2>1, <2>2
<1>2. ASSUME NEW k \in 0 .. n + 1  PROVE g[k] = IF k = 0 THEN 1 ELSE 2 * g[k - 1]
  <2>1. g[k] = IF k = 0 THEN 1 ELSE 2 * f[k - 1]
    OBVIOUS
  <2>2. k # 0 => k - 1 \in 0 .. n
    OBVIOUS
  <2> HIDE DEF g
  <2> QED
    BY <1>1, <2>1, <2>2
<1>3. g = [k \in 0 .. n + 1 |-> g[k]]
  OBVIOUS
<1> HIDE DEF g
<1>4. Doubles(g, n + 1)
  BY <1>2, <1>3 DEF Doubles
<1> QED
  BY <1>4

(* It exists up to every number. *)
LEMMA DoublesExist ==
  ASSUME NEW n \in Nat
  PROVE  \E f : Doubles(f, n)
<1> DEFINE S == {m \in Nat : \E f : Doubles(f, m)}
<1>1. 0 \in S
  <2> DEFINE f == [k \in 0 .. 0 |-> 1]
  <2>1. f = [k \in 0 .. 0 |-> IF k = 0 THEN 1 ELSE 2 * f[k - 1]]
    OBVIOUS
  <2> HIDE DEF f
  <2> QED
    BY <2>1 DEF Doubles
<1>2. \A m \in Nat : m \in S => m + 1 \in S
  BY DoublesGoOn
<1> HIDE DEF S
<1>3. n \in S
  BY <1>1, <1>2, EveryNumber
<1> QED
  BY <1>3 DEF S

(* Its values are numbers. *)
LEMMA DoublesAreNumbers ==
  ASSUME NEW n \in Nat, NEW f, Doubles(f, n)
  PROVE  \A k \in 0 .. n : f[k] \in Nat
<1> DEFINE S == {m \in Nat : m \in 0 .. n => f[m] \in Nat}
<1>1. 0 \in S
  BY DEF Doubles
<1>2. ASSUME NEW m \in Nat, m \in S  PROVE m + 1 \in S
  <2> SUFFICES ASSUME m + 1 \in 0 .. n  PROVE f[m + 1] \in Nat
    OBVIOUS
  <2>1. m + 1 # 0 /\ m + 1 - 1 = m /\ m \in 0 .. n
    OBVIOUS
  <2>2. f[m + 1] = 2 * f[m]
    BY <2>1 DEF Doubles
  <2> QED
    BY <1>2, <2>1, <2>2
<1> HIDE DEF S
<1>3. Nat \subseteq S
  BY <1>1, <1>2, EveryNumber
<1> QED
  BY <1>3 DEF S

(* Between a number and its double there is a power of two.                 *)
LEMMA DoublesReach ==
  ASSUME NEW n \in Nat, NEW f, Doubles(f, n), n > 0
  PROVE  \E k \in 0 .. n : n <= f[k] /\ f[k] < 2 * n
<1> DEFINE S == {m \in Nat : m >= 1 /\ m <= n =>
                   \E k \in 0 .. m : f[k] \in Nat /\ m <= f[k] /\ f[k] < 2 * m}
<1>1. 0 \in S
  OBVIOUS
<1>2. ASSUME NEW m \in Nat, m \in S  PROVE m + 1 \in S
  <2> SUFFICES ASSUME m + 1 <= n
               PROVE  \E k \in 0 .. m + 1 :
                        f[k] \in Nat /\ m + 1 <= f[k] /\ f[k] < 2 * (m + 1)
    OBVIOUS
  <2>1. CASE m = 0
    <3>1. 0 \in 0 .. n /\ f[0] = 1
      BY DEF Doubles
    <3>2. 1 \in 0 .. n /\ f[1] = 2 * f[0]
      BY <2>1 DEF Doubles
    <3> QED
      BY <2>1, <3>1, <3>2
  <2>2. CASE m >= 1
    <3>1. PICK k \in 0 .. m : f[k] \in Nat /\ m <= f[k] /\ f[k] < 2 * m
      BY <1>2, <2>2
    <3>2. CASE f[k] >= m + 1
      BY <3>1, <3>2
    <3>3. CASE f[k] = m
      <4>1. k + 1 \in 0 .. n /\ k + 1 # 0 /\ k + 1 - 1 = k
        OBVIOUS
      <4>2. f[k + 1] = 2 * f[k]
        BY <4>1 DEF Doubles
      <4>3. k + 1 \in 0 .. m + 1
        OBVIOUS
      <4> QED
        BY <2>2, <3>3, <4>2, <4>3
    <3> QED
      BY <3>1, <3>2, <3>3
  <2> QED
    BY <2>1, <2>2
<1> HIDE DEF S
<1>3. n \in S
  BY <1>1, <1>2, EveryNumber
<1> QED
  BY <1>3 DEF S

(* Both queues ask for a power of two that is large enough. *)
LEMMA UpperPowers ==
  ASSUME NEW n \in Nat \ {0}
  PROVE  /\ Ring!UpperPowerOfTwo(n) \in Nat /\ Ring!UpperPowerOfTwo(n) >= n
         /\ Shift!UpperPowerOfTwo(n) \in Nat /\ Shift!UpperPowerOfTwo(n) >= n
<1> DEFINE f == CHOOSE f : Doubles(f, n)  P == {f[k] : k \in 0 .. n}
<1>1. Doubles(f, n)
  BY DoublesExist
<1>2. Ring!PowersOfTwo(n) = P /\ Shift!PowersOfTwo(n) = P
  BY DEF Ring!PowersOfTwo, Shift!PowersOfTwo, Doubles
<1> HIDE DEF f
<1>3. (\E p \in P : p >= n /\ p < 2 * n) /\ P \subseteq Nat
  BY <1>1, DoublesReach, DoublesAreNumbers
<1> HIDE DEF P
<1>4. /\ Ring!UpperPowerOfTwo(n) = CHOOSE p \in P : p >= n /\ p < 2 * n
      /\ Shift!UpperPowerOfTwo(n) = CHOOSE p \in P : p >= n /\ p < 2 * n
  BY <1>2 DEF Ring!UpperPowerOfTwo, Shift!UpperPowerOfTwo
<1> QED
  BY <1>3, <1>4

(* The first items of a sequence, and the others *)
LEMMA FirstItems ==
  ASSUME NEW S, NEW s \in Seq(S), NEW n \in 0 .. Len(s)
  PROVE  /\ SubSeq(s, 1, n) \in Seq(S) /\ Len(SubSeq(s, 1, n)) = n
         /\ \A i \in 1 .. n : SubSeq(s, 1, n)[i] = s[i]
<1>1. Len(s) \in Nat /\ n \in Int
  BY LenProperties
<1>2. \A i \in 1 .. n : s[i] \in S
  BY <1>1, ElementOfSeq
<1>3. /\ SubSeq(s, 1, n) \in Seq(S)
      /\ Len(SubSeq(s, 1, n)) = IF 1 <= n THEN n - 1 + 1 ELSE 0
      /\ \A i \in 1 .. n - 1 + 1 : SubSeq(s, 1, n)[i] = s[1 + i - 1]
  BY <1>1, <1>2, SubSeqProperties
<1>4. n - 1 + 1 = n /\ \A i \in 1 .. n : 1 + i - 1 = i
  BY <1>1
<1> QED
  BY <1>1, <1>3, <1>4

(* The items behind the first ones *)
LEMMA OtherItems ==
  ASSUME NEW S, NEW s \in Seq(S), NEW n \in 0 .. Len(s)
  PROVE  /\ SubSeq(s, n + 1, Len(s)) \in Seq(S)
         /\ Len(SubSeq(s, n + 1, Len(s))) = Len(s) - n
         /\ \A i \in 1 .. Len(s) - n : SubSeq(s, n + 1, Len(s))[i] = s[n + i]
<1> DEFINE l == Len(s)
<1>1. l \in Nat /\ n \in Int /\ n + 1 \in Int /\ l \in Int /\ n \in 0 .. l
  BY LenProperties
<1>2. \A i \in n + 1 .. l : s[i] \in S
  BY <1>1, ElementOfSeq
<1> HIDE DEF l
<1>3. /\ SubSeq(s, n + 1, l) \in Seq(S)
      /\ Len(SubSeq(s, n + 1, l)) = IF n + 1 <= l THEN l - (n + 1) + 1 ELSE 0
      /\ \A i \in 1 .. l - (n + 1) + 1 : SubSeq(s, n + 1, l)[i] = s[n + 1 + i - 1]
  BY <1>1, <1>2, SubSeqProperties
<1>4. l - (n + 1) + 1 = l - n /\ \A i \in 1 .. l - n : n + 1 + i - 1 = n + i
  BY <1>1
<1>5. Len(SubSeq(s, n + 1, l)) = l - n
  BY <1>1, <1>3
<1> QED
  BY <1>3, <1>4, <1>5 DEF l
-----------------------------------------------------------------------------
(* The shift queue *)

Item == 0 .. ItemNumbers - 1
Cell == Item \cup {-1}
Memory == UNION {[0 .. n - 1 -> Cell] : n \in Nat}

(* A queue, and one whose memory holds its items, side by side and nothing  *)
(* else                                                                     *)
IsShift(s) ==
  /\ s \in [kind : {"plain", "objects"}, cells : Memory, capacity : Nat,
            startIndex : Nat, endIndex : Nat, content : Seq(Item), next : Nat,
            intact : BOOLEAN]
  /\ s.cells \in [0 .. s.capacity - 1 -> Cell]
  /\ s.startIndex <= s.endIndex /\ s.endIndex <= s.capacity

ItemsLie(s) ==
  /\ Len(s.content) = s.endIndex - s.startIndex
  /\ \A i \in 1 .. Len(s.content) : s.cells[s.startIndex + i - 1] = s.content[i]
  /\ \A c \in 0 .. s.capacity - 1 :
       c < s.startIndex \/ c >= s.endIndex => s.cells[c] = -1

ShiftInv ==
  /\ IsShift(shift)
  /\ shift.intact => ItemsLie(shift)
  /\ ~shift.intact => shift.kind = "plain"

(* Access() finds the items. *)
LEMMA AccessFinds ==
  ASSUME NEW s, IsShift(s), ItemsLie(s)
  PROVE  /\ Shift!Access(s) = s.content /\ Shift!Count(s) = Len(s.content)
         /\ Len(s.content) \in Nat
<1>1. Shift!Count(s) = Len(s.content)
  BY DEF ItemsLie, Shift!Count
<1>2. s.content \in Seq(Item)
  BY DEF IsShift
<1>3. s.content = [i \in 1 .. Len(s.content) |-> s.content[i]] /\ Len(s.content) \in Nat
  BY <1>2, LenProperties
<1>4. Shift!Access(s) = [i \in 1 .. Len(s.content) |-> s.content[i]]
  BY <1>1 DEF ItemsLie, Shift!Access
<1> QED
  BY <1>1, <1>3, <1>4

(* Items are put one behind the other. *)
LEMMA ShiftPut ==
  ASSUME NEW n \in Nat, NEW cells \in [0 .. n - 1 -> Cell], NEW at \in Nat,
         NEW m \in Nat, NEW items, DOMAIN items = 1 .. m,
         \A i \in 1 .. m : items[i] \in Cell
  PROVE  /\ Shift!Put(cells, at, items) \in [0 .. n - 1 -> Cell]
         /\ \A c \in 0 .. n - 1 :
              Shift!Put(cells, at, items)[c]
                = IF at <= c /\ c < at + m THEN items[c - at + 1] ELSE cells[c]
<1> DEFINE p == Shift!Put(cells, at, items)
<1>1. p = [c \in 0 .. n - 1 |-> IF c - at + 1 \in 1 .. m THEN items[c - at + 1] ELSE cells[c]]
  BY DEF Shift!Put
<1>2. ASSUME NEW c \in 0 .. n - 1
      PROVE  c - at + 1 \in 1 .. m <=> at <= c /\ c < at + m
  OBVIOUS
<1> HIDE DEF p
<1>3. \A c \in 0 .. n - 1 :
        p[c] = IF at <= c /\ c < at + m THEN items[c - at + 1] ELSE cells[c]
  BY <1>1, <1>2
<1>4. \A c \in 0 .. n - 1 : p[c] \in Cell
  BY <1>2, <1>3
<1>5. p \in [0 .. n - 1 -> Cell]
  BY <1>1, <1>4
<1> QED
  BY <1>3, <1>5 DEF p

(* The items are moved to the front of the memory, or of another block, all *)
(* of them or the first ones.                                               *)
LEMMA ShiftedKeeps ==
  ASSUME NEW s, IsShift(s), ItemsLie(s), NEW capacity \in Nat,
         NEW moved \in 0 .. Len(s.content), moved <= capacity
  PROVE  LET m == Shift!Shifted(s, capacity, moved)
         IN /\ IsShift(m) /\ ItemsLie(m)
            /\ m.kind = s.kind /\ m.intact = s.intact /\ m.next = s.next
            /\ m.capacity = capacity /\ m.startIndex = 0 /\ m.endIndex = moved
            /\ Len(m.content) = moved
<1> DEFINE items == SubSeq(s.content, 1, moved)
           cells == Shift!Put(Shift!Allocated(capacity), 0, items)
           m == Shift!Shifted(s, capacity, moved)
<1>1. s.content \in Seq(Item) /\ Shift!Access(s) = s.content /\ moved \in Nat
  BY AccessFinds DEF IsShift
<1>2. /\ items \in Seq(Item) /\ Len(items) = moved
      /\ \A i \in 1 .. moved : items[i] = s.content[i]
  <2> DEFINE t == s.content
  <2>1. t \in Seq(Item) /\ moved \in 0 .. Len(t)
    BY <1>1
  <2> HIDE DEF t
  <2>2. /\ SubSeq(t, 1, moved) \in Seq(Item) /\ Len(SubSeq(t, 1, moved)) = moved
        /\ \A i \in 1 .. moved : SubSeq(t, 1, moved)[i] = t[i]
    BY <2>1, FirstItems
  <2> QED
    BY <2>2 DEF t
<1>3. m = [s EXCEPT !.cells = cells, !.capacity = capacity, !.startIndex = 0,
                    !.endIndex = moved, !.content = items]
  BY <1>1 DEF Shift!Shifted
<1> HIDE DEF items
<1>4. DOMAIN items = 1 .. moved /\ \A i \in 1 .. moved : items[i] \in Cell
  BY <1>2, LenProperties, ElementOfSeq DEF Cell
<1>5. Shift!Allocated(capacity) = [c \in 0 .. capacity - 1 |-> -1]
  BY DEF Shift!Allocated, Shift!Garbage
<1>6. /\ cells \in [0 .. capacity - 1 -> Cell]
      /\ \A c \in 0 .. capacity - 1 : cells[c] = IF c < moved THEN items[c + 1] ELSE -1
  <2> DEFINE empty == Shift!Allocated(capacity)
  <2>1. empty \in [0 .. capacity - 1 -> Cell] /\ \A c \in 0 .. capacity - 1 : empty[c] = -1
    BY <1>5 DEF Cell
  <2> HIDE DEF empty
  <2>4. 0 \in Nat /\ moved \in Nat
    BY <1>1
  <2>2. /\ Shift!Put(empty, 0, items) \in [0 .. capacity - 1 -> Cell]
        /\ \A c \in 0 .. capacity - 1 :
             Shift!Put(empty, 0, items)[c]
               = IF 0 <= c /\ c < 0 + moved THEN items[c - 0 + 1] ELSE empty[c]
    BY <1>4, <2>1, <2>4, ShiftPut
  <2>3. \A c \in 0 .. capacity - 1 :
          c - 0 + 1 = c + 1 /\ (0 <= c /\ c < 0 + moved <=> c < moved)
    BY <1>1
  <2> QED
    BY <2>1, <2>2, <2>3 DEF empty
<1> HIDE DEF cells, m
<1>7. /\ m.kind = s.kind /\ m.intact = s.intact /\ m.next = s.next
      /\ m.capacity = capacity /\ m.startIndex = 0 /\ m.endIndex = moved
      /\ m.content = items /\ m.cells = cells
  BY <1>3 DEF IsShift
<1>8. cells \in Memory
  BY <1>6 DEF Memory
<1>9. IsShift(m)
  <2>1. m = [kind |-> s.kind, cells |-> cells, capacity |-> capacity, startIndex |-> 0,
             endIndex |-> moved, content |-> items, next |-> s.next,
             intact |-> s.intact]
    BY <1>3 DEF IsShift
  <2>2. s.kind \in {"plain", "objects"} /\ s.next \in Nat /\ s.intact \in BOOLEAN
    BY DEF IsShift
  <2>3. m \in [kind : {"plain", "objects"}, cells : Memory, capacity : Nat,
               startIndex : Nat, endIndex : Nat, content : Seq(Item), next : Nat,
               intact : BOOLEAN]
    BY <1>1, <1>2, <1>8, <2>1, <2>2
  <2> QED
    BY <1>1, <1>6, <1>7, <2>3 DEF IsShift
<1>10. ItemsLie(m)
  <2>1. ASSUME NEW i \in 1 .. moved  PROVE cells[0 + i - 1] = items[i]
    <3>1. 0 + i - 1 \in 0 .. capacity - 1 /\ 0 + i - 1 < moved /\ 0 + i - 1 + 1 = i
      BY <1>1
    <3> QED
      BY <1>6, <3>1
  <2>2. ASSUME NEW c \in 0 .. capacity - 1, c < 0 \/ c >= moved  PROVE cells[c] = -1
    BY <1>1, <1>6, <2>2
  <2>3. Len(items) = moved - 0
    BY <1>1, <1>2
  <2> QED
    BY <1>2, <1>7, <2>1, <2>2, <2>3 DEF ItemsLie
<1> QED
  BY <1>2, <1>7, <1>9, <1>10 DEF m

(* There is room behind the items once space was made for some more.        *)
LEMMA SpaceIsMade ==
  ASSUME NEW s, IsShift(s), ItemsLie(s), NEW count \in Nat \ {0},
         NEW moved \in 0 .. Len(s.content)
  PROVE  LET m == Shift!MakeSpace(s, count, moved)
         IN /\ IsShift(m) /\ ItemsLie(m) /\ m.kind = s.kind /\ m.intact = s.intact
            /\ moved = Len(s.content) => m.capacity - m.endIndex >= count
<1> DEFINE used == Len(s.content)
           m == Shift!MakeSpace(s, count, moved)
           Moved(c) == Shift!Shifted(s, c, moved)
<1>1. /\ Shift!Count(s) = used /\ used \in Nat /\ used = s.endIndex - s.startIndex
      /\ s.startIndex \in Nat /\ s.endIndex \in Nat /\ s.capacity \in Nat
      /\ s.endIndex <= s.capacity /\ used <= s.capacity
  <2>1. Shift!Count(s) = used /\ used \in Nat
    BY AccessFinds
  <2>2. used = s.endIndex - s.startIndex
    BY DEF ItemsLie
  <2>3. /\ s.startIndex \in Nat /\ s.endIndex \in Nat /\ s.capacity \in Nat
        /\ s.endIndex <= s.capacity
    BY DEF IsShift
  <2> HIDE DEF used
  <2> QED
    BY <2>1, <2>2, <2>3
<1>2. ASSUME NEW c \in Nat, used <= c
      PROVE  /\ IsShift(Moved(c)) /\ ItemsLie(Moved(c))
             /\ Moved(c).kind = s.kind /\ Moved(c).intact = s.intact
             /\ Moved(c).capacity = c /\ Moved(c).endIndex = moved
  <2>1. moved <= c /\ moved \in 0 .. Len(s.content)
    BY <1>1, <1>2
  <2> QED
    BY <2>1, ShiftedKeeps
<1>3. m = IF s.startIndex > used
          THEN Moved(IF s.capacity >= used + count THEN s.capacity
                     ELSE Shift!UpperPowerOfTwo(s.startIndex + used + count))
          ELSE IF s.capacity - s.endIndex >= count THEN s
          ELSE Moved(Shift!UpperPowerOfTwo((used + count) * 2))
  BY <1>1 DEF Shift!MakeSpace
<1> HIDE DEF m, Moved
<1>4. CASE s.startIndex > used /\ s.capacity >= used + count
  <2>1. m = Moved(s.capacity)
    BY <1>3, <1>4
  <2> QED
    BY <1>1, <1>2, <1>4, <2>1 DEF m
<1>5. CASE s.startIndex > used /\ ~(s.capacity >= used + count)
  <2> DEFINE n == s.startIndex + used + count
             c == Shift!UpperPowerOfTwo(n)
  <2>1. n \in Nat \ {0} /\ n >= used + count
    BY <1>1
  <2>2. m = Moved(c)
    BY <1>3, <1>5
  <2> HIDE DEF n
  <2>3. c \in Nat /\ c >= n
    BY <2>1, UpperPowers
  <2> HIDE DEF c
  <2>4. used <= c /\ c >= used + count
    BY <1>1, <2>1, <2>3
  <2> QED
    BY <1>1, <1>2, <2>2, <2>3, <2>4 DEF m
<1>6. CASE ~(s.startIndex > used) /\ s.capacity - s.endIndex >= count
  <2>1. m = s
    BY <1>3, <1>6
  <2> QED
    BY <1>6, <2>1 DEF m
<1>7. CASE ~(s.startIndex > used) /\ ~(s.capacity - s.endIndex >= count)
  <2> DEFINE n == (used + count) * 2
             c == Shift!UpperPowerOfTwo(n)
  <2>1. n \in Nat \ {0} /\ n >= used + count
    BY <1>1
  <2>2. m = Moved(c)
    BY <1>3, <1>7
  <2> HIDE DEF n
  <2>3. c \in Nat /\ c >= n
    BY <2>1, UpperPowers
  <2> HIDE DEF c
  <2>4. used <= c /\ c >= used + count
    BY <1>1, <2>1, <2>3
  <2> QED
    BY <1>1, <1>2, <2>2, <2>3, <2>4 DEF m
<1> QED
  BY <1>4, <1>5, <1>6, <1>7

(* New items are put behind the others. *)
LEMMA EmplacedKeeps ==
  ASSUME NEW s, IsShift(s), ItemsLie(s), NEW done \in Nat,
         s.capacity - s.endIndex >= done, ItemNumbers \in Nat \ {0}
  PROVE  LET e == Shift!Emplaced(s, done)
         IN IsShift(e) /\ ItemsLie(e) /\ e.kind = s.kind /\ e.intact = s.intact
<1> DEFINE items == [i \in 1 .. done |-> (s.next + i - 1) % ItemNumbers]
           cells == Shift!Put(s.cells, s.endIndex, items)
           content == s.content \o items
           next == (s.next + done) % ItemNumbers
           e == Shift!Emplaced(s, done)
<1>1. /\ s.content \in Seq(Item) /\ s.next \in Nat /\ s.cells \in [0 .. s.capacity - 1 -> Cell]
      /\ s.startIndex \in Nat /\ s.endIndex \in Nat /\ s.capacity \in Nat
      /\ s.startIndex <= s.endIndex /\ s.endIndex <= s.capacity
  BY DEF IsShift
<1>2. items \in Seq(Item) /\ Len(items) = done /\ DOMAIN items = 1 .. done
  <2>1. \A i \in 1 .. done : (s.next + i - 1) % ItemNumbers \in Item
    BY <1>1 DEF Item
  <2> QED
    BY <2>1
<1>3. next \in Nat
  BY <1>1
<1>4. e = [kind |-> s.kind, cells |-> cells, capacity |-> s.capacity,
           startIndex |-> s.startIndex, endIndex |-> s.endIndex + done,
           content |-> content, next |-> next, intact |-> s.intact]
  <2>1. e = [s EXCEPT !.cells = cells, !.endIndex = s.endIndex + done,
                      !.content = content, !.next = next]
    BY DEF Shift!Emplaced
  <2> HIDE DEF e, cells, content, next
  <2> QED
    BY <2>1 DEF IsShift
<1> HIDE DEF items, next
<1>5. \A i \in 1 .. done : items[i] \in Item /\ items[i] \in Cell
  BY <1>2, ElementOfSeq DEF Cell
<1>6. /\ cells \in [0 .. s.capacity - 1 -> Cell]
      /\ \A c \in 0 .. s.capacity - 1 :
           cells[c] = IF s.endIndex <= c /\ c < s.endIndex + done
                      THEN items[c - s.endIndex + 1] ELSE s.cells[c]
  <2> DEFINE n == s.capacity  old == s.cells  at == s.endIndex
  <2>1. n \in Nat /\ old \in [0 .. n - 1 -> Cell] /\ at \in Nat
    BY <1>1
  <2> HIDE DEF n, old, at
  <2>2. /\ Shift!Put(old, at, items) \in [0 .. n - 1 -> Cell]
        /\ \A c \in 0 .. n - 1 :
             Shift!Put(old, at, items)[c]
               = IF at <= c /\ c < at + done THEN items[c - at + 1] ELSE old[c]
    <3>1. DOMAIN items = 1 .. done /\ \A i \in 1 .. done : items[i] \in Cell
      BY <1>2, <1>5
    <3>2. Shift!Put(old, at, items) \in [0 .. n - 1 -> Cell]
      BY <2>1, <3>1, ShiftPut
    <3>3. \A c \in 0 .. n - 1 :
            Shift!Put(old, at, items)[c]
              = IF at <= c /\ c < at + done THEN items[c - at + 1] ELSE old[c]
      BY <2>1, <3>1, ShiftPut
    <3> QED
      BY <3>2, <3>3
  <2> QED
    BY <2>2 DEF n, old, at
<1>7. /\ content \in Seq(Item) /\ Len(content) = Len(s.content) + done
      /\ \A i \in 1 .. Len(s.content) + done :
           content[i] = IF i <= Len(s.content) THEN s.content[i]
                        ELSE items[i - Len(s.content)]
  BY <1>1, <1>2, ConcatProperties
<1> HIDE DEF cells, content, e
<1>8. IsShift(e)
  <2>1. s.kind \in {"plain", "objects"} /\ s.intact \in BOOLEAN
    BY DEF IsShift
  <2>2. cells \in Memory
    BY <1>1, <1>6 DEF Memory
  <2>3. s.endIndex + done \in Nat /\ s.endIndex + done <= s.capacity
        /\ s.startIndex <= s.endIndex + done
    BY <1>1
  <2>4. e \in [kind : {"plain", "objects"}, cells : Memory, capacity : Nat,
               startIndex : Nat, endIndex : Nat, content : Seq(Item), next : Nat,
               intact : BOOLEAN]
    BY <1>1, <1>3, <1>4, <1>7, <2>1, <2>2, <2>3
  <2> QED
    BY <1>4, <1>6, <2>3, <2>4 DEF IsShift
<1>9. /\ Len(s.content) = s.endIndex - s.startIndex /\ Len(s.content) \in Nat
      /\ \A i \in 1 .. Len(s.content) : s.cells[s.startIndex + i - 1] = s.content[i]
      /\ \A c \in 0 .. s.capacity - 1 :
           c < s.startIndex \/ c >= s.endIndex => s.cells[c] = -1
  BY <1>1, LenProperties DEF ItemsLie
<1>10. ItemsLie(e)
  <2>1. Len(content) = s.endIndex + done - s.startIndex
    BY <1>1, <1>7, <1>9
  <2>2. ASSUME NEW i \in 1 .. Len(content)
        PROVE  cells[s.startIndex + i - 1] = content[i]
    <3> DEFINE c == s.startIndex + i - 1
    <3>1. c \in 0 .. s.capacity - 1 /\ i \in 1 .. Len(s.content) + done /\ i \in Nat
      BY <1>1, <1>7, <1>9
    <3>2. CASE i <= Len(s.content)
      <4>1. ~(s.endIndex <= c) /\ i \in 1 .. Len(s.content)
        BY <1>1, <1>9, <3>1, <3>2
      <4>2. cells[c] = s.cells[c] /\ s.cells[c] = s.content[i]
        BY <1>6, <1>9, <3>1, <4>1
      <4> QED
        BY <1>7, <3>1, <3>2, <4>2
    <3>3. CASE ~(i <= Len(s.content))
      <4>1. /\ s.endIndex <= c /\ c < s.endIndex + done
            /\ c - s.endIndex + 1 = i - Len(s.content)
        BY <1>1, <1>9, <3>1, <3>3
      <4> HIDE DEF c
      <4>2. cells[c] = items[c - s.endIndex + 1]
        BY <1>6, <3>1, <4>1
      <4> QED
        BY <1>7, <3>1, <3>3, <4>1, <4>2 DEF c
    <3> QED
      BY <3>2, <3>3
  <2>3. ASSUME NEW c \in 0 .. s.capacity - 1, c < s.startIndex \/ c >= s.endIndex + done
        PROVE  cells[c] = -1
    <3>1. ~(s.endIndex <= c /\ c < s.endIndex + done) /\ (c < s.startIndex \/ c >= s.endIndex)
      BY <1>1, <2>3
    <3> QED
      BY <1>6, <1>9, <3>1
  <2>4. /\ e.cells = cells /\ e.capacity = s.capacity /\ e.startIndex = s.startIndex
        /\ e.endIndex = s.endIndex + done /\ e.content = content
    BY <1>4
  <2>5. Len(e.content) = e.endIndex - e.startIndex
    BY <1>1, <2>1, <2>4
  <2>6. \A i \in 1 .. Len(e.content) : e.cells[e.startIndex + i - 1] = e.content[i]
    BY <2>2, <2>4
  <2>7. \A c \in 0 .. e.capacity - 1 :
          c < e.startIndex \/ c >= e.endIndex => e.cells[c] = -1
    BY <2>3, <2>4
  <2> QED
    BY <2>5, <2>6, <2>7 DEF ItemsLie
<1>11. e.kind = s.kind /\ e.intact = s.intact
  BY <1>4
<1> QED
  BY <1>8, <1>10, <1>11 DEF e

(* Items are taken from the front or from the end: what stays is the part   *)
(* of the content from "from" on, up to "to", and the cells outside of it   *)
(* are vacated.                                                             *)
CutMemory(s, from, to, cells) ==
  /\ cells \in [0 .. s.capacity - 1 -> Cell]
  /\ \A c \in 0 .. s.capacity - 1 :
       cells[c] = IF s.startIndex + from <= c /\ c < s.startIndex + to
                  THEN s.cells[c] ELSE -1

CutContent(s, from, to, content) ==
  /\ content \in Seq(Item) /\ Len(content) = to - from
  /\ \A i \in 1 .. to - from : content[i] = s.content[from + i]

CutOut(s, from, to, cells, content, intact) ==
  [kind |-> s.kind, cells |-> cells, capacity |-> s.capacity,
   startIndex |-> s.startIndex + from, endIndex |-> s.startIndex + to,
   content |-> content, next |-> s.next, intact |-> intact]

(* Where the items that stay are *)
LEMMA CutIndex ==
  ASSUME NEW start \in Nat, NEW from \in Nat, NEW to \in Nat, NEW len \in Nat,
         to <= len, NEW capacity \in Nat, start + len <= capacity,
         NEW i \in 1 .. to - from, NEW c, c = start + from + i - 1
  PROVE  /\ c \in 0 .. capacity - 1 /\ start + from <= c /\ c < start + to
         /\ from + i \in 1 .. len /\ c = start + (from + i) - 1
OBVIOUS

(* They lie side by side again. *)
LEMMA CutKeeps ==
  ASSUME NEW s, IsShift(s), ItemsLie(s), NEW from \in 0 .. Len(s.content),
         NEW to \in from .. Len(s.content), NEW cells, CutMemory(s, from, to, cells),
         NEW content, CutContent(s, from, to, content), NEW intact \in BOOLEAN
  PROVE  LET cut == CutOut(s, from, to, cells, content, intact)
         IN IsShift(cut) /\ ItemsLie(cut) /\ cut.kind = s.kind /\ cut.intact = intact
<1> DEFINE cut == CutOut(s, from, to, cells, content, intact)
<1>1. /\ s.content \in Seq(Item) /\ s.next \in Nat /\ s.kind \in {"plain", "objects"}
      /\ s.startIndex \in Nat /\ s.endIndex \in Nat /\ s.capacity \in Nat
      /\ s.endIndex <= s.capacity
  BY DEF IsShift
<1>2. /\ Len(s.content) = s.endIndex - s.startIndex /\ Len(s.content) \in Nat
      /\ \A i \in 1 .. Len(s.content) : s.cells[s.startIndex + i - 1] = s.content[i]
  BY <1>1, LenProperties DEF ItemsLie
<1>3. /\ s.startIndex + from \in Nat /\ s.startIndex + to \in Nat /\ from \in Nat
      /\ to \in Nat
      /\ s.startIndex + from <= s.startIndex + to /\ s.startIndex + to <= s.capacity
  BY <1>1, <1>2
<1>4. /\ cut.kind = s.kind /\ cut.cells = cells /\ cut.capacity = s.capacity
      /\ cut.startIndex = s.startIndex + from /\ cut.endIndex = s.startIndex + to
      /\ cut.content = content /\ cut.intact = intact
  BY DEF CutOut
<1>7. /\ cells \in [0 .. s.capacity - 1 -> Cell]
      /\ content \in Seq(Item) /\ Len(content) = to - from
  BY DEF CutMemory, CutContent
<1>8. \A i \in 1 .. to - from : content[i] = s.content[from + i]
  BY DEF CutContent
<1>9. cut \in [kind : {s.kind}, cells : {cells}, capacity : {s.capacity},
               startIndex : {s.startIndex + from}, endIndex : {s.startIndex + to},
               content : {content}, next : {s.next}, intact : {intact}]
  BY DEF CutOut
<1> HIDE DEF cut
<1>5. IsShift(cut)
  <2>1. cells \in Memory
    BY <1>1, <1>7 DEF Memory
  <2>2. cut \in [kind : {"plain", "objects"}, cells : Memory, capacity : Nat,
                 startIndex : Nat, endIndex : Nat, content : Seq(Item), next : Nat,
                 intact : BOOLEAN]
    BY <1>1, <1>3, <1>7, <1>9, <2>1
  <2> QED
    BY <1>3, <1>4, <1>7, <2>2 DEF IsShift
<1>6. ItemsLie(cut)
  <2>1. Len(content) = s.startIndex + to - (s.startIndex + from)
    BY <1>1, <1>3, <1>7
  <2>2. ASSUME NEW i \in 1 .. Len(content)
        PROVE  cells[s.startIndex + from + i - 1] = content[i]
    <3> DEFINE c == s.startIndex + from + i - 1
    <3>4. /\ i \in 1 .. to - from /\ Len(s.content) \in Nat /\ to <= Len(s.content)
          /\ s.startIndex + Len(s.content) <= s.capacity
      BY <1>1, <1>2, <1>3, <1>7
    <3>1. /\ c \in 0 .. s.capacity - 1 /\ s.startIndex + from <= c /\ c < s.startIndex + to
          /\ from + i \in 1 .. Len(s.content)
          /\ c = s.startIndex + (from + i) - 1
      <4> DEFINE start == s.startIndex  len == Len(s.content)  capacity == s.capacity
      <4>1. /\ start \in Nat /\ from \in Nat /\ to \in Nat /\ len \in Nat /\ to <= len
            /\ capacity \in Nat /\ start + len <= capacity /\ i \in 1 .. to - from
            /\ c = start + from + i - 1
        BY <1>1, <1>3, <3>4
      <4> HIDE DEF start, len, capacity, c
      <4>2. /\ c \in 0 .. capacity - 1 /\ start + from <= c /\ c < start + to
            /\ from + i \in 1 .. len /\ c = start + (from + i) - 1
        BY <4>1, CutIndex
      <4> QED
        BY <4>2 DEF start, len, capacity
    <3> HIDE DEF c
    <3>2. cells[c] = s.cells[c] /\ content[i] = s.content[from + i]
      BY <1>8, <3>1, <3>4 DEF CutMemory
    <3>3. s.cells[c] = s.content[from + i]
      BY <1>2, <3>1
    <3> QED
      BY <3>2, <3>3 DEF c
  <2>3. ASSUME NEW c \in 0 .. s.capacity - 1,
               c < s.startIndex + from \/ c >= s.startIndex + to
        PROVE  cells[c] = -1
    <3>1. ~(s.startIndex + from <= c /\ c < s.startIndex + to)
      BY <1>3, <1>1, <2>3
    <3> QED
      BY <3>1 DEF CutMemory
  <2>5. Len(cut.content) = cut.endIndex - cut.startIndex
    BY <1>1, <1>3, <1>4, <2>1
  <2>6. \A i \in 1 .. Len(cut.content) : cut.cells[cut.startIndex + i - 1] = cut.content[i]
    BY <2>2, <1>4
  <2>7. \A c \in 0 .. cut.capacity - 1 :
          c < cut.startIndex \/ c >= cut.endIndex => cut.cells[c] = -1
    BY <2>3, <1>4
  <2> QED
    BY <2>5, <2>6, <2>7 DEF ItemsLie
<1> QED
  BY <1>4, <1>5, <1>6 DEF cut

(* Cells are vacated. *)
LEMMA ShiftVacated ==
  ASSUME NEW n \in Nat, NEW cells \in [0 .. n - 1 -> Cell], NEW at \in Nat,
         NEW count \in Nat
  PROVE  LET p == Shift!Put(cells, at, [i \in 1 .. count |-> -1])
         IN /\ p \in [0 .. n - 1 -> Cell]
            /\ \A c \in 0 .. n - 1 :
                 p[c] = IF at <= c /\ c < at + count THEN -1 ELSE cells[c]
<1> DEFINE items == [i \in 1 .. count |-> -1]
<1>1. DOMAIN items = 1 .. count /\ \A i \in 1 .. count : items[i] \in Cell /\ items[i] = -1
  BY DEF Cell
<1>2. \A c \in 0 .. n - 1 : at <= c /\ c < at + count => c - at + 1 \in 1 .. count
  OBVIOUS
<1> HIDE DEF items
<1>3. /\ Shift!Put(cells, at, items) \in [0 .. n - 1 -> Cell]
      /\ \A c \in 0 .. n - 1 :
           Shift!Put(cells, at, items)[c]
             = IF at <= c /\ c < at + count THEN items[c - at + 1] ELSE cells[c]
  BY <1>1, ShiftPut
<1> QED
  BY <1>1, <1>2, <1>3 DEF items

(* The first items are skipped, whether or not they were handed out well. *)
LEMMA SkippedKeeps ==
  ASSUME NEW s, IsShift(s), ItemsLie(s), NEW count \in 0 .. Len(s.content),
         NEW intact \in BOOLEAN
  PROVE  LET k == [Shift!Skipped(s, count) EXCEPT !.intact = intact]
         IN IsShift(k) /\ ItemsLie(k) /\ k.kind = s.kind /\ k.intact = intact
<1> DEFINE cells == Shift!Put(s.cells, s.startIndex, [i \in 1 .. count |-> -1])
           content == SubSeq(s.content, count + 1, Len(s.content))
           k == [Shift!Skipped(s, count) EXCEPT !.intact = intact]
<1>1. /\ s.content \in Seq(Item) /\ s.cells \in [0 .. s.capacity - 1 -> Cell]
      /\ s.startIndex \in Nat /\ s.endIndex \in Nat /\ s.capacity \in Nat
      /\ s.endIndex <= s.capacity
  BY DEF IsShift
<1>2. /\ Len(s.content) = s.endIndex - s.startIndex /\ Len(s.content) \in Nat
      /\ count \in Nat
      /\ \A c \in 0 .. s.capacity - 1 :
           c < s.startIndex \/ c >= s.endIndex => s.cells[c] = -1
  BY <1>1, LenProperties DEF ItemsLie
<1>3. /\ content \in Seq(Item) /\ Len(content) = Len(s.content) - count
      /\ \A i \in 1 .. Len(s.content) - count : content[i] = s.content[count + i]
  <2> DEFINE t == s.content
  <2>1. t \in Seq(Item) /\ count \in 0 .. Len(t)
    BY <1>1
  <2> HIDE DEF t
  <2>2. /\ SubSeq(t, count + 1, Len(t)) \in Seq(Item)
        /\ Len(SubSeq(t, count + 1, Len(t))) = Len(t) - count
        /\ \A i \in 1 .. Len(t) - count : SubSeq(t, count + 1, Len(t))[i] = t[count + i]
    BY <2>1, OtherItems
  <2> QED
    BY <2>2 DEF t
<1>4. /\ cells \in [0 .. s.capacity - 1 -> Cell]
      /\ \A c \in 0 .. s.capacity - 1 :
           cells[c] = IF s.startIndex <= c /\ c < s.startIndex + count THEN -1
                      ELSE s.cells[c]
  <2> DEFINE n == s.capacity  old == s.cells  at == s.startIndex
  <2>1. n \in Nat /\ old \in [0 .. n - 1 -> Cell] /\ at \in Nat
    BY <1>1
  <2> HIDE DEF n, old, at
  <2>2. /\ Shift!Put(old, at, [i \in 1 .. count |-> -1]) \in [0 .. n - 1 -> Cell]
        /\ \A c \in 0 .. n - 1 :
             Shift!Put(old, at, [i \in 1 .. count |-> -1])[c]
               = IF at <= c /\ c < at + count THEN -1 ELSE old[c]
    BY <1>2, <2>1, ShiftVacated
  <2> QED
    BY <2>2 DEF n, old, at
<1>5. k = [kind |-> s.kind, cells |-> cells, capacity |-> s.capacity,
           startIndex |-> s.startIndex + count, endIndex |-> s.endIndex,
           content |-> content, next |-> s.next, intact |-> intact]
  <2>1. k = [s EXCEPT !.startIndex = s.startIndex + count, !.cells = cells,
                      !.content = content, !.intact = intact]
    BY DEF Shift!Skipped, Shift!Garbage, IsShift
  <2> HIDE DEF k, cells, content
  <2> QED
    BY <2>1 DEF IsShift
<1> HIDE DEF cells, content, k
<1>6. ASSUME NEW c \in 0 .. s.capacity - 1
      PROVE  cells[c] = IF s.startIndex + count <= c /\ c < s.startIndex + Len(s.content)
                        THEN s.cells[c] ELSE -1
  <2>1. CASE s.startIndex + count <= c /\ c < s.startIndex + Len(s.content)
    BY <1>1, <1>2, <1>4, <2>1
  <2>2. CASE ~(s.startIndex + count <= c) /\ s.startIndex <= c
    BY <1>1, <1>2, <1>4, <2>2
  <2>3. CASE c < s.startIndex \/ c >= s.endIndex
    BY <1>1, <1>2, <1>4, <2>3
  <2> QED
    BY <1>1, <1>2, <2>1, <2>2, <2>3
<1>7. s.endIndex = s.startIndex + Len(s.content)
      /\ Len(s.content) \in count .. Len(s.content)
  BY <1>1, <1>2
<1>8. IsShift(k) /\ ItemsLie(k) /\ k.kind = s.kind /\ k.intact = intact
  <2> DEFINE to == Len(s.content)
  <2>1. to \in count .. to /\ count \in 0 .. to /\ Len(content) = to - count
    BY <1>3, <1>7
  <2>2. CutMemory(s, count, to, cells)
    BY <1>4, <1>6 DEF CutMemory
  <2>3. CutContent(s, count, to, content)
    BY <1>3 DEF CutContent
  <2>4. k = CutOut(s, count, to, cells, content, intact)
    BY <1>5, <1>7 DEF CutOut
  <2>5. to \in count .. Len(s.content)
    BY <2>1
  <2> HIDE DEF to
  <2> QED
    BY <2>2, <2>3, <2>4, <2>5, CutKeeps
<1> QED
  BY <1>8 DEF k

(* Items that a subclass had reserved at the end are given back. *)
LEMMA UnpromisedKeeps ==
  ASSUME NEW s, IsShift(s), ItemsLie(s), NEW count \in 0 .. Len(s.content)
  PROVE  LET u == [s EXCEPT !.endIndex = @ - count,
                            !.cells = Shift!Put(@, s.endIndex - count,
                                                [i \in 1 .. count |-> -1]),
                            !.content = SubSeq(@, 1, Len(@) - count)]
         IN IsShift(u) /\ ItemsLie(u) /\ u.intact = s.intact
<1> DEFINE cells == Shift!Put(s.cells, s.endIndex - count, [i \in 1 .. count |-> -1])
           to == Len(s.content) - count
           content == SubSeq(s.content, 1, to)
           u == [s EXCEPT !.endIndex = @ - count,
                          !.cells = Shift!Put(@, s.endIndex - count,
                                              [i \in 1 .. count |-> -1]),
                          !.content = SubSeq(@, 1, Len(@) - count)]
<1>1. /\ s.content \in Seq(Item) /\ s.cells \in [0 .. s.capacity - 1 -> Cell]
      /\ s.startIndex \in Nat /\ s.endIndex \in Nat /\ s.capacity \in Nat
      /\ s.endIndex <= s.capacity /\ s.intact \in BOOLEAN
  BY DEF IsShift
<1>2. /\ Len(s.content) = s.endIndex - s.startIndex /\ Len(s.content) \in Nat
      /\ count \in Nat
      /\ \A c \in 0 .. s.capacity - 1 :
           c < s.startIndex \/ c >= s.endIndex => s.cells[c] = -1
  BY <1>1, LenProperties DEF ItemsLie
<1>3. /\ to \in 0 .. Len(s.content) /\ s.endIndex - count = s.startIndex + to
      /\ s.endIndex - count \in Nat /\ to - 0 = to /\ 0 \in 0 .. Len(s.content)
  BY <1>1, <1>2
<1>4. u = CutOut(s, 0, to, cells, content, s.intact)
  <2>1. u = [s EXCEPT !.endIndex = s.endIndex - count, !.cells = cells,
                      !.content = content]
    OBVIOUS
  <2>2. s.startIndex + 0 = s.startIndex
    BY <1>1
  <2> HIDE DEF u, cells, content, to
  <2>3. u = [kind |-> s.kind, cells |-> cells, capacity |-> s.capacity,
             startIndex |-> s.startIndex, endIndex |-> s.endIndex - count,
             content |-> content, next |-> s.next, intact |-> s.intact]
    BY <2>1 DEF IsShift
  <2> QED
    BY <1>3, <2>2, <2>3 DEF CutOut
<1>5. CutContent(s, 0, to, content)
  <2> DEFINE t == s.content
  <2>1. t \in Seq(Item) /\ to \in 0 .. Len(t)
    BY <1>1, <1>3
  <2> HIDE DEF t, to
  <2>2. /\ SubSeq(t, 1, to) \in Seq(Item) /\ Len(SubSeq(t, 1, to)) = to
        /\ \A i \in 1 .. to : SubSeq(t, 1, to)[i] = t[i]
    BY <2>1, FirstItems
  <2>3. \A i \in 1 .. to : 0 + i = i
    BY <2>1
  <2> QED
    BY <1>3, <2>2, <2>3 DEF t, CutContent
<1>6. CutMemory(s, 0, to, cells)
  <2> DEFINE n == s.capacity  old == s.cells  at == s.endIndex - count
  <2>1. n \in Nat /\ old \in [0 .. n - 1 -> Cell] /\ at \in Nat
    BY <1>1, <1>3
  <2> HIDE DEF n, old, at
  <2>2. /\ Shift!Put(old, at, [i \in 1 .. count |-> -1]) \in [0 .. n - 1 -> Cell]
        /\ \A c \in 0 .. n - 1 :
             Shift!Put(old, at, [i \in 1 .. count |-> -1])[c]
               = IF at <= c /\ c < at + count THEN -1 ELSE old[c]
    BY <1>2, <2>1, ShiftVacated
  <2>3. /\ cells \in [0 .. s.capacity - 1 -> Cell]
        /\ \A c \in 0 .. s.capacity - 1 :
             cells[c] = IF s.endIndex - count <= c /\ c < s.endIndex - count + count
                        THEN -1 ELSE s.cells[c]
    BY <2>2 DEF n, old, at
  <2> HIDE DEF cells
  <2>4. ASSUME NEW c \in 0 .. s.capacity - 1
        PROVE  cells[c] = IF s.startIndex + 0 <= c /\ c < s.startIndex + to
                          THEN s.cells[c] ELSE -1
    <3>1. s.endIndex - count + count = s.endIndex
      BY <1>1, <1>2
    <3>2. CASE s.startIndex <= c /\ c < s.startIndex + to
      BY <1>1, <1>3, <2>3, <3>2
    <3>3. CASE s.startIndex + to <= c /\ c < s.endIndex
      BY <1>1, <1>3, <2>3, <3>1, <3>3
    <3>4. CASE c < s.startIndex \/ c >= s.endIndex
      BY <1>1, <1>2, <1>3, <2>3, <3>1, <3>4
    <3> QED
      BY <1>1, <1>3, <3>2, <3>3, <3>4
  <2> QED
    BY <2>3, <2>4 DEF CutMemory
<1>7. to \in 0 .. Len(s.content) /\ 0 \in 0 .. Len(s.content)
  BY <1>3
<1> HIDE DEF u, cells, content, to
<1>8. IsShift(u) /\ ItemsLie(u) /\ u.intact = s.intact
  BY <1>1, <1>4, <1>5, <1>6, <1>7, CutKeeps
<1> QED
  BY <1>8 DEF u

(* A new queue is as the invariant says. *)
LEMMA ShiftStarts == Shift!Init /\ Shift!ShiftAssumption => ShiftInv
<1> SUFFICES ASSUME Shift!Init, Shift!ShiftAssumption  PROVE ShiftInv
  OBVIOUS
<1>1. PICK kind \in {"plain", "objects"} :
        shift = [kind |-> kind, cells |-> Shift!Allocated(InitialCapacity),
                 capacity |-> InitialCapacity, startIndex |-> 0, endIndex |-> 0,
                 content |-> <<>>, next |-> 0, intact |-> TRUE]
  BY DEF Shift!Init
<1> DEFINE cells == Shift!Allocated(InitialCapacity)
<1>2. InitialCapacity \in Nat
  BY DEF Shift!ShiftAssumption
<1>3. cells = [c \in 0 .. InitialCapacity - 1 |-> -1]
  BY DEF Shift!Allocated, Shift!Garbage
<1>4. cells \in [0 .. InitialCapacity - 1 -> Cell] /\ cells \in Memory
  BY <1>2, <1>3 DEF Memory, Cell
<1>5. <<>> \in Seq(Item) /\ Len(<<>>) = 0
  OBVIOUS
<1> HIDE DEF cells
<1>6. shift \in [kind : {"plain", "objects"}, cells : Memory, capacity : Nat,
                 startIndex : Nat, endIndex : Nat, content : Seq(Item), next : Nat,
                 intact : BOOLEAN]
  BY <1>1, <1>2, <1>4, <1>5 DEF cells
<1>7. /\ shift.cells = cells /\ shift.capacity = InitialCapacity /\ shift.startIndex = 0
      /\ shift.endIndex = 0 /\ shift.content = <<>> /\ shift.intact
  BY <1>1 DEF cells
<1>8. IsShift(shift)
  BY <1>2, <1>4, <1>6, <1>7 DEF IsShift
<1>9. \A c \in 0 .. InitialCapacity - 1 : cells[c] = -1
  BY <1>3
<1>10. ItemsLie(shift)
  BY <1>5, <1>7, <1>9 DEF ItemsLie
<1> QED
  BY <1>7, <1>8, <1>10 DEF ShiftInv

(* Every step of the queue keeps the invariant. *)
LEMMA ShiftGoesOn ==
  ASSUME ShiftInv, Shift!Next, Shift!ShiftAssumption  PROVE ShiftInv'
<1>1. MaxCount \in Nat /\ ItemNumbers \in Nat \ {0}
  <2>1. {MaxCount, MaxItems, ItemNumbers} \subseteq Nat /\ ItemNumbers > MaxItems
    BY DEF Shift!ShiftAssumption
  <2> QED
    BY <2>1
<1>2. IsShift(shift)
  BY DEF ShiftInv
<1>3. ASSUME shift.intact
      PROVE  /\ ItemsLie(shift) /\ Shift!Count(shift) = Len(shift.content)
             /\ Len(shift.content) \in Nat /\ Shift!Access(shift) = shift.content
  <2>1. ItemsLie(shift)
    BY <1>3 DEF ShiftInv
  <2> QED
    BY <1>2, <2>1, AccessFinds
<1>4. ASSUME NEW s, shift' = s, IsShift(s), s.intact => ItemsLie(s),
             ~s.intact => s.kind = "plain"
      PROVE  ShiftInv'
  BY <1>4 DEF ShiftInv, IsShift, ItemsLie
<1>5. ASSUME NEW s, shift' = s, IsShift(s), ItemsLie(s), s.intact = shift.intact, shift.intact
      PROVE  ShiftInv'
  BY <1>4, <1>5
<1>6. ASSUME NEW count \in 1 .. MaxCount, Shift!Skip(count)  PROVE ShiftInv'
  <2>1. shift.intact /\ count \in 0 .. Len(shift.content)
        /\ shift' = Shift!Skipped(shift, count)
    BY <1>1, <1>3, <1>6 DEF Shift!Skip
  <2> DEFINE k == [Shift!Skipped(shift, count) EXCEPT !.intact = shift.intact]
  <2>2. k = Shift!Skipped(shift, count)
    BY <1>2 DEF Shift!Skipped, IsShift
  <2>3. shift.intact \in BOOLEAN
    BY <1>2 DEF IsShift
  <2>4. IsShift(k) /\ ItemsLie(k) /\ k.intact = shift.intact
    BY <1>2, <1>3, <2>1, <2>3, SkippedKeeps
  <2> HIDE DEF k
  <2> QED
    BY <1>5, <2>1, <2>2, <2>4
<1>7. ASSUME NEW count \in 1 .. MaxCount, Shift!Unpromise(count)  PROVE ShiftInv'
  <2> DEFINE u == [shift EXCEPT !.endIndex = @ - count,
                                !.cells = Shift!Put(@, shift.endIndex - count,
                                                    [i \in 1 .. count |-> -1]),
                                !.content = SubSeq(@, 1, Len(@) - count)]
  <2>1. shift.intact /\ count \in 0 .. Len(shift.content) /\ shift' = u
    BY <1>1, <1>3, <1>7 DEF Shift!Unpromise, Shift!Garbage
  <2>2. IsShift(u) /\ ItemsLie(u) /\ u.intact = shift.intact
    BY <1>2, <1>3, <2>1, UnpromisedKeeps
  <2> HIDE DEF u
  <2> QED
    BY <1>5, <2>1, <2>2
<1>8. ASSUME NEW count \in 1 .. MaxCount, NEW done \in 0 .. count, Shift!Write(count, done)
      PROVE  ShiftInv'
  <2> DEFINE used == Len(shift.content)
             Space(moved) == Shift!MakeSpace(shift, count, moved)
  <2>1. shift.intact /\ used \in Nat /\ count \in Nat \ {0} /\ done \in Nat /\ done <= count
    BY <1>1, <1>3, <1>8 DEF Shift!Write
  <2>2. ASSUME NEW moved \in 0 .. used
        PROVE  /\ IsShift(Space(moved)) /\ ItemsLie(Space(moved))
               /\ Space(moved).intact = shift.intact
               /\ moved = used => Space(moved).capacity - Space(moved).endIndex >= count
    BY <1>2, <1>3, <2>1, SpaceIsMade
  <2>3. \/ shift' = Shift!Emplaced(Space(used), done)
        \/ \E moved \in 0 .. used - 1 : shift' = Space(moved)
    BY <1>3, <1>8, <2>1 DEF Shift!Write
  <2> HIDE DEF Space
  <2>4. CASE shift' = Shift!Emplaced(Space(used), done)
    <3> DEFINE m == Space(used)  e == Shift!Emplaced(m, done)
    <3>1. used \in 0 .. used
      BY <2>1
    <3>2. /\ IsShift(m) /\ ItemsLie(m) /\ m.intact = shift.intact
          /\ m.capacity - m.endIndex >= count
      BY <2>2, <3>1
    <3> HIDE DEF m
    <3>3. m.capacity \in Nat /\ m.endIndex \in Nat
      BY <3>2 DEF IsShift
    <3>4. m.capacity - m.endIndex >= done
      BY <2>1, <3>2, <3>3
    <3>5. IsShift(e) /\ ItemsLie(e) /\ e.intact = m.intact
      BY <1>1, <2>1, <3>2, <3>4, EmplacedKeeps
    <3>6. shift' = e
      BY <2>4 DEF m
    <3> HIDE DEF e
    <3> QED
      BY <1>5, <2>1, <3>2, <3>5, <3>6
  <2>5. ASSUME NEW moved \in 0 .. used - 1, shift' = Space(moved)  PROVE ShiftInv'
    <3>1. moved \in 0 .. used
      BY <2>1
    <3> QED
      BY <1>5, <2>1, <2>2, <2>5, <3>1
  <2> QED
    BY <2>3, <2>4, <2>5
<1>9. ASSUME NEW count \in 1 .. MaxCount, NEW done \in 0 .. count, Shift!Read(count, done)
      PROVE  ShiftInv'
  <2> DEFINE items == IF shift.kind = "plain"
                      THEN [i \in 1 .. done |-> shift.cells[i - 1]]
                      ELSE SubSeq(Shift!Access(shift), 1, done)
             intact == items = SubSeq(shift.content, 1, done)
             k == [Shift!Skipped(shift, done) EXCEPT !.intact = intact]
  <2>1. shift.intact /\ done \in 0 .. Len(shift.content) /\ shift' = k
    BY <1>1, <1>3, <1>9 DEF Shift!Read
  <2>2. shift.kind # "plain" => intact
    BY <1>3, <2>1
  <2>3. intact \in BOOLEAN
    OBVIOUS
  <2> HIDE DEF intact, items
  <2>4. IsShift(k) /\ ItemsLie(k) /\ k.kind = shift.kind /\ k.intact = intact
    BY <1>2, <1>3, <2>1, <2>3, SkippedKeeps
  <2> HIDE DEF k
  <2>5. ~k.intact => k.kind = "plain"
    BY <2>2, <2>4
  <2> QED
    BY <1>4, <2>1, <2>4, <2>5
<1>10. ASSUME Shift!Copy  PROVE ShiftInv'
  <2> DEFINE m == Shift!Shifted(shift, shift.capacity, Len(shift.content))
  <2>1. shift.intact /\ shift' = m
    BY <1>3, <1>10 DEF Shift!Copy
  <2>2. shift.capacity \in Nat /\ shift.startIndex \in Nat /\ shift.endIndex \in Nat
        /\ shift.endIndex <= shift.capacity
    BY <1>2 DEF IsShift
  <2>3. Len(shift.content) = shift.endIndex - shift.startIndex
    BY <1>3, <2>1 DEF ItemsLie
  <2>4. Len(shift.content) \in 0 .. Len(shift.content)
        /\ Len(shift.content) <= shift.capacity
    BY <1>3, <2>1, <2>2, <2>3
  <2>5. IsShift(m) /\ ItemsLie(m) /\ m.intact = shift.intact
    BY <1>2, <1>3, <2>1, <2>2, <2>4, ShiftedKeeps
  <2> HIDE DEF m
  <2> QED
    BY <1>5, <2>1, <2>5
<1> QED
  BY <1>6, <1>7, <1>8, <1>9, <1>10 DEF Shift!Next

(* The invariant says what the queue promises. *)
LEMMA ShiftIsRight == ShiftInv => Shift!TypeOK /\ Shift!KeepsOrder
<1> SUFFICES ASSUME ShiftInv  PROVE Shift!TypeOK /\ Shift!KeepsOrder
  OBVIOUS
<1>1. Cell = 0 .. ItemNumbers - 1 \cup {-1}
  BY DEF Cell, Item
<1>2. IsShift(shift)
  BY DEF ShiftInv
<1>3. /\ shift.kind \in {"plain", "objects"} /\ shift.cells \in [0 .. shift.capacity - 1 -> Cell]
      /\ shift.startIndex \in Nat /\ shift.endIndex \in Nat /\ shift.capacity \in Nat
      /\ shift.startIndex <= shift.endIndex /\ shift.endIndex <= shift.capacity
      /\ shift.content \in Seq(Item) /\ shift.intact \in BOOLEAN
  BY <1>2 DEF IsShift
<1>4. Shift!TypeOK
  <2>1. shift.endIndex \in 0 .. shift.capacity /\ shift.startIndex \in 0 .. shift.endIndex
    BY <1>3
  <2> QED
    BY <1>1, <1>3, <2>1 DEF Shift!TypeOK, Shift!Garbage
<1>5. CASE shift.intact
  <2>1. ItemsLie(shift)
    BY <1>5 DEF ShiftInv
  <2>2. Shift!Access(shift) = shift.content
    BY <1>2, <2>1, AccessFinds
  <2>3. ASSUME NEW c \in 0 .. shift.capacity - 1
        PROVE  shift.cells[c] # -1 <=> c \in shift.startIndex .. shift.endIndex - 1
    <3>1. CASE c < shift.startIndex \/ c >= shift.endIndex
      BY <1>3, <2>1, <3>1 DEF ItemsLie
    <3>2. CASE c \in shift.startIndex .. shift.endIndex - 1
      <4> DEFINE i == c - shift.startIndex + 1
      <4>1. Len(shift.content) = shift.endIndex - shift.startIndex
        BY <2>1 DEF ItemsLie
      <4>2. i \in 1 .. Len(shift.content) /\ shift.startIndex + i - 1 = c
        BY <1>3, <3>2, <4>1
      <4> HIDE DEF i
      <4>3. shift.cells[c] = shift.content[i] /\ shift.content[i] \in Item
        BY <1>3, <2>1, <4>2, ElementOfSeq DEF ItemsLie
      <4> QED
        BY <3>2, <4>3 DEF Item
    <3> QED
      BY <1>3, <3>1, <3>2
  <2> QED
    BY <1>3, <1>4, <1>5, <2>2, <2>3 DEF Shift!KeepsOrder, Shift!Garbage
<1>6. CASE ~shift.intact
  BY <1>4, <1>6 DEF Shift!KeepsOrder, ShiftInv
<1> QED
  BY <1>5, <1>6

(* The shift queue hands out the items that were put into it in the order of*)
(* their arrival, and nothing lies in its memory but them, as long as no    *)
(* plain items were read.                                                   *)
THEOREM ShiftKeepsOrder == Spec => [](Shift!TypeOK /\ Shift!KeepsOrder)
<1>1. Shift!ShiftAssumption
  BY DataAssumption DEF DataAssumption
<1>2. Init => ShiftInv
  BY <1>1, ShiftStarts DEF Init
<1>3. ShiftInv /\ [Next]_vars => ShiftInv'
  <2> SUFFICES ASSUME ShiftInv, [Next]_vars  PROVE ShiftInv'
    OBVIOUS
  <2>1. Shift!Next \/ UNCHANGED shift
    BY DEF Next, Of, vars, queues, event, settings, ini, rest
  <2>2. CASE UNCHANGED shift
    BY <2>2 DEF ShiftInv
  <2> QED
    BY <1>1, <2>1, <2>2, ShiftGoesOn
<1> QED
  BY <1>2, <1>3, ShiftIsRight, PTL DEF Spec
-----------------------------------------------------------------------------
(* The ring queue *)

(* How the items lie in the memory: nowhere when there are none, side by    *)
(* side, or around the end of the memory. Objects lie nowhere else.         *)
Nowhere(kind, cells, capacity, content) ==
  /\ content = <<>>
  /\ kind = "objects" => \A c \in 0 .. capacity - 1 : cells[c] = -1

Straight(kind, cells, capacity, start, end, content) ==
  /\ start \in Nat /\ end \in Nat /\ start < end /\ end <= capacity
  /\ Len(content) = end - start
  /\ \A c \in start .. end - 1 : cells[c] = content[c - start + 1]
  /\ kind = "objects" =>
       \A c \in 0 .. capacity - 1 : c < start \/ c >= end => cells[c] = -1

Around(kind, cells, capacity, start, end, content) ==
  /\ start \in Nat /\ end \in Nat /\ 1 <= end /\ end <= start /\ start < capacity
  /\ Len(content) = end + capacity - start
  /\ \A c \in start .. capacity - 1 : cells[c] = content[c - start + 1]
  /\ \A c \in 0 .. end - 1 : cells[c] = content[capacity - start + c + 1]
  /\ kind = "objects" => \A c \in end .. start - 1 : cells[c] = -1

Block(cells, capacity) == capacity \in Nat \ {0} /\ cells \in [0 .. capacity - 1 -> Cell]

(* Cells are overwritten. *)
LEMMA RingPut ==
  ASSUME NEW capacity, NEW cells, Block(cells, capacity), NEW at \in Nat,
         NEW items \in Seq(Item)
  PROVE  /\ Block(Ring!Put(cells, at, items), capacity)
         /\ \A c \in 0 .. capacity - 1 :
              Ring!Put(cells, at, items)[c]
                = IF at <= c /\ c < at + Len(items) THEN items[c - at + 1] ELSE cells[c]
<1> DEFINE m == Len(items)  p == Ring!Put(cells, at, items)
<1>1. m \in Nat /\ DOMAIN items = 1 .. m /\ \A i \in 1 .. m : items[i] \in Cell
  BY LenProperties, ElementOfSeq DEF Cell
<1>2. capacity \in Nat /\ DOMAIN cells = 0 .. capacity - 1
      /\ \A c \in 0 .. capacity - 1 : cells[c] \in Cell
  BY DEF Block
<1>3. p = [c \in 0 .. capacity - 1 |->
             IF c - at + 1 \in 1 .. m THEN items[c - at + 1] ELSE cells[c]]
  BY <1>1, <1>2 DEF Ring!Put
<1> HIDE DEF m, p
<1>4. ASSUME NEW c \in 0 .. capacity - 1
      PROVE  c - at + 1 \in 1 .. m <=> at <= c /\ c < at + m
  BY <1>1, <1>2
<1>5. \A c \in 0 .. capacity - 1 :
        p[c] = IF at <= c /\ c < at + m THEN items[c - at + 1] ELSE cells[c]
  BY <1>3, <1>4
<1>6. \A c \in 0 .. capacity - 1 : p[c] \in Cell
  BY <1>1, <1>2, <1>3
<1>7. Block(p, capacity)
  BY <1>3, <1>6 DEF Block
<1> QED
  BY <1>5, <1>7 DEF m, p

(* Items are put into memory without items, *)
LEMMA PutFirst ==
  ASSUME NEW kind, NEW capacity, NEW cells, Block(cells, capacity), NEW content,
         Nowhere(kind, cells, capacity, content),
         NEW items \in Seq(Item), items # <<>>, Len(items) <= capacity
  PROVE  Straight(kind, Ring!Put(cells, 0, items), capacity, 0, Len(items),
                  content \o items)
<1> DEFINE n == Len(items)  p == Ring!Put(cells, 0, items)
<1>1. n \in Nat /\ n > 0 /\ content \o items = items /\ capacity \in Nat
  BY LenProperties, EmptySeq, ConcatEmptySeq DEF Nowhere, Block
<1>2. \A c \in 0 .. capacity - 1 :
        p[c] = IF 0 <= c /\ c < 0 + n THEN items[c - 0 + 1] ELSE cells[c]
  BY RingPut
<1> HIDE DEF n, p
<1>3. \A c \in 0 .. n - 1 : p[c] = items[c - 0 + 1]
  BY <1>1, <1>2, n <= capacity DEF n
<1>4. \A c \in 0 .. capacity - 1 : c >= n => p[c] = cells[c]
  BY <1>1, <1>2
<1>5. kind = "objects" => \A c \in 0 .. capacity - 1 : c < 0 \/ c >= n => p[c] = -1
  BY <1>1, <1>4 DEF Nowhere
<1>6. Len(items) = n - 0 /\ n <= capacity
  BY <1>1 DEF n
<1>7. Straight(kind, p, capacity, 0, n, items)
  BY <1>1, <1>3, <1>5, <1>6 DEF Straight
<1> QED
  BY <1>1, <1>7 DEF n, p

(* behind the others, *)
LEMMA PutBehind ==
  ASSUME NEW kind, NEW capacity, NEW cells, Block(cells, capacity),
         NEW start, NEW end, NEW content \in Seq(Item),
         Straight(kind, cells, capacity, start, end, content),
         NEW items \in Seq(Item), end + Len(items) <= capacity
  PROVE  Straight(kind, Ring!Put(cells, end, items), capacity, start, end + Len(items),
                  content \o items)
<1> DEFINE n == Len(items)  p == Ring!Put(cells, end, items)  all == content \o items
<1>1. /\ start \in Nat /\ end \in Nat /\ start < end /\ n \in Nat /\ end + n <= capacity
      /\ capacity \in Nat /\ Len(content) = end - start
  BY LenProperties DEF Straight, Block
<1>2. \A c \in 0 .. capacity - 1 :
        p[c] = IF end <= c /\ c < end + n THEN items[c - end + 1] ELSE cells[c]
  <2>1. end \in Nat
    BY <1>1
  <2>2. \A c \in 0 .. capacity - 1 :
          Ring!Put(cells, end, items)[c]
            = IF end <= c /\ c < end + Len(items) THEN items[c - end + 1] ELSE cells[c]
    BY <2>1, RingPut
  <2> QED
    BY <2>2
<1>3. /\ all \in Seq(Item) /\ Len(all) = Len(content) + n
      /\ \A i \in 1 .. Len(content) + n :
           all[i] = IF i <= Len(content) THEN content[i] ELSE items[i - Len(content)]
  BY ConcatProperties
<1> HIDE DEF n, p, all
<1>4. ASSUME NEW c \in start .. end + n - 1  PROVE p[c] = all[c - start + 1]
  <2>1. /\ c \in 0 .. capacity - 1 /\ c - start + 1 \in 1 .. end - start + n
        /\ (c - start + 1) - (end - start) = c - end + 1
    BY <1>1
  <2>2. CASE c < end
    <3>1. c - start + 1 <= end - start /\ c \in start .. end - 1
      BY <1>1, <2>2
    <3>2. p[c] = cells[c]
      BY <1>1, <1>2, <2>1, <2>2
    <3>3. cells[c] = content[c - start + 1]
      BY <3>1 DEF Straight
    <3>4. all[c - start + 1] = content[c - start + 1]
      BY <1>1, <1>3, <2>1, <3>1
    <3> QED
      BY <3>2, <3>3, <3>4
  <2>3. CASE c >= end
    <3>1. ~(c - start + 1 <= end - start) /\ c < end + n
      BY <1>1, <2>3
    <3>2. p[c] = items[c - end + 1]
      BY <1>1, <1>2, <2>1, <2>3, <3>1
    <3>3. all[c - start + 1] = items[(c - start + 1) - (end - start)]
      BY <1>1, <1>3, <2>1, <3>1
    <3> QED
      BY <2>1, <3>2, <3>3
  <2> QED
    BY <1>1, <2>2, <2>3
<1>5. \A c \in 0 .. capacity - 1 : c < start \/ c >= end + n =>
        p[c] = cells[c] /\ (c < start \/ c >= end)
  BY <1>1, <1>2
<1>6. kind = "objects" =>
        \A c \in 0 .. capacity - 1 : c < start \/ c >= end + n => p[c] = -1
  BY <1>5 DEF Straight
<1>7. start < end + n /\ end + n \in Nat /\ Len(all) = end + n - start
  BY <1>1, <1>3
<1>8. Straight(kind, p, capacity, start, end + n, all)
  BY <1>1, <1>4, <1>6, <1>7 DEF Straight
<1> QED
  BY <1>8 DEF n, p, all

(* around the end of the memory, *)
LEMMA PutAround ==
  ASSUME NEW kind, NEW capacity, NEW cells, Block(cells, capacity),
         NEW start, NEW end, NEW content \in Seq(Item),
         Straight(kind, cells, capacity, start, end, content),
         NEW items \in Seq(Item), NEW wrapped, wrapped = Len(items) - (capacity - end),
         wrapped > 0, wrapped <= start
  PROVE  Around(kind, Ring!Put(Ring!Put(cells, end, items), 0,
                               SubSeq(items, capacity - end + 1, Len(items))),
                capacity, start, wrapped, content \o items)
<1> DEFINE n == Len(items)  p == Ring!Put(cells, end, items)  all == content \o items
           left == capacity - end  around == SubSeq(items, left + 1, n)
           q == Ring!Put(p, 0, around)
<1>1. /\ start \in Nat /\ end \in Nat /\ start < end /\ n \in Nat /\ end <= capacity
      /\ capacity \in Nat /\ Len(content) = end - start
  BY LenProperties DEF Straight, Block
<1>2. Block(p, capacity)
      /\ \A c \in 0 .. capacity - 1 :
           p[c] = IF end <= c /\ c < end + n THEN items[c - end + 1] ELSE cells[c]
  <2>1. end \in Nat
    BY <1>1
  <2> QED
    BY <2>1, RingPut
<1>3. /\ all \in Seq(Item) /\ Len(all) = Len(content) + n
      /\ \A i \in 1 .. Len(content) + n :
           all[i] = IF i <= Len(content) THEN content[i] ELSE items[i - Len(content)]
  BY ConcatProperties
<1>4. left \in 0 .. n /\ left \in Nat /\ wrapped = n - left /\ wrapped \in Nat
  BY <1>1
<1>5. /\ around \in Seq(Item) /\ Len(around) = wrapped
      /\ \A i \in 1 .. wrapped : around[i] = items[left + i]
  <2> HIDE DEF left
  <2> QED
    BY <1>4, OtherItems
<1>6. \A c \in 0 .. capacity - 1 :
        q[c] = IF 0 <= c /\ c < 0 + wrapped THEN around[c - 0 + 1] ELSE p[c]
  <2> HIDE DEF p, around
  <2>1. \A c \in 0 .. capacity - 1 :
          q[c] = IF 0 <= c /\ c < 0 + Len(around) THEN around[c - 0 + 1] ELSE p[c]
    <3> DEFINE at == 0
    <3>1. Block(p, capacity) /\ at \in Nat /\ around \in Seq(Item)
      BY <1>2, <1>5
    <3> HIDE DEF at
    <3>2. \A c \in 0 .. capacity - 1 :
            Ring!Put(p, at, around)[c]
              = IF at <= c /\ c < at + Len(around) THEN around[c - at + 1] ELSE p[c]
      BY <3>1, RingPut
    <3> QED
      BY <3>2 DEF at
  <2> QED
    BY <1>5, <2>1
<1>7. end + n = capacity + wrapped /\ left = capacity - end
  BY <1>1, <1>4
<1> HIDE DEF n, p, all, q, around, left
<1>8. ASSUME NEW c \in start .. capacity - 1  PROVE q[c] = all[c - start + 1]
  <2>1. /\ c \in 0 .. capacity - 1 /\ c - start + 1 \in 1 .. end - start + n
        /\ (c - start + 1) - (end - start) = c - end + 1 /\ c < end + n
        /\ ~(0 <= c /\ c < 0 + wrapped)
    BY <1>1, <1>4, <1>7
  <2>2. q[c] = p[c]
    BY <1>6, <2>1
  <2>3. CASE c < end
    <3>1. c - start + 1 <= end - start /\ c \in start .. end - 1 /\ ~(end <= c)
      BY <1>1, <2>3
    <3>2. p[c] = cells[c]
      BY <1>2, <2>1, <3>1
    <3>3. cells[c] = content[c - start + 1]
      BY <3>1 DEF Straight
    <3>4. all[c - start + 1] = content[c - start + 1]
      BY <1>1, <1>3, <2>1, <3>1
    <3> QED
      BY <2>2, <3>2, <3>3, <3>4
  <2>4. CASE c >= end
    <3>1. ~(c - start + 1 <= end - start) /\ end <= c
      BY <1>1, <2>4
    <3>2. p[c] = items[c - end + 1]
      BY <1>2, <2>1, <3>1
    <3>3. all[c - start + 1] = items[(c - start + 1) - (end - start)]
      BY <1>1, <1>3, <2>1, <3>1
    <3> QED
      BY <2>1, <2>2, <3>2, <3>3
  <2> QED
    BY <1>1, <2>3, <2>4
<1>9. ASSUME NEW c \in 0 .. wrapped - 1  PROVE q[c] = all[capacity - start + c + 1]
  <2> DEFINE i == capacity - start + c + 1
  <2>1. /\ c \in 0 .. capacity - 1 /\ 0 <= c /\ c < 0 + wrapped /\ c - 0 + 1 = c + 1
        /\ c + 1 \in 1 .. wrapped /\ i \in 1 .. end - start + n /\ ~(i <= end - start)
        /\ i - (end - start) = left + (c + 1)
    BY <1>1, <1>4, <1>7
  <2> HIDE DEF i
  <2>2. q[c] = around[c + 1]
    BY <1>6, <2>1
  <2>3. around[c + 1] = items[left + (c + 1)]
    BY <1>5, <2>1
  <2>4. all[i] = items[i - (end - start)]
    BY <1>1, <1>3, <2>1
  <2> QED
    BY <2>1, <2>2, <2>3, <2>4 DEF i
<1>10. ASSUME kind = "objects", NEW c \in wrapped .. start - 1  PROVE q[c] = -1
  <2>1. /\ c \in 0 .. capacity - 1 /\ ~(0 <= c /\ c < 0 + wrapped) /\ ~(end <= c)
        /\ c < start
    BY <1>1, <1>4
  <2>2. q[c] = cells[c]
    BY <1>2, <1>6, <2>1
  <2> QED
    BY <1>10, <2>1, <2>2 DEF Straight
<1>11. /\ start < capacity /\ Len(all) = wrapped + capacity - start /\ 1 <= wrapped
  <2>1. Len(all) = end - start + n
    BY <1>1, <1>3
  <2>2. end - start + n = wrapped + capacity - start
    BY <1>1, <1>4, <1>7
  <2> QED
    BY <1>1, <1>4, <2>1, <2>2
<1>12. Around(kind, q, capacity, start, wrapped, all)
  BY <1>1, <1>4, <1>8, <1>9, <1>10, <1>11 DEF Around
<1> QED
  BY <1>12 DEF q, p, around, left, n, all

(* and between the last one and the first one. *)
LEMMA PutBetween ==
  ASSUME NEW kind, NEW capacity, NEW cells, Block(cells, capacity),
         NEW start, NEW end, NEW content \in Seq(Item),
         Around(kind, cells, capacity, start, end, content),
         NEW items \in Seq(Item), end + Len(items) <= start
  PROVE  Around(kind, Ring!Put(cells, end, items), capacity, start, end + Len(items),
                content \o items)
<1> DEFINE n == Len(items)  p == Ring!Put(cells, end, items)  all == content \o items
<1>1. /\ start \in Nat /\ end \in Nat /\ 1 <= end /\ end <= start /\ start < capacity
      /\ n \in Nat /\ capacity \in Nat /\ Len(content) = end + capacity - start
      /\ end + n <= start
  BY LenProperties DEF Around, Block
<1>2. \A c \in 0 .. capacity - 1 :
        p[c] = IF end <= c /\ c < end + n THEN items[c - end + 1] ELSE cells[c]
  <2>1. end \in Nat
    BY <1>1
  <2>2. \A c \in 0 .. capacity - 1 :
          Ring!Put(cells, end, items)[c]
            = IF end <= c /\ c < end + Len(items) THEN items[c - end + 1] ELSE cells[c]
    BY <2>1, RingPut
  <2> QED
    BY <2>2
<1>3. /\ all \in Seq(Item) /\ Len(all) = Len(content) + n
      /\ \A i \in 1 .. Len(content) + n :
           all[i] = IF i <= Len(content) THEN content[i] ELSE items[i - Len(content)]
  BY ConcatProperties
<1> HIDE DEF n, p, all
<1>4. ASSUME NEW c \in start .. capacity - 1  PROVE p[c] = all[c - start + 1]
  <2>1. /\ c \in 0 .. capacity - 1 /\ ~(c < end + n)
        /\ c - start + 1 \in 1 .. end + capacity - start + n
        /\ c - start + 1 <= end + capacity - start
    BY <1>1
  <2>2. p[c] = cells[c]
    BY <1>2, <2>1
  <2>3. all[c - start + 1] = content[c - start + 1]
    BY <1>1, <1>3, <2>1
  <2> QED
    BY <2>2, <2>3 DEF Around
<1>5. ASSUME NEW c \in 0 .. end + n - 1  PROVE p[c] = all[capacity - start + c + 1]
  <2> DEFINE i == capacity - start + c + 1
  <2>1. /\ c \in 0 .. capacity - 1 /\ i \in 1 .. end + capacity - start + n
        /\ i - (end + capacity - start) = c - end + 1 /\ c < end + n /\ c \in Nat
        /\ (i <= end + capacity - start <=> c < end)
    BY <1>1
  <2> HIDE DEF i
  <2>2. CASE c < end
    <3>1. ~(end <= c) /\ c \in 0 .. end - 1
      BY <1>1, <2>1, <2>2
    <3>2. p[c] = cells[c]
      BY <1>2, <2>1, <3>1
    <3>3. all[i] = content[i]
      BY <1>1, <1>3, <2>1, <2>2
    <3>4. cells[c] = content[i]
      BY <3>1 DEF Around, i
    <3> QED
      BY <3>2, <3>3, <3>4 DEF i
  <2>3. CASE ~(c < end)
    <3>1. end <= c
      BY <1>1, <2>1, <2>3
    <3>2. p[c] = items[c - end + 1]
      BY <1>2, <2>1, <3>1
    <3>3. all[i] = items[i - (end + capacity - start)]
      BY <1>1, <1>3, <2>1, <2>3
    <3> QED
      BY <2>1, <3>2, <3>3 DEF i
  <2> QED
    BY <2>2, <2>3
<1>6. ASSUME kind = "objects", NEW c \in end + n .. start - 1  PROVE p[c] = -1
  <2>1. c \in 0 .. capacity - 1 /\ ~(c < end + n) /\ c \in end .. start - 1
    BY <1>1
  <2>2. p[c] = cells[c]
    BY <1>2, <2>1
  <2> QED
    BY <1>6, <2>1, <2>2 DEF Around
<1>7. /\ end + n \in Nat /\ 1 <= end + n /\ Len(all) = end + n + capacity - start
  BY <1>1, <1>3
<1>8. Around(kind, p, capacity, start, end + n, all)
  BY <1>1, <1>4, <1>5, <1>6, <1>7 DEF Around
<1> QED
  BY <1>8 DEF n, p, all

(* Memory that was just allocated *)
LEMMA FreshBlock ==
  ASSUME NEW kind, NEW capacity \in Nat \ {0}
  PROVE  /\ Block(Ring!Allocated(capacity), capacity)
         /\ Nowhere(kind, Ring!Allocated(capacity), capacity, <<>>)
<1> DEFINE a == Ring!Allocated(capacity)
<1>1. a = [c \in 0 .. capacity - 1 |-> -1]
  BY DEF Ring!Allocated, Ring!Garbage
<1> HIDE DEF a
<1>2. Block(a, capacity)
  BY <1>1 DEF Block, Cell
<1>3. \A c \in 0 .. capacity - 1 : a[c] = -1
  BY <1>1
<1> QED
  BY <1>2, <1>3 DEF Nowhere, a

(* Cells are vacated. *)
Emptied(cells, capacity, gone) ==
  [c \in 0 .. capacity - 1 |-> IF c \in gone THEN -1 ELSE cells[c]]

(* What they are then *)
LEMMA VacatedBlock ==
  ASSUME NEW capacity, NEW cells, Block(cells, capacity), NEW gone
  PROVE  /\ Block(Emptied(cells, capacity, gone), capacity)
         /\ \A c \in 0 .. capacity - 1 :
              Emptied(cells, capacity, gone)[c] = IF c \in gone THEN -1 ELSE cells[c]
<1> DEFINE v == Emptied(cells, capacity, gone)
<1>1. v = [c \in 0 .. capacity - 1 |-> IF c \in gone THEN -1 ELSE cells[c]]
  BY DEF Emptied
<1>2. \A c \in 0 .. capacity - 1 : cells[c] \in Cell
  BY DEF Block
<1> HIDE DEF v
<1>3. \A c \in 0 .. capacity - 1 : v[c] = (IF c \in gone THEN -1 ELSE cells[c]) /\ v[c] \in Cell
  BY <1>1, <1>2 DEF Cell
<1>4. Block(v, capacity)
  BY <1>1, <1>3 DEF Block
<1> QED
  BY <1>3, <1>4 DEF v

(* Some of the items that lie side by side are taken, *)
LEMMA TakeStraight ==
  ASSUME NEW kind, NEW capacity, NEW cells, Block(cells, capacity),
         NEW start, NEW end, NEW content \in Seq(Item),
         Straight(kind, cells, capacity, start, end, content),
         NEW n \in 0 .. end - start - 1
  PROVE  Straight(kind, Emptied(cells, capacity, start .. start + n - 1), capacity,
                  start + n, end, SubSeq(content, n + 1, Len(content)))
<1> DEFINE v == Emptied(cells, capacity, start .. start + n - 1)
           t == SubSeq(content, n + 1, Len(content))
<1>1. /\ start \in Nat /\ end \in Nat /\ start < end /\ end <= capacity /\ n \in Nat
      /\ capacity \in Nat /\ Len(content) = end - start /\ start + n < end
  BY DEF Straight, Block
<1>2. \A c \in 0 .. capacity - 1 : v[c] = IF c \in start .. start + n - 1 THEN -1 ELSE cells[c]
  <2> DEFINE gone == start .. start + n - 1
  <2>1. v = Emptied(cells, capacity, gone)
    OBVIOUS
  <2> HIDE DEF gone, v
  <2>2. \A c \in 0 .. capacity - 1 : v[c] = IF c \in gone THEN -1 ELSE cells[c]
    BY <2>1, VacatedBlock
  <2> QED
    BY <2>2 DEF gone
<1>3. /\ t \in Seq(Item) /\ Len(t) = Len(content) - n
      /\ \A i \in 1 .. Len(content) - n : t[i] = content[n + i]
  <2>1. n \in 0 .. Len(content)
    BY <1>1
  <2> QED
    BY <2>1, OtherItems
<1> HIDE DEF v, t
<1>4. ASSUME NEW c \in start + n .. end - 1  PROVE v[c] = t[c - (start + n) + 1]
  <2> DEFINE i == c - (start + n) + 1
  <2>1. /\ c \in 0 .. capacity - 1 /\ c \notin start .. start + n - 1 /\ c \in start .. end - 1
        /\ i \in 1 .. end - start - n /\ n + i = c - start + 1
    BY <1>1
  <2> HIDE DEF i
  <2>2. v[c] = cells[c] /\ t[i] = content[n + i]
    BY <1>1, <1>2, <1>3, <2>1
  <2>3. cells[c] = content[c - start + 1]
    BY <2>1 DEF Straight
  <2> QED
    BY <2>1, <2>2, <2>3 DEF i
<1>5. ASSUME kind = "objects", NEW c \in 0 .. capacity - 1, c < start + n \/ c >= end
      PROVE  v[c] = -1
  <2>1. c \in start .. start + n - 1 \/ c < start \/ c >= end
    BY <1>1, <1>5
  <2>2. c < start \/ c >= end => cells[c] = -1
    BY <1>5 DEF Straight
  <2> QED
    BY <1>2, <2>1, <2>2
<1>6. Len(t) = end - (start + n) /\ start + n \in Nat
  BY <1>1, <1>3
<1>7. Straight(kind, v, capacity, start + n, end, t)
  BY <1>1, <1>4, <1>5, <1>6 DEF Straight
<1> QED
  BY <1>7 DEF v, t

(* some of those in front of the end of the memory, *)
LEMMA TakeAround ==
  ASSUME NEW kind, NEW capacity, NEW cells, Block(cells, capacity),
         NEW start, NEW end, NEW content \in Seq(Item),
         Around(kind, cells, capacity, start, end, content),
         NEW n \in 0 .. capacity - start
  PROVE  LET v == Emptied(cells, capacity, start .. start + n - 1)
             t == SubSeq(content, n + 1, Len(content))
         IN IF n = capacity - start THEN Straight(kind, v, capacity, 0, end, t)
            ELSE Around(kind, v, capacity, start + n, end, t)
<1> DEFINE v == Emptied(cells, capacity, start .. start + n - 1)
           t == SubSeq(content, n + 1, Len(content))
<1>1. /\ start \in Nat /\ end \in Nat /\ 1 <= end /\ end <= start /\ start < capacity
      /\ capacity \in Nat /\ Len(content) = end + capacity - start
  BY DEF Around, Block
<1>0. n \in Nat /\ start + n <= capacity
  BY <1>1
<1>2. \A c \in 0 .. capacity - 1 : v[c] = IF c \in start .. start + n - 1 THEN -1 ELSE cells[c]
  <2> DEFINE gone == start .. start + n - 1
  <2>1. v = Emptied(cells, capacity, gone)
    OBVIOUS
  <2> HIDE DEF gone, v
  <2>2. \A c \in 0 .. capacity - 1 : v[c] = IF c \in gone THEN -1 ELSE cells[c]
    BY <2>1, VacatedBlock
  <2> QED
    BY <2>2 DEF gone
<1>3. /\ t \in Seq(Item) /\ Len(t) = Len(content) - n
      /\ \A i \in 1 .. Len(content) - n : t[i] = content[n + i]
  <2>1. n \in 0 .. Len(content)
    BY <1>0, <1>1
  <2> QED
    BY <2>1, OtherItems
<1> HIDE DEF v, t
<1>4. ASSUME NEW c \in start + n .. capacity - 1  PROVE v[c] = t[c - (start + n) + 1]
  <2> DEFINE i == c - (start + n) + 1
  <2>1. /\ c \in 0 .. capacity - 1 /\ c \notin start .. start + n - 1
        /\ c \in start .. capacity - 1
        /\ i \in 1 .. end + capacity - start - n /\ n + i = c - start + 1
    BY <1>0, <1>1
  <2> HIDE DEF i
  <2>2. v[c] = cells[c] /\ t[i] = content[n + i]
    BY <1>1, <1>2, <1>3, <2>1
  <2>3. cells[c] = content[c - start + 1]
    BY <2>1 DEF Around
  <2> QED
    BY <2>1, <2>2, <2>3 DEF i
<1>5. ASSUME NEW c \in 0 .. end - 1  PROVE v[c] = t[capacity - (start + n) + c + 1]
  <2> DEFINE i == capacity - (start + n) + c + 1
  <2>1. /\ c \in 0 .. capacity - 1 /\ c \notin start .. start + n - 1
        /\ i \in 1 .. end + capacity - start - n /\ n + i = capacity - start + c + 1
    BY <1>0, <1>1
  <2> HIDE DEF i
  <2>2. v[c] = cells[c] /\ t[i] = content[n + i]
    BY <1>1, <1>2, <1>3, <2>1
  <2>3. cells[c] = content[capacity - start + c + 1]
    BY DEF Around
  <2> QED
    BY <2>1, <2>2, <2>3 DEF i
<1>6. ASSUME kind = "objects", NEW c \in end .. start + n - 1  PROVE v[c] = -1
  <2>1. /\ c \in 0 .. capacity - 1
        /\ c \in start .. start + n - 1 \/ c \in end .. start - 1
    BY <1>0, <1>1
  <2>2. c \in end .. start - 1 => cells[c] = -1
    BY <1>6 DEF Around
  <2> QED
    BY <1>2, <2>1, <2>2
<1>7. Len(t) = end + capacity - start - n
  BY <1>1, <1>3
<1>8. CASE n = capacity - start
  <2>1. start + n = capacity /\ end <= capacity /\ 0 < end /\ 0 \in Nat
        /\ Len(t) = end - 0
    BY <1>1, <1>7, <1>8
  <2>2. ASSUME NEW c \in 0 .. end - 1  PROVE v[c] = t[c - 0 + 1]
    <3>1. capacity - (start + n) + c + 1 = c - 0 + 1
      BY <1>1, <2>1
    <3> QED
      BY <1>5, <3>1
  <2>3. ASSUME kind = "objects", NEW c \in 0 .. capacity - 1, c < 0 \/ c >= end
        PROVE  v[c] = -1
    <3>1. c \in end .. start + n - 1
      BY <1>1, <2>1, <2>3
    <3> QED
      BY <1>6, <2>3, <3>1
  <2>4. Straight(kind, v, capacity, 0, end, t)
    BY <1>1, <2>1, <2>2, <2>3 DEF Straight
  <2> QED
    BY <1>8, <2>4 DEF v, t
<1>9. CASE n # capacity - start
  <2>1. /\ start + n \in Nat /\ start + n < capacity /\ end <= start + n
        /\ Len(t) = end + capacity - (start + n)
    BY <1>0, <1>1, <1>7, <1>9
  <2>2. Around(kind, v, capacity, start + n, end, t)
    BY <1>1, <1>4, <1>5, <1>6, <2>1 DEF Around
  <2> QED
    BY <1>9, <2>2 DEF v, t
<1> QED
  BY <1>8, <1>9

(* or all of them. *)
LEMMA TakeAll ==
  ASSUME NEW kind, NEW capacity, NEW cells, Block(cells, capacity),
         NEW start, NEW end, NEW content \in Seq(Item), NEW gone,
         \/ /\ Straight(kind, cells, capacity, start, end, content)
            /\ gone = start .. end - 1
         \/ /\ Around(kind, cells, capacity, start, end, content)
            /\ gone = (start .. capacity - 1) \cup (0 .. end - 1)
  PROVE  /\ Nowhere(kind, Emptied(cells, capacity, gone), capacity, <<>>)
         /\ SubSeq(content, Len(content) + 1, Len(content)) = <<>>
<1> DEFINE v == Emptied(cells, capacity, gone)
<1>1. \A c \in 0 .. capacity - 1 : v[c] = IF c \in gone THEN -1 ELSE cells[c]
  BY VacatedBlock
<1>2. capacity \in Nat
  BY DEF Block
<1> HIDE DEF v
<1>3. ASSUME kind = "objects", NEW c \in 0 .. capacity - 1  PROVE v[c] = -1
  <2>1. CASE c \in gone
    BY <1>1, <2>1
  <2>2. CASE c \notin gone
    <3>1. v[c] = cells[c]
      BY <1>1, <2>2
    <3>2. CASE Straight(kind, cells, capacity, start, end, content) /\ gone = start .. end - 1
      <4>1. start \in Nat /\ end \in Nat
        BY <3>2 DEF Straight
      <4>2. c < start \/ c >= end
        BY <1>2, <2>2, <3>2, <4>1
      <4> QED
        BY <1>3, <3>1, <3>2, <4>2 DEF Straight
    <3>3. CASE /\ Around(kind, cells, capacity, start, end, content)
               /\ gone = (start .. capacity - 1) \cup (0 .. end - 1)
      <4>1. start \in Nat /\ end \in Nat
        BY <3>3 DEF Around
      <4>2. c \in end .. start - 1
        BY <1>2, <2>2, <3>3, <4>1
      <4> QED
        BY <1>3, <3>1, <3>3, <4>2 DEF Around
    <3> QED
      BY <3>2, <3>3
  <2> QED
    BY <2>1, <2>2
<1>4. Nowhere(kind, v, capacity, <<>>)
  BY <1>3 DEF Nowhere
<1>5. SubSeq(content, Len(content) + 1, Len(content)) = <<>>
  BY LenProperties, SubSeqEmpty
<1> QED
  BY <1>4, <1>5 DEF v
(* A ring queue, how its items lie, and what an operation makes of it *)
IsRing(r) ==
  /\ r \in [kind : {"bytes", "words", "objects"}, cells : Memory, capacity : Nat \ {0},
            startIndex : Int, endIndex : Int, content : Seq(Item), next : Nat,
            intact : BOOLEAN]
  /\ Block(r.cells, r.capacity)

Lies(kind, cells, capacity, start, end, content) ==
  \/ start = -1 /\ Nowhere(kind, cells, capacity, content)
  \/ Straight(kind, cells, capacity, start, end, content)
  \/ Around(kind, cells, capacity, start, end, content)

RingLies(r) ==
  Lies(r.kind, r.cells, r.capacity, r.startIndex, r.endIndex, r.content)

RingInv ==
  /\ ring.kind \in {"bytes", "words", "objects"} /\ ring.cells \in Memory
  /\ ring.intact => IsRing(ring) /\ RingLies(ring)

Part(r, cells, capacity, start, end) ==
  [kind |-> r.kind, cells |-> cells, capacity |-> capacity, startIndex |-> start,
   endIndex |-> end, content |-> r.content, next |-> r.next, intact |-> r.intact]

Whole(r, cells, capacity, start, end, content, next, intact) ==
  [kind |-> r.kind, cells |-> cells, capacity |-> capacity, startIndex |-> start,
   endIndex |-> end, content |-> content, next |-> next, intact |-> intact]

(* Its memory and its indexes are exchanged, *)
LEMMA PartMade ==
  ASSUME NEW r, IsRing(r), NEW cells, NEW capacity, NEW start, NEW end, NEW q,
         q = [r EXCEPT !.cells = cells, !.capacity = capacity, !.startIndex = start,
                        !.endIndex = end]
  PROVE  q = Part(r, cells, capacity, start, end)
BY DEF IsRing, Part

(* all but the capacity, *)
LEMMA PartMoved ==
  ASSUME NEW r, IsRing(r), NEW cells, NEW start, NEW end, NEW q,
         q = [r EXCEPT !.cells = cells, !.startIndex = start, !.endIndex = end]
  PROVE  q = Part(r, cells, r.capacity, start, end)
BY DEF IsRing, Part

(* the start, *)
LEMMA PartShortened ==
  ASSUME NEW r, IsRing(r), NEW cells, NEW start, NEW q,
         q = [r EXCEPT !.cells = cells, !.startIndex = start]
  PROVE  q = Part(r, cells, r.capacity, start, r.endIndex)
BY DEF IsRing, Part

(* the end, *)
LEMMA PartExtended ==
  ASSUME NEW r, IsRing(r), NEW cells, NEW end, NEW q,
         q = [r EXCEPT !.cells = cells, !.endIndex = end]
  PROVE  q = Part(r, cells, r.capacity, r.startIndex, end)
BY DEF IsRing, Part

(* or the block of memory. *)
LEMMA PartGrown ==
  ASSUME NEW r, IsRing(r), NEW cells, NEW capacity, NEW q,
         q = [r EXCEPT !.cells = cells, !.capacity = capacity]
  PROVE  q = Part(r, cells, capacity, r.startIndex, r.endIndex)
BY DEF IsRing, Part

(* What the queue finds out about itself *)
LEMMA RingShape ==
  ASSUME NEW r, IsRing(r), RingLies(r)
  PROVE  /\ Ring!Empty(r) <=> r.startIndex = -1
         /\ Ring!Empty(r) => Nowhere(r.kind, r.cells, r.capacity, r.content)
         /\ Ring!Linear(r) => Straight(r.kind, r.cells, r.capacity, r.startIndex,
                                       r.endIndex, r.content)
         /\ Ring!Wrapped(r) => Around(r.kind, r.cells, r.capacity, r.startIndex,
                                      r.endIndex, r.content)
         /\ Ring!Count(r) = Len(r.content) /\ Len(r.content) \in Nat
<1>1. r.content \in Seq(Item) /\ Len(r.content) \in Nat /\ r.capacity \in Nat
      /\ r.startIndex \in Int /\ r.endIndex \in Int
  BY LenProperties DEF IsRing
<1>2. Ring!Empty(r) <=> r.startIndex = -1
  BY DEF Ring!Empty, Ring!InvalidIndex
<1>3. CASE r.startIndex = -1 /\ Nowhere(r.kind, r.cells, r.capacity, r.content)
  BY <1>1, <1>2, <1>3 DEF Ring!Linear, Ring!Wrapped, Ring!Count, Nowhere, Straight, Around
<1>4. CASE Straight(r.kind, r.cells, r.capacity, r.startIndex, r.endIndex, r.content)
  <2>1. r.startIndex \in Nat /\ r.startIndex < r.endIndex
        /\ Len(r.content) = r.endIndex - r.startIndex
    BY <1>4 DEF Straight
  <2>2. ~Ring!Empty(r) /\ Ring!Linear(r) /\ ~Ring!Wrapped(r)
    BY <1>2, <2>1 DEF Ring!Linear, Ring!Wrapped
  <2> QED
    BY <1>1, <1>2, <1>4, <2>1, <2>2 DEF Ring!Count
<1>5. CASE Around(r.kind, r.cells, r.capacity, r.startIndex, r.endIndex, r.content)
  <2>1. r.startIndex \in Nat /\ r.endIndex <= r.startIndex
        /\ Len(r.content) = r.endIndex + r.capacity - r.startIndex
    BY <1>5 DEF Around
  <2>2. ~Ring!Empty(r) /\ ~Ring!Linear(r) /\ Ring!Wrapped(r)
    BY <1>1, <1>2, <2>1 DEF Ring!Linear, Ring!Wrapped
  <2>3. r.endIndex + r.capacity - r.startIndex = r.endIndex + (r.capacity - r.startIndex)
    BY <1>1
  <2> QED
    BY <1>1, <1>2, <1>5, <2>1, <2>2, <2>3 DEF Ring!Count
<1> QED
  BY <1>3, <1>4, <1>5 DEF RingLies, Lies

(* Whatever is written into the memory, it remains memory. *)
LEMMA StillBlock ==
  ASSUME NEW capacity, NEW cells, Block(cells, capacity), NEW at,
         NEW items \in Seq(Cell)
  PROVE  Block(Ring!Put(cells, at, items), capacity)
<1> DEFINE p == Ring!Put(cells, at, items)
<1>1. DOMAIN items = 1 .. Len(items) /\ \A i \in DOMAIN items : items[i] \in Cell
  BY LenProperties, ElementOfSeq
<1>2. DOMAIN cells = 0 .. capacity - 1 /\ \A c \in 0 .. capacity - 1 : cells[c] \in Cell
  BY DEF Block
<1>3. p = [c \in 0 .. capacity - 1 |->
             IF c - at + 1 \in DOMAIN items THEN items[c - at + 1] ELSE cells[c]]
  BY <1>2 DEF Ring!Put
<1> HIDE DEF p
<1>4. \A c \in 0 .. capacity - 1 : p[c] \in Cell
  BY <1>1, <1>2, <1>3
<1>5. Block(p, capacity)
  BY <1>3, <1>4 DEF Block
<1> QED
  BY <1>5 DEF p

(* A cell may hold an item. *)
LEMMA ItemsAreCells == Seq(Item) \subseteq Seq(Cell)
BY SeqMonotonic DEF Cell

(* A block of cells is memory. *)
LEMMA BlockIsMemory ==
  ASSUME NEW cells, NEW capacity, Block(cells, capacity)  PROVE cells \in Memory
BY DEF Block, Memory

(* Some of the items of a sequence *)
LEMMA SomeOf ==
  ASSUME NEW S, NEW s \in Seq(S), NEW m \in Nat \ {0}, NEW n \in 0 .. Len(s)
  PROVE  SubSeq(s, m, n) \in Seq(S)
<1>1. \A i \in m .. n : s[i] \in S
  <2>1. Len(s) \in Nat
    BY LenProperties
  <2>2. \A i \in m .. n : i \in 1 .. Len(s)
    BY <2>1
  <2> QED
    BY <2>2, ElementOfSeq
<1>2. m \in Int /\ n \in Int
  OBVIOUS
<1> QED
  BY <1>1, <1>2, SubSeqProperties

(* Nothing is written. *)
LEMMA PutNothing ==
  ASSUME NEW capacity, NEW cells, Block(cells, capacity), NEW at
  PROVE  Ring!Put(cells, at, <<>>) = cells
<1>1. \A c \in DOMAIN cells : c - at + 1 \notin DOMAIN <<>>
  OBVIOUS
<1>2. cells = [c \in DOMAIN cells |-> cells[c]]
  BY DEF Block
<1> QED
  BY <1>1, <1>2 DEF Ring!Put

(* A call to Write() leaves the items where they belong, unless the code    *)
(* executes it wrongly.                                                     *)
WellWritten(r, items, count, cells, capacity, start, end) ==
  /\ Ring!Written(r, items, count) = Part(r, cells, capacity, start, end)
  /\ cells \in Memory
  /\ ~Ring!WriteMishandled(r, items, count) =>
       /\ Block(cells, capacity) /\ start \in Int /\ end \in Int
       /\ Lies(r.kind, cells, capacity, start, end, r.content \o items)

(* It does so in an empty queue, whose memory may have to grow, *)
LEMMA WrittenInEmpty ==
  ASSUME NEW r, IsRing(r), RingLies(r), NEW count \in Nat \ {0},
         NEW items \in Seq(Item), Len(items) <= count, Ring!Empty(r)
  PROVE  \E cells, capacity, start, end :
           WellWritten(r, items, count, cells, capacity, start, end)
<1>1. /\ Nowhere(r.kind, r.cells, r.capacity, r.content) /\ Block(r.cells, r.capacity)
      /\ r.capacity \in Nat \ {0} /\ Len(items) \in Nat
  BY RingShape, LenProperties DEF IsRing
<1> DEFINE start == IF items = <<>> THEN -1 ELSE 0  end == Len(items)
<1>2. start \in Int /\ end \in Int
  BY <1>1
<1>3. CASE count > r.capacity
  <2> DEFINE fresh == Ring!Allocated(r.capacity)  cells == Ring!Put(fresh, 0, items)
             capacity == Ring!UpperPowerOfTwo(count)
             grown == [r EXCEPT !.cells = fresh, !.capacity = capacity]
  <2>1. Ring!Written(r, items, count) = Ring!EmplaceInEmpty(grown, items)
    BY <1>3 DEF Ring!Written, Ring!Linear, Ring!Wrapped
  <2>2. grown = Part(r, fresh, capacity, r.startIndex, r.endIndex)
    <3> HIDE DEF fresh, capacity
    <3> QED
      BY PartGrown
  <2>3. Ring!EmplaceInEmpty(grown, items) = Part(r, cells, capacity, start, end)
    <3> HIDE DEF fresh, capacity
    <3> QED
      <4> DEFINE q == Ring!EmplaceInEmpty(grown, items)
      <4>1. q = [grown EXCEPT !.cells = Ring!Put(@, 0, items), !.startIndex = start,
                              !.endIndex = end]
        BY DEF Ring!EmplaceInEmpty, Ring!InvalidIndex
      <4>2. grown.cells = fresh
        BY <2>2 DEF Part
      <4> HIDE DEF q, grown, start, end
      <4>3. q = [grown EXCEPT !.cells = cells, !.startIndex = start, !.endIndex = end]
        BY <4>1, <4>2
      <4> HIDE DEF cells
      <4> QED
        BY <2>2, <4>3 DEF Part, q
  <2>4. cells \in Memory
    <3>1. Block(fresh, r.capacity)
      BY <1>1, FreshBlock
    <3>2. items \in Seq(Cell)
      BY ItemsAreCells
    <3> HIDE DEF fresh
    <3>3. Block(cells, r.capacity)
      BY <3>1, <3>2, StillBlock
    <3> QED
      BY <3>3, BlockIsMemory
  <2>5. Ring!WriteMishandled(r, items, count)
    BY <1>3 DEF Ring!WriteMishandled
  <2>6. WellWritten(r, items, count, cells, capacity, start, end)
    BY <2>1, <2>3, <2>4, <2>5 DEF WellWritten
  <2> QED
    BY <2>6
<1>4. CASE ~(count > r.capacity)
  <2> DEFINE cells == Ring!Put(r.cells, 0, items)
  <2>1. Ring!Written(r, items, count) = Ring!EmplaceInEmpty(r, items)
    BY <1>4 DEF Ring!Written, Ring!Linear, Ring!Wrapped
  <2>2. Ring!EmplaceInEmpty(r, items)
          = [r EXCEPT !.cells = cells, !.startIndex = start, !.endIndex = end]
    BY DEF Ring!EmplaceInEmpty, Ring!InvalidIndex
  <2>3. Ring!Written(r, items, count) = Part(r, cells, r.capacity, start, end)
    <3> HIDE DEF cells, start, end
    <3> QED
      BY <2>1, <2>2, PartMoved
  <2>4. Block(cells, r.capacity) /\ cells \in Memory
    <3>1. items \in Seq(Cell)
      BY ItemsAreCells
    <3>2. Block(cells, r.capacity)
      BY <1>1, <3>1, StillBlock
    <3> QED
      BY <3>2, BlockIsMemory
  <2>5. Lies(r.kind, cells, r.capacity, start, end, r.content \o items)
    <3>1. CASE items = <<>>
      <4>1. cells = r.cells /\ r.content \o items = r.content /\ start = -1
        BY <1>1, <3>1, PutNothing DEF Nowhere
      <4> QED
        BY <1>1, <4>1 DEF Lies
    <3>2. CASE items # <<>>
      <4>1. Len(items) <= r.capacity
        BY <1>1, <1>4
      <4>2. Straight(r.kind, cells, r.capacity, 0, end, r.content \o items)
        BY <1>1, <3>2, <4>1, PutFirst
      <4>3. start = 0
        BY <3>2
      <4> QED
        BY <4>2, <4>3 DEF Lies
    <3> QED
      BY <3>1, <3>2
  <2>6. WellWritten(r, items, count, cells, r.capacity, start, end)
    BY <1>2, <2>3, <2>4, <2>5 DEF WellWritten
  <2> QED
    BY <2>6
<1> QED
  BY <1>3, <1>4

(* where there is room behind the last item, *)
LEMMA WrittenBehind ==
  ASSUME NEW r, IsRing(r), RingLies(r), NEW count \in Nat \ {0},
         NEW items \in Seq(Item), Len(items) <= count,
         \/ Ring!Linear(r) /\ count <= r.capacity - r.endIndex
         \/ Ring!Wrapped(r) /\ count <= r.startIndex - r.endIndex
  PROVE  \E cells, capacity, start, end :
           WellWritten(r, items, count, cells, capacity, start, end)
<1> DEFINE cells == Ring!Put(r.cells, r.endIndex, items)
           end == r.endIndex + Len(items)
<1>1. /\ Block(r.cells, r.capacity) /\ r.capacity \in Nat \ {0} /\ Len(items) \in Nat
      /\ r.startIndex \in Int /\ r.endIndex \in Int /\ r.content \in Seq(Item)
  BY LenProperties DEF IsRing
<1>2. Ring!Written(r, items, count) = Ring!EmplaceBehind(r, items)
  BY <1>1 DEF Ring!Written, Ring!Linear, Ring!Wrapped
<1>3. Ring!EmplaceBehind(r, items) = [r EXCEPT !.cells = cells, !.endIndex = end]
  BY DEF Ring!EmplaceBehind
<1>4. Ring!Written(r, items, count) = Part(r, cells, r.capacity, r.startIndex, end)
  <2> HIDE DEF cells, end
  <2> QED
    BY <1>2, <1>3, PartExtended
<1>5. Block(cells, r.capacity) /\ cells \in Memory
  <2>1. items \in Seq(Cell)
    BY ItemsAreCells
  <2>2. Block(cells, r.capacity)
    BY <1>1, <2>1, StillBlock
  <2> QED
    BY <2>2, BlockIsMemory
<1>6. Lies(r.kind, cells, r.capacity, r.startIndex, end, r.content \o items)
  <2>1. CASE Ring!Linear(r) /\ count <= r.capacity - r.endIndex
    <3>1. r.endIndex + Len(items) <= r.capacity
      BY <1>1, <2>1
    <3>2. Straight(r.kind, r.cells, r.capacity, r.startIndex, r.endIndex, r.content)
      BY <2>1, RingShape
    <3>3. Straight(r.kind, cells, r.capacity, r.startIndex, end, r.content \o items)
      BY <1>1, <3>1, <3>2, PutBehind
    <3> QED
      BY <3>3 DEF Lies
  <2>2. CASE Ring!Wrapped(r) /\ count <= r.startIndex - r.endIndex
    <3>1. r.endIndex + Len(items) <= r.startIndex
      BY <1>1, <2>2
    <3>2. Around(r.kind, r.cells, r.capacity, r.startIndex, r.endIndex, r.content)
      BY <2>2, RingShape
    <3>3. Around(r.kind, cells, r.capacity, r.startIndex, end, r.content \o items)
      BY <1>1, <3>1, <3>2, PutBetween
    <3> QED
      BY <3>3 DEF Lies
  <2> QED
    BY <2>1, <2>2
<1>7. end \in Int
  BY <1>1
<1> HIDE DEF cells, end
<1>8. WellWritten(r, items, count, cells, r.capacity, r.startIndex, end)
  BY <1>1, <1>4, <1>5, <1>6, <1>7 DEF WellWritten
<1> QED
  BY <1>8

(* where the items wrap around the end of the memory, *)
LEMMA WrittenAround ==
  ASSUME NEW r, IsRing(r), RingLies(r), NEW count \in Nat \ {0},
         NEW items \in Seq(Item), Len(items) <= count,
         Ring!Linear(r), count > r.capacity - r.endIndex, Ring!FitsAround(r, count)
  PROVE  \E cells, capacity, start, end :
           WellWritten(r, items, count, cells, capacity, start, end)
<1> DEFINE left == r.capacity - r.endIndex
           around == SubSeq(items, left + 1, Len(items))
           put == Ring!Put(r.cells, r.endIndex, items)
           cells == Ring!Put(put, 0, around)
           end == IF items = <<>> THEN r.endIndex ELSE Len(items) - left
<1>1. /\ Block(r.cells, r.capacity) /\ r.capacity \in Nat \ {0} /\ Len(items) \in Nat
      /\ r.startIndex \in Int /\ r.endIndex \in Int /\ r.content \in Seq(Item)
  BY LenProperties DEF IsRing
<1>2. /\ Straight(r.kind, r.cells, r.capacity, r.startIndex, r.endIndex, r.content)
      /\ r.endIndex \in Nat /\ r.endIndex <= r.capacity
  BY RingShape DEF Straight
<1>3. Ring!Written(r, items, count) = Ring!EmplaceAround(r, items)
  BY <1>1 DEF Ring!Written, Ring!Linear, Ring!Wrapped
<1>4. Ring!EmplaceAround(r, items) = [r EXCEPT !.cells = cells, !.endIndex = end]
  BY DEF Ring!EmplaceAround
<1>5. Ring!Written(r, items, count) = Part(r, cells, r.capacity, r.startIndex, end)
  <2> HIDE DEF cells, end
  <2> QED
    BY <1>3, <1>4, PartExtended
<1>6. left + 1 \in Nat \ {0} /\ Len(items) \in 0 .. Len(items) /\ left \in Nat
  BY <1>1, <1>2
<1>7. around \in Seq(Item)
  <2> HIDE DEF left
  <2> QED
    BY <1>6, SomeOf
<1>8. Block(cells, r.capacity) /\ cells \in Memory
  <2>1. items \in Seq(Cell) /\ around \in Seq(Cell)
    BY <1>7, ItemsAreCells
  <2>2. Block(put, r.capacity)
    BY <1>1, <2>1, StillBlock
  <2> HIDE DEF put, around
  <2>3. Block(cells, r.capacity)
    BY <2>1, <2>2, StillBlock
  <2> QED
    BY <2>3, BlockIsMemory
<1>9. ASSUME ~Ring!WriteMishandled(r, items, count)
      PROVE  Lies(r.kind, cells, r.capacity, r.startIndex, end, r.content \o items)
  <2>1. ~(Len(items) < count) \/ (~(r.endIndex < r.capacity) /\ items = <<>>)
    BY <1>9 DEF Ring!WriteMishandled
  <2>2. CASE ~(Len(items) < count)
    <3>1. Len(items) = count
      BY <1>1, <2>2
    <3>2. count - left < r.startIndex + (IF r.kind = "objects" THEN 0 ELSE 1)
      BY DEF Ring!FitsAround
    <3>3. items # <<>>
      BY <3>1
    <3> DEFINE wrapped == Len(items) - (r.capacity - r.endIndex)
    <3>4. wrapped > 0 /\ wrapped <= r.startIndex /\ end = wrapped
      BY <1>1, <3>1, <3>2, <3>3
    <3> HIDE DEF end
    <3>5. Around(r.kind, cells, r.capacity, r.startIndex, wrapped, r.content \o items)
      <4>1. wrapped = Len(items) - (r.capacity - r.endIndex)
        OBVIOUS
      <4> HIDE DEF wrapped
      <4> QED
        BY <1>1, <1>2, <3>4, <4>1, PutAround
    <3> QED
      BY <3>4, <3>5 DEF Lies
  <2>3. CASE ~(r.endIndex < r.capacity) /\ items = <<>>
    <3>1. around = <<>>
      <4>1. left + 1 \in Int /\ Len(items) \in Int /\ Len(items) < left + 1
        BY <1>6, <2>3
      <4> HIDE DEF left
      <4> QED
        BY <4>1, SubSeqEmpty
    <3>2. cells = r.cells
      BY <1>1, <2>3, <3>1, PutNothing
    <3>3. end = r.endIndex /\ r.content \o items = r.content
      BY <1>1, <2>3, ConcatEmptySeq
    <3> QED
      BY <1>2, <3>2, <3>3 DEF Lies
  <2> QED
    BY <2>1, <2>2, <2>3
<1>10. end \in Int
  BY <1>1, <1>6
<1> HIDE DEF cells, end
<1>11. WellWritten(r, items, count, cells, r.capacity, r.startIndex, end)
  BY <1>1, <1>5, <1>8, <1>9, <1>10 DEF WellWritten
<1> QED
  BY <1>11

(* Words are not copied entirely. *)
LEMMA CopiedItems ==
  ASSUME NEW r, NEW S, NEW items \in Seq(S), WordSize \in Nat \ {0}
  PROVE  /\ Ring!Copied(r, items) \in Seq(S)
         /\ r.kind # "words" => Ring!Copied(r, items) = items
<1>1. CASE r.kind = "words"
  <2> DEFINE n == Len(items) \div WordSize
  <2>1. Len(items) \in Nat
    BY LenProperties
  <2>2. n \in 0 .. Len(items)
    BY <2>1
  <2>3. Ring!Copied(r, items) = SubSeq(items, 1, n)
    BY <1>1 DEF Ring!Copied
  <2> HIDE DEF n
  <2>4. 1 \in Nat \ {0}
    OBVIOUS
  <2>5. SubSeq(items, 1, n) \in Seq(S)
    <3> DEFINE m == 1
    <3>1. m \in Nat \ {0}
      OBVIOUS
    <3> HIDE DEF m
    <3>2. SubSeq(items, m, n) \in Seq(S)
      BY <2>2, <3>1, SomeOf
    <3> QED
      BY <3>2 DEF m
  <2> QED
    BY <1>1, <2>3, <2>5
<1>2. CASE r.kind # "words"
  BY <1>2 DEF Ring!Copied
<1> QED
  BY <1>1, <1>2

(* where items that lie side by side move into a larger block, *)
LEMMA WrittenIntoLarger ==
  ASSUME NEW r, IsRing(r), RingLies(r), NEW count \in Nat \ {0},
         NEW items \in Seq(Item), Len(items) <= count, WordSize \in Nat \ {0},
         Ring!Linear(r), count > r.capacity - r.endIndex, ~Ring!FitsAround(r, count)
  PROVE  \E cells, capacity, start, end :
           WellWritten(r, items, count, cells, capacity, start, end)
<1> DEFINE used == Len(r.content)
           existing == [i \in 1 .. used |-> r.cells[r.startIndex + i - 1]]
           total == used + count
           capacity == Ring!UpperPowerOfTwo(total)
           fresh == Ring!Allocated(capacity)
           first == Ring!Put(fresh, 0, Ring!Copied(r, existing))
           cells == Ring!Put(first, used, Ring!Copied(r, items))
           end == used + Len(items)
<1>1. /\ r.capacity \in Nat \ {0} /\ Len(items) \in Nat /\ used \in Nat
      /\ r.startIndex \in Int /\ r.endIndex \in Int /\ r.content \in Seq(Item)
  BY LenProperties DEF IsRing
<1>2. /\ Straight(r.kind, r.cells, r.capacity, r.startIndex, r.endIndex, r.content)
      /\ Ring!Count(r) = used
  BY RingShape
<1>3. existing = r.content /\ r.content # <<>> /\ used > 0
  <2>1. /\ r.startIndex \in Nat /\ r.endIndex \in Nat /\ r.startIndex < r.endIndex
        /\ used = r.endIndex - r.startIndex
        /\ \A c \in r.startIndex .. r.endIndex - 1 :
             r.cells[c] = r.content[c - r.startIndex + 1]
    BY <1>2 DEF Straight
  <2>2. used > 0
    BY <2>1
  <2>3. r.content = [i \in 1 .. used |-> r.content[i]]
    BY <1>1, LenProperties
  <2>4. ASSUME NEW i \in 1 .. used
        PROVE  r.cells[r.startIndex + i - 1] = r.content[i]
    <3> DEFINE c == r.startIndex + i - 1
    <3>1. c \in r.startIndex .. r.endIndex - 1 /\ c - r.startIndex + 1 = i
      BY <1>1, <2>1
    <3> HIDE DEF c
    <3>2. r.cells[c] = r.content[i]
      BY <2>1, <3>1
    <3> QED
      BY <3>2 DEF c
  <2>5. r.content # <<>>
    BY <1>1, <2>2, EmptySeq
  <2> QED
    BY <2>2, <2>3, <2>4, <2>5
<1>4. capacity \in Nat \ {0} /\ capacity >= total
  <2>1. total \in Nat \ {0}
    BY <1>1
  <2> HIDE DEF total
  <2>2. Ring!UpperPowerOfTwo(total) \in Nat /\ Ring!UpperPowerOfTwo(total) >= total
    BY <2>1, UpperPowers
  <2> QED
    BY <2>1, <2>2
<1>5. Ring!Written(r, items, count) = Ring!ReallocateWhenLinear(r, items, total)
  BY <1>1, <1>2 DEF Ring!Written, Ring!Linear, Ring!Wrapped
<1>6. Ring!ReallocateWhenLinear(r, items, total)
        = [r EXCEPT !.cells = cells, !.capacity = capacity, !.startIndex = 0,
                    !.endIndex = end]
  BY <1>2 DEF Ring!ReallocateWhenLinear
<1>7. Ring!Written(r, items, count) = Part(r, cells, capacity, 0, end)
  <2> DEFINE start == 0  q == Ring!Written(r, items, count)
  <2>1. q = [r EXCEPT !.cells = cells, !.capacity = capacity, !.startIndex = start,
                      !.endIndex = end]
    BY <1>5, <1>6
  <2> HIDE DEF cells, end, capacity, start, q
  <2>2. q = Part(r, cells, capacity, start, end)
    BY <2>1, PartMade
  <2> QED
    BY <2>2 DEF start, q
<1> HIDE DEF existing, capacity
<1>8. /\ Block(fresh, capacity) /\ Nowhere(r.kind, fresh, capacity, <<>>)
  BY <1>4, FreshBlock
<1>9. /\ Ring!Copied(r, existing) \in Seq(Item) /\ Ring!Copied(r, items) \in Seq(Item)
      /\ r.kind # "words" =>
           Ring!Copied(r, existing) = r.content /\ Ring!Copied(r, items) = items
  BY <1>1, <1>3, CopiedItems
<1> HIDE DEF fresh
<1>10. Block(first, capacity) /\ Block(cells, capacity) /\ cells \in Memory
  <2>1. Ring!Copied(r, existing) \in Seq(Cell) /\ Ring!Copied(r, items) \in Seq(Cell)
    BY <1>9, ItemsAreCells
  <2>2. Block(first, capacity)
    BY <1>8, <2>1, StillBlock
  <2> HIDE DEF first
  <2>3. Block(cells, capacity)
    BY <2>1, <2>2, StillBlock
  <2> QED
    BY <2>2, <2>3, BlockIsMemory
<1>11. ASSUME ~Ring!WriteMishandled(r, items, count)
       PROVE  Lies(r.kind, cells, capacity, 0, end, r.content \o items)
  <2>1. r.kind # "words"
    BY <1>11 DEF Ring!WriteMishandled
  <2>2. first = Ring!Put(fresh, 0, r.content) /\ cells = Ring!Put(first, used, items)
    BY <1>9, <2>1
  <2>3. Straight(r.kind, first, capacity, 0, used, r.content)
    <3>1. used <= capacity /\ <<>> \o r.content = r.content
      BY <1>1, <1>4, ConcatEmptySeq
    <3>2. Straight(r.kind, Ring!Put(fresh, 0, r.content), capacity, 0, used,
                   <<>> \o r.content)
      BY <1>1, <1>3, <1>8, <3>1, PutFirst
    <3> QED
      BY <2>2, <3>1, <3>2
  <2>4. used + Len(items) <= capacity
    BY <1>1, <1>4
  <2> HIDE DEF first, cells, used
  <2>5. Straight(r.kind, Ring!Put(first, used, items), capacity, 0, used + Len(items),
                 r.content \o items)
    <3> DEFINE start == 0
    <3>1. Straight(r.kind, first, capacity, start, used, r.content)
      BY <2>3
    <3> HIDE DEF start
    <3>2. Straight(r.kind, Ring!Put(first, used, items), capacity, start,
                   used + Len(items), r.content \o items)
      BY <1>1, <1>10, <2>4, <3>1, PutBehind
    <3> QED
      BY <3>2 DEF start
  <2> QED
    BY <2>2, <2>5 DEF Lies
<1>12. 0 \in Int /\ end \in Int
  BY <1>1
<1> HIDE DEF cells, end
<1>13. WellWritten(r, items, count, cells, capacity, 0, end)
  BY <1>7, <1>10, <1>11, <1>12 DEF WellWritten
<1> QED
  BY <1>13

(* A function on the first numbers is a sequence. *)
LEMMA SequenceOf ==
  ASSUME NEW S, NEW n \in Nat, NEW s \in [1 .. n -> S]
  PROVE  s \in Seq(S)
<1>1. s = [i \in 1 .. n |-> s[i]] /\ \A i \in 1 .. n : s[i] \in S
  OBVIOUS
<1> QED
  BY <1>1

(* Indexes modulo the size of a block *)
LEMMA Remainders ==
  ASSUME NEW n \in Nat \ {0}
  PROVE  /\ \A a \in Int : a % n \in 0 .. n - 1
         /\ \A a \in 0 .. n - 1 : a % n = a /\ (a + n) % n = a
OBVIOUS

(* Two halves make up the content of a queue. *)
AreHalves(first, n, second, m, content) ==
  /\ content \in Seq(Item) /\ n \in Nat /\ m \in Nat /\ Len(content) = n + m
  /\ first \in [1 .. n -> Cell] /\ second \in [1 .. m -> Cell]
  /\ \A i \in 1 .. n : first[i] = content[i]
  /\ \A i \in 1 .. m : second[i] = content[n + i]

(* ... and are joined to it. *)
Together(first, second, content) == first \o second = content

(* What holds of them *)
LEMMA Halves ==
  ASSUME NEW content, NEW n, NEW m, NEW first, NEW second,
         AreHalves(first, n, second, m, content)
  PROVE  /\ first \in Seq(Item) /\ Len(first) = n
         /\ second \in Seq(Item) /\ Len(second) = m
         /\ Together(first, second, content)
<1>0. /\ content \in Seq(Item) /\ n \in Nat /\ m \in Nat /\ Len(content) = n + m
      /\ first \in [1 .. n -> Cell] /\ second \in [1 .. m -> Cell]
      /\ \A i \in 1 .. n : first[i] = content[i]
      /\ \A i \in 1 .. m : second[i] = content[n + i]
  BY DEF AreHalves
<1>1. \A i \in 1 .. n + m : content[i] \in Item
  BY <1>0, ElementOfSeq
<1>2. /\ \A i \in 1 .. n : i \in 1 .. n + m
      /\ \A i \in 1 .. m : n + i \in 1 .. n + m
  BY <1>0
<1>3. first \in [1 .. n -> Item] /\ second \in [1 .. m -> Item]
  <2>1. \A i \in 1 .. n : first[i] \in Item
    BY <1>0, <1>1, <1>2
  <2>2. \A i \in 1 .. m : second[i] \in Item
    BY <1>0, <1>1, <1>2
  <2> QED
    BY <1>0, <2>1, <2>2
<1>4. /\ first \in Seq(Item) /\ Len(first) = n
      /\ second \in Seq(Item) /\ Len(second) = m
  BY <1>0, <1>3, SequenceOf, LenProperties
<1>5. /\ first \o second \in Seq(Item) /\ Len(first \o second) = n + m
      /\ \A i \in 1 .. n + m :
           (first \o second)[i] = IF i <= n THEN first[i] ELSE second[i - n]
  BY <1>0, <1>4, ConcatProperties
<1>6. ASSUME NEW i \in 1 .. n + m  PROVE (first \o second)[i] = content[i]
  <2>1. CASE i <= n
    <3>1. i \in 1 .. n
      BY <1>0, <2>1
    <3> QED
      BY <1>0, <1>5, <2>1, <3>1
  <2>2. CASE ~(i <= n)
    <3>1. i - n \in 1 .. m /\ n + (i - n) = i
      BY <1>0, <2>2
    <3> QED
      BY <1>0, <1>5, <2>2, <3>1
  <2> QED
    BY <1>0, <2>1, <2>2
<1>7. first \o second = content
  BY <1>0, <1>5, <1>6, SeqEqual
<1> QED
  BY <1>4, <1>7 DEF Together

(* where items that wrap around do so, *)
LEMMA WrittenUnwrapped ==
  ASSUME NEW r, IsRing(r), RingLies(r), NEW count \in Nat \ {0},
         NEW items \in Seq(Item), Len(items) <= count,
         Len(items) < count => r.kind = "objects", WordSize \in Nat \ {0},
         Ring!Wrapped(r), count > r.startIndex - r.endIndex
  PROVE  \E cells, capacity, start, end :
           WellWritten(r, items, count, cells, capacity, start, end)
<1> DEFINE used == Len(r.content)
           segment == r.capacity - r.startIndex
           first == [i \in 1 .. segment |-> r.cells[(r.endIndex + i - 1) % r.capacity]]
           second == [i \in 1 .. r.endIndex |-> r.cells[i - 1]]
           total == used + count
           capacity == Ring!UpperPowerOfTwo(total)
           fresh == Ring!Allocated(capacity)
           one == Ring!Put(fresh, 0, Ring!Copied(r, first))
           two == Ring!Put(one, segment, Ring!Copied(r, second))
           three == Ring!Put(two, segment + r.endIndex, Ring!Copied(r, items))
           cells == IF r.kind = "objects" THEN Ring!Allocated(r.capacity) ELSE three
<1>1. /\ r.capacity \in Nat \ {0} /\ Len(items) \in Nat /\ used \in Nat
      /\ r.content \in Seq(Item) /\ r.cells \in [0 .. r.capacity - 1 -> Cell]
  BY LenProperties DEF IsRing, Block
<1>2. /\ Around(r.kind, r.cells, r.capacity, r.startIndex, r.endIndex, r.content)
      /\ Ring!Count(r) = used
  BY RingShape
<1>3. /\ r.startIndex \in Nat /\ r.endIndex \in Nat /\ 1 <= r.endIndex
      /\ r.endIndex <= r.startIndex /\ r.startIndex < r.capacity
      /\ segment \in Nat /\ segment > 0 /\ used = r.endIndex + segment
  <2>1. /\ r.startIndex \in Nat /\ r.endIndex \in Nat /\ 1 <= r.endIndex
        /\ r.endIndex <= r.startIndex /\ r.startIndex < r.capacity
        /\ used = r.endIndex + r.capacity - r.startIndex
    BY <1>2 DEF Around
  <2> QED
    BY <1>1, <2>1
<1>4. capacity \in Nat \ {0} /\ capacity >= total
  <2>1. total \in Nat \ {0}
    BY <1>1
  <2> HIDE DEF total
  <2>2. Ring!UpperPowerOfTwo(total) \in Nat /\ Ring!UpperPowerOfTwo(total) >= total
    BY <2>1, UpperPowers
  <2> QED
    BY <2>1, <2>2
<1>5. Ring!Written(r, items, count) = Ring!ReallocateWhenWrapped(r, items, total)
  BY <1>1, <1>2, <1>3 DEF Ring!Written, Ring!Linear, Ring!Wrapped
<1>6. Ring!ReallocateWhenWrapped(r, items, total)
        = [r EXCEPT !.cells = cells, !.capacity = capacity, !.startIndex = 0,
                    !.endIndex = total]
  BY DEF Ring!ReallocateWhenWrapped
<1>7. Ring!Written(r, items, count) = Part(r, cells, capacity, 0, total)
  <2> DEFINE start == 0  q == Ring!Written(r, items, count)
  <2>1. q = [r EXCEPT !.cells = cells, !.capacity = capacity, !.startIndex = start,
                      !.endIndex = total]
    BY <1>5, <1>6
  <2> HIDE DEF cells, total, capacity, start, q
  <2>2. q = Part(r, cells, capacity, start, total)
    BY <2>1, PartMade
  <2> QED
    BY <2>2 DEF start, q
<1>8. /\ first \in Seq(Cell) /\ Len(first) = segment
      /\ second \in Seq(Cell) /\ Len(second) = r.endIndex
  <2>1. \A i \in 1 .. segment : (r.endIndex + i - 1) % r.capacity \in 0 .. r.capacity - 1
    <3>1. \A i \in 1 .. segment : r.endIndex + i - 1 \in Int
      BY <1>3
    <3> QED
      BY <1>1, <3>1, Remainders
  <2>2. \A i \in 1 .. segment : r.cells[(r.endIndex + i - 1) % r.capacity] \in Cell
    BY <1>1, <2>1
  <2>3. \A i \in 1 .. r.endIndex : i - 1 \in 0 .. r.capacity - 1
    BY <1>1, <1>3
  <2>4. \A i \in 1 .. r.endIndex : r.cells[i - 1] \in Cell
    BY <1>1, <2>3
  <2> HIDE DEF segment
  <2> QED
    BY <1>3, <2>2, <2>4
<1> HIDE DEF capacity
<1>9. /\ Block(fresh, capacity) /\ Nowhere(r.kind, fresh, capacity, <<>>)
      /\ Block(Ring!Allocated(r.capacity), r.capacity)
  BY <1>1, <1>4, FreshBlock
<1>10. /\ Ring!Copied(r, first) \in Seq(Cell) /\ Ring!Copied(r, second) \in Seq(Cell)
       /\ Ring!Copied(r, items) \in Seq(Cell)
       /\ r.kind # "words" =>
            /\ Ring!Copied(r, first) = first /\ Ring!Copied(r, second) = second
            /\ Ring!Copied(r, items) = items
  <2>1. items \in Seq(Cell)
    BY ItemsAreCells
  <2> HIDE DEF first, second
  <2> QED
    BY <1>8, <2>1, CopiedItems
<1> HIDE DEF fresh, first, second
<1>11. Block(one, capacity) /\ Block(two, capacity) /\ Block(three, capacity)
       /\ cells \in Memory
  <2>1. Block(one, capacity)
    BY <1>9, <1>10, StillBlock
  <2> HIDE DEF one
  <2>2. Block(two, capacity)
    BY <1>10, <2>1, StillBlock
  <2> HIDE DEF two
  <2>3. Block(three, capacity)
    BY <1>10, <2>2, StillBlock
  <2> HIDE DEF three
  <2> QED
    BY <1>9, <2>1, <2>2, <2>3, BlockIsMemory DEF one, two, three
<1>12. ASSUME ~Ring!WriteMishandled(r, items, count)
       PROVE  Block(cells, capacity) /\ Lies(r.kind, cells, capacity, 0, total, r.content \o items)
  <2>1. r.kind = "bytes" /\ r.startIndex = r.endIndex
    BY <1>12 DEF Ring!WriteMishandled, IsRing
  <2>2. Len(items) = count
    BY <1>1, <2>1
  <2>3. ASSUME NEW i \in 1 .. segment  PROVE first[i] = r.content[i]
    <3> DEFINE c == r.endIndex + i - 1
    <3>1. c \in r.startIndex .. r.capacity - 1 /\ c \in 0 .. r.capacity - 1
          /\ c - r.startIndex + 1 = i
      BY <1>1, <1>3, <2>1
    <3>2. first[i] = r.cells[c % r.capacity]
      BY DEF first
    <3> HIDE DEF c
    <3>3. c % r.capacity = c
      BY <1>1, <3>1, Remainders
    <3>4. r.cells[c] = r.content[c - r.startIndex + 1]
      BY <1>2, <3>1 DEF Around
    <3> QED
      BY <3>1, <3>2, <3>3, <3>4
  <2>4. ASSUME NEW i \in 1 .. r.endIndex  PROVE second[i] = r.content[segment + i]
    <3> DEFINE c == i - 1
    <3>1. c \in 0 .. r.endIndex - 1 /\ r.capacity - r.startIndex + c + 1 = segment + i
      BY <1>1, <1>3
    <3>2. second[i] = r.cells[c]
      BY DEF second
    <3> HIDE DEF c
    <3>3. r.cells[c] = r.content[r.capacity - r.startIndex + c + 1]
      BY <1>2, <3>1 DEF Around
    <3> QED
      BY <3>1, <3>2, <3>3
  <2> HIDE DEF segment
  <2>5. first \o second = r.content /\ first \in Seq(Item) /\ second \in Seq(Item)
    <3>1. first \in [1 .. segment -> Cell] /\ second \in [1 .. r.endIndex -> Cell]
      BY <1>8, LenProperties
    <3>2. AreHalves(first, segment, second, r.endIndex, r.content)
      BY <1>1, <1>3, <2>3, <2>4, <3>1 DEF AreHalves
    <3> QED
      BY <3>2, Halves DEF Together
  <2>6. /\ one = Ring!Put(fresh, 0, first) /\ two = Ring!Put(one, segment, second)
        /\ three = Ring!Put(two, segment + r.endIndex, items) /\ cells = three
    BY <1>10, <2>1
  <2> HIDE DEF one, two, three, cells
  <2>7. Straight(r.kind, one, capacity, 0, segment, first)
    <3>1. segment <= capacity /\ <<>> \o first = first /\ first # <<>>
      BY <1>1, <1>3, <1>4, <1>8, <2>5, ConcatEmptySeq, EmptySeq
    <3>2. Straight(r.kind, Ring!Put(fresh, 0, first), capacity, 0, Len(first),
                   <<>> \o first)
      BY <1>8, <1>9, <2>5, <3>1, PutFirst
    <3> QED
      BY <1>8, <2>6, <3>1, <3>2
  <2> DEFINE start == 0
  <2>8. Straight(r.kind, one, capacity, start, segment, first)
    BY <2>7
  <2> HIDE DEF start
  <2>9. Straight(r.kind, two, capacity, start, segment + r.endIndex, r.content)
    <3>1. segment + Len(second) <= capacity
      BY <1>1, <1>3, <1>4, <1>8
    <3>2. Straight(r.kind, Ring!Put(one, segment, second), capacity, start,
                   segment + Len(second), first \o second)
      BY <1>11, <2>5, <2>8, <3>1, PutBehind
    <3> QED
      BY <1>8, <2>5, <2>6, <3>2
  <2>10. Straight(r.kind, three, capacity, start, total, r.content \o items)
    <3> DEFINE end == segment + r.endIndex
    <3>1. end + Len(items) <= capacity /\ end + Len(items) = total
      BY <1>1, <1>3, <1>4, <2>2
    <3>2. Straight(r.kind, two, capacity, start, end, r.content)
      BY <2>9
    <3>3. three = Ring!Put(two, end, items)
      BY <2>6
    <3> HIDE DEF end, total
    <3>4. Straight(r.kind, Ring!Put(two, end, items), capacity, start, end + Len(items),
                   r.content \o items)
      BY <1>1, <1>11, <3>1, <3>2, PutBehind
    <3> QED
      BY <3>1, <3>3, <3>4
  <2> QED
    BY <1>11, <2>6, <2>10 DEF Lies, start
<1>13. 0 \in Int /\ total \in Int
  BY <1>1
<1> HIDE DEF cells, total
<1>14. WellWritten(r, items, count, cells, capacity, 0, total)
  BY <1>7, <1>11, <1>12, <1>13 DEF WellWritten
<1> QED
  BY <1>14
(* and therefore in every queue. *)
LEMMA WrittenWell ==
  ASSUME NEW r, IsRing(r), RingLies(r), NEW count \in Nat \ {0},
         NEW items \in Seq(Item), Len(items) <= count,
         Len(items) < count => r.kind = "objects", WordSize \in Nat \ {0}
  PROVE  \E cells, capacity, start, end :
           WellWritten(r, items, count, cells, capacity, start, end)
<1>1. /\ r.capacity \in Nat /\ r.startIndex \in Int /\ r.endIndex \in Int
  BY DEF IsRing
<1>2. Ring!Empty(r) \/ Ring!Linear(r) \/ Ring!Wrapped(r)
  BY DEF Ring!Wrapped
<1>3. CASE Ring!Empty(r)
  BY <1>3, WrittenInEmpty
<1>4. CASE Ring!Linear(r) /\ count <= r.capacity - r.endIndex
  BY <1>4, WrittenBehind
<1>5. CASE Ring!Linear(r) /\ count > r.capacity - r.endIndex /\ Ring!FitsAround(r, count)
  BY <1>5, WrittenAround
<1>6. CASE Ring!Linear(r) /\ count > r.capacity - r.endIndex /\ ~Ring!FitsAround(r, count)
  BY <1>6, WrittenIntoLarger
<1>7. CASE Ring!Wrapped(r) /\ count <= r.startIndex - r.endIndex
  BY <1>7, WrittenBehind
<1>8. CASE Ring!Wrapped(r) /\ count > r.startIndex - r.endIndex
  BY <1>8, WrittenUnwrapped
<1> QED
  BY <1>1, <1>2, <1>3, <1>4, <1>5, <1>6, <1>7, <1>8

(* The queue after a step *)
Becomes(kind, cells, capacity, start, end, content, intact) ==
  /\ cells \in Memory /\ content \in Seq(Item)
  /\ intact => /\ Block(cells, capacity) /\ start \in Int /\ end \in Int
               /\ Lies(kind, cells, capacity, start, end, content)

(* A queue whose items lie where they belong is as the invariant says. *)
LEMMA RingMade ==
  ASSUME NEW r, IsRing(r), NEW cells, NEW capacity, NEW start, NEW end,
         NEW content, NEW next \in Nat, NEW intact \in BOOLEAN,
         Becomes(r.kind, cells, capacity, start, end, content, intact),
         ring' = Whole(r, cells, capacity, start, end, content, next, intact)
  PROVE  RingInv'
<1> DEFINE w == Whole(r, cells, capacity, start, end, content, next, intact)
<1>1. /\ w.kind = r.kind /\ w.cells = cells /\ w.capacity = capacity
      /\ w.startIndex = start /\ w.endIndex = end /\ w.content = content
      /\ w.intact = intact
  BY DEF Whole
<1>2. r.kind \in {"bytes", "words", "objects"} /\ cells \in Memory
  BY DEF IsRing, Becomes
<1>3. intact => IsRing(w)
  <2> SUFFICES ASSUME intact  PROVE IsRing(w)
    OBVIOUS
  <2>1. capacity \in Nat \ {0} /\ start \in Int /\ end \in Int /\ content \in Seq(Item)
        /\ Block(cells, capacity)
    BY DEF Becomes, Block
  <2>2. w \in [kind : {"bytes", "words", "objects"}, cells : Memory,
               capacity : Nat \ {0}, startIndex : Int, endIndex : Int,
               content : Seq(Item), next : Nat, intact : BOOLEAN]
    BY <1>2, <2>1 DEF Whole
  <2> HIDE DEF w
  <2> QED
    BY <1>1, <2>1, <2>2 DEF IsRing
<1>4. intact => RingLies(w)
  <2> HIDE DEF w
  <2> QED
    BY <1>1 DEF RingLies, Becomes
<1>5. ring' = w
  OBVIOUS
<1> HIDE DEF w
<1> QED
  BY <1>1, <1>2, <1>3, <1>4, <1>5 DEF RingInv, IsRing, RingLies

(* Write() keeps the invariant. *)
LEMMA RingWrites ==
  ASSUME RingInv, NEW count \in Nat \ {0}, NEW done \in 0 .. count,
         Ring!Write(count, done), WordSize \in Nat \ {0}, ItemNumbers \in Nat \ {0}
  PROVE  RingInv'
<1> DEFINE items == Ring!Arriving(done)
           bad == Ring!WriteMishandled(ring, items, count)
           w == Ring!Written(ring, items, count)
           next == (ring.next + done) % ItemNumbers
<1>1. ring.intact /\ (done < count => ring.kind = "objects")
      /\ ring' = [w EXCEPT !.content = @ \o items, !.next = (@ + done) % ItemNumbers,
                           !.intact = ~bad]
  BY DEF Ring!Write
<1>2. IsRing(ring) /\ RingLies(ring)
  BY <1>1 DEF RingInv
<1>3. ring.next \in Nat /\ done \in Nat /\ ring.content \in Seq(Item)
  BY <1>2 DEF IsRing
<1>4. items \in Seq(Item) /\ Len(items) = done
  <2>1. \A i \in 1 .. done : (ring.next + i - 1) % ItemNumbers \in Item
    <3>1. \A i \in 1 .. done : ring.next + i - 1 \in Int
      BY <1>3
    <3> QED
      BY <3>1, Remainders DEF Item
  <2>2. items = [i \in 1 .. done |-> (ring.next + i - 1) % ItemNumbers]
    BY DEF Ring!Arriving
  <2> HIDE DEF items
  <2> QED
    BY <1>3, <2>1, <2>2
<1>5. next \in Nat
  <2> DEFINE a == ring.next + done
  <2>1. a \in Int
    BY <1>3
  <2> HIDE DEF a
  <2>2. a % ItemNumbers \in 0 .. ItemNumbers - 1
    BY <2>1, Remainders
  <2> QED
    BY <2>2 DEF a
<1> HIDE DEF items, w
<1>6. PICK cells, capacity, start, end :
        WellWritten(ring, items, count, cells, capacity, start, end)
  <2>1. Len(items) <= count /\ (Len(items) < count => ring.kind = "objects")
    BY <1>1, <1>4
  <2> QED
    BY <1>2, <1>4, <2>1, WrittenWell
<1>7. w = Part(ring, cells, capacity, start, end)
  BY <1>6 DEF WellWritten, w
<1>8. w.content = ring.content /\ w.next = ring.next
  BY <1>7 DEF Part
<1> DEFINE content == ring.content \o items  intact == ~bad
<1>9. ring' = [w EXCEPT !.content = content, !.next = next, !.intact = intact]
  BY <1>1, <1>8
<1>10. content \in Seq(Item)
  BY <1>3, <1>4, ConcatProperties
<1>11. Becomes(ring.kind, cells, capacity, start, end, content, intact)
  BY <1>6, <1>10 DEF WellWritten, Becomes
<1>12. intact \in BOOLEAN
  OBVIOUS
<1> HIDE DEF content, next, intact
<1>13. ring' = Whole(ring, cells, capacity, start, end, content, next, intact)
  <2> DEFINE q == ring'
  <2>1. q = [Part(ring, cells, capacity, start, end) EXCEPT
               !.content = content, !.next = next, !.intact = intact]
    BY <1>7, <1>9
  <2> HIDE DEF q
  <2>2. q = Whole(ring, cells, capacity, start, end, content, next, intact)
    BY <1>2, <2>1 DEF IsRing, Part, Whole
  <2> QED
    BY <2>2 DEF q
<1> QED
  BY <1>2, <1>5, <1>11, <1>12, <1>13, RingMade

(* The cells that items are read from *)
LEMMA VacatedCells ==
  ASSUME NEW r, IsRing(r), NEW gone
  PROVE  /\ Ring!Vacated(r, gone) = Emptied(r.cells, r.capacity, gone)
         /\ Block(Emptied(r.cells, r.capacity, gone), r.capacity)
         /\ Emptied(r.cells, r.capacity, gone) \in Memory
<1>1. Block(r.cells, r.capacity)
  BY DEF IsRing
<1>2. DOMAIN r.cells = 0 .. r.capacity - 1
  BY <1>1 DEF Block
<1>3. Ring!Vacated(r, gone) = Emptied(r.cells, r.capacity, gone)
  BY <1>2 DEF Ring!Vacated, Emptied, Ring!Garbage
<1>4. Block(Emptied(r.cells, r.capacity, gone), r.capacity)
  BY <1>1, VacatedBlock
<1> QED
  BY <1>3, <1>4, BlockIsMemory

(* Read() keeps the invariant. *)
LEMMA RingReads ==
  ASSUME RingInv, NEW count \in Nat \ {0}, NEW done \in 0 .. count,
         Ring!Read(count, done)
  PROVE  RingInv'
<1> DEFINE r == ring
           bad == Ring!ReadMishandled(r, count, done)
           content == SubSeq(r.content, done + 1, Len(r.content))
           w == IF Ring!Linear(r) THEN Ring!ExtractFromLinear(r, done)
                ELSE IF count <= r.capacity - r.startIndex
                THEN Ring!ExtractFromSegment(r, count, done)
                ELSE Ring!ExtractFromBoth(r, count)
           intact == ~bad
           used == Len(r.content)
<1>1. r.intact /\ count <= Ring!Count(r) /\ (done < count => r.kind = "objects")
      /\ ring' = [w EXCEPT !.content = SubSeq(@, done + 1, Len(@)), !.intact = ~bad]
  BY DEF Ring!Read
<1>2. IsRing(r) /\ RingLies(r)
  BY <1>1 DEF RingInv
<1>3. /\ r.content \in Seq(Item) /\ used \in Nat /\ count <= used /\ done \in Nat
      /\ r.capacity \in Nat /\ r.next \in Nat /\ Block(r.cells, r.capacity)
      /\ Ring!Count(r) = used
  BY <1>1, <1>2, RingShape DEF IsRing
<1>4. ~Ring!Empty(r)
  <2>1. Ring!Empty(r) => used = 0
    BY <1>2, RingShape DEF Nowhere
  <2> QED
    BY <1>3, <2>1
<1>5. content \in Seq(Item)
  <2> DEFINE t == r.content
  <2>1. t \in Seq(Item) /\ done \in 0 .. Len(t)
    BY <1>3
  <2> HIDE DEF t
  <2>2. SubSeq(t, done + 1, Len(t)) \in Seq(Item)
    BY <2>1, OtherItems
  <2> QED
    BY <2>2 DEF t
<1>6. ASSUME NEW gone, NEW start,
             w = [r EXCEPT !.cells = Ring!Vacated(r, gone), !.startIndex = start],
             intact => /\ start \in Int
                       /\ Lies(r.kind, Emptied(r.cells, r.capacity, gone), r.capacity,
                               start, r.endIndex, content)
      PROVE  RingInv'
  <2> DEFINE cells == Emptied(r.cells, r.capacity, gone)
  <2>1. /\ Ring!Vacated(r, gone) = cells /\ Block(cells, r.capacity) /\ cells \in Memory
        /\ r.endIndex \in Int
    BY <1>2, VacatedCells DEF IsRing
  <2>2. w = [r EXCEPT !.cells = cells, !.startIndex = start]
    BY <1>6, <2>1
  <2>3. Becomes(r.kind, cells, r.capacity, start, r.endIndex, content, intact)
    BY <1>5, <1>6, <2>1 DEF Becomes
  <2> HIDE DEF cells, w
  <2>4. w = Part(r, cells, r.capacity, start, r.endIndex)
    BY <1>2, <2>2, PartShortened
  <2>5. w.content = r.content
    BY <2>4 DEF Part
  <2> DEFINE q == ring'
  <2>6. q = [w EXCEPT !.content = content, !.intact = intact]
    BY <1>1, <2>5
  <2>7. intact \in BOOLEAN
    OBVIOUS
  <2> HIDE DEF q, content, intact
  <2>8. q = Whole(r, cells, r.capacity, start, r.endIndex, content, r.next, intact)
    BY <1>2, <2>4, <2>6 DEF IsRing, Part, Whole
  <2>9. ring' = Whole(r, cells, r.capacity, start, r.endIndex, content, r.next, intact)
    BY <2>8 DEF q
  <2> HIDE DEF r
  <2> QED
    BY <1>2, <1>3, <2>3, <2>7, <2>9, RingMade
<1>7. CASE Ring!Linear(r)
  <2> DEFINE gone == r.startIndex .. r.startIndex + done - 1
             start == IF done = used THEN -1 ELSE r.startIndex + done
  <2>1. Straight(r.kind, r.cells, r.capacity, r.startIndex, r.endIndex, r.content)
    BY <1>2, <1>7, RingShape
  <2>2. r.startIndex \in Nat /\ r.endIndex \in Nat /\ used = r.endIndex - r.startIndex
    BY <2>1 DEF Straight
  <2>3. w = [r EXCEPT !.cells = Ring!Vacated(r, gone), !.startIndex = start]
    BY <1>3, <1>7 DEF Ring!ExtractFromLinear, Ring!InvalidIndex
  <2>4. start \in Int
    BY <1>3, <2>2
  <2>5. CASE done = used
    <3>1. gone = r.startIndex .. r.endIndex - 1 /\ content = SubSeq(r.content, used + 1, used)
      BY <1>3, <2>2, <2>5
    <3> HIDE DEF gone, content
    <3>2. /\ Nowhere(r.kind, Emptied(r.cells, r.capacity, gone), r.capacity, <<>>)
          /\ content = <<>>
      BY <1>3, <2>1, <3>1, TakeAll
    <3>3. Lies(r.kind, Emptied(r.cells, r.capacity, gone), r.capacity, start, r.endIndex,
               content)
      BY <2>5, <3>2 DEF Lies
    <3> HIDE DEF w, start
    <3> QED
      BY <1>6, <2>3, <2>4, <3>3 DEF gone
  <2>6. CASE done # used
    <3>1. done \in 0 .. r.endIndex - r.startIndex - 1
      BY <1>3, <2>2, <2>6
    <3>2. Straight(r.kind, Emptied(r.cells, r.capacity, gone), r.capacity,
                   r.startIndex + done, r.endIndex, content)
      BY <1>3, <2>1, <3>1, TakeStraight
    <3>3. Lies(r.kind, Emptied(r.cells, r.capacity, gone), r.capacity, start, r.endIndex,
               content)
      BY <2>6, <3>2 DEF Lies
    <3> HIDE DEF w, start, gone, content
    <3> QED
      BY <1>6, <2>3, <2>4, <3>3
  <2> QED
    BY <2>5, <2>6
<1>8. CASE ~Ring!Linear(r)
  <2>1. Ring!Wrapped(r)
    BY <1>4, <1>8 DEF Ring!Wrapped
  <2>2. Around(r.kind, r.cells, r.capacity, r.startIndex, r.endIndex, r.content)
    BY <1>2, <2>1, RingShape
  <2>3. /\ r.startIndex \in Nat /\ r.endIndex \in Nat /\ r.startIndex < r.capacity
        /\ used = r.endIndex + r.capacity - r.startIndex
    BY <2>2 DEF Around
  <2>4. CASE count <= r.capacity - r.startIndex
    <3> DEFINE gone == r.startIndex .. r.startIndex + done - 1
               start == IF done < count THEN r.startIndex + done
                        ELSE IF count = r.capacity - r.startIndex THEN 0
                        ELSE IF r.kind = "objects" THEN r.startIndex
                        ELSE r.startIndex + count
    <3>1. w = [r EXCEPT !.cells = Ring!Vacated(r, gone), !.startIndex = start]
      BY <1>8, <2>4 DEF Ring!ExtractFromSegment
    <3>2. start \in Int
      BY <1>3, <2>3
    <3>3. ASSUME intact
          PROVE  start = IF done = r.capacity - r.startIndex THEN 0
                         ELSE r.startIndex + done
      <4>1. ~(r.kind = "objects" /\ done = count /\ count < r.capacity - r.startIndex)
        BY <2>1, <2>4, <3>3 DEF Ring!ReadMishandled
      <4>2. CASE done < count
        BY <1>3, <2>3, <2>4, <4>2
      <4>3. CASE done = count
        BY <1>3, <2>3, <2>4, <4>1, <4>3
      <4> QED
        BY <1>3, <4>2, <4>3
    <3>4. done \in 0 .. r.capacity - r.startIndex
      BY <1>3, <2>3, <2>4
    <3>5. IF done = r.capacity - r.startIndex
          THEN Straight(r.kind, Emptied(r.cells, r.capacity, gone), r.capacity, 0,
                        r.endIndex, content)
          ELSE Around(r.kind, Emptied(r.cells, r.capacity, gone), r.capacity,
                      r.startIndex + done, r.endIndex, content)
      BY <1>3, <2>2, <3>4, TakeAround
    <3> HIDE DEF w, gone, content, start
    <3>6. intact => Lies(r.kind, Emptied(r.cells, r.capacity, gone), r.capacity, start,
                         r.endIndex, content)
      BY <3>3, <3>5 DEF Lies
    <3> HIDE DEF intact
    <3> QED
      BY <1>6, <3>1, <3>2, <3>6
  <2>5. CASE ~(count <= r.capacity - r.startIndex)
    <3> DEFINE wrapped == count - (r.capacity - r.startIndex)
               gone == (r.startIndex .. r.capacity - 1) \cup (0 .. wrapped - 1)
               start == IF wrapped = r.endIndex THEN -1
                        ELSE IF r.kind = "objects" THEN r.startIndex + count + wrapped
                        ELSE r.startIndex + wrapped
    <3>1. w = [r EXCEPT !.cells = Ring!Vacated(r, gone), !.startIndex = start]
      BY <1>8, <2>5 DEF Ring!ExtractFromBoth, Ring!InvalidIndex
    <3>2. start \in Int
      BY <1>3, <2>3
    <3>3. ASSUME intact
          PROVE  Lies(r.kind, Emptied(r.cells, r.capacity, gone), r.capacity, start,
                      r.endIndex, content)
      <4>1. ~(count < used \/ done < count)
        BY <1>3, <2>1, <2>5, <3>3 DEF Ring!ReadMishandled
      <4>2. count = used /\ done = used /\ wrapped = r.endIndex
        BY <1>3, <2>3, <4>1
      <4>3. gone = (r.startIndex .. r.capacity - 1) \cup (0 .. r.endIndex - 1)
            /\ content = SubSeq(r.content, used + 1, used) /\ start = -1
        BY <4>2
      <4> HIDE DEF gone, content, start
      <4>4. /\ Nowhere(r.kind, Emptied(r.cells, r.capacity, gone), r.capacity, <<>>)
            /\ content = <<>>
        BY <1>3, <2>2, <4>3, TakeAll
      <4> QED
        BY <4>3, <4>4 DEF Lies
    <3> HIDE DEF w, gone, content, start, intact
    <3> QED
      BY <1>6, <3>1, <3>2, <3>3
  <2> QED
    BY <2>4, <2>5
<1> QED
  BY <1>7, <1>8

(* The cells of the items *)
LEMMA RingPlaces ==
  ASSUME NEW r, IsRing(r), RingLies(r)
  PROVE  /\ Ring!Empty(r) => Ring!ToSet(Ring!Places(r)) = {}
         /\ Ring!Linear(r) =>
              /\ Ring!ToSet(Ring!Places(r)) = r.startIndex .. r.endIndex - 1
              /\ \A i \in 1 .. Len(r.content) : Ring!Places(r)[i] = r.startIndex + i - 1
         /\ Ring!Wrapped(r) =>
              /\ Ring!ToSet(Ring!Places(r))
                   = (r.startIndex .. r.capacity - 1) \cup (0 .. r.endIndex - 1)
              /\ \A i \in 1 .. Len(r.content) :
                   Ring!Places(r)[i] = IF i <= r.capacity - r.startIndex
                                       THEN r.startIndex + i - 1
                                       ELSE r.startIndex + i - 1 - r.capacity
<1> DEFINE used == Len(r.content)
<1>1. used \in Nat /\ Ring!Count(r) = used /\ r.capacity \in Nat \ {0}
  BY RingShape DEF IsRing
<1>2. /\ DOMAIN Ring!Places(r) = 1 .. used
      /\ \A i \in 1 .. used : Ring!Places(r)[i] = (r.startIndex + i - 1) % r.capacity
  BY <1>1 DEF Ring!Places
<1>3. Ring!ToSet(Ring!Places(r)) = {Ring!Places(r)[i] : i \in 1 .. used}
  BY <1>2 DEF Ring!ToSet
<1>4. CASE Ring!Empty(r)
  <2>1. used = 0
    BY <1>4, RingShape DEF Nowhere
  <2> QED
    BY <1>3, <1>4, <2>1 DEF Ring!Linear, Ring!Wrapped
<1>5. CASE Ring!Linear(r)
  <2>1. /\ r.startIndex \in Nat /\ r.endIndex \in Nat /\ r.startIndex < r.endIndex
        /\ r.endIndex <= r.capacity /\ used = r.endIndex - r.startIndex
    BY <1>5, RingShape DEF Straight
  <2>2. ASSUME NEW i \in 1 .. used  PROVE Ring!Places(r)[i] = r.startIndex + i - 1
    <3> DEFINE c == r.startIndex + i - 1
    <3>1. c \in 0 .. r.capacity - 1
      BY <1>1, <2>1
    <3>2. Ring!Places(r)[i] = c % r.capacity
      BY <1>2
    <3> HIDE DEF c
    <3>3. c % r.capacity = c
      BY <1>1, <3>1, Remainders
    <3> QED
      BY <3>2, <3>3 DEF c
  <2>3. ASSUME NEW c
        PROVE  c \in r.startIndex .. r.endIndex - 1 <=>
                 \E i \in 1 .. used : c = r.startIndex + i - 1
    <3>1. ASSUME c \in r.startIndex .. r.endIndex - 1
          PROVE  \E i \in 1 .. used : c = r.startIndex + i - 1
      <4> DEFINE i == c - r.startIndex + 1
      <4>1. i \in 1 .. used /\ c = r.startIndex + i - 1
        BY <1>1, <2>1, <3>1
      <4> QED
        BY <4>1
    <3>2. ASSUME NEW i \in 1 .. used, c = r.startIndex + i - 1
          PROVE  c \in r.startIndex .. r.endIndex - 1
      BY <1>1, <2>1, <3>2
    <3> QED
      BY <3>1, <3>2
  <2>4. Ring!ToSet(Ring!Places(r)) = r.startIndex .. r.endIndex - 1
    BY <1>3, <2>2, <2>3
  <2> QED
    BY <1>5, <2>2, <2>4 DEF Ring!Linear, Ring!Wrapped
<1>6. CASE Ring!Wrapped(r)
  <2>1. /\ r.startIndex \in Nat /\ r.endIndex \in Nat /\ r.endIndex <= r.startIndex
        /\ r.startIndex < r.capacity /\ used = r.endIndex + r.capacity - r.startIndex
    BY <1>6, RingShape DEF Around
  <2> DEFINE at(i) == IF i <= r.capacity - r.startIndex THEN r.startIndex + i - 1
                      ELSE r.startIndex + i - 1 - r.capacity
  <2>2. ASSUME NEW i \in 1 .. used  PROVE Ring!Places(r)[i] = at(i)
    <3> DEFINE c == r.startIndex + i - 1
    <3>1. Ring!Places(r)[i] = c % r.capacity
      BY <1>2
    <3>2. CASE i <= r.capacity - r.startIndex
      <4>1. c \in 0 .. r.capacity - 1 /\ at(i) = c
        BY <1>1, <2>1, <3>2
      <4> HIDE DEF c
      <4>2. c % r.capacity = c
        BY <1>1, <4>1, Remainders
      <4> QED
        BY <3>1, <4>1, <4>2
    <3>3. CASE ~(i <= r.capacity - r.startIndex)
      <4> DEFINE d == c - r.capacity
      <4>1. d \in 0 .. r.capacity - 1 /\ c = d + r.capacity /\ at(i) = d
        BY <1>1, <2>1, <3>3
      <4> HIDE DEF c, d
      <4>2. c % r.capacity = d
        BY <1>1, <4>1, Remainders
      <4> QED
        BY <3>1, <4>1, <4>2
    <3> QED
      BY <3>2, <3>3
  <2>3. ASSUME NEW c
        PROVE  c \in (r.startIndex .. r.capacity - 1) \cup (0 .. r.endIndex - 1) <=>
                 \E i \in 1 .. used : c = at(i)
    <3>1. ASSUME c \in r.startIndex .. r.capacity - 1
          PROVE  \E i \in 1 .. used : c = at(i)
      <4> DEFINE i == c - r.startIndex + 1
      <4>1. i \in 1 .. used /\ i <= r.capacity - r.startIndex /\ c = r.startIndex + i - 1
        BY <1>1, <2>1, <3>1
      <4> HIDE DEF i
      <4> QED
        BY <4>1
    <3>2. ASSUME c \in 0 .. r.endIndex - 1
          PROVE  \E i \in 1 .. used : c = at(i)
      <4> DEFINE i == c + r.capacity - r.startIndex + 1
      <4>0. c \in Int /\ 0 <= c /\ c < r.endIndex
        BY <2>1, <3>2
      <4>1. i \in Int /\ i > r.capacity - r.startIndex /\ i <= used
        BY <1>1, <2>1, <4>0
      <4>2. c = r.startIndex + i - 1 - r.capacity
        BY <1>1, <2>1, <4>0
      <4>3. i \in 1 .. used /\ ~(i <= r.capacity - r.startIndex)
        BY <1>1, <2>1, <4>1
      <4> HIDE DEF i
      <4>4. c = at(i)
        BY <4>2, <4>3
      <4> QED
        BY <4>3, <4>4
    <3>3. ASSUME NEW i \in 1 .. used, c = at(i)
          PROVE  c \in (r.startIndex .. r.capacity - 1) \cup (0 .. r.endIndex - 1)
      <4>1. CASE i <= r.capacity - r.startIndex
        BY <1>1, <2>1, <3>3, <4>1
      <4>2. CASE ~(i <= r.capacity - r.startIndex)
        BY <1>1, <2>1, <3>3, <4>2
      <4> QED
        BY <4>1, <4>2
    <3> HIDE DEF at
    <3> QED
      BY <3>1, <3>2, <3>3
  <2> HIDE DEF at
  <2>4. Ring!ToSet(Ring!Places(r))
          = (r.startIndex .. r.capacity - 1) \cup (0 .. r.endIndex - 1)
    BY <1>3, <2>2, <2>3
  <2> QED
    BY <1>6, <2>2, <2>4 DEF Ring!Linear, Ring!Wrapped, at
<1> QED
  BY <1>4, <1>5, <1>6

(* The destructor keeps the invariant. *)
LEMMA RingDestroyed ==
  ASSUME RingInv, Ring!Destroy  PROVE RingInv'
<1> DEFINE r == ring
           gone == IF Ring!Linear(r) THEN Ring!ToSet(Ring!Places(r)) ELSE {r.startIndex, 0}
           intact == r.kind # "objects" \/ gone = Ring!ToSet(Ring!Places(r))
           cells == Emptied(r.cells, r.capacity, gone)
<1>1. r.intact /\ ~Ring!Empty(r)
      /\ ring' = [r EXCEPT !.cells = Ring!Vacated(r, gone), !.content = <<>>,
                           !.startIndex = -1, !.endIndex = -1, !.intact = intact]
  BY DEF Ring!Destroy, Ring!InvalidIndex
<1>2. IsRing(r) /\ RingLies(r)
  BY <1>1 DEF RingInv
<1>3. /\ r.content \in Seq(Item) /\ r.capacity \in Nat /\ r.next \in Nat
      /\ Block(r.cells, r.capacity)
  BY <1>2 DEF IsRing
<1>4. Ring!Vacated(r, gone) = cells /\ Block(cells, r.capacity) /\ cells \in Memory
  BY <1>2, VacatedCells
<1> HIDE DEF gone
<1>5. ASSUME intact, r.kind = "objects"
      PROVE  Nowhere(r.kind, cells, r.capacity, <<>>)
  <2>1. gone = Ring!ToSet(Ring!Places(r))
    BY <1>5
  <2>2. CASE Ring!Linear(r)
    <3>1. gone = r.startIndex .. r.endIndex - 1
          /\ Straight(r.kind, r.cells, r.capacity, r.startIndex, r.endIndex, r.content)
      BY <1>2, <2>1, <2>2, RingShape, RingPlaces
    <3> QED
      BY <1>3, <3>1, TakeAll
  <2>3. CASE Ring!Wrapped(r)
    <3>1. gone = (r.startIndex .. r.capacity - 1) \cup (0 .. r.endIndex - 1)
          /\ Around(r.kind, r.cells, r.capacity, r.startIndex, r.endIndex, r.content)
      BY <1>2, <2>1, <2>3, RingShape, RingPlaces
    <3> QED
      BY <1>3, <3>1, TakeAll
  <2> QED
    BY <1>1, <2>2, <2>3 DEF Ring!Wrapped
<1>6. intact => Nowhere(r.kind, cells, r.capacity, <<>>)
  BY <1>5 DEF Nowhere
<1>7. <<>> \in Seq(Item) /\ -1 \in Int /\ intact \in BOOLEAN
  OBVIOUS
<1> HIDE DEF cells, intact
<1> DEFINE minus == -1  none == <<>>
<1>8. Becomes(r.kind, cells, r.capacity, minus, minus, none, intact)
  BY <1>4, <1>6, <1>7 DEF Becomes, Lies
<1> DEFINE q == ring'
<1>9. q = [r EXCEPT !.cells = cells, !.content = none,
                    !.startIndex = minus, !.endIndex = minus, !.intact = intact]
  BY <1>1, <1>4
<1> HIDE DEF q, minus, none
<1>10. q = Whole(r, cells, r.capacity, minus, minus, none, r.next, intact)
  BY <1>2, <1>9 DEF IsRing, Whole
<1>11. ring' = Whole(r, cells, r.capacity, minus, minus, none, r.next, intact)
  BY <1>10 DEF q
<1> HIDE DEF r
<1> QED
  BY <1>2, <1>3, <1>7, <1>8, <1>11, RingMade
(* Cells that follow one another *)
CellsOf(r, cell, n) == [i \in 1 .. n |-> r.cells[cell + i - 1]]

(* A copy of a queue that wraps around lies straight. *)
LEMMA WrappedCopied ==
  ASSUME NEW r, IsRing(r), RingLies(r), Ring!Wrapped(r), NEW fresh, NEW first, NEW second,
         fresh = Ring!Allocated(r.capacity),
         first = CellsOf(r, r.startIndex, r.capacity - r.startIndex),
         second = CellsOf(r, 0, r.endIndex)
  PROVE  LET one == Ring!Put(fresh, 0, first)
             cells == Ring!Put(one, Len(first), second)
         IN /\ Block(cells, r.capacity) /\ first # <<>>
            /\ Straight(r.kind, cells, r.capacity, 0, Len(first) + Len(second), r.content)
<1> DEFINE n == r.capacity - r.startIndex  m == r.endIndex
           one == Ring!Put(fresh, 0, first)
           cells == Ring!Put(one, n, second)
<1>1. /\ r.capacity \in Nat \ {0} /\ r.content \in Seq(Item)
      /\ r.cells \in [0 .. r.capacity - 1 -> Cell]
      /\ Around(r.kind, r.cells, r.capacity, r.startIndex, r.endIndex, r.content)
  BY RingShape DEF IsRing, Block
<1>2. /\ r.startIndex \in Nat /\ m \in Nat /\ 1 <= m /\ m <= r.startIndex
      /\ r.startIndex < r.capacity /\ n \in Nat /\ n > 0 /\ n + m <= r.capacity
      /\ Len(r.content) = n + m
  <2>1. /\ r.startIndex \in Nat /\ m \in Nat /\ 1 <= m /\ m <= r.startIndex
        /\ r.startIndex < r.capacity /\ Len(r.content) = m + r.capacity - r.startIndex
    BY <1>1 DEF Around
  <2> QED
    BY <1>1, <2>1
<1>3. ASSUME NEW i \in 1 .. n
      PROVE  first[i] = r.content[i] /\ first[i] \in Cell
  <2> DEFINE c == r.startIndex + i - 1
  <2>1. c \in r.startIndex .. r.capacity - 1 /\ c \in 0 .. r.capacity - 1
        /\ c - r.startIndex + 1 = i
    BY <1>1, <1>2
  <2>2. first[i] = r.cells[c]
    BY DEF CellsOf
  <2> HIDE DEF c
  <2>3. r.cells[c] = r.content[c - r.startIndex + 1] /\ r.cells[c] \in Cell
    BY <1>1, <2>1 DEF Around
  <2> QED
    BY <2>1, <2>2, <2>3
<1>4. ASSUME NEW i \in 1 .. r.endIndex
      PROVE  second[i] = r.content[n + i] /\ second[i] \in Cell
  <2> DEFINE c == i - 1
  <2>1. c \in 0 .. m - 1 /\ c \in 0 .. r.capacity - 1 /\ 0 + i - 1 = c
        /\ r.capacity - r.startIndex + c + 1 = n + i
    BY <1>1, <1>2
  <2>2. second[i] = r.cells[c]
    <3>1. second[i] = r.cells[0 + i - 1]
      BY DEF CellsOf
    <3> QED
      BY <2>1, <3>1
  <2> HIDE DEF c
  <2>3. r.cells[c] = r.content[r.capacity - r.startIndex + c + 1] /\ r.cells[c] \in Cell
    BY <1>1, <2>1 DEF Around
  <2> QED
    BY <2>1, <2>2, <2>3
<1>5. first \in [1 .. n -> Cell] /\ second \in [1 .. m -> Cell]
  BY <1>3, <1>4 DEF CellsOf
<1> HIDE DEF n, m
<1>6. /\ first \in Seq(Item) /\ Len(first) = n /\ second \in Seq(Item) /\ Len(second) = m
      /\ Together(first, second, r.content)
  <2>1. AreHalves(first, n, second, m, r.content)
    BY <1>1, <1>2, <1>3, <1>4, <1>5 DEF AreHalves, m
  <2> QED
    BY <2>1, Halves
<1>7. /\ Block(fresh, r.capacity) /\ Nowhere(r.kind, fresh, r.capacity, <<>>)
      /\ <<>> \o first = first /\ first # <<>>
  <2>1. Block(fresh, r.capacity) /\ Nowhere(r.kind, fresh, r.capacity, <<>>)
    BY <1>1, FreshBlock
  <2>2. Len(<<>>) = 0
    OBVIOUS
  <2>3. first # <<>>
    BY <1>2, <1>6, <2>2
  <2>4. <<>> \o first = first
    BY <1>6, ConcatEmptySeq
  <2> QED
    BY <2>1, <2>3, <2>4
<1>8. Straight(r.kind, one, r.capacity, 0, n, first)
  <2>1. n <= r.capacity
    BY <1>1, <1>2
  <2>2. Straight(r.kind, Ring!Put(fresh, 0, first), r.capacity, 0, Len(first), <<>> \o first)
    BY <1>6, <1>7, <2>1, PutFirst
  <2> QED
    BY <1>6, <1>7, <2>2
<1>9. Block(one, r.capacity) /\ Block(cells, r.capacity)
  <2>1. first \in Seq(Cell) /\ second \in Seq(Cell)
    BY <1>6, ItemsAreCells
  <2>2. Block(one, r.capacity)
    BY <1>7, <2>1, StillBlock
  <2> HIDE DEF one
  <2> QED
    BY <2>1, <2>2, StillBlock
<1> DEFINE start == 0
<1>10. Straight(r.kind, one, r.capacity, start, n, first)
  BY <1>8
<1> HIDE DEF start, one
<1>11. Straight(r.kind, cells, r.capacity, start, n + m, r.content)
  <2>1. n + Len(second) <= r.capacity
    BY <1>2, <1>6
  <2>2. Straight(r.kind, Ring!Put(one, n, second), r.capacity, start, n + Len(second),
                 first \o second)
    BY <1>6, <1>9, <1>10, <2>1, PutBehind
  <2> QED
    BY <1>6, <2>2 DEF Together
<1> QED
  BY <1>6, <1>7, <1>9, <1>11 DEF start, one

(* A copy of a queue that does not wrap, and starts at the front *)
LEMMA LinearCopied ==
  ASSUME NEW r, IsRing(r), RingLies(r), Ring!Linear(r), NEW fresh, NEW items,
         fresh = Ring!Allocated(r.capacity),
         items = CellsOf(r, 0, Len(r.content))
  PROVE  /\ Block(Ring!Put(fresh, 0, items), r.capacity) /\ items # <<>>
         /\ r.startIndex = 0 =>
              Straight(r.kind, Ring!Put(fresh, 0, items), r.capacity, 0, Len(items), r.content)
<1> DEFINE n == Len(r.content)
<1>1. /\ r.capacity \in Nat \ {0} /\ r.content \in Seq(Item)
      /\ r.cells \in [0 .. r.capacity - 1 -> Cell]
      /\ Straight(r.kind, r.cells, r.capacity, r.startIndex, r.endIndex, r.content)
  BY RingShape DEF IsRing, Block
<1>2. /\ r.startIndex \in Nat /\ r.endIndex \in Nat /\ r.startIndex < r.endIndex
      /\ r.endIndex <= r.capacity /\ n = r.endIndex - r.startIndex /\ n \in Nat
  BY <1>1, LenProperties DEF Straight
<1>3. ASSUME NEW i \in 1 .. n
      PROVE  /\ items[i] \in Cell
             /\ r.startIndex = 0 => items[i] = r.content[i]
  <2> DEFINE c == i - 1
  <2>1. c \in 0 .. r.capacity - 1 /\ 0 + i - 1 = c /\ c - 0 + 1 = i
        /\ (r.startIndex = 0 => c \in 0 .. r.endIndex - 1)
    BY <1>1, <1>2
  <2>2. items[i] = r.cells[c]
    BY <2>1 DEF CellsOf
  <2> HIDE DEF c
  <2>3. r.cells[c] \in Cell
    BY <1>1, <2>1
  <2>4. r.startIndex = 0 => r.cells[c] = r.content[c - 0 + 1]
    BY <1>1, <2>1 DEF Straight
  <2> QED
    BY <2>1, <2>2, <2>3, <2>4
<1>4. items \in [1 .. n -> Cell]
  BY <1>3 DEF CellsOf
<1>5. items \in Seq(Cell) /\ Len(items) = n /\ n > 0 /\ items # <<>>
  <2>1. items \in Seq(Cell)
    BY <1>2, <1>4, SequenceOf
  <2>2. Len(items) = n
    BY <1>2, <1>4, <2>1, LenProperties
  <2>3. Len(<<>>) = 0 /\ n > 0
    BY <1>2
  <2> QED
    BY <2>1, <2>2, <2>3
<1>6. Block(fresh, r.capacity) /\ Nowhere(r.kind, fresh, r.capacity, <<>>)
  BY <1>1, FreshBlock
<1>7. Block(Ring!Put(fresh, 0, items), r.capacity)
  BY <1>5, <1>6, StillBlock
<1>8. ASSUME r.startIndex = 0
      PROVE  Straight(r.kind, Ring!Put(fresh, 0, items), r.capacity, 0, Len(items), r.content)
  <2>1. items = r.content
    BY <1>1, <1>3, <1>5, <1>8, SeqEqual, ItemsAreCells
  <2>2. <<>> \o items = items /\ items \in Seq(Item) /\ Len(items) <= r.capacity
    <3>1. items \in Seq(Item) /\ Len(items) <= r.capacity
      BY <1>1, <1>2, <1>5, <2>1
    <3>2. <<>> \o items = items
      BY <3>1, ConcatEmptySeq
    <3> QED
      BY <3>1, <3>2
  <2>3. Straight(r.kind, Ring!Put(fresh, 0, items), r.capacity, 0, Len(items), <<>> \o items)
    BY <1>5, <1>6, <2>2, PutFirst
  <2> QED
    BY <2>1, <2>2, <2>3
<1> QED
  BY <1>5, <1>7, <1>8

(* The copy constructor keeps the invariant. *)
LEMMA RingCopied ==
  ASSUME RingInv, Ring!Copy  PROVE RingInv'
<1> DEFINE r == ring
           fresh == Ring!Allocated(r.capacity)
           blank == [r EXCEPT !.cells = fresh, !.startIndex = -1, !.endIndex = -1]
<1>1. /\ r.intact /\ ~Ring!Empty(r)
      /\ ring' = IF Ring!Linear(r)
                 THEN [Ring!EmplaceInEmpty(blank, CellsOf(r, 0, Ring!Count(r)))
                         EXCEPT !.intact = (r.startIndex = 0)]
                 ELSE Ring!EmplaceBehind(
                        Ring!EmplaceInEmpty(blank, CellsOf(r, r.startIndex,
                                                        r.capacity - r.startIndex)),
                        CellsOf(r, 0, r.endIndex))
  BY DEF Ring!Copy, Ring!InvalidIndex, CellsOf
<1>2. IsRing(r) /\ RingLies(r)
  BY <1>1 DEF RingInv
<1>3. /\ r.content \in Seq(Item) /\ r.capacity \in Nat /\ r.next \in Nat
      /\ Ring!Count(r) = Len(r.content) /\ r.intact \in BOOLEAN
  BY <1>2, RingShape DEF IsRing
<1> DEFINE minus == -1
<1>4. blank = Part(r, fresh, r.capacity, minus, minus)
  <2> DEFINE q == blank
  <2>1. q = [r EXCEPT !.cells = fresh, !.startIndex = minus, !.endIndex = minus]
    OBVIOUS
  <2> HIDE DEF fresh, q, minus
  <2>2. q = Part(r, fresh, r.capacity, minus, minus)
    BY <1>2, <2>1, PartMoved
  <2> QED
    BY <2>2 DEF q
<1>5. CASE Ring!Linear(r)
  <2> DEFINE items == CellsOf(r, 0, Len(r.content))
             cells == Ring!Put(fresh, 0, items)
             n == Len(items)
             intact == r.startIndex = 0
  <2>1. /\ Block(cells, r.capacity) /\ items # <<>>
        /\ r.startIndex = 0 => Straight(r.kind, cells, r.capacity, 0, n, r.content)
    BY <1>2, <1>5, LinearCopied
  <2>2. ring' = [Ring!EmplaceInEmpty(blank, items) EXCEPT !.intact = intact]
    BY <1>1, <1>3, <1>5
  <2> DEFINE zero == 0
  <2>3. Ring!EmplaceInEmpty(blank, items) = Part(r, cells, r.capacity, zero, n)
    <3> DEFINE e == Ring!EmplaceInEmpty(blank, items)
    <3>1. e = [blank EXCEPT !.cells = Ring!Put(blank.cells, 0, items),
                            !.startIndex = IF items = <<>> THEN -1 ELSE 0, !.endIndex = n]
      BY DEF Ring!EmplaceInEmpty, Ring!InvalidIndex
    <3> HIDE DEF items, n, minus, fresh, blank, e
    <3>2. blank.cells = fresh
      BY <1>4 DEF Part
    <3>3. e = [Part(r, fresh, r.capacity, minus, minus) EXCEPT
                 !.cells = cells, !.startIndex = zero, !.endIndex = n]
      BY <1>4, <2>1, <3>1, <3>2
    <3> HIDE DEF cells, zero
    <3>4. e = Part(r, cells, r.capacity, zero, n)
      BY <1>2, <3>3 DEF Part
    <3> QED
      BY <3>4 DEF e
  <2>4. ring' = Whole(r, cells, r.capacity, zero, n, r.content, r.next, intact)
    <3> DEFINE q == ring'
    <3> HIDE DEF cells, n, items, blank, zero
    <3>1. q = [Part(r, cells, r.capacity, zero, n) EXCEPT !.intact = intact]
      BY <2>2, <2>3
    <3> HIDE DEF q, intact
    <3>2. q = Whole(r, cells, r.capacity, zero, n, r.content, r.next, intact)
      BY <1>2, <3>1 DEF IsRing, Part, Whole
    <3> QED
      BY <3>2 DEF q
  <2>5. intact \in BOOLEAN /\ zero \in Int /\ cells \in Memory
    BY <2>1, BlockIsMemory
  <2>6. intact => n \in Int /\ Straight(r.kind, cells, r.capacity, zero, n, r.content)
    <3> HIDE DEF cells, n, items
    <3> QED
      BY <2>1 DEF Straight
  <2> HIDE DEF cells, n, items, intact, zero
  <2>7. Becomes(r.kind, cells, r.capacity, zero, n, r.content, intact)
    BY <1>3, <2>1, <2>5, <2>6 DEF Becomes, Lies
  <2> HIDE DEF r, fresh
  <2> QED
    BY <1>2, <1>3, <2>4, <2>5, <2>7, RingMade
<1>6. CASE ~Ring!Linear(r)
  <2> DEFINE first == CellsOf(r, r.startIndex, r.capacity - r.startIndex)
             second == CellsOf(r, 0, r.endIndex)
             one == Ring!Put(fresh, 0, first)
             cells == Ring!Put(one, Len(first), second)
             n == Len(first)
             end == n + Len(second)
             zero == 0
  <2>1. Ring!Wrapped(r)
    BY <1>1, <1>6 DEF Ring!Wrapped
  <2>2. /\ Block(cells, r.capacity) /\ first # <<>>
        /\ Straight(r.kind, cells, r.capacity, zero, end, r.content)
    BY <1>2, <2>1, WrappedCopied
  <2>3. ring' = Ring!EmplaceBehind(Ring!EmplaceInEmpty(blank, first), second)
    BY <1>1, <1>6
  <2>4. Ring!EmplaceInEmpty(blank, first) = Part(r, one, r.capacity, zero, n)
    <3> DEFINE e == Ring!EmplaceInEmpty(blank, first)
    <3>1. e = [blank EXCEPT !.cells = Ring!Put(blank.cells, 0, first),
                            !.startIndex = IF first = <<>> THEN -1 ELSE 0, !.endIndex = n]
      BY DEF Ring!EmplaceInEmpty, Ring!InvalidIndex
    <3> HIDE DEF first, n, minus, fresh, blank, e
    <3>2. blank.cells = fresh
      BY <1>4 DEF Part
    <3>3. e = [Part(r, fresh, r.capacity, minus, minus) EXCEPT
                 !.cells = one, !.startIndex = zero, !.endIndex = n]
      BY <1>4, <2>2, <3>1, <3>2
    <3> HIDE DEF one, zero
    <3>4. e = Part(r, one, r.capacity, zero, n)
      BY <1>2, <3>3 DEF Part
    <3> QED
      BY <3>4 DEF e
  <2>5. ring' = Whole(r, cells, r.capacity, zero, end, r.content, r.next, r.intact)
    <3> DEFINE p == Part(r, one, r.capacity, zero, n)  q == ring'
    <3>1. p.cells = one /\ p.endIndex = n
      BY DEF Part
    <3>2. q = Ring!EmplaceBehind(p, second)
      BY <2>3, <2>4
    <3> HIDE DEF p, q, one, first, second, n
    <3>3. q = [p EXCEPT !.cells = Ring!Put(one, n, second), !.endIndex = n + Len(second)]
      BY <3>1, <3>2 DEF Ring!EmplaceBehind
    <3>4. q = [p EXCEPT !.cells = cells, !.endIndex = end]
      BY <3>3 DEF n
    <3> HIDE DEF cells, end, zero
    <3>5. q = Whole(r, cells, r.capacity, zero, end, r.content, r.next, r.intact)
      BY <1>2, <3>4 DEF IsRing, Part, Whole, p
    <3> QED
      BY <3>5 DEF q
  <2>6. zero \in Int /\ end \in Int /\ cells \in Memory
    <3> HIDE DEF cells, end
    <3> QED
      BY <2>2, BlockIsMemory DEF Straight
  <2> HIDE DEF cells, end, zero
  <2>7. Becomes(r.kind, cells, r.capacity, zero, end, r.content, r.intact)
    BY <1>3, <2>2, <2>6 DEF Becomes, Lies
  <2> HIDE DEF fresh
  <2> DEFINE intact == r.intact
  <2> HIDE DEF intact
  <2>8. /\ intact \in BOOLEAN
        /\ Becomes(r.kind, cells, r.capacity, zero, end, r.content, intact)
        /\ ring' = Whole(r, cells, r.capacity, zero, end, r.content, r.next, intact)
    BY <1>3, <2>5, <2>7 DEF intact
  <2> HIDE DEF r
  <2> QED
    BY <1>2, <1>3, <2>8, RingMade
<1> QED
  BY <1>5, <1>6

(* A new queue is as the invariant says. *)
LEMMA RingStarts == Ring!Init /\ Ring!RingAssumption => RingInv
<1> SUFFICES ASSUME Ring!Init, Ring!RingAssumption  PROVE RingInv
  OBVIOUS
<1> DEFINE cells == Ring!Allocated(InitialCapacity)
<1>1. PICK kind \in {"bytes", "words", "objects"} :
        ring = [kind |-> kind, cells |-> cells, capacity |-> InitialCapacity,
                startIndex |-> -1, endIndex |-> -1, content |-> <<>>, next |-> 0,
                intact |-> TRUE]
  BY DEF Ring!Init, Ring!InvalidIndex
<1>2. InitialCapacity \in Nat \ {0}
  BY DEF Ring!RingAssumption
<1>3. Block(cells, InitialCapacity) /\ Nowhere(kind, cells, InitialCapacity, <<>>)
  BY <1>2, FreshBlock
<1>4. cells \in Memory
  BY <1>3, BlockIsMemory
<1>5. <<>> \in Seq(Item) /\ -1 \in Int
  OBVIOUS
<1> HIDE DEF cells
<1>6. ring \in [kind : {"bytes", "words", "objects"}, cells : Memory,
                capacity : Nat \ {0}, startIndex : Int, endIndex : Int,
                content : Seq(Item), next : Nat, intact : BOOLEAN]
  BY <1>1, <1>2, <1>4, <1>5
<1>7. /\ ring.kind = kind /\ ring.cells = cells /\ ring.capacity = InitialCapacity
      /\ ring.startIndex = -1 /\ ring.content = <<>>
  BY <1>1
<1> QED
  BY <1>3, <1>4, <1>6, <1>7 DEF RingInv, IsRing, RingLies, Lies

(* Every step of the queue keeps the invariant. *)
LEMMA RingGoesOn ==
  ASSUME RingInv, Ring!Next, Ring!RingAssumption  PROVE RingInv'
<1>1. MaxCount \in Nat /\ ItemNumbers \in Nat \ {0} /\ WordSize \in Nat \ {0}
  <2>1. /\ {MaxCount, MaxItems, ItemNumbers} \subseteq Nat /\ ItemNumbers > MaxItems
        /\ WordSize \in Nat \ {0, 1}
    BY DEF Ring!RingAssumption
  <2> QED
    BY <2>1
<1>2. ASSUME NEW count \in 1 .. MaxCount, NEW done \in 0 .. MaxCount, done <= count,
             Ring!Write(count, done) \/ Ring!Read(count, done)
      PROVE  RingInv'
  <2>1. count \in Nat \ {0} /\ done \in 0 .. count
    BY <1>1, <1>2
  <2> QED
    BY <1>1, <1>2, <2>1, RingWrites, RingReads
<1> QED
  BY <1>2, RingCopied, RingDestroyed DEF Ring!Next

(* The invariant says what the queue promises. *)
LEMMA RingIsRight ==
  RingInv => Ring!TypeOK /\ Ring!KeepsOrder /\ Ring!ObjectsLiveInQueue
<1> SUFFICES ASSUME RingInv
             PROVE  Ring!TypeOK /\ Ring!KeepsOrder /\ Ring!ObjectsLiveInQueue
  OBVIOUS
<1> DEFINE r == ring
<1>1. Cell = 0 .. ItemNumbers - 1 \cup {-1}
  BY DEF Cell, Item
<1>2. r.kind \in {"bytes", "words", "objects"} /\ r.cells \in Memory
  BY DEF RingInv
<1>3. r.cells \in [DOMAIN r.cells -> Cell]
  BY <1>2 DEF Memory
<1>4. ASSUME r.intact
      PROVE  /\ DOMAIN r.cells = 0 .. r.capacity - 1
             /\ r.startIndex \in 0 .. r.capacity - 1 \cup {-1}
             /\ IsRing(r) /\ RingLies(r)
  <2>1. IsRing(r) /\ RingLies(r)
    BY <1>4 DEF RingInv
  <2>2. r.cells \in [0 .. r.capacity - 1 -> Cell] /\ r.capacity \in Nat
    BY <2>1 DEF IsRing, Block
  <2>3. r.startIndex \in 0 .. r.capacity - 1 \cup {-1}
    <3>1. CASE r.startIndex = -1
      BY <3>1
    <3>2. CASE Straight(r.kind, r.cells, r.capacity, r.startIndex, r.endIndex, r.content)
      BY <2>2, <3>2 DEF Straight
    <3>3. CASE Around(r.kind, r.cells, r.capacity, r.startIndex, r.endIndex, r.content)
      BY <2>2, <3>3 DEF Around
    <3> QED
      BY <2>1, <3>1, <3>2, <3>3 DEF RingLies, Lies
  <2> QED
    BY <2>1, <2>2, <2>3
<1>5. Ring!TypeOK
  BY <1>1, <1>2, <1>3, <1>4 DEF Ring!TypeOK, Ring!Garbage, Ring!InvalidIndex
<1> DEFINE used == Len(r.content)  places == Ring!Places(r)
<1>6. ASSUME r.intact
      PROVE  /\ r.content \in Seq(Item) /\ used \in Nat /\ Ring!Count(r) = used
             /\ r.capacity \in Nat /\ DOMAIN r.cells = 0 .. r.capacity - 1
             /\ Ring!Empty(r) \/ Ring!Linear(r) \/ Ring!Wrapped(r)
  BY <1>4, <1>6, RingShape DEF IsRing, Ring!Wrapped
<1>7. ASSUME r.intact, NEW i \in 1 .. used  PROVE r.cells[places[i]] = r.content[i]
  <2>1. r.content # <<>> /\ i \in Nat /\ i >= 1 /\ i <= used
    BY <1>6, <1>7
  <2>2. ~Ring!Empty(r)
    BY <1>4, <1>7, <2>1, RingShape DEF Nowhere
  <2>3. CASE Ring!Linear(r)
    <3> DEFINE c == r.startIndex + i - 1
    <3>1. Straight(r.kind, r.cells, r.capacity, r.startIndex, r.endIndex, r.content)
          /\ places[i] = c
      BY <1>4, <1>7, <2>3, RingShape, RingPlaces
    <3>2. r.startIndex \in Nat /\ r.endIndex \in Nat /\ used = r.endIndex - r.startIndex
      BY <3>1 DEF Straight
    <3>3. c \in r.startIndex .. r.endIndex - 1 /\ c - r.startIndex + 1 = i
      BY <2>1, <3>2
    <3> HIDE DEF c
    <3>4. r.cells[c] = r.content[c - r.startIndex + 1]
      BY <3>1, <3>3 DEF Straight
    <3> QED
      BY <3>1, <3>3, <3>4
  <2>4. CASE Ring!Wrapped(r)
    <3>1. /\ Around(r.kind, r.cells, r.capacity, r.startIndex, r.endIndex, r.content)
          /\ places[i] = IF i <= r.capacity - r.startIndex THEN r.startIndex + i - 1
                         ELSE r.startIndex + i - 1 - r.capacity
      BY <1>4, <1>7, <2>4, RingShape, RingPlaces
    <3>2. /\ r.startIndex \in Nat /\ r.endIndex \in Nat /\ r.startIndex < r.capacity
          /\ used = r.endIndex + r.capacity - r.startIndex
      BY <3>1 DEF Around
    <3>3. CASE i <= r.capacity - r.startIndex
      <4> DEFINE c == r.startIndex + i - 1
      <4>1. c \in r.startIndex .. r.capacity - 1 /\ c - r.startIndex + 1 = i /\ places[i] = c
        BY <1>6, <1>7, <2>1, <3>1, <3>2, <3>3
      <4> HIDE DEF c, places
      <4>2. r.cells[c] = r.content[c - r.startIndex + 1]
        BY <3>1, <4>1 DEF Around
      <4> QED
        BY <4>1, <4>2
    <3>4. CASE ~(i <= r.capacity - r.startIndex)
      <4> DEFINE c == r.startIndex + i - 1 - r.capacity
      <4>1. c \in 0 .. r.endIndex - 1 /\ r.capacity - r.startIndex + c + 1 = i
        BY <1>6, <1>7, <2>1, <3>2, <3>4
      <4>2. places[i] = c
        BY <3>1, <3>4
      <4> HIDE DEF c, places
      <4>3. r.cells[c] = r.content[r.capacity - r.startIndex + c + 1]
        BY <3>1, <4>1 DEF Around
      <4> QED
        BY <4>1, <4>2, <4>3
    <3> QED
      BY <3>3, <3>4
  <2> QED
    BY <1>6, <1>7, <2>2, <2>3, <2>4
<1>8. Ring!KeepsOrder
  <2> SUFFICES ASSUME r.intact
               PROVE  [i \in 1 .. Ring!Count(r) |-> r.cells[places[i]]] = r.content
    BY DEF Ring!KeepsOrder
  <2> DEFINE read == [i \in 1 .. used |-> r.cells[places[i]]]
  <2>1. \A i \in 1 .. used : read[i] = r.content[i]
    BY <1>7
  <2>2. \A i \in 1 .. used : r.content[i] \in Item
    BY <1>6, ElementOfSeq
  <2>3. read \in [1 .. used -> Item]
    BY <2>1, <2>2
  <2> HIDE DEF read
  <2>4. read \in Seq(Item) /\ Len(read) = used
    BY <1>6, <2>3, SequenceOf, LenProperties
  <2>5. read = r.content
    BY <1>6, <2>1, <2>4, SeqEqual
  <2> QED
    BY <1>6, <2>5 DEF read
<1>9. Ring!ObjectsLiveInQueue
  <2> SUFFICES ASSUME r.intact, r.kind = "objects"
               PROVE  {c \in DOMAIN r.cells : r.cells[c] # -1} = Ring!ToSet(places)
    BY DEF Ring!ObjectsLiveInQueue, Ring!Garbage
  <2> DEFINE living == {c \in DOMAIN r.cells : r.cells[c] # -1}
  <2>1. \A i \in 1 .. used : r.content[i] # -1
    <3>1. \A i \in 1 .. used : r.content[i] \in Item
      BY <1>6, ElementOfSeq
    <3> QED
      BY <3>1 DEF Item
  <2>2. CASE Ring!Empty(r)
    <3>1. Nowhere(r.kind, r.cells, r.capacity, r.content) /\ Ring!ToSet(places) = {}
      BY <1>4, <2>2, RingShape, RingPlaces
    <3> QED
      BY <1>6, <3>1 DEF Nowhere
  <2>3. CASE Ring!Linear(r)
    <3>1. /\ Straight(r.kind, r.cells, r.capacity, r.startIndex, r.endIndex, r.content)
          /\ Ring!ToSet(places) = r.startIndex .. r.endIndex - 1
      BY <1>4, <2>3, RingShape, RingPlaces
    <3>2. /\ r.startIndex \in Nat /\ r.endIndex \in Nat /\ used = r.endIndex - r.startIndex
          /\ r.endIndex <= r.capacity
      BY <3>1 DEF Straight
    <3>3. ASSUME NEW c \in 0 .. r.capacity - 1
          PROVE  r.cells[c] # -1 <=> c \in r.startIndex .. r.endIndex - 1
      <4>1. CASE c < r.startIndex \/ c >= r.endIndex
        <5>1. c \notin r.startIndex .. r.endIndex - 1
          BY <1>6, <3>2, <4>1
        <5> QED
          BY <3>1, <4>1, <5>1 DEF Straight
      <4>2. CASE c \in r.startIndex .. r.endIndex - 1
        <5> DEFINE i == c - r.startIndex + 1
        <5>1. i \in 1 .. used
          BY <1>6, <3>2, <4>2
        <5>2. r.cells[c] = r.content[i]
          BY <3>1, <4>2 DEF Straight
        <5> HIDE DEF i
        <5> QED
          BY <2>1, <4>2, <5>1, <5>2
      <4> QED
        BY <1>6, <3>2, <4>1, <4>2
    <3>4. r.startIndex .. r.endIndex - 1 \subseteq 0 .. r.capacity - 1
      BY <1>6, <3>2
    <3>5. living = r.startIndex .. r.endIndex - 1
      BY <1>6, <3>3, <3>4
    <3> QED
      BY <3>1, <3>5
  <2>4. CASE Ring!Wrapped(r)
    <3> DEFINE taken == (r.startIndex .. r.capacity - 1) \cup (0 .. r.endIndex - 1)
    <3>1. /\ Around(r.kind, r.cells, r.capacity, r.startIndex, r.endIndex, r.content)
          /\ Ring!ToSet(places) = taken
      BY <1>4, <2>4, RingShape, RingPlaces
    <3>2. /\ r.startIndex \in Nat /\ r.endIndex \in Nat /\ r.startIndex < r.capacity
          /\ used = r.endIndex + r.capacity - r.startIndex /\ r.endIndex <= r.startIndex
      BY <3>1 DEF Around
    <3>3. ASSUME NEW c \in 0 .. r.capacity - 1
          PROVE  r.cells[c] # -1 <=> c \in taken
      <4>1. CASE c \in r.endIndex .. r.startIndex - 1
        <5>1. c \notin taken
          BY <1>6, <3>2, <4>1
        <5> QED
          BY <3>1, <4>1, <5>1 DEF Around
      <4>2. CASE c \in r.startIndex .. r.capacity - 1
        <5> DEFINE i == c - r.startIndex + 1
        <5>1. i \in 1 .. used
          BY <1>6, <3>2, <4>2
        <5>2. r.cells[c] = r.content[i]
          BY <3>1, <4>2 DEF Around
        <5> HIDE DEF i
        <5> QED
          BY <2>1, <4>2, <5>1, <5>2
      <4>3. CASE c \in 0 .. r.endIndex - 1
        <5> DEFINE i == r.capacity - r.startIndex + c + 1
        <5>1. i \in 1 .. used
          BY <1>6, <3>2, <4>3
        <5>2. r.cells[c] = r.content[i]
          BY <3>1, <4>3 DEF Around
        <5> HIDE DEF i
        <5> QED
          BY <2>1, <4>3, <5>1, <5>2
      <4> QED
        BY <1>6, <3>2, <4>1, <4>2, <4>3
    <3>4. taken \subseteq 0 .. r.capacity - 1
      BY <1>6, <3>2
    <3> HIDE DEF taken
    <3>5. living = taken
      BY <1>6, <3>3, <3>4
    <3> QED
      BY <3>1, <3>5
  <2> QED
    BY <1>6, <2>2, <2>3, <2>4
<1> QED
  BY <1>5, <1>8, <1>9

(* The ring queue hands out the items that were put into it in the order of *)
(* their arrival, and objects live in the places of its items and nowhere   *)
(* else, as long as none of the calls was made that the code executes       *)
(* wrongly.                                                                 *)
THEOREM RingKeepsOrder ==
  Spec => [](Ring!TypeOK /\ Ring!KeepsOrder /\ Ring!ObjectsLiveInQueue)
<1>1. Ring!RingAssumption
  BY DataAssumption DEF DataAssumption
<1>2. Init => RingInv
  BY <1>1, RingStarts DEF Init
<1>3. RingInv /\ [Next]_vars => RingInv'
  <2> SUFFICES ASSUME RingInv, [Next]_vars  PROVE RingInv'
    OBVIOUS
  <2>1. Ring!Next \/ UNCHANGED ring
    BY DEF Next, Of, vars, queues, event, settings, ini, rest
  <2>2. CASE UNCHANGED ring
    BY <2>2 DEF RingInv
  <2> QED
    BY <1>1, <2>1, <2>2, RingGoesOn
<1> QED
  BY <1>2, <1>3, RingIsRight, PTL DEF Spec
-----------------------------------------------------------------------------
(* The list that both caches are built on *)

List == INSTANCE RecencyList WITH Null <- None

(* The caches' modules and the list's count alike. *)
LEMMA Counting ==
  \A S : /\ Keyed!Cardinality(S) = List!Cardinality(S)
         /\ Slotted!Cardinality(S) = List!Cardinality(S)
         /\ List!Cardinality(S) = Cardinality(S)
BY DEF Keyed!Cardinality, Slotted!Cardinality, List!Cardinality, Cardinality

(* They walk along the list alike, *)
LEMMA OrderAlike ==
  \A c : Keyed!Order(c) = List!Order(c) /\ Slotted!Order(c) = List!Order(c)
<1> SUFFICES ASSUME NEW c PROVE Keyed!Order(c) = List!Order(c) /\ Slotted!Order(c) = List!Order(c)
  OBVIOUS
<1> DEFINE N == Cardinality(Slot)
<1>1. Keyed!Cardinality(Slot) = N /\ Slotted!Cardinality(Slot) = N /\ List!Cardinality(Slot) = N
  BY Counting
<1> HIDE DEF N
<1>2. Keyed!Order(c) = List!Order(c)
  BY <1>1 DEF Keyed!Order, List!Order, Keyed!Last, List!Last
<1>3. Slotted!Order(c) = List!Order(c)
  BY <1>1 DEF Slotted!Order, List!Order, Slotted!Last, List!Last
<1> QED
  BY <1>2, <1>3

(* link and unlink slots alike, *)
LEMMA LinkAlike ==
  \A c, s : /\ Keyed!LinkMostRecentlyUsed(c, s) = List!LinkMostRecentlyUsed(c, s)
            /\ Slotted!LinkMostRecentlyUsed(c, s) = List!LinkMostRecentlyUsed(c, s)
            /\ Keyed!UnlinkMostRecentlyUsed(c, s) = List!UnlinkMostRecentlyUsed(c, s)
            /\ Slotted!UnlinkMostRecentlyUsed(c, s) = List!UnlinkMostRecentlyUsed(c, s)
BY DEF Keyed!LinkMostRecentlyUsed, List!LinkMostRecentlyUsed, Slotted!LinkMostRecentlyUsed,
   Keyed!UnlinkMostRecentlyUsed, List!UnlinkMostRecentlyUsed, Slotted!UnlinkMostRecentlyUsed

(* vacate slots alike, *)
LEMMA VacateAlike ==
  \A c, s : /\ Keyed!Vacate(c, s) = List!Vacate(c, s)
            /\ Slotted!Vacate(c, s) = List!Vacate(c, s)
BY Counting DEF Keyed!Vacate, Slotted!Vacate, List!Vacate

(* remove entries alike, *)
LEMMA RemovedAlike ==
  \A c, s : /\ Keyed!Removed(c, s) = List!Removed(c, s)
            /\ Slotted!Removed(c, s) = List!Removed(c, s)
BY LinkAlike, VacateAlike DEF Keyed!Removed, Slotted!Removed, List!Removed

(* renew the use of a slot alike, *)
LEMMA MakeAlike ==
  \A c, s : /\ Keyed!MakeMostRecentlyUsed(c, s) = List!MakeMostRecentlyUsed(c, s)
            /\ Slotted!MakeMostRecentlyUsed(c, s) = List!MakeMostRecentlyUsed(c, s)
BY LinkAlike DEF Keyed!MakeMostRecentlyUsed, Slotted!MakeMostRecentlyUsed,
  List!MakeMostRecentlyUsed

(* occupy slots alike, *)
LEMMA OccupyAlike ==
  \A c, s, k, v : 
            /\ Keyed!Occupy(c, s, k, v) = List!Occupy(c, s, k, v)
            /\ Slotted!Occupy(c, s, k, v) = List!Occupy(c, s, k, v)
<1> SUFFICES ASSUME NEW c, NEW s, NEW k, NEW v
             PROVE  /\ Keyed!Occupy(c, s, k, v) = List!Occupy(c, s, k, v)
                    /\ Slotted!Occupy(c, s, k, v) = List!Occupy(c, s, k, v)
  OBVIOUS
<1> DEFINE linked == List!LinkMostRecentlyUsed(c, s)
<1>1. Keyed!LinkMostRecentlyUsed(c, s) = linked /\ Slotted!LinkMostRecentlyUsed(c, s) = linked
  BY LinkAlike
<1> HIDE DEF linked
<1>2. Keyed!Occupy(c, s, k, v) = List!Occupy(c, s, k, v)
  BY <1>1 DEF Keyed!Occupy, List!Occupy, linked
<1>3. Slotted!Occupy(c, s, k, v) = List!Occupy(c, s, k, v)
  BY <1>1 DEF Slotted!Occupy, List!Occupy, linked
<1> QED
  BY <1>2, <1>3

(* and do so for several slots at once, *)
LEMMA ToSetAlike ==
  \A s : Keyed!ToSet(s) = List!ToSet(s) /\ Slotted!ToSet(s) = List!ToSet(s)
BY DEF Keyed!ToSet, Slotted!ToSet, List!ToSet

(* when everything goes, *)
LEMMA ClearedAlike ==
  \A c : Keyed!Cleared(c) = List!Cleared(c) /\ Slotted!Cleared(c) = List!Cleared(c)
BY VacateAlike, OrderAlike, ToSetAlike DEF Keyed!Cleared, Slotted!Cleared, List!Cleared

(* when the oldest entries go, *)
LEMMA DownAlike ==
  \A c, k : /\ Keyed!EvictedDownTo(c, k) = List!EvictedDownTo(c, k)
            /\ Slotted!EvictedDownTo(c, k) = List!EvictedDownTo(c, k)
<1> SUFFICES ASSUME NEW c, NEW k
             PROVE  /\ Keyed!EvictedDownTo(c, k) = List!EvictedDownTo(c, k)
                    /\ Slotted!EvictedDownTo(c, k) = List!EvictedDownTo(c, k)
  OBVIOUS
<1> DEFINE order == List!Order(c)
           drop == IF k < c.count THEN c.count - k ELSE 0
           others == List!Vacate(c, List!ToSet(SubSeq(order, 1, drop)))
<1>1. Keyed!Order(c) = order /\ Slotted!Order(c) = order
  BY OrderAlike
<1>2. /\ Keyed!Vacate(c, Keyed!ToSet(SubSeq(order, 1, drop))) = others
      /\ Slotted!Vacate(c, Slotted!ToSet(SubSeq(order, 1, drop))) = others
  BY ToSetAlike, VacateAlike
<1> HIDE DEF order, drop, others
<1>3. Keyed!EvictedDownTo(c, k) = List!EvictedDownTo(c, k)
  BY <1>1, <1>2 DEF Keyed!EvictedDownTo, List!EvictedDownTo, order, drop, others
<1>4. Slotted!EvictedDownTo(c, k) = List!EvictedDownTo(c, k)
  BY <1>1, <1>2 DEF Slotted!EvictedDownTo, List!EvictedDownTo, order, drop, others
<1> QED
  BY <1>3, <1>4

(* when some slots are emptied one by one, *)
LEMMA OneByOneAlike ==
  \A c, s, g : 
    /\ Keyed!RemovedOneByOne(c, s, g) = List!RemovedOneByOne(c, s, g)
    /\ Slotted!RemovedOneByOne(c, s, g) = List!RemovedOneByOne(c, s, g)
BY DEF Keyed!RemovedOneByOne, Slotted!RemovedOneByOne, List!RemovedOneByOne,
   Keyed!Removed, Slotted!Removed, List!Removed, Keyed!Vacate, Slotted!Vacate, List!Vacate,
   Keyed!UnlinkMostRecentlyUsed, List!UnlinkMostRecentlyUsed, Slotted!UnlinkMostRecentlyUsed,
   Keyed!Cardinality, List!Cardinality, Slotted!Cardinality

(* and when a policy picks the entries that go. *)
LEMMA WhereAlike ==
  \A c, s :
    /\ Keyed!EvictedWhere(c, s) = List!EvictedWhere(c, s)
    /\ Slotted!EvictedWhere(c, s) = List!EvictedWhere(c, s)
BY OneByOneAlike, OrderAlike DEF 
   Keyed!EvictedWhere, Slotted!EvictedWhere, List!EvictedWhere
-----------------------------------------------------------------------------
(* The list of a cache *)

(* A cache of some keys and values; a line of slots without a repetition;   *)
(* the list linking up such a line, in both directions; and the line being  *)
(* that of the occupied slots                                               *)
IsCache(c, keys, values) ==
  c \in [key : [Slot -> keys \cup {None}], value : [Slot -> values \cup {None}],
         less : [Slot -> Slot \cup {None}], more : [Slot -> Slot \cup {None}],
         most : Slot \cup {None}, least : Slot \cup {None}, count : Int]

IsLine(line, n) ==
  /\ n \in Nat /\ line \in [1 .. n -> Slot]
  /\ \A i, j \in 1 .. n : line[i] = line[j] => i = j

LinkedUp(c, line, n) ==
  /\ c.least = IF n = 0 THEN None ELSE line[1]
  /\ c.most = IF n = 0 THEN None ELSE line[n]
  /\ \A i \in 1 .. n : c.less[line[i]] = IF i = 1 THEN None ELSE line[i - 1]
  /\ \A i \in 1 .. n : c.more[line[i]] = IF i = n THEN None ELSE line[i + 1]

IsOccupied(c, line, n) ==
  /\ c.count = n
  /\ \A s \in Slot : c.key[s] # None <=> \E i \in 1 .. n : line[i] = s

Chain(c, line, n) == IsLine(line, n) /\ LinkedUp(c, line, n) /\ IsOccupied(c, line, n)

(* Only the links are exchanged. *)
SameEntries(c, d) == d.key = c.key /\ d.value = c.value /\ d.count = c.count

Relinks(c, d, least, more, most, less) ==
  d = [c EXCEPT !.least = least, !.more = more, !.most = most, !.less = less]

(* Links and ends of the list that are exchanged leave a cache a cache. *)
LEMMA Relinked ==
  ASSUME NEW keys, NEW values, NEW c, IsCache(c, keys, values), NEW d,
         NEW less, NEW more, NEW most, NEW least, Relinks(c, d, least, more, most, less),
         less \in [Slot -> Slot \cup {None}], more \in [Slot -> Slot \cup {None}],
         most \in Slot \cup {None}, least \in Slot \cup {None}
  PROVE  /\ IsCache(d, keys, values) /\ SameEntries(c, d)
         /\ d.less = less /\ d.more = more /\ d.most = most /\ d.least = least
BY DEF IsCache, SameEntries, Relinks

(* The line without one of its slots, and with another one behind it *)
Shorter(line, n, k) == [i \in 1 .. n - 1 |-> IF i < k THEN line[i] ELSE line[i + 1]]
Longer(line, n, s) == [i \in 1 .. n + 1 |-> IF i <= n THEN line[i] ELSE s]

(* It has lost that slot only. *)
LEMMA ShorterLine ==
  ASSUME NEW line, NEW n, IsLine(line, n), NEW k \in 1 .. n
  PROVE  /\ IsLine(Shorter(line, n, k), n - 1)
         /\ \A s \in Slot : (\E i \in 1 .. n - 1 : Shorter(line, n, k)[i] = s)
                              <=> s # line[k] /\ \E i \in 1 .. n : line[i] = s
<1> DEFINE q == Shorter(line, n, k)
<1>1. n \in Nat /\ line \in [1 .. n -> Slot]
      /\ \A i, j \in 1 .. n : line[i] = line[j] => i = j
  BY DEF IsLine
<1>2. k \in Nat /\ 1 <= k /\ k <= n /\ n - 1 \in Nat
  BY <1>1
<1>3. \A i \in 1 .. n - 1 : i \in 1 .. n /\ i + 1 \in 1 .. n
  BY <1>1
<1>4. \A i \in 1 .. n - 1 : q[i] = IF i < k THEN line[i] ELSE line[i + 1]
  BY DEF Shorter
<1>5. q \in [1 .. n - 1 -> Slot]
  BY <1>1, <1>3 DEF Shorter
<1> HIDE DEF q
<1>6. \A i, j \in 1 .. n - 1 : q[i] = q[j] => i = j
  <2> SUFFICES ASSUME NEW i \in 1 .. n - 1, NEW j \in 1 .. n - 1, q[i] = q[j]  PROVE i = j
    OBVIOUS
  <2> DEFINE a == IF i < k THEN i ELSE i + 1  b == IF j < k THEN j ELSE j + 1
  <2>1. q[i] = line[a] /\ q[j] = line[b] /\ a \in 1 .. n /\ b \in 1 .. n
    BY <1>3, <1>4
  <2>2. a = b
    BY <1>1, <2>1
  <2> QED
    BY <1>1, <1>2, <2>2
<1>7. ASSUME NEW s \in Slot
      PROVE  (\E i \in 1 .. n - 1 : q[i] = s) <=> s # line[k] /\ \E i \in 1 .. n : line[i] = s
  <2>1. ASSUME NEW i \in 1 .. n - 1, q[i] = s
        PROVE  s # line[k] /\ \E j \in 1 .. n : line[j] = s
    <3> DEFINE a == IF i < k THEN i ELSE i + 1
    <3>1. a \in 1 .. n /\ line[a] = s /\ a # k
      BY <1>2, <1>3, <1>4, <2>1
    <3> HIDE DEF a
    <3> QED
      BY <1>1, <3>1
  <2>2. ASSUME NEW j \in 1 .. n, line[j] = s, s # line[k]
        PROVE  \E i \in 1 .. n - 1 : q[i] = s
    <3>1. j # k
      BY <2>2
    <3>2. CASE j < k
      <4>1. j \in 1 .. n - 1
        BY <1>1, <1>2, <3>2
      <4> QED
        BY <1>4, <2>2, <3>2, <4>1
    <3>3. CASE j > k
      <4> DEFINE i == j - 1
      <4>1. i \in 1 .. n - 1 /\ ~(i < k) /\ i + 1 = j
        BY <1>1, <1>2, <3>3
      <4> HIDE DEF i
      <4> QED
        BY <1>4, <2>2, <4>1
    <3> QED
      BY <1>1, <1>2, <3>1, <3>2, <3>3
  <2> QED
    BY <2>1, <2>2
<1>8. IsLine(q, n - 1)
  BY <1>2, <1>5, <1>6 DEF IsLine
<1> QED
  BY <1>7, <1>8 DEF q

(* It has gained that slot only. *)
LEMMA LongerLine ==
  ASSUME NEW line, NEW n, IsLine(line, n), NEW s \in Slot,
         \A i \in 1 .. n : line[i] # s
  PROVE  /\ IsLine(Longer(line, n, s), n + 1)
         /\ \A t \in Slot : (\E i \in 1 .. n + 1 : Longer(line, n, s)[i] = t)
                              <=> t = s \/ \E i \in 1 .. n : line[i] = t
<1> DEFINE q == Longer(line, n, s)
<1>1. n \in Nat /\ line \in [1 .. n -> Slot]
      /\ \A i, j \in 1 .. n : line[i] = line[j] => i = j
  BY DEF IsLine
<1>2. \A i \in 1 .. n + 1 : q[i] = IF i <= n THEN line[i] ELSE s
  BY DEF Longer
<1>3. \A i \in 1 .. n + 1 : IF i <= n THEN i \in 1 .. n ELSE i = n + 1
  BY <1>1
<1>4. q \in [1 .. n + 1 -> Slot]
  BY <1>1, <1>3 DEF Longer
<1> HIDE DEF q
<1>5. \A i, j \in 1 .. n + 1 : q[i] = q[j] => i = j
  <2> SUFFICES ASSUME NEW i \in 1 .. n + 1, NEW j \in 1 .. n + 1, q[i] = q[j]  PROVE i = j
    OBVIOUS
  <2>1. CASE i <= n /\ j <= n
    BY <1>1, <1>2, <1>3, <2>1
  <2>2. CASE ~(i <= n) /\ ~(j <= n)
    BY <1>3, <2>2
  <2>3. CASE i <= n /\ ~(j <= n)
    BY <1>2, <1>3, <2>3
  <2>4. CASE ~(i <= n) /\ j <= n
    BY <1>2, <1>3, <2>4
  <2> QED
    BY <2>1, <2>2, <2>3, <2>4
<1>6. n + 1 \in 1 .. n + 1 /\ q[n + 1] = s /\ \A i \in 1 .. n : i \in 1 .. n + 1 /\ q[i] = line[i]
  BY <1>1, <1>2
<1>7. ASSUME NEW t \in Slot
      PROVE  (\E i \in 1 .. n + 1 : q[i] = t) <=> t = s \/ \E i \in 1 .. n : line[i] = t
  BY <1>2, <1>3, <1>6
<1>8. IsLine(q, n + 1)
  BY <1>1, <1>4, <1>5 DEF IsLine
<1> QED
  BY <1>7, <1>8 DEF q

(* A slot is taken out of the list. *)
LEMMA UnlinkKeeps ==
  ASSUME NEW keys, NEW values, NEW c, IsCache(c, keys, values), None \notin Slot,
         NEW line, NEW n, IsLine(line, n), LinkedUp(c, line, n), NEW k \in 1 .. n
  PROVE  LET d == List!UnlinkMostRecentlyUsed(c, line[k])
         IN /\ IsCache(d, keys, values) /\ SameEntries(c, d)
            /\ LinkedUp(d, Shorter(line, n, k), n - 1)
<1> DEFINE d == List!UnlinkMostRecentlyUsed(c, line[k])
           q == Shorter(line, n, k)
           older == c.less[line[k]]  younger == c.more[line[k]]
           least == IF older = None THEN younger ELSE c.least
           most == IF younger = None THEN older ELSE c.most
           more == IF older = None THEN c.more ELSE [c.more EXCEPT ![older] = younger]
           less == IF younger = None THEN c.less ELSE [c.less EXCEPT ![younger] = older]
<1>1. /\ n \in Nat /\ line \in [1 .. n -> Slot]
      /\ \A i, j \in 1 .. n : line[i] = line[j] => i = j
  BY DEF IsLine
<1>2. /\ c.less \in [Slot -> Slot \cup {None}] /\ c.more \in [Slot -> Slot \cup {None}]
      /\ c.most \in Slot \cup {None} /\ c.least \in Slot \cup {None}
  BY DEF IsCache
<1>3. /\ c.least = (IF n = 0 THEN None ELSE line[1])
      /\ c.most = (IF n = 0 THEN None ELSE line[n])
      /\ \A i \in 1 .. n : c.less[line[i]] = IF i = 1 THEN None ELSE line[i - 1]
      /\ \A i \in 1 .. n : c.more[line[i]] = IF i = n THEN None ELSE line[i + 1]
  BY DEF LinkedUp
<1>4. k \in Nat /\ n \in Nat /\ 1 <= k /\ k <= n /\ n # 0 /\ n - 1 \in Nat
  BY <1>1
<1>5. /\ older = (IF k = 1 THEN None ELSE line[k - 1])
      /\ younger = (IF k = n THEN None ELSE line[k + 1])
  BY <1>3
<1>6. (k # 1 => k - 1 \in 1 .. n) /\ (k # n => k + 1 \in 1 .. n)
  BY <1>4
<1>7. older \in Slot \cup {None} /\ younger \in Slot \cup {None}
      /\ (older = None <=> k = 1) /\ (younger = None <=> k = n)
  <2>1. older \in Slot \cup {None} /\ (older = None <=> k = 1)
    <3>1. CASE k = 1
      BY <1>5, <3>1
    <3>2. CASE k # 1
      <4> DEFINE i == k - 1
      <4>1. i \in 1 .. n /\ older = line[i]
        BY <1>5, <1>6, <3>2
      <4> HIDE DEF i, older
      <4>2. older \in Slot
        BY <1>1, <4>1
      <4> QED
        BY <3>2, <4>2
    <3> QED
      BY <3>1, <3>2
  <2>2. younger \in Slot \cup {None} /\ (younger = None <=> k = n)
    <3>1. CASE k = n
      BY <1>5, <3>1
    <3>2. CASE k # n
      <4> DEFINE i == k + 1
      <4>1. i \in 1 .. n /\ younger = line[i]
        BY <1>5, <1>6, <3>2
      <4> HIDE DEF i, younger
      <4>2. younger \in Slot
        BY <1>1, <4>1
      <4> QED
        BY <3>2, <4>2
    <3> QED
      BY <3>1, <3>2
  <2> QED
    BY <2>1, <2>2
<1>8. Relinks(c, d, least, more, most, less)
  BY DEF List!UnlinkMostRecentlyUsed, Relinks
<1> HIDE DEF older, younger, d, q
<1>9. /\ less \in [Slot -> Slot \cup {None}] /\ more \in [Slot -> Slot \cup {None}]
      /\ most \in Slot \cup {None} /\ least \in Slot \cup {None}
  BY <1>2, <1>7
<1>10. /\ \A s \in Slot : less[s] = IF younger # None /\ s = younger THEN older ELSE c.less[s]
       /\ \A s \in Slot : more[s] = IF older # None /\ s = older THEN younger ELSE c.more[s]
  BY <1>2
<1>11. least = IF k = 1 THEN younger ELSE line[1]
  BY <1>3, <1>4, <1>7
<1>12. most = IF k = n THEN older ELSE line[n]
  BY <1>3, <1>4, <1>7
<1> HIDE DEF less, more, least, most
<1>13. /\ IsCache(d, keys, values) /\ SameEntries(c, d)
       /\ d.less = less /\ d.more = more /\ d.most = most /\ d.least = least
  BY <1>8, <1>9, Relinked
<1>14. /\ \A i \in 1 .. n - 1 : q[i] = IF i < k THEN line[i] ELSE line[i + 1]
       /\ \A i \in 1 .. n - 1 : i \in 1 .. n /\ i + 1 \in 1 .. n
  BY <1>1 DEF q, Shorter
<1>15. least = IF n - 1 = 0 THEN None ELSE q[1]
  <2>1. CASE n = 1
    BY <1>4, <1>5, <1>11, <2>1
  <2>2. CASE n # 1
    <3>1. 1 \in 1 .. n - 1
      BY <1>1, <1>4, <2>2
    <3>2. q[1] = IF 1 < k THEN line[1] ELSE line[2]
      BY <1>14, <3>1
    <3>3. CASE k = 1
      BY <1>4, <1>5, <1>11, <2>2, <3>2, <3>3
    <3>4. CASE k # 1
      BY <1>4, <1>11, <2>2, <3>2, <3>4
    <3> QED
      BY <3>3, <3>4
  <2> QED
    BY <2>1, <2>2
<1>16. most = IF n - 1 = 0 THEN None ELSE q[n - 1]
  <2>1. CASE n = 1
    BY <1>4, <1>5, <1>12, <2>1
  <2>2. CASE n # 1
    <3>1. n - 1 \in 1 .. n - 1 /\ (n - 1) + 1 = n
      BY <1>1, <1>4, <2>2
    <3>2. q[n - 1] = IF n - 1 < k THEN line[n - 1] ELSE line[n]
      <4> DEFINE i == n - 1
      <4>1. i \in 1 .. n - 1 /\ i + 1 = n
        BY <3>1
      <4> HIDE DEF i
      <4>2. q[i] = IF i < k THEN line[i] ELSE line[n]
        BY <1>14, <4>1
      <4> QED
        BY <4>2 DEF i
    <3>3. CASE k = n
      <4>1. n - 1 < k /\ k # 1 /\ n - 1 # 0 /\ k - 1 = n - 1
        BY <1>4, <2>2, <3>3
      <4> QED
        BY <1>5, <1>12, <3>2, <3>3, <4>1
    <3>4. CASE k # n
      <4>1. ~(n - 1 < k) /\ n - 1 # 0
        BY <1>4, <2>2, <3>4
      <4> QED
        BY <1>12, <3>2, <3>4, <4>1
    <3> QED
      BY <3>3, <3>4
  <2> QED
    BY <2>1, <2>2
<1>17. ASSUME NEW i \in 1 .. n - 1
       PROVE  less[q[i]] = IF i = 1 THEN None ELSE q[i - 1]
  <2>1. i \in Nat /\ 1 <= i /\ i <= n - 1 /\ i \in 1 .. n /\ i + 1 \in 1 .. n
    BY <1>4, <1>14
  <2>2. i # 1 => i - 1 \in 1 .. n - 1
    BY <1>4, <2>1
  <2>3. CASE i < k
    <3>1. q[i] = line[i] /\ line[i] \in Slot
      BY <1>1, <1>14, <2>1, <2>3
    <3>2. ~(younger # None /\ line[i] = younger)
      <4>1. k # n => k + 1 # i
        BY <1>4, <2>1, <2>3
      <4> QED
        BY <1>1, <1>5, <1>6, <1>7, <2>1, <4>1
    <3>3. less[q[i]] = IF i = 1 THEN None ELSE line[i - 1]
      BY <1>3, <1>10, <2>1, <3>1, <3>2
    <3>4. i # 1 => q[i - 1] = line[i - 1]
      <4>1. i # 1 => i - 1 < k
        BY <1>4, <2>1, <2>3
      <4> QED
        BY <1>14, <2>2, <4>1
    <3> QED
      BY <3>3, <3>4
  <2>4. CASE i = k
    <3>1. q[i] = line[k + 1] /\ k # n /\ ~(i < k)
      BY <1>4, <1>14, <2>1, <2>4
    <3>2. q[i] = younger /\ younger # None /\ younger \in Slot
      BY <1>5, <1>7, <3>1
    <3>3. less[q[i]] = older
      BY <1>10, <3>2
    <3>4. i # 1 => q[i - 1] = line[k - 1]
      <4>1. i # 1 => i - 1 < k
        BY <1>4, <2>1, <2>4
      <4> QED
        BY <1>14, <2>2, <2>4, <4>1
    <3> QED
      BY <1>5, <2>4, <3>3, <3>4
  <2>5. CASE i > k
    <3>1. q[i] = line[i + 1] /\ line[i + 1] \in Slot
      <4>1. ~(i < k)
        BY <1>4, <2>1, <2>5
      <4> QED
        BY <1>1, <1>14, <2>1, <4>1
    <3>2. ~(younger # None /\ line[i + 1] = younger)
      <4>1. k # n => k + 1 # i + 1
        BY <1>4, <2>1, <2>5
      <4> QED
        BY <1>1, <1>5, <1>6, <1>7, <2>1, <4>1
    <3>3. less[q[i]] = line[i]
      <4>1. i + 1 # 1 /\ (i + 1) - 1 = i
        BY <2>1
      <4> QED
        BY <1>3, <1>10, <2>1, <3>1, <3>2, <4>1
    <3>4. i # 1 /\ q[i - 1] = line[i]
      <4>1. i # 1 /\ ~(i - 1 < k) /\ (i - 1) + 1 = i
        BY <1>4, <2>1, <2>5
      <4> QED
        BY <1>14, <2>2, <4>1
    <3> QED
      BY <3>3, <3>4
  <2> QED
    BY <1>4, <2>1, <2>3, <2>4, <2>5
<1>18. ASSUME NEW i \in 1 .. n - 1
       PROVE  more[q[i]] = IF i = n - 1 THEN None ELSE q[i + 1]
  <2>1. i \in Nat /\ 1 <= i /\ i <= n - 1 /\ i \in 1 .. n /\ i + 1 \in 1 .. n
    BY <1>4, <1>14
  <2>2. i # n - 1 => i + 1 \in 1 .. n - 1
    BY <1>4, <2>1
  <2>3. CASE i + 1 < k
    <3>1. q[i] = line[i] /\ line[i] \in Slot /\ i # n - 1 /\ i # n
      BY <1>1, <1>4, <1>14, <2>1, <2>3
    <3>2. ~(older # None /\ line[i] = older)
      <4>1. k # 1 => k - 1 # i
        BY <1>4, <2>1, <2>3
      <4> QED
        BY <1>1, <1>5, <1>6, <1>7, <2>1, <4>1
    <3>3. more[q[i]] = line[i + 1]
      BY <1>3, <1>10, <2>1, <3>1, <3>2
    <3>4. q[i + 1] = line[i + 1]
      BY <1>14, <2>2, <2>3, <3>1
    <3> QED
      BY <3>1, <3>3, <3>4
  <2>4. CASE i + 1 = k
    <3>1. q[i] = line[k - 1] /\ k # 1 /\ i < k
      BY <1>4, <1>14, <2>1, <2>4
    <3>2. q[i] = older /\ older # None /\ older \in Slot
      BY <1>5, <1>7, <3>1
    <3>3. more[q[i]] = younger
      BY <1>10, <3>2
    <3>4. (i = n - 1 <=> k = n) /\ (i # n - 1 => q[i + 1] = line[k + 1])
      <4>1. (i = n - 1 <=> k = n) /\ ~(i + 1 < k)
        BY <1>4, <2>1, <2>4
      <4> QED
        BY <1>14, <2>2, <2>4, <4>1
    <3> QED
      BY <1>5, <3>3, <3>4
  <2>5. CASE i + 1 > k
    <3>1. q[i] = line[i + 1] /\ line[i + 1] \in Slot
      <4>1. ~(i < k)
        BY <1>4, <2>1, <2>5
      <4> QED
        BY <1>1, <1>14, <2>1, <4>1
    <3>2. ~(older # None /\ line[i + 1] = older)
      <4>1. k # 1 => k - 1 # i + 1
        BY <1>4, <2>1, <2>5
      <4> QED
        BY <1>1, <1>5, <1>6, <1>7, <2>1, <4>1
    <3>3. more[q[i]] = IF i + 1 = n THEN None ELSE line[(i + 1) + 1]
      BY <1>3, <1>10, <2>1, <3>1, <3>2
    <3>4. (i = n - 1 <=> i + 1 = n) /\ (i # n - 1 => q[i + 1] = line[(i + 1) + 1])
      <4>1. (i = n - 1 <=> i + 1 = n) /\ ~(i + 1 < k)
        BY <1>4, <2>1, <2>5
      <4> QED
        BY <1>14, <2>2, <4>1
    <3> QED
      BY <3>3, <3>4
  <2> QED
    BY <1>4, <2>1, <2>3, <2>4, <2>5
<1>19. LinkedUp(d, q, n - 1)
  BY <1>13, <1>15, <1>16, <1>17, <1>18 DEF LinkedUp
<1> QED
  BY <1>13, <1>19 DEF d, q

(* A slot is put behind the most recently used one. *)
LEMMA LinkKeeps ==
  ASSUME NEW keys, NEW values, NEW c, IsCache(c, keys, values), None \notin Slot,
         NEW line, NEW n, IsLine(line, n), LinkedUp(c, line, n), NEW s \in Slot,
         \A i \in 1 .. n : line[i] # s
  PROVE  LET d == List!LinkMostRecentlyUsed(c, s)
         IN /\ IsCache(d, keys, values) /\ SameEntries(c, d)
            /\ LinkedUp(d, Longer(line, n, s), n + 1)
<1> DEFINE d == List!LinkMostRecentlyUsed(c, s)
           q == Longer(line, n, s)
           most == c.most
           less == [c.less EXCEPT ![s] = most]
           more == IF most = None THEN [c.more EXCEPT ![s] = None]
                   ELSE [[c.more EXCEPT ![s] = None] EXCEPT ![most] = s]
           least == IF most = None THEN s ELSE c.least
<1>1. /\ n \in Nat /\ line \in [1 .. n -> Slot]
      /\ \A i, j \in 1 .. n : line[i] = line[j] => i = j
  BY DEF IsLine
<1>2. /\ c.less \in [Slot -> Slot \cup {None}] /\ c.more \in [Slot -> Slot \cup {None}]
      /\ c.most \in Slot \cup {None} /\ c.least \in Slot \cup {None}
  BY DEF IsCache
<1>3. /\ c.least = (IF n = 0 THEN None ELSE line[1])
      /\ most = (IF n = 0 THEN None ELSE line[n])
      /\ \A i \in 1 .. n : c.less[line[i]] = IF i = 1 THEN None ELSE line[i - 1]
      /\ \A i \in 1 .. n : c.more[line[i]] = IF i = n THEN None ELSE line[i + 1]
  BY DEF LinkedUp
<1>4. (most = None <=> n = 0) /\ (n # 0 => n \in 1 .. n /\ 1 \in 1 .. n)
  BY <1>1, <1>3
<1>5. Relinks(c, d, least, more, s, less)
  <2>1. CASE most = None
    BY <2>1 DEF List!LinkMostRecentlyUsed, IsCache, Relinks
  <2>2. CASE most # None
    <3>1. d = [c EXCEPT !.less[s] = c.most, !.more[s] = None, !.more[c.most] = s, !.most = s]
      BY <2>2 DEF List!LinkMostRecentlyUsed
    <3> QED
      BY <2>2, <3>1 DEF IsCache, Relinks
  <2> QED
    BY <2>1, <2>2
<1> HIDE DEF d, q, most
<1>6. /\ less \in [Slot -> Slot \cup {None}] /\ more \in [Slot -> Slot \cup {None}]
      /\ s \in Slot \cup {None} /\ least \in Slot \cup {None}
  BY <1>2 DEF most
<1>7. /\ \A t \in Slot : less[t] = IF t = s THEN most ELSE c.less[t]
      /\ \A t \in Slot : more[t] = IF most # None /\ t = most THEN s
                                   ELSE IF t = s THEN None ELSE c.more[t]
  BY <1>2 DEF most
<1>8. least = IF n = 0 THEN s ELSE line[1]
  BY <1>3, <1>4
<1> HIDE DEF less, more, least
<1>9. /\ IsCache(d, keys, values) /\ SameEntries(c, d)
      /\ d.less = less /\ d.more = more /\ d.most = s /\ d.least = least
  BY <1>5, <1>6, Relinked
<1>10. /\ \A i \in 1 .. n : q[i] = line[i] /\ i \in 1 .. n + 1
       /\ q[n + 1] = s
       /\ \A i \in 1 .. n + 1 : i \in 1 .. n \/ i = n + 1
  <2>1. \A i \in 1 .. n + 1 : q[i] = IF i <= n THEN line[i] ELSE s
    BY DEF q, Longer
  <2> QED
    BY <1>1, <2>1
<1>11. least = IF n + 1 = 0 THEN None ELSE q[1]
  <2>1. CASE n = 0
    BY <1>8, <1>10, <2>1
  <2>2. CASE n # 0
    BY <1>1, <1>4, <1>8, <1>10, <2>2
  <2> QED
    BY <2>1, <2>2
<1>12. s = IF n + 1 = 0 THEN None ELSE q[n + 1]
  BY <1>1, <1>10
<1>13. ASSUME NEW i \in 1 .. n + 1
       PROVE  less[q[i]] = IF i = 1 THEN None ELSE q[i - 1]
  <2>1. CASE i \in 1 .. n
    <3>1. q[i] = line[i] /\ line[i] \in Slot /\ line[i] # s
      BY <1>1, <1>10, <2>1
    <3>2. less[q[i]] = IF i = 1 THEN None ELSE line[i - 1]
      BY <1>3, <1>7, <2>1, <3>1
    <3>3. i # 1 => i - 1 \in 1 .. n
      BY <1>1, <2>1
    <3> QED
      BY <1>10, <3>2, <3>3
  <2>2. CASE i = n + 1
    <3>1. less[q[i]] = most
      BY <1>7, <1>10, <2>2
    <3>2. (i = 1 <=> n = 0) /\ i - 1 = n
      BY <1>1, <2>2
    <3> QED
      BY <1>3, <1>4, <1>10, <3>1, <3>2
  <2> QED
    BY <1>10, <2>1, <2>2
<1>14. ASSUME NEW i \in 1 .. n + 1
       PROVE  more[q[i]] = IF i = n + 1 THEN None ELSE q[i + 1]
  <2>1. CASE i \in 1 .. n
    <3>1. q[i] = line[i] /\ line[i] \in Slot /\ line[i] # s /\ n # 0 /\ i # n + 1
      BY <1>1, <1>10, <2>1
    <3>2. CASE i = n
      <4>1. most # None /\ line[i] = most
        BY <1>3, <1>4, <3>1, <3>2
      <4>2. more[q[i]] = s
        BY <1>7, <3>1, <4>1
      <4> QED
        BY <1>10, <3>1, <3>2, <4>2
    <3>3. CASE i # n
      <4>1. most = line[n] /\ line[i] # most /\ i + 1 \in 1 .. n
        BY <1>1, <1>3, <1>4, <2>1, <3>1, <3>3
      <4>2. more[q[i]] = line[i + 1]
        BY <1>3, <1>7, <2>1, <3>1, <3>3, <4>1
      <4> QED
        BY <1>10, <3>1, <4>1, <4>2
    <3> QED
      BY <3>2, <3>3
  <2>2. CASE i = n + 1
    <3>1. q[i] = s /\ ~(most # None /\ s = most)
      BY <1>3, <1>4, <1>10, <2>2
    <3> QED
      BY <1>7, <2>2, <3>1
  <2> QED
    BY <1>10, <2>1, <2>2
<1>15. LinkedUp(d, q, n + 1)
  <2>1. /\ \A i \in 1 .. n + 1 : d.less[q[i]] = IF i = 1 THEN None ELSE q[i - 1]
        /\ \A i \in 1 .. n + 1 : d.more[q[i]] = IF i = n + 1 THEN None ELSE q[i + 1]
    BY <1>9, <1>13, <1>14
  <2> QED
    BY <1>9, <1>11, <1>12, <2>1 DEF LinkedUp
<1> QED
  BY <1>9, <1>15 DEF d, q
(* A line is no longer than there are slots, and so long only if it has all *)
(* of them.                                                                 *)
LEMMA LineFits ==
  ASSUME IsFiniteSet(Slot), NEW line, NEW n, IsLine(line, n)
  PROVE  /\ Cardinality(Slot) \in Nat /\ n <= Cardinality(Slot)
         /\ n = Cardinality(Slot) <=> \A s \in Slot : \E i \in 1 .. n : line[i] = s
<1>1. n \in Nat /\ line \in Injection(1 .. n, Slot)
  BY DEF IsLine, Injection, IsInjective
<1>2. Cardinality(1 .. n) = n
  BY <1>1, FS_Interval
<1>3. n <= Cardinality(Slot) /\ (n = Cardinality(Slot) <=> line \in Surjection(1 .. n, Slot))
  BY <1>1, <1>2, FS_Injection
<1>4. line \in Surjection(1 .. n, Slot) <=> \A s \in Slot : \E i \in 1 .. n : line[i] = s
  BY <1>1 DEF Surjection, Injection
<1> QED
  BY <1>3, <1>4, FS_CardinalityType

(* As many slots as it is long are on a line. *)
LEMMA LineCounts ==
  ASSUME NEW line, NEW n, IsLine(line, n)
  PROVE  Cardinality({line[i] : i \in 1 .. n}) = n
<1> DEFINE S == {line[i] : i \in 1 .. n}
<1>1. n \in Nat /\ line \in [1 .. n -> S]
      /\ \A i, j \in 1 .. n : line[i] = line[j] => i = j
  BY DEF IsLine
<1>2. line \in Bijection(1 .. n, S)
  BY <1>1 DEF Bijection, Injection, Surjection, IsInjective
<1> HIDE DEF S
<1>3. Cardinality(S) = n
  BY <1>1, <1>2, FS_CountingElements DEF ExistsBijection
<1> QED
  BY <1>3 DEF S

(* The first slots of a line *)
Initially(line, k) == [i \in 1 .. k |-> line[i]]

(* They are a line of their own. *)
LEMMA InitiallyIs ==
  ASSUME NEW line, NEW n, IsLine(line, n), NEW k \in 0 .. n
  PROVE  /\ Initially(line, k) \in Seq(Slot) /\ Len(Initially(line, k)) = k
         /\ IsLine(Initially(line, k), k)
         /\ \A i \in 1 .. k : Initially(line, k)[i] = line[i]
<1>1. /\ n \in Nat /\ line \in [1 .. n -> Slot] /\ k \in Nat
      /\ \A i \in 1 .. k : i \in 1 .. n
      /\ \A i, j \in 1 .. n : line[i] = line[j] => i = j
  BY DEF IsLine
<1>2. Initially(line, k) \in [1 .. k -> Slot]
  BY <1>1 DEF Initially
<1>3. \A i \in 1 .. k : Initially(line, k)[i] = line[i]
  BY DEF Initially
<1>4. Initially(line, k) \in Seq(Slot) /\ Len(Initially(line, k)) = k
  BY <1>1, <1>2
<1>5. IsLine(Initially(line, k), k)
  BY <1>1, <1>2, <1>3 DEF IsLine
<1> QED
  BY <1>3, <1>4, <1>5

(* The slot behind a line, and the step of the walk along the list *)
Following(c, walked) == IF walked = <<>> THEN c.least ELSE c.more[walked[Len(walked)]]
Step(c, walked) ==
  IF Following(c, walked) = None THEN walked ELSE Append(walked, Following(c, walked))

(* A step of the walk goes from the first slots of the line to one more. *)
LEMMA WalkGoesOn ==
  ASSUME NEW c, None \notin Slot, NEW line, NEW n, IsLine(line, n), LinkedUp(c, line, n),
         NEW k \in 0 .. n
  PROVE  Step(c, Initially(line, k)) = Initially(line, IF k < n THEN k + 1 ELSE n)
<1> DEFINE p == Initially(line, k)
<1>1. n \in Nat /\ line \in [1 .. n -> Slot] /\ k \in Nat
  BY DEF IsLine
<1>2. p \in Seq(Slot) /\ Len(p) = k /\ \A i \in 1 .. k : p[i] = line[i]
  BY InitiallyIs
<1>3. /\ c.least = IF n = 0 THEN None ELSE line[1]
      /\ \A i \in 1 .. n : c.more[line[i]] = IF i = n THEN None ELSE line[i + 1]
  BY DEF LinkedUp
<1>4. p = <<>> <=> k = 0
  BY <1>2, EmptySeq
<1> HIDE DEF p
<1>5. Following(c, p) = IF k = n THEN None ELSE line[k + 1]
  <2>1. CASE k = 0
    BY <1>3, <1>4, <2>1 DEF Following
  <2>2. CASE k # 0
    <3>1. k \in 1 .. n /\ k \in 1 .. k
      BY <1>1, <2>2
    <3>2. p[Len(p)] = line[k]
      BY <1>2, <3>1
    <3> QED
      BY <1>3, <1>4, <2>2, <3>1, <3>2 DEF Following
  <2> QED
    BY <2>1, <2>2
<1>6. CASE k = n
  BY <1>1, <1>5, <1>6 DEF Step, p
<1>7. CASE k < n
  <2> DEFINE m == k + 1
  <2>1. m \in 1 .. n /\ m \in 0 .. n /\ m = k + 1 /\ k # n
    BY <1>1, <1>7
  <2> HIDE DEF m
  <2>2. line[m] \in Slot
    BY <1>1, <2>1
  <2>3. Step(c, p) = Append(p, line[m])
    BY <1>5, <2>1, <2>2 DEF Step
  <2>4. /\ Append(p, line[m]) \in Seq(Slot) /\ Len(Append(p, line[m])) = k + 1
        /\ \A i \in 1 .. k : Append(p, line[m])[i] = p[i]
        /\ Append(p, line[m])[k + 1] = line[m]
    BY <1>2, <2>2, AppendProperties
  <2> DEFINE a == Append(p, line[m])  b == Initially(line, m)
  <2>5. b \in Seq(Slot) /\ Len(b) = m /\ \A i \in 1 .. m : b[i] = line[i]
    BY <2>1, InitiallyIs
  <2>6. a \in Seq(Slot) /\ Len(a) = m /\ \A i \in 1 .. m : a[i] = line[i]
    <3>1. \A i \in 1 .. m : i \in 1 .. k \/ i = m
      BY <1>1, <2>1
    <3> QED
      BY <1>2, <2>1, <2>4, <3>1
  <2> HIDE DEF a, b
  <2>7. a = b
    BY <2>5, <2>6, SeqEqual
  <2> QED
    BY <1>7, <2>1, <2>3, <2>7 DEF a, b, p
<1> QED
  BY <1>1, <1>6, <1>7

(* The function that the list is walked along with *)
Walks(c, w, last) ==
  w = [m \in 0 .. last |-> IF m = 0 THEN <<>> ELSE Step(c, w[m - 1])]

(* The order is where such a walk ends. *)
LEMMA OrderWalks ==
  ASSUME NEW c
  PROVE  List!Order(c) = (CHOOSE w : Walks(c, w, Cardinality(Slot)))[Cardinality(Slot)]
<1> DEFINE N == Cardinality(Slot)
<1>1. List!Cardinality(Slot) = N
  BY Counting
<1> HIDE DEF N
<1>2. List!Order(c) = (CHOOSE w : Walks(c, w, N))[N]
  BY <1>1 DEF List!Order, List!Last, Walks, Step, Following
<1> QED
  BY <1>2 DEF N

(* The walk finds the line that is linked up. *)
LEMMA OrderFinds ==
  ASSUME NEW c, None \notin Slot, IsFiniteSet(Slot),
         NEW line, NEW n, IsLine(line, n), LinkedUp(c, line, n)
  PROVE  List!Order(c) = line
<1> DEFINE N == Cardinality(Slot)
           At(m) == Initially(line, IF m < n THEN m ELSE n)
           w == [m \in 0 .. N |-> At(m)]
<1>1. n \in Nat /\ N \in Nat /\ n <= N /\ line \in [1 .. n -> Slot]
  BY LineFits DEF IsLine
<1> HIDE DEF N
<1>2. At(0) = <<>>
  <2> DEFINE p == Initially(line, 0)
  <2>1. 0 \in 0 .. n
    BY <1>1
  <2>2. p \in Seq(Slot) /\ Len(p) = 0
    <3> DEFINE zero == 0
    <3>1. zero \in 0 .. n
      BY <2>1
    <3> HIDE DEF zero
    <3>2. Initially(line, zero) \in Seq(Slot) /\ Len(Initially(line, zero)) = zero
      BY <3>1, InitiallyIs
    <3> QED
      BY <3>2 DEF zero
  <2>3. At(0) = p
    BY <1>1
  <2> HIDE DEF p
  <2> QED
    BY <2>2, <2>3, EmptySeq
<1>3. ASSUME NEW m \in Nat  PROVE At(m + 1) = Step(c, At(m))
  <2> DEFINE k == IF m < n THEN m ELSE n
  <2>1. k \in 0 .. n /\ (IF k < n THEN k + 1 ELSE n) = IF m + 1 < n THEN m + 1 ELSE n
    BY <1>1
  <2> HIDE DEF k
  <2>2. Step(c, Initially(line, k)) = Initially(line, IF k < n THEN k + 1 ELSE n)
    BY <2>1, WalkGoesOn
  <2> QED
    BY <2>1, <2>2 DEF k
<1>4. At(N) = line
  <2>1. At(N) = Initially(line, n)
    BY <1>1
  <2> QED
    BY <1>1, <2>1 DEF Initially
<1> HIDE DEF At
<1>5. Walks(c, w, N)
  <2>1. ASSUME NEW m \in 0 .. N
        PROVE  w[m] = IF m = 0 THEN <<>> ELSE Step(c, w[m - 1])
    <3>1. w[m] = At(m)
      OBVIOUS
    <3>2. CASE m = 0
      BY <1>2, <3>1, <3>2
    <3>3. CASE m # 0
      <4> DEFINE l == m - 1
      <4>1. l \in Nat /\ l \in 0 .. N /\ m = l + 1
        BY <1>1, <3>3
      <4> HIDE DEF l
      <4>2. w[l] = At(l)
        BY <4>1
      <4>3. At(m) = Step(c, At(l))
        BY <1>3, <4>1
      <4> QED
        BY <3>1, <3>3, <4>2, <4>3 DEF l
    <3> QED
      BY <3>2, <3>3
  <2>2. w = [m \in 0 .. N |-> w[m]]
    OBVIOUS
  <2> HIDE DEF w
  <2> QED
    BY <2>1, <2>2 DEF Walks
<1> HIDE DEF w
<1> DEFINE v == CHOOSE v : Walks(c, v, N)
<1>6. Walks(c, v, N)
  BY <1>5
<1>7. List!Order(c) = v[N]
  BY OrderWalks DEF N
<1> HIDE DEF v
<1> DEFINE S == {m \in Nat : m \in 0 .. N => v[m] = At(m)}
<1>8. 0 \in S
  <2>1. 0 \in 0 .. N => v[0] = <<>>
    BY <1>6 DEF Walks
  <2> QED
    BY <1>2, <2>1
<1>9. ASSUME NEW m \in Nat, m \in S  PROVE m + 1 \in S
  <2> SUFFICES ASSUME m + 1 \in 0 .. N  PROVE v[m + 1] = At(m + 1)
    OBVIOUS
  <2> DEFINE l == m + 1
  <2>1. m \in 0 .. N /\ l \in 0 .. N /\ l # 0 /\ l - 1 = m
    BY <1>1
  <2> HIDE DEF l
  <2>2. v[l] = Step(c, v[m])
    BY <1>6, <2>1 DEF Walks
  <2>3. v[m] = At(m)
    BY <1>9, <2>1
  <2> QED
    BY <1>3, <2>2, <2>3 DEF l
<1> HIDE DEF S
<1>10. N \in S
  BY <1>1, <1>8, <1>9, EveryNumber
<1> QED
  BY <1>1, <1>4, <1>7, <1>10 DEF S
(* The invariant of a cache: its list links up its occupied slots. *)
Lines(c, keys, values, line, n) == IsCache(c, keys, values) /\ Chain(c, line, n)
Sound(c, keys, values) == \E line, n : Lines(c, keys, values, line, n)

(* No slot but those in which nothing is left has got another key. *)
KeysLeft(c, d) == \A s \in Slot : d.key[s] \in {None, c.key[s]}

(* Caches whose lists are the same *)
SameLinks(c, d) == d.less = c.less /\ d.more = c.more /\ d.most = c.most /\ d.least = c.least

(* link up the same lines. *)
LEMMA LinksStay ==
  ASSUME NEW c, NEW d, SameLinks(c, d), NEW line, NEW n, LinkedUp(c, line, n)
  PROVE  LinkedUp(d, line, n)
BY DEF LinkedUp, SameLinks

(* Vacated slots lose their keys and values, and nothing else changes. *)
LEMMA VacateIs ==
  ASSUME NEW keys, NEW values, NEW c, IsCache(c, keys, values), IsFiniteSet(Slot),
         NEW slots \in SUBSET Slot
  PROVE  LET d == List!Vacate(c, slots)
         IN /\ IsCache(d, keys, values) /\ SameLinks(c, d)
            /\ d.count = c.count - Cardinality(slots)
            /\ \A s \in Slot : d.key[s] = IF s \in slots THEN None ELSE c.key[s]
            /\ \A s \in Slot : d.value[s] = IF s \in slots THEN None ELSE c.value[s]
<1> DEFINE d == List!Vacate(c, slots)
           key == [s \in Slot |-> IF s \in slots THEN None ELSE c.key[s]]
           value == [s \in Slot |-> IF s \in slots THEN None ELSE c.value[s]]
           count == c.count - Cardinality(slots)
<1>1. d = [c EXCEPT !.key = key, !.value = value, !.count = count]
  BY Counting DEF List!Vacate
<1>2. Cardinality(slots) \in Nat
  BY FS_Subset, FS_CardinalityType
<1>3. key \in [Slot -> keys \cup {None}] /\ value \in [Slot -> values \cup {None}]
      /\ count \in Int
  BY <1>2 DEF IsCache
<1>4. /\ \A s \in Slot : key[s] = IF s \in slots THEN None ELSE c.key[s]
      /\ \A s \in Slot : value[s] = IF s \in slots THEN None ELSE c.value[s]
  OBVIOUS
<1> HIDE DEF d, key, value, count
<1>5. IsCache(d, keys, values) /\ SameLinks(c, d) /\ d.count = count /\ d.key = key
      /\ d.value = value
  BY <1>1, <1>3 DEF IsCache, SameLinks
<1> QED
  BY <1>4, <1>5 DEF d, count

(* The slot that a removed entry was in is vacated. *)
LEMMA RemovedKeeps ==
  ASSUME NEW keys, NEW values, NEW c, NEW line, NEW n, Lines(c, keys, values, line, n),
         None \notin Slot, IsFiniteSet(Slot), NEW k \in 1 .. n
  PROVE  LET d == List!Removed(c, line[k])
         IN /\ Lines(d, keys, values, Shorter(line, n, k), n - 1)
            /\ \A t \in Slot : d.key[t] = IF t = line[k] THEN None ELSE c.key[t]
            /\ \A t \in Slot : d.value[t] = IF t = line[k] THEN None ELSE c.value[t]
<1>1. IsCache(c, keys, values) /\ IsLine(line, n) /\ LinkedUp(c, line, n)
      /\ c.count = n /\ \A t \in Slot : c.key[t] # None <=> \E i \in 1 .. n : line[i] = t
  BY DEF Lines, Chain, IsOccupied
<1> DEFINE s == line[k]
           b == List!UnlinkMostRecentlyUsed(c, s)  d == List!Removed(c, s)
           q == Shorter(line, n, k)  m == n - 1
<1>2. s \in Slot
  BY <1>1 DEF IsLine
<1>3. IsCache(b, keys, values) /\ SameEntries(c, b) /\ LinkedUp(b, q, m)
  BY <1>1, UnlinkKeeps
<1>4. IsLine(q, m) /\ \A t \in Slot : (\E i \in 1 .. m : q[i] = t)
                                        <=> t # s /\ \E i \in 1 .. n : line[i] = t
  BY <1>1, ShorterLine
<1>5. n \in Nat /\ m = n - 1 /\ Cardinality({s}) = 1
  BY <1>1, FS_Singleton DEF IsLine
<1>6. d = List!Vacate(b, {s})
  BY DEF List!Removed
<1> HIDE DEF b, d, q, m, s
<1>7. /\ IsCache(d, keys, values) /\ SameLinks(b, d)
      /\ d.count = b.count - 1
      /\ \A t \in Slot : d.key[t] = IF t \in {s} THEN None ELSE b.key[t]
      /\ \A t \in Slot : d.value[t] = IF t \in {s} THEN None ELSE b.value[t]
  <2> DEFINE slots == {s}
  <2>1. slots \in SUBSET Slot
    BY <1>2
  <2> HIDE DEF slots
  <2>2. /\ IsCache(d, keys, values) /\ SameLinks(b, d)
        /\ d.count = b.count - Cardinality(slots)
        /\ \A t \in Slot : d.key[t] = IF t \in slots THEN None ELSE b.key[t]
        /\ \A t \in Slot : d.value[t] = IF t \in slots THEN None ELSE b.value[t]
    BY <1>3, <1>6, <2>1, VacateIs DEF slots
  <2> QED
    BY <1>5, <2>2 DEF slots
<1>8. /\ \A t \in Slot : d.key[t] = IF t = s THEN None ELSE c.key[t]
      /\ \A t \in Slot : d.value[t] = IF t = s THEN None ELSE c.value[t]
  BY <1>3, <1>7 DEF SameEntries
<1>9. d.count = m
  BY <1>1, <1>3, <1>5, <1>7 DEF SameEntries
<1>10. IsOccupied(d, q, m)
  BY <1>1, <1>4, <1>8, <1>9 DEF IsOccupied
<1>11. LinkedUp(d, q, m)
  BY <1>3, <1>7, LinksStay
<1>12. Lines(d, keys, values, q, m)
  BY <1>4, <1>7, <1>10, <1>11 DEF Lines, Chain
<1> QED
  BY <1>8, <1>12 DEF d, q, m, s

(* A free slot is occupied. *)
LEMMA OccupyKeeps ==
  ASSUME NEW keys, NEW values, NEW c, NEW line, NEW n, Lines(c, keys, values, line, n),
         None \notin Slot, NEW s \in Slot, c.key[s] = None,
         NEW key \in keys, NEW value \in values, None \notin keys
  PROVE  LET d == List!Occupy(c, s, key, value)
         IN /\ Lines(d, keys, values, Longer(line, n, s), n + 1)
            /\ \A t \in Slot : d.key[t] = IF t = s THEN key ELSE c.key[t]
            /\ \A t \in Slot : d.value[t] = IF t = s THEN value ELSE c.value[t]
<1>1. IsCache(c, keys, values) /\ IsLine(line, n) /\ LinkedUp(c, line, n)
      /\ c.count = n /\ \A t \in Slot : c.key[t] # None <=> \E i \in 1 .. n : line[i] = t
  BY DEF Lines, Chain, IsOccupied
<1>2. n \in Nat /\ \A i \in 1 .. n : line[i] # s
  BY <1>1 DEF IsLine
<1> DEFINE b == List!LinkMostRecentlyUsed(c, s)  d == List!Occupy(c, s, key, value)
           q == Longer(line, n, s)  m == n + 1
<1>3. IsCache(b, keys, values) /\ SameEntries(c, b) /\ LinkedUp(b, q, m)
  BY <1>1, <1>2, LinkKeeps
<1>4. IsLine(q, m) /\ \A t \in Slot : (\E i \in 1 .. m : q[i] = t)
                                        <=> t = s \/ \E i \in 1 .. n : line[i] = t
  BY <1>1, <1>2, LongerLine
<1> DEFINE named == [b.key EXCEPT ![s] = key]  filled == [b.value EXCEPT ![s] = value]
           count == b.count + 1
<1>5. d = [b EXCEPT !.key = named, !.value = filled, !.count = count]
  BY DEF List!Occupy
<1>6. m = n + 1
  OBVIOUS
<1> HIDE DEF b, d, q, m
<1>7. /\ IsCache(d, keys, values) /\ SameLinks(b, d) /\ d.count = b.count + 1
      /\ \A t \in Slot : d.key[t] = IF t = s THEN key ELSE b.key[t]
      /\ \A t \in Slot : d.value[t] = IF t = s THEN value ELSE b.value[t]
  <2>1. /\ b.key \in [Slot -> keys \cup {None}] /\ b.value \in [Slot -> values \cup {None}]
        /\ b.count \in Int
    BY <1>3 DEF IsCache
  <2>2. /\ named \in [Slot -> keys \cup {None}] /\ filled \in [Slot -> values \cup {None}]
        /\ count \in Int /\ \A t \in Slot : named[t] = IF t = s THEN key ELSE b.key[t]
    BY <2>1
  <2>3. count = b.count + 1
    OBVIOUS
  <2>4. \A t \in Slot : filled[t] = IF t = s THEN value ELSE b.value[t]
    BY <2>1
  <2> HIDE DEF named, filled, count
  <2>5. /\ IsCache(d, keys, values) /\ SameLinks(b, d) /\ d.count = count
        /\ d.key = named /\ d.value = filled
    BY <1>3, <1>5, <2>2 DEF IsCache, SameLinks
  <2> QED
    BY <2>2, <2>3, <2>4, <2>5
<1>8. IsOccupied(d, q, m)
  BY <1>1, <1>3, <1>4, <1>6, <1>7 DEF IsOccupied, SameEntries
<1>9. LinkedUp(d, q, m)
  BY <1>3, <1>7, LinksStay
<1>10. Lines(d, keys, values, q, m)
  BY <1>4, <1>7, <1>8, <1>9 DEF Lines, Chain
<1>11. /\ \A t \in Slot : d.key[t] = IF t = s THEN key ELSE c.key[t]
       /\ \A t \in Slot : d.value[t] = IF t = s THEN value ELSE c.value[t]
  BY <1>3, <1>7 DEF SameEntries
<1> QED
  BY <1>10, <1>11 DEF d, q, m

(* The entry of a slot is replaced. *)
Replaces(c, d, s, key, value) == d = [c EXCEPT !.key[s] = key, !.value[s] = value]

(* The line stays what it was. *)
LEMMA ReplacedKeeps ==
  ASSUME NEW keys, NEW values, NEW c, NEW line, NEW n, Lines(c, keys, values, line, n),
         NEW s \in Slot, c.key[s] # None, NEW key \in keys, NEW value \in values,
         None \notin keys, NEW d, Replaces(c, d, s, key, value)
  PROVE  /\ Lines(d, keys, values, line, n)
         /\ \A t \in Slot : d.key[t] = IF t = s THEN key ELSE c.key[t]
         /\ \A t \in Slot : d.value[t] = IF t = s THEN value ELSE c.value[t]
<1>1. IsCache(c, keys, values) /\ Chain(c, line, n)
  BY DEF Lines
<1>2. /\ IsCache(d, keys, values) /\ SameLinks(c, d) /\ d.count = c.count
      /\ \A t \in Slot : d.key[t] = IF t = s THEN key ELSE c.key[t]
  BY <1>1 DEF IsCache, SameLinks, Replaces
<1>3. \A t \in Slot : d.value[t] = IF t = s THEN value ELSE c.value[t]
  BY <1>1 DEF IsCache, Replaces
<1>4. IsOccupied(d, line, n)
  BY <1>1, <1>2 DEF IsOccupied, Chain
<1>5. LinkedUp(d, line, n)
  BY <1>1, <1>2, LinksStay DEF Chain
<1>6. Lines(d, keys, values, line, n)
  BY <1>1, <1>2, <1>4, <1>5 DEF Chain, Lines
<1> QED
  BY <1>2, <1>3, <1>6

(* The line with one of its slots moved to its end *)
Renewed(line, n, k) == Longer(Shorter(line, n, k), n - 1, line[k])

(* A slot becomes the most recently used one. *)
LEMMA MakeKeeps ==
  ASSUME NEW keys, NEW values, NEW c, NEW line, NEW n, Lines(c, keys, values, line, n),
         None \notin Slot, NEW k \in 1 .. n
  PROVE  LET d == List!MakeMostRecentlyUsed(c, line[k])
         IN /\ Lines(d, keys, values, Renewed(line, n, k), n)
            /\ d.key = c.key /\ d.value = c.value
<1>1. IsCache(c, keys, values) /\ IsLine(line, n) /\ LinkedUp(c, line, n)
      /\ c.count = n /\ \A t \in Slot : c.key[t] # None <=> \E i \in 1 .. n : line[i] = t
  BY DEF Lines, Chain, IsOccupied
<1> DEFINE s == line[k]
           b == List!UnlinkMostRecentlyUsed(c, s)  m == n - 1  q == Shorter(line, n, k)
           d == List!LinkMostRecentlyUsed(b, s)  r == Longer(q, m, s)
<1>2. s \in Slot /\ n \in Nat /\ m + 1 = n /\ m \in Nat /\ line \in [1 .. n -> Slot]
  BY <1>1 DEF IsLine
<1>3. IsCache(b, keys, values) /\ SameEntries(c, b) /\ LinkedUp(b, q, m)
  BY <1>1, UnlinkKeeps
<1>4. IsLine(q, m) /\ \A t \in Slot : (\E i \in 1 .. m : q[i] = t)
                                        <=> t # s /\ \E i \in 1 .. n : line[i] = t
  BY <1>1, ShorterLine
<1>5. r = Renewed(line, n, k)
  BY DEF Renewed
<1>6. \A i \in 1 .. m : q[i] = IF i < k THEN line[i] ELSE line[i + 1]
  BY DEF Shorter
<1>7. s = line[k]
  OBVIOUS
<1> HIDE DEF b, q, m, s
<1>8. \A i \in 1 .. m : q[i] # s
  BY <1>4, <1>2, <1>1 DEF IsLine
<1>9. IsCache(d, keys, values) /\ SameEntries(b, d) /\ LinkedUp(d, r, m + 1)
  BY <1>2, <1>3, <1>4, <1>8, LinkKeeps
<1>10. IsLine(r, m + 1) /\ \A t \in Slot : (\E i \in 1 .. m + 1 : r[i] = t)
                                            <=> t = s \/ \E i \in 1 .. m : q[i] = t
  BY <1>2, <1>4, <1>8, LongerLine
<1>11. \A i \in 1 .. m + 1 : r[i] = IF i <= m THEN q[i] ELSE s
  BY DEF Longer
<1> HIDE DEF d, r
<1>12. LinkedUp(d, r, n) /\ IsLine(r, n)
       /\ \A t \in Slot : (\E i \in 1 .. n : r[i] = t) <=> t = s \/ \E i \in 1 .. m : q[i] = t
  BY <1>2, <1>9, <1>10
<1>13. d.count = n /\ d.key = c.key /\ d.value = c.value
  BY <1>1, <1>3, <1>9 DEF SameEntries
<1>14. IsOccupied(d, r, n)
  BY <1>1, <1>2, <1>4, <1>7, <1>12, <1>13 DEF IsOccupied
<1>15. Lines(d, keys, values, r, n)
  BY <1>9, <1>12, <1>14 DEF Lines, Chain
<1>16. List!MakeMostRecentlyUsed(c, s) = IF c.more[s] = None THEN c ELSE d
  BY DEF List!MakeMostRecentlyUsed, d, b
<1>17. ASSUME c.more[s] = None  PROVE r = line
  <2>1. k = n
    <3>1. ASSUME k # n  PROVE FALSE
      <4> DEFINE j == k + 1
      <4>1. j \in 1 .. n
        BY <1>2, <3>1
      <4>2. c.more[line[k]] = line[j]
        BY <1>1, <3>1 DEF LinkedUp
      <4> HIDE DEF j
      <4>3. line[j] \in Slot
        BY <1>2, <4>1
      <4> QED
        BY <1>7, <1>17, <4>2, <4>3
    <3> QED
      BY <3>1
  <2>2. ASSUME NEW i \in 1 .. n  PROVE r[i] = line[i]
    <3>1. CASE i = n
      BY <1>2, <1>7, <1>11, <2>1, <3>1
    <3>2. CASE i # n
      <4>1. i \in 1 .. m /\ i < k /\ i \in 1 .. m + 1 /\ i <= m
        BY <1>2, <2>1, <3>2
      <4> QED
        BY <1>6, <1>11, <4>1
    <3> QED
      BY <3>1, <3>2
  <2>3. r \in [1 .. n -> Slot]
    BY <1>12 DEF IsLine
  <2> QED
    BY <1>2, <2>2, <2>3
<1>18. Lines(List!MakeMostRecentlyUsed(c, s), keys, values, r, n)
  BY <1>15, <1>16, <1>17
<1> QED
  BY <1>5, <1>7, <1>13, <1>16, <1>18
(* An empty cache *)
LEMMA EmptyIsSound ==
  ASSUME NEW keys, NEW values, NEW d, IsCache(d, keys, values),
         d.most = None, d.least = None, d.count = 0, \A s \in Slot : d.key[s] = None,
         NEW line, NEW n, n = 0, IsLine(line, n)
  PROVE  Lines(d, keys, values, line, n)
<1>1. \A i \in 1 .. n : FALSE
  OBVIOUS
<1>2. LinkedUp(d, line, n)
  BY <1>1 DEF LinkedUp
<1>3. IsOccupied(d, line, n)
  BY <1>1 DEF IsOccupied
<1> QED
  BY <1>2, <1>3 DEF Chain, Lines

(* What the walk along the list of a cache finds *)
LEMMA OrderOf ==
  ASSUME NEW c, None \notin Slot, IsFiniteSet(Slot), NEW line, NEW n, Chain(c, line, n)
  PROVE  /\ List!Order(c) = line /\ n \in Nat /\ line \in Seq(Slot) /\ Len(line) = n
         /\ DOMAIN line = 1 .. n /\ n <= Cardinality(Slot) /\ Cardinality(Slot) \in Nat
<1>1. IsLine(line, n) /\ LinkedUp(c, line, n)
  BY DEF Chain
<1>2. n \in Nat /\ line \in [1 .. n -> Slot]
  BY <1>1 DEF IsLine
<1>3. line \in Seq(Slot) /\ Len(line) = n /\ DOMAIN line = 1 .. n
  BY <1>2
<1> QED
  BY <1>1, <1>2, <1>3, OrderFinds, LineFits

(* Every entry is removed. *)
LEMMA ClearedKeeps ==
  ASSUME NEW keys, NEW values, NEW c, NEW line, NEW n, Lines(c, keys, values, line, n),
         None \notin Slot, IsFiniteSet(Slot), NEW q, NEW m, m = 0, IsLine(q, m)
  PROVE  Lines(List!Cleared(c), keys, values, q, m) /\ KeysLeft(c, List!Cleared(c))
<1>1. IsCache(c, keys, values) /\ Chain(c, line, n)
  BY DEF Lines
<1> DEFINE slots == List!ToSet(List!Order(c))
           b == List!Vacate(c, slots)  d == List!Cleared(c)
<1>2. List!Order(c) = line /\ line \in Seq(Slot) /\ DOMAIN line = 1 .. n /\ n \in Nat
      /\ Len(line) = n
  BY <1>1, OrderOf
<1>3. slots = {line[i] : i \in 1 .. n}
  BY <1>2 DEF List!ToSet
<1>4. slots \in SUBSET Slot
  BY <1>2, <1>3, ElementOfSeq
<1>5. \A s \in Slot : s \notin slots => c.key[s] = None
  BY <1>1, <1>3 DEF Chain, IsOccupied
<1>6. d = [b EXCEPT !.count = 0, !.least = None, !.most = None]
  BY DEF List!Cleared
<1> HIDE DEF slots
<1>7. /\ IsCache(b, keys, values)
      /\ \A s \in Slot : b.key[s] = IF s \in slots THEN None ELSE c.key[s]
  BY <1>1, <1>4, VacateIs
<1> HIDE DEF b, d
<1>8. /\ IsCache(d, keys, values) /\ d.key = b.key
      /\ d.count = 0 /\ d.least = None /\ d.most = None
  <2> DEFINE zero == 0
  <2>1. zero \in Int /\ d = [b EXCEPT !.count = zero, !.least = None, !.most = None]
    BY <1>6
  <2>2. zero = 0
    OBVIOUS
  <2> HIDE DEF zero
  <2>3. d.key = b.key /\ d.count = zero /\ d.least = None /\ d.most = None
    BY <1>7, <2>1 DEF IsCache
  <2>4. IsCache(d, keys, values)
    BY <1>7, <2>1 DEF IsCache
  <2> QED
    BY <2>2, <2>3, <2>4
<1>9. \A s \in Slot : d.key[s] = None
  BY <1>5, <1>7, <1>8
<1> QED
  BY <1>8, <1>9, EmptyIsSound DEF d, KeysLeft

(* The line behind its first slots *)
Finally(line, n, k) == [i \in 1 .. n - k |-> line[k + i]]

(* They are a line of the slots that are left. *)
LEMMA FinallyIs ==
  ASSUME NEW line, NEW n, IsLine(line, n), NEW k \in 0 .. n
  PROVE  /\ IsLine(Finally(line, n, k), n - k)
         /\ \A s : (\E i \in 1 .. n - k : Finally(line, n, k)[i] = s)
                     <=> \E i \in k + 1 .. n : line[i] = s
<1> DEFINE q == Finally(line, n, k)  m == n - k
<1>1. /\ n \in Nat /\ line \in [1 .. n -> Slot] /\ k \in Nat
      /\ \A i, j \in 1 .. n : line[i] = line[j] => i = j
  BY DEF IsLine
<1>2. /\ m \in Nat /\ m = n - k
      /\ \A i \in 1 .. m : i \in Nat /\ k + i \in 1 .. n /\ k + i \in k + 1 .. n
  BY <1>1
<1>3. \A i \in 1 .. m : q[i] = line[k + i]
  BY DEF Finally
<1>4. q \in [1 .. m -> Slot]
  BY <1>1, <1>2 DEF Finally
<1> HIDE DEF q, m
<1>5. \A i, j \in 1 .. m : q[i] = q[j] => i = j
  <2> SUFFICES ASSUME NEW i \in 1 .. m, NEW j \in 1 .. m, q[i] = q[j]  PROVE i = j
    OBVIOUS
  <2> DEFINE a == k + i  b == k + j
  <2>1. a \in 1 .. n /\ b \in 1 .. n /\ line[a] = line[b]
    BY <1>2, <1>3
  <2> HIDE DEF a, b
  <2>2. a = b
    BY <1>1, <2>1
  <2> QED
    BY <1>1, <1>2, <2>2 DEF a, b
<1>6. ASSUME NEW s  PROVE (\E i \in 1 .. m : q[i] = s) <=> \E i \in k + 1 .. n : line[i] = s
  <2>1. ASSUME NEW i \in 1 .. m, q[i] = s  PROVE \E j \in k + 1 .. n : line[j] = s
    BY <1>2, <1>3, <2>1
  <2>2. ASSUME NEW j \in k + 1 .. n, line[j] = s  PROVE \E i \in 1 .. m : q[i] = s
    <3> DEFINE i == j - k
    <3>1. i \in 1 .. m /\ k + i = j
      BY <1>1, <1>2
    <3> HIDE DEF i
    <3>2. q[i] = line[k + i]
      BY <1>3, <3>1
    <3> QED
      BY <2>2, <3>1, <3>2
  <2> QED
    BY <2>1, <2>2
<1>7. IsLine(q, m)
  BY <1>2, <1>4, <1>5 DEF IsLine
<1> QED
  BY <1>6, <1>7 DEF q, m

(* The list without its first slots *)
LEMMA CutLinks ==
  ASSUME NEW c, None \notin Slot, NEW line, NEW n, IsLine(line, n), LinkedUp(c, line, n),
         NEW k \in 0 .. n - 1, NEW d, c.less \in [Slot -> Slot \cup {None}],
         d.less = [c.less EXCEPT ![line[k + 1]] = None], d.more = c.more,
         d.least = line[k + 1], d.most = c.most
  PROVE  LinkedUp(d, Finally(line, n, k), n - k)
<1> DEFINE q == Finally(line, n, k)  m == n - k  first == k + 1
<1>1. /\ n \in Nat /\ line \in [1 .. n -> Slot] /\ k \in Nat
      /\ \A i, j \in 1 .. n : line[i] = line[j] => i = j
  BY DEF IsLine
<1>2. /\ m \in Nat /\ m # 0 /\ n # 0 /\ m = n - k /\ first = k + 1 /\ first \in 1 .. n
      /\ \A i \in 1 .. m : i \in Nat /\ k + i \in 1 .. n
  BY <1>1
<1>3. \A i \in 1 .. m : q[i] = line[k + i]
  BY DEF Finally
<1>4. d.least = line[first] /\ d.less = [c.less EXCEPT ![line[first]] = None]
  OBVIOUS
<1> HIDE DEF q, m, first
<1>5. q[1] = line[first] /\ q[m] = line[n]
  <2>1. 1 \in 1 .. m /\ m \in 1 .. m /\ k + m = n /\ k + 1 = first
    BY <1>1, <1>2
  <2>2. q[1] = line[k + 1] /\ q[m] = line[k + m]
    BY <1>3, <2>1
  <2> QED
    BY <2>1, <2>2
<1>6. d.least = (IF m = 0 THEN None ELSE q[1]) /\ d.most = IF m = 0 THEN None ELSE q[m]
  BY <1>2, <1>4, <1>5 DEF LinkedUp
<1>7. ASSUME NEW i \in 1 .. m  PROVE d.less[q[i]] = IF i = 1 THEN None ELSE q[i - 1]
  <2> DEFINE a == k + i
  <2>1. a \in 1 .. n /\ q[i] = line[a] /\ a = k + i
    BY <1>2, <1>3
  <2> HIDE DEF a
  <2>2. line[a] \in Slot /\ line[first] \in Slot /\ (line[a] = line[first] <=> a = first)
    BY <1>1, <1>2, <2>1
  <2>3. CASE i = 1
    BY <1>2, <1>4, <2>1, <2>2, <2>3
  <2>4. CASE i # 1
    <3> DEFINE j == i - 1
    <3>1. j \in 1 .. m /\ j = i - 1 /\ k + j = a - 1 /\ a # first /\ a # 1
      BY <1>1, <1>2, <2>1, <2>4
    <3> HIDE DEF j
    <3>2. q[j] = line[a - 1]
      BY <1>3, <3>1
    <3>3. d.less[line[a]] = c.less[line[a]]
      BY <1>4, <2>2, <3>1
    <3>4. c.less[line[a]] = line[a - 1]
      BY <2>1, <3>1 DEF LinkedUp
    <3> QED
      BY <2>1, <2>4, <3>1, <3>2, <3>3, <3>4
  <2> QED
    BY <2>3, <2>4
<1>8. ASSUME NEW i \in 1 .. m  PROVE d.more[q[i]] = IF i = m THEN None ELSE q[i + 1]
  <2> DEFINE a == k + i
  <2>1. a \in 1 .. n /\ q[i] = line[a] /\ a = k + i
    BY <1>2, <1>3
  <2>2. a = n <=> i = m
    BY <1>1, <1>2
  <2> HIDE DEF a
  <2>3. c.more[line[a]] = IF a = n THEN None ELSE line[a + 1]
    BY <2>1 DEF LinkedUp
  <2>4. CASE i # m
    <3> DEFINE j == i + 1
    <3>1. j \in 1 .. m /\ j = i + 1 /\ k + j = a + 1
      BY <1>1, <1>2, <2>1, <2>4
    <3> HIDE DEF j
    <3>2. q[j] = line[a + 1]
      BY <1>3, <3>1
    <3> QED
      BY <2>1, <2>2, <2>3, <2>4, <3>1, <3>2
  <2> QED
    BY <2>1, <2>2, <2>3, <2>4
<1>9. LinkedUp(d, q, m)
  BY <1>6, <1>7, <1>8 DEF LinkedUp
<1> QED
  BY <1>9 DEF q, m
(* The oldest entries are evicted. *)
LEMMA DownKeeps ==
  ASSUME NEW keys, NEW values, NEW c, NEW line, NEW n, Lines(c, keys, values, line, n),
         None \notin Slot, IsFiniteSet(Slot), NEW count \in Nat,
         NEW drop, drop = IF count < n THEN n - count ELSE 0
  PROVE  LET d == List!EvictedDownTo(c, count)
         IN /\ Lines(d, keys, values, Finally(line, n, drop), n - drop) /\ drop \in 0 .. n
            /\ KeysLeft(c, d)
            /\ \A i \in drop + 1 .. n : /\ d.key[line[i]] = c.key[line[i]]
                                       /\ d.value[line[i]] = c.value[line[i]]
<1>1. IsCache(c, keys, values) /\ Chain(c, line, n)
  BY DEF Lines
<1>2. /\ IsCache(c, keys, values) /\ IsLine(line, n) /\ LinkedUp(c, line, n)
      /\ c.count = n /\ \A s \in Slot : c.key[s] # None <=> \E i \in 1 .. n : line[i] = s
  BY <1>1 DEF Chain, IsOccupied
<1>3. List!Order(c) = line /\ line \in Seq(Slot) /\ DOMAIN line = 1 .. n /\ n \in Nat
      /\ Len(line) = n
  BY <1>1, OrderOf
<1> DEFINE gone == List!ToSet(SubSeq(line, 1, drop))
           b == List!Vacate(c, gone)  d == List!EvictedDownTo(c, count)
<1>4. drop \in 0 .. n /\ drop \in Nat
  BY <1>2, <1>3
<1>5. d = IF drop = Len(line) THEN [b EXCEPT !.least = None, !.most = None]
          ELSE [b EXCEPT !.less[line[drop + 1]] = None, !.least = line[drop + 1]]
  BY <1>2, <1>3 DEF List!EvictedDownTo
<1>6. gone = {line[i] : i \in 1 .. drop}
  <2> DEFINE p == SubSeq(line, 1, drop)
  <2>1. p \in Seq(Slot) /\ Len(p) = drop /\ \A i \in 1 .. drop : p[i] = line[i]
    BY <1>3, <1>4, FirstItems
  <2>2. gone = {p[i] : i \in DOMAIN p}
    BY DEF List!ToSet
  <2>3. DOMAIN p = 1 .. drop
    BY <1>4, <2>1
  <2> HIDE DEF p, gone
  <2> QED
    BY <2>1, <2>2, <2>3
<1> HIDE DEF gone
<1>7. gone \in SUBSET Slot /\ Cardinality(gone) = drop
  <2>1. line \in [1 .. n -> Slot] /\ \A i \in 1 .. drop : i \in 1 .. n
    BY <1>2, <1>4 DEF IsLine
  <2> DEFINE p == Initially(line, drop)
  <2>2. IsLine(p, drop) /\ \A i \in 1 .. drop : p[i] = line[i]
    BY <1>2, <1>4, InitiallyIs
  <2> HIDE DEF p
  <2>3. Cardinality({p[i] : i \in 1 .. drop}) = drop
    BY <2>2, LineCounts
  <2>4. {p[i] : i \in 1 .. drop} = gone
    BY <1>6, <2>2
  <2> QED
    BY <1>6, <2>1, <2>3, <2>4
<1>8. /\ IsCache(b, keys, values) /\ SameLinks(c, b) /\ b.count = n - drop
      /\ \A s \in Slot : b.key[s] = IF s \in gone THEN None ELSE c.key[s]
      /\ \A s \in Slot : b.value[s] = IF s \in gone THEN None ELSE c.value[s]
  BY <1>2, <1>7, VacateIs
<1> HIDE DEF b, d
<1>9. \A s \in Slot : b.key[s] # None <=> \E i \in drop + 1 .. n : line[i] = s
  <2> SUFFICES ASSUME NEW s \in Slot
               PROVE  b.key[s] # None <=> \E i \in drop + 1 .. n : line[i] = s
    OBVIOUS
  <2>1. \A i \in 1 .. n : IF i \in drop + 1 .. n THEN i \notin 1 .. drop ELSE i \in 1 .. drop
    BY <1>3, <1>4
  <2>2. \A i \in drop + 1 .. n : i \in 1 .. n
    BY <1>3, <1>4
  <2>3. \A i \in 1 .. drop : i \in 1 .. n
    BY <1>3, <1>4
  <2>4. s \in gone <=> \E i \in 1 .. drop : line[i] = s
    BY <1>6
  <2>5. \A i, j \in 1 .. n : line[i] = line[j] => i = j
    BY <1>2 DEF IsLine
  <2>6. b.key[s] # None <=> s \notin gone /\ \E i \in 1 .. n : line[i] = s
    BY <1>2, <1>8
  <2> QED
    BY <2>1, <2>2, <2>3, <2>4, <2>5, <2>6
<1> DEFINE q == Finally(line, n, drop)  m == n - drop
<1>12. IsLine(q, m) /\ \A s : (\E i \in 1 .. m : q[i] = s)
                                <=> \E i \in drop + 1 .. n : line[i] = s
  BY <1>2, <1>4, FinallyIs
<1>13. \A i \in drop + 1 .. n : /\ b.key[line[i]] = c.key[line[i]]
                               /\ b.value[line[i]] = c.value[line[i]]
  <2> SUFFICES ASSUME NEW i \in drop + 1 .. n
               PROVE  b.key[line[i]] = c.key[line[i]] /\ b.value[line[i]] = c.value[line[i]]
    OBVIOUS
  <2>1. i \in 1 .. n /\ \A j \in 1 .. drop : j \in 1 .. n /\ j # i
    BY <1>3, <1>4
  <2>2. line[i] \in Slot /\ \A j \in 1 .. drop : line[j] # line[i]
    BY <1>2, <2>1 DEF IsLine
  <2>3. line[i] \notin gone
    BY <1>6, <2>2
  <2> QED
    BY <1>8, <2>2, <2>3
<1>14. m = n - drop
  OBVIOUS
<1> HIDE DEF q, m
<1>10. CASE drop = n
  <2>1. d = [b EXCEPT !.least = None, !.most = None]
    BY <1>3, <1>5, <1>10
  <2>2. IsCache(d, keys, values)
    BY <1>8, <2>1 DEF IsCache
  <2>3. d.key = b.key /\ d.count = b.count /\ d.least = None /\ d.most = None
    BY <1>8, <2>1 DEF IsCache
  <2>7. d.value = b.value /\ m = 0
    BY <1>3, <1>8, <1>10, <1>14, <2>1 DEF IsCache
  <2>4. \A i \in drop + 1 .. n : FALSE
    BY <1>3, <1>10
  <2>5. d.count = 0 /\ \A s \in Slot : d.key[s] = None
    BY <1>3, <1>8, <1>9, <1>10, <2>3, <2>4
  <2>6. Lines(d, keys, values, q, m)
    BY <1>12, <2>2, <2>3, <2>5, <2>7, EmptyIsSound
  <2> QED
    BY <1>4, <1>13, <2>3, <2>5, <2>6, <2>7 DEF d, q, m, KeysLeft
<1>11. CASE drop # n
  <2> DEFINE oldest == line[drop + 1]  less == [b.less EXCEPT ![oldest] = None]
  <2>1. drop \in 0 .. n - 1 /\ drop + 1 \in 1 .. n
    BY <1>3, <1>4, <1>11
  <2>2. oldest \in Slot
    BY <1>2, <2>1 DEF IsLine
  <2>3. d = [b EXCEPT !.less = less, !.least = oldest]
    BY <1>3, <1>5, <1>11
  <2>4. b.less \in [Slot -> Slot \cup {None}] /\ less \in [Slot -> Slot \cup {None}]
    BY <1>8, <2>2 DEF IsCache
  <2>5. less = [c.less EXCEPT ![oldest] = None]
    BY <1>8 DEF SameLinks
  <2> HIDE DEF less
  <2>6. IsCache(d, keys, values)
    BY <1>8, <2>2, <2>3, <2>4 DEF IsCache
  <2>7. /\ d.key = b.key /\ d.count = b.count /\ d.less = less /\ d.least = oldest
        /\ d.more = b.more /\ d.most = b.most /\ d.value = b.value
    BY <1>8, <2>3 DEF IsCache
  <2>8. d.less = [c.less EXCEPT ![line[drop + 1]] = None] /\ d.more = c.more
        /\ d.least = line[drop + 1] /\ d.most = c.most
    BY <1>8, <2>5, <2>7 DEF SameLinks
  <2>9. c.less \in [Slot -> Slot \cup {None}]
    BY <1>2 DEF IsCache
  <2>10. LinkedUp(d, q, m)
    BY <1>2, <2>1, <2>8, <2>9, CutLinks DEF q, m
  <2>11. d.count = m
    BY <1>8, <1>14, <2>7
  <2>12. IsOccupied(d, q, m)
    BY <1>9, <1>12, <2>7, <2>11 DEF IsOccupied
  <2>13. Lines(d, keys, values, q, m)
    BY <1>12, <2>6, <2>10, <2>12 DEF Chain, Lines
  <2>14. KeysLeft(c, d)
    BY <1>8, <2>7 DEF KeysLeft
  <2> QED
    BY <1>4, <1>13, <2>7, <2>13, <2>14 DEF d, q, m
<1> QED
  BY <1>10, <1>11

(* The caches that remain while entries are removed one by one *)
Rests(rests, c, slots, gone, n) ==
  rests = [i \in 0 .. n |->
             IF i = 0 THEN c
             ELSE IF slots[i] \in gone THEN List!Removed(rests[i - 1], slots[i])
             ELSE rests[i - 1]]

(* They can be continued by one more. *)
LEMMA RestsGoOn ==
  ASSUME NEW c, NEW slots, NEW gone, NEW n \in Nat, NEW f, Rests(f, c, slots, gone, n)
  PROVE  \E g : Rests(g, c, slots, gone, n + 1)
<1> DEFINE Rest(h, i) == IF i = 0 THEN c
                         ELSE IF slots[i] \in gone THEN List!Removed(h[i - 1], slots[i])
                         ELSE h[i - 1]
           g == [i \in 0 .. n + 1 |-> Rest(f, i)]
<1>1. ASSUME NEW i \in 0 .. n  PROVE g[i] = f[i]
  <2>1. g[i] = Rest(f, i)
    OBVIOUS
  <2>2. f[i] = Rest(f, i)
    BY DEF Rests
  <2> QED
    BY <2>1, <2>2
<1>2. ASSUME NEW i \in 0 .. n + 1  PROVE g[i] = Rest(g, i)
  <2>1. g[i] = Rest(f, i)
    OBVIOUS
  <2>2. CASE i = 0
    BY <2>1, <2>2
  <2>3. CASE i # 0
    <3>1. i - 1 \in 0 .. n
      BY <2>3
    <3> HIDE DEF g
    <3>2. g[i - 1] = f[i - 1]
      BY <1>1, <3>1
    <3> QED
      BY <2>1, <2>3, <3>2
  <2> QED
    BY <2>2, <2>3
<1>3. g = [i \in 0 .. n + 1 |-> g[i]]
  OBVIOUS
<1> HIDE DEF g
<1>4. Rests(g, c, slots, gone, n + 1)
  BY <1>2, <1>3 DEF Rests
<1> QED
  BY <1>4

(* They exist for every number of slots. *)
LEMMA RestsExist ==
  ASSUME NEW c, NEW slots, NEW gone, NEW n \in Nat
  PROVE  \E f : Rests(f, c, slots, gone, n)
<1> DEFINE S == {m \in Nat : \E f : Rests(f, c, slots, gone, m)}
<1>1. 0 \in S
  <2> DEFINE f == [i \in 0 .. 0 |-> c]
  <2>1. f = [i \in 0 .. 0 |->
               IF i = 0 THEN c
               ELSE IF slots[i] \in gone THEN List!Removed(f[i - 1], slots[i])
               ELSE f[i - 1]]
    OBVIOUS
  <2> HIDE DEF f
  <2> QED
    BY <2>1 DEF Rests
<1>2. \A m \in Nat : m \in S => m + 1 \in S
  BY RestsGoOn
<1> HIDE DEF S
<1>3. n \in S
  BY <1>1, <1>2, EveryNumber
<1> QED
  BY <1>3 DEF S

(* A selection of places, in ascending order, and what a line has there *)
Picks(p, k, n) ==
  /\ k \in 0 .. n /\ p \in [1 .. k -> 1 .. n]
  /\ \A i, j \in 1 .. k : i < j => p[i] < p[j]
Along(line, p, k) == [i \in 1 .. k |-> line[p[i]]]

(* A selection is one without one of its places, too. *)
LEMMA PicksFewer ==
  ASSUME NEW n \in Nat, NEW line, NEW p, NEW k, Picks(p, k, n), NEW x \in 1 .. k
  PROVE  /\ Picks(Shorter(p, k, x), k - 1, n)
         /\ Along(line, Shorter(p, k, x), k - 1) = Shorter(Along(line, p, k), k, x)
<1> DEFINE q == Shorter(p, k, x)  m == k - 1  a == Along(line, p, k)
<1>1. /\ k \in 0 .. n /\ k \in Nat /\ p \in [1 .. k -> 1 .. n]
      /\ \A i, j \in 1 .. k : i < j => p[i] < p[j]
  BY DEF Picks
<1>2. /\ m \in 0 .. n /\ m \in Nat
      /\ \A i \in 1 .. m : i \in Nat /\ i \in 1 .. k /\ i + 1 \in 1 .. k
  BY <1>1
<1>3. \A i \in 1 .. m : q[i] = IF i < x THEN p[i] ELSE p[i + 1]
  BY DEF Shorter
<1>4. q \in [1 .. m -> 1 .. n]
  BY <1>1, <1>2 DEF Shorter
<1>5. Shorter(a, k, x) = [i \in 1 .. m |-> IF i < x THEN a[i] ELSE a[i + 1]]
  BY DEF Shorter
<1>6. \A i \in 1 .. k : a[i] = line[p[i]]
  BY DEF Along
<1>7. Along(line, q, m) = [i \in 1 .. m |-> line[q[i]]]
  BY DEF Along
<1> HIDE DEF q, m, a
<1>8. \A i \in 1 .. m : line[q[i]] = IF i < x THEN a[i] ELSE a[i + 1]
  <2> SUFFICES ASSUME NEW i \in 1 .. m
               PROVE  line[q[i]] = IF i < x THEN a[i] ELSE a[i + 1]
    OBVIOUS
  <2> DEFINE j == i + 1
  <2>1. i \in 1 .. k /\ j \in 1 .. k /\ q[i] = IF i < x THEN p[i] ELSE p[j]
    BY <1>2, <1>3
  <2> HIDE DEF j
  <2>2. line[q[i]] = IF i < x THEN a[i] ELSE a[j]
    BY <1>6, <2>1
  <2> QED
    BY <2>2 DEF j
<1>9. \A i, j \in 1 .. m : i < j => q[i] < q[j]
  <2> SUFFICES ASSUME NEW i \in 1 .. m, NEW j \in 1 .. m, i < j  PROVE q[i] < q[j]
    OBVIOUS
  <2> DEFINE b == IF i < x THEN i ELSE i + 1  c == IF j < x THEN j ELSE j + 1
  <2>1. q[i] = p[b] /\ q[j] = p[c]
    BY <1>3
  <2>2. b \in 1 .. k /\ c \in 1 .. k /\ b < c
    BY <1>1, <1>2
  <2> HIDE DEF b, c
  <2> QED
    BY <1>1, <2>1, <2>2
<1>10. Picks(q, m, n)
  BY <1>2, <1>4, <1>9 DEF Picks
<1> QED
  BY <1>5, <1>7, <1>8, <1>10 DEF q, m, a

(* All places are a selection. *)
LEMMA PicksAll ==
  ASSUME NEW line, NEW n, IsLine(line, n)
  PROVE  \E p, k : Picks(p, k, n) /\ k = n /\ Along(line, p, k) = line
<1> DEFINE p == [i \in 1 .. n |-> i]
<1>1. n \in Nat /\ line \in [1 .. n -> Slot]
  BY DEF IsLine
<1>2. p \in [1 .. n -> 1 .. n] /\ \A i \in 1 .. n : p[i] = i
  OBVIOUS
<1> HIDE DEF p
<1>3. Picks(p, n, n)
  BY <1>1, <1>2 DEF Picks
<1>4. Along(line, p, n) = line
  BY <1>1, <1>2 DEF Along
<1> QED
  BY <1>3, <1>4

(* Entries that are left by others are in the same order. *)
Thins(c, d, keys, values, line, n) ==
  \E p, k : Picks(p, k, n) /\ Lines(d, keys, values, Along(line, p, k), k)

(* The slots "slots" have lost their entries if they belong to "gone". *)
Loses(c, d, gone, slots) ==
  \A t \in Slot : /\ d.key[t] = IF t \in gone /\ t \in slots THEN None ELSE c.key[t]
                  /\ d.value[t] = IF t \in gone /\ t \in slots THEN None ELSE c.value[t]

(* A sequence of slots, each of them once, of which those that are to lose  *)
(* their entries have one                                                   *)
Removable(c, slots, last, gone) ==
  /\ \A i, j \in 1 .. last : slots[i] = slots[j] => i = j
  /\ \A i \in 1 .. last : slots[i] \in gone => c.key[slots[i]] # None

(* Entries are removed one by one, each of them once. *)
LEMMA OneByOneKeeps ==
  ASSUME NEW keys, NEW values, NEW c, NEW line, NEW n, Lines(c, keys, values, line, n),
         None \notin Slot, IsFiniteSet(Slot),
         NEW gone, NEW slots \in Seq(Slot), NEW last \in Nat, last = Len(slots),
         Removable(c, slots, last, gone)
  PROVE  LET d == List!RemovedOneByOne(c, slots, gone)
         IN /\ Thins(c, d, keys, values, line, n)
            /\ Loses(c, d, gone, {slots[i] : i \in 1 .. last})
<1> DEFINE f == CHOOSE f : Rests(f, c, slots, gone, last)
<1>1. Rests(f, c, slots, gone, last)
  BY RestsExist
<1>2. List!RemovedOneByOne(c, slots, gone) = f[last]
  BY DEF List!RemovedOneByOne, Rests
<1> HIDE DEF f
<1>3. f[0] = c
  BY <1>1 DEF Rests
<1>4. ASSUME NEW m \in Nat, m + 1 \in 0 .. last
      PROVE  f[m + 1] = IF slots[m + 1] \in gone THEN List!Removed(f[m], slots[m + 1])
                        ELSE f[m]
  <2> DEFINE l == m + 1
  <2>1. l \in 0 .. last /\ l # 0 /\ l - 1 = m
    BY <1>4
  <2> HIDE DEF l
  <2>2. f[l] = IF slots[l] \in gone THEN List!Removed(f[m], slots[l]) ELSE f[m]
    BY <1>1, <2>1 DEF Rests
  <2> QED
    BY <2>2 DEF l
<1>5. IsLine(line, n) /\ n \in Nat
  BY DEF Lines, Chain, IsLine
<1>9. /\ \A i, j \in 1 .. last : slots[i] = slots[j] => i = j
      /\ \A i \in 1 .. last : slots[i] \in gone => c.key[slots[i]] # None
  BY DEF Removable
<1> DEFINE Done(m) == {slots[i] : i \in 1 .. m}
           Right(m) == Thins(c, f[m], keys, values, line, n) /\ Loses(c, f[m], gone, Done(m))
           S == {m \in Nat : m \in 0 .. last => Right(m)}
<1>6. 0 \in S
  <2>1. Thins(c, c, keys, values, line, n)
    BY <1>5, PicksAll DEF Thins
  <2>2. Done(0) = {}
    OBVIOUS
  <2> HIDE DEF Done
  <2>3. Loses(c, c, gone, Done(0))
    BY <2>2 DEF Loses
  <2> QED
    BY <1>3, <2>1, <2>3
<1>7. ASSUME NEW m \in Nat, m \in S  PROVE m + 1 \in S
  <2> SUFFICES ASSUME m + 1 \in 0 .. last  PROVE Right(m + 1)
    OBVIOUS
  <2> DEFINE l == m + 1
  <2>1. l \in Nat /\ l \in 1 .. last /\ m \in 0 .. last /\ 1 .. l = (1 .. m) \cup {l}
        /\ \A i \in 1 .. m : i \in 1 .. last /\ i # l
    OBVIOUS
  <2>2. Thins(c, f[m], keys, values, line, n) /\ Loses(c, f[m], gone, Done(m))
    BY <1>7, <2>1
  <2>3. f[l] = IF slots[l] \in gone THEN List!Removed(f[m], slots[l]) ELSE f[m]
    BY <1>4
  <2>4. slots[l] \in Slot /\ slots[l] \notin Done(m)
    <3>1. slots[l] \in Slot
      BY <2>1, ElementOfSeq
    <3> QED
      BY <1>9, <2>1, <3>1
  <2>5. Done(l) = Done(m) \cup {slots[l]}
    BY <2>1
  <2> HIDE DEF l, Done
  <2>6. CASE slots[l] \notin gone
    <3>1. Loses(c, f[l], gone, Done(l))
      BY <2>2, <2>3, <2>5, <2>6 DEF Loses
    <3> QED
      BY <2>2, <2>3, <2>6, <3>1 DEF l
  <2>7. CASE slots[l] \in gone
    <3> DEFINE s == slots[l]
    <3>1. f[m].key[s] # None
      BY <1>9, <2>1, <2>2, <2>4, <2>7 DEF Loses
    <3>2. PICK p, k : Picks(p, k, n) /\ Lines(f[m], keys, values, Along(line, p, k), k)
      BY <2>2 DEF Thins
    <3> DEFINE a == Along(line, p, k)
    <3>3. PICK x \in 1 .. k : a[x] = s
      BY <2>4, <3>1, <3>2 DEF Lines, Chain, IsOccupied
    <3> HIDE DEF s, a
    <3>4. f[l] = List!Removed(f[m], a[x])
      BY <2>3, <2>7, <3>3 DEF s
    <3>5. Lines(f[m], keys, values, a, k)
      BY <3>2 DEF a
    <3>6. /\ Lines(f[l], keys, values, Shorter(a, k, x), k - 1)
          /\ \A t \in Slot : f[l].key[t] = IF t = a[x] THEN None ELSE f[m].key[t]
          /\ \A t \in Slot : f[l].value[t] = IF t = a[x] THEN None ELSE f[m].value[t]
      BY <3>4, <3>5, RemovedKeeps
    <3>7. /\ Picks(Shorter(p, k, x), k - 1, n)
          /\ Along(line, Shorter(p, k, x), k - 1) = Shorter(a, k, x)
      BY <1>5, <3>2, PicksFewer DEF a
    <3>8. Thins(c, f[l], keys, values, line, n)
      BY <3>6, <3>7 DEF Thins
    <3>9. Loses(c, f[l], gone, Done(l))
      BY <2>2, <2>5, <2>7, <3>3, <3>6 DEF Loses, s
    <3> QED
      BY <3>8, <3>9 DEF l
  <2> QED
    BY <2>6, <2>7
<1> HIDE DEF S
<1>8. last \in S
  BY <1>6, <1>7, EveryNumber
<1>10. last \in 0 .. last
  OBVIOUS
<1>11. Right(last)
  BY <1>8, <1>10 DEF S
<1>12. Thins(c, f[last], keys, values, line, n)
  BY <1>11
<1>13. Loses(c, f[last], gone, {slots[i] : i \in 1 .. last})
  BY <1>11
<1> QED
  BY <1>2, <1>12, <1>13

(* The policy's entries are evicted. *)
LEMMA WhereKeeps ==
  ASSUME NEW keys, NEW values, NEW c, NEW line, NEW n, Lines(c, keys, values, line, n),
         None \notin Slot, IsFiniteSet(Slot), NEW policy
  PROVE  LET d == List!EvictedWhere(c, policy)
         IN /\ Thins(c, d, keys, values, line, n)
            /\ Loses(c, d, {s \in Slot : c.value[s] \in policy}, {line[i] : i \in 1 .. n})
<1>1. Chain(c, line, n)
  BY DEF Lines
<1> DEFINE gone == {s \in Slot : c.value[s] \in policy}
<1>2. List!Order(c) = line /\ line \in Seq(Slot) /\ n \in Nat /\ n = Len(line)
  BY <1>1, OrderOf
<1>3. List!EvictedWhere(c, policy) = List!RemovedOneByOne(c, line, gone)
  BY <1>2 DEF List!EvictedWhere
<1>4. \A i, j \in 1 .. n : line[i] = line[j] => i = j
  BY <1>1 DEF Chain, IsLine
<1>5. \A i \in 1 .. n : line[i] \in gone => c.key[line[i]] # None
  BY <1>1 DEF Chain, IsLine, IsOccupied
<1>8. Removable(c, line, n, gone)
  BY <1>4, <1>5 DEF Removable
<1> HIDE DEF gone
<1>6. Lines(c, keys, values, line, n)
  OBVIOUS
<1> DEFINE d == List!RemovedOneByOne(c, line, gone)
<1>7. Thins(c, d, keys, values, line, n) /\ Loses(c, d, gone, {line[i] : i \in 1 .. n})
  BY <1>2, <1>6, <1>8, OneByOneKeeps
<1> QED
  BY <1>3, <1>7 DEF gone
-----------------------------------------------------------------------------
(* What the lists of the caches stand for *)

(* The entry of a slot, the entries of a line, and those of a cache *)
SlotEntry(c, s) == [key |-> c.key[s], value |-> c.value[s]]
Reading(c, line, n) == [i \in 1 .. n |-> SlotEntry(c, line[i])]
Reads(c, keys, values, e) ==
  \E line, n : Lines(c, keys, values, line, n) /\ e = Reading(c, line, n)

(* An entry is taken out of a sequence. *)
Cut(e, k) == SubSeq(e, 1, k - 1) \o SubSeq(e, k + 1, Len(e))

(* A line without one of its slots is such a sequence, *)
LEMMA CutIs ==
  ASSUME NEW T, NEW e \in Seq(T), NEW n, n = Len(e), NEW k \in 1 .. n
  PROVE  Cut(e, k) = Shorter(e, n, k) /\ Cut(e, k) \in Seq(T) /\ Len(Cut(e, k)) = n - 1
<1> DEFINE j == k - 1  a == SubSeq(e, 1, j)  b == SubSeq(e, k + 1, Len(e))
<1>1. n \in Nat /\ k \in 1 .. n /\ j \in 0 .. n /\ k \in 0 .. n /\ j = k - 1
  BY LenProperties
<1>2. Cut(e, k) = a \o b
  BY DEF Cut
<1> HIDE DEF j
<1>3. a \in Seq(T) /\ Len(a) = j /\ \A i \in 1 .. j : a[i] = e[i]
  BY <1>1, FirstItems
<1>4. b \in Seq(T) /\ Len(b) = n - k /\ \A i \in 1 .. n - k : b[i] = e[k + i]
  BY <1>1, OtherItems
<1> HIDE DEF a, b
<1>5. a \o b \in Seq(T) /\ Len(a \o b) = n - 1
  BY <1>1, <1>3, <1>4, ConcatProperties
<1>6. ASSUME NEW i \in 1 .. n - 1
      PROVE  (a \o b)[i] = IF i < k THEN e[i] ELSE e[i + 1]
  <2>1. CASE i < k
    <3>1. i \in 1 .. j /\ i <= Len(a)
      BY <1>1, <1>3, <2>1
    <3>2. (a \o b)[i] = a[i]
      BY <1>1, <1>3, <1>4, <3>1, ConcatProperties
    <3> QED
      BY <1>3, <2>1, <3>1, <3>2
  <2>2. CASE ~(i < k)
    <3> DEFINE l == i - j
    <3>1. l \in 1 .. n - k /\ k + l = i + 1 /\ ~(i <= Len(a)) /\ i \in 1 .. Len(a) + Len(b)
          /\ l = i - Len(a)
      BY <1>1, <1>3, <1>4, <2>2
    <3> HIDE DEF l
    <3>2. (a \o b)[i] = b[l]
      BY <1>3, <1>4, <3>1, ConcatProperties
    <3>3. b[l] = e[k + l]
      BY <1>4, <3>1
    <3> QED
      BY <2>2, <3>1, <3>2, <3>3
  <2> QED
    BY <2>1, <2>2
<1> DEFINE q == a \o b
<1>7. q \in Seq(T) /\ Len(q) = n - 1
  BY <1>5
<1>8. \A i \in 1 .. n - 1 : q[i] = IF i < k THEN e[i] ELSE e[i + 1]
  BY <1>6
<1> HIDE DEF q
<1>9. q \in [1 .. n - 1 -> T]
  BY <1>7, LenProperties
<1>10. q = [i \in 1 .. n - 1 |-> IF i < k THEN e[i] ELSE e[i + 1]]
  BY <1>8, <1>9
<1> QED
  BY <1>2, <1>5, <1>10 DEF Shorter, q

(* and one with another slot is a longer one. *)
LEMMA AppendIs ==
  ASSUME NEW T, NEW e \in Seq(T), NEW n, n = Len(e), NEW x \in T
  PROVE  Append(e, x) = Longer(e, n, x)
<1>1. n \in Nat
  BY LenProperties
<1>2. Append(e, x) \in Seq(T) /\ Len(Append(e, x)) = n + 1
      /\ \A i \in 1 .. n + 1 : Append(e, x)[i] = IF i <= n THEN e[i] ELSE x
  BY <1>1, AppendProperties
<1> DEFINE a == Append(e, x)
<1>3. a \in Seq(T) /\ Len(a) = n + 1
  BY <1>2
<1>4. \A i \in 1 .. n + 1 : a[i] = IF i <= n THEN e[i] ELSE x
  BY <1>2
<1> HIDE DEF a
<1>5. a \in [1 .. n + 1 -> T]
  BY <1>3, LenProperties
<1>6. a = [i \in 1 .. n + 1 |-> IF i <= n THEN e[i] ELSE x]
  BY <1>4, <1>5
<1> QED
  BY <1>6 DEF Longer, a

(* Of the entries only the one of a slot that is taken out is lost, *)
LEMMA ReadingShorter ==
  ASSUME NEW line, NEW n, IsLine(line, n), NEW k \in 1 .. n, NEW c, NEW d,
         \A t \in Slot : t # line[k] => SlotEntry(d, t) = SlotEntry(c, t)
  PROVE  Reading(d, Shorter(line, n, k), n - 1) = Shorter(Reading(c, line, n), n, k)
<1> DEFINE q == Shorter(line, n, k)  m == n - 1  r == Reading(c, line, n)
<1>1. n \in Nat /\ line \in [1 .. n -> Slot] /\ \A i, j \in 1 .. n : line[i] = line[j] => i = j
  BY DEF IsLine
<1>2. \A i \in 1 .. n : r[i] = SlotEntry(c, line[i])
  BY DEF Reading
<1>3. Shorter(r, n, k) = [i \in 1 .. m |-> IF i < k THEN r[i] ELSE r[i + 1]]
  BY DEF Shorter
<1>4. Reading(d, q, m) = [i \in 1 .. m |-> SlotEntry(d, q[i])]
  BY DEF Reading
<1>5. \A i \in 1 .. m : q[i] = IF i < k THEN line[i] ELSE line[i + 1]
  BY DEF Shorter
<1>6. \A i \in 1 .. m : i \in Nat /\ i \in 1 .. n /\ i + 1 \in 1 .. n
  BY <1>1
<1> HIDE DEF q, m, r
<1>7. ASSUME NEW i \in 1 .. m  PROVE SlotEntry(d, q[i]) = IF i < k THEN r[i] ELSE r[i + 1]
  <2> DEFINE j == IF i < k THEN i ELSE i + 1
  <2>1. j \in 1 .. n /\ j # k
    BY <1>1, <1>6
  <2>2. q[i] = line[j] /\ (IF i < k THEN r[i] ELSE r[i + 1]) = r[j]
    BY <1>5
  <2> HIDE DEF j
  <2>3. line[j] \in Slot /\ line[j] # line[k]
    BY <1>1, <2>1
  <2> QED
    BY <1>2, <2>1, <2>2, <2>3
<1> QED
  BY <1>3, <1>4, <1>7 DEF q, m, r

(* the one of a slot that is put to the end of the line comes last, *)
LEMMA ReadingLonger ==
  ASSUME NEW line, NEW n, IsLine(line, n), NEW s, NEW c, NEW d,
         \A i \in 1 .. n : SlotEntry(d, line[i]) = SlotEntry(c, line[i])
  PROVE  Reading(d, Longer(line, n, s), n + 1) = Longer(Reading(c, line, n), n, SlotEntry(d, s))
<1> DEFINE q == Longer(line, n, s)  m == n + 1  r == Reading(c, line, n)
<1>1. n \in Nat
  BY DEF IsLine
<1>2. \A i \in 1 .. n : r[i] = SlotEntry(c, line[i])
  BY DEF Reading
<1>3. Longer(r, n, SlotEntry(d, s)) = [i \in 1 .. m |-> IF i <= n THEN r[i] ELSE SlotEntry(d, s)]
  BY DEF Longer
<1>4. Reading(d, q, m) = [i \in 1 .. m |-> SlotEntry(d, q[i])]
  BY DEF Reading
<1>5. \A i \in 1 .. m : q[i] = IF i <= n THEN line[i] ELSE s
  BY DEF Longer
<1>6. \A i \in 1 .. m : i <= n => i \in 1 .. n
  BY <1>1
<1> HIDE DEF q, m, r
<1>7. \A i \in 1 .. m : SlotEntry(d, q[i]) = IF i <= n THEN r[i] ELSE SlotEntry(d, s)
  BY <1>2, <1>5, <1>6
<1> QED
  BY <1>3, <1>4, <1>7 DEF q, m, r

(* Entries of a line are a sequence. *)
LEMMA ReadingIs ==
  ASSUME NEW line, NEW n, n \in Nat, NEW c, NEW T, \A i \in 1 .. n : SlotEntry(c, line[i]) \in T
  PROVE  /\ Reading(c, line, n) \in Seq(T) /\ Len(Reading(c, line, n)) = n
         /\ DOMAIN Reading(c, line, n) = 1 .. n
         /\ \A i \in 1 .. n : Reading(c, line, n)[i] = SlotEntry(c, line[i])
<1> DEFINE r == Reading(c, line, n)
<1>1. r = [i \in 1 .. n |-> SlotEntry(c, line[i])]
  BY DEF Reading
<1>2. r \in [1 .. n -> T] /\ \A i \in 1 .. n : r[i] = SlotEntry(c, line[i])
  BY <1>1
<1> HIDE DEF r
<1>3. r \in Seq(T) /\ Len(r) = n /\ DOMAIN r = 1 .. n
  BY <1>2
<1> QED
  BY <1>2, <1>3 DEF r
(* What entries are *)
Entries(keys, values) == [key : keys \cup {None}, value : values \cup {None}]

(* The entries of a cache are those of the line that its list links up. *)
LEMMA EntriesAre ==
  ASSUME NEW keys, NEW values, NEW c, NEW e, Reads(c, keys, values, e),
         None \notin Slot, IsFiniteSet(Slot)
  PROVE  /\ Keyed!Entries(c) = e /\ Slotted!Entries(c) = e
         /\ Len(e) = c.count /\ DOMAIN e = 1 .. Len(e) /\ Len(e) \in Nat
         /\ e \in Seq(Entries(keys, values))
<1>1. PICK line, n : Lines(c, keys, values, line, n) /\ e = Reading(c, line, n)
  BY DEF Reads
<1>2. IsCache(c, keys, values) /\ Chain(c, line, n) /\ IsLine(line, n) /\ c.count = n
  BY <1>1 DEF Lines, Chain, IsOccupied
<1>3. List!Order(c) = line /\ DOMAIN line = 1 .. n /\ n \in Nat
  BY <1>2, OrderOf
<1>4. Keyed!Order(c) = line /\ Slotted!Order(c) = line
  BY <1>3, OrderAlike
<1>5. Keyed!Entries(c) = e /\ Slotted!Entries(c) = e
  BY <1>1, <1>3, <1>4 DEF Keyed!Entries, Slotted!Entries, Reading, SlotEntry
<1> DEFINE T == Entries(keys, values)
<1>6. \A i \in 1 .. n : SlotEntry(c, line[i]) \in T
  BY <1>2 DEF IsLine, IsCache, SlotEntry, Entries
<1> HIDE DEF T
<1>7. e \in Seq(T) /\ Len(e) = n /\ DOMAIN e = 1 .. n
  BY <1>1, <1>3, <1>6, ReadingIs
<1> QED
  BY <1>2, <1>3, <1>5, <1>7 DEF T

(* Where the entry of an occupied slot is *)
LEMMA EntryIsThere ==
  ASSUME NEW keys, NEW values, NEW c, NEW line, NEW n, Lines(c, keys, values, line, n),
         NEW e, e = Reading(c, line, n), NEW s \in Slot, c.key[s] # None
  PROVE  /\ n \in Nat /\ Len(e) = n
         /\ e \in Seq(Entries(keys, values))
         /\ \E k \in 1 .. n : line[k] = s /\ e[k] = SlotEntry(c, s)
<1>1. IsCache(c, keys, values) /\ IsLine(line, n) /\ \E k \in 1 .. n : line[k] = s
  BY DEF Lines, Chain, IsOccupied
<1> DEFINE T == Entries(keys, values)
<1>2. n \in Nat /\ \A i \in 1 .. n : SlotEntry(c, line[i]) \in T
  BY <1>1 DEF IsLine, IsCache, SlotEntry, Entries
<1> HIDE DEF T
<1>3. e \in Seq(T) /\ Len(e) = n /\ \A i \in 1 .. n : e[i] = SlotEntry(c, line[i])
  BY <1>2, ReadingIs
<1> QED
  BY <1>1, <1>2, <1>3 DEF T

(* An entry is removed. *)
LEMMA RemovedReads ==
  ASSUME NEW keys, NEW values, NEW c, NEW e, Reads(c, keys, values, e),
         None \notin Slot, IsFiniteSet(Slot), NEW s \in Slot, c.key[s] # None
  PROVE  LET d == List!Removed(c, s)
         IN /\ \E k \in 1 .. Len(e) : e[k] = SlotEntry(c, s) /\ Reads(d, keys, values, Cut(e, k))
            /\ \A t \in Slot : d.key[t] = IF t = s THEN None ELSE c.key[t]
<1>1. PICK line, n : Lines(c, keys, values, line, n) /\ e = Reading(c, line, n)
  BY DEF Reads
<1> DEFINE T == Entries(keys, values)
<1>2. /\ n \in Nat /\ Len(e) = n /\ e \in Seq(T)
      /\ \E k \in 1 .. n : line[k] = s /\ e[k] = SlotEntry(c, s)
  BY <1>1, EntryIsThere
<1> HIDE DEF T
<1>3. PICK k \in 1 .. n : line[k] = s /\ e[k] = SlotEntry(c, s)
  BY <1>2
<1> DEFINE d == List!Removed(c, s)
<1>4. /\ Lines(d, keys, values, Shorter(line, n, k), n - 1)
      /\ \A t \in Slot : d.key[t] = IF t = s THEN None ELSE c.key[t]
      /\ \A t \in Slot : d.value[t] = IF t = s THEN None ELSE c.value[t]
  BY <1>1, <1>3, RemovedKeeps
<1> HIDE DEF d
<1>5. \A t \in Slot : t # line[k] => SlotEntry(d, t) = SlotEntry(c, t)
  BY <1>3, <1>4 DEF SlotEntry
<1>6. IsLine(line, n)
  BY <1>1 DEF Lines, Chain
<1>7. Reading(d, Shorter(line, n, k), n - 1) = Shorter(e, n, k)
  BY <1>1, <1>5, <1>6, ReadingShorter
<1>8. Cut(e, k) = Shorter(e, n, k)
  BY <1>2, CutIs
<1>9. Reads(d, keys, values, Cut(e, k))
  BY <1>4, <1>7, <1>8 DEF Reads
<1> QED
  BY <1>2, <1>3, <1>4, <1>9 DEF d

(* An entry is put into a free slot. *)
LEMMA OccupyReads ==
  ASSUME NEW keys, NEW values, NEW c, NEW e, Reads(c, keys, values, e),
         None \notin Slot, IsFiniteSet(Slot), NEW s \in Slot, c.key[s] = None,
         NEW key \in keys, NEW value \in values, None \notin keys
  PROVE  LET d == List!Occupy(c, s, key, value)
         IN /\ Reads(d, keys, values, Append(e, [key |-> key, value |-> value]))
            /\ Len(e) # Cardinality(Slot)
            /\ \A t \in Slot : d.key[t] = IF t = s THEN key ELSE c.key[t]
<1>1. PICK line, n : Lines(c, keys, values, line, n) /\ e = Reading(c, line, n)
  BY DEF Reads
<1>2. /\ IsLine(line, n) /\ n \in Nat /\ line \in [1 .. n -> Slot] /\ c.count = n
      /\ \A t \in Slot : c.key[t] # None <=> \E i \in 1 .. n : line[i] = t
  BY <1>1 DEF Lines, Chain, IsLine, IsOccupied
<1> DEFINE T == Entries(keys, values)
           x == [key |-> key, value |-> value]  d == List!Occupy(c, s, key, value)
<1>3. /\ Lines(d, keys, values, Longer(line, n, s), n + 1)
      /\ \A t \in Slot : d.key[t] = IF t = s THEN key ELSE c.key[t]
      /\ \A t \in Slot : d.value[t] = IF t = s THEN value ELSE c.value[t]
  BY <1>1, OccupyKeeps
<1>4. x \in T
  BY DEF Entries
<1>5. SlotEntry(d, s) = x
  BY <1>3 DEF SlotEntry
<1>6. e \in Seq(T) /\ Len(e) = n
  BY <1>1, EntriesAre, <1>2
<1>7. Len(e) # Cardinality(Slot)
  BY <1>2, <1>6, LineFits
<1> HIDE DEF T, x, d
<1>8. \A i \in 1 .. n : line[i] \in Slot /\ line[i] # s
  BY <1>2
<1>9. \A i \in 1 .. n : SlotEntry(d, line[i]) = SlotEntry(c, line[i])
  BY <1>3, <1>8 DEF SlotEntry
<1>10. Reading(d, Longer(line, n, s), n + 1) = Longer(e, n, x)
  BY <1>1, <1>2, <1>5, <1>9, ReadingLonger
<1>11. Append(e, x) = Longer(e, n, x)
  BY <1>4, <1>6, AppendIs
<1>12. Reads(d, keys, values, Append(e, x))
  BY <1>3, <1>10, <1>11 DEF Reads
<1> QED
  BY <1>3, <1>7, <1>12 DEF d, x

(* A cache whose list is that of another one, and the entries but that of a slot *)
DiffersIn(s, c, b, keys, values) ==
  /\ \A t \in Slot : t # s => SlotEntry(b, t) = SlotEntry(c, t)
  /\ \A line, n : Lines(c, keys, values, line, n) => Lines(b, keys, values, line, n)

(* The entry of a slot is used, with what has been put into that slot. *)
LEMMA RenewedReads ==
  ASSUME NEW keys, NEW values, NEW c, NEW e, Reads(c, keys, values, e),
         None \notin Slot, IsFiniteSet(Slot), NEW s \in Slot, c.key[s] # None,
         NEW b, DiffersIn(s, c, b, keys, values)
  PROVE  LET d == List!MakeMostRecentlyUsed(b, s)
         IN /\ d.key = b.key
            /\ \E k \in 1 .. Len(e) :
                 /\ e[k] = SlotEntry(c, s)
                 /\ s = c.least => k = 1
                 /\ Reads(d, keys, values, Append(Cut(e, k), SlotEntry(b, s)))
<1>1. PICK line, n : Lines(c, keys, values, line, n) /\ e = Reading(c, line, n)
  BY DEF Reads
<1> DEFINE T == Entries(keys, values)
<1>2. /\ n \in Nat /\ Len(e) = n /\ e \in Seq(T)
      /\ \E k \in 1 .. n : line[k] = s /\ e[k] = SlotEntry(c, s)
  BY <1>1, EntryIsThere
<1>3. PICK k \in 1 .. n : line[k] = s /\ e[k] = SlotEntry(c, s)
  BY <1>2
<1>4. /\ Lines(b, keys, values, line, n) /\ IsLine(line, n) /\ LinkedUp(c, line, n)
      /\ \A t \in Slot : t # s => SlotEntry(b, t) = SlotEntry(c, t)
  BY <1>1 DEF Lines, Chain, DiffersIn
<1> DEFINE d == List!MakeMostRecentlyUsed(b, s)  q == Shorter(line, n, k)  m == n - 1
           x == SlotEntry(b, s)  f == Cut(e, k)
<1>5. Lines(d, keys, values, Renewed(line, n, k), n) /\ d.key = b.key /\ d.value = b.value
  BY <1>3, <1>4, MakeKeeps
<1>6. s = c.least => k = 1
  <2>1. c.least = line[1] /\ 1 \in 1 .. n
    BY <1>2, <1>4 DEF LinkedUp
  <2> QED
    BY <1>3, <1>4, <2>1 DEF IsLine
<1>7. x \in T
  BY <1>4 DEF Lines, IsCache, SlotEntry, Entries
<1> HIDE DEF T, d
<1>8. \A t \in Slot : t # line[k] => SlotEntry(d, t) = SlotEntry(c, t)
  BY <1>3, <1>4, <1>5 DEF SlotEntry
<1>9. Reading(d, q, m) = Shorter(e, n, k)
  BY <1>1, <1>4, <1>8, ReadingShorter
<1>10. f = Shorter(e, n, k) /\ f \in Seq(T) /\ Len(f) = m
  BY <1>2, CutIs
<1>11. IsLine(q, m) /\ m + 1 = n
  BY <1>2, <1>4, ShorterLine
<1>12. SlotEntry(d, s) = x
  BY <1>5 DEF SlotEntry
<1>13. Renewed(line, n, k) = Longer(q, m, s)
  BY <1>3 DEF Renewed
<1> HIDE DEF q, m, x, f
<1>14. Reading(d, Longer(q, m, s), m + 1) = Longer(Reading(d, q, m), m, SlotEntry(d, s))
  BY <1>11, ReadingLonger
<1>15. Append(f, x) = Longer(f, m, x)
  BY <1>7, <1>10, AppendIs
<1>16. Reading(d, Renewed(line, n, k), n) = Append(f, x)
  BY <1>9, <1>10, <1>11, <1>12, <1>13, <1>14, <1>15
<1>17. Reads(d, keys, values, Append(f, x))
  BY <1>5, <1>16 DEF Reads
<1> QED
  BY <1>2, <1>3, <1>5, <1>6, <1>17 DEF d, x, f
(* A line of no slots stands for no entries. *)
LEMMA EmptyLine ==
  \E q, m : m = 0 /\ IsLine(q, m) /\ \A d : Reading(d, q, m) = <<>>
<1> DEFINE m == 0  q == <<>>
<1>1. m = 0 /\ m \in Nat /\ q \in [1 .. m -> Slot] /\ \A i \in 1 .. m : FALSE
  OBVIOUS
<1>2. \A d : Reading(d, q, m) = <<>>
  BY DEF Reading
<1> HIDE DEF m, q
<1>3. IsLine(q, m)
  BY <1>1 DEF IsLine
<1> QED
  BY <1>1, <1>2, <1>3

(* All entries are removed, *)
LEMMA ClearedReads ==
  ASSUME NEW keys, NEW values, NEW c, NEW e, Reads(c, keys, values, e),
         None \notin Slot, IsFiniteSet(Slot)
  PROVE  Reads(List!Cleared(c), keys, values, <<>>) /\ KeysLeft(c, List!Cleared(c))
<1>1. PICK line, n : Lines(c, keys, values, line, n)
  BY DEF Reads
<1>2. PICK q, m : m = 0 /\ IsLine(q, m) /\ \A d : Reading(d, q, m) = <<>>
  BY EmptyLine
<1> DEFINE d == List!Cleared(c)
<1>3. Lines(d, keys, values, q, m) /\ KeysLeft(c, d)
  BY <1>1, <1>2, ClearedKeeps
<1> HIDE DEF d
<1>4. <<>> = Reading(d, q, m)
  BY <1>2
<1>5. Reads(d, keys, values, <<>>)
  BY <1>3, <1>4 DEF Reads
<1> QED
  BY <1>3, <1>5 DEF d

(* or the oldest ones, *)
LEMMA DownReads ==
  ASSUME NEW keys, NEW values, NEW c, NEW e, Reads(c, keys, values, e),
         None \notin Slot, IsFiniteSet(Slot), NEW count \in Nat
  PROVE  LET d == List!EvictedDownTo(c, count)
         IN /\ KeysLeft(c, d)
            /\ \E f : /\ Reads(d, keys, values, f)
                      /\ IF count < Len(e)
                         THEN f = SubSeq(e, Len(e) - count + 1, Len(e)) ELSE f = e
<1>1. PICK line, n : Lines(c, keys, values, line, n) /\ e = Reading(c, line, n)
  BY DEF Reads
<1>2. IsLine(line, n) /\ n \in Nat /\ c.count = n
  BY <1>1 DEF Lines, Chain, IsLine, IsOccupied
<1> DEFINE T == Entries(keys, values)
<1>3. e \in Seq(T) /\ Len(e) = n
  BY <1>2, EntriesAre
<1>4. \A i \in 1 .. n : e[i] = SlotEntry(c, line[i])
  BY <1>1 DEF Reading
<1> HIDE DEF T
<1> DEFINE drop == IF count < n THEN n - count ELSE 0
           d == List!EvictedDownTo(c, count)
<1>5. /\ drop \in 0 .. n /\ drop \in Nat /\ count < n <=> drop # 0
      /\ count < n => drop + 1 = n - count + 1
  BY <1>2
<1>6. drop = IF count < n THEN n - count ELSE 0
  OBVIOUS
<1> HIDE DEF drop
<1>7. /\ Lines(d, keys, values, Finally(line, n, drop), n - drop) /\ KeysLeft(c, d)
      /\ \A i \in drop + 1 .. n : /\ d.key[line[i]] = c.key[line[i]]
                                 /\ d.value[line[i]] = c.value[line[i]]
  BY <1>1, <1>6, DownKeeps
<1> HIDE DEF d
<1> DEFINE q == Finally(line, n, drop)  m == n - drop  f == Reading(d, q, m)
<1>8. f = [i \in 1 .. m |-> e[drop + i]]
  <2>1. \A i \in 1 .. m : q[i] = line[drop + i]
    BY DEF Finally
  <2>2. \A i \in 1 .. m : drop + i \in drop + 1 .. n /\ drop + i \in 1 .. n
    BY <1>2, <1>5
  <2>3. f = [i \in 1 .. m |-> SlotEntry(d, q[i])]
    BY DEF Reading
  <2> HIDE DEF q, m, f
  <2>4. ASSUME NEW i \in 1 .. m  PROVE SlotEntry(d, q[i]) = e[drop + i]
    <3> DEFINE j == drop + i
    <3>1. q[i] = line[j] /\ j \in drop + 1 .. n /\ j \in 1 .. n
      BY <2>1, <2>2
    <3> HIDE DEF j
    <3>2. SlotEntry(d, line[j]) = SlotEntry(c, line[j]) /\ e[j] = SlotEntry(c, line[j])
      BY <1>4, <1>7, <3>1 DEF SlotEntry
    <3> QED
      BY <3>1, <3>2 DEF j
  <2> QED
    BY <2>3, <2>4
<1>9. Reads(d, keys, values, f)
  BY <1>7 DEF Reads
<1>10. SubSeq(e, drop + 1, n) = [i \in 1 .. m |-> e[drop + i]]
  <2> DEFINE g == SubSeq(e, drop + 1, n)
  <2>1. g \in Seq(T) /\ Len(g) = m /\ \A i \in 1 .. m : g[i] = e[drop + i]
    BY <1>2, <1>3, <1>5, OtherItems
  <2> HIDE DEF g, m
  <2>2. g \in [1 .. m -> T]
    BY <2>1, LenProperties
  <2>3. g = [i \in 1 .. m |-> e[drop + i]]
    BY <2>1, <2>2
  <2> QED
    BY <2>3 DEF g
<1> HIDE DEF f
<1>11. CASE count < n
  BY <1>3, <1>5, <1>7, <1>8, <1>9, <1>10, <1>11 DEF d
<1>12. CASE ~(count < n)
  <2>1. drop = 0 /\ m = n /\ \A i \in 1 .. n : drop + i = i
    BY <1>2, <1>5, <1>12
  <2>2. e \in [1 .. n -> T]
    BY <1>3, LenProperties
  <2> HIDE DEF m
  <2>3. f = e
    BY <1>8, <2>1, <2>2
  <2> QED
    BY <1>3, <1>7, <1>9, <1>12, <2>3 DEF d
<1> QED
  BY <1>11, <1>12

(* Of the entries those at some places are kept, in their order. *)
KeptAt(e, f, places) ==
  \E n \in 0 .. Len(e) : \E place \in [1 .. n -> places] :
    /\ {place[i] : i \in 1 .. n} = places
    /\ \A i, j \in 1 .. n : i < j => place[i] < place[j]
    /\ f = [i \in 1 .. n |-> e[place[i]]]

(* The places of the entries whose slots, some of "slots", are not lost *)
Spared(places, line, n, gone, slots) ==
  places = {i \in 1 .. n : line[i] \notin gone} /\ \A i \in 1 .. n : line[i] \in slots

(* They are kept when others are lost. *)
LEMMA ThinnedReads ==
  ASSUME NEW keys, NEW values, NEW c, NEW line, NEW n, Lines(c, keys, values, line, n),
         NEW e, e = Reading(c, line, n), Len(e) = n,
         NEW d, NEW gone, NEW slots, Thins(c, d, keys, values, line, n),
         Loses(c, d, gone, slots), NEW places, Spared(places, line, n, gone, slots)
  PROVE  KeysLeft(c, d) /\ \E f : Reads(d, keys, values, f) /\ KeptAt(e, f, places)
<1>1. PICK p, k : Picks(p, k, n) /\ Lines(d, keys, values, Along(line, p, k), k)
  BY DEF Thins
<1> DEFINE a == Along(line, p, k)  f == Reading(d, a, k)
<1>2. Reads(d, keys, values, f)
  BY <1>1 DEF Reads
<1>3. /\ k \in 0 .. n /\ p \in [1 .. k -> 1 .. n] /\ k \in Nat
      /\ \A i, j \in 1 .. k : i < j => p[i] < p[j]
  BY <1>1 DEF Picks
<1>4. \A i \in 1 .. k : a[i] = line[p[i]]
  BY DEF Along
<1>5. /\ n \in Nat /\ \A i \in 1 .. n : line[i] \in Slot /\ c.key[line[i]] # None
      /\ \A i, j \in 1 .. n : line[i] = line[j] => i = j
  BY DEF Lines, Chain, IsLine, IsOccupied
<1>15. places = {i \in 1 .. n : line[i] \notin gone} /\ \A i \in 1 .. n : line[i] \in slots
  BY DEF Spared
<1>6. \A s \in Slot : d.key[s] # None <=> \E i \in 1 .. k : a[i] = s
  BY <1>1 DEF Lines, Chain, IsOccupied
<1>7. \A i \in 1 .. n : e[i] = SlotEntry(c, line[i])
  BY DEF Reading
<1>8. f = [i \in 1 .. k |-> SlotEntry(d, a[i])]
  BY DEF Reading
<1> HIDE DEF a, f
<1>9. ASSUME NEW i \in 1 .. k
      PROVE  p[i] \in places /\ SlotEntry(d, a[i]) = e[p[i]]
  <2> DEFINE j == p[i]
  <2>1. j \in 1 .. n /\ a[i] = line[j]
    BY <1>3, <1>4
  <2> HIDE DEF j
  <2>2. line[j] \in Slot /\ line[j] \in slots /\ d.key[line[j]] # None
    BY <1>5, <1>6, <1>15, <2>1
  <2>3. line[j] \notin gone
    BY <2>2 DEF Loses
  <2>4. SlotEntry(d, line[j]) = SlotEntry(c, line[j])
    BY <2>2, <2>3 DEF Loses, SlotEntry
  <2>5. e[j] = SlotEntry(c, line[j])
    BY <1>7, <2>1
  <2> QED
    BY <1>15, <2>1, <2>3, <2>4, <2>5 DEF j
<1>10. ASSUME NEW j \in places  PROVE \E i \in 1 .. k : p[i] = j
  <2>1. j \in 1 .. n /\ line[j] \in Slot /\ line[j] \notin gone
    BY <1>5, <1>15
  <2>2. d.key[line[j]] # None
    BY <1>5, <2>1 DEF Loses
  <2>3. PICK i \in 1 .. k : a[i] = line[j]
    BY <1>6, <2>1, <2>2
  <2>4. p[i] \in 1 .. n /\ line[p[i]] = line[j]
    BY <1>3, <1>4, <2>3
  <2> QED
    BY <1>5, <2>1, <2>4
<1>11. p \in [1 .. k -> places] /\ {p[i] : i \in 1 .. k} = places
  BY <1>3, <1>9, <1>10
<1>12. f = [i \in 1 .. k |-> e[p[i]]]
  BY <1>8, <1>9
<1>13. KeptAt(e, f, places)
  BY <1>3, <1>11, <1>12 DEF KeptAt
<1>14. KeysLeft(c, d)
  BY DEF KeysLeft, Loses
<1> QED
  BY <1>2, <1>13, <1>14

(* Those are the entries that the policy names, *)
LEMMA WhereReads ==
  ASSUME NEW keys, NEW values, NEW c, NEW e, Reads(c, keys, values, e),
         None \notin Slot, IsFiniteSet(Slot), NEW policy
  PROVE  LET d == List!EvictedWhere(c, policy)
         IN /\ KeysLeft(c, d)
            /\ \E f : /\ Reads(d, keys, values, f)
                      /\ KeptAt(e, f, {i \in DOMAIN e : e[i].value \notin policy})
<1>1. PICK line, n : Lines(c, keys, values, line, n) /\ e = Reading(c, line, n)
  BY DEF Reads
<1>2. IsLine(line, n) /\ n \in Nat /\ c.count = n
  BY <1>1 DEF Lines, Chain, IsLine, IsOccupied
<1>3. Len(e) = n /\ DOMAIN e = 1 .. n
  BY <1>2, EntriesAre
<1> DEFINE d == List!EvictedWhere(c, policy)  gone == {s \in Slot : c.value[s] \in policy}
           slots == {line[i] : i \in 1 .. n}
<1>4. Thins(c, d, keys, values, line, n) /\ Loses(c, d, gone, slots)
  BY <1>1, WhereKeeps
<1>5. \A i \in 1 .. n : line[i] \in slots
  OBVIOUS
<1>6. ASSUME NEW i \in 1 .. n  PROVE line[i] \in gone <=> e[i].value \in policy
  <2>1. e[i] = SlotEntry(c, line[i]) /\ line[i] \in Slot
    BY <1>1, <1>2 DEF Reading, IsLine
  <2> QED
    BY <2>1 DEF SlotEntry
<1> DEFINE places == {i \in 1 .. n : line[i] \notin gone}
<1> HIDE DEF d, gone, slots
<1>8. places = {i \in DOMAIN e : e[i].value \notin policy}
  BY <1>3, <1>6
<1>9. Spared(places, line, n, gone, slots)
  BY <1>5 DEF Spared
<1> HIDE DEF places
<1>7. KeysLeft(c, d) /\ \E f : Reads(d, keys, values, f) /\ KeptAt(e, f, places)
  BY <1>1, <1>3, <1>4, <1>9, ThinnedReads
<1> QED
  BY <1>7, <1>8 DEF d

(* A sequence of all slots *)
Enumerates(slots, last) ==
  /\ \A i, j \in 1 .. last : slots[i] = slots[j] => i = j
  /\ \A s \in Slot : \E i \in 1 .. last : slots[i] = s

(* The slots of a key, and the places of the entries that have another one *)
HoldIt(gone, c, key) == gone = {s \in Slot : c.key[s] = key}
OtherKeys(e, key) == {i \in DOMAIN e : e[i].key # key}

(* or those of a key. *)
LEMMA ByKeyReads ==
  ASSUME NEW keys, NEW values, NEW c, NEW e, Reads(c, keys, values, e),
         None \notin Slot, IsFiniteSet(Slot), NEW key, key # None,
         NEW gone, HoldIt(gone, c, key),
         NEW slots \in Seq(Slot), NEW last \in Nat, last = Len(slots),
         Enumerates(slots, last)
  PROVE  LET d == List!RemovedOneByOne(c, slots, gone)
         IN \E f : /\ Reads(d, keys, values, f)
                   /\ KeptAt(e, f, OtherKeys(e, key))
<1>1. PICK line, n : Lines(c, keys, values, line, n) /\ e = Reading(c, line, n)
  BY DEF Reads
<1>2. IsLine(line, n) /\ n \in Nat /\ c.count = n
  BY <1>1 DEF Lines, Chain, IsLine, IsOccupied
<1>3. Len(e) = n /\ DOMAIN e = 1 .. n
  BY <1>2, EntriesAre
<1> DEFINE d == List!RemovedOneByOne(c, slots, gone)  all == {slots[i] : i \in 1 .. last}
<1>4. \A i \in 1 .. last : slots[i] \in gone => c.key[slots[i]] # None
  BY DEF HoldIt
<1>11. Removable(c, slots, last, gone)
  BY <1>4 DEF Enumerates, Removable
<1>5. Thins(c, d, keys, values, line, n) /\ Loses(c, d, gone, all)
  BY <1>1, <1>11, OneByOneKeeps
<1>6. \A i \in 1 .. n : line[i] \in all
  BY <1>2 DEF IsLine, Enumerates
<1>7. ASSUME NEW i \in 1 .. n  PROVE line[i] \in gone <=> e[i].key = key
  <2>1. e[i] = SlotEntry(c, line[i]) /\ line[i] \in Slot
    BY <1>1, <1>2 DEF Reading, IsLine
  <2> QED
    BY <2>1 DEF SlotEntry, HoldIt
<1> DEFINE places == {i \in 1 .. n : line[i] \notin gone}
<1> HIDE DEF d, all
<1>9. places = OtherKeys(e, key)
  BY <1>3, <1>7 DEF OtherKeys
<1>10. Spared(places, line, n, gone, all)
  BY <1>6 DEF Spared
<1> HIDE DEF places
<1>8. KeysLeft(c, d) /\ \E f : Reads(d, keys, values, f) /\ KeptAt(e, f, places)
  BY <1>1, <1>3, <1>5, <1>10, ThinnedReads
<1> QED
  BY <1>8, <1>9 DEF d
(* The steps of an LRU cache, and a cache that makes one of them or none *)
Ages(e, f, keys, values) ==
  \/ \E key \in keys, value \in values :
       \/ Len(e) # Cardinality(Slot) /\ f = Append(e, [key |-> key, value |-> value])
       \/ /\ Len(e) = Cardinality(Slot) /\ 1 \in 1 .. Len(e)
          /\ f = Append(Cut(e, 1), [key |-> key, value |-> value])
       \/ \E k \in 1 .. Len(e) :
            e[k].key = key /\ f = Append(Cut(e, k), [key |-> key, value |-> value])
  \/ \E k \in 1 .. Len(e) : e[k].key \in keys /\ f \in {Cut(e, k), Append(Cut(e, k), e[k])}
  \/ \E key \in keys : KeptAt(e, f, OtherKeys(e, key))
  \/ \E policy \in SUBSET values : KeptAt(e, f, {i \in DOMAIN e : e[i].value \notin policy})
  \/ \E count \in 0 .. Cardinality(Slot) :
       count < Len(e) /\ f = SubSeq(e, Len(e) - count + 1, Len(e))
Moved(e, d, keys, values) ==
  \E f : Reads(d, keys, values, f) /\ (f = e \/ Ages(e, f, keys, values))

(* An occupied slot has a key. *)
LEMMA OccupiedHasKey ==
  ASSUME NEW keys, NEW values, NEW c, NEW e, Reads(c, keys, values, e),
         NEW s \in Slot, c.key[s] # None
  PROVE  c.key[s] \in keys
BY DEF Reads, Lines, IsCache

(* An entry is removed, *)
LEMMA RemovedMoves ==
  ASSUME NEW keys, NEW values, NEW c, NEW e, Reads(c, keys, values, e),
         None \notin Slot, IsFiniteSet(Slot), NEW s \in Slot, c.key[s] # None
  PROVE  LET d == List!Removed(c, s)
         IN Moved(e, d, keys, values) /\ KeysLeft(c, d)
<1> DEFINE d == List!Removed(c, s)
<1>1. PICK k \in 1 .. Len(e) : e[k] = SlotEntry(c, s) /\ Reads(d, keys, values, Cut(e, k))
  BY RemovedReads
<1>2. KeysLeft(c, d)
  BY RemovedReads DEF KeysLeft
<1> HIDE DEF d
<1>3. e[k].key \in keys
  BY <1>1, OccupiedHasKey DEF SlotEntry
<1>4. Ages(e, Cut(e, k), keys, values)
  BY <1>3 DEF Ages
<1> QED
  BY <1>1, <1>2, <1>4 DEF Moved, d

(* added, *)
LEMMA OccupyMoves ==
  ASSUME NEW keys, NEW values, NEW c, NEW e, Reads(c, keys, values, e),
         None \notin Slot, IsFiniteSet(Slot), NEW s \in Slot, c.key[s] = None,
         NEW key \in keys, NEW value \in values, None \notin keys
  PROVE  LET d == List!Occupy(c, s, key, value)
         IN /\ Moved(e, d, keys, values)
            /\ \A t \in Slot : d.key[t] = IF t = s THEN key ELSE c.key[t]
<1> DEFINE d == List!Occupy(c, s, key, value)  f == Append(e, [key |-> key, value |-> value])
<1>1. /\ Reads(d, keys, values, f) /\ Len(e) # Cardinality(Slot)
      /\ \A t \in Slot : d.key[t] = IF t = s THEN key ELSE c.key[t]
  BY OccupyReads
<1> HIDE DEF d
<1>2. Ages(e, f, keys, values)
  BY <1>1 DEF Ages
<1> HIDE DEF f
<1> QED
  BY <1>1, <1>2 DEF Moved, d

(* used, *)
LEMMA UsedMoves ==
  ASSUME NEW keys, NEW values, NEW c, NEW e, Reads(c, keys, values, e),
         None \notin Slot, IsFiniteSet(Slot), NEW s \in Slot, c.key[s] # None
  PROVE  LET d == List!MakeMostRecentlyUsed(c, s)
         IN Moved(e, d, keys, values) /\ d.key = c.key
<1> DEFINE d == List!MakeMostRecentlyUsed(c, s)
<1>5. DiffersIn(s, c, c, keys, values)
  BY DEF DiffersIn
<1>1. /\ d.key = c.key
      /\ \E k \in 1 .. Len(e) :
           /\ e[k] = SlotEntry(c, s)
           /\ Reads(d, keys, values, Append(Cut(e, k), SlotEntry(c, s)))
  BY <1>5, RenewedReads
<1>2. PICK k \in 1 .. Len(e) :
           /\ e[k] = SlotEntry(c, s)
           /\ Reads(d, keys, values, Append(Cut(e, k), SlotEntry(c, s)))
  BY <1>1
<1> HIDE DEF d
<1>3. e[k].key \in keys
  BY <1>2, OccupiedHasKey DEF SlotEntry
<1>4. Ages(e, Append(Cut(e, k), e[k]), keys, values)
  BY <1>3 DEF Ages
<1> QED
  BY <1>1, <1>2, <1>4 DEF Moved, d

(* overwritten in its slot, or replaced by another one that is the oldest, *)
LEMMA OverwrittenMoves ==
  ASSUME NEW keys, NEW values, NEW c, NEW e, Reads(c, keys, values, e),
         None \notin Slot, IsFiniteSet(Slot), NEW s \in Slot, c.key[s] # None,
         NEW key \in keys, NEW value \in values, None \notin keys,
         NEW b, Replaces(c, b, s, key, value),
         c.key[s] = key \/ (s = c.least /\ c.count = Cardinality(Slot))
  PROVE  LET d == List!MakeMostRecentlyUsed(b, s)
         IN /\ Moved(e, d, keys, values)
            /\ \A t \in Slot : d.key[t] = IF t = s THEN key ELSE c.key[t]
<1> DEFINE d == List!MakeMostRecentlyUsed(b, s)  x == [key |-> key, value |-> value]
<1>1. \A line, n : Lines(c, keys, values, line, n) => Lines(b, keys, values, line, n)
  BY ReplacedKeeps
<1>2. /\ \A t \in Slot : b.key[t] = IF t = s THEN key ELSE c.key[t]
      /\ \A t \in Slot : b.value[t] = IF t = s THEN value ELSE c.value[t]
  BY ReplacedKeeps DEF Reads
<1>3. SlotEntry(b, s) = x /\ \A t \in Slot : t # s => SlotEntry(b, t) = SlotEntry(c, t)
  BY <1>2 DEF SlotEntry
<1>9. DiffersIn(s, c, b, keys, values)
  BY <1>1, <1>3 DEF DiffersIn
<1>4. /\ d.key = b.key
      /\ \E k \in 1 .. Len(e) :
           /\ e[k] = SlotEntry(c, s)
           /\ s = c.least => k = 1
           /\ Reads(d, keys, values, Append(Cut(e, k), SlotEntry(b, s)))
  BY <1>9, RenewedReads
<1> HIDE DEF d
<1>5. PICK k \in 1 .. Len(e) :
           /\ e[k] = SlotEntry(c, s)
           /\ s = c.least => k = 1
           /\ Reads(d, keys, values, Append(Cut(e, k), SlotEntry(b, s)))
  BY <1>4
<1>6. Len(e) = c.count
  BY EntriesAre
<1>7. Ages(e, Append(Cut(e, k), x), keys, values)
  <2>1. CASE c.key[s] = key
    <3>1. e[k].key = key
      BY <1>5, <2>1 DEF SlotEntry
    <3> QED
      BY <3>1 DEF Ages
  <2>2. CASE s = c.least /\ c.count = Cardinality(Slot)
    <3>1. k = 1 /\ Len(e) = Cardinality(Slot) /\ 1 \in 1 .. Len(e)
      BY <1>5, <1>6, <2>2
    <3> QED
      BY <3>1 DEF Ages
  <2> QED
    BY <2>1, <2>2
<1> HIDE DEF x
<1>8. Moved(e, d, keys, values)
  BY <1>3, <1>5, <1>7 DEF Moved
<1> QED
  BY <1>2, <1>4, <1>8 DEF d

(* removed with all others, *)
LEMMA ClearedMoves ==
  ASSUME NEW keys, NEW values, NEW c, NEW e, Reads(c, keys, values, e),
         None \notin Slot, IsFiniteSet(Slot)
  PROVE  LET d == List!Cleared(c) IN Moved(e, d, keys, values) /\ KeysLeft(c, d)
<1>1. Len(e) \in Nat /\ e \in Seq(Entries(keys, values)) /\ Cardinality(Slot) \in Nat
  BY EntriesAre, FS_CardinalityType
<1>2. <<>> = e \/ Ages(e, <<>>, keys, values)
  <2>1. CASE Len(e) = 0
    BY <1>1, <2>1, EmptySeq
  <2>2. CASE Len(e) # 0
    <3> DEFINE l == Len(e)  z == 0
    <3>1. SubSeq(e, l - z + 1, l) = <<>> /\ z < l /\ z \in 0 .. Cardinality(Slot)
      BY <1>1, <2>2
    <3> HIDE DEF z
    <3> QED
      BY <3>1 DEF Ages
  <2> QED
    BY <2>1, <2>2
<1> QED
  BY <1>2, ClearedReads DEF Moved

(* removed because it is old, *)
LEMMA DownMoves ==
  ASSUME NEW keys, NEW values, NEW c, NEW e, Reads(c, keys, values, e),
         None \notin Slot, IsFiniteSet(Slot), NEW count \in 0 .. Cardinality(Slot)
  PROVE  LET d == List!EvictedDownTo(c, count)
         IN Moved(e, d, keys, values) /\ KeysLeft(c, d)
<1> DEFINE d == List!EvictedDownTo(c, count)
<1>1. count \in Nat
  BY FS_CardinalityType
<1>2. /\ KeysLeft(c, d)
      /\ \E f : /\ Reads(d, keys, values, f)
                /\ IF count < Len(e)
                   THEN f = SubSeq(e, Len(e) - count + 1, Len(e)) ELSE f = e
  BY <1>1, DownReads
<1> HIDE DEF d
<1>3. PICK f : /\ Reads(d, keys, values, f)
               /\ IF count < Len(e)
                  THEN f = SubSeq(e, Len(e) - count + 1, Len(e)) ELSE f = e
  BY <1>2
<1>4. f = e \/ Ages(e, f, keys, values)
  BY <1>3 DEF Ages
<1> QED
  BY <1>2, <1>3, <1>4 DEF Moved, d

(* or because the policy says so, *)
LEMMA WhereMoves ==
  ASSUME NEW keys, NEW values, NEW c, NEW e, Reads(c, keys, values, e),
         None \notin Slot, IsFiniteSet(Slot), NEW policy \in SUBSET values
  PROVE  LET d == List!EvictedWhere(c, policy)
         IN Moved(e, d, keys, values) /\ KeysLeft(c, d)
<1> DEFINE d == List!EvictedWhere(c, policy)
<1>1. /\ KeysLeft(c, d)
      /\ \E f : /\ Reads(d, keys, values, f)
                /\ KeptAt(e, f, {i \in DOMAIN e : e[i].value \notin policy})
  BY WhereReads
<1> HIDE DEF d
<1>2. PICK f : /\ Reads(d, keys, values, f)
               /\ KeptAt(e, f, {i \in DOMAIN e : e[i].value \notin policy})
  BY <1>1
<1>3. Ages(e, f, keys, values)
  BY <1>2 DEF Ages
<1> QED
  BY <1>1, <1>2, <1>3 DEF Moved, d

(* or with all entries of its key. *)
LEMMA ByKeyMoves ==
  ASSUME NEW keys, NEW values, NEW c, NEW e, Reads(c, keys, values, e),
         None \notin Slot, IsFiniteSet(Slot), NEW key \in keys, None \notin keys,
         NEW gone, HoldIt(gone, c, key),
         NEW slots \in Seq(Slot), NEW last \in Nat, last = Len(slots),
         Enumerates(slots, last)
  PROVE  Moved(e, List!RemovedOneByOne(c, slots, gone), keys, values)
<1> DEFINE d == List!RemovedOneByOne(c, slots, gone)
<1>1. key # None
  OBVIOUS
<1>2. \E f : Reads(d, keys, values, f) /\ KeptAt(e, f, OtherKeys(e, key))
  BY <1>1, ByKeyReads
<1> HIDE DEF d
<1>3. PICK f : Reads(d, keys, values, f) /\ KeptAt(e, f, OtherKeys(e, key))
  BY <1>2
<1>4. Ages(e, f, keys, values)
  BY <1>3 DEF Ages
<1> QED
  BY <1>3, <1>4 DEF Moved, d
(* What the modules of the caches say of them is what their list says. *)
LEMMA PropertiesAlike ==
  /\ Keyed!TypeOK <=> List!WellTyped(keyed, Key, CachedValue)
  /\ Slotted!TypeOK <=> List!WellTyped(slotted, Slot, CachedValue)
  /\ Keyed!ListConsistent <=> List!Consistent(keyed)
  /\ Slotted!ListConsistent <=> List!Consistent(slotted)
<1>1. \A c, keys, values :
        /\ Keyed!WellTyped(c, keys, values) <=> List!WellTyped(c, keys, values)
        /\ Slotted!WellTyped(c, keys, values) <=> List!WellTyped(c, keys, values)
  BY Counting DEF Keyed!WellTyped, Slotted!WellTyped, List!WellTyped
<1>2. \A c : /\ Keyed!Consistent(c) <=> List!Consistent(c)
             /\ Slotted!Consistent(c) <=> List!Consistent(c)
  <2> SUFFICES ASSUME NEW c
               PROVE  /\ Keyed!Consistent(c) <=> List!Consistent(c)
                      /\ Slotted!Consistent(c) <=> List!Consistent(c)
    OBVIOUS
  <2> DEFINE order == List!Order(c)  set == List!ToSet(order)  size == Cardinality(set)
  <2>1. /\ Keyed!Order(c) = order /\ Slotted!Order(c) = order
        /\ Keyed!ToSet(order) = set /\ Slotted!ToSet(order) = set
        /\ Keyed!Cardinality(set) = size /\ Slotted!Cardinality(set) = size
        /\ List!Cardinality(set) = size
    BY OrderAlike, ToSetAlike, Counting
  <2> HIDE DEF order, set, size
  <2>2. Keyed!Consistent(c) <=> List!Consistent(c)
    BY <2>1 DEF Keyed!Consistent, List!Consistent, Keyed!Last, List!Last, order, set
  <2>3. Slotted!Consistent(c) <=> List!Consistent(c)
    BY <2>1 DEF Slotted!Consistent, List!Consistent, Slotted!Last, List!Last, order, set
  <2> QED
    BY <2>2, <2>3
<1> QED
  BY <1>1, <1>2 DEF Keyed!TypeOK, Slotted!TypeOK, Keyed!ListConsistent, Slotted!ListConsistent

(* A cache that its list links up is what both modules call consistent. *)
LEMMA SoundIsRight ==
  ASSUME NEW keys, NEW values, NEW c, Sound(c, keys, values), None \notin Slot,
         IsFiniteSet(Slot)
  PROVE  List!WellTyped(c, keys, values) /\ List!Consistent(c)
<1>1. PICK line, n : IsCache(c, keys, values) /\ Chain(c, line, n)
  BY DEF Sound, Lines
<1>2. /\ IsCache(c, keys, values) /\ IsLine(line, n) /\ LinkedUp(c, line, n)
      /\ c.count = n /\ \A s \in Slot : c.key[s] # None <=> \E i \in 1 .. n : line[i] = s
  BY <1>1 DEF Chain, IsOccupied
<1>3. /\ List!Order(c) = line /\ n \in Nat /\ line \in Seq(Slot) /\ Len(line) = n
      /\ DOMAIN line = 1 .. n /\ n <= Cardinality(Slot) /\ Cardinality(Slot) \in Nat
  BY <1>1, OrderOf
<1>4. List!Cardinality(Slot) = Cardinality(Slot)
  BY Counting
<1>5. List!WellTyped(c, keys, values)
  BY <1>2, <1>3, <1>4 DEF List!WellTyped, IsCache
<1>6. List!ToSet(line) = {line[i] : i \in 1 .. n}
  BY <1>3 DEF List!ToSet
<1>7. List!ToSet(line) = {s \in Slot : c.key[s] # None}
  <2>1. \A i \in 1 .. n : line[i] \in Slot
    BY <1>2 DEF IsLine
  <2> QED
    BY <1>2, <1>6, <2>1
<1>8. List!Cardinality(List!ToSet(line)) = n
  BY <1>2, <1>6, LineCounts, Counting
<1>9. c.most = IF line = <<>> THEN None ELSE List!Last(line)
  <2>1. line = <<>> <=> n = 0
    BY <1>3, EmptySeq
  <2>2. List!Last(line) = line[n]
    BY <1>3 DEF List!Last
  <2> QED
    BY <1>2, <2>1, <2>2 DEF LinkedUp
<1>10. \A i \in DOMAIN line : c.less[line[i]] = IF i = 1 THEN None ELSE line[i - 1]
  BY <1>2, <1>3 DEF LinkedUp
<1>11. List!Consistent(c)
  BY <1>2, <1>3, <1>7, <1>8, <1>9, <1>10 DEF List!Consistent
<1> QED
  BY <1>5, <1>11

(* What the modules require of the slots and the keys *)
LEMMA CacheConstants ==
  /\ Slot # {} /\ IsFiniteSet(Slot) /\ Slot = 0 .. Cardinality(Slot) - 1
  /\ Cardinality(Slot) \in Nat /\ Slot \in SUBSET Nat
  /\ None \notin Slot /\ None \notin Key
<1>1. Keyed!KeyedAssumption
  BY DataAssumption DEF DataAssumption
<1>2. IsFiniteSet(Slot)
  BY <1>1 DEF Keyed!KeyedAssumption, Keyed!IsFiniteSet, IsFiniteSet
<1> QED
  BY <1>1, <1>2, FS_CardinalityType, Counting DEF Keyed!KeyedAssumption

(* A new cache *)
LEMMA VacantIsSound ==
  ASSUME NEW keys, NEW values
  PROVE  /\ Keyed!Vacant = List!Vacant /\ Slotted!Vacant = List!Vacant
         /\ Sound(List!Vacant, keys, values) /\ Reads(List!Vacant, keys, values, <<>>)
         /\ \A s \in Slot : List!Vacant.key[s] = None
<1> DEFINE c == List!Vacant
<1>1. /\ IsCache(c, keys, values) /\ c.most = None /\ c.least = None /\ c.count = 0
      /\ \A s \in Slot : c.key[s] = None
  BY DEF List!Vacant, IsCache
<1> HIDE DEF c
<1>4. PICK q, m : m = 0 /\ IsLine(q, m) /\ \A d : Reading(d, q, m) = <<>>
  BY EmptyLine
<1>5. Lines(c, keys, values, q, m) /\ <<>> = Reading(c, q, m)
  BY <1>1, <1>4, EmptyIsSound
<1>2. Sound(c, keys, values) /\ Reads(c, keys, values, <<>>)
  BY <1>5 DEF Sound, Reads
<1>3. Keyed!Vacant = List!Vacant /\ Slotted!Vacant = List!Vacant
  BY DEF Keyed!Vacant, Slotted!Vacant, List!Vacant
<1> QED
  BY <1>1, <1>2, <1>3 DEF c

(* What the number of the entries says of the slots *)
LEMMA Fullness ==
  ASSUME NEW keys, NEW values, NEW c, Sound(c, keys, values), None \notin Slot,
         IsFiniteSet(Slot), Slot # {}
  PROVE  /\ c.count \in Nat /\ Cardinality(Slot) \in Nat /\ c.count <= Cardinality(Slot)
         /\ c.count < Cardinality(Slot) => \E s \in Slot : c.key[s] = None
         /\ c.count = Cardinality(Slot) => c.least \in Slot /\ c.key[c.least] # None
<1>1. PICK line, n : Chain(c, line, n)
  BY DEF Sound, Lines
<1>2. /\ IsLine(line, n) /\ LinkedUp(c, line, n)
      /\ c.count = n /\ \A s \in Slot : c.key[s] # None <=> \E i \in 1 .. n : line[i] = s
  BY <1>1 DEF Chain, IsOccupied
<1>3. /\ Cardinality(Slot) \in Nat /\ n <= Cardinality(Slot) /\ n \in Nat
      /\ n = Cardinality(Slot) <=> \A s \in Slot : \E i \in 1 .. n : line[i] = s
  BY <1>2, LineFits DEF IsLine
<1>4. n < Cardinality(Slot) => \E s \in Slot : c.key[s] = None
  BY <1>2, <1>3
<1>5. ASSUME n = Cardinality(Slot)  PROVE c.least \in Slot /\ c.key[c.least] # None
  <2>1. n # 0 /\ 1 \in 1 .. n
    BY <1>3, <1>5
  <2>2. c.least = line[1] /\ line[1] \in Slot
    BY <1>2, <2>1 DEF LinkedUp, IsLine
  <2> QED
    BY <1>2, <2>1, <2>2
<1> QED
  BY <1>2, <1>3, <1>4, <1>5

(* Lookups find a slot. *)
LEMMA LowestIs ==
  ASSUME NEW S \in SUBSET Nat, S # {}
  PROVE  Keyed!Lowest(S) \in S
<1> DEFINE Below == {n \in Nat : \A s \in S : n < s}
<1>1. \E s \in S : \A t \in S : s <= t
  <2> SUFFICES ASSUME \A s \in S : \E t \in S : ~(s <= t)  PROVE FALSE
    OBVIOUS
  <2>1. 0 \in Below
    BY DEF Below
  <2>2. \A n \in Nat : n \in Below => n + 1 \in Below
    <3> SUFFICES ASSUME NEW n \in Nat, \A s \in S : n < s, NEW s \in S  PROVE n + 1 < s
      OBVIOUS
    <3>1. PICK t \in S : ~(s <= t)
      OBVIOUS
    <3>2. s \in Nat /\ t \in Nat /\ n < t
      OBVIOUS
    <3> QED
      BY <3>1, <3>2
  <2> HIDE DEF Below
  <2>3. Nat \subseteq Below
    BY <2>1, <2>2, EveryNumber
  <2>4. PICK s \in S : s \in Below
    BY <2>3
  <2>5. s \in Nat /\ s < s
    BY <2>4 DEF Below
  <2> QED
    BY <2>5
<1>2. Keyed!Lowest(S) = CHOOSE s \in S : \A t \in S : s <= t
  BY DEF Keyed!Lowest
<1> QED
  BY <1>1, <1>2

-----------------------------------------------------------------------------
(* The cache that searches its slots *)

KeyedInv == Sound(keyed, Key, CachedValue)

(* A new cache is as the invariant says. *)
LEMMA KeyedStarts == Keyed!Init => KeyedInv /\ Keyed!Entries(keyed) = <<>>
BY VacantIsSound, CacheConstants, EntriesAre DEF Keyed!Init, KeyedInv

(* The slot that an entry is put into is free. *)
LEMMA FreeSlotIsFree ==
  ASSUME KeyedInv, keyed.count < Cardinality(Slot)
  PROVE  Keyed!FreeSlot \in Slot /\ keyed.key[Keyed!FreeSlot] = None
<1>1. /\ Slot # {} /\ IsFiniteSet(Slot) /\ None \notin Slot
      /\ Slot = 0 .. Cardinality(Slot) - 1
  BY CacheConstants
<1>2. keyed.count \in Nat /\ Cardinality(Slot) \in Nat /\ \E s \in Slot : keyed.key[s] = None
  BY <1>1, Fullness DEF KeyedInv
<1>3. keyed.count \in Slot /\ Slot \in SUBSET Nat
  BY <1>1, <1>2
<1> DEFINE free == Keyed!Found(None)
<1>4. free = {s \in Slot : keyed.key[s] = None}
  BY DEF Keyed!Found
<1>5. free # {} /\ free \in SUBSET Nat
  BY <1>2, <1>3, <1>4
<1> HIDE DEF free
<1>6. Keyed!Lowest(free) \in free
  BY <1>5, LowestIs
<1> QED
  BY <1>3, <1>4, <1>6 DEF Keyed!FreeSlot, free

(* The slot that a key is found in holds it. *)
LEMMA FoundSlotHolds ==
  ASSUME NEW key \in Key, Keyed!Found(key) # {}
  PROVE  LET s == Keyed!Lowest(Keyed!Found(key)) IN s \in Slot /\ keyed.key[s] # None
<1>1. Slot \in SUBSET Nat /\ None \notin Key
  BY CacheConstants
<1> DEFINE found == Keyed!Found(key)
<1>2. found = {s \in Slot : keyed.key[s] = key}
  BY DEF Keyed!Found
<1>3. found \in SUBSET Nat /\ found # {}
  BY <1>1, <1>2
<1> HIDE DEF found
<1>4. Keyed!Lowest(found) \in found
  BY <1>3, LowestIs
<1> QED
  BY <1>1, <1>2, <1>4 DEF found

(* Insert() is a step of an LRU cache. *)
LEMMA InsertedMoves ==
  ASSUME KeyedInv, NEW key \in Key, NEW value \in CachedValue,
         Keyed!Insert(key, value), NEW e, Reads(keyed, Key, CachedValue, e)
  PROVE  Moved(e, keyed', Key, CachedValue)
<1>1. Slot # {} /\ IsFiniteSet(Slot) /\ None \notin Slot /\ None \notin Key
  BY CacheConstants
<1>2. /\ keyed.count \in Nat /\ Cardinality(Slot) \in Nat /\ keyed.count <= Cardinality(Slot)
      /\ keyed.count = Cardinality(Slot) => keyed.least \in Slot /\ keyed.key[keyed.least] # None
  BY <1>1, Fullness DEF KeyedInv
<1>3. Keyed!Cardinality(Slot) = Cardinality(Slot)
  BY Counting
<1>4. CASE keyed.count < Cardinality(Slot)
  <2> DEFINE free == Keyed!FreeSlot
  <2>1. free \in Slot /\ keyed.key[free] = None
    BY <1>4, FreeSlotIsFree
  <2>2. keyed' = List!Occupy(keyed, free, key, value)
    BY <1>3, <1>4, OccupyAlike DEF Keyed!Insert
  <2> HIDE DEF free
  <2> QED
    BY <1>1, <2>1, <2>2, OccupyMoves
<1>5. CASE ~(keyed.count < Cardinality(Slot))
  <2> DEFINE oldest == keyed.least
             c == [keyed EXCEPT !.key[oldest] = key, !.value[oldest] = value]
  <2>1. /\ oldest \in Slot /\ keyed.key[oldest] # None
        /\ oldest = keyed.least /\ keyed.count = Cardinality(Slot)
    BY <1>2, <1>5
  <2>2. keyed' = List!MakeMostRecentlyUsed(c, oldest)
    BY <1>3, <1>5, MakeAlike DEF Keyed!Insert
  <2> HIDE DEF oldest
  <2>3. Replaces(keyed, c, oldest, key, value)
    BY DEF Replaces
  <2> HIDE DEF c
  <2>4. Moved(e, List!MakeMostRecentlyUsed(c, oldest), Key, CachedValue)
    BY <1>1, <2>1, <2>3, OverwrittenMoves
  <2> QED
    BY <2>2, <2>4
<1> QED
  BY <1>4, <1>5

(* So is TryRemove(). *)
LEMMA RemovedByKey ==
  ASSUME KeyedInv, NEW key \in Key, Keyed!TryRemove(key),
         NEW e, Reads(keyed, Key, CachedValue, e)
  PROVE  Moved(e, keyed', Key, CachedValue)
<1>1. /\ IsFiniteSet(Slot) /\ None \notin Slot /\ None \notin Key
      /\ Slot = 0 .. Cardinality(Slot) - 1 /\ Cardinality(Slot) \in Nat
  BY CacheConstants
<1> DEFINE n == Cardinality(Slot)  slots == [i \in 1 .. n |-> i - 1]  gone == Keyed!Found(key)
<1>2. keyed' = List!RemovedOneByOne(keyed, slots, gone)
  BY Counting, OneByOneAlike DEF Keyed!TryRemove
<1>3. n \in Nat /\ Slot = 0 .. n - 1
  BY <1>1
<1> HIDE DEF n
<1>4. \A i \in 1 .. n : i - 1 \in Slot
  BY <1>3
<1>5. slots \in [1 .. n -> Slot] /\ \A i \in 1 .. n : slots[i] = i - 1
  BY <1>4
<1> HIDE DEF slots
<1>6. slots \in Seq(Slot) /\ n = Len(slots)
  BY <1>3, <1>5
<1>7. Enumerates(slots, n)
  <2>1. ASSUME NEW s \in Slot  PROVE \E i \in 1 .. n : slots[i] = s
    <3> DEFINE j == s + 1
    <3>1. j \in 1 .. n /\ j - 1 = s
      BY <1>3
    <3> HIDE DEF j
    <3> QED
      BY <1>5, <3>1
  <2>2. \A i, j \in 1 .. n : slots[i] = slots[j] => i = j
    BY <1>5
  <2> QED
    BY <2>1, <2>2 DEF Enumerates
<1>8. HoldIt(gone, keyed, key)
  BY DEF Keyed!Found, HoldIt
<1> HIDE DEF gone
<1> QED
  BY <1>1, <1>2, <1>3, <1>6, <1>7, <1>8, ByKeyMoves

(* Every step of the cache is one or changes no entry. *)
LEMMA KeyedMoves ==
  ASSUME KeyedInv, Keyed!Next, NEW e, Reads(keyed, Key, CachedValue, e)
  PROVE  Moved(e, keyed', Key, CachedValue)
<1> DEFINE Right == Moved(e, keyed', Key, CachedValue)
<1>1. IsFiniteSet(Slot) /\ None \notin Slot
  BY CacheConstants
<1>2. ASSUME NEW key \in Key, Keyed!Get(key)  PROVE Right
  <2> DEFINE s == Keyed!Lowest(Keyed!Found(key))
  <2>1. s \in Slot /\ keyed.key[s] # None
    BY <1>2, FoundSlotHolds DEF Keyed!Get
  <2>2. keyed' = List!MakeMostRecentlyUsed(keyed, s)
    BY <1>2, MakeAlike DEF Keyed!Get
  <2> HIDE DEF s
  <2> QED
    BY <1>1, <2>1, <2>2, UsedMoves
<1>3. ASSUME NEW key \in Key, Keyed!TryTake(key)  PROVE Right
  <2> DEFINE s == Keyed!Lowest(Keyed!Found(key))
  <2>1. s \in Slot /\ keyed.key[s] # None
    BY <1>3, FoundSlotHolds DEF Keyed!TryTake
  <2>2. keyed' = List!Removed(keyed, s)
    BY <1>3, RemovedAlike DEF Keyed!TryTake
  <2> HIDE DEF s
  <2> QED
    BY <1>1, <2>1, <2>2, RemovedMoves
<1>4. ASSUME Keyed!Clear  PROVE Right
  BY <1>1, <1>4, ClearedAlike, ClearedMoves DEF Keyed!Clear
<1>5. ASSUME NEW count \in 0 .. Keyed!Cardinality(Slot), Keyed!EvictDownTo(count)
      PROVE  Right
  <2>1. count \in 0 .. Cardinality(Slot)
    BY Counting
  <2> QED
    BY <1>1, <1>5, <2>1, DownAlike, DownMoves DEF Keyed!EvictDownTo
<1>6. ASSUME NEW policy \in SUBSET CachedValue, Keyed!EvictWhere(policy)  PROVE Right
  BY <1>1, <1>6, WhereAlike, WhereMoves DEF Keyed!EvictWhere
<1> QED
  BY <1>2, <1>3, <1>4, <1>5, <1>6, InsertedMoves, RemovedByKey DEF Keyed!Next

(* The oldest entry goes when the others remain. *)
LEMMA CutFirst ==
  ASSUME NEW T, NEW e \in Seq(T), 1 \in 1 .. Len(e)
  PROVE  Cut(e, 1) = Tail(e)
<1> DEFINE n == Len(e)  m == n - 1  one == 1
<1>1. n \in Nat /\ e # <<>> /\ one \in 1 .. n /\ one = 1 /\ n = Len(e)
  BY LenProperties, EmptySeq
<1>2. Tail(e) \in Seq(T) /\ Len(Tail(e)) = m /\ \A i \in 1 .. m : Tail(e)[i] = e[i + 1]
  BY <1>1, HeadTailProperties
<1> DEFINE t == Tail(e)
<1>3. t \in Seq(T) /\ Len(t) = m /\ \A i \in 1 .. m : t[i] = e[i + 1]
  BY <1>2
<1> HIDE DEF t, one, n
<1>4. Cut(e, one) = Shorter(e, n, one)
  BY <1>1, CutIs
<1>5. Shorter(e, n, one) = [i \in 1 .. m |-> e[i + 1]]
  BY <1>1 DEF Shorter
<1> HIDE DEF m
<1>6. t \in [1 .. m -> T]
  BY <1>3, LenProperties
<1>7. t = [i \in 1 .. m |-> e[i + 1]]
  BY <1>3, <1>6
<1> QED
  BY <1>1, <1>4, <1>5, <1>7 DEF t

(* Such a step is one of the cache that the module names, *)
LEMMA KeyedAges ==
  ASSUME NEW e, NEW f, Ages(e, f, Key, CachedValue), e \in Seq(Entries(Key, CachedValue)),
         e = Keyed!Entries(keyed), f = Keyed!Entries(keyed)'
  PROVE  Keyed!Lru!Next
<1> DEFINE size == Cardinality(Slot)  Next0 == Keyed!Lru!Next
<1>1. Keyed!Cardinality(Slot) = size /\ size \in Nat /\ DOMAIN e = 1 .. Len(e)
  BY CacheConstants, Counting, LenProperties
<1>2. ASSUME NEW key \in Key, NEW value \in CachedValue, Len(e) # size,
             f = Append(e, [key |-> key, value |-> value])
      PROVE  Next0
  <2>1. Keyed!Lru!Store(key, value)
    BY <1>1, <1>2 DEF Keyed!Lru!Store
  <2> QED
    BY <2>1 DEF Keyed!Lru!Next
<1>3. ASSUME NEW key \in Key, NEW value \in CachedValue, Len(e) = size, 1 \in 1 .. Len(e),
             f = Append(Cut(e, 1), [key |-> key, value |-> value])
      PROVE  Next0
  <2>1. Cut(e, 1) = Tail(e)
    BY <1>3, CutFirst
  <2>2. Keyed!Lru!Store(key, value)
    BY <1>1, <1>3, <2>1 DEF Keyed!Lru!Store
  <2> QED
    BY <2>2 DEF Keyed!Lru!Next
<1>4. ASSUME NEW k \in 1 .. Len(e), NEW x, f = Append(Cut(e, k), x),
             x = [key |-> e[k].key, value |-> x.value]
      PROVE  Keyed!Lru!Use(e[k].key, x.value)
  BY <1>1, <1>4 DEF Keyed!Lru!Use, Keyed!Lru!Matches, Keyed!Lru!RemoveAt, Cut
<1>5. ASSUME NEW key \in Key, NEW value \in CachedValue, NEW k \in 1 .. Len(e),
             e[k].key = key, f = Append(Cut(e, k), [key |-> key, value |-> value])
      PROVE  Next0
  <2>1. Keyed!Lru!Use(key, value)
    BY <1>4, <1>5
  <2> QED
    BY <2>1 DEF Keyed!Lru!Next
<1>6. ASSUME NEW k \in 1 .. Len(e), e[k].key \in Key, f = Append(Cut(e, k), e[k])
      PROVE  Next0
  <2>1. e[k] = [key |-> e[k].key, value |-> e[k].value]
    <3>1. e[k] \in Entries(Key, CachedValue)
      BY ElementOfSeq
    <3> QED
      BY <3>1 DEF Entries
  <2>2. Keyed!Lru!Use(e[k].key, e[k].value)
    BY <1>4, <1>6, <2>1
  <2>3. Keyed!Lru!LookUp(e[k].key)
    BY <1>1, <2>2 DEF Keyed!Lru!LookUp, Keyed!Lru!Matches
  <2> QED
    BY <1>6, <2>3 DEF Keyed!Lru!Next
<1>7. ASSUME NEW k \in 1 .. Len(e), e[k].key \in Key, f = Cut(e, k)  PROVE Next0
  <2>1. Keyed!Lru!Take(e[k].key)
    BY <1>1, <1>7 DEF Keyed!Lru!Take, Keyed!Lru!Matches, Keyed!Lru!RemoveAt, Cut
  <2> QED
    BY <1>7, <2>1 DEF Keyed!Lru!Next
<1>8. ASSUME NEW places, KeptAt(e, f, places)  PROVE Keyed!Lru!Keep(places)
  BY <1>8 DEF KeptAt, Keyed!Lru!Keep
<1>9. ASSUME NEW key \in Key, KeptAt(e, f, OtherKeys(e, key))  PROVE Next0
  <2>1. Keyed!Lru!Delete(key)
    BY <1>8, <1>9 DEF Keyed!Lru!Delete, OtherKeys
  <2> QED
    BY <2>1 DEF Keyed!Lru!Next
<1>10. ASSUME NEW policy \in SUBSET CachedValue,
              KeptAt(e, f, {i \in DOMAIN e : e[i].value \notin policy})
       PROVE  Next0
  <2>1. Keyed!Lru!EvictWhere(policy)
    BY <1>8, <1>10 DEF Keyed!Lru!EvictWhere
  <2> QED
    BY <2>1 DEF Keyed!Lru!Next
<1>11. ASSUME NEW count \in 0 .. size, count < Len(e),
              f = SubSeq(e, Len(e) - count + 1, Len(e))
       PROVE  Next0
  <2>1. Keyed!Lru!EvictDownTo(count)
    BY <1>11 DEF Keyed!Lru!EvictDownTo
  <2> QED
    BY <1>1, <2>1 DEF Keyed!Lru!Next
<1> HIDE DEF Next0
<1>12. Next0
  BY <1>2, <1>3, <1>5, <1>6, <1>7, <1>9, <1>10, <1>11 DEF Ages
<1> QED
  BY <1>12 DEF Next0

(* The invariant stays true, and the entries are those of an LRU cache. *)
LEMMA KeyedGoesOn ==
  ASSUME KeyedInv, Keyed!Next
  PROVE  /\ KeyedInv'
         /\ Keyed!Lru!Next \/ Keyed!Entries(keyed)' = Keyed!Entries(keyed)
<1>1. PICK e : Reads(keyed, Key, CachedValue, e)
  BY DEF KeyedInv, Sound, Reads
<1>2. PICK f : /\ Reads(keyed', Key, CachedValue, f)
               /\ f = e \/ Ages(e, f, Key, CachedValue)
  BY <1>1, KeyedMoves DEF Moved
<1>3. KeyedInv'
  BY <1>2 DEF KeyedInv, Sound, Reads
<1>4. None \notin Slot /\ IsFiniteSet(Slot)
  BY CacheConstants
<1>5. Keyed!Entries(keyed) = e /\ e \in Seq(Entries(Key, CachedValue)) /\ DOMAIN e = 1 .. Len(e)
  BY <1>1, <1>4, EntriesAre
<1>6. Keyed!Entries(keyed)' = f
  BY <1>2, <1>4, EntriesAre
<1>7. ASSUME Ages(e, f, Key, CachedValue)  PROVE Keyed!Lru!Next
  BY <1>5, <1>6, <1>7, KeyedAges
<1> QED
  BY <1>2, <1>3, <1>5, <1>6, <1>7

-----------------------------------------------------------------------------
(* The cache whose keys are its slots *)

(* A slot holds its own number as its key, or nothing. *)
OwnKeys(c) == \A s \in Slot : c.key[s] \in {None, s}
SlottedInv == Sound(slotted, Slot, CachedValue) /\ OwnKeys(slotted)

(* A new cache is as the invariant says. *)
LEMMA SlottedStarts == Slotted!Init => SlottedInv /\ Slotted!Entries(slotted) = <<>>
BY VacantIsSound, CacheConstants, EntriesAre DEF Slotted!Init, SlottedInv, OwnKeys

(* Every step of the cache is one of an LRU cache or changes no entry. *)
LEMMA SlottedMoves ==
  ASSUME SlottedInv, Slotted!Next, NEW e, Reads(slotted, Slot, CachedValue, e)
  PROVE  Moved(e, slotted', Slot, CachedValue) /\ OwnKeys(slotted')
<1> DEFINE Right == Moved(e, slotted', Slot, CachedValue) /\ OwnKeys(slotted')
<1>1. IsFiniteSet(Slot) /\ None \notin Slot /\ \A s \in Slot : slotted.key[s] \in {None, s}
  BY CacheConstants DEF SlottedInv, OwnKeys
<1>2. KeysLeft(slotted, slotted') => OwnKeys(slotted')
  BY <1>1 DEF KeysLeft, OwnKeys
<1>3. ASSUME NEW key \in Slot, Slotted!Get(key)  PROVE Right
  <2>1. slotted.key[key] # None
    BY <1>1, <1>3 DEF Slotted!Get, Slotted!IsOccupied
  <2>2. slotted' = List!MakeMostRecentlyUsed(slotted, key)
    BY <1>3, MakeAlike DEF Slotted!Get
  <2>3. Moved(e, slotted', Slot, CachedValue) /\ slotted'.key = slotted.key
    BY <1>1, <2>1, <2>2, UsedMoves
  <2> QED
    BY <1>2, <2>3 DEF KeysLeft
<1>4. ASSUME NEW key \in Slot, Slotted!TryTake(key) \/ Slotted!TryRemove(key)
      PROVE  Right
  <2>1. slotted.key[key] # None
    BY <1>1, <1>4 DEF Slotted!TryTake, Slotted!TryRemove, Slotted!IsOccupied
  <2>2. slotted' = List!Removed(slotted, key)
    BY <1>4, RemovedAlike DEF Slotted!TryTake, Slotted!TryRemove
  <2>3. Moved(e, slotted', Slot, CachedValue) /\ KeysLeft(slotted, slotted')
    BY <1>1, <2>1, <2>2, RemovedMoves
  <2> QED
    BY <1>2, <2>3
<1>11. ASSUME NEW key \in Slot,
              \A t \in Slot : slotted'.key[t] = IF t = key THEN key ELSE slotted.key[t]
       PROVE  OwnKeys(slotted')
  BY <1>1, <1>11 DEF OwnKeys
<1>5. ASSUME NEW key \in Slot, NEW value \in CachedValue, ~Slotted!IsOccupied(key),
             slotted' = Slotted!Occupy(slotted, key, key, value)
      PROVE  Right
  <2>1. slotted.key[key] = None
    BY <1>1, <1>5 DEF Slotted!IsOccupied
  <2>2. slotted' = List!Occupy(slotted, key, key, value)
    BY <1>5, OccupyAlike
  <2>3. /\ Moved(e, slotted', Slot, CachedValue)
        /\ \A t \in Slot : slotted'.key[t] = IF t = key THEN key ELSE slotted.key[t]
    BY <1>1, <2>1, <2>2, OccupyMoves
  <2> QED
    BY <1>11, <2>3
<1>6. ASSUME NEW key \in Slot, NEW value \in CachedValue, Slotted!IsOccupied(key),
             Slotted!Insert(key, value)
      PROVE  Right
  <2> DEFINE c == [slotted EXCEPT !.value[key] = value]
             d == [slotted EXCEPT !.key[key] = key, !.value[key] = value]
  <2>1. slotted.key[key] # None /\ slotted.key[key] = key
    BY <1>1, <1>6 DEF Slotted!IsOccupied
  <2>2. slotted' = List!MakeMostRecentlyUsed(c, key)
    BY <1>6, MakeAlike DEF Slotted!Insert
  <2>3. c = d
    <3>1. slotted.key \in [Slot -> Slot \cup {None}] /\ IsCache(slotted, Slot, CachedValue)
      BY DEF SlottedInv, Sound, Lines, IsCache
    <3>2. slotted.key = [slotted.key EXCEPT ![key] = key]
      BY <2>1, <3>1
    <3> QED
      BY <3>1, <3>2 DEF IsCache
  <2>4. Replaces(slotted, d, key, key, value)
    BY DEF Replaces
  <2> HIDE DEF c, d
  <2> DEFINE f == List!MakeMostRecentlyUsed(d, key)
  <2>5. /\ Moved(e, f, Slot, CachedValue)
        /\ \A t \in Slot : f.key[t] = IF t = key THEN key ELSE slotted.key[t]
    BY <1>1, <2>1, <2>4, OverwrittenMoves
  <2>6. slotted' = f
    BY <2>2, <2>3
  <2> HIDE DEF f
  <2> QED
    BY <1>11, <2>5, <2>6
<1>7. ASSUME NEW key \in Slot, NEW value \in CachedValue,
             Slotted!Insert(key, value) \/ Slotted!TryInsert(key, value)
      PROVE  Right
  BY <1>5, <1>6, <1>7 DEF Slotted!Insert, Slotted!TryInsert
<1>8. ASSUME Slotted!Clear  PROVE Right
  BY <1>1, <1>2, <1>8, ClearedAlike, ClearedMoves DEF Slotted!Clear
<1>9. ASSUME NEW count \in 0 .. Slotted!Cardinality(Slot), Slotted!EvictDownTo(count)
      PROVE  Right
  <2>1. count \in 0 .. Cardinality(Slot)
    BY Counting
  <2> QED
    BY <1>1, <1>2, <1>9, <2>1, DownAlike, DownMoves DEF Slotted!EvictDownTo
<1>10. ASSUME NEW policy \in SUBSET CachedValue, Slotted!EvictWhere(policy)  PROVE Right
  BY <1>1, <1>2, <1>10, WhereAlike, WhereMoves DEF Slotted!EvictWhere
<1> QED
  BY <1>3, <1>4, <1>7, <1>8, <1>9, <1>10 DEF Slotted!Next

(* ... and for the other cache *)
LEMMA SlottedAges ==
  ASSUME NEW e, NEW f, Ages(e, f, Slot, CachedValue), e \in Seq(Entries(Slot, CachedValue)),
         e = Slotted!Entries(slotted), f = Slotted!Entries(slotted)'
  PROVE  Slotted!Lru!Next
<1> DEFINE size == Cardinality(Slot)  Next0 == Slotted!Lru!Next
<1>1. Slotted!Cardinality(Slot) = size /\ size \in Nat /\ DOMAIN e = 1 .. Len(e)
  BY CacheConstants, Counting, LenProperties
<1>2. ASSUME NEW key \in Slot, NEW value \in CachedValue, Len(e) # size,
             f = Append(e, [key |-> key, value |-> value])
      PROVE  Next0
  <2>1. Slotted!Lru!Store(key, value)
    BY <1>1, <1>2 DEF Slotted!Lru!Store
  <2> QED
    BY <2>1 DEF Slotted!Lru!Next
<1>3. ASSUME NEW key \in Slot, NEW value \in CachedValue, Len(e) = size, 1 \in 1 .. Len(e),
             f = Append(Cut(e, 1), [key |-> key, value |-> value])
      PROVE  Next0
  <2>1. Cut(e, 1) = Tail(e)
    BY <1>3, CutFirst
  <2>2. Slotted!Lru!Store(key, value)
    BY <1>1, <1>3, <2>1 DEF Slotted!Lru!Store
  <2> QED
    BY <2>2 DEF Slotted!Lru!Next
<1>4. ASSUME NEW k \in 1 .. Len(e), NEW x, f = Append(Cut(e, k), x),
             x = [key |-> e[k].key, value |-> x.value]
      PROVE  Slotted!Lru!Use(e[k].key, x.value)
  BY <1>1, <1>4 DEF Slotted!Lru!Use, Slotted!Lru!Matches, Slotted!Lru!RemoveAt, Cut
<1>5. ASSUME NEW key \in Slot, NEW value \in CachedValue, NEW k \in 1 .. Len(e),
             e[k].key = key, f = Append(Cut(e, k), [key |-> key, value |-> value])
      PROVE  Next0
  <2>1. Slotted!Lru!Use(key, value)
    BY <1>4, <1>5
  <2> QED
    BY <2>1 DEF Slotted!Lru!Next
<1>6. ASSUME NEW k \in 1 .. Len(e), e[k].key \in Slot, f = Append(Cut(e, k), e[k])
      PROVE  Next0
  <2>1. e[k] = [key |-> e[k].key, value |-> e[k].value]
    <3>1. e[k] \in Entries(Slot, CachedValue)
      BY ElementOfSeq
    <3> QED
      BY <3>1 DEF Entries
  <2>2. Slotted!Lru!Use(e[k].key, e[k].value)
    BY <1>4, <1>6, <2>1
  <2>3. Slotted!Lru!LookUp(e[k].key)
    BY <1>1, <2>2 DEF Slotted!Lru!LookUp, Slotted!Lru!Matches
  <2> QED
    BY <1>6, <2>3 DEF Slotted!Lru!Next
<1>7. ASSUME NEW k \in 1 .. Len(e), e[k].key \in Slot, f = Cut(e, k)  PROVE Next0
  <2>1. Slotted!Lru!Take(e[k].key)
    BY <1>1, <1>7 DEF Slotted!Lru!Take, Slotted!Lru!Matches, Slotted!Lru!RemoveAt, Cut
  <2> QED
    BY <1>7, <2>1 DEF Slotted!Lru!Next
<1>8. ASSUME NEW places, KeptAt(e, f, places)  PROVE Slotted!Lru!Keep(places)
  BY <1>8 DEF KeptAt, Slotted!Lru!Keep
<1>9. ASSUME NEW key \in Slot, KeptAt(e, f, OtherKeys(e, key))  PROVE Next0
  <2>1. Slotted!Lru!Delete(key)
    BY <1>8, <1>9 DEF Slotted!Lru!Delete, OtherKeys
  <2> QED
    BY <2>1 DEF Slotted!Lru!Next
<1>10. ASSUME NEW policy \in SUBSET CachedValue,
              KeptAt(e, f, {i \in DOMAIN e : e[i].value \notin policy})
       PROVE  Next0
  <2>1. Slotted!Lru!EvictWhere(policy)
    BY <1>8, <1>10 DEF Slotted!Lru!EvictWhere
  <2> QED
    BY <2>1 DEF Slotted!Lru!Next
<1>11. ASSUME NEW count \in 0 .. size, count < Len(e),
              f = SubSeq(e, Len(e) - count + 1, Len(e))
       PROVE  Next0
  <2>1. Slotted!Lru!EvictDownTo(count)
    BY <1>11 DEF Slotted!Lru!EvictDownTo
  <2> QED
    BY <1>1, <2>1 DEF Slotted!Lru!Next
<1> HIDE DEF Next0
<1>12. Next0
  BY <1>2, <1>3, <1>5, <1>6, <1>7, <1>9, <1>10, <1>11 DEF Ages
<1> QED
  BY <1>12 DEF Next0

(* The invariant stays true, and the entries are those of an LRU cache. *)
LEMMA SlottedGoesOn ==
  ASSUME SlottedInv, Slotted!Next
  PROVE  /\ SlottedInv'
         /\ Slotted!Lru!Next \/ Slotted!Entries(slotted)' = Slotted!Entries(slotted)
<1>1. PICK e : Reads(slotted, Slot, CachedValue, e)
  BY DEF SlottedInv, Sound, Reads
<1>2. PICK f : /\ Reads(slotted', Slot, CachedValue, f)
               /\ f = e \/ Ages(e, f, Slot, CachedValue)
  BY <1>1, SlottedMoves DEF Moved
<1>3. SlottedInv'
  BY <1>1, <1>2, SlottedMoves DEF SlottedInv, Sound, Reads
<1>4. None \notin Slot /\ IsFiniteSet(Slot)
  BY CacheConstants
<1>5. Slotted!Entries(slotted) = e /\ e \in Seq(Entries(Slot, CachedValue))
  BY <1>1, <1>4, EntriesAre
<1>6. Slotted!Entries(slotted)' = f
  BY <1>2, <1>4, EntriesAre
<1>7. ASSUME Ages(e, f, Slot, CachedValue)  PROVE Slotted!Lru!Next
  BY <1>5, <1>6, <1>7, SlottedAges
<1> QED
  BY <1>2, <1>3, <1>5, <1>6, <1>7

-----------------------------------------------------------------------------
(* Both caches *)

CachesInv == KeyedInv /\ SlottedInv

(* The invariant of both of them is true at first, *)
LEMMA CachesStart == Init => CachesInv
BY KeyedStarts, SlottedStarts DEF Init, CachesInv

(* and stays true. *)
LEMMA CachesGoOn == CachesInv /\ [Next]_vars => CachesInv'
<1> SUFFICES ASSUME KeyedInv, SlottedInv, [Next]_vars  PROVE KeyedInv' /\ SlottedInv'
  BY DEF CachesInv
<1>1. Keyed!Next \/ UNCHANGED keyed
  BY DEF Next, Of, vars, queues, event, settings, ini, rest
<1>2. Slotted!Next \/ UNCHANGED slotted
  BY DEF Next, Of, vars, queues, event, settings, ini, rest
<1>3. KeyedInv'
  BY <1>1, KeyedGoesOn DEF KeyedInv
<1>4. SlottedInv'
  BY <1>2, SlottedGoesOn DEF SlottedInv
<1> QED
  BY <1>3, <1>4

(* The lists of both caches hold their occupied slots and nothing else,     *)
(* linked up in both directions, after every step.                          *)
THEOREM CachesAreConsistent ==
  Spec => [](/\ Keyed!TypeOK /\ Keyed!ListConsistent
             /\ Slotted!TypeOK /\ Slotted!ListConsistent)
<1>1. CachesInv => /\ Keyed!TypeOK /\ Keyed!ListConsistent
                   /\ Slotted!TypeOK /\ Slotted!ListConsistent
  BY CacheConstants, SoundIsRight, PropertiesAlike DEF CachesInv, KeyedInv, SlottedInv
<1> QED
  BY <1>1, CachesStart, CachesGoOn, PTL DEF Spec

(* Both caches implement an LRU cache: what the lists of both stand for     *)
(* changes as its entries do, so that no entry is lost but the oldest ones, *)
(* those of a key that is taken or removed, and those a policy names.       *)
THEOREM CachesAreLruCaches == Spec => CachesEvictOldest
<1>1. Init => Keyed!Lru!Init /\ Slotted!Lru!Init
  BY KeyedStarts, SlottedStarts DEF Init, Keyed!Lru!Init, Slotted!Lru!Init
<1>2. CachesInv /\ [Next]_vars => [Keyed!Lru!Next]_(Keyed!Entries(keyed))
  <2> SUFFICES ASSUME KeyedInv, [Next]_vars
               PROVE  Keyed!Lru!Next \/ Keyed!Entries(keyed)' = Keyed!Entries(keyed)
    BY DEF CachesInv
  <2>1. Keyed!Next \/ UNCHANGED keyed
    BY DEF Next, Of, vars, queues, event, settings, ini, rest
  <2>2. UNCHANGED keyed => Keyed!Entries(keyed)' = Keyed!Entries(keyed)
    OBVIOUS
  <2> QED
    BY <2>1, <2>2, KeyedGoesOn
<1>3. CachesInv /\ [Next]_vars => [Slotted!Lru!Next]_(Slotted!Entries(slotted))
  <2> SUFFICES ASSUME SlottedInv, [Next]_vars
               PROVE  Slotted!Lru!Next \/ Slotted!Entries(slotted)' = Slotted!Entries(slotted)
    BY DEF CachesInv
  <2>1. Slotted!Next \/ UNCHANGED slotted
    BY DEF Next, Of, vars, queues, event, settings, ini, rest
  <2>2. UNCHANGED slotted => Slotted!Entries(slotted)' = Slotted!Entries(slotted)
    OBVIOUS
  <2> QED
    BY <2>1, <2>2, SlottedGoesOn
<1> QED
  BY <1>1, <1>2, <1>3, CachesStart, CachesGoOn, PTL
  DEF Spec, CachesEvictOldest, Keyed!ImplementsLruCache, Slotted!ImplementsLruCache,
      Keyed!Lru!Spec, Slotted!Lru!Spec

-----------------------------------------------------------------------------
(* The ring of lines *)

Line == [indentation : 0 .. MaxIndentation, text : Seq(Message)]

(* The line that lies "distance" behind another one, and how many lines     *)
(* there are from one on until another one comes                            *)
Behind(line, distance) ==
  IF line + distance <= HistoryLineCount THEN line + distance
  ELSE line + distance - HistoryLineCount - 1
Between(oldest, next) ==
  IF next >= oldest THEN next - oldest ELSE next - oldest + HistoryLineCount + 1

(* The indexes are computed modulo the number of lines. *)
LEMMA RingIndexes ==
  ASSUME Logger!LoggerAssumption,
         NEW o \in 0 .. HistoryLineCount, NEW n \in 0 .. HistoryLineCount
  PROVE  /\ (n - o) % Logger!Size = Between(o, n)
         /\ \A d \in 0 .. HistoryLineCount :
              (o + d) % Logger!Size = Behind(o, d)
<1> DEFINE N == HistoryLineCount + 1
<1>1. HistoryLineCount \in Nat /\ N \in Nat /\ N > 0 /\ o \in 0 .. N - 1 /\ n \in 0 .. N - 1
  BY DEF Logger!LoggerAssumption
<1>2. \A a \in 0 .. N - 1 : a % N = a
  BY <1>1
<1>3. \A a \in 0 .. N - 1 : (a + N) % N = a
  BY <1>1
<1>4. \A a \in 0 .. N - 1 : (a - N) % N = a
  BY <1>1
<1>5. (n - o) % N = Between(o, n)
  <2>1. CASE n >= o
    BY <1>1, <1>2, <2>1 DEF Between
  <2>2. CASE n < o
    <3> DEFINE a == n - o + N
    <3>1. a \in 0 .. N - 1 /\ n - o = a - N
      BY <1>1, <2>2
    <3>2. Between(o, n) = a
      BY <1>1, <2>2 DEF Between
    <3> HIDE DEF a
    <3>3. (a - N) % N = a
      BY <1>4, <3>1
    <3> QED
      BY <3>1, <3>2, <3>3
  <2> QED
    BY <1>1, <2>1, <2>2
<1>6. ASSUME NEW d \in 0 .. N - 1  PROVE (o + d) % N = Behind(o, d)
  <2>1. CASE o + d < N
    BY <1>1, <1>2, <2>1 DEF Behind
  <2>2. CASE o + d >= N
    <3>1. o + d - N \in 0 .. N - 1
      BY <1>1, <2>2
    <3>2. (o + d - N + N) % N = o + d - N
      BY <1>3, <3>1
    <3> QED
      BY <1>1, <2>2, <3>2 DEF Behind
  <2> QED
    BY <1>1, <2>1, <2>2
<1>7. N - 1 = HistoryLineCount
  BY <1>1
<1> QED
  BY <1>5, <1>6, <1>7 DEF Logger!Size

(* How these indexes change when the logger goes on to the next line *)
LEMMA NextIndexes ==
  ASSUME Logger!LoggerAssumption,
         NEW o \in 0 .. HistoryLineCount, NEW n \in 0 .. HistoryLineCount
  PROVE  LET next == Behind(n, 1) IN
         /\ next \in 0 .. HistoryLineCount /\ next # n
         /\ Between(o, n) \in 0 .. HistoryLineCount
         /\ Behind(o, Between(o, n)) = n
         /\ \A d \in 0 .. HistoryLineCount :
              /\ Behind(o, d) \in 0 .. HistoryLineCount
              /\ d < Between(o, n) =>
                   Behind(o, d) # n /\ (Behind(o, d) = next => next = o /\ d = 0)
         /\ next # o => Between(o, next) = Between(o, n) + 1
         /\ next = o =>
              /\ Between(o, n) = HistoryLineCount
              /\ Between(Behind(o, 1), next) = HistoryLineCount
              /\ \A d \in 0 .. HistoryLineCount - 1 :
                   Behind(Behind(o, 1), d) = Behind(o, d + 1)
<1> DEFINE next == Behind(n, 1)
<1>1. HistoryLineCount \in Nat /\ HistoryLineCount >= 1
  BY DEF Logger!LoggerAssumption
<1>2. next \in 0 .. HistoryLineCount /\ next # n
  BY <1>1 DEF Behind
<1>3. Between(o, n) \in 0 .. HistoryLineCount /\ Behind(o, Between(o, n)) = n
  BY <1>1 DEF Behind, Between
<1>4. ASSUME NEW d \in 0 .. HistoryLineCount
      PROVE  /\ Behind(o, d) \in 0 .. HistoryLineCount
             /\ d < Between(o, n) =>
                  Behind(o, d) # n /\ (Behind(o, d) = next => next = o /\ d = 0)
  BY <1>1 DEF Behind, Between
<1>5. next # o => Between(o, next) = Between(o, n) + 1
  BY <1>1 DEF Behind, Between
<1>6. ASSUME next = o
      PROVE  /\ Between(o, n) = HistoryLineCount
             /\ Between(Behind(o, 1), next) = HistoryLineCount
  BY <1>1, <1>6 DEF Behind, Between
<1>7. ASSUME NEW d \in 0 .. HistoryLineCount - 1
      PROVE  Behind(Behind(o, 1), d) = Behind(o, d + 1)
  BY <1>1 DEF Behind
<1> QED
  BY <1>2, <1>3, <1>4, <1>5, <1>6, <1>7

-----------------------------------------------------------------------------
(* The inductive invariant *)

LoggerTypes ==
  logger \in [lines : [0 .. HistoryLineCount -> Line],
              nextLineIndex : 0 .. HistoryLineCount,
              oldestLineIndex : 0 .. HistoryLineCount,
              indentationCount : Int, logged : Seq(Line),
              level : 0 .. MaxIndentation, draft : Seq(Message), intact : BOOLEAN]

(* The lines from the oldest one on are those that were logged, and behind  *)
(* them is the line that is being formed.                                   *)
LinesAreKept ==
  /\ Logger!Current = [indentation |-> logger.level, text |-> logger.draft]
  /\ Len(logger.logged) = Between(logger.oldestLineIndex, logger.nextLineIndex)
  /\ \A i \in 1 .. Len(logger.logged) :
       logger.lines[Behind(logger.oldestLineIndex, i - 1)] = logger.logged[i]

LoggerInv ==
  /\ LoggerTypes
  /\ logger.indentationCount = logger.level
  /\ logger.intact => LinesAreKept

-----------------------------------------------------------------------------
(* The line being formed is changed; the others stay. *)
LEMMA ChangedLine ==
  ASSUME Logger!LoggerAssumption, LoggerInv, logger.intact,
         NEW line \in Line, NEW level \in 0 .. MaxIndentation,
         NEW draft \in Seq(Message),
         line = [indentation |-> level, text |-> draft],
         LoggerTypes', logger'.indentationCount = logger'.level,
         logger'.level = level, logger'.draft = draft,
         logger'.logged = logger.logged,
         logger'.nextLineIndex = logger.nextLineIndex,
         logger'.oldestLineIndex = logger.oldestLineIndex,
         logger'.lines = [logger.lines EXCEPT ![logger.nextLineIndex] = line]
  PROVE  LoggerInv'
<1> DEFINE n == logger.nextLineIndex  o == logger.oldestLineIndex
<1>1. /\ n \in 0 .. HistoryLineCount /\ o \in 0 .. HistoryLineCount
      /\ logger.lines \in [0 .. HistoryLineCount -> Line]
      /\ logger.logged \in Seq(Line) /\ HistoryLineCount \in Nat
  BY DEF LoggerInv, LoggerTypes, Logger!LoggerAssumption
<1>2. /\ logger'.lines[n] = line
      /\ \A l \in 0 .. HistoryLineCount : l # n => logger'.lines[l] = logger.lines[l]
  BY <1>1
<1>3. Len(logger.logged) = Between(o, n) /\ Len(logger.logged) \in Nat
  BY <1>1, LenProperties DEF LoggerInv, LinesAreKept
<1> HIDE DEF n, o
<1>4. ASSUME NEW i \in 1 .. Len(logger.logged)
      PROVE  logger'.lines[Behind(o, i - 1)] = logger.lines[Behind(o, i - 1)]
  <2>1. /\ i - 1 \in 0 .. HistoryLineCount /\ i - 1 < Between(o, n)
        /\ Between(o, n) \in 0 .. HistoryLineCount
    BY <1>1, <1>3 DEF Between
  <2>2. Behind(o, i - 1) # n
    BY <1>1, <2>1 DEF Behind, Between
  <2>3. Behind(o, i - 1) \in 0 .. HistoryLineCount
    BY <1>1, <2>1, NextIndexes
  <2> QED
    BY <1>2, <2>2, <2>3
<1>5. LinesAreKept'
  BY <1>2, <1>3, <1>4 DEF LoggerInv, LinesAreKept, Logger!Current, n, o
<1> QED
  BY <1>5 DEF LoggerInv

(* Lines are indented, unindented and written to. *)
LEMMA FormingKeeps ==
  ASSUME Logger!LoggerAssumption, LoggerInv, logger.intact,
         \/ Logger!Indent \/ Logger!Unindent
         \/ \E message \in Message : Logger!AppendText(message)
  PROVE  LoggerInv'
<1> DEFINE n == logger.nextLineIndex
           level == logger.level
           draft == logger.draft
<1>1. /\ n \in 0 .. HistoryLineCount /\ level \in 0 .. MaxIndentation
      /\ draft \in Seq(Message) /\ MaxIndentation \in Nat
      /\ logger.lines \in [0 .. HistoryLineCount -> Line]
      /\ logger.indentationCount = level
      /\ logger.lines[n] = [indentation |-> level, text |-> draft]
  BY DEF LoggerInv, LoggerTypes, LinesAreKept, Logger!Current,
         Logger!LoggerAssumption
<1>2. ASSUME NEW up \in {1, -1}, level + up \in 0 .. MaxIndentation,
             logger' = [logger EXCEPT
               !.indentationCount = @ + up, !.level = @ + up,
               !.lines[n].indentation = @ + up]
      PROVE  LoggerInv'
  <2> DEFINE line == [indentation |-> level + up, text |-> draft]
  <2>1. line \in Line
    BY <1>1, <1>2 DEF Line
  <2>2. [logger.lines[n] EXCEPT !.indentation = @ + up] = line
    BY <1>1
  <2>3. logger'.lines = [logger.lines EXCEPT ![n] = line]
    BY <1>2, <2>2 DEF LoggerInv, LoggerTypes
  <2> HIDE DEF line
  <2>4. [logger.lines EXCEPT ![n] = line] \in [0 .. HistoryLineCount -> Line]
    BY <1>1, <2>1
  <2>5. LoggerTypes'
    <3> DEFINE new == level + up  lines == [logger.lines EXCEPT ![n] = line]
    <3>1. logger' = [logger EXCEPT !.indentationCount = new, !.level = new,
                                   !.lines = lines]
      BY <1>1, <1>2, <2>2 DEF LoggerInv, LoggerTypes, line
    <3>2. /\ new \in Int /\ new \in 0 .. MaxIndentation
          /\ lines \in [0 .. HistoryLineCount -> Line]
      BY <1>1, <1>2, <2>4
    <3> HIDE DEF new, lines
    <3> QED
      BY <3>1, <3>2 DEF LoggerInv, LoggerTypes
  <2>6. /\ logger'.level = level + up /\ logger'.indentationCount = level + up
        /\ logger'.draft = draft /\ logger'.logged = logger.logged
        /\ logger'.nextLineIndex = n
        /\ logger'.oldestLineIndex = logger.oldestLineIndex
    BY <1>1, <1>2 DEF LoggerInv, LoggerTypes
  <2> QED
    BY <1>1, <1>2, <2>1, <2>3, <2>5, <2>6, ChangedLine DEF line
<1>3. CASE Logger!Indent
  BY <1>1, <1>2, <1>3 DEF Logger!Indent
<1>4. CASE Logger!Unindent
  <2>1. logger' = [logger EXCEPT
               !.indentationCount = @ + -1, !.level = @ + -1,
               !.lines[n].indentation = @ + -1]
    BY <1>1, <1>4 DEF Logger!Unindent
  <2> QED
    BY <1>1, <1>2, <1>4, <2>1 DEF Logger!Unindent
<1>5. ASSUME NEW message \in Message, Logger!AppendText(message)
      PROVE  LoggerInv'
  <2> DEFINE more == Append(draft, message)
             line == [indentation |-> level, text |-> more]
  <2>1. more \in Seq(Message)
    BY <1>1
  <2>2. line \in Line
    BY <1>1, <2>1 DEF Line
  <2>3. [logger.lines[n] EXCEPT !.text = Append(@, message)] = line
    <3> DEFINE c == logger.lines[n]
    <3>1. c = [indentation |-> level, text |-> draft] /\ Append(c.text, message) = more
      BY <1>1
    <3> HIDE DEF c, more
    <3>2. [c EXCEPT !.text = Append(@, message)] = [c EXCEPT !.text = more]
      BY <3>1
    <3>3. [c EXCEPT !.text = more] = line
      BY <3>1
    <3> QED
      BY <3>2, <3>3 DEF c
  <2>4. /\ logger'.lines = [logger.lines EXCEPT ![n] = line]
        /\ logger' = [logger EXCEPT !.draft = more, !.lines = logger'.lines]
    BY <1>5, <2>3 DEF LoggerInv, LoggerTypes, Logger!AppendText
  <2> HIDE DEF line, more
  <2>5. [logger.lines EXCEPT ![n] = line] \in [0 .. HistoryLineCount -> Line]
    BY <1>1, <2>2
  <2>6. LoggerTypes'
    BY <1>1, <2>1, <2>4, <2>5 DEF LoggerInv, LoggerTypes
  <2>7. /\ logger'.level = level /\ logger'.indentationCount = level
        /\ logger'.draft = more /\ logger'.logged = logger.logged
        /\ logger'.nextLineIndex = n
        /\ logger'.oldestLineIndex = logger.oldestLineIndex
    BY <1>1, <2>4 DEF LoggerInv, LoggerTypes
  <2> QED
    BY <1>1, <2>1, <2>2, <2>4, <2>6, <2>7, ChangedLine DEF line
<1> QED
  BY <1>3, <1>4, <1>5

(* The history is forgotten. *)
LEMMA ClearKeeps ==
  ASSUME Logger!LoggerAssumption, LoggerInv, Logger!Clear
  PROVE  LoggerInv'
<1>1. /\ logger' = [logger EXCEPT !.nextLineIndex = 0, !.oldestLineIndex = 0,
                      !.logged = <<>>, !.draft = <<>>,
                      !.intact = @ /\ logger.lines[0] = Logger!Blank]
      /\ logger.indentationCount = 0 /\ logger.level = 0
  BY DEF Logger!Clear, LoggerInv
<1>2. 0 \in 0 .. HistoryLineCount /\ <<>> \in Seq(Message) /\ <<>> \in Seq(Line)
  BY DEF Logger!LoggerAssumption
<1>3. (logger.intact /\ logger.lines[0] = Logger!Blank) \in BOOLEAN
  OBVIOUS
<1>4. LoggerTypes' /\ logger'.indentationCount = logger'.level
  BY <1>1, <1>2, <1>3 DEF LoggerInv, LoggerTypes
<1>5. ASSUME logger'.intact PROVE LinesAreKept'
  <2>1. logger.lines[0] = Logger!Blank
    BY <1>1, <1>5 DEF LoggerInv, LoggerTypes
  <2>2. /\ logger'.nextLineIndex = 0 /\ logger'.oldestLineIndex = 0
        /\ logger'.logged = <<>> /\ logger'.draft = <<>>
        /\ logger'.level = 0 /\ logger'.lines = logger.lines
    BY <1>1 DEF LoggerInv, LoggerTypes
  <2>3. Logger!Current' = [indentation |-> logger'.level, text |-> logger'.draft]
    BY <2>1, <2>2 DEF Logger!Current, Logger!Blank
  <2>4. Len(<<>>) = 0 /\ Between(0, 0) = 0
    BY DEF Between
  <2> QED
    BY <2>2, <2>3, <2>4 DEF LinesAreKept
<1> QED
  BY <1>4, <1>5 DEF LoggerInv

(* A line is completed, and the next one begun. *)
LEMMA LogKeeps ==
  ASSUME Logger!LoggerAssumption, LoggerInv, logger.intact,
         NEW message \in Message, Logger!Log(message)
  PROVE  LoggerInv'
<1> DEFINE n == logger.nextLineIndex
           o == logger.oldestLineIndex
           next == Behind(n, 1)
           oldest == IF next = o THEN Behind(o, 1) ELSE o
           entry == [indentation |-> logger.level,
                     text |-> Append(logger.draft, message)]
           formed == [logger.lines[n] EXCEPT !.text = Append(@, message)]
           begun == [indentation |-> logger.level, text |-> <<>>]
           lines == [l \in 0 .. HistoryLineCount |->
                       IF l = next THEN begun
                       ELSE IF l = n THEN entry ELSE logger.lines[l]]
           kept == Append(logger.logged, entry)
           logged == SubSeq(kept, IF Len(kept) > HistoryLineCount THEN 2 ELSE 1,
                            Len(kept))
<1>1. /\ n \in 0 .. HistoryLineCount /\ o \in 0 .. HistoryLineCount
      /\ logger.level \in 0 .. MaxIndentation /\ MaxIndentation \in Nat
      /\ logger.draft \in Seq(Message) /\ logger.logged \in Seq(Line)
      /\ logger.lines \in [0 .. HistoryLineCount -> Line]
      /\ logger.indentationCount = logger.level
      /\ logger.lines[n] = [indentation |-> logger.level, text |-> logger.draft]
      /\ HistoryLineCount \in Nat /\ HistoryLineCount >= 1
  BY DEF LoggerInv, LoggerTypes, LinesAreKept, Logger!Current,
         Logger!LoggerAssumption
<1>2. /\ next \in 0 .. HistoryLineCount /\ next # n
      /\ oldest \in 0 .. HistoryLineCount
  <2>1. 1 \in 0 .. HistoryLineCount
    BY <1>1
  <2>2. next \in 0 .. HistoryLineCount /\ next # n
    BY <1>1, NextIndexes
  <2>3. Behind(o, 1) \in 0 .. HistoryLineCount
    BY <1>1, <2>1, NextIndexes
  <2> QED
    BY <1>1, <2>2, <2>3
<1>3. /\ (n + 1) % Logger!Size = next
      /\ (o + 1) % Logger!Size = Behind(o, 1)
  <2>1. 1 \in 0 .. HistoryLineCount
    BY <1>1
  <2> QED
    BY <1>1, <2>1, RingIndexes
<1>4. Logger!OldestAfter(next) = oldest
  BY <1>3 DEF Logger!OldestAfter
<1>5. entry \in Line /\ begun \in Line
  <2>1. Append(logger.draft, message) \in Seq(Message) /\ <<>> \in Seq(Message)
    BY <1>1
  <2> QED
    BY <1>1, <2>1 DEF Line
<1>6. kept \in Seq(Line) /\ Len(kept) = Len(logger.logged) + 1
      /\ kept[Len(kept)] = entry
      /\ \A i \in 1 .. Len(logger.logged) : kept[i] = logger.logged[i]
  <2> HIDE DEF entry
  <2> QED
    BY <1>1, <1>5, AppendProperties
<1>7. /\ Len(logger.logged) = Between(o, n) /\ Len(logger.logged) \in Nat
      /\ Len(logger.logged) <= HistoryLineCount
      /\ \A i \in 1 .. Len(logger.logged) :
           logger.lines[Behind(o, i - 1)] = logger.logged[i]
  <2>1. Between(o, n) \in 0 .. HistoryLineCount
    BY <1>1 DEF Between
  <2> QED
    BY <1>1, <2>1 DEF LoggerInv, LinesAreKept
<1>8. [logger.lines EXCEPT ![n] = formed,
                           ![next] = [Logger!Blank EXCEPT !.indentation =
                                        logger.indentationCount]]
        = lines
  <2>1. [Logger!Blank EXCEPT !.indentation = logger.indentationCount] = begun
    BY <1>1 DEF Logger!Blank
  <2>2. formed = entry
    <3> DEFINE c == logger.lines[n]  more == Append(logger.draft, message)
    <3>1. /\ c = [indentation |-> logger.level, text |-> logger.draft]
          /\ Append(c.text, message) = more
      BY <1>1
    <3> HIDE DEF c, more
    <3>2. [c EXCEPT !.text = Append(@, message)] = [c EXCEPT !.text = more]
      BY <3>1
    <3>3. [c EXCEPT !.text = more] = [indentation |-> logger.level, text |-> more]
      BY <3>1
    <3> QED
      BY <3>2, <3>3 DEF c, more
  <2> HIDE DEF begun, entry, formed, next, n
  <2> QED
    BY <1>1, <1>2, <2>1, <2>2
<1>9. logger' = [logger EXCEPT !.lines = lines, !.nextLineIndex = next,
                   !.oldestLineIndex = oldest, !.draft = <<>>, !.logged = logged]
  <2> DEFINE m == (n + 1) % Logger!Size
             new(k) == [logger.lines EXCEPT
                          ![n] = formed,
                          ![k] = [Logger!Blank EXCEPT !.indentation =
                                    logger.indentationCount]]
  <2>1. logger' = [logger EXCEPT
          !.lines = new(m), !.nextLineIndex = m,
          !.oldestLineIndex = Logger!OldestAfter(m),
          !.draft = <<>>, !.logged = logged]
    BY DEF Logger!Log, Logger!Current
  <2>2. m = next
    BY <1>3
  <2>3. new(next) = lines
    BY <1>8
  <2> HIDE DEF new, m, lines, next, oldest, logged
  <2> QED
    BY <1>4, <2>1, <2>2, <2>3
<1>10. lines \in [0 .. HistoryLineCount -> Line] /\ <<>> \in Seq(Message)
  BY <1>1, <1>5
<1> HIDE DEF n, o, next, oldest, entry, begun, lines, kept
<1> DEFINE Kept ==
      /\ logged \in Seq(Line) /\ Len(logged) = Between(oldest, next)
      /\ \A i \in 1 .. Len(logged) : lines[Behind(oldest, i - 1)] = logged[i]
<1>11. ASSUME next = o  PROVE Kept
  <2>1. /\ oldest = Behind(o, 1) /\ Len(logger.logged) = HistoryLineCount
        /\ Between(oldest, next) = HistoryLineCount
    BY <1>1, <1>7, <1>11, NextIndexes DEF oldest, next
  <2>2. /\ logged \in Seq(Line) /\ Len(logged) = HistoryLineCount
        /\ \A i \in 1 .. HistoryLineCount : logged[i] = kept[i + 1]
    BY <1>1, <1>6, <2>1
  <2> HIDE DEF logged
  <2>3. ASSUME NEW i \in 1 .. HistoryLineCount
        PROVE  lines[Behind(oldest, i - 1)] = logged[i]
    <3>1. Behind(oldest, i - 1) = Behind(o, i)
      BY <1>1, <2>1 DEF Behind
    <3>2. Behind(o, HistoryLineCount) = n
      BY <1>1, <1>11 DEF next, Behind
    <3>3. CASE i = HistoryLineCount
      <4>1. lines[n] = entry
        BY <1>1, <1>2 DEF lines
      <4>2. i + 1 = Len(kept) /\ logged[i] = kept[i + 1]
        BY <1>1, <1>6, <2>1, <2>2, <3>3
      <4> QED
        BY <1>6, <3>1, <3>2, <3>3, <4>1, <4>2
    <3>4. CASE i < HistoryLineCount
      <4>1. /\ Behind(o, i) \in 0 .. HistoryLineCount
            /\ Behind(o, i) # o /\ Behind(o, i) # n
        BY <1>1, <1>11, <3>4 DEF next, Behind
      <4>2. lines[Behind(o, i)] = logger.lines[Behind(o, i)]
        BY <1>11, <4>1 DEF lines
      <4>3. i + 1 \in 1 .. Len(logger.logged) /\ i + 1 - 1 = i
        BY <1>1, <2>1, <3>4
      <4>4. logger.lines[Behind(o, i)] = logger.logged[i + 1]
        BY <1>7, <4>3
      <4> QED
        BY <1>6, <2>2, <3>1, <4>2, <4>3, <4>4
    <3> QED
      BY <1>1, <3>3, <3>4
  <2> QED
    BY <2>1, <2>2, <2>3
<1>12. ASSUME next # o  PROVE Kept
  <2>1. /\ oldest = o /\ Between(o, next) = Between(o, n) + 1
        /\ Between(o, next) <= HistoryLineCount
    BY <1>1, <1>12 DEF oldest, next, Behind, Between
  <2>2. /\ logged \in Seq(Line) /\ Len(logged) = Between(o, next)
        /\ \A i \in 1 .. Between(o, next) : logged[i] = kept[i]
    BY <1>1, <1>6, <1>7, <2>1
  <2>3. ASSUME NEW i \in 1 .. Between(o, next)
        PROVE  lines[Behind(oldest, i - 1)] = logged[i]
    <3>1. CASE i = Between(o, next)
      <4>1. Behind(o, i - 1) = n
        BY <1>1, <2>1, <3>1 DEF Behind, Between
      <4> QED
        BY <1>1, <1>2, <1>6, <1>7, <2>1, <2>2, <3>1, <4>1 DEF lines
    <3>2. CASE i # Between(o, next)
      <4>1. i \in 1 .. Len(logger.logged)
        BY <1>7, <2>1, <3>2
      <4>2. /\ Behind(o, i - 1) \in 0 .. HistoryLineCount
            /\ Behind(o, i - 1) # n /\ Behind(o, i - 1) # next
        BY <1>1, <1>7, <1>12, <4>1 DEF Behind, Between, next
      <4>3. lines[Behind(o, i - 1)] = logger.lines[Behind(o, i - 1)]
        BY <4>2 DEF lines
      <4> QED
        BY <1>6, <1>7, <2>1, <2>2, <4>1, <4>3
    <3> QED
      BY <3>1, <3>2
  <2> QED
    BY <2>1, <2>2, <2>3
<1>13. Kept
  BY <1>11, <1>12
<1> HIDE DEF logged
<1>14. LoggerTypes'
  BY <1>2, <1>9, <1>10, <1>13 DEF LoggerInv, LoggerTypes
<1>15. /\ logger'.lines = lines /\ logger'.nextLineIndex = next
       /\ logger'.oldestLineIndex = oldest /\ logger'.logged = logged
       /\ logger'.draft = <<>> /\ logger'.level = logger.level
       /\ logger'.indentationCount = logger.indentationCount
  BY <1>9 DEF LoggerInv, LoggerTypes
<1>16. lines[next] = [indentation |-> logger.level, text |-> <<>>]
  BY <1>2 DEF lines, begun
<1>17. LinesAreKept'
  BY <1>13, <1>15, <1>16 DEF LinesAreKept, Logger!Current
<1> QED
  BY <1>1, <1>14, <1>15, <1>17 DEF LoggerInv

(* Every step keeps the invariant. *)
LEMMA LoggerSteps ==
  ASSUME Logger!LoggerAssumption, LoggerInv, [Logger!Next]_logger
  PROVE  LoggerInv'
<1>1. CASE UNCHANGED logger
  BY <1>1 DEF LoggerInv, LoggerTypes, LinesAreKept, Logger!Current
<1>2. CASE Logger!Next
  BY <1>2, FormingKeeps, ClearKeeps, LogKeeps DEF Logger!Next
<1> QED
  BY <1>1, <1>2

(* It holds in the beginning. *)
LEMMA LoggerBegins ==
  ASSUME Logger!LoggerAssumption, Logger!Init
  PROVE  LoggerInv
<1> DEFINE lines == [l \in 0 .. HistoryLineCount |-> Logger!Blank]
<1>1. HistoryLineCount \in Nat /\ MaxIndentation \in Nat
  BY DEF Logger!LoggerAssumption
<1>2. Logger!Size - 1 = HistoryLineCount
  BY <1>1 DEF Logger!Size
<1>3. /\ <<>> \in Seq(Message) /\ <<>> \in Seq(Line) /\ Len(<<>>) = 0
      /\ 0 \in 0 .. MaxIndentation /\ 0 \in 0 .. HistoryLineCount
  BY <1>1
<1>4. Logger!Blank \in Line
  BY <1>3 DEF Logger!Blank, Line
<1>5. lines \in [0 .. HistoryLineCount -> Line] /\ lines[0] = Logger!Blank
  BY <1>3, <1>4
<1>6. logger = [lines |-> lines, nextLineIndex |-> 0,
                oldestLineIndex |-> 0, indentationCount |-> 0,
                logged |-> <<>>, level |-> 0, draft |-> <<>>, intact |-> TRUE]
  BY <1>2 DEF Logger!Init
<1> HIDE DEF lines
<1>7. LoggerTypes
  BY <1>3, <1>5, <1>6 DEF LoggerTypes
<1>8. LinesAreKept
  <2>1. Between(0, 0) = 0
    BY DEF Between
  <2> QED
    BY <1>3, <1>5, <1>6, <2>1 DEF LinesAreKept, Logger!Current, Logger!Blank
<1> QED
  BY <1>6, <1>7, <1>8 DEF LoggerInv

(* It holds throughout. *)
LEMMA LoggerAlways == Spec => []LoggerInv
<1>1. Init => LoggerInv
  BY LoggerBegins, DataAssumption DEF Init, DataAssumption
<1>2. LoggerInv /\ [Next]_vars => LoggerInv'
  BY OneAtATime, LoggerSteps, DataAssumption DEF DataAssumption
<1> QED
  BY <1>1, <1>2, PTL DEF Spec

(* The indexes stay inside the history and the indentation of each of its   *)
(* lines within its limits, whatever is logged.                             *)
THEOREM LoggerIsTyped == Spec => []Logger!TypeOK
<1>1. LoggerInv => Logger!TypeOK
  BY DataAssumption DEF LoggerInv, LoggerTypes, Line, Logger!TypeOK, Logger!Size,
         DataAssumption, Logger!LoggerAssumption
<1> QED
  BY <1>1, LoggerAlways, PTL

(* Unless it was cleared while its first line held something, the logger    *)
(* returns the lines that were logged latest, as many as it is to keep, in  *)
(* their order and as they were when they were completed, however often the *)
(* ring of lines has gone round.                                            *)
THEOREM LoggerKeepsLatest == Spec => []Logger!KeepsLatest
<1>1. LoggerInv => Logger!KeepsLatest
  <2> SUFFICES ASSUME LoggerInv, logger.intact
               PROVE  Logger!GetLines = logger.logged
    BY DEF LoggerInv, LinesAreKept, Logger!KeepsLatest
  <2> DEFINE n == logger.nextLineIndex  o == logger.oldestLineIndex
             s == logger.logged
  <2>1. /\ n \in 0 .. HistoryLineCount /\ o \in 0 .. HistoryLineCount
        /\ s \in Seq(Line) /\ HistoryLineCount \in Nat
    BY DataAssumption DEF LoggerInv, LoggerTypes, DataAssumption, Logger!LoggerAssumption
  <2>2. /\ Len(s) = Between(o, n)
        /\ \A i \in 1 .. Len(s) : logger.lines[Behind(o, i - 1)] = s[i]
    BY DEF LoggerInv, LinesAreKept
  <2>3. (n - o) % Logger!Size = Len(s) /\ Between(o, n) \in 0 .. HistoryLineCount
    <3>1. Between(o, n) \in 0 .. HistoryLineCount
      BY <2>1 DEF Between
    <3> QED
      BY <2>1, <2>2, <3>1, RingIndexes, DataAssumption DEF DataAssumption
  <2> HIDE DEF n, o, s
  <2>4. ASSUME NEW i \in 1 .. Len(s)
        PROVE  logger.lines[(o + i - 1) % Logger!Size] = s[i]
    <3>1. i - 1 \in 0 .. HistoryLineCount
      BY <2>1, <2>2, <2>3
    <3>2. (o + (i - 1)) % Logger!Size = Behind(o, i - 1)
      BY <2>1, <3>1, RingIndexes, DataAssumption DEF DataAssumption
    <3>3. o + i - 1 = o + (i - 1)
      BY <2>1, <3>1
    <3> QED
      BY <2>2, <3>2, <3>3
  <2>5. Logger!GetLines = [i \in 1 .. Len(s) |-> s[i]]
    BY <2>3, <2>4 DEF Logger!GetLines, n, o
  <2>6. s = [i \in 1 .. Len(s) |-> s[i]]
    BY <2>1, LenProperties
  <2> QED
    BY <2>5, <2>6 DEF s
<1> QED
  BY <1>1, LoggerAlways, PTL

-----------------------------------------------------------------------------
(* The containers together *)

(* Queues hand out what was put into them, in this order, and keep objects  *)
(* nowhere else; the logger returns the latest lines; and the caches' lists *)
(* are consistent.                                                          *)
THEOREM ContainersAlwaysKeepOrder == Spec => []ContainersKeepOrder
BY RingKeepsOrder, ShiftKeepsOrder, CachesAreConsistent, LoggerKeepsLatest, PTL
DEF ContainersKeepOrder

-----------------------------------------------------------------------------
(* Places in a list of delegates *)

(* Where a delegate is in a list, behind the first "from" places, and how   *)
(* often that is                                                            *)
Places(list, d, from) == {i \in from + 1 .. Len(list) : Event!Equal(list[i], d)}
Ahead(list, d, from) == Cardinality(Places(list, d, from))
Is(one, d) == IF Event!Equal(one, d) THEN 1 ELSE 0

(* Times() counts all places. *)
LEMMA TimesIsAhead ==
  ASSUME NEW list \in Seq(Subscriber), NEW d
  PROVE  Event!Times(list, d) = Ahead(list, d, 0)
<1>1. DOMAIN list = 0 + 1 .. Len(list)
  BY LenProperties
<1> QED
  BY <1>1 DEF Event!Times, Ahead, Places, Event!Cardinality, Cardinality

(* A delegate is in a list finitely often. *)
LEMMA AheadIsCount ==
  ASSUME NEW list, Len(list) \in Nat, NEW d, NEW from \in Nat
  PROVE  /\ IsFiniteSet(Places(list, d, from)) /\ Ahead(list, d, from) \in Nat
         /\ from >= Len(list) => Ahead(list, d, from) = 0
<1>1. IsFiniteSet(from + 1 .. Len(list))
  BY FS_Interval
<1>2. Places(list, d, from) \in SUBSET (from + 1 .. Len(list))
  BY DEF Places
<1>3. IsFiniteSet(Places(list, d, from))
  BY <1>1, <1>2, FS_Subset
<1>4. ASSUME from >= Len(list)  PROVE Places(list, d, from) = {}
  BY <1>4 DEF Places
<1> QED
  BY <1>3, <1>4, FS_CardinalityType, FS_EmptySet DEF Ahead

(* The next place, and those behind it *)
LEMMA AheadStep ==
  ASSUME NEW list, Len(list) \in Nat, NEW d, NEW from \in Nat, from < Len(list)
  PROVE  Ahead(list, d, from) = Ahead(list, d, from + 1) + Is(list[from + 1], d)
<1> DEFINE S == Places(list, d, from + 1)
<1>1. IsFiniteSet(S) /\ Cardinality(S) \in Nat
  BY AheadIsCount DEF Ahead
<1>2. from + 1 \notin S
  BY DEF Places
<1>3. CASE Event!Equal(list[from + 1], d)
  <2>1. Places(list, d, from) = S \cup {from + 1}
    BY <1>3 DEF Places
  <2> HIDE DEF S
  <2> QED
    BY <1>1, <1>2, <1>3, <2>1, FS_AddElement DEF Ahead, Is, S
<1>4. CASE ~Event!Equal(list[from + 1], d)
  <2>1. Places(list, d, from) = S
    BY <1>4 DEF Places
  <2> QED
    BY <1>1, <1>4, <2>1 DEF Ahead, Is
<1> QED
  BY <1>3, <1>4

(* A delegate is put at the end. *)
LEMMA AheadAppend ==
  ASSUME NEW list \in Seq(Subscriber), NEW s \in Subscriber, NEW d,
         NEW from \in 0 .. Len(list)
  PROVE  Ahead(Append(list, s), d, from) = Ahead(list, d, from) + Is(s, d)
<1> DEFINE S == Places(list, d, from)  n == Len(list)  a == Append(list, s)
<1>1. n \in Nat /\ Len(a) = n + 1 /\ a[n + 1] = s /\ \A i \in 1 .. n : a[i] = list[i]
  BY AppendProperties, LenProperties
<1>2. IsFiniteSet(S) /\ Cardinality(S) \in Nat
  BY <1>1, AheadIsCount DEF Ahead
<1>3. n + 1 \notin S
  BY <1>1 DEF Places
<1> HIDE DEF a
<1>4. CASE Event!Equal(s, d)
  <2>1. Places(a, d, from) = S \cup {n + 1}
    BY <1>1, <1>4 DEF Places
  <2> HIDE DEF S
  <2> QED
    BY <1>2, <1>3, <1>4, <2>1, FS_AddElement DEF Ahead, Is, S, a
<1>5. CASE ~Event!Equal(s, d)
  <2>1. Places(a, d, from) = S
    BY <1>1, <1>5 DEF Places
  <2> QED
    BY <1>2, <1>5, <2>1 DEF Ahead, Is, a
<1> QED
  BY <1>4, <1>5

(* The list without its "p"th place, which the last one takes *)
Without(list, p) == SubSeq([list EXCEPT ![p] = list[Len(list)]], 1, Len(list) - 1)

(* What it holds, wherever "p" is *)
LEMMA WithoutHolds ==
  ASSUME NEW list \in Seq(Subscriber), list # <<>>, NEW p
  PROVE  /\ Len(list) \in Nat \ {0}
         /\ Without(list, p) \in Seq(Subscriber)
         /\ Len(Without(list, p)) = Len(list) - 1
         /\ \A i \in 1 .. Len(list) - 1 :
              Without(list, p)[i] = IF i = p THEN list[Len(list)] ELSE list[i]
<1> DEFINE n == Len(list)  e == [list EXCEPT ![p] = list[n]]
<1>1. n \in Nat \ {0} /\ list \in [1 .. n -> Subscriber]
  BY EmptySeq, LenProperties
<1>2. n \in 1 .. n
  BY <1>1
<1> HIDE DEF n
<1>3. \A i \in 1 .. n - 1 : e[i] = IF i = p THEN list[n] ELSE list[i]
  BY <1>1
<1>4. \A i \in 1 .. n - 1 : e[i] \in Subscriber
  BY <1>1, <1>2, <1>3
<1> HIDE DEF e
<1>5. /\ SubSeq(e, 1, n - 1) \in Seq(Subscriber)
      /\ Len(SubSeq(e, 1, n - 1)) = IF 1 <= n - 1 THEN n - 1 - 1 + 1 ELSE 0
      /\ \A i \in 1 .. n - 1 - 1 + 1 : SubSeq(e, 1, n - 1)[i] = e[1 + i - 1]
  <2>1. 1 \in Int /\ n - 1 \in Int
    BY <1>1
  <2> QED
    BY <1>4, <2>1, SubSeqProperties
<1>6. Without(list, p) = SubSeq(e, 1, n - 1)
  BY DEF Without, e, n
<1>7. Len(Without(list, p)) = n - 1
  BY <1>1, <1>5, <1>6
<1>8. ASSUME NEW i \in 1 .. n - 1
      PROVE  Without(list, p)[i] = IF i = p THEN list[n] ELSE list[i]
  <2>1. i \in 1 .. n - 1 - 1 + 1 /\ 1 + i - 1 = i
    BY <1>1
  <2>2. Without(list, p)[i] = e[i]
    BY <1>5, <1>6, <2>1
  <2> QED
    BY <1>3, <2>2
<1> QED
  BY <1>1, <1>5, <1>6, <1>7, <1>8 DEF n

(* What was behind the place that is taken is still ahead. *)
LEMMA AheadWithout ==
  ASSUME NEW list \in Seq(Subscriber), NEW p \in 1 .. Len(list), NEW d
  PROVE  Ahead(Without(list, p), d, p - 1) = Ahead(list, d, p)
<1> DEFINE n == Len(list)  w == Without(list, p)
           M == {i \in p + 1 .. n - 1 : Event!Equal(list[i], d)}
<1>1. n \in Nat /\ p \in Nat /\ 1 <= p /\ p <= n /\ list # <<>>
  BY LenProperties, EmptySeq
<1>2. /\ Len(w) = n - 1
      /\ \A i \in 1 .. n - 1 : w[i] = IF i = p THEN list[n] ELSE list[i]
  BY <1>1, WithoutHolds
<1> HIDE DEF w
<1>3. IsFiniteSet(M) /\ Cardinality(M) \in Nat
  <2>1. M \in SUBSET (p + 1 .. n - 1)
    OBVIOUS
  <2>2. p + 1 \in Int /\ n - 1 \in Int
    BY <1>1
  <2>3. IsFiniteSet(p + 1 .. n - 1)
    BY <2>2, FS_Interval
  <2> HIDE DEF M
  <2> QED
    BY <2>1, <2>3, FS_Subset, FS_CardinalityType
<1>4. p \notin M /\ n \notin M
  BY <1>1
<1>5. Places(w, d, p - 1) = {i \in p .. n - 1 : Event!Equal(w[i], d)}
      /\ Places(list, d, p) = {i \in p + 1 .. n : Event!Equal(list[i], d)}
  <2>1. p - 1 + 1 = p
    BY <1>1
  <2> QED
    BY <1>2, <2>1 DEF Places
<1>6. CASE p = n
  <2>1. Places(w, d, p - 1) = {} /\ Places(list, d, p) = {}
    BY <1>1, <1>5, <1>6
  <2> QED
    BY <2>1 DEF Ahead, w
<1>7. CASE p < n /\ Event!Equal(list[n], d)
  <2>1. Places(w, d, p - 1) = M \cup {p} /\ Places(list, d, p) = M \cup {n}
    BY <1>1, <1>2, <1>5, <1>7
  <2> HIDE DEF M
  <2>2. /\ Cardinality(M \cup {p}) = Cardinality(M) + 1
        /\ Cardinality(M \cup {n}) = Cardinality(M) + 1
    BY <1>3, <1>4, FS_AddElement
  <2> QED
    BY <2>1, <2>2 DEF Ahead, w
<1>8. CASE p < n /\ ~Event!Equal(list[n], d)
  <2>1. Places(w, d, p - 1) = M /\ Places(list, d, p) = M
    BY <1>1, <1>2, <1>5, <1>8
  <2> QED
    BY <2>1 DEF Ahead, w
<1> QED
  BY <1>1, <1>6, <1>7, <1>8
-----------------------------------------------------------------------------
(* Changes of the list *)

(* The list of an event: the capacity says where it lies. *)
IsList(o) ==
  /\ o \in [list : Seq(Subscriber), reserved : Nat, moved : BOOLEAN]
  /\ Event!OnHeap(o) <=> o.reserved > 0
  /\ Event!OnHeap(o) => Len(o.list) <= o.reserved

(* Whatever is subscribed is put at the end, within the capacity. *)
LEMMA SubscribedKeeps ==
  ASSUME Event!EventAssumption, NEW o, IsList(o), NEW d \in Subscriber
  PROVE  /\ IsList(Event!Subscribed(o, d))
         /\ Event!Subscribed(o, d).list = Append(o.list, d)
<1> DEFINE B == BuiltInSubscriberCount  F == CapacityFactor  n == Len(o.list)
           full == n = B
           grows == Event!OnHeap(o) /\ n >= o.reserved
           more == IF full THEN B * F ELSE IF grows THEN o.reserved * 2 ELSE o.reserved
<1>1. /\ B \in Nat /\ B >= 1 /\ F \in Nat /\ F >= 2
      /\ n \in Nat /\ o.reserved \in Nat /\ o.moved \in BOOLEAN
      /\ o.list \in Seq(Subscriber)
  BY LenProperties DEF IsList, Event!EventAssumption
<1>2. Append(o.list, d) \in Seq(Subscriber) /\ Len(Append(o.list, d)) = n + 1
  BY <1>1, AppendProperties
<1>3. Event!Subscribed(o, d) = [list |-> Append(o.list, d), reserved |-> more,
                                moved |-> o.moved \/ full \/ grows]
  BY DEF Event!Subscribed
<1>4. B * F \in Nat /\ B * F >= B + 1
  <2>1. F - 2 \in Nat /\ F = 2 + (F - 2)
    BY <1>1
  <2>2. B * (F - 2) \in Nat
    BY <1>1, <2>1
  <2>3. B * F = B * 2 + B * (F - 2)
    BY <1>1, <2>1
  <2> QED
    BY <1>1, <2>2, <2>3
<1>5. /\ n > B <=> o.reserved > 0
      /\ n > B => n <= o.reserved
  BY DEF IsList, Event!OnHeap
<1>6. more \in Nat /\ (n + 1 > B <=> more > 0) /\ (n + 1 > B => n + 1 <= more)
  <2>1. CASE full
    <3>1. more = B * F
      BY <2>1
    <3> HIDE DEF more
    <3> QED
      BY <1>1, <1>4, <2>1, <3>1
  <2>2. CASE ~full
    BY <1>1, <1>5, <2>2 DEF Event!OnHeap
  <2> QED
    BY <2>1, <2>2
<1> HIDE DEF more, full, grows
<1>7. (o.moved \/ full \/ grows) \in BOOLEAN
  BY <1>1
<1> QED
  BY <1>2, <1>3, <1>6, <1>7 DEF IsList, Event!OnHeap

(* Whatever is unsubscribed makes room for the last one, if it is there. *)
LEMMA UnsubscribedKeeps ==
  ASSUME Event!EventAssumption, NEW o, IsList(o), NEW d
  PROVE  /\ IsList(Event!Unsubscribed(o, d))
         /\ Len(Event!Unsubscribed(o, d).list) <= Len(o.list)
         /\ Places(o.list, d, 0) = {} => Event!Unsubscribed(o, d) = o
         /\ \A p \in 1 .. Len(o.list) :
              Places(o.list, d, 0) = {p} =>
                Event!Unsubscribed(o, d).list = Without(o.list, p)
<1> DEFINE B == BuiltInSubscriberCount  n == Len(o.list)
           u == Event!Unsubscribed(o, d)  found == Places(o.list, d, 0)
           m == Event!Min(found)
<1>1. /\ B \in Nat /\ n \in Nat /\ o.reserved \in Nat /\ o.moved \in BOOLEAN
      /\ o.list \in Seq(Subscriber)
  BY LenProperties DEF IsList, Event!EventAssumption
<1>2. found = {i \in 1 .. n : Event!Equal(o.list[i], d)}
  BY DEF Places
<1>3. found = {} => u = o
  BY <1>2 DEF Event!Unsubscribed
<1>4. ASSUME found # {}
      PROVE  u = [list |-> Without(o.list, m),
                  reserved |-> IF n - 1 > B THEN o.reserved ELSE 0,
                  moved |-> o.moved \/ n - 1 = B]
  BY <1>2, <1>4 DEF Event!Unsubscribed, Without
<1>5. ASSUME found # {}
      PROVE  /\ n >= 1 /\ Without(o.list, m) \in Seq(Subscriber)
             /\ Len(Without(o.list, m)) = n - 1
  <2>1. o.list # <<>>
    BY <1>1, <1>2, <1>5
  <2> QED
    BY <1>1, <2>1, WithoutHolds
<1>6. ASSUME NEW p \in 1 .. n, found = {p}  PROVE m = p
  BY <1>1, <1>6 DEF Event!Min
<1>7. n > B => o.reserved > 0 /\ n <= o.reserved
  BY DEF IsList, Event!OnHeap
<1> HIDE DEF m, found
<1>8. IsList(u) /\ Len(u.list) <= n
  <2>1. CASE found = {}
    BY <1>1, <1>3, <2>1
  <2>2. CASE found # {}
    <3> DEFINE w == Without(o.list, m)  r == IF n - 1 > B THEN o.reserved ELSE 0
               moved == o.moved \/ n - 1 = B
    <3>1. u = [list |-> w, reserved |-> r, moved |-> moved] /\ moved \in BOOLEAN
      BY <1>1, <1>4, <2>2
    <3>2. w \in Seq(Subscriber) /\ Len(w) = n - 1 /\ n >= 1
      BY <1>5, <2>2
    <3>3. r \in Nat /\ (n - 1 > B <=> r > 0) /\ (n - 1 > B => n - 1 <= r)
      BY <1>1, <1>7
    <3> HIDE DEF w, r, moved, u
    <3> QED
      BY <1>1, <3>1, <3>2, <3>3 DEF IsList, Event!OnHeap
  <2> QED
    BY <2>1, <2>2
<1>9. ASSUME NEW p \in 1 .. n, found = {p}  PROVE u.list = Without(o.list, p)
  BY <1>4, <1>6, <1>9
<1> QED
  BY <1>3, <1>8, <1>9 DEF found
(* A change keeps the list one, and makes it longer by what it adds at most. *)
LEMMA ChangedKeeps ==
  ASSUME Event!EventAssumption, NEW o, IsList(o), NEW d \in Subscriber,
         NEW change \in Event!Change(d)
  PROVE  LET after == Event!Changed(o, change)
             joins == Event!Addition(change)
         IN /\ IsList(after) /\ joins \in Seq(Subscriber)
            /\ Len(after.list) <= Len(o.list) + Len(joins)
<1>1. o.list \in Seq(Subscriber) /\ Len(o.list) \in Nat
  BY LenProperties DEF IsList
<1>2. <<>> \in Seq(Subscriber) /\ Len(<<>>) = 0
  BY EmptySeq
<1>3. CASE change.does = "subscribe"
  <2>1. change.who \in Subscriber
    BY <1>3 DEF Event!Change
  <2>2. <<change.who>> \in Seq(Subscriber) /\ Len(<<change.who>>) = 1
    BY <2>1
  <2>3. /\ Event!Changed(o, change) = Event!Subscribed(o, change.who)
        /\ Event!Addition(change) = <<change.who>>
    BY <1>3 DEF Event!Changed, Event!Addition
  <2>4. Len(Append(o.list, change.who)) = Len(o.list) + 1
    BY <1>1, <2>1, AppendProperties
  <2> QED
    BY <1>1, <2>1, <2>2, <2>3, <2>4, SubscribedKeeps
<1>4. CASE change.does = "unsubscribe"
  <2>1. /\ Event!Changed(o, change) = Event!Unsubscribed(o, change.who)
        /\ Event!Addition(change) = <<>>
    BY <1>4 DEF Event!Changed, Event!Addition
  <2> QED
    BY <1>1, <1>2, <2>1, UnsubscribedKeeps
<1>5. CASE change.does = "nothing"
  <2>1. Event!Changed(o, change) = o /\ Event!Addition(change) = <<>>
    BY <1>5 DEF Event!Changed, Event!Addition
  <2> QED
    BY <1>1, <1>2, <2>1
<1> QED
  BY <1>3, <1>4, <1>5 DEF Event!Change

(* How many places of a delegate a change adds *)
Plus(change, d) == IF change.does = "subscribe" THEN Is(change.who, d) ELSE 0

(* A callback that does not unsubscribe itself adds to the list what it     *)
(* subscribes, and only then the list can move.                             *)
LEMMA JoiningAdds ==
  ASSUME Event!EventAssumption, NEW o, IsList(o), NEW d \in Subscriber,
         NEW change \in Event!Change(d), change.does # "unsubscribe"
  PROVE  LET after == Event!Changed(o, change)
             joins == Event!Addition(change)
         IN /\ after.list = o.list \o joins
            /\ after.moved # o.moved => Len(joins) >= 1
            /\ \A s \in Seq(Subscriber), e \in Subscriber :
                 \A from \in 0 .. Len(s) :
                   Ahead(s \o joins, e, from) = Ahead(s, e, from) + Plus(change, e)
<1>1. o.list \in Seq(Subscriber)
  BY DEF IsList
<1>2. CASE change.does = "subscribe"
  <2>1. change.who \in Subscriber
    BY <1>2 DEF Event!Change
  <2>2. /\ Event!Changed(o, change) = Event!Subscribed(o, change.who)
        /\ Event!Addition(change) = <<change.who>>
    BY <1>2 DEF Event!Changed, Event!Addition
  <2>3. \A s \in Seq(Subscriber) : s \o <<change.who>> = Append(s, change.who)
    BY <2>1, AppendIsConcat
  <2>4. ASSUME NEW s \in Seq(Subscriber), NEW e \in Subscriber,
               NEW from \in 0 .. Len(s)
        PROVE  Ahead(s \o <<change.who>>, e, from) = Ahead(s, e, from) + Is(change.who, e)
    BY <2>1, <2>3, AheadAppend
  <2>5. Len(<<change.who>>) = 1
    OBVIOUS
  <2>6. Event!Changed(o, change).list = o.list \o Event!Addition(change)
    BY <1>1, <2>1, <2>2, <2>3, SubscribedKeeps
  <2>7. \A e : Plus(change, e) = Is(change.who, e)
    BY <1>2 DEF Plus
  <2> QED
    BY <2>2, <2>4, <2>5, <2>6, <2>7
<1>3. CASE change.does = "nothing"
  <2>1. Event!Changed(o, change) = o /\ Event!Addition(change) = <<>>
    BY <1>3 DEF Event!Changed, Event!Addition
  <2>2. \A s \in Seq(Subscriber) : s \o <<>> = s
    BY ConcatEmptySeq
  <2>3. ASSUME NEW s \in Seq(Subscriber), NEW e \in Subscriber,
               NEW from \in 0 .. Len(s)
        PROVE  Ahead(s \o <<>>, e, from) = Ahead(s, e, from) + 0
    <3>1. Len(s) \in Nat
      BY LenProperties
    <3>2. Ahead(s, e, from) \in Nat
      BY <3>1, AheadIsCount
    <3> QED
      BY <2>2, <3>2
  <2> QED
    BY <1>1, <1>3, <2>1, <2>2, <2>3 DEF Plus
<1> QED
  BY <1>2, <1>3 DEF Event!Change

(* The same of both changes that a callback makes *)
LEMMA BothJoiningAdd ==
  ASSUME Event!EventAssumption, NEW o, IsList(o), NEW d \in Subscriber,
         NEW first \in Event!Change(d), NEW second \in Event!Change(d),
         first.does # "unsubscribe", second.does # "unsubscribe"
  PROVE  LET after == Event!Changed(Event!Changed(o, first), second)
             joins == Event!Addition(first) \o Event!Addition(second)
         IN /\ after.list = o.list \o joins
            /\ after.moved # o.moved => Len(joins) >= 1
            /\ \A s \in Seq(Subscriber), e \in Subscriber :
                 \A from \in 0 .. Len(s) :
                   Ahead(s \o joins, e, from)
                     = Ahead(s, e, from) + Plus(first, e) + Plus(second, e)
<1> DEFINE one == Event!Changed(o, first)  other == Event!Changed(one, second)
           a == Event!Addition(first)  b == Event!Addition(second)
<1>1. IsList(one) /\ o.list \in Seq(Subscriber) /\ a \in Seq(Subscriber)
  BY ChangedKeeps DEF IsList
<1>2. b \in Seq(Subscriber)
  BY <1>1, ChangedKeeps
<1>3. /\ one.list = o.list \o a /\ (one.moved # o.moved => Len(a) >= 1)
      /\ \A s \in Seq(Subscriber), e \in Subscriber : \A from \in 0 .. Len(s) :
           Ahead(s \o a, e, from) = Ahead(s, e, from) + Plus(first, e)
  BY JoiningAdds
<1>4. /\ other.list = one.list \o b /\ (other.moved # one.moved => Len(b) >= 1)
      /\ \A s \in Seq(Subscriber), e \in Subscriber : \A from \in 0 .. Len(s) :
           Ahead(s \o b, e, from) = Ahead(s, e, from) + Plus(second, e)
  BY <1>1, JoiningAdds
<1> HIDE DEF one, other, a, b
<1>5. \A s \in Seq(Subscriber) : s \o (a \o b) = (s \o a) \o b
  BY <1>1, <1>2, ConcatAssociative
<1>6. other.list = o.list \o (a \o b)
  BY <1>1, <1>3, <1>4, <1>5
<1>7. Len(a \o b) = Len(a) + Len(b) /\ Len(a) \in Nat /\ Len(b) \in Nat
  BY <1>1, <1>2, ConcatProperties, LenProperties
<1>8. other.moved # o.moved => Len(a \o b) >= 1
  BY <1>3, <1>4, <1>7
<1>9. ASSUME NEW s \in Seq(Subscriber), NEW e \in Subscriber, NEW from \in 0 .. Len(s)
      PROVE  Ahead(s \o (a \o b), e, from)
               = Ahead(s, e, from) + Plus(first, e) + Plus(second, e)
  <2>1. /\ s \o a \in Seq(Subscriber) /\ Len(s \o a) = Len(s) + Len(a)
        /\ Len(s) \in Nat
    BY <1>1, ConcatProperties, LenProperties
  <2>2. from \in 0 .. Len(s \o a)
    BY <1>7, <2>1
  <2>3. Ahead((s \o a) \o b, e, from) = Ahead(s \o a, e, from) + Plus(second, e)
    BY <1>4, <2>1, <2>2
  <2>4. Ahead(s \o a, e, from) = Ahead(s, e, from) + Plus(first, e)
    BY <1>3
  <2> QED
    BY <1>5, <2>3, <2>4
<1> QED
  BY <1>6, <1>8, <1>9 DEF one, other, a, b

(* A callback that unsubscribes itself, in one change or the other or both, *)
(* and does nothing else, takes its delegate out of the place it was called *)
(* from, unless that has other places.                                      *)
LEMMA LeavingTakesOut ==
  ASSUME Event!EventAssumption, NEW o, IsList(o), NEW d \in Subscriber,
         NEW first \in Event!Change(d), NEW second \in Event!Change(d),
         first.does # "subscribe", second.does # "subscribe",
         "unsubscribe" \in {first.does, second.does},
         NEW p \in 1 .. Len(o.list), o.list[p] = d, Ahead(o.list, d, 0) <= 1
  PROVE  Event!Changed(Event!Changed(o, first), second).list = Without(o.list, p)
<1> DEFINE n == Len(o.list)
           gone == Event!Unsubscribed(o, d)
           w == Without(o.list, p)
<1>1. o.list \in Seq(Subscriber) /\ n \in Nat
  BY LenProperties DEF IsList
<1>2. Event!Equal(d, d)
  BY DEF Event!Equal
<1>3. Places(o.list, d, 0) = {p}
  <2> DEFINE S == Places(o.list, d, 0)
  <2>1. IsFiniteSet(S) /\ Cardinality(S) \in Nat /\ Cardinality(S) <= 1
    BY <1>1, AheadIsCount DEF Ahead
  <2>2. p \in S
    BY <1>1, <1>2 DEF Places
  <2> HIDE DEF S
  <2>3. {p} \in SUBSET S /\ Cardinality({p}) = 1
    BY <2>2, FS_Singleton
  <2>4. Cardinality({p}) <= Cardinality(S)
    BY <2>1, <2>3, FS_Subset
  <2>5. Cardinality(S) = Cardinality({p})
    BY <2>1, <2>3, <2>4
  <2> QED
    BY <2>1, <2>3, <2>5, FS_Subset DEF S
<1>4. IsList(gone) /\ gone.list = w
  BY <1>1, <1>3, UnsubscribedKeeps
<1>5. Event!Unsubscribed(gone, d) = gone
  <2>1. o.list # <<>>
    BY <1>1, EmptySeq
  <2>2. /\ Len(w) = n - 1
        /\ \A i \in 1 .. n - 1 : w[i] = IF i = p THEN o.list[n] ELSE o.list[i]
    BY <1>1, <2>1, WithoutHolds
  <2>3. \A i \in 1 .. n : Event!Equal(o.list[i], d) => i = p
    BY <1>1, <1>3 DEF Places
  <2>4. \A i \in 1 .. n - 1 : ~Event!Equal(w[i], d)
    BY <1>1, <2>2, <2>3
  <2>5. Places(w, d, 0) = {}
    BY <2>2, <2>4 DEF Places
  <2> QED
    BY <1>4, <2>5, UnsubscribedKeeps
<1>6. ASSUME NEW any, NEW change \in Event!Change(d), change.does # "subscribe"
      PROVE  Event!Changed(any, change)
               = IF change.does = "unsubscribe" THEN Event!Unsubscribed(any, d) ELSE any
  BY <1>6 DEF Event!Change, Event!Changed
<1> HIDE DEF gone, w
<1>7. Event!Changed(Event!Changed(o, first), second) = gone
  <2>1. CASE first.does = "unsubscribe"
    <3>1. Event!Changed(o, first) = gone
      BY <1>6, <2>1 DEF gone
    <3> QED
      BY <1>5, <1>6, <3>1
  <2>2. CASE first.does # "unsubscribe"
    <3>1. Event!Changed(o, first) = o /\ second.does = "unsubscribe"
      BY <1>6, <2>2
    <3> QED
      BY <1>6, <3>1 DEF gone
  <2> QED
    BY <2>1, <2>2
<1> QED
  BY <1>4, <1>7 DEF w
-----------------------------------------------------------------------------
(* The inductive invariant of the event *)

Emissions ==
  [active : {TRUE}, index : Nat, known : Nat, loop : {"heap", "stack"},
   outcome : {"running", "thrown", "undefined"}, irregular : BOOLEAN,
   before : Seq(Subscriber), called : Seq(Subscriber), added : Seq(Subscriber),
   left : SUBSET Subscriber]

(* An emission in progress: every delegate has been called, or has its call *)
(* ahead, as often as it was subscribed before or meanwhile.                *)
CallsAddUp ==
  \A d \in Subscriber :
    Ahead(emission.called, d, 0) + Ahead(observers.list, d, emission.index)
      = Ahead(emission.before, d, 0) + Ahead(emission.added, d, 0)

GoesOnRegularly ==
  /\ emission.index <= emission.known
  /\ Len(observers.list) <= Len(emission.before) + Len(emission.added)
  /\ emission.loop = "heap" /\ observers.moved => emission.left # {}
  /\ CallsAddUp

EventTypes ==
  /\ IsList(observers) /\ Len(observers.list) <= MaxSubscribers
  /\ emission \in {Event!NoEmission} \cup Emissions

EventInv ==
  /\ EventTypes
  /\ ~emission.active => ~observers.moved
  /\ emission.active =>
       /\ emission.loop = "heap" <=> Len(emission.before) > BuiltInSubscriberCount
       /\ emission.outcome = "running" => emission.known = Len(observers.list)
       /\ emission.outcome = "running" /\ ~emission.irregular => GoesOnRegularly
       /\ emission.outcome = "undefined" /\ ~emission.irregular =>
            IF emission.loop = "heap" THEN emission.left # {} ELSE emission.added # <<>>
-----------------------------------------------------------------------------
(* The steps of the event *)

(* What a call comes to: both changes of the callback, the list after them  *)
(* and what they add, and what this makes of the event and of the emission  *)
Leaves(first, second) == "unsubscribe" \in {first.does, second.does}

Calls(d, first, second, after, joins, moved, odd) ==
  /\ emission.active /\ emission.outcome = "running"
  /\ emission.index < emission.known /\ Event!Readable
  /\ d = observers.list[emission.index + 1]
  /\ first \in Event!Change(d) /\ second \in Event!Change(d)
  /\ after = Event!Changed(Event!Changed(observers, first), second)
  /\ joins = Event!Addition(first) \o Event!Addition(second)
  /\ Len(observers.list) + Len(joins) <= MaxSubscribers
  /\ moved <=> /\ after.moved
               /\ ~(emission.loop = "heap" /\ Len(after.list) > emission.known)
  /\ odd <=> \/ emission.irregular
             \/ Leaves(first, second) /\ (joins # <<>> \/ Event!Times(observers.list, d) > 1)
  /\ observers' = [list |-> after.list, reserved |-> after.reserved, moved |-> moved]
  /\ emission' =
       [active |-> TRUE,
        index |-> IF Len(after.list) < emission.known THEN emission.index
                  ELSE emission.index + 1,
        known |-> Len(after.list), loop |-> emission.loop, outcome |-> "running",
        irregular |-> odd, before |-> emission.before,
        called |-> Append(emission.called, d), added |-> emission.added \o joins,
        left |-> emission.left \union (IF Leaves(first, second) THEN {d} ELSE {})]

(* It keeps the invariant. *)
LEMMA CalledKeeps ==
  ASSUME Event!EventAssumption, EventInv,
         NEW d, NEW first, NEW second, NEW after, NEW joins,
         NEW moved \in BOOLEAN, NEW odd \in BOOLEAN,
         Calls(d, first, second, after, joins, moved, odd)
  PROVE  EventInv'
<1> DEFINE list == observers.list  n == Len(list)  i == emission.index
           next == IF Len(after.list) < emission.known THEN i ELSE i + 1
           left == emission.left \union (IF Leaves(first, second) THEN {d} ELSE {})
           called == Append(emission.called, d)
           added == emission.added \o joins
<1>1. /\ IsList(observers) /\ list \in Seq(Subscriber) /\ n \in Nat
      /\ n <= MaxSubscribers /\ MaxSubscribers \in Nat
      /\ emission \in Emissions /\ emission.known = n
      /\ i \in Nat /\ i < n /\ BuiltInSubscriberCount \in Nat
  <2>1. /\ emission.active /\ emission.outcome = "running"
        /\ emission.index < emission.known
    BY DEF Calls
  <2>2. emission \in Emissions
    BY <2>1 DEF EventInv, EventTypes, Event!NoEmission
  <2> QED
    BY <2>1, <2>2, LenProperties
    DEF EventInv, EventTypes, IsList, Emissions, Event!EventAssumption
<1>2. /\ i + 1 \in 1 .. n /\ d \in Subscriber /\ list[i + 1] = d
      /\ first \in Event!Change(d) /\ second \in Event!Change(d)
      /\ n + Len(joins) <= MaxSubscribers
  <2>1. i + 1 \in 1 .. n
    BY <1>1
  <2>2. list[i + 1] = d
    BY DEF Calls
  <2> QED
    BY <1>1, <2>1, <2>2, ElementOfSeq DEF Calls
<1>3. /\ IsList(after) /\ after.list \in Seq(Subscriber)
      /\ Len(after.list) \in Nat /\ after.moved \in BOOLEAN
      /\ joins \in Seq(Subscriber) /\ Len(joins) \in Nat
      /\ Len(after.list) <= n + Len(joins)
  <2> DEFINE one == Event!Changed(observers, first)
             a == Event!Addition(first)  b == Event!Addition(second)
             k == Len(one.list)  m == Len(after.list)
  <2>1. /\ IsList(one) /\ a \in Seq(Subscriber) /\ Len(one.list) <= n + Len(a)
    BY <1>1, <1>2, ChangedKeeps
  <2>2. after = Event!Changed(one, second) /\ joins = a \o b
    BY DEF Calls
  <2>3. /\ IsList(after) /\ b \in Seq(Subscriber)
        /\ Len(after.list) <= Len(one.list) + Len(b)
    BY <1>2, <2>1, <2>2, ChangedKeeps
  <2> HIDE DEF one, a, b
  <2>4. joins \in Seq(Subscriber) /\ Len(joins) = Len(a) + Len(b)
        /\ Len(a) \in Nat /\ Len(b) \in Nat
    BY <2>1, <2>2, <2>3, ConcatProperties, LenProperties
  <2>5. /\ Len(one.list) \in Nat /\ Len(after.list) \in Nat
        /\ after.list \in Seq(Subscriber) /\ after.moved \in BOOLEAN
    BY <2>1, <2>3, LenProperties DEF IsList
  <2>6. n \in Nat /\ k <= n + Len(a) /\ m <= k + Len(b)
    BY <1>1, <2>1, <2>3
  <2>7. /\ Len(joins) = Len(a) + Len(b) /\ Len(a) \in Nat /\ Len(b) \in Nat
        /\ k \in Nat /\ m \in Nat
    BY <2>4, <2>5
  <2>8. m <= n + Len(joins) /\ Len(joins) \in Nat
    <3> HIDE DEF n, m, k
    <3> QED
      BY <2>6, <2>7
  <2>9. IsList(after)
    BY <2>3
  <2> QED
    BY <2>4, <2>5, <2>8, <2>9
<1>4. observers' = [list |-> after.list, reserved |-> after.reserved, moved |-> moved]
  BY DEF Calls
<1>5. emission' =
        [active |-> TRUE, index |-> next, known |-> Len(after.list),
         loop |-> emission.loop, outcome |-> "running", irregular |-> odd,
         before |-> emission.before, called |-> called, added |-> added,
         left |-> left]
  BY DEF Calls
<1>6. /\ called \in Seq(Subscriber) /\ added \in Seq(Subscriber)
      /\ Len(added) = Len(emission.added) + Len(joins)
      /\ emission.added \in Seq(Subscriber) /\ emission.called \in Seq(Subscriber)
      /\ emission.before \in Seq(Subscriber) /\ Len(emission.added) \in Nat
      /\ Len(emission.before) \in Nat
  <2>1. /\ emission.added \in Seq(Subscriber) /\ emission.called \in Seq(Subscriber)
        /\ emission.before \in Seq(Subscriber)
    BY <1>1 DEF Emissions
  <2> QED
    BY <1>2, <1>3, <2>1, AppendProperties, ConcatProperties, LenProperties
<1>7. left \in SUBSET Subscriber /\ next \in Nat /\ odd \in BOOLEAN
  <2>1. emission.left \in SUBSET Subscriber /\ emission.irregular \in BOOLEAN
        /\ emission.loop \in {"heap", "stack"}
    BY <1>1 DEF Emissions
  <2> QED
    BY <1>1, <1>2, <1>3, <2>1
<1> HIDE DEF next, left, called, added
<1>8. EventTypes'
  <2>1. Len(after.list) <= MaxSubscribers
    BY <1>1, <1>2, <1>3
  <2>2. IsList(observers')
    BY <1>3, <1>4 DEF IsList, Event!OnHeap
  <2>3. emission' \in Emissions
    BY <1>1, <1>3, <1>5, <1>6, <1>7 DEF Emissions
  <2>4. observers'.list = after.list
    BY <1>4
  <2> QED
    BY <2>1, <2>2, <2>3, <2>4 DEF EventTypes, IsList, Event!OnHeap
<1>9. /\ emission'.active /\ emission'.index = next
      /\ emission'.known = Len(after.list) /\ emission'.loop = emission.loop
      /\ emission'.outcome = "running" /\ (emission'.irregular <=> odd)
      /\ emission'.before = emission.before /\ emission'.called = called
      /\ emission'.added = added /\ emission'.left = left
      /\ observers'.list = after.list /\ (observers'.moved <=> moved)
  <2>1. observers'.list = after.list /\ (observers'.moved <=> moved)
    BY <1>4
  <2> QED
    BY <1>5, <2>1
<1>10. ASSUME ~odd  PROVE GoesOnRegularly'
  <2>1. ~emission.irregular /\ (Leaves(first, second) => joins = <<>> /\ Ahead(list, d, 0) <= 1)
    <3>1. Ahead(list, d, 0) \in Nat /\ Event!Times(list, d) = Ahead(list, d, 0)
      BY <1>1, AheadIsCount, TimesIsAhead
    <3>2. ~emission.irregular
      BY <1>10 DEF Calls
    <3>3. ASSUME Leaves(first, second)  PROVE joins = <<>>
      BY <1>10, <3>3 DEF Calls
    <3>4. ASSUME Leaves(first, second)  PROVE ~(Event!Times(list, d) > 1)
      BY <1>10, <3>4 DEF Calls
    <3>5. ASSUME Leaves(first, second)  PROVE Ahead(list, d, 0) <= 1
      BY <3>1, <3>4, <3>5
    <3> HIDE DEF list
    <3> QED
      BY <3>2, <3>3, <3>5
  <2>2. GoesOnRegularly
    <3>1. emission.active /\ emission.outcome = "running" /\ ~emission.irregular
      BY <2>1 DEF Calls
    <3> QED
      BY <3>1 DEF EventInv
  <2>3. \A e \in Subscriber :
          /\ Ahead(called, e, 0) = Ahead(emission.called, e, 0) + Is(d, e)
          /\ Ahead(list, e, i) = Ahead(list, e, i + 1) + Is(d, e)
    <3>1. 0 \in 0 .. Len(emission.called)
      BY <1>6, LenProperties
    <3> QED
      BY <1>1, <1>2, <1>6, <3>1, AheadAppend, AheadStep DEF called
  <2>4. \A e \in Subscriber :
          /\ Ahead(emission.called, e, 0) \in Nat /\ Ahead(list, e, i + 1) \in Nat
          /\ Ahead(emission.before, e, 0) \in Nat /\ Ahead(emission.added, e, 0) \in Nat
          /\ Is(d, e) \in Nat
    <3>1. Len(emission.called) \in Nat
      BY <1>6, LenProperties
    <3> QED
      BY <1>1, <1>6, <3>1, AheadIsCount DEF Is
  <2>5. CASE ~Leaves(first, second)
    <3>1. /\ first.does # "unsubscribe" /\ second.does # "unsubscribe"
          /\ after = Event!Changed(Event!Changed(observers, first), second)
          /\ joins = Event!Addition(first) \o Event!Addition(second)
      BY <2>5 DEF Calls, Leaves
    <3>2. /\ after.list = list \o joins
          /\ after.moved # observers.moved => Len(joins) >= 1
          /\ \A s \in Seq(Subscriber), e \in Subscriber : \A from \in 0 .. Len(s) :
               Ahead(s \o joins, e, from)
                 = Ahead(s, e, from) + Plus(first, e) + Plus(second, e)
      <4> DEFINE two == Event!Changed(Event!Changed(observers, first), second)
                 both == Event!Addition(first) \o Event!Addition(second)
      <4>1. IsList(observers)
        BY <1>1
      <4>2. two = after /\ both = joins
        BY <3>1
      <4>3. /\ two.list = observers.list \o both
            /\ two.moved # observers.moved => Len(both) >= 1
            /\ \A s \in Seq(Subscriber), e \in Subscriber : \A from \in 0 .. Len(s) :
                 Ahead(s \o both, e, from)
                   = Ahead(s, e, from) + Plus(first, e) + Plus(second, e)
        BY <1>2, <3>1, <4>1, BothJoiningAdd
      <4> HIDE DEF two, both
      <4> QED
        BY <4>2, <4>3
    <3>3. Len(after.list) = n + Len(joins) /\ next = i + 1
      BY <1>1, <1>3, <3>2, ConcatProperties DEF next
    <3>4. i + 1 \in 0 .. n /\ 0 \in 0 .. Len(emission.added)
      BY <1>1, <1>6
    <3>5. ASSUME NEW e \in Subscriber
          PROVE  Ahead(called, e, 0) + Ahead(after.list, e, next)
                   = Ahead(emission.before, e, 0) + Ahead(added, e, 0)
      <4>1. /\ Ahead(after.list, e, i + 1)
                 = Ahead(list, e, i + 1) + Plus(first, e) + Plus(second, e)
            /\ Ahead(added, e, 0)
                 = Ahead(emission.added, e, 0) + Plus(first, e) + Plus(second, e)
        BY <1>1, <1>6, <3>2, <3>4 DEF added
      <4>2. Plus(first, e) \in Nat /\ Plus(second, e) \in Nat
        BY DEF Plus, Is
      <4>3. Ahead(emission.called, e, 0) + Ahead(list, e, i)
              = Ahead(emission.before, e, 0) + Ahead(emission.added, e, 0)
        BY <2>2 DEF GoesOnRegularly, CallsAddUp
      <4> DEFINE x == Ahead(emission.called, e, 0)   y == Ahead(list, e, i + 1)
                 b == Ahead(emission.before, e, 0)   a == Ahead(emission.added, e, 0)
                 o == Is(d, e)  f == Plus(first, e)  g == Plus(second, e)
                 y0 == Ahead(list, e, i)  c == Ahead(called, e, 0)
                 z == Ahead(after.list, e, i + 1)  h == Ahead(added, e, 0)
      <4>4. c = x + o /\ y0 = y + o
        BY <2>3
      <4>5. x \in Nat /\ y \in Nat /\ b \in Nat /\ a \in Nat /\ o \in Nat
        BY <2>4
      <4>6. z = y + f + g /\ h = a + f + g /\ f \in Nat /\ g \in Nat /\ x + y0 = b + a
        BY <4>1, <4>2, <4>3
      <4> HIDE DEF x, y, b, a, o, f, g, y0, c, z, h
      <4>7. c + z = b + h
        BY <4>4, <4>5, <4>6
      <4> QED
        BY <3>3, <4>7 DEF c, z, b, h
    <3>6. CallsAddUp'
      BY <1>9, <3>5 DEF CallsAddUp, Ahead, Places
    <3>7. emission.loop = "heap" /\ moved => left # {}
      <4>1. ASSUME emission.loop = "heap", moved  PROVE FALSE
        <5>1. ~observers.moved
          BY <4>1 DEF Event!Readable, Calls
        <5>2. /\ after.moved
              /\ ~(emission.loop = "heap" /\ Len(after.list) > emission.known)
          BY <4>1 DEF Calls
        <5>3. emission.known = n /\ n \in Nat /\ Len(joins) \in Nat
          BY <1>1, <1>3
        <5>4. Len(joins) >= 1
          BY <3>2, <5>1, <5>2
        <5> QED
          BY <3>3, <4>1, <5>2, <5>3, <5>4
      <4> QED
        BY <4>1
    <3>8. /\ next <= Len(after.list)
          /\ Len(after.list) <= Len(emission.before) + Len(added)
      <4> DEFINE m == Len(after.list)  a == Len(emission.added)
                 b == Len(emission.before)
      <4>1. /\ i \in Nat /\ i < n /\ n \in Nat /\ Len(joins) \in Nat
            /\ Len(added) = a + Len(joins) /\ a \in Nat /\ b \in Nat
        BY <1>1, <1>3, <1>6
      <4>2. n <= b + a
        BY <2>2 DEF GoesOnRegularly
      <4>3. m = n + Len(joins) /\ next = i + 1
        BY <3>3
      <4> HIDE DEF n, m, a, b, i
      <4>4. next <= m /\ m <= b + Len(added)
        BY <4>1, <4>2, <4>3
      <4> QED
        BY <4>4 DEF m, b
    <3> QED
      BY <1>9, <3>6, <3>7, <3>8 DEF GoesOnRegularly
  <2>6. CASE Leaves(first, second)
    <3>1. /\ Leaves(first, second)
          /\ first.does # "subscribe" /\ second.does # "subscribe"
      <4>1. joins = <<>>
        BY <2>1, <2>6
      <4>2. /\ Event!Addition(first) \in Seq(Subscriber)
            /\ Event!Addition(second) \in Seq(Subscriber)
        <5>1. IsList(Event!Changed(observers, first))
          BY <1>1, <1>2, ChangedKeeps
        <5> QED
          BY <1>1, <1>2, <5>1, ChangedKeeps
      <4>3. Event!Addition(first) \o Event!Addition(second) = <<>>
        BY <4>1 DEF Calls
      <4>4. Event!Addition(first) = <<>> /\ Event!Addition(second) = <<>>
        BY <4>2, <4>3, ConcatEqualIffEmpty
      <4> QED
        BY <2>6, <4>4 DEF Event!Addition
    <3>2. after.list = Without(list, i + 1)
      BY <1>1, <1>2, <2>1, <2>6, <3>1, LeavingTakesOut DEF Calls, Leaves
    <3>3. Len(after.list) = n - 1 /\ next = i
      <4>1. list # <<>>
        BY <1>1, EmptySeq
      <4>2. Len(after.list) = n - 1
        BY <1>1, <3>2, <4>1, WithoutHolds
      <4> QED
        BY <1>1, <4>2 DEF next
    <3>4. added = emission.added
      BY <1>6, <2>1, <2>6, ConcatEmptySeq DEF added
    <3>5. ASSUME NEW e \in Subscriber
          PROVE  Ahead(called, e, 0) + Ahead(after.list, e, next)
                   = Ahead(emission.before, e, 0) + Ahead(added, e, 0)
      <4>1. Ahead(after.list, e, i) = Ahead(list, e, i + 1)
        <5>1. i + 1 - 1 = i
          BY <1>1
        <5> QED
          BY <1>1, <1>2, <3>2, <5>1, AheadWithout
      <4>2. Ahead(emission.called, e, 0) + Ahead(list, e, i)
              = Ahead(emission.before, e, 0) + Ahead(emission.added, e, 0)
        BY <2>2 DEF GoesOnRegularly, CallsAddUp
      <4> QED
        BY <2>3, <2>4, <3>3, <3>4, <4>1, <4>2
    <3>6. CallsAddUp'
      BY <1>9, <3>5 DEF CallsAddUp, Ahead, Places
    <3>7. left # {}
      BY <2>6 DEF left
    <3>8. /\ next <= Len(after.list)
          /\ Len(after.list) <= Len(emission.before) + Len(added)
      <4> DEFINE m == Len(after.list)  a == Len(emission.added)
                 b == Len(emission.before)
      <4>1. i \in Nat /\ i < n /\ n \in Nat /\ a \in Nat /\ b \in Nat
        BY <1>1, <1>6
      <4>2. n <= b + a /\ Len(added) = a
        BY <2>2, <3>4 DEF GoesOnRegularly
      <4>3. m = n - 1 /\ next = i
        BY <3>3
      <4> HIDE DEF n, m, a, b, i
      <4>4. next <= m /\ m <= b + Len(added)
        BY <4>1, <4>2, <4>3
      <4> QED
        BY <4>4 DEF m, b
    <3> QED
      BY <1>9, <3>6, <3>7, <3>8 DEF GoesOnRegularly
  <2> QED
    BY <2>5, <2>6
<1>11. emission'.loop = "heap" <=> Len(emission'.before) > BuiltInSubscriberCount
  <2>1. emission.active
    BY DEF Calls
  <2> QED
    BY <1>9, <2>1 DEF EventInv
<1> QED
  BY <1>7, <1>8, <1>9, <1>10, <1>11 DEF EventInv

(* An emission that is interrupted by an exception, or reads what is gone,  *)
(* keeps everything but its outcome.                                        *)
LEMMA EndedKeeps ==
  ASSUME Event!EventAssumption, EventInv, emission.active,
         NEW outcome \in {"thrown", "undefined"},
         emission' = [emission EXCEPT !.outcome = outcome], UNCHANGED observers,
         outcome = "undefined" /\ ~emission.irregular =>
           IF emission.loop = "heap" THEN emission.left # {} ELSE emission.added # <<>>
  PROVE  EventInv'
<1>1. emission \in Emissions
  BY DEF EventInv, EventTypes, Event!NoEmission
<1>2. /\ emission' \in Emissions /\ emission'.active /\ emission'.outcome = outcome
      /\ emission'.loop = emission.loop /\ emission'.before = emission.before
      /\ emission'.irregular = emission.irregular
      /\ emission'.left = emission.left /\ emission'.added = emission.added
  BY <1>1 DEF Emissions
<1>3. EventTypes'
  BY <1>2 DEF EventInv, EventTypes, IsList, Event!OnHeap
<1>4. outcome # "running"
  OBVIOUS
<1> QED
  BY <1>2, <1>3, <1>4 DEF EventInv

(* Unless the emission is irregular, the list has been moved for a reason.  *)
LEMMA GoneForAReason ==
  ASSUME Event!EventAssumption, EventInv, emission.active,
         emission.outcome = "running", ~Event!Readable, ~emission.irregular
  PROVE  IF emission.loop = "heap" THEN emission.left # {} ELSE emission.added # <<>>
<1>1. GoesOnRegularly /\ emission \in Emissions /\ observers.list \in Seq(Subscriber)
  BY DEF EventInv, EventTypes, IsList, Event!NoEmission
<1>2. CASE emission.loop = "heap"
  BY <1>1, <1>2 DEF GoesOnRegularly, Event!Readable
<1>3. CASE emission.loop = "stack"
  <2> DEFINE n == Len(observers.list)  b == Len(emission.before)
             a == Len(emission.added)
  <2>1. n > BuiltInSubscriberCount
    BY <1>3 DEF Event!Readable, Event!OnHeap
  <2>2. ~(b > BuiltInSubscriberCount)
    BY <1>3 DEF EventInv
  <2>3. n <= b + a
    BY <1>1 DEF GoesOnRegularly
  <2>4. emission.before \in Seq(Subscriber) /\ emission.added \in Seq(Subscriber)
    BY <1>1 DEF Emissions
  <2>5. n \in Nat /\ b \in Nat /\ a \in Nat /\ BuiltInSubscriberCount \in Nat
    BY <1>1, <2>4, LenProperties DEF Event!EventAssumption
  <2> HIDE DEF n, b, a
  <2>6. a # 0
    BY <2>1, <2>2, <2>3, <2>5
  <2> QED
    BY <1>3, <2>4, <2>6, EmptySeq DEF a
<1>4. emission.loop = "heap" \/ emission.loop = "stack"
  BY <1>1 DEF Emissions
<1> QED
  BY <1>2, <1>3, <1>4

(* A delegate is called. *)
LEMMA CallNextKeeps ==
  ASSUME Event!EventAssumption, EventInv, Event!CallNext
  PROVE  EventInv'
<1>1. emission.active /\ emission.outcome = "running" /\ emission.index < emission.known
  BY DEF Event!CallNext
<1>2. emission \in Emissions /\ IsList(observers)
  BY <1>1 DEF EventInv, EventTypes, Event!NoEmission
<1> DEFINE d == observers.list[emission.index + 1]
<1>3. CASE ~Event!Readable
  <2>1. emission' = [emission EXCEPT !.outcome = "undefined"] /\ UNCHANGED observers
    BY <1>3 DEF Event!CallNext
  <2> QED
    BY <1>1, <1>3, <2>1, EndedKeeps, GoneForAReason
<1>4. CASE emission' = [emission EXCEPT !.outcome = "thrown"] /\ UNCHANGED observers
  BY <1>1, <1>4, EndedKeeps
<1>5. ASSUME Event!Readable,
             NEW first \in Event!Change(d), NEW second \in Event!Change(d),
             LET after == Event!Changed(Event!Changed(observers, first), second)
                 refreshed == emission.loop = "heap" /\ Len(after.list) > emission.known
                 leaves == "unsubscribe" \in {first.does, second.does}
                 joins == Event!Addition(first) \o Event!Addition(second)
             IN /\ Len(observers.list) + Len(joins) <= MaxSubscribers
                /\ observers' = [after EXCEPT !.moved = @ /\ ~refreshed]
                /\ emission' =
                     [Event!Continue(Len(after.list), emission) EXCEPT
                        !.called = Append(@, d), !.added = @ \o joins,
                        !.left = @ \union (IF leaves THEN {d} ELSE {}),
                        !.irregular =
                          @ \/ (leaves /\ (joins # <<>> \/ Event!Times(observers.list, d) > 1))]
      PROVE  EventInv'
  <2> DEFINE after == Event!Changed(Event!Changed(observers, first), second)
             joins == Event!Addition(first) \o Event!Addition(second)
             refreshed == emission.loop = "heap" /\ Len(after.list) > emission.known
             moved == after.moved /\ ~refreshed
             again == joins # <<>> \/ Event!Times(observers.list, d) > 1
             m == Len(after.list)
             on == Event!Continue(m, emission)
             odd == on.irregular \/ (Leaves(first, second) /\ again)
  <2>1. IsList(after)
    <3>1. d \in Subscriber
      <4> DEFINE n == Len(observers.list)
      <4>1. observers.list \in Seq(Subscriber) /\ emission.known = n
        BY <1>1, <1>2 DEF EventInv, IsList
      <4>2. emission.index \in Nat /\ n \in Nat
        BY <1>2, <4>1, LenProperties DEF Emissions
      <4>3. emission.index + 1 \in 1 .. n
        BY <1>1, <4>1, <4>2
      <4> QED
        BY <4>1, <4>3, ElementOfSeq
    <3>2. IsList(Event!Changed(observers, first))
      BY <1>2, <3>1, ChangedKeeps
    <3> QED
      BY <3>1, <3>2, ChangedKeeps
  <2>2. Len(observers.list) + Len(joins) <= MaxSubscribers
    BY <1>5
  <2>3. observers' = [after EXCEPT !.moved = moved]
    BY <1>5
  <2>4. emission' = [on EXCEPT
                       !.called = Append(@, d), !.added = @ \o joins,
                       !.left = @ \union (IF Leaves(first, second) THEN {d} ELSE {}),
                       !.irregular = odd]
    BY <1>5 DEF Leaves
  <2>5. moved \in BOOLEAN /\ odd \in BOOLEAN
    OBVIOUS
  <2> HIDE DEF after, joins, moved, odd, m, d, on
  <2>6. observers' = [list |-> after.list, reserved |-> after.reserved, moved |-> moved]
    BY <2>1, <2>3, <2>5 DEF IsList
  <2>7. emission' =
          [active |-> TRUE,
           index |-> IF m < emission.known THEN emission.index ELSE emission.index + 1,
           known |-> m, loop |-> emission.loop, outcome |-> "running",
           irregular |-> odd, before |-> emission.before,
           called |-> Append(emission.called, d), added |-> emission.added \o joins,
           left |-> emission.left \union (IF Leaves(first, second) THEN {d} ELSE {})]
    BY <1>1, <1>2, <2>4, <2>5 DEF Emissions, Event!Continue, on
  <2>8. on.irregular = emission.irregular
    BY <1>2 DEF Emissions, Event!Continue, on
  <2>9. Calls(d, first, second, after, joins, moved, odd)
    BY <1>1, <1>5, <2>2, <2>6, <2>7, <2>8 DEF Calls, after, joins, moved, odd, m, d
  <2> QED
    BY <1>5, <2>5, <2>9, CalledKeeps
<1> QED
  BY <1>3, <1>4, <1>5 DEF Event!CallNext

(* The owner subscribes or unsubscribes a delegate. *)
LEMMA OwnerKeeps ==
  ASSUME Event!EventAssumption, EventInv, NEW d \in Subscriber,
         Event!Subscribe(d) \/ Event!Unsubscribe(d)
  PROVE  EventInv'
<1>1. /\ ~emission.active /\ emission' = emission
      /\ IsList(observers) /\ Len(observers.list) <= MaxSubscribers
  BY DEF EventInv, EventTypes, Event!Subscribe, Event!Unsubscribe
<1>2. ASSUME NEW o, IsList(o), Len(o.list) <= MaxSubscribers,
             observers' = [o EXCEPT !.moved = FALSE]
      PROVE  EventInv'
  <2>1. /\ observers' = [list |-> o.list, reserved |-> o.reserved, moved |-> FALSE]
    BY <1>2 DEF IsList
  <2>2. IsList(observers') /\ ~observers'.moved /\ observers'.list = o.list
    BY <1>2, <2>1 DEF IsList, Event!OnHeap
  <2> QED
    BY <1>1, <1>2, <2>2 DEF EventInv, EventTypes, IsList, Event!OnHeap
<1>3. CASE Event!Subscribe(d)
  <2> DEFINE n == Len(observers.list)  o == Event!Subscribed(observers, d)
             m == Len(o.list)
  <2>1. /\ n < MaxSubscribers /\ observers' = [o EXCEPT !.moved = FALSE]
    BY <1>3 DEF Event!Subscribe
  <2>2. IsList(o) /\ o.list = Append(observers.list, d)
    BY <1>1, SubscribedKeeps
  <2>3. observers.list \in Seq(Subscriber) /\ n \in Nat
    BY <1>1, LenProperties DEF IsList
  <2>4. m = n + 1
    BY <2>2, <2>3, AppendProperties
  <2>5. m <= MaxSubscribers
    <3>1. MaxSubscribers \in Nat
      BY DEF Event!EventAssumption
    <3> HIDE DEF n, m
    <3> QED
      BY <2>1, <2>3, <2>4, <3>1
  <2> QED
    BY <1>2, <2>1, <2>2, <2>5
<1>4. CASE Event!Unsubscribe(d)
  <2> DEFINE n == Len(observers.list)  o == Event!Unsubscribed(observers, d)
             m == Len(o.list)
  <2>1. observers' = [o EXCEPT !.moved = FALSE]
    BY <1>4 DEF Event!Unsubscribe
  <2>2. IsList(o) /\ m <= n
    BY <1>1, UnsubscribedKeeps
  <2>3. m \in Nat /\ n \in Nat /\ n <= MaxSubscribers /\ MaxSubscribers \in Nat
    BY <1>1, <2>2, LenProperties DEF IsList, Event!EventAssumption
  <2>4. m <= MaxSubscribers
    <3> HIDE DEF n, m
    <3> QED
      BY <2>2, <2>3
  <2> QED
    BY <1>2, <2>1, <2>2, <2>4
<1> QED
  BY <1>3, <1>4

(* The event is emitted: every call is still ahead. *)
LEMMA EmitKeeps ==
  ASSUME Event!EventAssumption, EventInv, Event!Emit
  PROVE  EventInv'
<1> DEFINE list == observers.list  n == Len(list)
           loop == IF Event!OnHeap(observers) THEN "heap" ELSE "stack"
<1>1. /\ IsList(observers) /\ ~observers.moved /\ observers' = observers
      /\ n <= MaxSubscribers /\ list \in Seq(Subscriber) /\ n \in Nat
  BY LenProperties DEF EventInv, EventTypes, IsList, Event!Emit
<1>2. emission' = [active |-> TRUE, index |-> 0, known |-> n, loop |-> loop,
                   outcome |-> "running", irregular |-> FALSE, before |-> list,
                   called |-> <<>>, added |-> <<>>, left |-> {}]
  BY DEF Event!Emit
<1>3. loop \in {"heap", "stack"} /\ (loop = "heap" <=> n > BuiltInSubscriberCount)
  BY DEF Event!OnHeap
<1>4. <<>> \in Seq(Subscriber) /\ Len(<<>>) = 0
  BY EmptySeq
<1>5. \A d : Ahead(<<>>, d, 0) = 0 /\ Ahead(list, d, 0) \in Nat
  BY <1>1, <1>4, AheadIsCount
<1> HIDE DEF list, n, loop
<1>6. emission' \in Emissions
  BY <1>1, <1>2, <1>3, <1>4 DEF Emissions
<1>7. /\ emission'.active /\ emission'.index = 0 /\ emission'.known = n
      /\ emission'.loop = loop /\ emission'.outcome = "running"
      /\ emission'.before = list /\ emission'.called = <<>>
      /\ emission'.added = <<>>
  BY <1>2
<1>8. EventTypes'
  <2>1. observers'.list = list
    BY <1>1 DEF list
  <2> QED
    BY <1>1, <1>6, <2>1 DEF EventTypes, IsList, Event!OnHeap, n, list
<1>9. GoesOnRegularly'
  <2>1. observers'.list = list /\ ~observers'.moved
    BY <1>1 DEF list
  <2>2. \A d \in Subscriber : Ahead(<<>>, d, 0) + Ahead(list, d, 0)
                                = Ahead(list, d, 0) + Ahead(<<>>, d, 0)
    BY <1>5
  <2>3. CallsAddUp'
    BY <1>7, <2>1, <2>2 DEF CallsAddUp, Ahead, Places
  <2>4. n <= n + 0 /\ 0 <= n /\ Len(list) = n
    BY <1>1 DEF n
  <2> QED
    BY <1>4, <1>7, <2>1, <2>3, <2>4 DEF GoesOnRegularly
<1>10. Len(observers'.list) = n /\ Len(emission'.before) = n
  BY <1>1, <1>7 DEF n, list
<1> QED
  BY <1>3, <1>7, <1>8, <1>9, <1>10 DEF EventInv

(* The emission ends. *)
LEMMA ReturnKeeps ==
  ASSUME Event!EventAssumption, EventInv, Event!Return
  PROVE  EventInv'
<1>1. /\ IsList(observers) /\ Len(observers.list) <= MaxSubscribers
      /\ observers' = [observers EXCEPT !.moved = FALSE] /\ emission' = Event!NoEmission
  BY DEF EventInv, EventTypes, Event!Return
<1>2. IsList(observers') /\ ~observers'.moved /\ observers'.list = observers.list
  BY <1>1 DEF IsList, Event!OnHeap
<1>3. ~emission'.active
  BY <1>1 DEF Event!NoEmission
<1> QED
  BY <1>1, <1>2, <1>3 DEF EventInv, EventTypes, IsList, Event!OnHeap

(* An event that is created is as the invariant says. *)
LEMMA EventBegins == Event!EventAssumption /\ Event!Init => EventInv
<1> SUFFICES ASSUME Event!EventAssumption, Event!Init  PROVE EventInv
  OBVIOUS
<1>1. observers = [list |-> <<>>, reserved |-> 0, moved |-> FALSE]
      /\ emission = Event!NoEmission
  BY DEF Event!Init
<1>2. BuiltInSubscriberCount \in Nat /\ MaxSubscribers \in Nat
  BY DEF Event!EventAssumption
<1>3. <<>> \in Seq(Subscriber) /\ Len(<<>>) = 0
  BY EmptySeq
<1>4. IsList(observers) /\ Len(observers.list) <= MaxSubscribers
  BY <1>1, <1>2, <1>3 DEF IsList, Event!OnHeap
<1>5. ~emission.active /\ ~observers.moved
  BY <1>1 DEF Event!NoEmission
<1> QED
  BY <1>1, <1>4, <1>5 DEF EventInv, EventTypes

(* Every step keeps the invariant. *)
LEMMA EventSteps ==
  ASSUME Event!EventAssumption, EventInv, [Event!Next]_<<observers, emission>>
  PROVE  EventInv'
<1>1. ASSUME NEW d \in Subscriber, Event!Subscribe(d) \/ Event!Unsubscribe(d)
      PROVE  EventInv'
  BY <1>1, OwnerKeeps
<1>2. CASE Event!Emit
  BY <1>2, EmitKeeps
<1>3. CASE Event!CallNext
  BY <1>3, CallNextKeeps
<1>4. CASE Event!Return
  BY <1>4, ReturnKeeps
<1>5. CASE UNCHANGED <<observers, emission>>
  BY <1>5 DEF EventInv, EventTypes, IsList, GoesOnRegularly, CallsAddUp, Ahead, Places,
              Event!OnHeap
<1> QED
  BY <1>1, <1>2, <1>3, <1>4, <1>5 DEF Event!Next

(* The invariant holds throughout. *)
LEMMA EventAlways == Spec => []EventInv
<1>1. Init => EventInv
  BY EventBegins, DataAssumption DEF Init, DataAssumption
<1>2. EventInv /\ [Next]_vars => EventInv'
  BY OneAtATime, EventSteps, DataAssumption DEF DataAssumption
<1> QED
  BY <1>1, <1>2, PTL DEF Spec

(* The event keeps its list within the block that it has reserved, and the  *)
(* emission its place in it.                                                *)
THEOREM EventIsTyped == Spec => []Event!TypeOK
<1>1. ASSUME EventInv  PROVE Event!TypeOK
  <2>1. IsList(observers) /\ Len(observers.list) <= MaxSubscribers
    BY <1>1 DEF EventInv, EventTypes
  <2>2. observers.list \in Event!BoundedSeq(Subscriber, MaxSubscribers)
    <3> DEFINE list == observers.list  n == Len(list)
    <3>1. list \in [1 .. n -> Subscriber] /\ n \in Nat
      BY <2>1, LenProperties DEF IsList
    <3>2. n \in 0 .. MaxSubscribers
      BY <2>1, <3>1, DataAssumption DEF DataAssumption, Event!EventAssumption
    <3> HIDE DEF list, n
    <3> QED
      BY <3>1, <3>2 DEF Event!BoundedSeq, Event!SeqOf, list
  <2>3. emission.active => emission.index \in Nat /\ emission.known \in Nat
    <3>1. ASSUME emission.active  PROVE emission \in Emissions
      BY <1>1, <3>1 DEF EventInv, EventTypes, Event!NoEmission
    <3> QED
      BY <3>1 DEF Emissions
  <2> QED
    BY <2>1, <2>2, <2>3 DEF IsList, Event!TypeOK
<1> QED
  BY <1>1, EventAlways, PTL

(* The loops read memory that is not a delegate only after the list has     *)
(* moved between the event and the heap, or after a callback left in one of *)
(* those ways (Emit() and EmitAndCollect()).                                *)
THEOREM FaultsNeedMoves == Spec => []Event!FaultsOnlyWhenMoved
<1>1. ASSUME EventInv  PROVE Event!FaultsOnlyWhenMoved
  <2> SUFFICES ASSUME emission.active, emission.outcome = "undefined",
                      ~emission.irregular
               PROVE  \/ /\ emission.loop = "stack" /\ emission.added # <<>>
                         /\ Len(emission.before) <= BuiltInSubscriberCount
                      \/ /\ emission.loop = "heap" /\ emission.left # {}
                         /\ Len(emission.before) > BuiltInSubscriberCount
    BY DEF Event!FaultsOnlyWhenMoved
  <2> DEFINE b == Len(emission.before)
  <2>1. emission \in Emissions
    BY <1>1 DEF EventInv, EventTypes, Event!NoEmission
  <2>2. /\ IF emission.loop = "heap" THEN emission.left # {} ELSE emission.added # <<>>
        /\ emission.loop = "heap" <=> b > BuiltInSubscriberCount
    BY <1>1 DEF EventInv
  <2>3. emission.loop = "heap" \/ emission.loop = "stack"
    BY <2>1 DEF Emissions
  <2>4. b <= BuiltInSubscriberCount \/ b > BuiltInSubscriberCount
    <3>1. b \in Nat /\ BuiltInSubscriberCount \in Nat
      BY <2>1, LenProperties, DataAssumption
      DEF Emissions, DataAssumption, Event!EventAssumption
    <3> HIDE DEF b
    <3> QED
      BY <3>1
  <2> HIDE DEF b
  <2> QED
    BY <2>2, <2>3, <2>4 DEF b
<1> QED
  BY <1>1, EventAlways, PTL

(* An emission that reaches its end has called everyone as often as the     *)
(* delegate was subscribed, before or meanwhile, unless a callback left in  *)
(* one of the two ways that the loops do not allow for (Emit() and          *)
(* EmitAndCollect()), and faults as above.                                  *)
THEOREM EmissionReachesAll == Spec => []EmissionReachesSubscribers
<1>1. ASSUME EventInv  PROVE Event!ReachesSubscribers
  <2> SUFFICES ASSUME emission.active, emission.outcome = "running",
                      ~emission.irregular, emission.index >= emission.known,
                      NEW d \in Subscriber
               PROVE  /\ Event!Times(emission.called, d)
                           <= Event!Times(emission.before, d) + Event!Times(emission.added, d)
                      /\ Event!Times(emission.called, d) >= Event!Times(emission.before, d)
    BY DEF Event!ReachesSubscribers
  <2> DEFINE n == Len(observers.list)
  <2>1. /\ GoesOnRegularly /\ emission.known = n /\ emission \in Emissions
        /\ observers.list \in Seq(Subscriber)
    BY <1>1 DEF EventInv, EventTypes, IsList, Event!NoEmission
  <2>2. emission.index \in Nat /\ n \in Nat /\ emission.index >= n
    BY <2>1, LenProperties DEF Emissions
  <2>3. Ahead(observers.list, d, emission.index) = 0
    BY <2>2, AheadIsCount
  <2>4. ASSUME NEW s \in Seq(Subscriber)
        PROVE  Event!Times(s, d) = Ahead(s, d, 0) /\ Ahead(s, d, 0) \in Nat
    <3>1. Len(s) \in Nat
      BY LenProperties
    <3> QED
      BY <3>1, AheadIsCount, TimesIsAhead
  <2>5. /\ emission.called \in Seq(Subscriber) /\ emission.before \in Seq(Subscriber)
        /\ emission.added \in Seq(Subscriber)
    BY <2>1 DEF Emissions
  <2> DEFINE c == Event!Times(emission.called, d)  b == Event!Times(emission.before, d)
             a == Event!Times(emission.added, d)
  <2>6. c \in Nat /\ b \in Nat /\ a \in Nat /\ c + 0 = b + a
    BY <2>1, <2>3, <2>4, <2>5 DEF GoesOnRegularly, CallsAddUp
  <2>7. c <= b + a /\ c >= b
    <3> HIDE DEF c, b, a
    <3> QED
      BY <2>6
  <2> QED
    BY <2>7
<1> QED
  BY <1>1, EventAlways, FaultsNeedMoves, PTL
  DEF EmissionReachesSubscribers, Event!EmissionReachesSubscribers
=============================================================================
