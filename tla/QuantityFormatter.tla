-------------------------- MODULE QuantityFormatter --------------------------
(* Numbers as texts for people: how many digits they get (Source/Text/      *)
(* LexicalAppend.cpp, Include/Nuclex/Support/BitTricks.h) and quantities    *)
(* with a unit (Source/Text/QuantityFormatter.cpp). Quantities are integers *)
(* of 32 bits here, which leaves out giga bytes and what is above them.     *)
EXTENDS Integers, Sequences

(* The 32-bit variants of the BitTricks *)
GetLogBase2(n) == CHOOSE k \in 0..30 : 2^k <= n /\ (k = 30 \/ n < 2^(k + 1))

GetUpperPowerOfTwo(n) ==
  LET lowerBound == 2^GetLogBase2(n)
  IN IF n > lowerBound THEN 2 * lowerBound ELSE lowerBound

GetLogBase10(n) ==
  LET guess == ((GetLogBase2(n) + 1) * 1233) \div 4096
  IN IF n < 10^guess THEN guess - 1 ELSE guess

(* countDigits() for the types of 8 and 16 bits, with the minus sign *)
CountDigits(n) ==
  LET size == IF n < 0 THEN -n ELSE n
      digits == CHOOSE d \in 1..5 : (d = 1 \/ 10^(d - 1) <= size) /\ (d = 5 \/ size < 10^d)
  IN IF n < 0 THEN digits + 1 ELSE digits

(* What lexical_append() says it needs for 32 and 64 bits *)
RequiredBytes(n) ==
  CASE n >= 1 -> GetLogBase10(n) + 1
    [] n = 0 -> 1
    [] OTHER -> GetLogBase10(-n) + 2

(* A number of tenths of a unit *)
Quantity(tenths, unit) == [tenths |-> tenths, unit |-> unit]

(* StringFromByteCount(); single bytes have no decimal *)
BinaryByteCount(n) ==
  CASE n < 1000 -> Quantity(10 * n, 1)
    [] n \in 1000..1023935 -> Quantity(((n + 64) * 10) \div 1024, 1024)
    [] OTHER -> Quantity(((n + 65536) * 10) \div 1048576, 1048576)
DecimalByteCount(n) ==
  CASE n < 1000 -> Quantity(10 * n, 1)
    [] n \in 1000..999949 -> Quantity(((n + 50) * 10) \div 1000, 1000)
    [] OTHER -> Quantity(((n + 50000) * 10) \div 1000000, 1000000)

(* StringFromDuration() in its simple format, of seconds *)
SimpleDuration(n) ==
  CASE n < 60 -> Quantity(10 * n, 1)
    [] n \in 60..3596 -> Quantity(((n + 3) * 10) \div 60, 60)
    [] n \in 3597..86219 -> Quantity(((n + 180) * 10) \div 3600, 3600)
    [] n \in 86220..1205279 -> Quantity(((n + 4320) * 10) \div 86400, 86400)
    [] n \in 1205280..4808159 -> Quantity(((n + 30240) * 10) \div 604800, 604800)
    [] n \in 4808160..31490639 -> Quantity(((n + 131760) * 10) \div 2635200, 2635200)
    [] OTHER -> Quantity(((n + 1576800) * 10) \div 31536000, 31536000)

(* The exact format: years, months and days only when there are some. The   *)
(* years are shorter here than in the simple format.                        *)
ExactDuration(n) ==
  LET year == 31490640
      month == 2635200
      day == 86400
      inMonth == IF n >= month THEN (n % year) % month ELSE n
  IN [years |-> IF n >= year THEN n \div year ELSE 0,
      months |-> IF n >= month THEN (n % year) \div month ELSE 0,
      days |-> inMonth \div day, hours |-> (inMonth % day) \div 3600,
      minutes |-> ((inMonth % day) % 3600) \div 60, seconds |-> ((inMonth % day) % 3600) % 60]

-----------------------------------------------------------------------------
(* The digits that are announced are those the number has. A quantity is    *)
(* rounded to the nearest tenth of its unit (byte counts in powers of two   *)
(* are rounded up from three eighths), and never shown as a full next unit, *)
(* nor as less than one. Nothing of a duration is lost in the exact format, *)
(* and no part of it reaches the next one.                                  *)
NumbersAreRight(n) ==
  LET digits == CHOOSE d \in 1..10 : (d = 1 \/ 10^(d - 1) <= n) /\ (d = 10 \/ n < 10^d)
      rounded(q, bias) == /\ 10 * n - q.tenths * q.unit >= -(10 * bias)
                          /\ 10 * n - q.tenths * q.unit < q.unit - 10 * bias
      exact == ExactDuration(n)
      duration == SimpleDuration(n)
  IN /\ n > 0 => 10^GetLogBase10(n) <= n /\ (n < 10^9 => n < 10^(GetLogBase10(n) + 1))
     /\ RequiredBytes(n) = digits /\ (n > 0 => RequiredBytes(-n) = digits + 1)
     /\ n < 32768 => CountDigits(n) = digits /\ (n > 0 => CountDigits(-n) = digits + 1)
     /\ n \in 1..2^29 => /\ GetUpperPowerOfTwo(n) >= n /\ GetUpperPowerOfTwo(n) < 2 * n
                         /\ GetUpperPowerOfTwo(GetUpperPowerOfTwo(n)) = GetUpperPowerOfTwo(n)
     /\ n < 2 * 10^8 =>
          LET binary == BinaryByteCount(n)  decimal == DecimalByteCount(n) IN
          /\ binary.unit > 1 => rounded(binary, (binary.unit \div 1024) * 64)
          /\ decimal.unit > 1 => rounded(decimal, decimal.unit \div 20)
          /\ duration.unit > 1 => rounded(duration, duration.unit \div 20)
          /\ \A q \in {binary, decimal, duration} : n > 0 => q.tenths >= 9
          /\ binary.unit < 1048576 => binary.tenths < 10000
          /\ decimal.unit < 1000000 => decimal.tenths < 10000
          /\ \A limit \in {<<1, 600>>, <<60, 600>>, <<3600, 240>>, <<86400, 140>>,
                           <<604800, 80>>, <<2635200, 120>>} :
               duration.unit = limit[1] => duration.tenths < limit[2]
     /\ 31490640 * exact.years + 2635200 * exact.months + 86400 * exact.days
          + 3600 * exact.hours + 60 * exact.minutes + exact.seconds = n
     /\ exact.months < 12 /\ exact.days < 31 /\ exact.hours < 24 /\ exact.minutes < 60
=============================================================================
