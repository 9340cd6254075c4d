--------------------------- MODULE StringConverter ---------------------------
(* Nuclex::Support::Text::StringConverter (Source/Text/StringConverter.cpp)*)
(* on top of UnicodeHelper (Include/Nuclex/Support/Text/UnicodeHelper.h,    *)
(* Source/Text/UnicodeHelper.cpp): code points, the bytes of UTF-8 and units*)
(* of UTF-16 that encode them, and texts that are converted between         *)
(* encodings. A text is the sequence of its bytes, units or code points.    *)
(* Reading yields the code point and the place behind it, or Invalid and the*)
(* same place.                                                              *)
EXTENDS Integers, SequencesExt, TLC

Invalid == -1  \* char32_t(-1), also what is returned for a length

(* The last code point, 1114111, counts as invalid. *)
IsValidCodePoint(c) == c \in 0..55295 \/ c \in 57344..1114110

(* Some pairs of the tables of upper and lower case characters *)
FoldingTable == (65 :> 97) @@ (66 :> 98) @@ (196 :> 228) @@ (570 :> 11365) @@ (8490 :> 107)

ToFoldedLowercase(c) == IF c \in DOMAIN FoldingTable THEN FoldingTable[c] ELSE c

-----------------------------------------------------------------------------
(* UTF-8 *)

GetSequenceLength(lead) ==
  CASE lead < 128 -> 1
    [] lead \in 192..223 -> 2
    [] lead \in 224..239 -> 3
    [] lead \in 240..247 -> 4
    [] OTHER -> Invalid

CountUtf8Characters(c) ==
  CASE c < 128 -> 1
    [] c \in 128..2047 -> 2
    [] c \in 2048..65535 -> 3
    [] c \in 65536..1114110 -> 4
    [] OTHER -> Invalid

TrailByte(c, shift) == 128 + ((c \div shift) % 64)

(* WriteCodePoint() writes nothing if it refuses the code point. *)
WriteUtf8(c) ==
  CASE c \in 0..127 -> <<c>>
    [] c \in 128..2047 -> <<192 + c \div 64, TrailByte(c, 1)>>
    [] c \in 2048..65535 -> <<224 + c \div 4096, TrailByte(c, 64), TrailByte(c, 1)>>
    [] c \in 65536..1114110 ->
         <<240 + c \div 262144, TrailByte(c, 4096), TrailByte(c, 64), TrailByte(c, 1)>>
    [] OTHER -> <<>>

\* Mutant: one bit of the lead byte's payload is masked out, too.
ReadUtf8Narrow(bytes, i) ==
  LET length == GetSequenceLength(bytes[i])
      trail == SubSeq(bytes, i + 1, i + length - 1)
      payload == IF length = 1 THEN bytes[i] ELSE bytes[i] % 2^(6 - length)
  IN IF length = Invalid \/ i + length - 1 > Len(bytes) THEN [code |-> Invalid, next |-> i]
     ELSE [code |-> FoldLeft(LAMBDA code, byte : 64 * code + (byte % 64), payload, trail),
           next |-> i + length]

(* Neither overlong sequences nor surrogates are refused. *)
ReadUtf8(bytes, i) ==
  LET length == GetSequenceLength(bytes[i])
      trail == SubSeq(bytes, i + 1, i + length - 1)
      payload == IF length = 1 THEN bytes[i] ELSE bytes[i] % 2^(7 - length)
  IN IF length = Invalid \/ i + length - 1 > Len(bytes) \/ \E k \in DOMAIN trail : trail[k] \notin 128..191
     THEN [code |-> Invalid, next |-> i]
     ELSE [code |-> FoldLeft(LAMBDA code, byte : 64 * code + (byte % 64), payload, trail),
           next |-> i + length]

-----------------------------------------------------------------------------
(* UTF-16 *)

(* Every code point from 57344 on is said to take two units. *)
CountUtf16Characters(c) ==
  CASE c < 55296 -> 1
    [] c \in 57344..1114110 -> 2
    [] OTHER -> Invalid

WriteUtf16(c) ==
  CASE c \in 0..65535 -> <<c>>
    [] c \in 65536..1114110 -> <<55296 + (c - 65536) \div 1024, 56320 + (c % 1024)>>
    [] OTHER -> <<>>

ReadUtf16(units, i) ==
  CASE units[i] \notin 55296..57343 -> [code |-> units[i], next |-> i + 1]
    [] units[i] \in 55296..56319 /\ i < Len(units) /\ units[i + 1] \in 56320..57343 ->
         [code |-> 65536 + 1024 * (units[i] % 1024) + (units[i + 1] % 1024), next |-> i + 2]
    [] OTHER -> [code |-> Invalid, next |-> i]

-----------------------------------------------------------------------------
(* What is written is read again, and takes the units that are announced.   *)
(* CountUtf16Characters() is wrong between the surrogates and 65536.        *)
CodePointsSurvive(c) ==
  IsValidCodePoint(c) =>
    /\ ReadUtf8(WriteUtf8(c), 1) = [code |-> c, next |-> CountUtf8Characters(c) + 1]
    /\ GetSequenceLength(WriteUtf8(c)[1]) = CountUtf8Characters(c)
    /\ ReadUtf16(WriteUtf16(c), 1) = [code |-> c, next |-> Len(WriteUtf16(c)) + 1]
    /\ c \notin 57344..65535 => CountUtf16Characters(c) = Len(WriteUtf16(c))

-----------------------------------------------------------------------------
(* Texts *)

(* The code points of a text. At an invalid place the loops of the code do  *)
(* not advance any more, which ends this sequence with Invalid.             *)
Decoded(text, Read(_, _)) ==
  LET from[i \in 1..Len(text) + 1] ==
        IF i > Len(text) THEN <<>>
        ELSE LET step == Read(text, i)
             IN IF step.code = Invalid THEN <<Invalid>> ELSE <<step.code>> \o from[step.next]
  IN from[1]

Encoded(codePoints, Write(_)) ==
  FoldLeft(LAMBDA text, c : text \o Write(c), <<>>, codePoints)

(* CountUtf8CodePoints() only looks at the lead bytes, and fails as a whole *)
(* at the first one that is invalid.                                        *)
CountUtf8CodePoints(bytes) ==
  LET from[i \in 1..Len(bytes) + 4] ==
        IF i > Len(bytes) THEN 0
        ELSE LET length == GetSequenceLength(bytes[i])
             IN IF length = Invalid \/ from[i + length] = Invalid THEN Invalid
                ELSE 1 + from[i + length]
  IN from[1]

Utf16FromUtf8(bytes) == Encoded(Decoded(bytes, ReadUtf8), WriteUtf16)
Utf32FromUtf8(bytes) == Decoded(bytes, ReadUtf8)

(* Code points are written into a string of a size that was guessed, which  *)
(* is doubled when less than five bytes are left, once they are written.    *)
(* What was written behind its end is cleared by then, in the good case.    *)
Utf8InRoom(codePoints, size) ==
  LET written(buffer, c) ==
        LET bytes == buffer.bytes \o WriteUtf8(c)
        IN IF Len(bytes) + 4 < buffer.size THEN [buffer EXCEPT !.bytes = bytes]
           ELSE [bytes |-> [k \in DOMAIN bytes |-> IF k > buffer.size THEN 0 ELSE bytes[k]],
                 size |-> 2 * buffer.size]
  IN FoldLeft(written, [bytes |-> <<>>, size |-> size], codePoints).bytes

Utf8FromUtf16(units) == Utf8InRoom(Decoded(units, ReadUtf16), 2 * Len(units))
Utf8FromUtf32(codePoints) == Utf8InRoom(codePoints, 2 * Len(codePoints))

(* std::wstring holds UTF-16 on Windows and UTF-32 elsewhere. *)
WideFromUtf8(bytes, windows) == IF windows THEN Utf16FromUtf8(bytes) ELSE Utf32FromUtf8(bytes)
Utf8FromWide(text, windows) ==
  Utf8InRoom(IF windows THEN Decoded(text, ReadUtf16) ELSE text, 2 * Len(text) + 2)

FoldedLowercaseFromUtf8(bytes) ==
  Encoded(Decoded(bytes, ReadUtf8), LAMBDA c : WriteUtf8(ToFoldedLowercase(c)))

-----------------------------------------------------------------------------
(* Texts survive the conversions and back. A single character of three or   *)
(* more bytes has no room in what Utf8FromUtf16() and Utf8FromUtf32() guess;*)
(* a text gets longer in lower case only where the table says so for 570.   *)
TextsSurvive(codePoints) ==
  LET bytes == Encoded(codePoints, WriteUtf8)
      units == Encoded(codePoints, WriteUtf16)
      tight == Len(codePoints) = 1 /\ Len(bytes) > 2
  IN /\ Utf16FromUtf8(bytes) = units /\ Utf32FromUtf8(bytes) = codePoints
     /\ Len(units) <= Len(bytes)
     /\ CountUtf8CodePoints(bytes) = Len(codePoints)
     /\ ~tight => Utf8FromUtf16(units) = bytes /\ Utf8FromUtf32(codePoints) = bytes
     /\ \A windows \in BOOLEAN : Utf8FromWide(WideFromUtf8(bytes, windows), windows) = bytes
     /\ 570 \notin ToSet(codePoints) => Len(FoldedLowercaseFromUtf8(bytes)) <= Len(bytes)
=============================================================================
