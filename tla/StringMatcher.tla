---------------------------- MODULE StringMatcher ----------------------------
(* Nuclex::Support::Text::StringMatcher (Source/Text/StringMatcher.cpp):    *)
(* texts are compared and searched byte by byte in UTF-8. The outcome is    *)
(* "yes", "no", or "corrupt" where the code throws a CorruptStringError.    *)
EXTENDS StringConverter

Star == 42
AnyOne == 63

(* requireValidCodePoint(), and the case when it does not matter *)
Matchable(c, caseSensitive) == IF caseSensitive THEN c ELSE ToFoldedLowercase(c)

(* areUtf8StringsEqual() *)
AreUtf8StringsEqual(haystack, needle, caseSensitive) ==
  LET from[i \in 1..Len(haystack) + 1, j \in 1..Len(needle) + 1] ==
        IF j > Len(needle) \/ i > Len(haystack)
        THEN IF j > Len(needle) /\ i > Len(haystack) THEN "yes" ELSE "no"
        ELSE LET left == ReadUtf8(haystack, i)  right == ReadUtf8(needle, j)
             IN CASE ~IsValidCodePoint(left.code) \/ ~IsValidCodePoint(right.code) -> "corrupt"
                  [] Matchable(left.code, caseSensitive) = Matchable(right.code, caseSensitive) ->
                       from[left.next, right.next]
                  [] OTHER -> "no"
  IN from[1, 1]

(* Texts of different lengths are never equal, not even if they differ in   *)
(* case only.                                                               *)
AreEqual(left, right, caseSensitive) ==
  IF Len(left) # Len(right) THEN "no" ELSE AreUtf8StringsEqual(left, right, caseSensitive)

(* As many bytes as the beginning has are compared. *)
StartsWith(text, beginning, caseSensitive) ==
  IF Len(text) < Len(beginning) THEN "no"
  ELSE AreUtf8StringsEqual(SubSeq(text, 1, Len(beginning)), beginning, caseSensitive)

(* doesUtf8StringEndWith(), which does not start within a code point *)
EndsWith(text, ending, caseSensitive) ==
  LET start == Len(text) - Len(ending) + 1
  IN IF start < 1 THEN "no"
     ELSE IF start <= Len(text) /\ text[start] \in 128..191 THEN "no"
     ELSE AreUtf8StringsEqual(SubSeq(text, start, Len(text)), ending, caseSensitive)

(* findUtf8Substring(): where the needle starts, 0 if nowhere *)
FindUtf8Substring(haystack, needle, caseSensitive) ==
  LET same(i, j) == Matchable(ReadUtf8(haystack, i).code, caseSensitive)
                      = Matchable(ReadUtf8(needle, j).code, caseSensitive)
      rest[i \in 1..Len(haystack) + 1, j \in 1..Len(needle) + 1] ==
        \/ j > Len(needle)
        \/ i <= Len(haystack) /\ same(i, j) /\ rest[ReadUtf8(haystack, i).next, ReadUtf8(needle, j).next]
      from[i \in 1..Len(haystack) + 1] ==
        CASE i > Len(haystack) -> 0
          [] i <= Len(haystack) /\ rest[i, 1] -> i
          [] OTHER -> from[ReadUtf8(haystack, i).next]
  IN IF needle = <<>> THEN 1 ELSE from[1]

ContainsSubstring(haystack, needle, caseSensitive) == FindUtf8Substring(haystack, needle, caseSensitive) # 0

(* matchUtf8Wildcard(); "behind" is set once a star was read *)
FitsWildcard(text, wildcard, caseSensitive) ==
  LET fits[i \in 1..Len(text) + 1, j \in 1..Len(wildcard) + 1, behind \in BOOLEAN] ==
        IF j > Len(wildcard) THEN behind \/ i > Len(text)
        ELSE LET left == ReadUtf8(text, i)  right == ReadUtf8(wildcard, j) IN
             CASE right.code = Star -> fits[i, right.next, TRUE]
               [] right.code # Star /\ i > Len(text) -> FALSE
               [] right.code # Star /\ i <= Len(text) /\ behind ->
                    fits[i, j, FALSE] \/ fits[left.next, j, TRUE]
               [] OTHER ->
                    /\ right.code = AnyOne
                       \/ Matchable(left.code, caseSensitive) = Matchable(right.code, caseSensitive)
                    /\ fits[left.next, right.next, FALSE]
  IN fits[1, 1, FALSE]

-----------------------------------------------------------------------------
(* What the methods are meant to answer, on code points. A text fits a      *)
(* wildcard if it can be cut into a piece for each of the wildcard's code   *)
(* points. StartsWith() takes as many bytes of the text as the beginning has*)
(* and is corrupt only if they end within a code point. EndsWith() wants a  *)
(* tail that takes as many bytes as the ending does.                        *)
MatchesAreRight(text, pattern) ==
  LET t == Encoded(text, WriteUtf8)
      p == Encoded(pattern, WriteUtf8)
      cut == IF Len(p) > Len(t) THEN t ELSE SubSeq(t, 1, Len(p))
  IN \A caseSensitive \in BOOLEAN :
       LET same(a, b) == Len(a) = Len(b) /\ \A k \in DOMAIN a :
                           Matchable(a[k], caseSensitive) = Matchable(b[k], caseSensitive)
           places == {k \in 1..Len(text) + 1 : k + Len(pattern) <= Len(text) + 1
                        /\ same(SubSeq(text, k, k + Len(pattern) - 1), pattern)}
           place == FindUtf8Substring(t, p, caseSensitive)
       IN /\ (AreEqual(t, p, caseSensitive) = "yes") <=> (same(text, pattern) /\ Len(t) = Len(p))
          /\ ContainsSubstring(t, p, caseSensitive) <=> places # {}
          /\ places # {} => LET least == CHOOSE k \in places : \A l \in places : k <= l
                            IN place = Len(Encoded(SubSeq(text, 1, least - 1), WriteUtf8)) + 1
          /\ (StartsWith(t, p, caseSensitive) = "yes") <=>
               (Len(p) <= Len(t) /\ same(Decoded(cut, ReadUtf8), pattern))
          /\ Invalid \notin ToSet(Decoded(cut, ReadUtf8)) =>
               StartsWith(t, p, caseSensitive) # "corrupt"
          /\ EndsWith(t, p, caseSensitive) # "corrupt"
          /\ (EndsWith(t, p, caseSensitive) = "yes") <=>
               \E k \in 1..Len(text) + 1 :
                 LET tail == SubSeq(text, k, Len(text))
                 IN same(tail, pattern) /\ Len(Encoded(tail, WriteUtf8)) = Len(p)
          /\ FitsWildcard(t, p, caseSensitive) <=>
               \E ends \in [0..Len(pattern) -> 0..Len(text)] :
                 /\ ends[0] = 0 /\ ends[Len(pattern)] = Len(text)
                 /\ \A k \in 1..Len(pattern) :
                      IF pattern[k] = Star THEN ends[k] >= ends[k - 1]
                      ELSE /\ ends[k] = ends[k - 1] + 1
                           /\ pattern[k] = AnyOne \/ same(<<text[ends[k]]>>, <<pattern[k]>>)
=============================================================================
