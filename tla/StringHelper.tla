---------------------------- MODULE StringHelper ----------------------------
(* Nuclex::Support::Text::StringHelper and ParserHelper (Source/Text/       *)
(* StringHelper.cpp, ParserHelper.cpp): texts are cleaned and taken apart.  *)
(* The code reads and writes in place; here texts are sequences of valid    *)
(* code points, and results are new texts or places in them.                *)
EXTENDS Integers, SequencesExt, FiniteSets

Space == 32
LineFeed == 10
CarriageReturn == 13

IsWhitespace(c) ==
  \/ c \in 9..13 \union {Space, 133, 160, 5760, 12288}
  \/ c \in 8192..8202 \union {8232, 8233, 8239, 8287}

(* collapseDuplicateWhitespaceAndTrim() and ...WithoutTrim(): two or more   *)
(* whitespaces in a row become one space. What was not passed yet of a row  *)
(* is "pending".                                                            *)
CollapseDuplicateWhitespace(text, alsoTrim) ==
  LET collapsed(pending) == IF Len(pending) >= 2 THEN <<Space>> ELSE pending
      passed(state, c) ==
        CASE IsWhitespace(c) -> [state EXCEPT !.pending = Append(@, c)]
          [] ~IsWhitespace(c) /\ alsoTrim /\ state.done = <<>> -> [done |-> <<c>>, pending |-> <<>>]
          [] OTHER -> [done |-> Append(state.done \o collapsed(state.pending), c), pending |-> <<>>]
      end == FoldLeft(passed, [done |-> <<>>, pending |-> <<>>], text)
  IN IF alsoTrim THEN end.done ELSE end.done \o collapsed(end.pending)

(* eraseSubstrings(): when the text goes on differently at the victim's last*)
(* code point, all of the victim has been read and counts as found.         *)
EraseSubstrings(text, victim) ==
  LET found(i) == /\ i + Len(victim) - 1 <= Len(text)
                  /\ text[i] = victim[1]
                  /\ \A k \in 2..Len(victim) - 1 : text[i + k - 1] = victim[k]
      from[i \in 1..Len(text) + 1] ==
        CASE i > Len(text) -> <<>>
          [] i <= Len(text) /\ found(i) -> from[i + Len(victim)]
          [] OTHER -> <<text[i]>> \o from[i + 1]
  IN IF victim = <<>> THEN text ELSE from[1]

(* SkipWhitespace() and SkipNonWhitespace(), from place i on *)
SkipWhitespace(text, i) ==
  CHOOSE k \in i..Len(text) + 1 :
    /\ \A m \in i..k - 1 : IsWhitespace(text[m])
    /\ k <= Len(text) => ~IsWhitespace(text[k])
SkipNonWhitespace(text, i) ==
  CHOOSE k \in i..Len(text) + 1 :
    /\ \A m \in i..k - 1 : ~IsWhitespace(text[m])
    /\ k <= Len(text) => IsWhitespace(text[k])

IsBlankOrEmpty(text) == \A k \in DOMAIN text : IsWhitespace(text[k])

(* getTrimmedStringView(): whitespace is taken off the front, then off the  *)
(* end. In UTF-16 the way back also passes U+FC00 to U+FFFF as if they were *)
(* trail units; this is left out.                                           *)
GetTrimmed(text) ==
  LET start == SkipWhitespace(text, 1)
      rest == SubSeq(text, start, Len(text))
  IN Reverse(SubSeq(Reverse(rest), SkipWhitespace(Reverse(rest), 1), Len(rest)))

(* FindWord() leaves "start" in front of the word, not behind it.           *)
FindWord(text, i) ==
  LET start == SkipWhitespace(text, i)
  IN [word |-> SubSeq(text, start, SkipNonWhitespace(text, start) - 1), start |-> start]

(* FindLine() leaves "start" behind the line break. *)
FindLine(text, i) ==
  LET breaks == {k \in i..Len(text) : text[k] \in {LineFeed, CarriageReturn}}
      k == CHOOSE k \in breaks : \A m \in breaks : k <= m
  IN CASE breaks = {} -> [line |-> SubSeq(text, i, Len(text)), start |-> Len(text) + 1]
       [] breaks # {} /\ text[k] = CarriageReturn /\ k < Len(text) /\ text[k + 1] = LineFeed ->
            [line |-> SubSeq(text, i, k - 1), start |-> k + 2]
       [] OTHER -> [line |-> SubSeq(text, i, k - 1), start |-> k + 1]

-----------------------------------------------------------------------------
(* Cleaning changes nothing but whitespace and the victim: what is not      *)
(* whitespace stays in order, no double whitespace is left, and doing it    *)
(* twice is doing it once. The victim is erased wherever it starts, unless  *)
(* the text contains something that differs from it in the end only; then   *)
(* that is erased, too. Line breaks of all kinds end one line each.         *)
CleaningIsRight(text, victim) ==
  LET solid(t) == SelectSeq(t, LAMBDA c : ~IsWhitespace(c))
      at(t, i) == i + Len(victim) - 1 <= Len(t) /\ SubSeq(t, i, i + Len(victim) - 1) = victim
      nearMiss == \E i \in DOMAIN text :
        /\ i + Len(victim) - 1 <= Len(text) /\ ~at(text, i)
        /\ SubSeq(text, i, i + Len(victim) - 2) = SubSeq(victim, 1, Len(victim) - 1)
      erased == EraseSubstrings(text, victim)
      lines == LET from[i \in 1..Len(text) + 1] ==
                     IF i > Len(text) THEN <<>>
                     ELSE LET step == FindLine(text, i) IN <<step.line>> \o from[step.start]
               IN from[1]
      breaks == {k \in DOMAIN text : text[k] \in {LineFeed, CarriageReturn}}
      ends == {k \in breaks : text[k] = CarriageReturn /\ k < Len(text) => text[k + 1] # LineFeed}
  IN /\ \A alsoTrim \in BOOLEAN :
          LET clean == CollapseDuplicateWhitespace(text, alsoTrim)
          IN /\ solid(clean) = solid(text)
             /\ \A k \in 1..Len(clean) - 1 : ~(IsWhitespace(clean[k]) /\ IsWhitespace(clean[k + 1]))
             /\ alsoTrim => clean = GetTrimmed(clean)
             /\ CollapseDuplicateWhitespace(clean, alsoTrim) = clean
     /\ (GetTrimmed(text) = <<>>) <=> IsBlankOrEmpty(text)
     /\ FindWord(text, 1).word = <<>> <=> IsBlankOrEmpty(text)
     /\ victim # <<>> /\ (Len(victim) = 1 \/ ~nearMiss) =>
          /\ (Len(erased) = Len(text)) <=> (\A i \in DOMAIN text : ~at(text, i))
          /\ (Len(text) - Len(erased)) % Len(victim) = 0
          /\ \A c \in ToSet(text) \ ToSet(victim) :
               SelectSeq(erased, LAMBDA d : d = c) = SelectSeq(text, LAMBDA d : d = c)
     /\ Len(lines) = Cardinality(ends) + (IF Len(text) \in breaks \/ text = <<>> THEN 0 ELSE 1)
     /\ FlattenSeq(lines) = SelectSeq(text, LAMBDA c : c \notin {LineFeed, CarriageReturn})
=============================================================================
