-------------------------- MODULE IniDocumentModel --------------------------
(* Nuclex::Support::Settings::IniDocumentModel: the lines of an .ini file   *)
(* and an index of its sections and properties (Source/Settings/            *)
(* IniDocumentModel.cpp, IniDocumentModel.FileParser.cpp). The ring of      *)
(* lines, which starts at firstLine, is a sequence; a pointer to a line is  *)
(* its place in it. Lines that hold neither a declaration nor a property are*)
(* "other". The calls that the code mishandles clear "intact".              *)
EXTENDS VariantValue, SequencesExt, TLC

CONSTANTS RootCategory,  \* the default section, which has no declaration
          None,          \* no line, no section, no value
          LetterCount,   \* the length of each word
          Quoted,        \* words that have to be put in quotes
          EscapeCount,   \* characters of each word that have to be escaped
          Remainder,     \* what the parser leaves of a word without quotes
          MaxLines       \* bound: lines of a document that may still grow

VARIABLE document

Dangling == 0  \* a pointer to a line that is gone

DocumentAssumption ==
  /\ None # Dangling /\ None # RootCategory /\ MaxLines \in Nat
  /\ DOMAIN LetterCount = DOMAIN EscapeCount /\ DOMAIN Remainder = DOMAIN LetterCount

Length(text) ==
  CASE text.letters # "" -> LetterCount[text.letters]
    [] text.number < 0 -> IF text.number > -10 THEN 2 ELSE 3
    [] OTHER -> IF text.number < 10 THEN 1 ELSE 2

RequiresQuotes(text) == text.letters \in Quoted
Escapes(text) == IF text.letters = "" THEN 0 ELSE EscapeCount[text.letters]

OtherLine == [kind |-> "other", name |-> None, text |-> EmptyText, room |-> 0,
              hasValue |-> FALSE, hasQuotes |-> FALSE]
SectionLine(c) == [OtherLine EXCEPT !.kind = "section", !.name = c]

(* createPropertyLine(); "room" is the line's ValueLength *)
PropertyLine(p, text) ==
  [kind |-> "property", name |-> p, text |-> text, room |-> Length(text) + Escapes(text),
   hasValue |-> TRUE, hasQuotes |-> RequiresQuotes(text)]

NewSection(line) == [declaration |-> line, last |-> line, properties |-> <<>>]

EmptyDocument ==
  [lines |-> <<>>, sections |-> <<>>, current |-> None, padded |-> FALSE, intact |-> TRUE]

-----------------------------------------------------------------------------
(* The parser *)

(* How a line that was written is read: a value that is empty and not in    *)
(* quotes is none, and one that is not in quotes ends at a comment.         *)
Read(line) ==
  IF line.kind # "property" \/ line.hasQuotes THEN line
  ELSE LET text == IF line.text.letters = "" THEN line.text
                   ELSE Word(Remainder[line.text.letters])
       IN [line EXCEPT !.text = text, !.room = Length(text) + Escapes(text),
                       !.hasValue = Length(text) > 0]

(* generateSectionLine(): the first one stays the declaration line *)
SubmitSection(d, l, c) ==
  [d EXCEPT !.current = c,
            !.sections = IF c \in DOMAIN @ THEN [@ EXCEPT ![c].last = l]
                         ELSE (c :> NewSection(l)) @@ @]

(* generatePropertyLine(): the first line of a property is the one that     *)
(* counts.                                                                  *)
SubmitProperty(d, l, p) ==
  LET c == IF d.current = None THEN RootCategory ELSE d.current
      section == IF c \in DOMAIN d.sections THEN d.sections[c] ELSE NewSection(None)
  IN [d EXCEPT !.current = c, !.sections = (c :>
        [section EXCEPT !.last = IF @ = None THEN l ELSE @,
                        !.properties = @ @@ (p :> l)]) @@ @]

Submit(d, written) ==
  LET e == [d EXCEPT !.lines = Append(@, Read(written))]
  IN CASE written.kind = "section" -> SubmitSection(e, Len(e.lines), written.name)
       [] written.kind = "property" -> SubmitProperty(e, Len(e.lines), written.name)
       [] OTHER -> e

Parsed(lines) == FoldLeft(Submit, EmptyDocument, lines)
Serialize(d) == d.lines

(* GetPropertyValue() *)
Value(d, c, p) ==
  IF c \notin DOMAIN d.sections THEN None
  ELSE IF p \notin DOMAIN d.sections[c].properties THEN None
  ELSE LET line == d.lines[d.sections[c].properties[p]] IN
       IF line.room > 0 THEN line.text ELSE EmptyText

-----------------------------------------------------------------------------
(* The lines *)

(* The section that the lines behind a line belong to *)
InForce(lines, l) ==
  LET declarations == {m \in 1..l : lines[m].kind = "section"}
  IN IF declarations = {} THEN RootCategory
     ELSE lines[CHOOSE m \in declarations : \A n \in declarations : n <= m].name

(* All pointers follow the lines they point to. *)
Moved(sections, move(_)) ==
  [c \in DOMAIN sections |->
     LET pointer(l) == IF l \in {None, Dangling} THEN l ELSE move(l)
         section == sections[c]
     IN [declaration |-> pointer(section.declaration), last |-> pointer(section.last),
         properties |-> [p \in DOMAIN section.properties |-> pointer(section.properties[p])]]]

(* integrateLine() *)
InsertBehind(d, l, line, blank) ==
  LET add(e, at, new) ==
        [e EXCEPT !.lines = InsertAt(@, at, new),
                  !.sections = Moved(@, LAMBDA m : IF m >= at THEN m + 1 ELSE m)]
  IN IF blank THEN add(add(d, l + 1, OtherLine), l + 2, line) ELSE add(d, l + 1, line)

(* A line is taken out of the ring and freed. *)
Unlinked(d, l) ==
  [d EXCEPT !.lines = RemoveAt(@, l),
            !.sections = Moved(@, LAMBDA m : CASE m = l -> Dangling
                                               [] m > l -> m - 1
                                               [] OTHER -> m)]

(* getOrCreateSection() *)
WithSection(d, c) ==
  IF c \in DOMAIN d.sections THEN d
  ELSE IF c = RootCategory THEN [d EXCEPT !.sections = (c :> NewSection(None)) @@ @]
  ELSE LET e == InsertBehind(d, Len(d.lines), SectionLine(c), TRUE)
       IN [e EXCEPT !.sections = (c :> NewSection(Len(e.lines))) @@ @]

\* Mutant: a new property goes to the end of the document.
AddedAtEnd(d, c, p, text) ==
  LET e == InsertBehind(d, Len(d.lines), PropertyLine(p, text), FALSE)
  IN [e EXCEPT !.sections[c].properties = (p :> Len(e.lines)) @@ @]

(* A new property goes behind the line that is remembered as the last one   *)
(* of the section, which may be one of another section or gone. A default   *)
(* section without any line goes to the front.                              *)
Added(d, c, p, text) ==
  LET last == d.sections[c].last
      line == PropertyLine(p, text)
      e == CASE last # None -> InsertBehind(d, last, line, d.padded)
             [] last = None /\ d.padded /\ d.lines # <<>> ->
                  InsertBehind(InsertBehind(d, Len(d.lines), OtherLine, FALSE), 0, line, FALSE)
             [] OTHER -> InsertBehind(d, 0, line, FALSE)
      l == CASE last = None -> 1
             [] OTHER -> IF d.padded THEN last + 2 ELSE last + 1
  IN [e EXCEPT !.sections[c].properties = (p :> l) @@ @,
               !.intact = @ /\ last # Dangling
                            /\ (last = None \/ InForce(d.lines, last) = c)]

(* A new line takes the place of the old one, which is freed. Neither the   *)
(* document nor the section notices that its first or last line is gone.    *)
Replaced(d, c, p, text) ==
  LET l == d.sections[c].properties[p]
  IN [d EXCEPT !.lines[l] = PropertyLine(p, text),
               !.intact = @ /\ l # 1 /\ \A s \in DOMAIN d.sections : d.sections[s].last # l]

(* updateExistingPropertyLine(): ValueLength becomes the length of the      *)
(* value, without what is escaped in it.                                    *)
Updated(d, c, p, text) ==
  [d EXCEPT !.lines[d.sections[c].properties[p]] =
              [@ EXCEPT !.text = text, !.room = Length(text),
                        !.hasQuotes = @ \/ RequiresQuotes(text)],
            !.intact = @ /\ Escapes(text) = 0]

(* A value that is not in quotes and contains the start of a comment is     *)
(* written as it is.                                                        *)
SetPropertyValue(c, p, text) ==
  LET d == WithSection(document, c)
      isNew == p \notin DOMAIN d.sections[c].properties
      line == d.lines[d.sections[c].properties[p]]
      required == Length(text) + (IF RequiresQuotes(text) /\ ~line.hasQuotes THEN 2 ELSE 0)
      e == CASE isNew -> Added(d, c, p, text)
             [] ~isNew /\ line.hasValue /\ line.room >= required -> Updated(d, c, p, text)
             [] OTHER -> Replaced(d, c, p, text)
  IN /\ Len(document.lines) < MaxLines
     /\ document' = [e EXCEPT !.intact = @ /\ (text.letters = "" \/ RequiresQuotes(text)
                                               \/ Remainder[text.letters] = text.letters)]

(* The section's last line becomes the one in front of it in the ring. A    *)
(* second line for the property comes into force again when the document is *)
(* loaded.                                                                  *)
DeleteProperty(c, p) ==
  IF c \notin DOMAIN document.sections THEN UNCHANGED document
  ELSE IF p \notin DOMAIN document.sections[c].properties THEN UNCHANGED document
  ELSE
  LET l == document.sections[c].properties[p]
      d == Unlinked(document, l)
      previous == CASE d.lines = <<>> -> None
                    [] l = 1 -> Len(d.lines)
                    [] OTHER -> l - 1
      twins == {m \in DOMAIN document.lines \ {l} :
                  /\ document.lines[m].kind = "property" /\ document.lines[m].name = p
                  /\ InForce(document.lines, m) = c}
  IN document' =
       [d EXCEPT !.intact = @ /\ twins = {},
                 !.sections[c].last = IF document.sections[c].last = l THEN previous ELSE @,
                 !.sections[c].properties = [q \in DOMAIN @ \ {p} |-> @[q]]]

(* All lines from the declaration to the end of the document are deleted,   *)
(* or none when the section starts with the document's first line.          *)
DeleteSection(c) ==
  IF c \notin DOMAIN document.sections THEN UNCHANGED document
  ELSE
  LET lines == document.lines
      start == IF document.sections[c].declaration = None THEN 1
               ELSE document.sections[c].declaration
      gone == IF start = 1 THEN {} ELSE start..Len(lines)
      d == [document EXCEPT
              !.lines = IF start = 1 THEN @ ELSE SubSeq(@, 1, start - 1),
              !.sections = Moved(@, LAMBDA m : IF m \in gone THEN Dangling ELSE m)]
      harmless == /\ \A l \in gone : InForce(lines, l) = c
                  /\ \A l \in DOMAIN lines \ gone :
                       lines[l].kind = "property" => InForce(lines, l) # c
  IN document' =
       [d EXCEPT !.intact = @ /\ harmless,
                 !.sections = IF c = RootCategory THEN [@ EXCEPT ![c] = NewSection(None)]
                              ELSE [s \in DOMAIN @ \ {c} |-> @[s]]]

(* Documents are read from memory or from a file.                           *)
Load(lines, padded) ==
  document' = [Parsed(lines) EXCEPT !.padded = padded, !.current = None]
=============================================================================
