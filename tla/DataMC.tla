------------------------------- MODULE DataMC -------------------------------
(* Model checking of the components that one thread uses at a time: the     *)
(* queues, the caches, the event, the logger, the variants, the settings    *)
(* stores, and the text algorithms. They do not interact; a behaviour       *)
(* exercises one of them, its subject, and the others stay in their initial *)
(* states. For the text algorithms a behaviour is one input, the sample.    *)
EXTENDS StringMatcher, VariantValue

CONSTANTS
  None,
  InitialCapacity, WordSize, MaxCount, MaxItems, ItemNumbers, \* of the queues
  Slot, Key, CachedValue,                                     \* of the caches
  HistoryLineCount, Message, MaxIndentation, MaxAppended,     \* of the logger
  Subscriber, BuiltInSubscriberCount, CapacityFactor, MaxSubscribers, \* of the event
  TextLength  \* bound: characters of a text

VARIABLES subject, ring, shift, keyed, slotted, observers, emission, logger,
          variants, promised, categories, registry, document, saved, modified,
          sample

-----------------------------------------------------------------------------
(* Containers, and the event with two delegates and one that was emptied    *)

Ring == INSTANCE RingQueue WITH Numbers <- ItemNumbers
Shift == INSTANCE ShiftQueue WITH Numbers <- ItemNumbers
Keyed == INSTANCE KeyedArrayCache WITH Null <- None, Value <- CachedValue
Slotted == INSTANCE SequentialSlotCache WITH Null <- None, Value <- CachedValue
Logger == INSTANCE RollingLogger
Event == INSTANCE Event WITH NoInstance <- None

Delegate == INSTANCE Delegate WITH NoInstance <- None
DelegateA == Delegate!ObjectMethod("a", "method")
DelegateB == Delegate!ObjectMethod("b", "method")
Delegates == {DelegateA, DelegateB, Delegate!Reset(DelegateB)}

-----------------------------------------------------------------------------
(* Variants and settings: integers of a few bits, and texts that need no    *)
(* quotes, need them, have to be escaped, or contain a comment              *)

DataBits ==
  [type \in IntegerTypes |->
     CASE type \in {"Uint8", "Int8"} -> 2   [] type \in {"Uint16", "Int16"} -> 3
       [] type \in {"Uint32", "Int32"} -> 5 [] type \in {"Uint64", "Int64"} -> 6]

Variant == INSTANCE Variant WITH VariantName <- {"v", "w"},
             VariantNumber <- {-8, -2, 0, 1, 5, 12},
             VariantText <- {Numeral(12), Word("true"), EmptyText}

Truths == {Plain("Boolean", 0), Plain("Boolean", 1)}
Texts == {TextValue(text) : text \in {Numeral(12), Word("true"), EmptyText}}
Numbers ==
  {v \in [type : {"Uint32", "Int32", "Uint64", "Int64"},
          number : {-12, 0, 1, 12, 20, 40}, text : {EmptyText}] :
     Holds(v.type, v.number)}

Settings == INSTANCE Settings WITH Category <- {"root", "a"}, Property <- {"p"},
              RootCategory <- "root", Setting <- Truths \union Texts \union Numbers

(* Lines of .ini documents, and documents that settings are loaded from:    *)
(* with properties in front of the sections, twice in a section, and with a *)
(* section that has two declarations                                        *)
Blank == [kind |-> "other", name |-> None, text |-> EmptyText, room |-> 0,
          hasValue |-> FALSE, hasQuotes |-> FALSE]
Heading(c) == [Blank EXCEPT !.kind = "section", !.name = c]
Entry(text) == [Blank EXCEPT !.kind = "property", !.name = "p", !.text = text]
QuotedEntry(text) == [Entry(text) EXCEPT !.room = 2, !.hasValue = TRUE, !.hasQuotes = TRUE]

Letters == {"nothing", "yes", "spaced", "slash", "quote", "remark", "rem"}
Ini == INSTANCE IniSettingsStore WITH promised <- saved,
  RootCategory <- "root", Category <- {"root", "a", "b"}, Property <- {"p"},
  LetterCount <- [w \in Letters |-> CASE w = "nothing" -> 0 [] w = "spaced" -> 2
                                     [] w \in {"yes", "remark"} -> 3 [] OTHER -> 1],
  Quoted <- {"spaced", "quote"},
  EscapeCount <- [w \in Letters |-> IF w \in {"slash", "quote"} THEN 1 ELSE 0],
  Remainder <- [w \in Letters |-> IF w = "remark" THEN "rem" ELSE w],
  MaxLines <- 5,
  Text <- {Numeral(1), Word("yes"), Word("slash"), Word("quote"), Word("remark"), EmptyText},
  Document <- {
    <<Blank, Entry(Word("yes")), Blank, Heading("a"), QuotedEntry(Word("spaced"))>>,
    <<Heading("a"), Entry(Word("yes")), Entry(Numeral(1)), Heading("b"),
      Entry(Word("remark"))>>,
    <<Entry(Numeral(12)), Heading("a"), Heading("b"), Heading("a"), Entry(EmptyText)>>}

-----------------------------------------------------------------------------
(* Texts: letters of one and two bytes in both cases, a character that gets *)
(* longer in lower case and one that gets shorter, characters of three and  *)
(* four bytes, and the last code point that counts as valid                 *)

Strings(letters, length) == UNION {[1..n -> letters] : n \in 0..length}

Helper == INSTANCE StringHelper
Formatter == INSTANCE QuantityFormatter

(* Where the output changes its number of digits or its unit *)
Quantities == (1..1100) \union
  {0, 3596, 3597, 32767, 65536, 86219, 86220, 86399, 86400, 999949, 999950, 1023935, 1023936,
   1048576, 1205279, 1205280, 2635199, 2635200, 4808159, 4808160, 31490639, 31490640,
   31535999, 31536000, 1000000000}

Samples ==
  [kind : {"match"}, text : Strings({97, 65, 196, 228}, TextLength),
   other : Strings({97, 228, Star, AnyOne}, TextLength)]
  \union [kind : {"match"}, text : Strings({97, 107, 8490}, TextLength),
          other : Strings({107, 8490}, 2)]
  \union [kind : {"clean"}, text : Strings({97, 98, 32, 10, 13}, TextLength + 1),
          other : Strings({97, 98, 32}, 2)]
  \union [kind : {"code"}, text : Strings({36, 570, 8364, 8490, 65535, 119070, 1114110}, 2)]
  \union [kind : {"number"}, number : Quantities]

NoSample == [kind |-> "none"]

-----------------------------------------------------------------------------
(* What the modules require of their constants *)
ASSUME DataAssumption ==
  /\ BitsAssumption /\ Ring!RingAssumption /\ Shift!ShiftAssumption
  /\ Keyed!KeyedAssumption /\ Slotted!SlottedAssumption
  /\ Logger!LoggerAssumption /\ Event!EventAssumption /\ Ini!DocumentAssumption

queues == <<ring, shift, keyed, slotted, logger>>
event == <<observers, emission>>
settings == <<promised, categories, registry>>
ini == <<document, saved, modified>>
rest == <<subject, sample>>
vars == <<rest, queues, event, variants, settings, ini>>

Init ==
  /\ subject \in {"ring", "shift", "keyed", "slotted", "logger", "event", "variants",
                  "settings", "ini", "texts"}
  /\ Ring!Init /\ Shift!Init /\ Keyed!Init /\ Slotted!Init /\ Logger!Init
  /\ Event!Init /\ Variant!Init /\ Settings!Init /\ Ini!Init
  /\ subject # "ring" => ring.kind = "bytes"
  /\ subject # "shift" => shift.kind = "plain"
  /\ sample \in IF subject = "texts" THEN Samples ELSE {NoSample}

Of(name, step) == subject = name /\ step /\ UNCHANGED rest

Next ==
  \/ /\ \/ Of("ring", Ring!Next) /\ UNCHANGED <<shift, keyed, slotted, logger>>
        \/ Of("shift", Shift!Next) /\ UNCHANGED <<ring, keyed, slotted, logger>>
        \/ Of("keyed", Keyed!Next) /\ UNCHANGED <<ring, shift, slotted, logger>>
        \/ Of("slotted", Slotted!Next) /\ UNCHANGED <<ring, shift, keyed, logger>>
        \/ Of("logger", Logger!Next) /\ UNCHANGED <<ring, shift, keyed, slotted>>
     /\ UNCHANGED <<event, variants, settings, ini>>
  \/ Of("event", Event!Next) /\ UNCHANGED <<queues, variants, settings, ini>>
  \/ Of("variants", Variant!Next) /\ UNCHANGED <<queues, event, settings, ini>>
  \/ Of("settings", Settings!Next) /\ UNCHANGED <<queues, event, variants, ini>>
  \/ Of("ini", Ini!Next) /\ UNCHANGED <<queues, event, variants, settings>>

Spec == Init /\ [][Next]_vars

-----------------------------------------------------------------------------
(* Properties, taken from the modules *)

(* Every component's variables are what they are meant to be. *)
TypeOK ==
  /\ Ring!TypeOK /\ Shift!TypeOK /\ Keyed!TypeOK /\ Slotted!TypeOK
  /\ Logger!TypeOK /\ Event!TypeOK /\ Variant!TypeOK /\ Ini!TypeOK

(* Queues hand out what was put into them, in this order, and keep objects  *)
(* nowhere else; the logger returns the latest lines; and the lists in which*)
(* the caches keep their slots are consistent.                              *)
ContainersKeepOrder ==
  /\ Ring!KeepsOrder /\ Ring!ObjectsLiveInQueue /\ Shift!KeepsOrder
  /\ Logger!KeepsLatest
  /\ Keyed!ListConsistent /\ Slotted!ListConsistent

(* Both caches give up the entries that were not used for the longest time. *)
CachesEvictOldest == Keyed!ImplementsLruCache /\ Slotted!ImplementsLruCache

(* An event calls its subscribers, whatever their callbacks do to it within *)
(* the limits of the documentation and of its list.                         *)
EmissionReachesSubscribers == Event!EmissionReachesSubscribers

(* Values that are put into a variant or into a settings store come out of  *)
(* it unharmed, and in the same way from every kind of store.               *)
ValuesSurvive ==
  /\ Variant!VariantsOwnTheirValues
  /\ Settings!StoresAgree /\ Ini!DocumentKeepsSettings

(* The text algorithms do what is written about them at their definitions.  *)
AlgorithmsAreRight ==
  CASE sample.kind = "match" -> MatchesAreRight(sample.text, sample.other)
    [] sample.kind = "clean" -> Helper!CleaningIsRight(sample.text, sample.other)
    [] sample.kind = "number" -> Formatter!NumbersAreRight(sample.number)
    [] sample.kind = "code" -> /\ TextsSurvive(sample.text)
                               /\ \A c \in ToSet(sample.text) : CodePointsSurvive(c)
    [] OTHER -> TRUE
=============================================================================
