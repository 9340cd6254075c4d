------------------------------ MODULE Settings ------------------------------
(* A client that keeps the same settings in a memory store and in a registry*)
(* store, and writes them as texts into an .ini document. "promised" are    *)
(* the settings as it stored them.                                          *)
EXTENDS VariantValue, TLC

CONSTANTS Category, Property, RootCategory, None,
          Setting  \* the values that are stored

VARIABLES promised, categories, registry

Promise == INSTANCE SettingsStore WITH settings <- promised
Memory == INSTANCE MemorySettingsStore
Registry == INSTANCE RegistrySettingsStore

-----------------------------------------------------------------------------
(* How IniSettingsStore turns settings into texts and back. *)

(* The Store...Property() methods *)
AsText(value) ==
  CASE value.type = "Boolean" -> TextFromBoolean(value.number = 1)
    [] value.type = "U8String" -> value.text
    [] OTHER -> Numeral(value.number)

(* The Retrieve...Property() methods: "1", "on" and "yes" are true, too.    *)
FromText(text, type) ==
  CASE type = "Boolean" ->
         Plain(type, IF text \in {Numeral(1), Word("on"), Word("yes")}
                        \/ BooleanFromText(text) THEN 1 ELSE 0)
    [] type = "U8String" -> TextValue(text)
    [] OTHER -> Plain(type, IntegerFromText(type, text))

-----------------------------------------------------------------------------
(* Retrieve() and Store() exist for these types. *)
NumberTypes == {"Uint32", "Int32", "Uint64", "Int64"}
SettingTypes == NumberTypes \union {"Boolean", "U8String"}

Init == Promise!Init /\ Memory!Init /\ Registry!Init

Store(c, p, value) ==
  Promise!Store(c, p, value) /\ Memory!Store(c, p, value) /\ Registry!Store(c, p, value)

DeleteProperty(c, p) ==
  Promise!DeleteProperty(c, p) /\ Memory!DeleteProperty(c, p) /\ Registry!DeleteProperty(c, p)

DeleteCategory(c) ==
  Promise!DeleteCategory(c) /\ Memory!DeleteCategory(c) /\ Registry!DeleteCategory(c)

(* The registry key is deleted, and the memory store discarded with it.     *)
Discard ==
  /\ Registry!DeleteKey
  /\ categories' = <<>> /\ promised' = [c \in Category, p \in Property |-> None]

Open(writable) == Registry!Open(writable) /\ UNCHANGED <<promised, categories>>
Close == Registry!Close /\ UNCHANGED <<promised, categories>>

Next ==
  \/ \E c \in Category, p \in Property, value \in Setting : Store(c, p, value)
  \/ \E c \in Category, p \in Property : DeleteProperty(c, p)
  \/ \E c \in Category : DeleteCategory(c)
  \/ Discard \/ Close \/ \E writable \in BOOLEAN : Open(writable)

Spec == Init /\ [][Next]_<<promised, categories, registry>>

-----------------------------------------------------------------------------
(* Properties *)

(* What is stored can be retrieved as the same type, from the registry also *)
(* after the key was opened again and even through a handle to a key that   *)
(* was deleted. Numbers that an Int32 can hold and that are not negative are*)
(* read alike by all stores, as any type of number and as texts.            *)
StoresAgree ==
  \A c \in Category, p \in Property :
    LET value == promised[c, p] IN
    IF value = None
    THEN \A type \in SettingTypes : {Memory!Retrieve(c, p, type), Registry!Retrieve(c, p, type)} = {None}
    ELSE LET answers(type) == {Memory!Retrieve(c, p, type), FromText(AsText(value), type)}
               \union (IF Registry!Writable THEN {Registry!Retrieve(c, p, type)} ELSE {})
         IN /\ answers(value.type) = {value}
            /\ value.type \in NumberTypes /\ value.number >= 0 /\ Holds("Int32", value.number) =>
                 /\ \A type \in NumberTypes : answers(type) = {Plain(type, value.number)}
                 /\ answers("U8String") = {TextValue(Numeral(value.number))}
=============================================================================
