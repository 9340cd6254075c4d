----------------------- MODULE RegistrySettingsStore -----------------------
(* Nuclex::Support::Settings::RegistrySettingsStore: settings as values of a*)
(* key of the Windows registry and of its subkeys (Source/Settings/         *)
(* RegistrySettingsStore.cpp, Source/Interop/WindowsRegistryApi.cpp). The   *)
(* key is "missing" or "there"; the store may have it open, or still hold a *)
(* handle to a key that has been "deleted". Numbers are stored as DWORDs and*)
(* QWORDs without sign.                                                     *)
EXTENDS VariantValue, TLC

CONSTANTS Property,
          RootCategory, \* the category without a name: the key itself
          None          \* no value

VARIABLE registry

NoSubKey == [p \in Property |-> None]
NoSubKeys == (RootCategory :> NoSubKey)

Init == registry = [key |-> "missing", handle |-> "none", subkeys |-> NoSubKeys]

(* The constructor. Without the wish to write, the key is not created. *)
Open(writable) ==
  /\ registry.handle # "open"
  /\ registry' = IF writable THEN [registry EXCEPT !.key = "there", !.handle = "open"]
                 ELSE [registry EXCEPT !.handle = IF registry.key = "there" THEN "open" ELSE "none"]

Close ==
  registry.handle # "none" /\ registry' = [registry EXCEPT !.handle = "none"]

(* DeleteKey(), which may be called while a store has the key open *)
DeleteKey ==
  /\ registry.key = "there"
  /\ registry' = [key |-> "missing", subkeys |-> NoSubKeys,
                  handle |-> IF registry.handle = "open" THEN "deleted" ELSE registry.handle]

SizedTypes == {"Uint64", "Int64"}

(* setValue(): the value as it is put into the registry *)
Encoded(value) ==
  CASE value.type = "U8String" -> [value EXCEPT !.type = "REG_SZ"]
    [] value.type \in SizedTypes -> Plain("REG_QWORD", Wrapped("Uint64", value.number))
    [] OTHER -> Plain("REG_DWORD", Wrapped("Uint32", value.number))

(* Bytes of UTF-16 that are taken for UTF-8 end behind the first character. *)
FirstCharacter(text) ==
  CASE text.letters # "" \/ text.number < 0 -> EmptyText
    [] text.number > 9 -> Numeral(text.number \div 10)
    [] OTHER -> text

(* interpretValue(): a signed type makes the stored number a signed one *)
Interpreted(stored, type) ==
  LET size == IF stored.type = "REG_DWORD" THEN "32" ELSE "64"
      signed == IF size = "32" THEN "Int32" ELSE "Int64"
  IN CASE type = "Boolean" ->
            Plain(type, IF stored.type # "REG_SZ" /\ stored.number # 0 THEN 1 ELSE 0)
       [] type = "U8String" ->
            TextValue(IF stored.type = "REG_SZ" THEN stored.text ELSE Numeral(stored.number))
       [] stored.type = "REG_SZ" ->
            Plain(type, IntegerFromText(type, FirstCharacter(stored.text)))
       [] type \in SignedTypes -> Plain(type, Wrapped(type, Wrapped(signed, stored.number)))
       [] OTHER -> Plain(type, Wrapped(type, stored.number))

(* A store without a key or with a deleted one refuses to change anything.  *)
Writable == registry.handle = "open"

Store(c, p, value) ==
  /\ Writable
  /\ registry' = [registry EXCEPT !.subkeys =
       IF c \in DOMAIN @ THEN [@ EXCEPT ![c][p] = Encoded(value)]
       ELSE (c :> [NoSubKey EXCEPT ![p] = Encoded(value)]) @@ @]

DeleteProperty(c, p) ==
  /\ Writable
  /\ registry' = IF c \notin DOMAIN registry.subkeys THEN registry
                 ELSE [registry EXCEPT !.subkeys[c][p] = None]

(* The values of the key itself are deleted one by one. *)
DeleteCategory(c) ==
  /\ Writable
  /\ registry' = [registry EXCEPT !.subkeys =
       IF c = RootCategory THEN [@ EXCEPT ![c] = NoSubKey]
       ELSE [d \in DOMAIN @ \ {c} |-> @[d]]]

Retrieve(c, p, type) ==
  CASE registry.handle # "open" -> None
    [] c \notin DOMAIN registry.subkeys -> None
    [] OTHER -> IF registry.subkeys[c][p] = None THEN None
                ELSE Interpreted(registry.subkeys[c][p], type)
=============================================================================
