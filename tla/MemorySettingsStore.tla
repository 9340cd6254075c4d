------------------------ MODULE MemorySettingsStore ------------------------
(* Nuclex::Support::Settings::MemorySettingsStore: settings that are kept as*)
(* variants in a map of maps (Source/Settings/MemorySettingsStore.cpp).     *)
EXTENDS VariantValue, TLC

CONSTANT None  \* no value

VARIABLE categories

Init == categories = <<>>

Store(c, p, value) ==
  categories' = IF c \in DOMAIN categories
                THEN [categories EXCEPT ![c] = (p :> value) @@ @]
                ELSE (c :> (p :> value)) @@ categories

DeleteProperty(c, p) ==
  categories' = IF c \in DOMAIN categories
                THEN [categories EXCEPT ![c] = [q \in DOMAIN @ \ {p} |-> @[q]]]
                ELSE categories

DeleteCategory(c) ==
  categories' = [d \in DOMAIN categories \ {c} |-> categories[d]]

(* The Retrieve...Property() methods *)
Retrieve(c, p, type) ==
  IF c \notin DOMAIN categories THEN None
  ELSE IF p \notin DOMAIN categories[c] THEN None
  ELSE LET value == categories[c][p] IN
       CASE type = "Boolean" -> Plain(type, IF ToBoolean(value) THEN 1 ELSE 0)
         [] type = "U8String" -> TextValue(ToText(value))
         [] OTHER -> Plain(type, ToInteger(value, type))
=============================================================================
