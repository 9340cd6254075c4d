---------------------------- MODULE VariantValue ----------------------------
(* The values a Nuclex::Support::Variant can hold and what it returns when  *)
(* it is asked for them as another type (Source/Variant.cpp), by way of the *)
(* conversions between texts, truth values and integers that                *)
(* Nuclex::Support::Text::lexical_cast() offers (Source/Text/               *)
(* LexicalCast.cpp). A text either spells a number or it is a word; the     *)
(* parsing and formatting of digits is left to the libraries that the code  *)
(* calls. Floating point numbers are not modelled.                          *)
EXTENDS Integers

CONSTANTS Bits \* the width of each integer type

SignedTypes == {"Int8", "Int16", "Int32", "Int64"}
IntegerTypes == SignedTypes \union {"Uint8", "Uint16", "Uint32", "Uint64"}

BitsAssumption ==
  /\ Bits \in [IntegerTypes -> Nat \ {0}]
  /\ \A size \in {<<"Uint8", "Int8">>, <<"Uint16", "Int16">>,
                  <<"Uint32", "Int32">>, <<"Uint64", "Int64">>} :
       Bits[size[1]] = Bits[size[2]]

Span(type) == 2 ^ Bits[type]
Least(type) == IF type \in SignedTypes THEN -(Span(type) \div 2) ELSE 0
Holds(type, n) == n >= Least(type) /\ n < Least(type) + Span(type)

(* static_cast<>() between integer types keeps the lower bits. *)
Wrapped(type, n) == ((n - Least(type)) % Span(type)) + Least(type)

Numeral(n) == [letters |-> "", number |-> n]
Word(letters) == [letters |-> letters, number |-> 0]
EmptyText == Word("nothing")

TextFromBoolean(truth) == Word(IF truth THEN "true" ELSE "false")
BooleanFromText(text) == text.letters = "true"

(* What does not spell a number that the type can hold is taken for zero.   *)
IntegerFromText(type, text) ==
  IF text.letters = "" /\ Holds(type, text.number) THEN text.number ELSE 0

-----------------------------------------------------------------------------
ObjectTypes == {"U8String", "WString", "Any"}
VariantTypes == {"Empty", "Boolean", "VoidPointer"} \union IntegerTypes \union ObjectTypes

Plain(type, n) == [type |-> type, number |-> n, text |-> EmptyText]
Empty == Plain("Empty", 0)

TextValue(text) == [type |-> "U8String", number |-> 0, text |-> text]

ToInteger(v, type) ==
  CASE v.type = "Empty" \/ v.type = "Any" -> 0
    [] v.type = "U8String" -> IntegerFromText(type, v.text)
    [] v.type = "WString" ->
         IF type \in {"Uint8", "Int8"}
         THEN Wrapped(type, IntegerFromText("Int32", v.text))
         ELSE IntegerFromText(type, v.text)
    [] OTHER -> Wrapped(type, v.number)

ToBoolean(v) ==
  CASE v.type = "Any" -> TRUE
    [] v.type \in {"U8String", "WString"} -> BooleanFromText(v.text)
    [] OTHER -> v.number # 0

ToText(v) ==
  CASE v.type \in {"Empty", "Any"} -> EmptyText
    [] v.type \in {"U8String", "WString"} -> v.text
    [] OTHER -> Numeral(v.number)
=============================================================================
