------------------------------ MODULE Variant ------------------------------
(* Nuclex::Support::Variant: a value of one of several types                *)
(* (Include/Nuclex/Support/Variant.h, Source/Variant.cpp). Strings and      *)
(* std::any live in the bytes of the variant and have to be constructed and *)
(* destroyed there; "object" tells whether there is one. Floating point     *)
(* numbers are not modelled.                                                *)
EXTENDS VariantValue

CONSTANTS VariantName,  \* the variants of the client
          VariantNumber, VariantText  \* what it assigns to them

VARIABLE variants

Content(v) == [type |-> v.type, number |-> v.number, text |-> v.text]
Stored(content) ==
  [type |-> content.type, number |-> content.number, text |-> content.text,
   object |-> content.type \in ObjectTypes, sound |-> TRUE]

(* The values a client can put into a variant. *)
Assignable ==
  {Plain("Boolean", n) : n \in {0, 1}} \union {Plain("Any", 0)}
    \union UNION {{Plain(type, n) : n \in {m \in VariantNumber : Holds(type, m)}} :
                    type \in IntegerTypes}
    \union {Plain("VoidPointer", n) : n \in {m \in VariantNumber : Holds("Uint64", m)}}
    \union [type : {"U8String", "WString"}, number : {0}, text : VariantText]

Init == variants = [v \in VariantName |-> Stored(Empty)]

(* The object of a variant is destroyed; what it was is forgotten.          *)
Freed(v) ==
  [v EXCEPT !.object = FALSE,
            !.sound = @ /\ (v.type \in ObjectTypes => v.object)]

Emptied(v) ==
  [Freed(v) EXCEPT !.type = "Empty", !.number = 0, !.text = EmptyText]

(* The bytes of a variant that was freed are used for another value.        *)
Filled(v, content) ==
  [Stored(content) EXCEPT !.sound = Freed(v).sound /\ ~Freed(v).object]

Assign(name, content) ==
  variants' = [variants EXCEPT ![name] = Filled(@, content)]

(* operator =(const Variant &). A variant that is assigned to itself is     *)
(* emptied, which the client has to avoid.                                  *)
AssignCopy(name, other) ==
  /\ name # other
  /\ variants' = [variants EXCEPT ![name] = Filled(@, Content(variants[other]))]

(* operator =(Variant &&): the other one ends up empty, its string moved    *)
(* out of and destroyed.                                                    *)
AssignMove(name, other) ==
  variants' = IF name = other THEN variants
    ELSE [variants EXCEPT ![name] = Filled(@, Content(variants[other])),
                          ![other] = IF variants[other].type = "Empty" THEN @
                                     ELSE Emptied(@)]

(* A variant is destroyed and constructed anew as a copy of another one.    *)
(* Pointers are refused by the copy constructor.                            *)
CopyConstruct(name, other) ==
  /\ name # other /\ variants[other].type # "VoidPointer"
  /\ variants' = [variants EXCEPT ![name] =
                    [Stored(Content(variants[other])) EXCEPT !.sound = Freed(variants[name]).sound]]

(* The same for the move constructor. A std::any is left in the other       *)
(* variant, moved out of, and never destroyed.                              *)
MoveConstruct(name, other) ==
  /\ name # other /\ variants[other].type \notin {"VoidPointer", "Any"}
  /\ variants' =
       [variants EXCEPT
          ![name] = [Stored(Content(variants[other])) EXCEPT !.sound = Freed(variants[name]).sound],
          ![other] = Emptied(@)]

Next ==
  \E name \in VariantName :
    \/ \E content \in Assignable : Assign(name, content)
    \/ \E other \in VariantName : \/ AssignCopy(name, other)
                                  \/ AssignMove(name, other)
                                  \/ CopyConstruct(name, other)
                                  \/ MoveConstruct(name, other)

Spec == Init /\ [][Next]_variants

-----------------------------------------------------------------------------
(* Properties *)

TypeOK ==
  \A v \in VariantName : /\ variants[v].type \in VariantTypes
                         /\ variants[v].object \in BOOLEAN

(* A variant holds a string or std::any exactly when its type says so, and  *)
(* destroys it once. A number that fits into another integer type can be    *)
(* read as that type, and a number that is read as a text gives the number  *)
(* back.                                                                    *)
VariantsOwnTheirValues ==
  \A name \in VariantName :
    LET v == variants[name] IN
    /\ v.sound /\ v.object = (v.type \in ObjectTypes)
    /\ v.type \in IntegerTypes =>
         /\ \A type \in IntegerTypes : Holds(type, v.number) => ToInteger(v, type) = v.number
         /\ \A string \in {"U8String", "WString"} :
              ToInteger([v EXCEPT !.type = string, !.text = ToText(v)], v.type) = v.number
         /\ ToBoolean(v) = (v.number # 0)
=============================================================================
