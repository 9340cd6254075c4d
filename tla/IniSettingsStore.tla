-------------------------- MODULE IniSettingsStore --------------------------
(* Nuclex::Support::Settings::IniSettingsStore: settings that are kept in an*)
(* .ini document, which is loaded from memory or from a file (Source/       *)
(* Settings/IniSettingsStore.cpp). Texts stand for the values. "promised"   *)
(* are the settings as the client stored or loaded them.                    *)
EXTENDS IniDocumentModel

CONSTANTS Category, Property,
          Text,      \* the values that are stored
          Document   \* the documents that are loaded, as sequences of lines

VARIABLES promised, modified

iniVars == <<document, promised, modified>>

Promise == INSTANCE SettingsStore WITH settings <- promised

Answers(d) == [c \in Category, p \in Property |-> Value(d, c, p)]

Init ==
  /\ document = EmptyDocument /\ Promise!Init
  /\ modified = FALSE

(* The Store...Property() methods *)
Store(c, p, text) ==
  /\ SetPropertyValue(c, p, text) /\ Promise!Store(c, p, text)
  /\ modified' = TRUE

RemoveProperty(c, p) ==
  DeleteProperty(c, p) /\ Promise!DeleteProperty(c, p) /\ UNCHANGED modified

RemoveCategory(c) ==
  DeleteSection(c) /\ Promise!DeleteCategory(c) /\ UNCHANGED modified

LoadMemory ==
  \E lines \in Document, padded \in BOOLEAN :
    Load(lines, padded) /\ promised' = Answers(Parsed(lines)) /\ modified' = FALSE

(* The document is saved and what was written is loaded again. Save() writes*)
(* over the file in place and cuts it afterwards; that the program may end  *)
(* in between is not modelled.                                              *)
SaveAndLoad ==
  \E padded \in BOOLEAN :
    Load(Serialize(document), padded) /\ UNCHANGED promised /\ modified' = FALSE

Next ==
  /\ document.intact
  /\ \/ \E c \in Category, p \in Property, text \in Text : Store(c, p, text)
     \/ \E c \in Category, p \in Property : RemoveProperty(c, p)
     \/ \E c \in Category : RemoveCategory(c)
     \/ LoadMemory \/ SaveAndLoad

Spec == Init /\ [][Next]_iniVars

-----------------------------------------------------------------------------
(* Properties *)

TypeOK ==
  /\ \A c \in DOMAIN document.sections :
       {document.sections[c].declaration, document.sections[c].last}
         \subseteq DOMAIN document.lines \union {None, Dangling}
  /\ modified \in BOOLEAN

(* As long as no call was mishandled, the store returns what the client     *)
(* stored or loaded, and so does a store that is loaded from what this one  *)
(* would write. The line of each property is one of its section.            *)
DocumentKeepsSettings ==
  document.intact =>
    /\ Answers(document) = promised
    /\ Answers(Parsed(Serialize(document))) = promised
    /\ \A c \in DOMAIN document.sections :
         LET properties == document.sections[c].properties IN
         \A p \in DOMAIN properties :
           /\ document.lines[properties[p]].name = p
           /\ InForce(document.lines, properties[p]) = c
=============================================================================
