--------------------------- MODULE SettingsStore ---------------------------
(* What Nuclex::Support::Settings::SettingsStore promises                   *)
(* (Include/Nuclex/Support/Settings/SettingsStore.h): each property of each *)
(* category has the value it was last given, until it is deleted.           *)

CONSTANTS Category, Property, None
VARIABLE settings

Init == settings = [c \in Category, p \in Property |-> None]

Store(c, p, value) == settings' = [settings EXCEPT ![<<c, p>>] = value]
DeleteProperty(c, p) == settings' = [settings EXCEPT ![<<c, p>>] = None]
DeleteCategory(c) ==
  settings' = [d \in Category, p \in Property |->
                 IF d = c THEN None ELSE settings[d, p]]
=============================================================================
