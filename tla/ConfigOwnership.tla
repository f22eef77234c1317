--------------------------- MODULE ConfigOwnership ---------------------------
(***************************************************************************)
(* Who deletes a configuration (src/main.cpp).  A Lua RimeConfig is a C    *)
(* struct at some address whose ptr field the engine fills in.  Most       *)
(* configurations belong to the struct, which must close them; the one     *)
(* settings_get_config hands out belongs to the levers settings and must   *)
(* never be closed through the struct.  The module remembers the latter in *)
(* cfg_borrowed_set, a set of struct addresses, which are used again for   *)
(* new structs once the garbage collector has freed the old ones.          *)
(*                                                                         *)
(* What librime does to ptr is external: opening fills it in only when it  *)
(* succeeds, closing deletes what it points to and clears it, init and     *)
(* load_string create a configuration only where there is none.            *)
(***************************************************************************)
CONSTANTS
  Addresses,  \* where RimeConfig structs can be allocated
  Objects,    \* the engine's configuration objects (bounds how many there are)
  Settings,   \* levers settings
  Null,       \* a null ptr; settings that do not exist
  NoStruct    \* no struct lives at the address

ASSUME ConfigOwnershipAssumption ==
  /\ Null \notin Objects
  /\ NoStruct \notin Objects \union {Null}

VARIABLES
  ptr,               \* [Addresses -> the struct's ptr field]
  cfg_borrowed_set,  \* the addresses whose configuration is borrowed
  object,            \* [Objects -> what the memory is]
  settings           \* [Settings -> their configuration object]

vars == <<ptr, cfg_borrowed_set, object, settings>>

Live(a) == ptr[a] # NoStruct

\* Mutant of is_config_borrowed: every configuration counts as the struct's own.
never_borrowed(a) == FALSE

is_config_borrowed(a) == a \in cfg_borrowed_set

\* Mutants of WithBorrowed: nothing is inserted, or nothing erased.
WithoutInsert(a, borrowed) == cfg_borrowed_set \ {a}
WithoutErase(a, borrowed) ==
  IF borrowed THEN cfg_borrowed_set \union {a} ELSE cfg_borrowed_set

\* The set after set_config_borrowed(a, borrowed).
WithBorrowed(a, borrowed) ==
  IF borrowed THEN cfg_borrowed_set \union {a} ELSE cfg_borrowed_set \ {a}

Unused == {o \in Objects : object[o] = "unused"}

\* Mutant of Closed: config_close is not called.
NotClosed(a) == object

\* The objects after config_close of the struct at a: what it points to, if
\* anything, is deleted.
Closed(a) == [o \in Objects |-> IF o = ptr[a] THEN "freed" ELSE object[o]]

Init ==
  /\ ptr = [a \in Addresses |-> NoStruct]
  /\ cfg_borrowed_set = {}
  /\ object = [o \in Objects |-> "unused"]
  /\ settings = [s \in Settings |-> Null]

-----------------------------------------------------------------------------
\* Mutant of New: the struct is not zeroed.
NewUnzeroed(a) ==
  /\ ~Live(a)
  /\ ptr' = [ptr EXCEPT ![a] = "garbage"]
  /\ UNCHANGED <<cfg_borrowed_set, object, settings>>

\* RimeConfig(): a zeroed struct at a free address.
New(a) ==
  /\ ~Live(a)
  /\ ptr' = [ptr EXCEPT ![a] = Null]
  /\ UNCHANGED <<cfg_borrowed_set, object, settings>>

\* reload, config_open, schema_open and user_config_open close a struct that
\* is not borrowed, then open.  On success the struct owns what was opened.
OpenSucceeds(a) ==
  /\ Live(a)
  /\ \E o \in Unused :
       /\ ptr' = [ptr EXCEPT ![a] = o]
       /\ object' = [(IF is_config_borrowed(a) THEN object ELSE Closed(a))
                       EXCEPT ![o] = "config"]
  /\ cfg_borrowed_set' = WithBorrowed(a, FALSE)
  /\ UNCHANGED settings

\* On failure a borrowed struct stays what it was; another one is left closed.
OpenFails(a) ==
  /\ Live(a)
  /\ IF is_config_borrowed(a)
     THEN UNCHANGED <<ptr, object>>
     ELSE /\ ptr' = [ptr EXCEPT ![a] = Null]
          /\ object' = Closed(a)
  /\ cfg_borrowed_set' = WithBorrowed(a, is_config_borrowed(a))
  /\ UNCHANGED settings

\* close and config_close: a borrowed struct is left alone.
Close(a) ==
  /\ Live(a)
  /\ ~is_config_borrowed(a)
  /\ ptr' = [ptr EXCEPT ![a] = Null]
  /\ object' = Closed(a)
  /\ cfg_borrowed_set' = WithBorrowed(a, FALSE)
  /\ UNCHANGED settings

\* config_init, and what config_load_string and config_get_item do first.
InitIfNull(a) ==
  /\ ptr[a] = Null
  /\ \E o \in Unused :
       /\ ptr' = [ptr EXCEPT ![a] = o]
       /\ object' = [object EXCEPT ![o] = "config"]
  /\ UNCHANGED <<cfg_borrowed_set, settings>>

\* settings_get_config: ptr is overwritten, whatever it held.
GetConfig(s, a) ==
  /\ Live(a)
  /\ settings[s] # Null
  /\ ptr' = [ptr EXCEPT ![a] = settings[s]]
  /\ cfg_borrowed_set' = WithBorrowed(a, TRUE)
  /\ UNCHANGED <<object, settings>>

\* The garbage collector frees the struct.
Gc(a) ==
  /\ Live(a)
  /\ object' = IF is_config_borrowed(a) THEN object ELSE Closed(a)
  /\ cfg_borrowed_set' = cfg_borrowed_set \ {a}
  /\ ptr' = [ptr EXCEPT ![a] = NoStruct]
  /\ UNCHANGED settings

\* custom_settings_init or switcher_settings_init.
SettingsInit(s) ==
  /\ settings[s] = Null
  /\ \E o \in Unused :
       /\ settings' = [settings EXCEPT ![s] = o]
       /\ object' = [object EXCEPT ![o] = "settings"]
  /\ UNCHANGED <<ptr, cfg_borrowed_set>>

\* custom_settings_destroy, called by the program or by the deleter: the
\* structs that borrowed the configuration are not told.
SettingsDestroy(s) ==
  /\ settings[s] # Null
  /\ object' = [object EXCEPT ![settings[s]] = "freed"]
  /\ settings' = [settings EXCEPT ![s] = Null]
  /\ UNCHANGED <<ptr, cfg_borrowed_set>>

Next ==
  \/ \E a \in Addresses :
       \/ New(a)
       \/ OpenSucceeds(a)
       \/ OpenFails(a)
       \/ Close(a)
       \/ InitIfNull(a)
       \/ Gc(a)
       \/ \E s \in Settings : GetConfig(s, a)
  \/ \E s \in Settings : SettingsInit(s) \/ SettingsDestroy(s)

Spec == Init /\ [][Next]_vars
-----------------------------------------------------------------------------
TypeOK ==
  /\ ptr \in [Addresses -> Objects \union {Null, NoStruct}]
  /\ cfg_borrowed_set \subseteq Addresses
  /\ object \in [Objects -> {"unused", "config", "settings", "freed"}]
  /\ settings \in [Settings -> Objects \union {Null}]

\* The address is one the module will close.
Owns(a) == ptr[a] \in Objects /\ ~is_config_borrowed(a)

\* What a struct would close is alive, is not the settings', and no other
\* struct can reach it: no sequence of opens, failed opens, borrows, closes and
\* collections deletes a configuration twice or under somebody else.
SoleOwner ==
  \A a \in Addresses : Owns(a) =>
    /\ object[ptr[a]] = "config"
    /\ \A b \in Addresses : ptr[b] = ptr[a] => b = a

\* The configuration of living settings is never deleted under them.
SettingsKeepConfig ==
  \A s \in Settings : settings[s] # Null => object[settings[s]] = "settings"

\* An address is in cfg_borrowed_set only while a struct lives there that points
\* to a settings' configuration: a new struct at a used address never counts as
\* borrowed.
NoStaleBorrow ==
  \A a \in cfg_borrowed_set :
    /\ ptr[a] \in Objects
    /\ object[ptr[a]] \in {"settings", "freed"}

\* A configuration nobody would ever close.
Leaked(o) ==
  object[o] = "config" /\ \A a \in Addresses : ~(Owns(a) /\ ptr[a] = o)

\* A configuration is lost for good only when settings_get_config overwrites the
\* ptr of a struct that owned it.
LeakOnlyByGetConfig ==
  [][\A o \in Objects : ~Leaked(o) /\ Leaked(o)' =>
       \E a \in Addresses : ptr[a] = o /\ a \in cfg_borrowed_set' \ cfg_borrowed_set]_vars
=============================================================================
