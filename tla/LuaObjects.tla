------------------------------ MODULE LuaObjects ------------------------------
(***************************************************************************)
(* Configurations and levers settings together, as they live in one Lua    *)
(* state (src/main.cpp).  Settings own a configuration that structs may    *)
(* borrow.  They are destroyed by the program or by the collector, which   *)
(* may run finalizers of both kinds whenever Lua allocates: between any    *)
(* two calls of the program, and inside push_from_raw.                     *)
(*                                                                         *)
(* The configurations are those of the module extended here; Settings are  *)
(* also the addresses of the settings' handles.                            *)
(***************************************************************************)
EXTENDS ConfigOwnership

CONSTANTS
  Handles,    \* the userdata that hold settings
  NoHandle    \* there is no such userdata

ASSUME LuaObjectsAssumption ==
  /\ Null \notin Settings
  /\ NoHandle \notin Settings \union Handles \union {Null}

VARIABLES
  live, levers_settings_owned, levers_settings_mutex, handle, dropped,
  pushing, finalizing

Levers == INSTANCE LeversSettings WITH Addresses <- Settings, DropsOwned <- TRUE

leversVars == <<live, levers_settings_owned, levers_settings_mutex, handle,
                dropped, pushing, finalizing>>
allVars == <<vars, leversVars>>

ObjectsInit == Init /\ Levers!Init

-----------------------------------------------------------------------------
\* The program calls a function on configurations.  It has a handle of the
\* settings whose configuration it borrows.
CallOnConfig(a) ==
  /\ Levers!Running
  /\ \/ New(a)
     \/ OpenSucceeds(a)
     \/ OpenFails(a)
     \/ Close(a)
     \/ InitIfNull(a)
     \/ \E h \in Handles \ dropped : Levers!HasPointer(h) /\ GetConfig(handle[h], a)
  /\ UNCHANGED leversVars

\* The collector frees a struct, also while settings are pushed.
CollectConfig(a) ==
  /\ finalizing = NoHandle
  /\ Gc(a)
  /\ UNCHANGED leversVars

MakeSettings(s) == Levers!PushFromRaw(s) /\ SettingsInit(s)

DestroySettings(h) == Levers!Destroy(h) /\ SettingsDestroy(handle[h])

\* The deleter destroys the settings if they are still owned.
DeleteSettings ==
  /\ Levers!Deleter
  /\ IF handle[finalizing] \in levers_settings_owned
     THEN SettingsDestroy(handle[finalizing])
     ELSE UNCHANGED vars

\* What changes handles only.
MoveHandle(h) ==
  /\ \/ Levers!PushReturn(h)
     \/ Levers!Drop(h)
     \/ Levers!CollectReset(h)
     \/ Levers!Collect(h)
  /\ UNCHANGED vars

ObjectsNext ==
  \/ \E a \in Addresses : CallOnConfig(a) \/ CollectConfig(a)
  \/ \E s \in Settings : MakeSettings(s)
  \/ \E h \in Handles : DestroySettings(h) \/ MoveHandle(h)
  \/ DeleteSettings

ObjectsSpec == ObjectsInit /\ [][ObjectsNext]_allVars
-----------------------------------------------------------------------------
ObjectsTypeOK == TypeOK /\ Levers!TypeOK

\* No sequence of inits, destroys, drops and collections leaves settings nobody
\* will destroy.
NoLeak == Levers!NoLeak

\* Nor does one destroy settings under a handle, also not those the engine has
\* allocated since at an address a former handle had.
SoleHandle == Levers!SoleHandle
=============================================================================
