--------------------------- MODULE LuaObjectsProofs ---------------------------
(***************************************************************************)
(* Theorems about the objects of one Lua state, for every number of them:  *)
(* ConfigOwnership, LuaObjects, ResultStructs and EngineLifecycle.         *)
(***************************************************************************)
EXTENDS LuaObjects, ResultStructs, EngineLifecycle, SequenceTheorems, TLAPS

-----------------------------------------------------------------------------
(***************************************************************************)
(* Configurations.  The three invariants need each other: a struct closes  *)
(* only what no one else reaches because borrowed structs point to objects *)
(* of another kind (NoStaleBorrow), and settings keep their object because *)
(* a struct never closes one of theirs (SoleOwner).                        *)
(***************************************************************************)
\* No two settings share their configuration.
SettingsDistinct ==
  \A s, t \in Settings : settings[s] # Null /\ settings[s] = settings[t] => s = t

IInv ==
  /\ TypeOK
  /\ SoleOwner
  /\ SettingsKeepConfig
  /\ NoStaleBorrow
  /\ SettingsDistinct

USE ConfigOwnershipAssumption DEF ConfigOwnershipAssumption

-----------------------------------------------------------------------------
\* Before the first call no configuration is open, so the invariant holds.
LEMMA InitIInv == Init => IInv
BY DEF Init, IInv, TypeOK, SoleOwner, Owns, is_config_borrowed,
       SettingsKeepConfig, NoStaleBorrow, SettingsDistinct

-----------------------------------------------------------------------------
(***************************************************************************)
(* What closing a struct the module owns does to the objects: it frees an  *)
(* object no other struct and no settings have.                            *)
(***************************************************************************)
LEMMA ClosedFacts ==
  ASSUME IInv, NEW a \in Addresses, Live(a), ~is_config_borrowed(a)
  PROVE  /\ Closed(a) \in [Objects -> {"unused", "config", "settings", "freed"}]
         /\ \A o \in Objects : Closed(a)[o] = IF o = ptr[a] THEN "freed" ELSE object[o]
         /\ \A b \in Addresses : ptr[b] = ptr[a] /\ ptr[a] \in Objects => b = a
         /\ \A s \in Settings : settings[s] # Null => settings[s] # ptr[a]
         /\ ptr[a] \in Objects => object[ptr[a]] = "config"
BY DEF IInv, TypeOK, SoleOwner, SettingsKeepConfig, Owns, Closed, Live

\* What is unused nobody points to.
LEMMA UnusedFacts ==
  ASSUME IInv, NEW o \in Unused
  PROVE  /\ o \in Objects /\ object[o] = "unused"
         /\ \A a \in Addresses : ptr[a] # o
         /\ \A s \in Settings : settings[s] # o
<1>1. o \in Objects /\ object[o] = "unused"
  BY DEF Unused
<1>2. ASSUME NEW a \in Addresses PROVE ptr[a] # o
  BY <1>1 DEF IInv, SoleOwner, NoStaleBorrow, Owns, is_config_borrowed
<1>3. ASSUME NEW s \in Settings PROVE settings[s] # o
  BY <1>1 DEF IInv, SettingsKeepConfig
<1>4. QED
  BY <1>1, <1>2, <1>3

-----------------------------------------------------------------------------
\* Every operation on configurations keeps the invariant.
LEMMA StepIInv == IInv /\ [Next]_vars => IInv'
<1> SUFFICES ASSUME IInv, [Next]_vars PROVE IInv'
  OBVIOUS
<1> USE DEF IInv, TypeOK, SoleOwner, SettingsKeepConfig, NoStaleBorrow,
            SettingsDistinct, Owns, is_config_borrowed
<1>1. ASSUME NEW a \in Addresses, New(a) PROVE IInv'
  BY <1>1 DEF New, Live
<1>2. ASSUME NEW a \in Addresses, OpenSucceeds(a) PROVE IInv'
  <2>1. PICK o \in Unused :
          /\ ptr' = [ptr EXCEPT ![a] = o]
          /\ object' = [(IF is_config_borrowed(a) THEN object ELSE Closed(a))
                          EXCEPT ![o] = "config"]
    BY <1>2 DEF OpenSucceeds
  <2>2. Live(a) /\ cfg_borrowed_set' = cfg_borrowed_set \ {a} /\ settings' = settings
    BY <1>2 DEF OpenSucceeds, WithBorrowed
  <2>3. /\ o \in Objects /\ object[o] = "unused"
        /\ \A b \in Addresses : ptr[b] # o
        /\ \A s \in Settings : settings[s] # o
    BY UnusedFacts
  <2>4. CASE is_config_borrowed(a)
    BY <2>1, <2>2, <2>3, <2>4
  <2>5. CASE ~is_config_borrowed(a)
    <3>1. object' = [Closed(a) EXCEPT ![o] = "config"]
      BY <2>1, <2>5
    <3> HIDE DEF IInv
    <3>2. /\ Closed(a) \in [Objects -> {"unused", "config", "settings", "freed"}]
          /\ \A p \in Objects : Closed(a)[p] = IF p = ptr[a] THEN "freed" ELSE object[p]
          /\ \A b \in Addresses : ptr[b] = ptr[a] /\ ptr[a] \in Objects => b = a
          /\ \A s \in Settings : settings[s] # Null => settings[s] # ptr[a]
          /\ ptr[a] \in Objects => object[ptr[a]] = "config"
      BY <2>2, <2>5, ClosedFacts
    <3>3. \A p \in Objects : object'[p] =
            IF p = o THEN "config" ELSE IF p = ptr[a] THEN "freed" ELSE object[p]
      BY <3>1, <3>2
    <3>4. \A b \in Addresses : ptr'[b] = IF b = a THEN o ELSE ptr[b]
      BY <2>1 DEF IInv
    <3>5. TypeOK'
      BY <2>1, <2>2, <2>3, <3>1, <3>2 DEF IInv
    <3>6. SoleOwner'
      BY <2>2, <2>3, <3>2, <3>3, <3>4 DEF IInv
    <3>7. SettingsKeepConfig' /\ SettingsDistinct'
      BY <2>2, <2>3, <3>2, <3>3 DEF IInv
    <3>8. NoStaleBorrow'
      BY <2>2, <2>3, <3>2, <3>3, <3>4 DEF IInv
    <3>9. QED
      BY <3>5, <3>6, <3>7, <3>8 DEF IInv
  <2>6. QED
    BY <2>4, <2>5
<1>3. ASSUME NEW a \in Addresses, Live(a), ~is_config_borrowed(a),
             NEW p \in {Null, NoStruct}, ptr' = [ptr EXCEPT ![a] = p],
             object' = Closed(a), cfg_borrowed_set' = cfg_borrowed_set \ {a},
             settings' = settings
      PROVE  IInv'
  <2> HIDE DEF IInv
  <2>1. /\ Closed(a) \in [Objects -> {"unused", "config", "settings", "freed"}]
        /\ \A o \in Objects : Closed(a)[o] = IF o = ptr[a] THEN "freed" ELSE object[o]
        /\ \A b \in Addresses : ptr[b] = ptr[a] /\ ptr[a] \in Objects => b = a
        /\ \A s \in Settings : settings[s] # Null => settings[s] # ptr[a]
        /\ ptr[a] \in Objects => object[ptr[a]] = "config"
    BY <1>3, ClosedFacts
  <2>2. \A b \in Addresses : ptr'[b] = IF b = a THEN p ELSE ptr[b]
    BY <1>3 DEF IInv
  <2>3. TypeOK'
    BY <1>3, <2>1 DEF IInv
  <2>4. SoleOwner' /\ NoStaleBorrow'
    BY <1>3, <2>1, <2>2 DEF IInv
  <2>5. SettingsKeepConfig' /\ SettingsDistinct'
    BY <1>3, <2>1 DEF IInv
  <2>6. QED
    BY <2>3, <2>4, <2>5 DEF IInv
<1>4. ASSUME NEW a \in Addresses, OpenFails(a) PROVE IInv'
  <2>1. CASE is_config_borrowed(a)
    BY <1>4, <2>1 DEF OpenFails, WithBorrowed
  <2>2. CASE ~is_config_borrowed(a)
    BY <1>3, <1>4, <2>2 DEF OpenFails, WithBorrowed
  <2>3. QED
    BY <2>1, <2>2
<1>5. ASSUME NEW a \in Addresses, Close(a) PROVE IInv'
  BY <1>3, <1>5 DEF Close, WithBorrowed
<1>6. ASSUME NEW a \in Addresses, InitIfNull(a) PROVE IInv'
  <2>1. PICK o \in Unused : ptr' = [ptr EXCEPT ![a] = o] /\ object' = [object EXCEPT ![o] = "config"]
    BY <1>6 DEF InitIfNull
  <2>2. /\ o \in Objects /\ object[o] = "unused"
        /\ \A b \in Addresses : ptr[b] # o
        /\ \A s \in Settings : settings[s] # o
    BY UnusedFacts
  <2>3. QED
    BY <1>6, <2>1, <2>2 DEF InitIfNull
<1>7. ASSUME NEW a \in Addresses, Gc(a) PROVE IInv'
  <2>1. CASE is_config_borrowed(a)
    BY <1>7, <2>1 DEF Gc, Live
  <2>2. CASE ~is_config_borrowed(a)
    BY <1>3, <1>7, <2>2 DEF Gc
  <2>3. QED
    BY <2>1, <2>2
<1>8. ASSUME NEW a \in Addresses, NEW s \in Settings, GetConfig(s, a) PROVE IInv'
  BY <1>8 DEF GetConfig, WithBorrowed
<1>9. ASSUME NEW s \in Settings, SettingsInit(s) PROVE IInv'
  <2>1. PICK o \in Unused :
          settings' = [settings EXCEPT ![s] = o] /\ object' = [object EXCEPT ![o] = "settings"]
    BY <1>9 DEF SettingsInit
  <2>2. /\ o \in Objects /\ object[o] = "unused"
        /\ \A b \in Addresses : ptr[b] # o
        /\ \A t \in Settings : settings[t] # o
    BY UnusedFacts
  <2>3. QED
    BY <1>9, <2>1, <2>2 DEF SettingsInit
<1>10. ASSUME NEW s \in Settings, SettingsDestroy(s) PROVE IInv'
  BY <1>10 DEF SettingsDestroy
<1>11. CASE UNCHANGED vars
  BY <1>11 DEF vars
<1>12. QED
  BY <1>1, <1>2, <1>4, <1>5, <1>6, <1>7, <1>8, <1>9, <1>10, <1>11 DEF Next

-----------------------------------------------------------------------------
\* The inductive invariant of the configurations holds in every behaviour.
THEOREM Invariant == Spec => []IInv
<1>1. Init => IInv
  BY InitIInv
<1>2. IInv /\ [Next]_vars => IInv'
  BY StepIInv
<1>3. QED
  BY <1>1, <1>2, PTL DEF Spec

\* However many structs and settings there are, and however addresses are used
\* again, no configuration is closed twice or under another struct.
THEOREM ClosesOwn == Spec => []SoleOwner
<1>1. IInv => SoleOwner
  BY DEF IInv
<1>2. QED
  BY <1>1, Invariant, PTL

\* No call on structs, and no collection of one, deletes the configuration of
\* settings that live.
THEOREM SettingsSafe == Spec => []SettingsKeepConfig
<1>1. IInv => SettingsKeepConfig
  BY DEF IInv
<1>2. QED
  BY <1>1, Invariant, PTL

\* cfg_borrowed_set never names an address whose struct has gone or owns what it
\* points to.
THEOREM BorrowsCurrent == Spec => []NoStaleBorrow
<1>1. IInv => NoStaleBorrow
  BY DEF IInv
<1>2. QED
  BY <1>1, Invariant, PTL
-----------------------------------------------------------------------------
(***************************************************************************)
(* What can be leaked.                                                     *)
(***************************************************************************)
LEMMA LeakStep ==
  ASSUME IInv, [Next]_vars, NEW o \in Objects, ~Leaked(o), Leaked(o)'
  PROVE  \E a \in Addresses : ptr[a] = o /\ a \in cfg_borrowed_set' \ cfg_borrowed_set
<1> USE DEF IInv, TypeOK, Leaked, Owns, is_config_borrowed
<1>1. object'[o] = "config" /\ \A a \in Addresses : ptr'[a] = o => a \in cfg_borrowed_set'
  OBVIOUS
<1>2. ASSUME NEW a \in Addresses, New(a) PROVE FALSE
  BY <1>1, <1>2 DEF New, Live
<1>3. ASSUME NEW a \in Addresses, OpenSucceeds(a) PROVE FALSE
  <2>1. PICK p \in Unused :
          /\ ptr' = [ptr EXCEPT ![a] = p]
          /\ object' = [(IF is_config_borrowed(a) THEN object ELSE Closed(a))
                          EXCEPT ![p] = "config"]
    BY <1>3 DEF OpenSucceeds
  <2>2. cfg_borrowed_set' = cfg_borrowed_set \ {a} /\ p # o /\ p \in Objects
    BY <1>1, <1>3, <2>1 DEF OpenSucceeds, WithBorrowed, Unused
  <2>3. object'[o] = IF is_config_borrowed(a) THEN object[o] ELSE Closed(a)[o]
    BY <2>1, <2>2 DEF Closed
  <2>4. object[o] = "config" /\ (~is_config_borrowed(a) => ptr[a] # o)
    BY <1>1, <2>3 DEF Closed
  <2>5. QED
    BY <1>1, <2>1, <2>2, <2>4
<1>4. ASSUME NEW a \in Addresses, OpenFails(a) PROVE FALSE
  BY <1>1, <1>4 DEF OpenFails, WithBorrowed, Closed
<1>5. ASSUME NEW a \in Addresses, Close(a) PROVE FALSE
  BY <1>1, <1>5 DEF Close, WithBorrowed, Closed
<1>6. ASSUME NEW a \in Addresses, InitIfNull(a) PROVE FALSE
  <2>1. PICK p \in Unused : ptr' = [ptr EXCEPT ![a] = p] /\ object' = [object EXCEPT ![p] = "config"]
    BY <1>6 DEF InitIfNull
  <2>2. a \notin cfg_borrowed_set
    BY <1>6 DEF InitIfNull, NoStaleBorrow
  <2>3. QED
    BY <1>1, <1>6, <2>1, <2>2 DEF InitIfNull, Unused
<1>7. ASSUME NEW a \in Addresses, Gc(a) PROVE FALSE
  BY <1>1, <1>7 DEF Gc, Closed
<1>8. ASSUME NEW a \in Addresses, NEW s \in Settings, GetConfig(s, a)
      PROVE  ptr[a] = o /\ a \in cfg_borrowed_set' \ cfg_borrowed_set
  BY <1>1, <1>8 DEF GetConfig, WithBorrowed
<1>9. ASSUME NEW s \in Settings, SettingsInit(s) PROVE FALSE
  BY <1>1, <1>9 DEF SettingsInit, Unused
<1>10. ASSUME NEW s \in Settings, SettingsDestroy(s) PROVE FALSE
  BY <1>1, <1>10 DEF SettingsDestroy
<1>11. CASE UNCHANGED vars
  BY <1>1, <1>11 DEF vars
<1>12. QED
  BY <1>2, <1>3, <1>4, <1>5, <1>6, <1>7, <1>8, <1>9, <1>10, <1>11 DEF Next

\* The only call that loses a configuration is settings_get_config on a struct
\* that owned one.
THEOREM OnlyGetConfigLeaks == Spec => LeakOnlyByGetConfig
<1>1. IInv /\ [Next]_vars =>
        [\A o \in Objects : ~Leaked(o) /\ Leaked(o)' =>
           \E a \in Addresses : ptr[a] = o /\ a \in cfg_borrowed_set' \ cfg_borrowed_set]_vars
  BY LeakStep
<1>2. QED
  BY <1>1, Invariant, PTL DEF Spec, LeakOnlyByGetConfig

-----------------------------------------------------------------------------
(***************************************************************************)
(* Configurations and settings together.  That the configurations of a     *)
(* whole Lua state behave as ConfigOwnership says is a refinement, so what *)
(* is proved there holds here too.  That no settings are lost needs that   *)
(* none has two handles, and that the handle under finalization still holds*)
(* its settings.                                                           *)
(***************************************************************************)
HandleTypes ==
  /\ live \subseteq Settings
  /\ levers_settings_mutex \in BOOLEAN
  /\ handle \in [Handles -> Settings \union {Null, NoHandle}]
  /\ dropped \subseteq Handles
  /\ \A h \in dropped : handle[h] # NoHandle
  /\ pushing \in Settings \union {Null}
  /\ finalizing # NoHandle => finalizing \in dropped /\ handle[finalizing] \in Settings

\* NoLeak, for one settings object at a time.
Held ==
  /\ levers_settings_owned = live
  /\ \A s \in Settings : s \in live <=> (s = pushing \/ \E h \in Handles : handle[h] = s)

ObjectsInv == HandleTypes /\ Held /\ SoleHandle

USE LuaObjectsAssumption DEF LuaObjectsAssumption

-----------------------------------------------------------------------------
\* A program that holds no object yet satisfies the invariant.
LEMMA InitObjects == ObjectsInit => ObjectsInv
BY DEF ObjectsInit, Levers!Init, ObjectsInv, HandleTypes, Held, SoleHandle, Levers!SoleHandle

\* The invariant says what the properties say.
LEMMA InvTypes == ObjectsInv => Levers!TypeOK
BY DEF ObjectsInv, HandleTypes, Held, Levers!TypeOK

\* The invariant gives the guarantee on leaks: what is open, somebody will close.
LEMMA InvNoLeak == ObjectsInv => NoLeak
<1> SUFFICES ASSUME ObjectsInv PROVE NoLeak
  OBVIOUS
<1>1. live = {s \in Settings : s = pushing \/ \E h \in Handles : handle[h] = s}
  BY DEF ObjectsInv, HandleTypes, Held
<1>2. QED
  BY <1>1 DEF ObjectsInv, Held, NoLeak, Levers!NoLeak

\* Every step on the handles keeps the invariant.
LEMMA StepLevers == ObjectsInv /\ [Levers!Next]_leversVars => ObjectsInv'
<1> SUFFICES ASSUME ObjectsInv, [Levers!Next]_leversVars PROVE ObjectsInv'
  OBVIOUS
<1> USE DEF ObjectsInv, HandleTypes, Held, SoleHandle, Levers!SoleHandle,
            Levers!HasPointer
<1>1. ASSUME NEW s \in Settings, Levers!PushFromRaw(s) PROVE ObjectsInv'
  BY <1>1 DEF Levers!PushFromRaw, Levers!Running
<1>2. ASSUME NEW h \in Handles, Levers!PushReturn(h) PROVE ObjectsInv'
  <2>1. HandleTypes'
    BY <1>2 DEF Levers!PushReturn
  <2>2. Held'
    BY <1>2 DEF Levers!PushReturn
  <2>3. SoleHandle'
    BY <1>2 DEF Levers!PushReturn
  <2>4. QED
    BY <2>1, <2>2, <2>3
<1>3. ASSUME NEW h \in Handles, Levers!Destroy(h) PROVE ObjectsInv'
  BY <1>3 DEF Levers!Destroy, Levers!Running, Levers!Reset,
              Levers!mark_levers_settings_destroyed
<1>4. ASSUME NEW h \in Handles, Levers!Drop(h) PROVE ObjectsInv'
  BY <1>4 DEF Levers!Drop, Levers!Running
<1>5. ASSUME NEW h \in Handles, Levers!CollectReset(h) PROVE ObjectsInv'
  BY <1>5 DEF Levers!CollectReset, Levers!Free
<1>6. ASSUME NEW h \in Handles, Levers!Collect(h) PROVE ObjectsInv'
  BY <1>6 DEF Levers!Collect
<1>7. ASSUME Levers!Deleter PROVE ObjectsInv'
  BY <1>7 DEF Levers!Deleter, Levers!Free, Levers!mark_levers_settings_destroyed
<1>8. CASE UNCHANGED leversVars
  BY <1>8 DEF leversVars
<1>9. QED
  BY <1>1, <1>2, <1>3, <1>4, <1>5, <1>6, <1>7, <1>8 DEF Levers!Next

\* What a step of the Lua state does to the handles is a step of the levers.
LEMMA StepIsLevers == [ObjectsNext]_allVars => [Levers!Next]_leversVars
BY DEF ObjectsNext, allVars, CallOnConfig, CollectConfig, MakeSettings,
       DestroySettings, DeleteSettings, MoveHandle, Levers!Next

\* What it does to the configurations is a step of ConfigOwnership.
LEMMA StepIsConfig == ObjectsInv /\ [ObjectsNext]_allVars => [Next]_vars
<1> SUFFICES ASSUME ObjectsInv, [ObjectsNext]_allVars PROVE [Next]_vars
  OBVIOUS
<1>1. ASSUME NEW a \in Addresses, CallOnConfig(a) PROVE [Next]_vars
  BY <1>1 DEF CallOnConfig, Next, Levers!HasPointer
<1>2. ASSUME NEW a \in Addresses, CollectConfig(a) PROVE [Next]_vars
  BY <1>2 DEF CollectConfig, Next
<1>3. ASSUME NEW s \in Settings, MakeSettings(s) PROVE [Next]_vars
  BY <1>3 DEF MakeSettings, Next
<1>4. ASSUME NEW h \in Handles, DestroySettings(h) PROVE [Next]_vars
  BY <1>4 DEF DestroySettings, Levers!Destroy, Levers!HasPointer, Next
<1>5. ASSUME NEW h \in Handles, MoveHandle(h) PROVE [Next]_vars
  BY <1>5 DEF MoveHandle, Next
<1>6. ASSUME DeleteSettings PROVE [Next]_vars
  <2>1. finalizing # NoHandle
    BY <1>6 DEF DeleteSettings, Levers!Deleter
  <2>2. handle[finalizing] \in Settings
    BY <2>1 DEF ObjectsInv, HandleTypes
  <2>3. QED
    BY <1>6, <2>2 DEF DeleteSettings, Next
<1>7. CASE UNCHANGED allVars
  BY <1>7 DEF allVars, vars
<1>8. QED
  BY <1>1, <1>2, <1>3, <1>4, <1>5, <1>6, <1>7 DEF ObjectsNext

-----------------------------------------------------------------------------
\* The inductive invariant of configurations and levers settings together holds
\* in every behaviour.
THEOREM ObjectsInvariant == ObjectsSpec => []ObjectsInv
<1>1. ObjectsInit => ObjectsInv
  BY InitObjects
<1>2. ObjectsInv /\ [ObjectsNext]_allVars => ObjectsInv'
  BY StepLevers, StepIsLevers
<1>3. QED
  BY <1>1, <1>2, PTL DEF ObjectsSpec

\* The configurations of a Lua state, with settings that come and go under them,
\* are those of ConfigOwnership.
THEOREM ImplementsOwnership == ObjectsSpec => Spec
<1>1. ObjectsInit => Init
  BY DEF ObjectsInit
<1>2. ObjectsInv /\ [ObjectsNext]_allVars => [Next]_vars
  BY StepIsConfig
<1>3. QED
  BY <1>1, <1>2, ObjectsInvariant, PTL DEF ObjectsSpec, Spec

\* Every variable keeps its type.
THEOREM ObjectsTypes == ObjectsSpec => []ObjectsTypeOK
<1>1. ObjectsInv /\ IInv => ObjectsTypeOK
  BY InvTypes DEF IInv, ObjectsTypeOK
<1>2. QED
  BY <1>1, ObjectsInvariant, ImplementsOwnership, Invariant, PTL

\* The module destroys every settings object exactly when its last owner goes:
\* however many there are, none is left that nothing will destroy.
THEOREM NothingLeaks == ObjectsSpec => []NoLeak
<1>1. ObjectsInv => NoLeak
  BY InvNoLeak
<1>2. QED
  BY <1>1, ObjectsInvariant, PTL

\* And none is destroyed under a handle.
THEOREM OneHandle == ObjectsSpec => []SoleHandle
<1>1. ObjectsInv => SoleHandle
  BY DEF ObjectsInv
<1>2. QED
  BY <1>1, ObjectsInvariant, PTL

\* In a whole Lua state too, structs close only what is theirs, settings keep
\* their configuration, and cfg_borrowed_set is never stale.
THEOREM OwnershipKept == ObjectsSpec => [](SoleOwner /\ SettingsKeepConfig /\ NoStaleBorrow)
<1>1. IInv => SoleOwner /\ SettingsKeepConfig /\ NoStaleBorrow
  BY DEF IInv
<1>2. QED
  BY <1>1, ImplementsOwnership, Invariant, PTL

-----------------------------------------------------------------------------
(***************************************************************************)
(* Result structs.  Who frees a list is told by the mark at its address, so*)
(* the invariant ties together what the struct points to, who allocated    *)
(* that, whether the address is marked, and who was called on the struct   *)
(* that is there now.                                                      *)
(***************************************************************************)
\* No two structs point to the same memory.
Apart == \A a, c \in Structs : a # c => pointsTo[a] \intersect pointsTo[c] = {}

\* What a struct points to was allocated by a side that filled it, and if by the
\* levers the struct is marked.
FromItsSides ==
  \A a \in Structs : \A b \in pointsTo[a] :
    /\ memory[b] \in sides[a]
    /\ memory[b] = "levers" => is_schemalist_borrowed(a)

\* A mark is never left over from an earlier struct at the address.
MarkedByLevers == \A a \in Structs : is_schemalist_borrowed(a) => "levers" \in sides[a]

StructsInv == StructsTypeOK /\ Apart /\ FromItsSides /\ MarkedByLevers

-----------------------------------------------------------------------------
\* The invariant holds before any struct is made.
LEMMA InitStructs == StructsInit => StructsInv
BY DEF StructsInit, StructsInv, StructsTypeOK, Apart, FromItsSides, MarkedByLevers,
       is_schemalist_borrowed, StructClasses, Sides

\* What freeing the struct at a leaves of the memory.
LEMMA FreedFacts ==
  ASSUME StructsInv, NEW a \in Structs, NEW side \in Sides
  PROVE  /\ FreedBy(side, a) \in [Blocks -> {"free", "misfreed"} \union Sides]
         /\ \A b \in pointsTo[a] :
              /\ FreedBy(side, a)[b] \in {"free", "misfreed"}
              /\ FreedBy(side, a)[b] = "misfreed" => sides[a] \ {side} # {}
         /\ \A b \in Blocks \ pointsTo[a] : FreedBy(side, a)[b] = memory[b]
<1> USE DEF StructsInv, StructsTypeOK, FromItsSides, FreedBy, Sides
<1>1. \A b \in pointsTo[a] : b \in Blocks /\ memory[b] \in sides[a]
  OBVIOUS
<1>2. QED
  BY <1>1

\* A struct that is freed and then is gone or empty keeps the invariant.
LEMMA FreeingKeeps ==
  ASSUME StructsInv, NEW a \in Structs, NEW side \in Sides,
         memory' = FreedBy(side, a),
         pointsTo' = [pointsTo EXCEPT ![a] = {}],
         StructsTypeOK', MarkedByLevers',
         \A c \in Structs \ {a} :
           /\ sides'[c] = sides[c]
           /\ is_schemalist_borrowed(c) => is_schemalist_borrowed(c)'
  PROVE  StructsInv'
<1> USE DEF StructsInv
<1>1. \A c \in Structs : pointsTo'[c] = IF c = a THEN {} ELSE pointsTo[c]
  BY DEF StructsTypeOK
<1>2. Apart'
  BY <1>1 DEF Apart
<1>3. FromItsSides'
  <2>1. ASSUME NEW c \in Structs, NEW b \in pointsTo'[c]
        PROVE  /\ memory'[b] \in sides'[c]
               /\ memory'[b] = "levers" => is_schemalist_borrowed(c)'
    <3>1. c # a /\ b \in pointsTo[c] /\ b \in Blocks \ pointsTo[a]
      BY <1>1, <2>1 DEF Apart, StructsTypeOK
    <3>2. memory'[b] = memory[b]
      BY <3>1, FreedFacts
    <3>3. QED
      BY <3>1, <3>2 DEF FromItsSides
  <2>2. QED
    BY <2>1 DEF FromItsSides
<1>4. QED
  BY <1>2, <1>3

\* So does one that is filled, with memory that nothing points to.
LEMMA FillingKeeps ==
  ASSUME StructsInv, NEW a \in Structs, NEW side \in Sides, NEW mem,
         mem \in {memory, FreedBy("engine", a)},
         FilledBy(side, a, mem), UNCHANGED typeOf,
         schemalist_borrowed_set' \in
           {schemalist_borrowed_set, schemalist_borrowed_set \union {a}},
         is_schemalist_borrowed(a)' => "levers" \in sides'[a],
         side = "levers" => pointsTo'[a] = {} \/ is_schemalist_borrowed(a)'
  PROVE  StructsInv'
<1> USE DEF StructsInv
<1>m. /\ mem \in [Blocks -> {"free", "misfreed"} \union Sides]
      /\ \A b \in Blocks \ pointsTo[a] : mem[b] = memory[b]
  BY FreedFacts DEF Sides, StructsTypeOK
<1>s. \A c \in Structs : sides'[c] = IF c = a THEN sides[a] \union {side} ELSE sides[c]
  BY DEF FilledBy, StructsTypeOK
<1>1. StructsTypeOK'
  <2>1. sides' \in [Structs -> SUBSET Sides]
    BY DEF FilledBy, StructsTypeOK
  <2>2. pointsTo' \in [Structs -> SUBSET Blocks]
    BY DEF FilledBy, StructsTypeOK
  <2>3. memory' \in [Blocks -> {"free", "misfreed"} \union Sides]
    BY <1>m DEF FilledBy
  <2>4. QED
    BY <2>1, <2>2, <2>3 DEF StructsTypeOK
<1>2. \/ /\ pointsTo' = [pointsTo EXCEPT ![a] = {}]
         /\ memory' = mem
      \/ \E b \in Blocks :
           /\ mem[b] = "free"
           /\ pointsTo' = [pointsTo EXCEPT ![a] = {b}]
           /\ memory' = [mem EXCEPT ![b] = side]
  BY DEF FilledBy
<1>3. \A c \in Structs \ {a} :
        /\ pointsTo'[c] = pointsTo[c]
        /\ \A b \in pointsTo[c] : memory'[b] = memory[b] /\ b \notin pointsTo'[a]
  <2>1. TAKE c \in Structs \ {a}
  <2>2. \A b \in pointsTo[c] : b \in Blocks \ pointsTo[a] /\ memory[b] \in Sides
    BY DEF Apart, FromItsSides, StructsTypeOK
  <2>3. \A b \in pointsTo[c] : mem[b] = memory[b] /\ mem[b] # "free"
    BY <1>m, <2>2 DEF Sides
  <2>4. CASE pointsTo' = [pointsTo EXCEPT ![a] = {}] /\ memory' = mem
    BY <2>2, <2>3, <2>4 DEF StructsTypeOK
  <2>5. ASSUME NEW b \in Blocks, mem[b] = "free",
               pointsTo' = [pointsTo EXCEPT ![a] = {b}],
               memory' = [mem EXCEPT ![b] = side]
        PROVE  /\ pointsTo'[c] = pointsTo[c]
               /\ \A d \in pointsTo[c] : memory'[d] = memory[d] /\ d \notin pointsTo'[a]
    BY <1>m, <2>2, <2>3, <2>5 DEF StructsTypeOK
  <2>6. QED
    BY <1>2, <2>4, <2>5
<1>4. \A b \in pointsTo'[a] : memory'[b] = side
  BY <1>2, <1>m DEF StructsTypeOK
<1>5. Apart'
  BY <1>3 DEF Apart
<1>6. FromItsSides'
  BY <1>3, <1>4, <1>s DEF FromItsSides, is_schemalist_borrowed
<1>7. MarkedByLevers'
  BY <1>s DEF MarkedByLevers, is_schemalist_borrowed
<1>8. QED
  BY <1>1, <1>5, <1>6, <1>7

\* Every step keeps the invariant.
LEMMA StepStructs == StructsInv /\ [StructsNext]_structVars => StructsInv'
<1> SUFFICES ASSUME StructsInv, [StructsNext]_structVars PROVE StructsInv'
  OBVIOUS
<1>e. "engine" \in Sides /\ "levers" \in Sides
  BY DEF Sides
<1>1. ASSUME NEW a \in Structs, NewStruct(a) PROVE StructsInv'
  BY <1>1 DEF NewStruct, StructsInv, StructsTypeOK, Apart, FromItsSides, MarkedByLevers,
              is_schemalist_borrowed
<1>2. ASSUME NEW a \in Structs, NEW get \in Gets, GetEngine(get, a) PROVE StructsInv'
  <2> DEFINE mem == IF Frees(get) THEN FreedBy("engine", a) ELSE memory
  <2>1. /\ FilledBy("engine", a, mem) /\ UNCHANGED <<typeOf, schemalist_borrowed_set>>
        /\ mem \in {memory, FreedBy("engine", a)}
    BY <1>2 DEF GetEngine
  <2>2. is_schemalist_borrowed(a)' => "levers" \in sides'[a]
    BY <2>1 DEF StructsInv, MarkedByLevers, is_schemalist_borrowed, FilledBy, StructsTypeOK
  <2> HIDE DEF mem
  <2>3. QED
    BY <1>e, <2>1, <2>2, FillingKeeps
<1>3. ASSUME NEW a \in Structs, NEW get \in Gets, GetLevers(get, a) PROVE StructsInv'
  <2>1. FilledBy("levers", a, memory) /\ UNCHANGED typeOf
    BY <1>3 DEF GetLevers
  <2>2. "levers" \in sides'[a]
    BY <2>1 DEF FilledBy, StructsInv, StructsTypeOK
  <2>3. /\ schemalist_borrowed_set' \in
             {schemalist_borrowed_set, schemalist_borrowed_set \union {a}}
        /\ pointsTo'[a] = {} \/ is_schemalist_borrowed(a)'
    BY <1>3 DEF GetLevers, Mark, is_schemalist_borrowed
  <2>4. QED
    BY <1>e, <2>1, <2>2, <2>3, FillingKeeps
<1>f. ASSUME NEW a \in Structs, NEW side \in Sides, memory' = FreedBy(side, a),
             pointsTo' = [pointsTo EXCEPT ![a] = {}],
             UNCHANGED <<typeOf, schemalist_borrowed_set, sides>>
      PROVE  StructsInv'
  <2>1. StructsTypeOK'
    BY <1>f, FreedFacts DEF StructsInv, StructsTypeOK
  <2>2. MarkedByLevers'
    BY <1>f DEF StructsInv, MarkedByLevers, is_schemalist_borrowed
  <2>3. QED
    BY <1>f, <2>1, <2>2, FreeingKeeps DEF is_schemalist_borrowed
<1>4. ASSUME NEW a \in Structs, Release(a) \/ SchemaListDestroy(a) PROVE StructsInv'
  BY <1>4, <1>e, <1>f DEF Release, SchemaListDestroy
<1>5. ASSUME NEW a \in Structs, GcStruct(a) PROVE StructsInv'
  <2> DEFINE side == IF is_schemalist_borrowed(a) THEN "levers" ELSE "engine"
  <2>1. side \in Sides /\ memory' = FreedBy(side, a)
    BY <1>5, <1>e DEF GcStruct
  <2> HIDE DEF side
  <2>2. StructsTypeOK'
    BY <1>5, <2>1, FreedFacts DEF GcStruct, Unmark, StructsInv, StructsTypeOK
  <2>3. MarkedByLevers'
    BY <1>5 DEF GcStruct, Unmark, StructsInv, StructsTypeOK, MarkedByLevers,
                is_schemalist_borrowed
  <2>4. /\ pointsTo' = [pointsTo EXCEPT ![a] = {}]
        /\ \A c \in Structs \ {a} :
             /\ sides'[c] = sides[c]
             /\ is_schemalist_borrowed(c) => is_schemalist_borrowed(c)'
    BY <1>5 DEF GcStruct, Unmark, StructsInv, StructsTypeOK, is_schemalist_borrowed
  <2>5. QED
    BY <2>1, <2>2, <2>3, <2>4, FreeingKeeps
<1>6. CASE UNCHANGED structVars
  BY <1>6 DEF structVars, StructsInv, StructsTypeOK, Apart, FromItsSides, MarkedByLevers,
              is_schemalist_borrowed
<1>7. QED
  BY <1>1, <1>2, <1>3, <1>4, <1>5, <1>6 DEF StructsNext

-----------------------------------------------------------------------------
\* The invariant holds whatever is called on the structs.
THEOREM StructsInvariant == StructsSpec => []StructsInv
BY InitStructs, StepStructs, PTL DEF StructsSpec

\* Every variable keeps its type.
THEOREM StructsTypes == StructsSpec => []StructsTypeOK
<1>1. StructsInv => StructsTypeOK
  BY DEF StructsInv
<1>2. QED
  BY <1>1, StructsInvariant, PTL

\* What the functions that free a struct pointed to is not lost.
LEMMA FreedNotLost ==
  ASSUME StructsInv, NEW a \in Structs, NEW side \in Sides,
         memory' = FreedBy(side, a), pointsTo' = [pointsTo EXCEPT ![a] = {}],
         NEW b \in Blocks, ~LostBlock(b)
  PROVE  ~LostBlock(b)'
<1>1. CASE b \in pointsTo[a]
  BY <1>1, FreedFacts DEF LostBlock, Sides
<1>2. CASE b \notin pointsTo[a]
  <2>1. memory'[b] = memory[b]
    BY <1>2, FreedFacts
  <2>2. QED
    BY <1>2, <2>1 DEF LostBlock, StructsInv, StructsTypeOK
<1>3. QED
  BY <1>1, <1>2

\* Nor is what a struct points to that is freed and filled again.
LEMMA RefilledNotLost ==
  ASSUME StructsInv, NEW a \in Structs, FilledBy("engine", a, FreedBy("engine", a)),
         NEW b \in Blocks, ~LostBlock(b)
  PROVE  ~LostBlock(b)'
<1> DEFINE mem == FreedBy("engine", a)
<1>1. /\ mem \in [Blocks -> {"free", "misfreed"} \union Sides]
      /\ b \in pointsTo[a] => mem[b] \notin Sides
      /\ b \notin pointsTo[a] => mem[b] = memory[b]
  BY FreedFacts DEF Sides
<1> HIDE DEF mem
<1>2. CASE b \in pointsTo'[a]
  BY <1>2 DEF LostBlock
<1>3. CASE b \notin pointsTo'[a]
  <2>1. memory'[b] = mem[b] /\ \A c \in Structs \ {a} : pointsTo'[c] = pointsTo[c]
    BY <1>1, <1>3 DEF FilledBy, mem, StructsInv, StructsTypeOK
  <2>2. QED
    BY <1>1, <2>1 DEF LostBlock
<1>4. QED
  BY <1>2, <1>3

\* Filling one struct loses no memory but what that struct pointed to.
LEMMA FilledLoses ==
  ASSUME StructsInv, NEW a \in Structs, NEW side \in Sides, FilledBy(side, a, memory),
         NEW b \in Blocks, ~LostBlock(b), LostBlock(b)'
  PROVE  b \in pointsTo[a]
<1>1. \A c \in Structs \ {a} : pointsTo'[c] = pointsTo[c]
  BY DEF FilledBy, StructsInv, StructsTypeOK
<1>2. b \notin pointsTo'[a]
  BY DEF LostBlock
<1>3. memory'[b] = memory[b]
  BY <1>2 DEF FilledBy, StructsInv, StructsTypeOK
<1>4. QED
  BY <1>1, <1>3 DEF LostBlock

\* However programs fill, free and drop structs of however many types at however
\* many addresses, only get_commit and the levers' get functions lose memory: what
\* the struct they are given points to.
THEOREM OnlyRefillLoses == StructsSpec => LostOnlyByRefill
<1> DEFINE Refill(b) ==
      \E a \in Structs :
        /\ b \in pointsTo[a]
        /\ \E get \in {"get_commit"} \union LeversGets : GetEngine(get, a) \/ GetLevers(get, a)
<1>1. ASSUME StructsInv, StructsNext, NEW b \in Blocks, ~LostBlock(b), LostBlock(b)'
      PROVE  Refill(b)
  <2>e. "engine" \in Sides /\ "levers" \in Sides
    BY DEF Sides
  <2>1. ASSUME NEW a \in Structs, NewStruct(a) PROVE FALSE
    BY <1>1, <2>1 DEF NewStruct, LostBlock
  <2>2. ASSUME NEW a \in Structs, NEW get \in Gets, GetEngine(get, a) PROVE Refill(b)
    <3>1. CASE Frees(get)
      BY <1>1, <2>2, <3>1, RefilledNotLost DEF GetEngine
    <3>2. CASE ~Frees(get)
      <4>1. get = "get_commit"
        BY <2>2, <3>2 DEF GetEngine, Gets, GetsOf, StructClasses, Frees
      <4>2. b \in pointsTo[a]
        BY <1>1, <2>e, <2>2, <3>2, FilledLoses DEF GetEngine
      <4>3. QED
        BY <2>2, <4>1, <4>2
    <3>3. QED
      BY <3>1, <3>2
  <2>3. ASSUME NEW a \in Structs, NEW get \in Gets, GetLevers(get, a) PROVE Refill(b)
    <3>1. b \in pointsTo[a]
      BY <1>1, <2>e, <2>3, FilledLoses DEF GetLevers
    <3>2. QED
      BY <2>3, <3>1 DEF GetLevers
  <2>4. ASSUME NEW a \in Structs, Release(a) \/ SchemaListDestroy(a) PROVE FALSE
    BY <1>1, <2>e, <2>4, FreedNotLost DEF Release, SchemaListDestroy
  <2>5. ASSUME NEW a \in Structs, GcStruct(a) PROVE FALSE
    <3>1. PICK side \in Sides : memory' = FreedBy(side, a)
      BY <2>e, <2>5 DEF GcStruct
    <3>2. QED
      BY <1>1, <2>5, <3>1, FreedNotLost DEF GcStruct
  <2>6. QED
    BY <1>1, <2>1, <2>2, <2>3, <2>4, <2>5 DEF StructsNext
<1>2. StructsInv /\ [StructsNext]_structVars =>
        [\A b \in Blocks : ~LostBlock(b) /\ LostBlock(b)' => Refill(b)]_structVars
  BY <1>1
<1>3. QED
  BY <1>2, StructsInvariant, PTL DEF StructsSpec, LostOnlyByRefill

\* Each side frees what it allocated, at however many addresses and however often
\* those are used again, but in a list that both sides have filled.
THEOREM OwnersFree == StructsSpec => MisfreedOnlyIfShared
<1> DEFINE Allowed(b) == \E a \in Structs : b \in pointsTo[a] /\ Shared(a)
<1>1. ASSUME StructsInv, StructsNext,
             NEW b \in Blocks, memory[b] # "misfreed", memory[b]' = "misfreed"
      PROVE  Allowed(b)
  <2>1. ASSUME NEW a \in Structs, NewStruct(a) PROVE FALSE
    BY <1>1, <2>1 DEF NewStruct
  <2>2. ASSUME NEW a \in Structs, NEW get \in Gets, GetEngine(get, a) PROVE Allowed(b)
    <3>1. FilledBy("engine", a, IF Frees(get) THEN FreedBy("engine", a) ELSE memory)
      BY <2>2 DEF GetEngine
    <3>2. FreedBy("engine", a)[b] = "misfreed"
      BY <1>1, <3>1 DEF FilledBy, StructsInv, StructsTypeOK, FreedBy
    <3>3. b \in pointsTo[a] /\ sides[a] \ {"engine"} # {}
      BY <1>1, <3>2, FreedFacts DEF Sides
    <3>4. sides'[a] = sides[a] \union {"engine"} /\ sides[a] \subseteq Sides
      BY <1>1, <3>1 DEF FilledBy, StructsInv, StructsTypeOK
    <3>5. sides'[a] = Sides
      BY <3>3, <3>4 DEF Sides
    <3>6. QED
      BY <3>3, <3>5 DEF Shared
  <2>3. ASSUME NEW a \in Structs, NEW get \in Gets, GetLevers(get, a) PROVE FALSE
    BY <1>1, <2>3 DEF GetLevers, FilledBy, StructsInv, StructsTypeOK
  <2>4. ASSUME NEW a \in Structs, Release(a) \/ SchemaListDestroy(a) PROVE FALSE
    BY <1>1, <2>4 DEF Release, SchemaListDestroy, FreedBy
  <2>5. ASSUME NEW a \in Structs, GcStruct(a) PROVE Allowed(b)
    <3>1. b \in pointsTo[a] /\ memory[b] \in sides[a] /\ sides[a] \subseteq Sides
      BY <1>1, <2>5 DEF GcStruct, FreedBy, StructsInv, StructsTypeOK, FromItsSides
    <3>2. memory[b] # IF is_schemalist_borrowed(a) THEN "levers" ELSE "engine"
      BY <1>1, <2>5, <3>1 DEF GcStruct, FreedBy
    <3>3. is_schemalist_borrowed(a) /\ memory[b] = "engine"
      BY <1>1, <3>1, <3>2 DEF StructsInv, FromItsSides, Sides
    <3>4. "levers" \in sides[a] /\ "engine" \in sides[a]
      BY <1>1, <3>1, <3>3 DEF StructsInv, MarkedByLevers
    <3>5. sides[a] = Sides
      BY <3>1, <3>4 DEF Sides
    <3>6. QED
      BY <3>1, <3>5 DEF Shared
  <2>6. QED
    BY <1>1, <2>1, <2>2, <2>3, <2>4, <2>5 DEF StructsNext
<1>2. StructsInv /\ [StructsNext]_structVars =>
        [\A b \in Blocks : memory[b] # "misfreed" /\ memory[b]' = "misfreed" => Allowed(b)]_structVars
  BY <1>1
<1>3. QED
  BY <1>2, StructsInvariant, PTL DEF StructsSpec, MisfreedOnlyIfShared

-----------------------------------------------------------------------------
(***************************************************************************)
(* The library.  That no finalizer calls into an unloaded one rests on the *)
(* order of the finalizers: the sentinel is the first to be marked and is  *)
(* marked once, so it is the last to be finalized.                         *)
(***************************************************************************)
\* The sentinel comes first and nowhere else, whenever there are finalizers.
SentinelFirst ==
  /\ lua = "none" => finalizers = <<>>
  /\ lua = "open" => finalizers # <<>>
  /\ \A k \in 1..Len(finalizers) : finalizers[k] = library <=> k = 1

\* Until it is finalized, librime stays as require has found it, and so does the
\* api of the handles that have one; a started engine has such a handle.
LibraryKept ==
  /\ finalizers # <<>> => rime_api \/ missing
  /\ \A k \in 1..Len(finalizers) : finalizers[k] \in Apis => rime_api
  /\ engine = "started" => \E k \in 1..Len(finalizers) : finalizers[k] \in Apis

EngineInv ==
  /\ EngineTypeOK
  /\ SentinelFirst
  /\ LibraryKept
  /\ fault # "unloaded"

USE EngineLifecycleAssumption DEF EngineLifecycleAssumption

-----------------------------------------------------------------------------
\* What is left when the k-th finalizer has been called.
LEMMA RemovedFacts ==
  ASSUME NEW S, NEW s \in Seq(S), NEW k \in 1..Len(s)
  PROVE  /\ RemoveAt(s, k) \in Seq(S)
         /\ Len(RemoveAt(s, k)) = Len(s) - 1
         /\ \A j \in 1..(Len(s) - 1) :
              RemoveAt(s, k)[j] = IF j < k THEN s[j] ELSE s[j + 1]
<1> DEFINE before == SubSeq(s, 1, k - 1)
           after == SubSeq(s, k + 1, Len(s))
<1>1. /\ before \in Seq(S) /\ Len(before) = k - 1
      /\ \A j \in 1..(k - 1) : before[j] = s[j]
  <2>1. \A j \in 1..(k - 1) : s[j] \in S
    OBVIOUS
  <2>2. QED
    BY <2>1, SubSeqProperties
<1>2. /\ after \in Seq(S) /\ Len(after) = Len(s) - k
      /\ \A j \in 1..(Len(s) - k) : after[j] = s[k + j]
  <2>1. k + 1 \in Int /\ Len(s) \in Int /\ \A j \in (k + 1)..Len(s) : s[j] \in S
    OBVIOUS
  <2>2. /\ after \in Seq(S)
        /\ Len(after) = IF k + 1 <= Len(s) THEN Len(s) - (k + 1) + 1 ELSE 0
        /\ \A j \in 1..(Len(s) - (k + 1) + 1) : after[j] = s[k + 1 + j - 1]
    BY <2>1, SubSeqProperties
  <2> HIDE DEF after
  <2>3. QED
    BY <2>1, <2>2
<1> HIDE DEF before, after
<1>3. /\ before \o after \in Seq(S)
      /\ Len(before \o after) = Len(before) + Len(after)
      /\ \A j \in 1..(Len(before) + Len(after)) : (before \o after)[j] =
           IF j <= Len(before) THEN before[j] ELSE after[j - Len(before)]
  <2>1. before \in Seq(S) /\ after \in Seq(S)
    BY <1>1, <1>2
  <2>2. QED
    BY <2>1, ConcatProperties, Zenon
<1>4. RemoveAt(s, k) = before \o after
  BY DEF RemoveAt, before, after
<1>5. Len(s) \in Nat /\ k \in Nat /\ Len(before) + Len(after) = Len(s) - 1
  BY <1>1, <1>2
<1>6. ASSUME NEW j \in 1..(Len(s) - 1)
      PROVE  (before \o after)[j] = IF j < k THEN s[j] ELSE s[j + 1]
  <2>1. j \in Nat /\ (before \o after)[j] = IF j <= k - 1 THEN before[j] ELSE after[j - (k - 1)]
    BY <1>1, <1>3, <1>5
  <2>2. CASE j < k
    BY <1>1, <1>5, <2>1, <2>2
  <2>3. CASE j >= k
    <3>1. j - (k - 1) \in 1..(Len(s) - k) /\ k + (j - (k - 1)) = j + 1
      BY <1>5, <2>1, <2>3
    <3>2. QED
      BY <1>2, <1>5, <2>1, <2>3, <3>1
  <2>4. QED
    BY <1>5, <2>1, <2>2, <2>3
<1>7. QED
  BY <1>3, <1>4, <1>5, <1>6

\* The last finalizer and those before it.
LEMMA FrontFacts ==
  ASSUME NEW S, NEW s \in Seq(S), s # <<>>
  PROVE  /\ Front(s) \in Seq(S) /\ Len(Front(s)) = Len(s) - 1
         /\ \A j \in 1..(Len(s) - 1) : Front(s)[j] = s[j]
         /\ Last(s) = s[Len(s)] /\ Len(s) \in 1..Len(s)
<1>1. Len(s) \in Nat /\ Len(s) # 0
  OBVIOUS
<1>2. 1 \in Int /\ Len(s) - 1 \in Int /\ \A j \in 1..(Len(s) - 1) : s[j] \in S
  BY <1>1
<1> DEFINE front == SubSeq(s, 1, Len(s) - 1)
           n == Len(s) - 1
<1>3. /\ front \in Seq(S)
      /\ Len(front) = IF 1 <= n THEN n - 1 + 1 ELSE 0
      /\ \A j \in 1..(n - 1 + 1) : front[j] = s[1 + j - 1]
  BY <1>2, SubSeqProperties
<1>4. Front(s) = front /\ Last(s) = s[Len(s)]
  BY DEF Front, Last
<1>5. n \in Nat /\ Len(s) = n + 1
  BY <1>1
<1> HIDE DEF front, n
<1>6. Len(front) = n /\ \A j \in 1..n : front[j] = s[j]
  BY <1>3, <1>5
<1>7. Len(s) - 1 = n /\ Len(s) \in 1..Len(s)
  BY <1>5
<1>8. QED
  BY <1>3, <1>4, <1>6, <1>7

\* A userdata that is marked comes last.
LEMMA MarkedFacts ==
  ASSUME EngineInv, NEW u \in Finalizable, finalizers' = Append(finalizers, u)
  PROVE  /\ finalizers' \in Seq(Finalizable) /\ finalizers' # <<>>
         /\ Len(finalizers') = Len(finalizers) + 1
         /\ \A k \in 1..Len(finalizers) : finalizers'[k] = finalizers[k]
         /\ finalizers'[Len(finalizers) + 1] = u
BY AppendProperties DEF EngineInv, EngineTypeOK

-----------------------------------------------------------------------------
\* No variables but these are in the invariant.
LEMMA SameFinalizers ==
  ASSUME EngineInv, EngineTypeOK', fault' # "unloaded",
         UNCHANGED <<lua, rime_api, missing, finalizers>>,
         engine' = "started" => \E k \in 1..Len(finalizers) : finalizers[k] \in Apis
  PROVE  EngineInv'
BY DEF EngineInv, SentinelFirst, LibraryKept

\* require keeps the invariant.
LEMMA RequireStep == ASSUME EngineInv, luaopen_rimeapi_lua PROVE EngineInv'
<1> USE DEF luaopen_rimeapi_lua
<1>1. rime_api' \in BOOLEAN /\ missing' \in BOOLEAN /\ (rime_api' \/ missing' \/ (rime_api /\ UNCHANGED rime_api))
  BY DEF ensure_rime_api, EngineInv, EngineTypeOK
<1>2. rime_api => rime_api'
  BY DEF ensure_rime_api
<1>3. CASE finalizers = <<>>
  <2>1. ~HasSentinel
    BY <1>3 DEF HasSentinel, Exists, ToSet
  <2>2. finalizers' = Append(finalizers, library)
    BY <2>1 DEF ensure_librime_gc
  <2>3. library \in Finalizable
    BY DEF Finalizable
  <2>4. /\ finalizers' \in Seq(Finalizable) /\ finalizers' # <<>>
        /\ Len(finalizers') = 1 /\ finalizers'[1] = library
    BY <1>3, <2>2, <2>3, MarkedFacts
  <2>5. engine # "started"
    BY <1>3 DEF EngineInv, LibraryKept
  <2>6. QED
    BY <1>1, <2>4, <2>5 DEF EngineInv, EngineTypeOK, SentinelFirst, LibraryKept
<1>4. CASE finalizers # <<>>
  <2>1. 1 \in DOMAIN finalizers /\ finalizers[1] = library
    BY <1>4 DEF EngineInv, EngineTypeOK, SentinelFirst
  <2>2. HasSentinel
    BY <2>1 DEF HasSentinel, Exists, ToSet
  <2>3. finalizers' = finalizers
    BY <2>2 DEF ensure_librime_gc
  <2>4. QED
    BY <1>1, <1>2, <1>4, <2>3 DEF EngineInv, EngineTypeOK, SentinelFirst, LibraryKept
<1>5. QED
  BY <1>3, <1>4

\* So does the making of a handle or a struct.
LEMMA MakeStep ==
  ASSUME EngineInv, NEW u \in Apis \union Results, lua = "open",
         finalizers' = Append(finalizers, u), u \in Apis => rime_api,
         fault' \in {"none", "missing"},
         UNCHANGED <<lua, rime_api, missing, engine, traits>>
  PROVE  EngineInv'
<1>1. u \in Finalizable /\ u # library
  BY DEF Finalizable
<1>2. /\ finalizers' \in Seq(Finalizable) /\ finalizers' # <<>>
      /\ Len(finalizers') = Len(finalizers) + 1
      /\ \A k \in 1..Len(finalizers) : finalizers'[k] = finalizers[k]
      /\ finalizers'[Len(finalizers) + 1] = u
  BY <1>1, MarkedFacts
<1>3. Len(finalizers) \in Nat /\ finalizers # <<>> /\ Len(finalizers) # 0
  BY DEF EngineInv, EngineTypeOK, SentinelFirst
<1>4. EngineTypeOK'
  BY <1>2 DEF EngineInv, EngineTypeOK
<1>5. SentinelFirst'
  BY <1>1, <1>2, <1>3 DEF EngineInv, SentinelFirst
<1>6. LibraryKept'
  BY <1>2, <1>3 DEF EngineInv, LibraryKept
<1>7. QED
  BY <1>4, <1>5, <1>6 DEF EngineInv

\* When nothing is left to be finalized, it is enough that the engine is stopped.
LEMMA NothingLeft ==
  ASSUME finalizers' = <<>>, lua' = "closing", engine' # "started"
  PROVE  SentinelFirst' /\ LibraryKept'
<1>1. 1..Len(finalizers') = {}
  OBVIOUS
<1>2. QED
  BY <1>1 DEF SentinelFirst, LibraryKept

\* And the finalizer of a userdata that is removed from its place, if the
\* sentinel goes only when nothing else is left.
LEMMA FinalizeStep ==
  ASSUME EngineInv, NEW k \in 1..Len(finalizers), Finalize(finalizers[k]),
         finalizers' \in Seq(Finalizable), Len(finalizers') = Len(finalizers) - 1,
         \A j \in 1..(Len(finalizers) - 1) :
           finalizers'[j] = IF j < k THEN finalizers[j] ELSE finalizers[j + 1],
         k = 1 => Len(finalizers) = 1 /\ lua = "closing",
         lua # "none",
         UNCHANGED <<lua, missing, traits>>
  PROVE  EngineInv'
<1> DEFINE u == finalizers[k]
<1>1. Len(finalizers) \in Nat /\ finalizers # <<>> /\ (u = library <=> k = 1)
  BY DEF EngineInv, EngineTypeOK, SentinelFirst
<1>2. rime_api \/ missing
  BY <1>1 DEF EngineInv, LibraryKept
<1>3. CASE k = 1
  <2>1. rime_api' = FALSE /\ UNCHANGED <<engine, fault>>
    BY <1>1, <1>3 DEF Finalize
  <2>2. Len(finalizers) = 1 /\ finalizers[1] = library /\ library \notin Apis
    BY <1>1, <1>3
  <2>3. engine # "started"
    BY <2>2 DEF EngineInv, LibraryKept
  <2>4. QED
    <3>1. Len(finalizers') = 0 /\ finalizers' = <<>>
      BY <2>2
    <3>2. EngineTypeOK'
      BY <2>1 DEF EngineInv, EngineTypeOK
    <3>3. QED
      BY <1>3, <2>1, <2>3, <3>1, <3>2, NothingLeft DEF EngineInv
<1>4. CASE k # 1
  <2>1. fault' = Faults /\ UNCHANGED rime_api
    BY <1>1, <1>4 DEF Finalize
  <2>2. fault' \in {"none", "missing"}
    BY <1>2, <2>1 DEF Faults
  <2>3. engine' \in {"stopped", engine} /\ (u \in Apis => engine' = "stopped")
    BY <1>1, <1>4 DEF Finalize, DeleteApi, EngineInv, LibraryKept
  <2>4. EngineTypeOK'
    BY <2>1, <2>2, <2>3 DEF EngineInv, EngineTypeOK
  <2>5. finalizers' # <<>>
    BY <1>1, <1>4
  <2>6. SentinelFirst'
    BY <1>1, <1>4, <2>5 DEF EngineInv, SentinelFirst
  <2>7. ASSUME engine' = "started"
        PROVE  \E j \in 1..Len(finalizers') : finalizers'[j] \in Apis
    <3>1. PICK i \in 1..Len(finalizers) : finalizers[i] \in Apis
      BY <2>3, <2>7 DEF EngineInv, LibraryKept
    <3>2. i # k
      BY <2>3, <2>7, <3>1
    <3>3. CASE i < k
      BY <1>1, <3>1, <3>3
    <3>4. CASE i > k
      <4>1. i - 1 \in 1..Len(finalizers') /\ finalizers'[i - 1] = finalizers[i]
        BY <1>1, <3>1, <3>4
      <4>2. QED
        BY <3>1, <4>1
    <3>5. QED
      BY <1>1, <3>1, <3>2, <3>3, <3>4
  <2>8. LibraryKept'
    BY <1>1, <1>2, <2>1, <2>7 DEF EngineInv, LibraryKept
  <2>9. QED
    BY <2>2, <2>4, <2>6, <2>8 DEF EngineInv
<1>5. QED
  BY <1>3, <1>4

\* Every step keeps the invariant.
LEMMA StepEngine == EngineInv /\ [EngineNext]_engineVars => EngineInv'
<1> SUFFICES ASSUME EngineInv, [EngineNext]_engineVars PROVE EngineInv'
  OBVIOUS
<1>1. CASE luaopen_rimeapi_lua
  BY <1>1, RequireStep
<1>2. ASSUME NEW h \in Apis, MakeApi(h) PROVE EngineInv'
  <2>1. lua = "open" /\ finalizers # <<>>
    BY <1>2 DEF MakeApi, StateOpen, EngineInv, SentinelFirst
  <2>2. fault' \in {"none", "missing"}
    BY <1>2, <2>1 DEF MakeApi, Faults, EngineInv, LibraryKept
  <2>3. CASE rime_api
    BY <1>2, <2>1, <2>2, <2>3, MakeStep DEF MakeApi
  <2>4. CASE ~rime_api
    BY <1>2, <2>2, <2>4, SameFinalizers DEF MakeApi, EngineInv, EngineTypeOK, LibraryKept
  <2>5. QED
    BY <2>3, <2>4
<1>3. ASSUME NEW s \in Results, MakeStruct(s) PROVE EngineInv'
  <2>1. lua = "open" /\ fault' = "none" /\ finalizers' = Append(finalizers, s)
    BY <1>3 DEF MakeStruct, StateOpen
  <2>2. s \in Apis => rime_api
    OBVIOUS
  <2>3. QED
    BY <1>3, <2>1, <2>2, MakeStep DEF MakeStruct
<1>4. ASSUME NEW h \in Apis, Initialize(h) \/ Stop(h) PROVE EngineInv'
  <2>1. \E k \in 1..Len(finalizers) : finalizers[k] \in Apis
    BY <1>4 DEF Initialize, Stop, Exists, ToSet, EngineInv, EngineTypeOK
  <2>2. fault' # "unloaded" /\ EngineTypeOK'
    BY <1>4 DEF Initialize, Stop, EngineInv, EngineTypeOK
  <2>3. QED
    BY <1>4, <2>1, <2>2, SameFinalizers DEF Initialize, Stop
<1>5. ASSUME NEW f \in Fields, SetMember(f) \/ CollectString(f) \/ GetMember(f)
      PROVE  EngineInv'
  <2>1. fault' # "unloaded" /\ EngineTypeOK'
    BY <1>5 DEF SetMember, CollectString, GetMember, EngineInv, EngineTypeOK
  <2>2. UNCHANGED <<lua, rime_api, missing, finalizers, engine>>
    BY <1>5 DEF SetMember, CollectString, GetMember
  <2>3. QED
    BY <2>1, <2>2, SameFinalizers DEF EngineInv, LibraryKept
<1>6. ASSUME NEW u \in Apis \union Results, CollectUserdata(u) PROVE EngineInv'
  <2>1. PICK k \in DOMAIN finalizers : finalizers[k] = u /\ finalizers' = RemoveAt(finalizers, k)
    BY <1>6 DEF CollectUserdata
  <2>2. finalizers \in Seq(Finalizable) /\ k \in 1..Len(finalizers) /\ k # 1
    BY <1>6, <2>1 DEF CollectUserdata, EngineInv, EngineTypeOK, SentinelFirst
  <2>3. QED
    <3>1. /\ finalizers' \in Seq(Finalizable) /\ Len(finalizers') = Len(finalizers) - 1
          /\ \A j \in 1..(Len(finalizers) - 1) :
               finalizers'[j] = IF j < k THEN finalizers[j] ELSE finalizers[j + 1]
      BY <2>1, <2>2, RemovedFacts
    <3>2. /\ Finalize(finalizers[k]) /\ lua = "open"
          /\ UNCHANGED <<lua, missing, traits>>
      BY <1>6, <2>1 DEF CollectUserdata, StateOpen
    <3>3. QED
      BY <2>2, <3>1, <3>2, FinalizeStep
<1>7. CASE CloseState
  BY <1>7 DEF CloseState, EngineInv, EngineTypeOK, SentinelFirst, LibraryKept
<1>8. CASE CloseStep
  <2>1. finalizers \in Seq(Finalizable) /\ finalizers # <<>> /\ lua = "closing"
    BY <1>8 DEF CloseStep, EngineInv, EngineTypeOK
  <2>2. /\ Len(finalizers) \in 1..Len(finalizers)
        /\ Finalize(finalizers[Len(finalizers)])
        /\ finalizers' \in Seq(Finalizable) /\ Len(finalizers') = Len(finalizers) - 1
        /\ \A j \in 1..(Len(finalizers) - 1) : finalizers'[j] = finalizers[j]
    BY <1>8, <2>1, FrontFacts DEF CloseStep
  <2>3. \A j \in 1..(Len(finalizers) - 1) : finalizers'[j] =
          IF j < Len(finalizers) THEN finalizers[j] ELSE finalizers[j + 1]
    BY <2>1, <2>2
  <2>4. UNCHANGED <<lua, missing, traits>>
    BY <1>8 DEF CloseStep
  <2>5. QED
    BY <2>1, <2>2, <2>3, <2>4, FinalizeStep
<1>9. CASE StateClosed
  BY <1>9 DEF StateClosed, EngineInv, EngineTypeOK, SentinelFirst, LibraryKept
<1>10. CASE UNCHANGED engineVars
  BY <1>10 DEF engineVars, EngineInv, EngineTypeOK, SentinelFirst, LibraryKept
<1>11. QED
  BY <1>1, <1>2, <1>3, <1>4, <1>5, <1>6, <1>7, <1>8, <1>9, <1>10 DEF EngineNext

-----------------------------------------------------------------------------
\* The invariant holds from the first require on.
THEOREM EngineInvariant == EngineSpec => []EngineInv
<1>1. EngineInit => EngineInv
  <2> SUFFICES ASSUME EngineInit PROVE EngineInv
    OBVIOUS
  <2>1. finalizers \in Seq(Finalizable) /\ Len(finalizers) = 0
    BY DEF EngineInit
  <2>2. QED
    <3>1. EngineTypeOK
      BY <2>1 DEF EngineInit, EngineTypeOK
    <3>2. SentinelFirst
      BY <2>1 DEF EngineInit, SentinelFirst
    <3>3. LibraryKept
      BY <2>1 DEF EngineInit, LibraryKept
    <3>4. QED
      BY <3>1, <3>2, <3>3 DEF EngineInit, EngineInv
<1>2. QED
  BY <1>1, StepEngine, PTL DEF EngineSpec

\* However many handles and results there are, and in whatever order they are
\* made, dropped and finalized, none calls into a library that is gone, and the
\* engine has been stopped before librime is unloaded.
THEOREM LibraryStays == EngineSpec => []LibraryOutlivesObjects
<1>1. EngineInv => LibraryOutlivesObjects
  BY DEF EngineInv, LibraryKept, LibraryOutlivesObjects
<1>2. QED
  BY <1>1, EngineInvariant, PTL
===============================================================================
