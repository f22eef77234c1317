---------------------------- MODULE EngineLifecycle ----------------------------
(***************************************************************************)
(* The engine in a process (src/utils.h, src/main.cpp): librime is loaded  *)
(* when the module is first required; every RimeApi() stops the engine     *)
(* when it is collected; a sentinel in the registry unloads librime when   *)
(* the Lua state is closed.  Lua calls finalizers in the reverse order in  *)
(* which their objects were marked for finalization (setmetatable).        *)
(*                                                                         *)
(* A program describes itself to the engine with a RimeTraits, whose       *)
(* strings are those of Lua: the struct has pointers to them.              *)
(***************************************************************************)
EXTENDS Sequences, SequencesExt

CONSTANTS
  Apis,     \* the userdata made by RimeApi()
  Results,  \* the userdata whose finalizers call the engine
  Fields    \* the strings of a RimeTraits

library == "__rime_library_gc"

ASSUME EngineLifecycleAssumption ==
  /\ library \notin Apis \union Results
  /\ Apis \intersect Results = {}

VARIABLES
  lua,        \* "none", "open" or "closing"
  rime_api,   \* it is set, and librime loaded
  missing,    \* the last require did not find librime
  finalizers, \* the userdata with a finalizer, in the order of marking
  engine,     \* "stopped" or "started"
  traits,     \* [Fields -> where its pointer points to]
  fault       \* what ends the process: "none", "missing", "unloaded" or "string"

engineVars == <<lua, rime_api, missing, finalizers, engine, traits, fault>>

StateOpen == lua = "open" /\ fault = "none"
Exists(u) == u \in ToSet(finalizers)

\* A call through rime_api.
Faults == IF rime_api THEN "none" ELSE IF missing THEN "missing" ELSE "unloaded"

EngineInit ==
  /\ lua = "none"
  /\ rime_api = FALSE /\ missing = FALSE
  /\ finalizers = <<>>
  /\ engine = "stopped"
  /\ traits = [f \in Fields |-> "null"]
  /\ fault = "none"

-----------------------------------------------------------------------------
\* get_api: librime and its function are found or not; what was loaded is
\* unloaded again if not.  The assertion behind it is not compiled in a release.
ensure_rime_api ==
  IF rime_api
  THEN UNCHANGED <<rime_api, missing>>
  ELSE rime_api' \in BOOLEAN /\ missing' = ~rime_api'

\* Mutant of HasSentinel: the sentinel is made again by each require.
HasSentinelNever == FALSE

HasSentinel == Exists(library)

ensure_librime_gc ==
  finalizers' = IF HasSentinel THEN finalizers ELSE Append(finalizers, library)

\* require, at the start of a Lua state or again.
luaopen_rimeapi_lua ==
  /\ lua \in {"none", "open"} /\ fault = "none"
  /\ lua' = "open"
  /\ ensure_rime_api
  /\ ensure_librime_gc
  /\ UNCHANGED <<engine, traits, fault>>

\* RimeApi(): without an api the shared_ptr is null, nil is returned, and the
\* deleter is called all the same.
MakeApi(h) ==
  /\ StateOpen /\ ~Exists(h)
  /\ finalizers' = IF rime_api THEN Append(finalizers, h) ELSE finalizers
  /\ fault' = Faults
  /\ UNCHANGED <<lua, rime_api, missing, engine, traits>>

\* RimeCommit(), RimeConfig(), ...
MakeStruct(s) ==
  /\ StateOpen /\ ~Exists(s)
  /\ finalizers' = Append(finalizers, s)
  /\ UNCHANGED <<lua, rime_api, missing, engine, traits, fault>>

-----------------------------------------------------------------------------
\* traits.f = a string: one that something else refers to as well, a literal, or
\* one that nothing does.
SetMember(f) ==
  /\ StateOpen
  /\ \E string \in {"kept", "temporary"} : traits' = [traits EXCEPT ![f] = string]
  /\ UNCHANGED <<lua, rime_api, missing, finalizers, engine, fault>>

CollectString(f) ==
  /\ StateOpen
  /\ traits[f] = "temporary"
  /\ traits' = [traits EXCEPT ![f] = "collected"]
  /\ UNCHANGED <<lua, rime_api, missing, finalizers, engine, fault>>

\* traits.f is read.
GetMember(f) ==
  /\ StateOpen
  /\ fault' = IF traits[f] = "collected" THEN "string" ELSE "none"
  /\ UNCHANGED <<lua, rime_api, missing, finalizers, engine, traits>>

\* api:setup(traits), api:initialize(traits)
Initialize(h) ==
  /\ StateOpen /\ Exists(h)
  /\ fault' = IF "collected" \in {traits[f] : f \in Fields} THEN "string" ELSE "none"
  /\ engine' = "started"
  /\ UNCHANGED <<lua, rime_api, missing, finalizers, traits>>

\* api:finalize()
Stop(h) ==
  /\ StateOpen /\ Exists(h)
  /\ engine' = "stopped"
  /\ UNCHANGED <<lua, rime_api, missing, finalizers, traits, fault>>

-----------------------------------------------------------------------------
\* The deleter of a RimeApi: cleanup_all_sessions, finalize.
DeleteApi(h) == engine' = "stopped"

Finalize(u) ==
  IF u = library
  THEN rime_api' = FALSE /\ UNCHANGED <<engine, fault>>
  ELSE /\ fault' = Faults
       /\ IF u \in Apis /\ rime_api THEN DeleteApi(u) ELSE UNCHANGED engine
       /\ UNCHANGED rime_api

\* The program has dropped u; the sentinel is in the registry.
CollectUserdata(u) ==
  /\ StateOpen
  /\ u # library
  /\ \E k \in DOMAIN finalizers :
       finalizers[k] = u /\ finalizers' = RemoveAt(finalizers, k)
  /\ Finalize(u)
  /\ UNCHANGED <<lua, missing, traits>>

CloseState ==
  /\ StateOpen
  /\ lua' = "closing"
  /\ UNCHANGED <<rime_api, missing, finalizers, engine, traits, fault>>

CloseStep ==
  /\ lua = "closing" /\ fault = "none"
  /\ finalizers # <<>>
  /\ Finalize(Last(finalizers))
  /\ finalizers' = Front(finalizers)
  /\ UNCHANGED <<lua, missing, traits>>

\* The process may open a Lua state again.
StateClosed ==
  /\ lua = "closing" /\ fault = "none"
  /\ finalizers = <<>>
  /\ lua' = "none"
  /\ traits' = [f \in Fields |-> "null"]
  /\ UNCHANGED <<rime_api, missing, finalizers, engine, fault>>

EngineNext ==
  \/ luaopen_rimeapi_lua
  \/ \E h \in Apis : MakeApi(h) \/ Initialize(h) \/ Stop(h)
  \/ \E s \in Results : MakeStruct(s)
  \/ \E f \in Fields : SetMember(f) \/ CollectString(f) \/ GetMember(f)
  \/ \E u \in Apis \union Results : CollectUserdata(u)
  \/ CloseState \/ CloseStep \/ StateClosed

EngineSpec == EngineInit /\ [][EngineNext]_engineVars
-----------------------------------------------------------------------------
Finalizable == Apis \union Results \union {library}

EngineTypeOK ==
  /\ lua \in {"none", "open", "closing"}
  /\ rime_api \in BOOLEAN /\ missing \in BOOLEAN
  /\ finalizers \in Seq(Finalizable)
  /\ engine \in {"stopped", "started"}
  /\ traits \in [Fields -> {"null", "kept", "temporary", "collected"}]
  /\ fault \in {"none", "missing", "unloaded", "string"}

\* Whatever is made and dropped, and however often the module is required, no
\* finalizer calls into a library that has been unloaded; and librime is not
\* unloaded while its engine runs.
LibraryOutlivesObjects ==
  /\ fault # "unloaded"
  /\ engine = "started" => rime_api

\* rimeapi.annotation.lua:115 "---@field shared_data_dir string", and
\* schema_tester.lua:174 "assert_exit(os.mkdir(traits.shared_data_dir) == true)":
\* the strings a traits has been given can be read from it, by the program and
\* by setup and initialize.
TraitsReadable == fault # "string"
================================================================================
