------------------------------ MODULE LuaProgram ------------------------------
(***************************************************************************)
(* What one Lua thread does with the native module, all of it: the objects *)
(* it holds, the calls it makes and the functions the module registers.    *)
(*                                                                         *)
(* The parts share no variable, so what one of them reaches, it reaches    *)
(* whatever the others do in between: a behaviour here is one of a single  *)
(* part, chosen at the start, while the others rest.                       *)
(***************************************************************************)
EXTENDS LuaObjects, ResultStructs, EngineLifecycle, LuaTypes, ApiCalls,
        WrappedCalls, Utf8

VARIABLE part

Parts ==
  {"objects", "structs", "engine", "types", "calls", "wrapped", "utf8"}

programVars == <<part, allVars, structVars, engineVars, typeVars, callVars,
                 wrappedVars, utf8Vars>>

ProgramInit ==
  /\ part \in Parts
  /\ ObjectsInit /\ StructsInit /\ EngineInit /\ TypesInit
  /\ CallsInit /\ WrappedInit /\ Utf8Init

ObjectsStep ==
  /\ part = "objects" /\ ObjectsNext
  /\ UNCHANGED <<part, structVars, engineVars, typeVars, callVars, wrappedVars,
                 utf8Vars>>

StructsStep ==
  /\ part = "structs" /\ StructsNext
  /\ UNCHANGED <<part, allVars, engineVars, typeVars, callVars, wrappedVars,
                 utf8Vars>>

EngineStep ==
  /\ part = "engine" /\ EngineNext
  /\ UNCHANGED <<part, allVars, structVars, typeVars, callVars, wrappedVars,
                 utf8Vars>>

TypesStep ==
  /\ part = "types" /\ TypesNext
  /\ UNCHANGED <<part, allVars, structVars, engineVars, callVars, wrappedVars,
                 utf8Vars>>

CallsStep ==
  /\ part = "calls" /\ CallsNext
  /\ UNCHANGED <<part, allVars, structVars, engineVars, typeVars, wrappedVars,
                 utf8Vars>>

WrappedStep ==
  /\ part = "wrapped" /\ WrappedNext
  /\ UNCHANGED <<part, allVars, structVars, engineVars, typeVars, callVars,
                 utf8Vars>>

Utf8Step ==
  /\ part = "utf8" /\ Utf8Next
  /\ UNCHANGED <<part, allVars, structVars, engineVars, typeVars, callVars,
                 wrappedVars>>

ProgramNext ==
  \/ ObjectsStep \/ StructsStep \/ EngineStep \/ TypesStep
  \/ CallsStep \/ WrappedStep \/ Utf8Step

ProgramSpec == ProgramInit /\ [][ProgramNext]_programVars
-----------------------------------------------------------------------------
\* The type invariants of the parts.
ProgramTypeOK ==
  /\ part \in Parts
  /\ ObjectsTypeOK
  /\ StructsTypeOK
  /\ EngineTypeOK
  /\ CallsTypeOK
===============================================================================
