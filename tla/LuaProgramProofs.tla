--------------------------- MODULE LuaProgramProofs ---------------------------
(***************************************************************************)
(* What is proved of the parts of the native module holds of a Lua thread  *)
(* that uses all of them.                                                  *)
(***************************************************************************)
EXTENDS LuaProgram, LuaObjectsProofs, LuaGlueProofs, Utf8Proofs

\* A step of the program is a step of each part, or leaves the part as it is.
LEMMA StepOfParts ==
  [ProgramNext]_programVars =>
    /\ [ObjectsNext]_allVars
    /\ [StructsNext]_structVars
    /\ [EngineNext]_engineVars
    /\ [TypesNext]_typeVars
    /\ [CallsNext]_callVars
    /\ [WrappedNext]_wrappedVars
    /\ [Utf8Next]_utf8Vars
<1> SUFFICES ASSUME [ProgramNext]_programVars
             PROVE  /\ [ObjectsNext]_allVars
                    /\ [StructsNext]_structVars
                    /\ [EngineNext]_engineVars
                    /\ [TypesNext]_typeVars
                    /\ [CallsNext]_callVars
                    /\ [WrappedNext]_wrappedVars
                                    /\ [Utf8Next]_utf8Vars
  OBVIOUS
<1>1. CASE ObjectsStep
  BY <1>1 DEF ObjectsStep
<1>2. CASE StructsStep
  BY <1>2 DEF StructsStep
<1>3. CASE EngineStep
  BY <1>3 DEF EngineStep
<1>4. CASE TypesStep
  BY <1>4 DEF TypesStep
<1>5. CASE CallsStep
  BY <1>5 DEF CallsStep
<1>6. CASE WrappedStep
  BY <1>6 DEF WrappedStep
<1>7. CASE Utf8Step
  BY <1>7 DEF Utf8Step
<1>8. CASE UNCHANGED programVars
  BY <1>8 DEF programVars
<1>9. QED
  BY <1>1, <1>2, <1>3, <1>4, <1>5, <1>6, <1>7, <1>8 DEF ProgramNext

\* The program runs each part as its specification says.
THEOREM ProgramRunsParts ==
  ProgramSpec =>
    /\ ObjectsSpec /\ StructsSpec /\ EngineSpec /\ TypesSpec
    /\ CallsSpec /\ WrappedSpec /\ Utf8Spec
<1>1. ProgramInit =>
        /\ ObjectsInit /\ StructsInit /\ EngineInit /\ TypesInit
        /\ CallsInit /\ WrappedInit /\ Utf8Init
  BY DEF ProgramInit
<1>2. QED
  BY <1>1, StepOfParts, PTL
  DEF ProgramSpec, ObjectsSpec, StructsSpec, EngineSpec, TypesSpec,
      CallsSpec, WrappedSpec, Utf8Spec

\* A behaviour stays with the part that was chosen.
LEMMA PartKept == ProgramSpec => [](part \in Parts)
<1>1. ProgramInit => part \in Parts
  BY DEF ProgramInit
<1>2. part \in Parts /\ [ProgramNext]_programVars => (part \in Parts)'
  BY DEF ProgramNext, ObjectsStep, StructsStep, EngineStep, TypesStep, CallsStep,
         WrappedStep, Utf8Step, programVars
<1>3. QED
  BY <1>1, <1>2, PTL DEF ProgramSpec

\* The variables of all parts are what they should be.
THEOREM ProgramTyped == ProgramSpec => []ProgramTypeOK
<1>1. EngineSpec => []EngineTypeOK
  <2>1. EngineInv => EngineTypeOK
    BY DEF EngineInv
  <2>2. QED
    BY <2>1, EngineInvariant, PTL
<1>2. ProgramTypeOK <=>
        part \in Parts /\ ObjectsTypeOK /\ StructsTypeOK /\ EngineTypeOK /\ CallsTypeOK
  BY DEF ProgramTypeOK
<1>3. QED
  BY <1>1, <1>2, PartKept, ProgramRunsParts, ObjectsTypes, StructsTypes, CallsTyped, PTL

\* Whatever a Lua thread does with the module, in whatever order it uses the parts:
\* nothing is destroyed twice, used after it is gone, taken for what it is not or
\* left behind, but what the properties name: configurations that
\* settings_get_config overwrites, results that get_commit and the levers do, and
\* lists that both sides fill; and utf8.codes gives the characters of any string,
\* on which the other functions of that library agree with it.
THEOREM PartsSafe ==
  /\ ObjectsSpec /\ StructsSpec /\ EngineSpec /\ TypesSpec
  /\ CallsSpec /\ WrappedSpec /\ Utf8Spec
  => /\ [](SoleOwner /\ SettingsKeepConfig /\ NoStaleBorrow)
     /\ [](NoLeak /\ SoleHandle)
     /\ LostOnlyByRefill /\ MisfreedOnlyIfShared
     /\ []LibraryOutlivesObjects
     /\ [](ConversionsSound /\ CollectedIsDestroyed)
     /\ [](ErrorsLeaveNothing /\ ArgumentsKept)
     /\ []CallsLeaveNothing
     /\ [](CodesSeeCharacters /\ FunctionsAgree)
     /\ LeakOnlyByGetConfig
<1>1. ObjectsSpec =>
        /\ [](SoleOwner /\ SettingsKeepConfig /\ NoStaleBorrow)
        /\ [](NoLeak /\ SoleHandle)
        /\ LeakOnlyByGetConfig
  BY OwnershipKept, NothingLeaks, OneHandle, ImplementsOwnership, OnlyGetConfigLeaks, PTL
<1>2. StructsSpec => LostOnlyByRefill /\ MisfreedOnlyIfShared
  BY OnlyRefillLoses, OwnersFree
<1>3. EngineSpec => []LibraryOutlivesObjects
  BY LibraryStays
<1>4. TypesSpec => [](ConversionsSound /\ CollectedIsDestroyed)
  BY OwnedAreDestroyed, ReadAsWhatItIs, PTL
<1>5. CallsSpec => [](ErrorsLeaveNothing /\ ArgumentsKept)
  BY ErrorsLose, EngineReceives, PTL
<1>6. WrappedSpec => []CallsLeaveNothing
  BY RegistryKept
<1>7. Utf8Spec => [](CodesSeeCharacters /\ FunctionsAgree)
  BY CodesSee, FunctionsAgreed, PTL
<1>8. QED
  BY <1>1, <1>2, <1>3, <1>4, <1>5, <1>6, <1>7

\* So it is for the program that the runs check, whose behaviours are among them.
THEOREM ProgramSafe ==
  ProgramSpec =>
    /\ [](SoleOwner /\ SettingsKeepConfig /\ NoStaleBorrow)
    /\ [](NoLeak /\ SoleHandle)
    /\ LostOnlyByRefill /\ MisfreedOnlyIfShared
    /\ []LibraryOutlivesObjects
    /\ [](ConversionsSound /\ CollectedIsDestroyed)
    /\ [](ErrorsLeaveNothing /\ ArgumentsKept)
    /\ []CallsLeaveNothing
    /\ [](CodesSeeCharacters /\ FunctionsAgree)
    /\ LeakOnlyByGetConfig
<1>1. /\ ObjectsSpec /\ StructsSpec /\ EngineSpec /\ TypesSpec
      /\ CallsSpec /\ WrappedSpec /\ Utf8Spec
      => /\ [](SoleOwner /\ SettingsKeepConfig /\ NoStaleBorrow)
         /\ [](NoLeak /\ SoleHandle)
         /\ LostOnlyByRefill /\ MisfreedOnlyIfShared
         /\ []LibraryOutlivesObjects
         /\ [](ConversionsSound /\ CollectedIsDestroyed)
         /\ [](ErrorsLeaveNothing /\ ArgumentsKept)
         /\ []CallsLeaveNothing
         /\ [](CodesSeeCharacters /\ FunctionsAgree)
         /\ LeakOnlyByGetConfig
  BY PartsSafe
<1>2. QED
  BY <1>1, ProgramRunsParts
===============================================================================
