----------------------------- MODULE LuaGlueProofs -----------------------------
(***************************************************************************)
(* Theorems about what stands between Lua and C++, for every set of        *)
(* classes, arguments and functions: LuaTypes, ApiCalls and WrappedCalls.  *)
(***************************************************************************)
EXTENDS LuaTypes, ApiCalls, WrappedCalls, SequenceTheorems, TLAPS

-----------------------------------------------------------------------------
(***************************************************************************)
(* Types.  That owned objects are destroyed rests on what the registry     *)
(* holds: every type that has a userdata has its metatable, and the        *)
(* finalizer of an owning type is its own, whoever registered it, in       *)
(* whatever order.                                                         *)
(***************************************************************************)
\* The finalizer checks another type than that of the objects it is given.
Foreign(t) == t.form = "value" /\ t.const

Finalizers ==
  /\ \A t \in DOMAIN metatables : t \in Types
  /\ \A t \in DOMAIN metatables : Owning(t) /\ ~Foreign(t) => metatables[t].gc = t
  /\ userdata \in [Userdata -> Types \union {Nothing}]
  /\ \A u \in Userdata :
       userdata[u] # Nothing /\ Owning(userdata[u]) => userdata[u] \in DOMAIN metatables

TypesInv == Finalizers /\ CollectedIsDestroyed

USE LuaTypesAssumption DEF LuaTypesAssumption

-----------------------------------------------------------------------------
\* Registering the bindings leaves each owning type its finalizer.
LEMMA RegisterKeeps ==
  ASSUME Finalizers, register_rime_bindings
  PROVE  Finalizers'
<1> DEFINE Given == {e \in Types : Exported(e)}
<1>1. metatables' = [t \in DOMAIN metatables \union Given |->
                       IF Exported(t) THEN lua_export_type(t) ELSE metatables[t]]
  BY DEF register_rime_bindings
<1>2. DOMAIN metatables' = DOMAIN metatables \union Given /\ userdata' = userdata
  BY <1>1 DEF register_rime_bindings
<1>3. ASSUME NEW t \in DOMAIN metatables', Owning(t), ~Foreign(t)
      PROVE  metatables'[t].gc = t
  <2>1. t \in Types
    BY <1>2 DEF Finalizers
  <2>2. CASE t.form = "unique_ptr"
    BY <1>1, <1>2, <1>3, <2>1, <2>2 DEF Exported, Finalizers
  <2>3. CASE t.form # "unique_ptr"
    <3>1. metatables'[t].gc = lua_export_type(t).gc
      BY <1>1, <1>2, <2>3 DEF Exported
    <3>2. ExportedGc(t) = t
      <4>1. CASE t.form = "value"
        BY <1>3, <2>1, <4>1 DEF ExportedGc, Foreign, Types
      <4>2. CASE t.form = "shared_ptr"
        BY <4>2 DEF ExportedGc
      <4>3. QED
        BY <1>3, <2>3, <4>1, <4>2 DEF Owning
    <3>3. QED
      BY <2>1, <3>1, <3>2 DEF lua_export_type
  <2>4. QED
    BY <2>2, <2>3
<1>4. QED
  BY <1>2, <1>3 DEF Finalizers

\* So does the first push of an object of a type.
LEMMA PushKeeps ==
  ASSUME Finalizers, NEW u \in Userdata, NEW t \in Types, pushdata(u, t)
  PROVE  Finalizers'
<1>1. userdata' = [userdata EXCEPT ![u] = t]
  BY DEF pushdata
<1>2. CASE t \in DOMAIN metatables \/ t.form = "reference"
  BY <1>1, <1>2 DEF pushdata, Finalizers, Owning
<1>3. CASE ~(t \in DOMAIN metatables \/ t.form = "reference")
  <2>1. metatables' = [s \in DOMAIN metatables \union {t} |->
               IF s = t THEN [gc |-> FirstGc(t), indexed |-> FALSE] ELSE metatables[s]]
    BY <1>3 DEF pushdata
  <2>2. DOMAIN metatables' = DOMAIN metatables \union {t}
    BY <2>1
  <2>3. metatables'[t].gc = t
    BY <2>1 DEF FirstGc
  <2>4. \A s \in DOMAIN metatables : s # t => metatables'[s] = metatables[s]
    BY <2>1
  <2>5. QED
    BY <1>1, <2>2, <2>3, <2>4 DEF Finalizers
<1>4. QED
  BY <1>2, <1>3

\* Every step keeps the invariant.
LEMMA StepTypesInv == TypesInv /\ [TypesNext]_typeVars => TypesInv'
<1> SUFFICES ASSUME TypesInv, [TypesNext]_typeVars PROVE TypesInv'
  OBVIOUS
<1>1. CASE register_rime_bindings
  BY <1>1, RegisterKeeps DEF TypesInv, register_rime_bindings, CollectedIsDestroyed
<1>2. ASSUME NEW u \in Userdata, NEW t \in Types, pushdata(u, t) PROVE TypesInv'
  BY <1>2, PushKeeps DEF TypesInv, pushdata, CollectedIsDestroyed
<1>3. ASSUME NEW u \in Userdata, gc(u) PROVE TypesInv'
  <2>1. Finalizers'
    BY <1>3 DEF gc, TypesInv, Finalizers
  <2>2. CollectedIsDestroyed'
    BY <1>3 DEF gc, TypesInv, Finalizers, Foreign, CollectedIsDestroyed
  <2>3. QED
    BY <2>1, <2>2 DEF TypesInv
<1>4. CASE UNCHANGED <<metatables, userdata, undestroyed>>
  BY <1>4 DEF TypesInv, Finalizers, CollectedIsDestroyed
<1>5. QED
  BY <1>1, <1>2, <1>3, <1>4 DEF TypesNext, ConvertUserdata, Self, Forget, typeVars

\* No conversion reads an object as something it is not.
LEMMA StepSound == ConversionsSound /\ [TypesNext]_typeVars => ConversionsSound'
<1> SUFFICES ASSUME ConversionsSound, [TypesNext]_typeVars PROVE ConversionsSound'
  OBVIOUS
<1>1. ASSUME NEW u \in Userdata, NEW want \in Types, ConvertUserdata(u, want)
      PROVE  ConversionsSound'
  <2> DEFINE t == userdata[u]
  <2>1. read' = [want |-> want, given |-> t, as |-> todata(want, t)]
    BY <1>1 DEF ConvertUserdata
  <2>2. todata_reference(want, t) # "error" =>
          /\ todata_reference(want, t) = t.form
          /\ t.class = want.class
          /\ t.const => want.const
    BY DEF todata_reference, Is, Types
  <2>3. todata(want, t) # "error" =>
          /\ todata(want, t) = t.form
          /\ t.class = want.class
          /\ t.const => want.const
    BY <2>2 DEF todata, Is, Types
  <2>4. QED
    BY <2>1, <2>3 DEF ConversionsSound
<1>2. ASSUME NEW u \in Userdata, NEW class \in Classes, Self(u, class)
      PROVE  ConversionsSound'
  BY <1>2 DEF Self, smart_shared_ptr_todata, ConversionsSound
<1>3. CASE read' = Nothing \/ read' = read
  BY <1>3 DEF ConversionsSound
<1>4. QED
  BY <1>1, <1>2, <1>3 DEF TypesNext, register_rime_bindings, pushdata, gc, Forget, typeVars

-----------------------------------------------------------------------------
\* Whatever is exported, pushed and collected, in whatever order, an object Lua
\* owns is destroyed when its userdata goes.
THEOREM OwnedAreDestroyed == TypesSpec => []CollectedIsDestroyed
<1>1. TypesInit => TypesInv
  BY DEF TypesInit, TypesInv, Finalizers, CollectedIsDestroyed
<1>2. TypesInv => CollectedIsDestroyed
  BY DEF TypesInv
<1>3. QED
  BY <1>1, <1>2, StepTypesInv, PTL DEF TypesSpec

\* A C function given any userdata reads it as what it is, or raises an error.
THEOREM ReadAsWhatItIs == TypesSpec => []ConversionsSound
<1>1. TypesInit => ConversionsSound
  BY DEF TypesInit, ConversionsSound
<1>2. QED
  BY <1>1, StepSound, PTL DEF TypesSpec

-----------------------------------------------------------------------------
(***************************************************************************)
(* Calls to the engine.                                                    *)
(***************************************************************************)
\* Only select_schemas takes a list.
LEMMA OnlyStrings ==
  ASSUME NEW f \in Calls, NEW k, Signature[f].args[k] = "strings",
         k \in DOMAIN Signature[f].args
  PROVE  f = "select_schemas"
<1> DEFINE Known == {Tables[t] : t \in DOMAIN Tables}
           sig == CHOOSE s \in Known : f \in DOMAIN s
<1>1. DOMAIN Tables = 1..8
  BY DEF Tables
<1>2. Known = {BasicCalls, StructCalls, ValueCalls, InputCalls, SettingsCalls,
             SwitcherCalls, MethodCalls, MemberCalls}
  BY <1>1 DEF Tables
<1>3. \E s \in Known : f \in DOMAIN s
  BY DEF Calls
<1>4. sig \in Known /\ f \in DOMAIN sig
  BY <1>3
<1>5. Signature[f] = sig[f]
  BY DEF Signature
<1> HIDE DEF sig, Known
<1>6. CASE sig = BasicCalls
  BY <1>4, <1>5, <1>6, SMTT(90) DEF BasicCalls, Takes, After
<1>7. CASE sig = SwitcherCalls
  BY <1>4, <1>5, <1>7 DEF SwitcherCalls, Takes, After
<1>8. CASE sig = ValueCalls
  BY <1>4, <1>5, <1>8, SMTT(90) DEF ValueCalls, Takes
<1>9. CASE sig = InputCalls
  BY <1>4, <1>5, <1>9 DEF InputCalls, Takes, After
<1>10. CASE sig = SettingsCalls
  BY <1>4, <1>5, <1>10 DEF SettingsCalls, Takes, Skips
<1>11. CASE sig = StructCalls
  <2>1. ASSUME NEW args, NEW first
        PROVE  /\ Takes(args).args = args
               /\ After(first, Takes(args)).args = args
               /\ Skips(Takes(args)).args = args
               /\ After(first, Skips(Takes(args))).args = args
    BY DEF Takes, After, Skips
  <2>2. f \in DOMAIN StructCalls
    BY <1>4, <1>11
  <2>3. StructCalls[f].args \in
          { <<"RimeCommit">>, <<"session", "RimeContext">>, <<"RimeConfig">>,
            <<"string", "string">>, <<"RimeStatus">>, <<"session", "string", "boolean">>,
            <<"session", "string", "string">>, <<"RimeSchemaList">>, <<"session", "size">> }
    BY <2>1, <2>2 DEF StructCalls
  <2>4. QED
    BY <1>5, <1>11, <2>3
<1>12. CASE sig = MethodCalls
  BY <1>4, <1>5, <1>12 DEF MethodCalls, Takes
<1>13. CASE sig = MemberCalls
  BY <1>4, <1>5, <1>13 DEF MemberCalls, Takes
<1>14. QED
  BY <1>2, <1>4, <1>6, <1>7, <1>8, <1>9, <1>10, <1>11, <1>12, <1>13

\* The Lua values a program gives.
Values == {Nil} \union UNION {Inputs(Signature[f].args[k]) : f \in Calls, k \in Nat}

\* A call owns its buffer only after the last conversion, and before that at most
\* the vector of select_schemas.
CallInv ==
  /\ call \in Calls \union {"none"}
  /\ given \in Seq(Values)
  /\ call = "none" => heap = {}
  /\ \A object \in heap : object \in {"buffer", "vector"}
  /\ "vector" \in heap => call = "select_schemas"
  /\ "buffer" \in heap => Len(given) + 1 \notin DOMAIN Kinds /\ outcome # "raised"

\* Every step of a call keeps the invariant.
LEMMA StepCall == CallInv /\ [CallsNext]_callVars => CallInv'
<1> SUFFICES ASSUME CallInv, [CallsNext]_callVars PROVE CallInv'
  OBVIOUS
<1>1. ASSUME NEW f \in Calls, Begin(f) PROVE CallInv'
  BY <1>1 DEF Begin, CallInv
<1>2. CASE RaiseAtOnce
  BY <1>2 DEF RaiseAtOnce, CallInv, Kinds
<1>3. CASE DefaultSize
  <2>1. given' = Append(given, Nil) /\ Nil \in Values
    BY <1>3 DEF DefaultSize, Values
  <2>2. given' \in Seq(Values)
    BY <2>1, AppendProperties DEF CallInv
  <2>3. "buffer" \notin heap
    BY <1>3 DEF DefaultSize, Awaiting, CallInv
  <2>4. QED
    BY <1>3, <2>2, <2>3 DEF DefaultSize, CallInv
<1>4. ASSUME Awaiting, NEW v \in Inputs(Kind), Convert(v) PROVE CallInv'
  <2>1. call \in Calls /\ Len(given) + 1 \in DOMAIN Kinds /\ Len(given) + 1 \in Nat
    <3>1. call \in Calls /\ Len(given) \in Nat
      BY <1>4 DEF Awaiting, Calling, CallInv
    <3>2. QED
      BY <1>4, <3>1 DEF Awaiting
  <2>2. v \in Values
    BY <1>4, <2>1 DEF Values, Kind, Kinds
  <2>3. given' \in Seq(Values)
    BY <1>4, <2>2, AppendProperties DEF CallInv, Convert
  <2>4. "buffer" \notin heap
    BY <1>4 DEF Awaiting, CallInv
  <2>5. \A object \in Frame(Kind, v) : object = "vector" /\ call = "select_schemas"
    BY <2>1, OnlyStrings DEF Frame, Kind, Kinds
  <2>6. heap' = heap \union Frame(Kind, v) /\ call' = call
    BY <1>4 DEF Convert
  <2>7. QED
    BY <2>1, <2>3, <2>4, <2>5, <2>6 DEF CallInv
<1>5. CASE Allocate
  BY <1>5 DEF Allocate, Prepared, Calling, CallInv, Kinds
<1>6. CASE Return
  BY <1>6 DEF Return, CallInv
<1>7. CASE Finish
  BY <1>7 DEF Finish, CallInv
<1>8. CASE UNCHANGED callVars
  BY <1>8 DEF callVars, CallInv, Kinds
<1>9. QED
  BY <1>1, <1>2, <1>3, <1>4, <1>5, <1>6, <1>7, <1>8 DEF CallsNext

\* However a conversion fails, in whatever call and at whatever argument, nothing
\* the call's frame owns is lost, but for the vector of select_schemas.
THEOREM ErrorsLose == CallsSpec => []ErrorsLeaveNothing
<1>1. CallsInit => CallInv
  BY DEF CallsInit, NoCall, CallInv
<1>2. CallInv => ErrorsLeaveNothing
  BY DEF CallInv, ErrorsLeaveNothing
<1>3. QED
  BY <1>1, <1>2, StepCall, PTL DEF CallsSpec

\* Conversions between integers lose nothing that fits.
LEMMA IntegersFit ==
  /\ \A n \in Int : 0 <= n /\ n < SizeValues => Unsigned(n) = n
  /\ \A n \in Int : Narrow(n) \in Int /\ Narrow(n) < IntValues
<1> DEFINE W == IntValues
           H == W \div 2
<1>1. W \in Nat /\ 2 <= W /\ W <= SizeValues /\ SizeValues \in Nat
  BY ApiCallsAssumption DEF ApiCallsAssumption
<1>2. H \in Nat /\ 0 < H /\ H < W
  BY <1>1
<1>3. ASSUME NEW n \in Int PROVE Narrow(n) \in Int /\ Narrow(n) < W
  <2>1. (n + H) \in Int
    BY <1>2
  <2> HIDE DEF H, W
  <2>2. (n + H) % W \in 0 .. W - 1
    BY <1>1, <2>1
  <2>3. Narrow(n) = ((n + H) % W) - H
    BY DEF Narrow, H, W
  <2>4. QED
    BY <1>1, <1>2, <2>2, <2>3
<1>4. ASSUME NEW n \in Int, 0 <= n, n < SizeValues PROVE Unsigned(n) = n
  BY <1>1, <1>4 DEF Unsigned
<1>5. QED
  BY <1>3, <1>4

\* The type of a struct is no other kind.
LEMMA StructsAreClasses ==
  \A kind \in StructTypes : kind \notin Scalars \union {"settings", "RimeTraits!"}
<1> DEFINE All == UNION {{Signature[f].args[k] : k \in DOMAIN Signature[f].args} : f \in Calls}
           Others == Scalars \union {"settings", "RimeTraits!"}
<1>1. StructTypes = All \ Others
  BY DEF StructTypes
<1>2. QED
  BY <1>1

\* What an argument is converted to, if no error is raised, is what it stands for.
LEMMA ConvertedMeans ==
  ASSUME NEW f \in Calls, NEW k \in DOMAIN Signature[f].args,
         NEW v \in Inputs(Signature[f].args[k]), ~Raises(Signature[f].args[k], v)
  PROVE  Means(Signature[f].args[k], v, Converted(Signature[f].args[k], v))
<1> DEFINE kind == Signature[f].args[k]
<1>1. /\ IsInteger(v) => v.n \in Int /\ v.n < SizeValues
      /\ v.is = "struct" => v.type \notin Scalars \union {"settings"}
  BY InputsAssumption DEF InputsAssumption
<1>2. ~Raises(kind, v)
  OBVIOUS
<1> SUFFICES Means(kind, v, Converted(kind, v))
  OBVIOUS
<1> HIDE DEF kind
<1>3. CASE kind = "session"
  <2>1. v.is # "struct"
    BY <1>2, <1>3 DEF Raises, Sizes
  <2>2. Converted(kind, v) = RimeSession_todata(v)
    BY <1>3 DEF Converted
  <2>3. v.is = "session" => RimeSession_todata(v) = v.id
    BY DEF RimeSession_todata
  <2>4. IsInteger(v) /\ v.n >= 0 /\ Exact(v.n) => RimeSession_todata(v) = v.n
    BY DEF RimeSession_todata, IsInteger, Float
  <2>5. QED
    <3>1. kind \notin StructTypes
      BY <1>3, StructsAreClasses DEF Scalars
    <3>2. QED
      BY <1>3, <2>1, <2>2, <2>3, <2>4, <3>1 DEF Means
<1>4. CASE kind = "string" \/ kind = "strings" \/ kind = "RimeTraits!"
  <2>1. kind \notin StructTypes
    BY <1>4, StructsAreClasses DEF Scalars
  <2>2. v.is = "struct" => v.type # kind
    <3>1. CASE kind = "RimeTraits!"
      BY <1>2, <3>1 DEF Raises, StructPointer, PointerTo, Sizes
    <3>2. QED
      BY <1>1, <1>4, <3>1 DEF Scalars
  <2>3. QED
    BY <1>4, <2>1, <2>2 DEF Means
<1>5. CASE kind = "boolean" \/ kind = "flag"
  <2>1. kind \notin StructTypes /\ (v.is = "struct" => v.type # kind)
    BY <1>1, <1>5, StructsAreClasses DEF Scalars
  <2>2. QED
    BY <1>5, <2>1 DEF Means
<1>6. CASE kind \in {"integer", "index"} \union Sizes
  <2>1. IsInteger(v) /\ v.is # "struct" /\ v.n \in Int /\ v.n < SizeValues
    BY <1>1, <1>2, <1>6 DEF Raises, IsInteger, Sizes
  <2>2. CASE kind = "integer"
    BY <2>1, <2>2 DEF Means, Converted, Sizes
  <2>3. CASE kind \in {"index", "size"}
    <3>1. Converted(kind, v) = Unsigned(v.n)
      BY <2>3 DEF Converted, Sizes
    <3>2. QED
      BY <2>1, <2>3, <3>1, IntegersFit DEF Means
  <2>4. CASE kind = "int_size"
    <3>1. Converted(kind, v) = Unsigned(Narrow(v.n))
      BY <2>4 DEF Converted, Sizes
    <3>2. v.n >= 0 /\ v.n = Narrow(v.n) => Unsigned(Narrow(v.n)) = v.n
      BY <2>1, IntegersFit
    <3>3. QED
      BY <2>1, <2>4, <3>1, <3>2 DEF Means
  <2>5. QED
    BY <1>6, <2>2, <2>3, <2>4 DEF Sizes
<1>7. CASE kind = "settings"
  <2>1. Converted(kind, v) = lua_to_custom_settings(v)
    BY <1>7 DEF Converted, Sizes
  <2>2. v.is = "struct" /\ v.type \in SettingsTypes => lua_to_custom_settings(v) = v.ptr
    BY DEF lua_to_custom_settings, PointerTo
  <2>3. kind \notin StructTypes /\ (v.is = "struct" => v.type # kind)
    BY <1>1, <1>7, StructsAreClasses
  <2>4. QED
    BY <1>7, <2>1, <2>2, <2>3 DEF Means
<1>8. CASE kind \notin Scalars \union {"settings", "RimeTraits!"}
  <2>1. Converted(kind, v) = StructPointer(kind, v)
    BY <1>8 DEF Converted, Scalars, Sizes
  <2>2. v.is = "struct" =>
          StructPointer(kind, v) = IF v.type = kind THEN v.ptr ELSE Nullptr
    BY DEF StructPointer, PointerTo
  <2>3. QED
    BY <1>8, <2>1, <2>2 DEF Means, Scalars, Sizes
<1>9. QED
  BY <1>3, <1>4, <1>5, <1>6, <1>7, <1>8 DEF Scalars, kind

\* What the values are converted to.
Passable ==
  {MaxAlloc} \union
  UNION {{Converted(Signature[f].args[k], v) : v \in Inputs(Signature[f].args[k])} :
           f \in Calls, k \in Nat}

\* While a call runs, each argument looked at has been converted to what it stands
\* for, but one whose conversion raises an error.
ArgumentsInv ==
  /\ call \in Calls \union {"none"}
  /\ outcome \in Outcomes
  /\ given \in Seq(Values) /\ passed \in Seq(Passable)
  /\ Len(passed) <= Len(given)
  /\ outcome # "raised" => Len(passed) = Len(given)
  /\ call = "none" => given = <<>> /\ outcome = "none"
  /\ \A k \in DOMAIN passed : Means(Kinds[k], given[k], passed[k])

\* One more argument.
LEMMA AnotherArgument ==
  ASSUME ArgumentsInv, outcome = "none", call # "none", call' = call,
         NEW v \in Values, NEW c \in Passable,
         given' = Append(given, v), passed' = Append(passed, c), outcome' = outcome,
         Means(Kinds[Len(given) + 1], v, c)
  PROVE  ArgumentsInv'
<1>1. /\ given \in Seq(Values) /\ passed \in Seq(Passable)
      /\ Len(given) \in Nat /\ Len(passed) = Len(given)
  BY DEF ArgumentsInv
<1>2. /\ given' \in Seq(Values) /\ passed' \in Seq(Passable)
      /\ Len(given') = Len(given) + 1 /\ Len(passed') = Len(given) + 1
  BY <1>1, AppendProperties
<1>3. Kinds' = Kinds
  BY DEF Kinds
<1>4. ASSUME NEW k \in DOMAIN passed' PROVE Means(Kinds[k], given'[k], passed'[k])
  <2>1. k \in 1 .. Len(given) + 1
    BY <1>2, <1>4
  <2>2. CASE k = Len(given) + 1
    <3>1. given'[k] = v /\ passed'[k] = c
      BY <1>1, <2>2
    <3>2. QED
      BY <2>2, <3>1
  <2>3. CASE k # Len(given) + 1
    <3>1. k \in 1 .. Len(given) /\ k \in DOMAIN passed
      BY <1>1, <2>1, <2>3
    <3>2. given'[k] = given[k] /\ passed'[k] = passed[k]
      BY <1>1, <3>1
    <3>3. QED
      BY <3>1, <3>2 DEF ArgumentsInv
  <2>4. QED
    BY <2>2, <2>3
<1>5. QED
  BY <1>1, <1>2, <1>3, <1>4 DEF ArgumentsInv

\* Every step keeps the invariant.
LEMMA StepArguments == ArgumentsInv /\ [CallsNext]_callVars => ArgumentsInv'
<1> SUFFICES ASSUME ArgumentsInv, [CallsNext]_callVars PROVE ArgumentsInv'
  OBVIOUS
<1>1. ASSUME UNCHANGED <<call, given, passed>>, outcome' \in Outcomes,
             outcome' # "none", call # "none", outcome = "none"
      PROVE  ArgumentsInv'
  <2>1. Kinds' = Kinds
    BY <1>1 DEF Kinds
  <2>2. QED
    BY <1>1, <2>1 DEF ArgumentsInv
<1>2. ASSUME NEW f \in Calls, Begin(f) PROVE ArgumentsInv'
  <2>1. DOMAIN passed = {}
    <3>1. given = <<>> /\ Len(passed) = Len(given) /\ passed \in Seq(Passable)
      BY <1>2 DEF Begin, ArgumentsInv
    <3>2. QED
      BY <3>1
  <2>2. given' = <<>> /\ outcome' = "none"
    BY <1>2 DEF Begin, ArgumentsInv
  <2>3. QED
    BY <1>2, <2>1, <2>2 DEF Begin, ArgumentsInv
<1>3. CASE RaiseAtOnce
  BY <1>1, <1>3 DEF RaiseAtOnce, Calling, Outcomes
<1>4. CASE DefaultSize
  <2>1. /\ outcome = "none" /\ call # "none" /\ call' = call /\ outcome' = outcome
        /\ given' = Append(given, Nil) /\ passed' = Append(passed, MaxAlloc)
        /\ Kind \in Sizes
    BY <1>4 DEF DefaultSize, Awaiting, Calling
  <2>2. Nil \in Values /\ MaxAlloc \in Passable
    BY DEF Values, Passable
  <2>3. Means(Kind, Nil, MaxAlloc)
    BY <2>1 DEF Means, Sizes, Nil, IsInteger
  <2>4. QED
    BY <2>1, <2>2, <2>3, AnotherArgument DEF Kind
<1>5. ASSUME Awaiting, NEW v \in Inputs(Kind), Convert(v) PROVE ArgumentsInv'
  <2>1. /\ outcome = "none" /\ call # "none" /\ call' = call /\ call \in Calls
        /\ given' = Append(given, v)
    BY <1>5 DEF Convert, Awaiting, Calling, ArgumentsInv
  <2>2. Len(given) \in Nat /\ Len(given) + 1 \in Nat /\ Len(given) + 1 \in DOMAIN Signature[call].args
    BY <1>5 DEF ArgumentsInv, Awaiting, Kinds
  <2>3. Kind = Signature[call].args[Len(given) + 1]
    BY DEF Kind, Kinds
  <2>4. v \in Values /\ Converted(Kind, v) \in Passable
    <3>1. v \in Inputs(Signature[call].args[Len(given) + 1])
      BY <1>5, <2>3
    <3>2. v \in Values
      BY <2>1, <2>2, <3>1 DEF Values
    <3>3. Converted(Kind, v) \in
            {Converted(Signature[call].args[Len(given) + 1], w) :
               w \in Inputs(Signature[call].args[Len(given) + 1])}
      BY <2>3, <3>1
    <3> DEFINE Results(f, k) ==
                 {Converted(Signature[f].args[k], w) : w \in Inputs(Signature[f].args[k])}
    <3>4. Converted(Kind, v) \in Results(call, Len(given) + 1)
      BY <3>3
    <3>5. Passable = {MaxAlloc} \union UNION {Results(f, k) : f \in Calls, k \in Nat}
      BY DEF Passable
    <3> HIDE DEF Results
    <3>6. QED
      BY <2>1, <2>2, <3>2, <3>4, <3>5
  <2>5. CASE Raises(Kind, v)
    <3>1. passed' = passed /\ outcome' = "raised"
      BY <1>5, <2>5 DEF Convert
    <3>2. /\ given \in Seq(Values) /\ given' \in Seq(Values)
          /\ Len(given') = Len(given) + 1 /\ Len(passed) = Len(given)
      BY <2>1, <2>4, AppendProperties DEF ArgumentsInv
    <3>3. ASSUME NEW k \in DOMAIN passed PROVE given'[k] = given[k]
      <4>1. k \in 1 .. Len(given)
        BY <3>2, <3>3 DEF ArgumentsInv
      <4>2. QED
        BY <2>1, <3>2, <4>1
    <3>4. Kinds' = Kinds
      BY <2>1 DEF Kinds
    <3>5. QED
      BY <2>1, <2>2, <3>1, <3>2, <3>3, <3>4 DEF ArgumentsInv, Outcomes
  <2>6. CASE ~Raises(Kind, v)
    <3>1. passed' = Append(passed, Converted(Kind, v)) /\ outcome' = outcome
      BY <1>5, <2>6 DEF Convert
    <3>2. Means(Kind, v, Converted(Kind, v))
      BY <1>5, <2>1, <2>2, <2>3, <2>6, ConvertedMeans
    <3>3. QED
      BY <2>1, <2>3, <2>4, <3>1, <3>2, AnotherArgument DEF Kind
  <2>7. QED
    BY <2>5, <2>6
<1>6. CASE Allocate
  <2>1. outcome' = "none" \/ outcome' = "thrown"
    BY <1>6 DEF Allocate, Prepared, Calling
  <2>2. UNCHANGED <<call, given, passed>> /\ call # "none" /\ outcome = "none"
    BY <1>6 DEF Allocate, Prepared, Calling
  <2>3. Kinds' = Kinds
    BY <2>2 DEF Kinds
  <2>4. QED
    BY <2>1, <2>2, <2>3 DEF ArgumentsInv, Outcomes
<1>7. CASE Return
  BY <1>1, <1>7 DEF Return, Prepared, Calling, Outcomes
<1>8. CASE Finish
  <2>1. <<>> \in Seq(Values) /\ <<>> \in Seq(Passable) /\ Len(<<>>) = 0 /\ DOMAIN <<>> = {}
    OBVIOUS
  <2>2. QED
    BY <1>8, <2>1 DEF Finish, ArgumentsInv, Outcomes
<1>9. CASE UNCHANGED callVars
  <2>1. Kinds' = Kinds
    BY <1>9 DEF callVars, Kinds
  <2>2. QED
    BY <1>9, <2>1 DEF callVars, ArgumentsInv
<1>10. QED
  BY <1>2, <1>3, <1>4, <1>5, <1>6, <1>7, <1>8, <1>9 DEF CallsNext

\* At the start no call runs.
LEMMA NoCallKept == NoCall => ArgumentsInv /\ CallInv
<1> SUFFICES ASSUME NoCall PROVE ArgumentsInv /\ CallInv
  OBVIOUS
<1>1. <<>> \in Seq(Values) /\ <<>> \in Seq(Passable) /\ Len(<<>>) = 0 /\ DOMAIN <<>> = {}
  OBVIOUS
<1>2. QED
  BY <1>1 DEF NoCall, ArgumentsInv, CallInv, Outcomes

\* Whichever function is called with whatever values, the engine receives what
\* the program gave.
THEOREM EngineReceives == CallsSpec => []ArgumentsKept
<1>1. ArgumentsInv => ArgumentsKept
  BY DEF ArgumentsInv, ArgumentsKept
<1>2. QED
  BY <1>1, NoCallKept, StepArguments, PTL DEF CallsSpec, CallsInit

\* No function has the name that stands for none.
LEMMA NoneIsNoCall == "none" \notin Calls
<1>1. \A t \in 1..8 : "none" \notin DOMAIN Tables[t]
  <2>1. "none" \notin DOMAIN BasicCalls
    BY DEF BasicCalls
  <2>2. "none" \notin DOMAIN StructCalls
    BY DEF StructCalls
  <2>3. "none" \notin DOMAIN ValueCalls
    BY DEF ValueCalls
  <2>4. "none" \notin DOMAIN InputCalls /\ "none" \notin DOMAIN SettingsCalls
    BY DEF InputCalls, SettingsCalls
  <2>5. "none" \notin DOMAIN SwitcherCalls
    BY DEF SwitcherCalls
  <2>6. "none" \notin DOMAIN MethodCalls /\ "none" \notin DOMAIN MemberCalls
    BY DEF MethodCalls, MemberCalls
  <2>7. QED
    BY <2>1, <2>2, <2>3, <2>4, <2>5, <2>6 DEF Tables
<1>2. DOMAIN Tables = 1..8
  BY DEF Tables
<1>3. QED
  BY <1>1, <1>2 DEF Calls

\* Between calls nothing is kept.
RestInv == call = "none" => NoCall

\* Every step leaves it so.
LEMMA StepRest == RestInv /\ [CallsNext]_callVars => RestInv'
<1> SUFFICES ASSUME RestInv, [CallsNext]_callVars PROVE RestInv'
  OBVIOUS
<1>1. CASE call' # "none"
  BY <1>1 DEF RestInv
<1>2. CASE call' = "none"
  <2>1. CASE Finish
    BY <2>1 DEF Finish, RestInv, NoCall
  <2>2. CASE UNCHANGED callVars
    BY <2>2 DEF callVars, RestInv, NoCall
  <2>3. ASSUME NEW f \in Calls, Begin(f) PROVE FALSE
    BY <1>2, <2>3, NoneIsNoCall DEF Begin
  <2>4. CASE RaiseAtOnce \/ DefaultSize \/ Allocate \/ Return
    BY <1>2, <2>4 DEF RaiseAtOnce, DefaultSize, Allocate, Return, Awaiting, Prepared, Calling
  <2>5. ASSUME Awaiting, NEW v \in Inputs(Kind), Convert(v) PROVE FALSE
    BY <1>2, <2>5 DEF Convert, Awaiting, Calling
  <2>6. QED
    BY <2>1, <2>2, <2>3, <2>4, <2>5 DEF CallsNext
<1>3. QED
  BY <1>1, <1>2

\* The calls' variables are what they should be; a call that is over leaves
\* nothing, whichever way it ended.
THEOREM CallsTyped == CallsSpec => []CallsTypeOK
<1> DEFINE Whole == CallInv /\ ArgumentsInv /\ RestInv
<1>1. NoCall => Whole
  BY NoCallKept DEF RestInv
<1>2. Whole => CallsTypeOK
  BY DEF CallInv, ArgumentsInv, RestInv, CallsTypeOK
<1>3. Whole /\ [CallsNext]_callVars => Whole'
  BY StepCall, StepArguments, StepRest
<1>4. QED
  BY <1>1, <1>2, <1>3, PTL DEF CallsSpec, CallsInit

-----------------------------------------------------------------------------
(***************************************************************************)
(* Wrapped functions.                                                      *)
(***************************************************************************)
Registrable == {"vector", "string", "object"} \X (Ids \union {NoRef})

\* The references of the copies that errors have lost.
LeakedRefs == {object[2] : object \in leaked} \ {NoRef}

\* What a call registers is its own: no reference of it is held by others or has
\* been lost before; and what is not registered is held or lost.
WrappedInv ==
  /\ list \in Seq(Registrable) /\ copies \in Seq(Registrable)
  /\ leaked \subseteq Registrable
  /\ ~running => list = <<>> /\ copies = <<>>
  /\ References(copies) \subseteq References(list)
  /\ refs = held \union References(list) \union LeakedRefs
  /\ held \intersect References(list) = {}
  /\ held \intersect LeakedRefs = {}
  /\ References(list) \intersect LeakedRefs = {}

\* The references of sequences put together.
LEMMA ReferencesFacts ==
  /\ References(<<>>) = {}
  /\ \A s, t \in Seq(Registrable) : References(s \o t) = References(s) \union References(t)
  /\ \A s \in Seq(Registrable), e \in Registrable :
       References(Append(s, e)) = References(s) \union ({e[2]} \ {NoRef})
<1>1. References(<<>>) = {}
  BY DEF References
<1>2. ASSUME NEW s \in Seq(Registrable), NEW t \in Seq(Registrable)
      PROVE  References(s \o t) = References(s) \union References(t)
  <2>1. /\ Len(s) \in Nat /\ DOMAIN s = 1..Len(s) /\ Len(t) \in Nat /\ DOMAIN t = 1..Len(t)
        /\ DOMAIN (s \o t) = 1..(Len(s) + Len(t))
        /\ \A k \in 1..(Len(s) + Len(t)) :
             (s \o t)[k] = IF k <= Len(s) THEN s[k] ELSE t[k - Len(s)]
    OBVIOUS
  <2>2. ASSUME NEW k \in DOMAIN (s \o t)
        PROVE  \/ \E j \in DOMAIN s : (s \o t)[k] = s[j]
               \/ \E j \in DOMAIN t : (s \o t)[k] = t[j]
    <3>1. CASE k <= Len(s)
      BY <2>1, <3>1
    <3>2. CASE k > Len(s)
      <4>1. k - Len(s) \in 1..Len(t)
        BY <2>1, <3>2
      <4>2. QED
        BY <2>1, <3>2, <4>1
    <3>3. QED
      BY <2>1, <3>1, <3>2
  <2>3. ASSUME NEW j \in DOMAIN s PROVE j \in DOMAIN (s \o t) /\ (s \o t)[j] = s[j]
    BY <2>1
  <2>4. ASSUME NEW j \in DOMAIN t
        PROVE  Len(s) + j \in DOMAIN (s \o t) /\ (s \o t)[Len(s) + j] = t[j]
    BY <2>1
  <2> DEFINE st == s \o t
  <2> HIDE DEF st
  <2>5. ASSUME NEW x PROVE (\E k \in DOMAIN st : x = st[k][2]) <=>
           (\E k \in DOMAIN s : x = s[k][2]) \/ (\E k \in DOMAIN t : x = t[k][2])
    <3>1. ASSUME NEW k \in DOMAIN st
          PROVE  (\E j \in DOMAIN s : st[k] = s[j]) \/ (\E j \in DOMAIN t : st[k] = t[j])
      BY <2>2 DEF st
    <3>2. ASSUME NEW j \in DOMAIN s PROVE \E k \in DOMAIN st : st[k] = s[j]
      BY <2>3 DEF st
    <3>3. ASSUME NEW j \in DOMAIN t PROVE \E k \in DOMAIN st : st[k] = t[j]
      BY <2>4 DEF st
    <3>4. ASSUME NEW k \in DOMAIN st, x = st[k][2]
          PROVE  (\E j \in DOMAIN s : x = s[j][2]) \/ (\E j \in DOMAIN t : x = t[j][2])
      BY <3>1, <3>4
    <3>5. ASSUME NEW j \in DOMAIN s, x = s[j][2] PROVE \E k \in DOMAIN st : x = st[k][2]
      BY <3>2, <3>5
    <3>6. ASSUME NEW j \in DOMAIN t, x = t[j][2] PROVE \E k \in DOMAIN st : x = st[k][2]
      BY <3>3, <3>6
    <3>7. QED
      BY <3>4, <3>5, <3>6
  <2>6. References(st) = References(s) \union References(t)
    BY <2>5 DEF References
  <2>7. QED
    BY <2>6 DEF st
<1>3. ASSUME NEW s \in Seq(Registrable), NEW e \in Registrable
      PROVE  References(Append(s, e)) = References(s) \union ({e[2]} \ {NoRef})
  <2>1. <<e>> \in Seq(Registrable) /\ Append(s, e) = s \o <<e>>
    BY AppendIsConcat
  <2>2. References(<<e>>) = {e[2]} \ {NoRef}
    BY DEF References
  <2>3. QED
    BY <1>2, <2>1, <2>2
<1>4. QED
  BY <1>1, <1>2, <1>3

\* What todata registers besides a LuaObj has no reference.
LEMMA RegisteredFacts ==
  ASSUME NEW kind, NEW good
  PROVE  /\ WithoutRef(Registered(kind, good)) \in Seq(Registrable)
         /\ References(WithoutRef(Registered(kind, good))) = {}
<1> DEFINE kinds == Registered(kind, good)
<1>1. kinds \in {<<"vector", "string">>, <<"vector">>, <<"string">>, <<>>}
  BY DEF Registered
<1>2. kinds \in Seq({"vector", "string"})
  <2>1. /\ <<"vector", "string">> \in Seq({"vector", "string"})
        /\ <<"vector">> \in Seq({"vector", "string"})
        /\ <<"string">> \in Seq({"vector", "string"})
        /\ <<>> \in Seq({"vector", "string"})
    OBVIOUS
  <2> HIDE DEF kinds
  <2>2. QED
    BY <1>1, <2>1
<1> HIDE DEF kinds
<1>3. \A k \in DOMAIN kinds : <<kinds[k], NoRef>> \in Registrable
  BY <1>2 DEF Registrable
<1>4. WithoutRef(kinds) \in Seq(Registrable)
  BY <1>2, <1>3 DEF WithoutRef
<1>5. References(WithoutRef(kinds)) = {}
  BY DEF References, WithoutRef
<1>6. QED
  BY <1>4, <1>5 DEF kinds

\* Every step of a wrapped call keeps the invariant.
LEMMA StepWrapped == WrappedInv /\ [WrappedNext]_wrappedVars => WrappedInv'
<1> SUFFICES ASSUME WrappedInv, [WrappedNext]_wrappedVars PROVE WrappedInv'
  OBVIOUS
<1> USE WrappedCallsAssumption DEF WrappedCallsAssumption, NoWrapped
<1>1. ASSUME UNCHANGED <<list, copies, refs, held, leaked>>, running' = TRUE
      PROVE  WrappedInv'
  <2>1. /\ References(list)' = References(list) /\ References(copies)' = References(copies)
        /\ LeakedRefs' = LeakedRefs
    BY <1>1 DEF References, LeakedRefs
  <2>2. QED
    BY <1>1, <2>1 DEF WrappedInv
<1>2. ASSUME NEW f \in DOMAIN Wrapped, Wrap(f) PROVE WrappedInv'
  BY <1>1, <1>2 DEF Wrap
<1>3. CASE ConvertValue
  <2> DEFINE param == Head(frame)
             objects == WithoutRef(Registered(param.kind, TRUE))
             copied == Copy(param, objects)
  <2>1. list' = list \o objects /\ copies' = copies \o copied
    BY <1>3 DEF ConvertValue
  <2>2. /\ running /\ running' = running
        /\ refs' = refs /\ held' = held /\ leaked' = leaked
    BY <1>3 DEF ConvertValue
  <2>3. objects \in Seq(Registrable) /\ References(objects) = {}
    BY RegisteredFacts
  <2>4. copied \in Seq(Registrable) /\ References(copied) = {}
    <3>1. copied = objects \/ copied = <<>>
      BY DEF Copy
    <3>2. <<>> \in Seq(Registrable)
      OBVIOUS
    <3> HIDE DEF objects, copied
    <3>3. QED
      BY <2>3, <3>1, <3>2, ReferencesFacts
  <2> HIDE DEF objects, copied
  <2>5. /\ list' \in Seq(Registrable) /\ copies' \in Seq(Registrable)
        /\ References(list') = References(list) /\ References(copies') = References(copies)
    <3>1. list \in Seq(Registrable) /\ copies \in Seq(Registrable)
      BY DEF WrappedInv
    <3>2. list' \in Seq(Registrable) /\ copies' \in Seq(Registrable)
      BY <2>1, <2>3, <2>4, <3>1, ConcatProperties
    <3>3. /\ References(list \o objects) = References(list) \union References(objects)
          /\ References(copies \o copied) = References(copies) \union References(copied)
      BY <2>3, <2>4, <3>1, ReferencesFacts
    <3>4. QED
      BY <2>1, <2>3, <2>4, <3>2, <3>3
  <2>6. References(list)' = References(list') /\ References(copies)' = References(copies')
    BY DEF References
  <2>7. QED
    BY <2>2, <2>5, <2>6 DEF WrappedInv, LeakedRefs
<1>4. CASE ConvertObject
  <2>1. PICK id \in Ids \ refs :
          /\ refs' = refs \union {id}
          /\ list' = Append(list, <<"object", id>>)
          /\ copies' = copies \o Copy(Head(frame), << <<"object", id>> >>)
    BY <1>4 DEF ConvertObject
  <2>2. running /\ running' = running /\ held' = held /\ leaked' = leaked
    BY <1>4 DEF ConvertObject
  <2> DEFINE entry == <<"object", id>>
             copied == Copy(Head(frame), <<entry>>)
  <2>3. entry \in Registrable /\ entry[2] = id /\ id # NoRef /\ <<entry>> \in Seq(Registrable)
    BY DEF Registrable
  <2>4. References(<<entry>>) = {id}
    BY <2>3 DEF References
  <2>5. copied \in Seq(Registrable) /\ References(copied) \subseteq {id}
    BY <2>3, <2>4, ReferencesFacts DEF Copy
  <2> HIDE DEF entry, copied
  <2>6. list' = Append(list, entry) /\ copies' = copies \o copied
    BY <2>1 DEF entry, copied
  <2>7. /\ list' \in Seq(Registrable) /\ copies' \in Seq(Registrable)
        /\ References(list') = References(list) \union {id}
        /\ References(copies') \subseteq References(copies) \union {id}
    BY <2>3, <2>5, <2>6, ReferencesFacts, ConcatProperties, AppendProperties DEF WrappedInv
  <2>8. References(list)' = References(list') /\ References(copies)' = References(copies')
    BY DEF References
  <2>9. QED
    BY <2>1, <2>2, <2>7, <2>8 DEF WrappedInv, LeakedRefs
<1>5. CASE Raise
  <2> DEFINE objects == list \o WithoutRef(Registered(Head(frame).kind, FALSE))
  <2>1. /\ running' = FALSE /\ list' = <<>> /\ copies' = <<>> /\ held' = held
        /\ refs' = refs \ (References(objects) \ (References(copies) \union held))
        /\ leaked' = leaked \union {copies[k] : k \in DOMAIN copies}
    BY <1>5 DEF Raise, AfterRaise, Released
  <2>2. References(objects) = References(list)
    <3> DEFINE more == WithoutRef(Registered(Head(frame).kind, FALSE))
    <3>1. more \in Seq(Registrable) /\ References(more) = {}
      BY RegisteredFacts
    <3>2. list \in Seq(Registrable)
      BY DEF WrappedInv
    <3> HIDE DEF more
    <3>3. References(list \o more) = References(list) \union References(more)
      BY <3>1, <3>2, ReferencesFacts
    <3>4. QED
      BY <3>1, <3>3 DEF more
  <2>3. LeakedRefs' = LeakedRefs \union References(copies)
    BY <2>1 DEF LeakedRefs, References
  <2>4. leaked' \subseteq Registrable
    BY <2>1 DEF WrappedInv
  <2>5. References(list)' = {} /\ References(copies)' = {}
    BY <2>1 DEF References
  <2>6. <<>> \in Seq(Registrable)
    OBVIOUS
  <2> HIDE DEF objects
  <2>7. QED
    BY <2>1, <2>2, <2>3, <2>4, <2>5, <2>6 DEF WrappedInv
<1>6. CASE ReturnWrapped
  <2>1. PICK keep \in SUBSET References(copies) :
          /\ held' = held \union keep
          /\ refs' = refs \ ((References(list) \union References(copies)) \ held')
    BY <1>6 DEF ReturnWrapped
  <2>2. running' = FALSE /\ list' = <<>> /\ copies' = <<>> /\ leaked' = leaked
    BY <1>6 DEF ReturnWrapped
  <2>3. References(list)' = {} /\ References(copies)' = {} /\ LeakedRefs' = LeakedRefs
    BY <2>2 DEF References, LeakedRefs
  <2>4. <<>> \in Seq(Registrable)
    OBVIOUS
  <2>5. QED
    BY <2>1, <2>2, <2>3, <2>4 DEF WrappedInv
<1>7. ASSUME UNCHANGED <<list, copies, leaked, running>>,
             refs' = held' \union (refs \ held),
             held' \intersect (refs \ held) = {}
      PROVE  WrappedInv'
  <2>1. /\ References(list)' = References(list) /\ References(copies)' = References(copies)
        /\ LeakedRefs' = LeakedRefs
    BY <1>7 DEF References, LeakedRefs
  <2>2. QED
    BY <1>7, <2>1 DEF WrappedInv
<1>8. CASE Hold
  BY <1>7, <1>8 DEF Hold, WrappedInv
<1>9. CASE Drop
  BY <1>7, <1>9 DEF Drop, WrappedInv
<1>10. CASE UNCHANGED wrappedVars
  <2>1. /\ References(list)' = References(list) /\ References(copies)' = References(copies)
        /\ LeakedRefs' = LeakedRefs
    BY <1>10 DEF wrappedVars, References, LeakedRefs
  <2>2. QED
    BY <1>10, <2>1 DEF wrappedVars, WrappedInv
<1>11. QED
  BY <1>2, <1>3, <1>4, <1>5, <1>6, <1>8, <1>9, <1>10 DEF WrappedNext

\* However many conversions a call makes and whichever of them fails, the
\* registry keeps no reference but those the C++ side holds or an error has lost.
THEOREM RegistryKept == WrappedSpec => []CallsLeaveNothing
<1>1. WrappedInit => WrappedInv
  <2> SUFFICES ASSUME WrappedInit PROVE WrappedInv
    OBVIOUS
  <2>1. References(list) = {} /\ References(copies) = {} /\ LeakedRefs = {}
    BY DEF WrappedInit, References, LeakedRefs
  <2>2. <<>> \in Seq(Registrable)
    OBVIOUS
  <2>3. QED
    BY <2>1, <2>2 DEF WrappedInit, WrappedInv
<1>2. WrappedInv => CallsLeaveNothing
  <2> SUFFICES ASSUME WrappedInv PROVE CallsLeaveNothing
    OBVIOUS
  <2>1. ~running => References(list) = {}
    BY DEF WrappedInv, References
  <2>2. QED
    BY <2>1 DEF WrappedInv, CallsLeaveNothing, LeakedRefs, NoWrapped
<1>3. QED
  BY <1>1, <1>2, StepWrapped, PTL DEF WrappedSpec
================================================================================
