------------------------------- MODULE ApiCalls -------------------------------
(***************************************************************************)
(* One call from Lua to the engine (src/main.cpp): the templates           *)
(* call_function_pointer of RimeApi, RimeLeversApi and RimeModule, and the *)
(* methods of RimeConfig.  A call converts its arguments one by one, from  *)
(* the left; a conversion may raise a Lua error, which leaves the C++      *)
(* function by longjmp, without running destructors.  Then a call may      *)
(* allocate a buffer, which may throw, calls the engine, and returns.      *)
(*                                                                         *)
(* Lua values are abstracted to what the conversions look at.  Integers    *)
(* keep their widths, scaled down: an int has IntValues values and a       *)
(* size_t SizeValues, 2^32 and 2^64 in the program; lua_Integer is what    *)
(* the inputs range over; and a lua_Number holds every integer up to       *)
(* Doubles, 2^53, and above that the even ones.                            *)
(***************************************************************************)
EXTENDS Integers, Sequences

CONSTANTS
  Inputs(_),  \* the Lua values a program passes for a parameter of a kind
  Nullptr,    \* the null pointer
  IntValues, SizeValues, Doubles,
  MaxAlloc    \* the largest buffer the C++ allocator can give

ASSUME ApiCallsAssumption ==
  /\ {IntValues, SizeValues, Doubles} \subseteq Nat
  /\ 2 <= IntValues /\ IntValues % 2 = 0 /\ IntValues <= SizeValues
  /\ MaxAlloc \in 0 .. SizeValues - 1

VARIABLES
  call,     \* the function being called, "none" between calls
  given,    \* the Lua values of the arguments looked at so far
  passed,   \* what they were converted to
  surplus,  \* the call has arguments beyond its parameters
  short,    \* the last, optional argument is not given
  heap,     \* the C++ objects that the call's frame owns
  requests, \* the engine's functions it has called
  outcome   \* "none" while it runs, "returned", "raised" or "thrown"

callVars == <<call, given, passed, surplus, short, heap, requests, outcome>>

-----------------------------------------------------------------------------
\* The parameters of the functions, a representative for each signature.
Takes(args) == [args |-> args, first |-> "nothing", skips |-> FALSE]
\* Frees the struct it fills, or closes the configuration, before it does.
After(first, sig) == [sig EXCEPT !.first = first]
\* Does nothing if the struct is null.
Skips(sig) == [sig EXCEPT !.skips = TRUE]

BasicCalls ==
  [ finalize           |-> Takes(<<>>),
    register_module    |-> Takes(<<"RimeModule">>),
    find_module        |-> Takes(<<"string">>),
    setup              |-> Takes(<<"RimeTraits">>),
    find_session       |-> Takes(<<"session">>),
    select_schema      |-> Takes(<<"session", "string">>),
    start_maintenance  |-> Takes(<<"boolean">>),
    get_commit         |-> Takes(<<"session", "RimeCommit">>),
    get_status         |-> After("free", Takes(<<"session", "RimeStatus">>)),
    config_open        |-> After("close", Takes(<<"string", "RimeConfig">>)),
    config_get_int     |-> Takes(<<"RimeConfig", "string">>),
    config_get_string  |-> Takes(<<"RimeConfig", "string", "size">>) ]

StructCalls ==
  [ free_commit        |-> After("free", Takes(<<"RimeCommit">>)),
    get_context        |-> After("free", Takes(<<"session", "RimeContext">>)),
    config_close       |-> Skips(Takes(<<"RimeConfig">>)),
    deploy_config_file |-> Takes(<<"string", "string">>),
    free_status        |-> Takes(<<"RimeStatus">>),
    set_option         |-> Takes(<<"session", "string", "boolean">>),
    set_property       |-> Takes(<<"session", "string", "string">>),
    get_schema_list    |-> After("free", Skips(Takes(<<"RimeSchemaList">>))),
    free_schema_list   |-> Skips(Takes(<<"RimeSchemaList">>)),
    get_current_schema |-> Takes(<<"session", "size">>) ]

ValueCalls ==
  [ set_caret_pos      |-> Takes(<<"session", "index">>),
    candidate_list_begin      |-> Takes(<<"session", "RimeCandidateListIterator">>),
    candidate_list_end        |-> Takes(<<"RimeCandidateListIterator">>),
    candidate_list_from_index |->
      Takes(<<"session", "RimeCandidateListIterator", "integer">>),
    config_clear       |-> Takes(<<"RimeConfig", "string">>),
    config_begin_map   |-> Takes(<<"RimeConfigIterator", "RimeConfig", "string">>),
    config_end         |-> Takes(<<"RimeConfigIterator">>),
    config_set_int     |-> Takes(<<"RimeConfig", "string", "integer">>),
    config_set_bool    |-> Takes(<<"RimeConfig", "string", "boolean">>),
    config_set_string  |-> Takes(<<"RimeConfig", "string", "string">>),
    config_get_item    |-> Takes(<<"RimeConfig", "string", "RimeConfig">>) ]

InputCalls ==
  [ select_candidate   |-> Takes(<<"session", "index">>),
    process_key        |-> Takes(<<"session", "integer", "integer">>),
    get_property       |-> Takes(<<"session", "string", "size">>),
    get_sync_dir_s     |-> Takes(<<"size">>),
    get_state_label_abbreviated |->
      Takes(<<"session", "string", "boolean", "boolean">>),
    change_page        |-> Takes(<<"session", "flag">>) ]

SettingsCalls ==
  [ custom_settings_init    |-> Takes(<<"string", "string">>),
    custom_settings_destroy |-> Takes(<<"settings">>),
    load_settings           |-> Skips(Takes(<<"settings">>)),
    customize_bool          |-> Takes(<<"settings", "string", "boolean">>),
    customize_int           |-> Takes(<<"settings", "string", "integer">>),
    customize_string        |-> Takes(<<"settings", "string", "string">>),
    settings_get_config     |-> Takes(<<"settings", "RimeConfig">>) ]

SwitcherCalls ==
  [ get_available_schema_list |->
      Takes(<<"RimeSwitcherSettings", "RimeSchemaList">>),
    get_schema_name           |-> Takes(<<"RimeSchemaInfo">>),
    select_schemas            |-> Takes(<<"RimeSwitcherSettings", "strings">>),
    set_hotkeys               |-> Takes(<<"RimeSwitcherSettings", "string">>),
    user_dict_iterator_init   |-> Takes(<<"RimeUserDictIterator">>),
    customize_item            |-> Takes(<<"RimeCustomSettings", "string", "RimeConfig">>) ]

\* RimeConfig:get_string, :set_int, and the setters of RimeTraits.
MethodCalls ==
  [ get_string |-> Takes(<<"RimeConfig", "string", "int_size">>),
    set_int    |-> Takes(<<"RimeConfig", "string", "integer">>) ]

MemberCalls ==
  [ set_member |-> Takes(<<"RimeTraits!", "string">>) ]

Tables == << BasicCalls, StructCalls, ValueCalls, InputCalls, SettingsCalls,
             SwitcherCalls, MethodCalls, MemberCalls >>

Sizes == {"size", "int_size"}  \* of a buffer
Scalars ==
  {"session", "string", "strings", "boolean", "flag", "integer", "index"} \union Sizes
Calls == UNION {DOMAIN Tables[t] : t \in DOMAIN Tables}
Signature ==
  [f \in Calls |-> (CHOOSE sig \in {Tables[t] : t \in DOMAIN Tables} : f \in DOMAIN sig)[f]]
StructTypes ==
  (UNION {{Signature[f].args[k] : k \in DOMAIN Signature[f].args} : f \in Calls})
    \ (Scalars \union {"settings", "RimeTraits!"})

-----------------------------------------------------------------------------
\* Lua values, as far as conversions tell them apart.
Nil == [is |-> "nil"]
Boolean(b) == [is |-> "boolean", b |-> b]
Integer(n) == [is |-> "integer", n |-> n]
Fraction == [is |-> "fraction"]         \* a float that is no integer
Numeral(n) == [is |-> "numeral", n |-> n] \* a string that reads as an integer
Text == [is |-> "text"]                 \* a string that is no number
Table(items) == [is |-> "table", items |-> items]
Struct(type, ptr) == [is |-> "struct", type |-> type, ptr |-> ptr]
Light(ptr) == [is |-> "light", ptr |-> ptr]
Session(id) == [is |-> "session", id |-> id]

SettingsTypes == {"RimeCustomSettings", "RimeSwitcherSettings", "RimeSchemaInfo"}

\* The value userdata and the shared_ptr of a type, a light userdata, or null.
PointerTo(types, v) ==
  IF \/ v.is = "struct" /\ v.type \in types
     \/ v.is = "light"
  THEN v.ptr
  ELSE Nullptr

StructPointer(T, v) == PointerTo({T}, v)
lua_to_custom_settings(v) == PointerTo(SettingsTypes, v)

\* lua_Integer to int, two's complement.
Narrow(n) == ((n + IntValues \div 2) % IntValues) - IntValues \div 2
\* lua_Integer to size_t.
Unsigned(n) == n % SizeValues
\* lua_Number holds n exactly, or its nearest even neighbour (n <= 2 * Doubles).
Exact(n) == n <= Doubles \/ n % 2 = 0
Float(n) == IF Exact(n) THEN n ELSE IF n % 4 = 1 THEN n - 1 ELSE n + 1

\* Mutant of RimeSession_todata: a session is an int.
RimeSession_narrowed(v) ==
  CASE v.is \in {"integer", "numeral"} -> Narrow(v.n)
    [] v.is = "session" -> Narrow(v.id)
    [] OTHER -> 0

\* A number that is no id as a lua_Number is taken as a lua_Integer.
RimeSession_todata(v) ==
  CASE v.is \in {"integer", "numeral"} -> IF v.n >= 0 THEN Float(v.n) ELSE Unsigned(v.n)
    [] v.is = "session" -> v.id
    [] OTHER -> 0

IsText(v) == v.is \in {"text", "numeral", "integer", "fraction"}
IsInteger(v) == v.is \in {"integer", "numeral"}

\* What the inputs are: an integer is one a size_t holds or a negative one, for
\* lua_Integer is not wider than size_t where both have 64 bits, and the type of
\* a userdata is a class, none of the other kinds.
ASSUME InputsAssumption ==
  \A f \in Calls : \A k \in DOMAIN Signature[f].args :
    \A v \in Inputs(Signature[f].args[k]) :
      /\ IsInteger(v) => v.n \in Int /\ v.n < SizeValues
      /\ v.is = "struct" => v.type \notin Scalars \union {"settings"}

\* The conversion for a parameter of this kind raises a Lua error.
Raises(kind, v) ==
  CASE kind = "session" ->
         v.is \notin {"nil", "integer", "numeral", "fraction", "session"}
    [] kind = "string" -> ~IsText(v)
    [] kind \in {"integer", "index"} \union Sizes -> ~IsInteger(v)
    [] kind = "strings" ->
         v.is # "table" \/ \E k \in DOMAIN v.items : ~IsText(v.items[k])
    [] kind = "RimeTraits!" -> StructPointer("RimeTraits", v) = Nullptr
    [] OTHER -> FALSE

Converted(kind, v) ==
  CASE kind = "session" -> RimeSession_todata(v)
    [] kind = "string" -> "text"
    [] kind = "strings" -> Len(v.items)
    [] kind = "boolean" -> ~(v = Nil \/ v = Boolean(FALSE))
    [] kind = "integer" -> Narrow(v.n)
    [] kind = "flag" -> IF IsInteger(v) THEN Narrow(v.n) ELSE 0
    [] kind \in {"index", "size"} -> Unsigned(v.n)
    [] kind = "int_size" -> Unsigned(Narrow(v.n))
    [] kind = "settings" -> lua_to_custom_settings(v)
    [] kind = "RimeTraits!" -> StructPointer("RimeTraits", v)
    [] OTHER -> StructPointer(kind, v)

-----------------------------------------------------------------------------
NoCall ==
  /\ call = "none"
  /\ given = <<>> /\ passed = <<>> /\ requests = <<>>
  /\ surplus = FALSE /\ short = FALSE
  /\ heap = {}
  /\ outcome = "none"

CallsInit == NoCall

Kinds == Signature[call].args
Calling == call # "none" /\ outcome = "none"
Sized(f) == \E k \in DOMAIN Signature[f].args : Signature[f].args[k] \in Sizes

\* The number of arguments matters only where a size is optional.
Begin(f) ==
  /\ call = "none"
  /\ call' = f
  /\ short' \in IF Sized(f) THEN BOOLEAN ELSE {FALSE}
  /\ surplus' \in IF Sized(f) /\ ~short' THEN BOOLEAN ELSE {FALSE}
  /\ UNCHANGED <<given, passed, heap, requests, outcome>>

\* The handle is not one of the API, or get_*_dir_s is not given just a size.
RaiseAtOnce ==
  /\ Calling
  /\ given = <<>> /\ heap = {}
  /\ call = "get_sync_dir_s" => short \/ surplus
  /\ outcome' = "raised"
  /\ UNCHANGED <<call, given, passed, surplus, short, heap, requests>>

\* The next parameter is to be converted.
Awaiting ==
  /\ Calling
  /\ Len(given) + 1 \in DOMAIN Kinds
  /\ call = "get_sync_dir_s" => ~short /\ ~surplus
Kind == Kinds[Len(given) + 1]

\* All arguments are converted.
Prepared == Calling /\ Len(given) + 1 \notin DOMAIN Kinds

\* config_get_string looks at the size only if it is the last argument.
SizeGiven == ~short /\ ~(call = "config_get_string" /\ surplus)

\* The size is 256 if it is not given.
DefaultSize ==
  /\ Awaiting
  /\ Kind \in Sizes /\ ~SizeGiven
  /\ given' = Append(given, Nil)
  /\ passed' = Append(passed, MaxAlloc)
  /\ UNCHANGED <<call, surplus, short, heap, requests, outcome>>

\* Mutant of Frame: the buffer is allocated before the conversions.
FrameEarly(kind, v) == IF Sized(call) THEN {"buffer"} ELSE {}

\* What a call owns while it converts this argument: the vector of the schema
\* names is filled while they are converted.
Frame(kind, v) == IF kind = "strings" /\ v.is = "table" THEN {"vector"} ELSE {}

Convert(v) ==
  /\ Awaiting
  /\ Kind \in Sizes => SizeGiven
  /\ given' = Append(given, v)
  /\ IF Raises(Kind, v)
     THEN outcome' = "raised" /\ UNCHANGED passed
     ELSE passed' = Append(passed, Converted(Kind, v)) /\ UNCHANGED outcome
  /\ heap' = heap \union Frame(Kind, v)
  /\ UNCHANGED <<call, surplus, short, requests>>

\* make_unique<char[]> throws if there is not so much memory.
Allocate ==
  /\ Prepared
  /\ Sized(call) /\ heap = {}
  /\ IF passed[Len(passed)] > MaxAlloc
     THEN outcome' = "thrown" /\ UNCHANGED heap
     ELSE heap' = {"buffer"} /\ UNCHANGED outcome
  /\ UNCHANGED <<call, given, passed, surplus, short, requests>>

IsNull(k) == passed[k] = Nullptr

\* What the call does before the engine's function: the struct, its last
\* parameter, is freed, or closed if it is not borrowed.
Before ==
  LET sig == Signature[call]
      struct == Len(passed)
  IN CASE sig.first = "free" /\ ~IsNull(struct) -> {<<"free">>}
       [] sig.first = "close" /\ ~IsNull(struct) -> {<<"close">>, <<>>}
       [] OTHER -> {<<>>}

\* The call of the engine, the return, and the destructors of the frame.
Return ==
  /\ Prepared
  /\ Sized(call) => heap = {"buffer"}
  /\ \E before \in Before :
       requests' = IF Signature[call].skips /\ IsNull(1)
                 THEN requests
                 ELSE requests \o before \o <<call>>
  /\ outcome' = "returned"
  /\ heap' = {}
  /\ UNCHANGED <<call, given, passed, surplus, short>>

\* The program catches the error, or uses the result, and goes on.
Finish ==
  /\ outcome \in {"returned", "raised"}
  /\ call' = "none" /\ outcome' = "none"
  /\ given' = <<>> /\ passed' = <<>> /\ requests' = <<>> /\ heap' = {}
  /\ surplus' = FALSE /\ short' = FALSE

CallsNext ==
  \/ \E f \in Calls : Begin(f)
  \/ RaiseAtOnce
  \/ DefaultSize
  \/ Awaiting /\ \E v \in Inputs(Kind) : Convert(v)
  \/ Allocate
  \/ Return
  \/ Finish

CallsSpec == CallsInit /\ [][CallsNext]_callVars
-----------------------------------------------------------------------------
Outcomes == {"none", "returned", "raised", "thrown"}

CallsTypeOK ==
  /\ call \in Calls \union {"none"}
  /\ outcome \in Outcomes
  /\ heap \subseteq {"buffer", "vector"}
  /\ Len(passed) <= Len(given)
  /\ call = "none" => NoCall

\* lua_templates.h:26 "the code sequence protected by lua_pcall() should not
\* rely on destructors": an error raised in a call, which skips them, leaves no
\* C++ object behind; but the vector of select_schemas.
ErrorsLeaveNothing ==
  outcome = "raised" /\ heap # {} => call = "select_schemas" /\ heap = {"vector"}

\* What a Lua value stands for, if it is a value for a parameter of this kind.
Means(kind, v, c) ==
  /\ kind = "session" /\ v.is = "session" => c = v.id
  /\ kind = "session" /\ IsInteger(v) /\ v.n >= 0 /\ Exact(v.n) => c = v.n
  /\ kind = "integer" /\ IsInteger(v) /\ v.n = Narrow(v.n) => c = v.n
  /\ kind = "int_size" /\ IsInteger(v) /\ v.n >= 0 /\ v.n = Narrow(v.n) => c = v.n
  /\ kind \in {"index", "size"} /\ IsInteger(v) /\ v.n >= 0 => c = v.n
  /\ kind = "settings" /\ v.is = "struct" /\ v.type \in SettingsTypes => c = v.ptr
  /\ v.is = "struct" /\ v.type = kind => c = v.ptr
  /\ v.is = "struct" /\ v.type # kind /\ kind \in StructTypes => c = Nullptr

\* The engine receives what the program gave: the session it was given by
\* create_session, as the object or as its id, if a double holds that; an
\* integer that fits; the struct, if it is one of the right type, and never a
\* struct of another type.
ArgumentsKept ==
  outcome = "returned" => \A k \in DOMAIN passed : Means(Kinds[k], given[k], passed[k])

\* rimeapi.annotation.lua:231 "change_page fun(self: self, session:
\* RimeSession|integer, backward: boolean)": a boolean pages in its direction.
BackwardPages ==
  outcome = "returned" /\ call = "change_page" /\ given[2].is = "boolean"
    => passed[2] = IF given[2].b THEN 1 ELSE 0
=============================================================================
