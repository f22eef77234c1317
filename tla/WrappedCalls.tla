----------------------------- MODULE WrappedCalls -----------------------------
(***************************************************************************)
(* C++ functions called from Lua, by the templates of src/lua_templates.h  *)
(* and src/lua.cc.                                                         *)
(*                                                                         *)
(* A wrapped function converts its arguments one by one under lua_pcall; a *)
(* conversion that raises an error leaves by longjmp, without destructors. *)
(* What conversions allocate is therefore registered in a C_State, which   *)
(* wrap_common destroys on every way out.  A C++ object that stands for a  *)
(* Lua value (LuaObj) holds a reference in the registry.                   *)
(***************************************************************************)
EXTENDS Naturals, Sequences

CONSTANTS
  Wrapped,  \* the wrapped functions: sequences of parameters
  Ids       \* bound: the references the registry can hold

\* A parameter is taken by reference or pointer, or copied.
ParameterKinds == {"reference", "text", "string", "vector", "object"}
Parameters == [kind : ParameterKinds, copied : BOOLEAN]

VARIABLES
  running, \* a call runs
  frame,   \* the parameters it still has to convert
  list,    \* C_State::list: the objects registered, <<kind, reference>>
  copies,  \* the copies the frames of the call hold
  refs,    \* the references in use in the registry
  held,    \* those of the LuaObj that the C++ side keeps
  leaked     \* the copies that were never destroyed

wrappedVars == <<running, frame, list, copies, refs, held, leaked>>

NoWrapped == ~running
NoRef == 0

ASSUME WrappedCallsAssumption == NoRef \notin Ids

References(objects) == {objects[k][2] : k \in DOMAIN objects} \ {NoRef}

\* The shared_ptr of the C_State and the copies share a LuaObj, which gives its
\* reference back with the last of them.
Released(gone, kept) == refs \ (References(gone) \ (References(kept) \union held))

-----------------------------------------------------------------------------
\* WRAP(f): wrap_common makes a C_State and calls wrap_helper.
Wrap(f) ==
  /\ NoWrapped
  /\ running' = TRUE
  /\ frame' = Wrapped[f]
  /\ UNCHANGED <<list, copies, refs, held, leaked>>

\* What todata registers: a vector before its items, a string after its check.
Registered(kind, good) ==
  CASE kind = "vector" -> IF good THEN <<"vector", "string">> ELSE <<"vector">>
    [] kind = "string" /\ good -> <<"string">>
    [] OTHER -> <<>>

WithoutRef(kinds) == [k \in DOMAIN kinds |-> <<kinds[k], NoRef>>]

Copy(param, objects) ==
  IF param.copied /\ param.kind \in {"string", "vector", "object"} THEN objects ELSE <<>>

\* aux::wrap<n>: A t = LuaType<A>::todata(L, n, C).
ConvertValue ==
  /\ running /\ frame # <<>>
  /\ LET param == Head(frame)
         objects == WithoutRef(Registered(param.kind, TRUE))
     IN /\ param.kind # "object"
        /\ list' = list \o objects
        /\ copies' = copies \o Copy(param, objects)
  /\ frame' = Tail(frame)
  /\ UNCHANGED <<running, refs, held, leaked>>

\* LuaObj::todata refers to any value.
ConvertObject ==
  /\ running /\ frame # <<>>
  /\ Head(frame).kind = "object"
  /\ \E id \in Ids \ refs :
       /\ refs' = refs \union {id}
       /\ list' = Append(list, <<"object", id>>)
       /\ copies' = copies \o Copy(Head(frame), << <<"object", id>> >>)
  /\ frame' = Tail(frame)
  /\ UNCHANGED <<running, held, leaked>>

\* Mutant of AfterRaise: an error leaves wrap_common before C->~C_State().
AfterRaise_kept(objects) == [list |-> objects, refs |-> refs]

\* wrap_common destroys the C_State when lua_pcall has failed.
AfterRaise(objects) == [list |-> <<>>, refs |-> Released(objects, copies)]

\* The error skips the destructors of the copies; lua_error goes on with it.
Raise ==
  /\ running /\ frame # <<>>
  /\ Head(frame).kind # "object"
  /\ LET after == AfterRaise(list \o WithoutRef(Registered(Head(frame).kind, FALSE)))
     IN list' = after.list /\ refs' = after.refs
  /\ leaked' = leaked \union {copies[k] : k \in DOMAIN copies}
  /\ running' = FALSE /\ frame' = <<>> /\ copies' = <<>>
  /\ UNCHANGED held

\* The function is called; its frames and the C_State go.  It may keep a LuaObj
\* it was given a shared_ptr of.
ReturnWrapped ==
  /\ running /\ frame = <<>>
  /\ \E keep \in SUBSET References(copies) :
       /\ held' = held \union keep
       /\ refs' = refs \ ((References(list) \union References(copies)) \ held')
  /\ running' = FALSE
  /\ list' = <<>> /\ copies' = <<>>
  /\ UNCHANGED <<frame, leaked>>

-----------------------------------------------------------------------------
\* Lua::getglobal, Lua::newthreadx: the C++ side gets a LuaObj.
Hold ==
  /\ NoWrapped
  /\ \E id \in Ids \ refs : refs' = refs \union {id} /\ held' = held \union {id}
  /\ UNCHANGED <<running, frame, list, copies, leaked>>

\* ~LuaObj
Drop ==
  /\ NoWrapped
  /\ \E id \in held : refs' = refs \ {id} /\ held' = held \ {id}
  /\ UNCHANGED <<running, frame, list, copies, leaked>>

WrappedInit ==
  /\ running = FALSE /\ frame = <<>>
  /\ list = <<>> /\ copies = <<>>
  /\ refs = {} /\ held = {} /\ leaked = {}

WrappedNext ==
  \/ \E f \in DOMAIN Wrapped : Wrap(f)
  \/ ConvertValue \/ ConvertObject \/ Raise \/ ReturnWrapped
  \/ Hold \/ Drop

WrappedSpec == WrappedInit /\ [][WrappedNext]_wrappedVars
-----------------------------------------------------------------------------
\* lua_templates.h:32-35 "the resources should be registered here, so that they
\* can be freed outside the call when exception happens": however a call ends,
\* nothing stays registered, every LuaObj that is left refers to its value, and
\* the registry refers to no other, but for the copies that an error has lost.
CallsLeaveNothing ==
  /\ held \union References(list) \union References(copies) \subseteq refs
  /\ NoWrapped =>
       /\ list = <<>>
       /\ refs = held \union ({object[2] : object \in leaked} \ {NoRef})
===============================================================================
