------------------------------- MODULE LuaTypes -------------------------------
(***************************************************************************)
(* C++ objects in Lua (src/lua_templates.h, src/lua_export_type.h, src/    *)
(* lua.cc and the specializations at the head of src/main.cpp).  An object *)
(* of a class is handed to Lua as a userdata in one of several forms; each *)
(* form of each class is a type with a metatable of its own, found by its  *)
(* name in the registry, with the type, a finalizer and the lookup of      *)
(* methods and members.  A C function converts the userdata it is given to *)
(* the form it wants by comparing types, and then reads the bytes as that. *)
(* Not among the classes are the two with conversions of their own: a      *)
(* RimeStringSlice is pushed as a pair of a pointer and an owner, and a    *)
(* RimeSession (in ApiCalls) has a bare string for its type.               *)
(***************************************************************************)
EXTENDS FiniteSets

CONSTANTS
  Classes,   \* the C++ classes that LuaType has no specialization for
  Userdata,  \* the userdata that exist at one time
  Nothing

Forms == {"value", "reference", "pointer", "shared_ptr", "unique_ptr"}
Types == [class : Classes, form : Forms, const : BOOLEAN]

ASSUME LuaTypesAssumption == Nothing \notin Types

VARIABLES
  metatables,  \* [the types that have one -> the type its gc checks, and whether it is exported]
  userdata,    \* [Userdata -> its type, or Nothing]
  read,        \* the last conversion: what was wanted, what it was given, as what it was read
  undestroyed  \* the types of the objects whose memory went without their destructor

typeVars == <<metatables, userdata, read, undestroyed>>

\* The forms that own an object, which their finalizer destroys.
Owning(t) == t.form \in {"value", "shared_ptr", "unique_ptr"}

-----------------------------------------------------------------------------
\* EXPORT: the types it registers, each with the finalizer it gives it.  The
\* finalizer of a constant object is that of one that is not.
Exported(t) == t.form # "unique_ptr"
ExportedGc(t) ==
  CASE t.form = "value" -> [t EXCEPT !.const = FALSE]
    [] t.form = "shared_ptr" -> t
    [] OTHER -> Nothing

\* lua_export_type: the metatable of a type may exist already; a finalizer it
\* has stays, if it is given none.
lua_export_type(t) ==
  [gc |-> IF ExportedGc(t) = Nothing /\ t \in DOMAIN metatables
          THEN metatables[t].gc ELSE ExportedGc(t),
   indexed |-> TRUE]

\* register_rime_bindings, whenever the module is loaded.
register_rime_bindings ==
  /\ metatables' = [t \in DOMAIN metatables \union {e \in Types : Exported(e)} |->
                      IF Exported(t) THEN lua_export_type(t) ELSE metatables[t]]
  /\ UNCHANGED <<userdata, read, undestroyed>>

\* Mutant of FirstGc: what is not registered gets no finalizer.
FirstGc_none(t) == Nothing

\* pushdata registers a finalizer for a type that has no metatable yet.
FirstGc(t) == t

\* pushdata; that of a reference registers nothing.
pushdata(u, t) ==
  /\ userdata[u] = Nothing
  /\ metatables' =
       IF t \in DOMAIN metatables \/ t.form = "reference"
       THEN metatables
       ELSE [s \in DOMAIN metatables \union {t} |->
               IF s = t THEN [gc |-> FirstGc(t), indexed |-> FALSE] ELSE metatables[s]]
  /\ userdata' = [userdata EXCEPT ![u] = t]
  /\ UNCHANGED <<read, undestroyed>>

\* The collector frees the userdata after its finalizer, which destroys the
\* object if the userdata is of the type it checks, and raises an error if not.
gc(u) ==
  /\ userdata[u] # Nothing
  /\ LET t == userdata[u]
     IN undestroyed' = IF Owning(t) /\ metatables[t].gc # t
                       THEN undestroyed \union {t} ELSE undestroyed
  /\ userdata' = [userdata EXCEPT ![u] = Nothing]
  /\ UNCHANGED <<metatables, read>>

-----------------------------------------------------------------------------
\* The type itself, or the one that only lacks its const.
Is(t, class, form, const) ==
  t.class = class /\ t.form = form /\ t.const \in {const, FALSE}

\* Mutant of todata_reference: it takes a constant object for another one.
todata_reference_const(want, t) ==
  IF t.class = want.class THEN t.form ELSE "error"

\* LuaType<T &>::todata: as what it reads what it is given.
todata_reference(want, t) ==
  CASE Is(t, want.class, "reference", want.const) -> "reference"
    [] Is(t, want.class, "shared_ptr", want.const) -> "shared_ptr"
    [] Is(t, want.class, "unique_ptr", want.const) -> "unique_ptr"
    [] Is(t, want.class, "pointer", want.const) -> "pointer"
    [] Is(t, want.class, "value", want.const) -> "value"
    [] OTHER -> "error"

\* LuaType<T>::todata, and LuaType<std::shared_ptr<T>>::todata.  The const of a
\* pointer is not that of its type.
todata(want, t) ==
  CASE want.form = "reference" -> todata_reference(want, t)
    [] want.form = "value" ->
         IF Is(t, want.class, "value", want.const) THEN "value" ELSE "error"
    [] OTHER -> IF t = want THEN t.form ELSE "error"

\* smart_shared_ptr_todata: of a shared_ptr or a value, not constant.
smart_shared_ptr_todata(class, t) ==
  IF t.form \in {"shared_ptr", "value"} /\ t = [class |-> class, form |-> t.form, const |-> FALSE]
  THEN t.form
  ELSE "null"

\* A C function converts the userdata it is given.  There is no conversion to a
\* unique_ptr.
ConvertUserdata(u, want) ==
  /\ userdata[u] # Nothing
  /\ want.form # "unique_ptr"
  /\ read' = [want |-> want, given |-> userdata[u],
              as |-> todata(want, userdata[u])]
  /\ UNCHANGED <<metatables, userdata, undestroyed>>

\* A method or a member of the bindings looks for its own object.
Self(u, class) ==
  /\ userdata[u] # Nothing
  /\ read' = [want |-> [class |-> class, form |-> "pointer", const |-> FALSE],
              given |-> userdata[u],
              as |-> smart_shared_ptr_todata(class, userdata[u])]
  /\ UNCHANGED <<metatables, userdata, undestroyed>>

\* A conversion does not outlive the call it is made in.
Forget ==
  /\ read # Nothing
  /\ read' = Nothing
  /\ UNCHANGED <<metatables, userdata, undestroyed>>

TypesInit ==
  /\ metatables = [t \in {} |-> Nothing]
  /\ userdata = [u \in Userdata |-> Nothing]
  /\ read = Nothing
  /\ undestroyed = {}

\* The objects come from functions that are registered.
TypesNext ==
  \/ read = Nothing /\ register_rime_bindings
  \/ \E u \in Userdata :
       \/ DOMAIN metatables # {} /\ read = Nothing /\ \E t \in Types : pushdata(u, t)
       \/ read = Nothing /\ gc(u)
       \/ read = Nothing /\ \E want \in Types : ConvertUserdata(u, want)
       \/ read = Nothing /\ \E class \in Classes : Self(u, class)
  \/ Forget

TypesSpec == TypesInit /\ [][TypesNext]_typeVars
-----------------------------------------------------------------------------
\* Memory is read only as what it is: as an object of the wanted class, in the
\* form the userdata has, and a constant object only where one is wanted.
ConversionsSound ==
  read # Nothing /\ read.as \notin {"error", "null"} =>
    /\ read.as = read.given.form
    /\ read.given.class = read.want.class
    /\ read.given.const => read.want.const

\* lua_templates.h:147 "registers a __gc to prevent memory leaks": a userdata
\* that is collected destroys the object it owns; but a constant one held by
\* value, whose finalizer (EXPORT_CST_TYPE) is that of another type.
CollectedIsDestroyed ==
  \A t \in undestroyed : t.form = "value" /\ t.const
===============================================================================
