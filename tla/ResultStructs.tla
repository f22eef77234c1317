----------------------------- MODULE ResultStructs -----------------------------
(***************************************************************************)
(* Who frees what the engine puts into the structs a program passes in     *)
(* (src/main.cpp): RimeCommit, RimeStatus, RimeContext and RimeSchemaList. *)
(* The struct is a userdata at some address; the memory it points to is    *)
(* allocated by the engine or by its levers module, each with a function of*)
(* its own to free it.  gc chooses between those two for a schema list by  *)
(* schemalist_borrowed_set, a set of struct addresses.                     *)
(*                                                                         *)
(* What the engine does is external: a get function overwrites the struct  *)
(* whatever it held; it may find nothing, which leaves the struct empty.   *)
(* The program calls any get function on any struct of its type, as often  *)
(* as it likes; what it frees itself, it frees with the function of the    *)
(* side that allocated it, as scripts/levers_api_test.lua:105 does.        *)
(***************************************************************************)
EXTENDS Naturals

CONSTANTS
  Structs,  \* the addresses the structs are allocated at
  Blocks    \* the pieces of memory that the structs can point to

VARIABLES
  typeOf,                   \* [Structs -> the type of the struct, or "none"]
  pointsTo,                 \* [Structs -> the blocks the struct points to]
  memory,                   \* [Blocks -> the side that allocated the block, ...]
  schemalist_borrowed_set,
  sides                     \* [Structs -> the sides whose get functions were called on it]

structVars == <<typeOf, pointsTo, memory, schemalist_borrowed_set, sides>>

LeversGets == {"get_available_schema_list", "get_selected_schema_list"}
GetsOf ==
  [ RimeCommit     |-> {"get_commit"},
    RimeStatus     |-> {"get_status"},
    RimeContext    |-> {"get_context"},
    RimeSchemaList |-> {"get_schema_list"} \union LeversGets ]
StructClasses == DOMAIN GetsOf
Gets == UNION {GetsOf[t] : t \in StructClasses}
Sides == {"engine", "levers"}

LiveStruct(a) == typeOf[a] # "none"

\* Mutants of Mark and Unmark.
MarkNothing(a) == UNCHANGED schemalist_borrowed_set
UnmarkNothing(a) == UNCHANGED schemalist_borrowed_set

Mark(a) == schemalist_borrowed_set' = schemalist_borrowed_set \union {a}
Unmark(a) == schemalist_borrowed_set' = schemalist_borrowed_set \ {a}

is_schemalist_borrowed(a) == a \in schemalist_borrowed_set

StructsInit ==
  /\ typeOf = [a \in Structs |-> "none"]
  /\ pointsTo = [a \in Structs |-> {}]
  /\ memory = [b \in Blocks |-> "free"]
  /\ schemalist_borrowed_set = {}
  /\ sides = [a \in Structs |-> {}]

\* The memory when a side has freed what the struct at a points to: free_commit,
\* free_status, free_context and free_schema_list are the engine's functions,
\* schema_list_destroy the levers'.
FreedBy(side, a) ==
  [b \in Blocks |-> IF b \notin pointsTo[a] THEN memory[b]
                    ELSE IF memory[b] = side THEN "free" ELSE "misfreed"]

\* A side overwrites the struct at a, when the memory is mem, with nothing or
\* with a block it allocates.
FilledBy(side, a, mem) ==
  /\ \/ /\ pointsTo' = [pointsTo EXCEPT ![a] = {}]
        /\ memory' = mem
     \/ \E b \in Blocks :
          /\ mem[b] = "free"
          /\ pointsTo' = [pointsTo EXCEPT ![a] = {b}]
          /\ memory' = [mem EXCEPT ![b] = side]
  /\ sides' = [sides EXCEPT ![a] = @ \union {side}]

-----------------------------------------------------------------------------
\* RimeCommit(), RimeStatus(), ...: a zeroed struct at a free address, which
\* may be that of a collected struct of any type.
NewStruct(a) ==
  /\ ~LiveStruct(a)
  /\ \E t \in StructClasses : typeOf' = [typeOf EXCEPT ![a] = t]
  /\ UNCHANGED <<pointsTo, memory, schemalist_borrowed_set, sides>>

\* The program calls get on the struct.
Passes(get, a) == LiveStruct(a) /\ get \in GetsOf[typeOf[a]]

\* Mutant of Frees: no get function does.
FreesNothing(get) == FALSE

\* get_status, get_context and get_schema_list free the struct first; get_commit
\* does not.
Frees(get) == get \in {"get_status", "get_context", "get_schema_list"}

GetEngine(get, a) ==
  /\ get \notin LeversGets
  /\ Passes(get, a)
  /\ FilledBy("engine", a, IF Frees(get) THEN FreedBy("engine", a) ELSE memory)
  /\ UNCHANGED <<typeOf, schemalist_borrowed_set>>

\* Nor do the levers' functions; a list they have filled in is marked.
GetLevers(get, a) ==
  /\ get \in LeversGets
  /\ Passes(get, a)
  /\ FilledBy("levers", a, memory)
  /\ Mark(a) \/ (pointsTo'[a] = {} /\ UNCHANGED schemalist_borrowed_set)
  /\ UNCHANGED typeOf

\* The program calls free_commit, free_status, free_context or free_schema_list
\* on what it got from the engine.
Release(a) ==
  /\ LiveStruct(a)
  /\ \A b \in pointsTo[a] : memory[b] = "engine"
  /\ memory' = FreedBy("engine", a)
  /\ pointsTo' = [pointsTo EXCEPT ![a] = {}]
  /\ UNCHANGED <<typeOf, schemalist_borrowed_set, sides>>

\* It calls schema_list_destroy on what it got from the levers; the mark stays.
SchemaListDestroy(a) ==
  /\ typeOf[a] = "RimeSchemaList"
  /\ \A b \in pointsTo[a] : memory[b] = "levers"
  /\ memory' = FreedBy("levers", a)
  /\ pointsTo' = [pointsTo EXCEPT ![a] = {}]
  /\ UNCHANGED <<typeOf, schemalist_borrowed_set, sides>>

\* gc of the struct.
GcStruct(a) ==
  /\ LiveStruct(a)
  /\ memory' = FreedBy(IF is_schemalist_borrowed(a) THEN "levers" ELSE "engine", a)
  /\ Unmark(a)
  /\ typeOf' = [typeOf EXCEPT ![a] = "none"]
  /\ pointsTo' = [pointsTo EXCEPT ![a] = {}]
  /\ sides' = [sides EXCEPT ![a] = {}]

StructsNext ==
  \E a \in Structs :
    \/ NewStruct(a)
    \/ \E get \in Gets : GetEngine(get, a) \/ GetLevers(get, a)
    \/ Release(a)
    \/ SchemaListDestroy(a)
    \/ GcStruct(a)

StructsSpec == StructsInit /\ [][StructsNext]_structVars
-----------------------------------------------------------------------------
StructsTypeOK ==
  /\ typeOf \in [Structs -> StructClasses \union {"none"}]
  /\ pointsTo \in [Structs -> SUBSET Blocks]
  /\ memory \in [Blocks -> {"free", "misfreed"} \union Sides]
  /\ schemalist_borrowed_set \subseteq Structs
  /\ sides \in [Structs -> SUBSET Sides]

\* Memory that nobody will free: no struct points to it.
LostBlock(b) == memory[b] \in Sides /\ \A a \in Structs : b \notin pointsTo[a]

\* main.cpp:1252 "ensure no leak": whatever a program fills again, frees, drops or
\* makes anew at an address, memory is lost only when get_commit or a get function
\* of the levers overwrites the struct that pointed to it.  schema_tester.lua:360
\* and rime_api_console.lua:202 do fill one RimeCommit again and again.
LostOnlyByRefill ==
  [][\A b \in Blocks : ~LostBlock(b) /\ LostBlock(b)' =>
       \E a \in Structs :
         /\ b \in pointsTo[a]
         /\ \E get \in {"get_commit"} \union LeversGets :
              GetEngine(get, a) \/ GetLevers(get, a)]_structVars

\* Both sides have filled the list at a, or do so now.
Shared(a) == sides[a] = Sides \/ sides[a]' = Sides

\* What a struct points to is freed by the side that allocated it, by gc too and
\* whatever was at the address before, except in a list that both sides were
\* given to fill: get_schema_list frees what the levers left in it as the
\* engine's, and gc goes by a mark that outlives schema_list_destroy.
MisfreedOnlyIfShared ==
  [][\A b \in Blocks : memory[b] # "misfreed" /\ memory[b]' = "misfreed" =>
       \E a \in Structs : b \in pointsTo[a] /\ Shared(a)]_structVars
=============================================================================
