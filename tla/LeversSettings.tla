---------------------------- MODULE LeversSettings ----------------------------
(***************************************************************************)
(* The settings objects of the levers API and their Lua handles            *)
(* (src/main.cpp).  A handle is a userdata that holds a shared_ptr; its    *)
(* deleter destroys the settings unless the program has done so before.    *)
(* Which settings are still to be destroyed is remembered in               *)
(* levers_settings_owned, by address, under levers_settings_mutex.         *)
(*                                                                         *)
(* One Lua thread runs all of it.  Any allocation of Lua memory may run    *)
(* the finalizers of handles the program has dropped, also the allocation  *)
(* of a new handle, which push_from_raw makes with the mutex held.  A      *)
(* thread that locks a std::mutex it holds waits for ever.                 *)
(***************************************************************************)
CONSTANTS
  Addresses,   \* where the engine allocates settings
  Handles,     \* the userdata Lua allocates (bounds how many exist at once)
  DropsOwned,  \* the program drops handles whose settings it has not destroyed
  Null,        \* the shared_ptr of a handle after reset()
  NoHandle     \* there is no such userdata

VARIABLES
  live,                   \* the settings the engine has and has not destroyed
  levers_settings_owned,
  levers_settings_mutex,  \* held by the Lua thread
  handle,                 \* [Handles -> the shared_ptr's pointer]
  dropped,                \* the handles the program has no reference to
  pushing,                \* the settings push_from_raw has, or Null
  finalizing              \* the handle whose finalizer runs meanwhile, or NoHandle

vars == <<live, levers_settings_owned, levers_settings_mutex, handle, dropped,
          pushing, finalizing>>

Init ==
  /\ live = {}
  /\ levers_settings_owned = {}
  /\ levers_settings_mutex = FALSE
  /\ handle = [h \in Handles |-> NoHandle]
  /\ dropped = {}
  /\ pushing = Null
  /\ finalizing = NoHandle

\* The program runs: the thread is in none of the functions below.
Running == pushing = Null /\ finalizing = NoHandle

-----------------------------------------------------------------------------
\* Mutant of mark_levers_settings_destroyed: the address stays.
mark_nothing(a) == UNCHANGED levers_settings_owned

mark_levers_settings_destroyed(a) ==
  levers_settings_owned' = levers_settings_owned \ {a}

\* Mutant of Reset: the handle keeps its pointer.
ResetNothing(h) == UNCHANGED handle

\* sp.reset()
Reset(h) == handle' = [handle EXCEPT ![h] = Null]

\* p && p->get()
HasPointer(h) == handle[h] \in Addresses

\* custom_settings_init or switcher_settings_init: the engine allocates settings,
\* and push_from_raw locks and takes them over (bounded: one handle is left).
PushFromRaw(a) ==
  /\ Running
  /\ \E h \in Handles : handle[h] = NoHandle
  /\ ~levers_settings_mutex
  /\ a \notin live
  /\ live' = live \union {a}
  /\ levers_settings_mutex' = TRUE
  /\ levers_settings_owned' = levers_settings_owned \union {a}
  /\ pushing' = a
  /\ UNCHANGED <<handle, dropped, finalizing>>

\* pushdata has its userdata h, and push_from_raw returns and unlocks.
PushReturn(h) ==
  /\ pushing # Null /\ finalizing = NoHandle
  /\ handle[h] = NoHandle
  /\ handle' = [handle EXCEPT ![h] = pushing]
  /\ pushing' = Null
  /\ levers_settings_mutex' = FALSE
  /\ UNCHANGED <<live, levers_settings_owned, dropped, finalizing>>

\* custom_settings_destroy: the settings are destroyed, no longer owned, and the
\* handle is reset, whose deleter then finds nothing to do.
Destroy(h) ==
  /\ Running
  /\ HasPointer(h) /\ h \notin dropped
  /\ ~levers_settings_mutex
  /\ live' = live \ {handle[h]}
  /\ mark_levers_settings_destroyed(handle[h])
  /\ Reset(h)
  /\ UNCHANGED <<levers_settings_mutex, dropped, pushing, finalizing>>

\* The program loses its last reference to the handle.
Drop(h) ==
  /\ Running
  /\ handle[h] # NoHandle
  /\ DropsOwned \/ handle[h] = Null
  /\ dropped' = dropped \union {h}
  /\ UNCHANGED <<live, levers_settings_owned, levers_settings_mutex, handle,
                 pushing, finalizing>>

\* The finalizer is done and the userdata is freed.
Free(h) ==
  /\ handle' = [handle EXCEPT ![h] = NoHandle]
  /\ dropped' = dropped \ {h}

\* gc of a handle that was reset has nothing to do.
CollectReset(h) ==
  /\ h \in dropped /\ ~HasPointer(h)
  /\ finalizing = NoHandle
  /\ Free(h)
  /\ UNCHANGED <<live, levers_settings_owned, levers_settings_mutex, pushing,
                 finalizing>>

\* gc of another handle releases the shared_ptr, whose deleter is about to lock:
\* while the program runs, or while lua_newuserdata allocates for a push.
Collect(h) ==
  /\ finalizing = NoHandle
  /\ h \in dropped /\ HasPointer(h)
  /\ finalizing' = h
  /\ UNCHANGED <<live, levers_settings_owned, levers_settings_mutex, handle,
                 dropped, pushing>>

\* destroy_levers_settings has locked: what is owned is destroyed.
Deleter ==
  LET a == handle[finalizing]
  IN  /\ finalizing # NoHandle
      /\ ~levers_settings_mutex
      /\ mark_levers_settings_destroyed(a)
      /\ live' = IF a \in levers_settings_owned THEN live \ {a} ELSE live
      /\ Free(finalizing)
      /\ finalizing' = NoHandle
      /\ UNCHANGED <<levers_settings_mutex, pushing>>

Next ==
  \/ \E a \in Addresses : PushFromRaw(a)
  \/ \E h \in Handles :
       \/ PushReturn(h)
       \/ Destroy(h)
       \/ Drop(h)
       \/ CollectReset(h)
       \/ Collect(h)
  \/ Deleter

Spec == Init /\ [][Next]_vars

\* A call that has begun goes on when it can, and so does a finalizer; whether the
\* program calls and when the collector runs is left open.
FairSpec ==
  /\ Spec
  /\ WF_vars(\E h \in Handles : PushReturn(h))
  /\ WF_vars(Deleter)
-----------------------------------------------------------------------------
TypeOK ==
  /\ live \subseteq Addresses
  /\ levers_settings_owned \subseteq Addresses
  /\ levers_settings_mutex \in BOOLEAN
  /\ handle \in [Handles -> Addresses \union {Null, NoHandle}]
  /\ dropped \subseteq {h \in Handles : handle[h] # NoHandle}
  /\ pushing \in Addresses \union {Null}
  /\ finalizing \in dropped \union {NoHandle}

\* No sequence of inits, destroys, drops and collections leaves settings nobody
\* will destroy: those that live are owned and have a handle, or are about to.
NoLeak ==
  /\ live = levers_settings_owned
  /\ live = {a \in Addresses : a = pushing \/ \E h \in Handles : handle[h] = a}

\* Nor does one destroy settings under a handle, also not those the engine has
\* allocated since at an address a former handle had: no two handles share one.
SoleHandle ==
  /\ \A h \in Handles : handle[h] \in Addresses => handle[h] # pushing
  /\ \A h, g \in Handles : handle[h] \in Addresses /\ handle[h] = handle[g] => h = g

\* main.cpp: "wrap a levers-owned raw pointer into a shared_ptr with a deleter
\* that calls destroy_levers_settings, then push to Lua": the handle does come.
PushReturns == pushing # Null ~> pushing = Null
=============================================================================
