---------------------------- MODULE Notifications ----------------------------
(***************************************************************************)
(* Notifications in the native module (src/main.cpp).  librime calls       *)
(* on_message from whatever thread notifies: the maintenance thread, or    *)
(* the Lua thread itself, inside an API call that changes a session.       *)
(* on_message appends to three parallel vectors under noti_mutex.  The Lua *)
(* thread registers a handler and drains the vectors from time to time.    *)
(* drain_notifications holds noti_mutex for the whole drain, the calls of  *)
(* the user's handler included, and the mutex is not recursive.            *)
(*                                                                         *)
(* HandlerCalls names what the user's handler may do.  The code puts no    *)
(* limit on it; the module says what follows from which limit.             *)
(***************************************************************************)
EXTENDS Naturals, Sequences

CONSTANTS
  Workers,       \* the engine's threads
  Lua,           \* the thread that runs the Lua program
  Free,          \* noti_mutex is held by no thread
  Handlers,      \* the Lua functions a program may register
  LUA_NOREF,     \* noti_func_ref when no function is registered
  Message,       \* what the engine may notify: [session, type, value]
  NoMessage,     \* the thread is not in on_message
  HandlerCalls,  \* what a handler may call, a subset of Calls
  MaxPosts       \* bound: how many times the engine notifies

Calls == {"set", "emit", "drain", "join"}

Threads == Workers \union {Lua}

Sessions == {m.session : m \in Message}
Types == {m.type : m \in Message}
Values == {m.value : m \in Message}

ASSUME NotificationsAssumption ==
  /\ Lua \notin Workers
  /\ Free \notin Threads
  /\ LUA_NOREF \notin Handlers
  /\ Message \subseteq [session : Sessions, type : Types, value : Values]
  /\ NoMessage \notin Message
  /\ HandlerCalls \subseteq Calls
  /\ MaxPosts \in Nat

VARIABLES
  noti_mutex,     \* the thread that holds the mutex, or Free
  sessionid, msg_type, msg_value,  \* the three vectors
  registered,     \* the engine's notification handler is on_message
  noti_func_ref,  \* the registered Lua function, or LUA_NOREF
  posting,        \* [Threads -> where the thread is in on_message]
  message,        \* [Threads -> the strings its on_message has copied]
  luapc,          \* where the Lua thread is in drain_notifications
  i,              \* the loop index of the drain, 0 outside
  joining,        \* the Lua thread is in join_maintenance_thread
  running,        \* the workers doing maintenance
  posts,          \* how often the engine has notified (bounds the model)
  delivered       \* history: what was given to which handler

queue == <<sessionid, msg_type, msg_value>>
vars == <<noti_mutex, queue, registered, noti_func_ref, posting, message,
          luapc, i, joining, running, posts, delivered>>

-----------------------------------------------------------------------------
(***************************************************************************)
(* The Lua thread runs Lua code: the program itself ("program"), or the    *)
(* body of the handler ("handler"), which is limited to HandlerCalls.      *)
(***************************************************************************)
InLua(call) ==
  /\ posting[Lua] = "out"
  /\ ~joining
  /\ \/ luapc = "program"
     \/ luapc = "handler" /\ call \in HandlerCalls

Init ==
  /\ noti_mutex = Free
  /\ sessionid = <<>> /\ msg_type = <<>> /\ msg_value = <<>>
  /\ registered = FALSE
  /\ noti_func_ref = LUA_NOREF
  /\ posting = [t \in Threads |-> "out"]
  /\ message = [t \in Threads |-> NoMessage]
  /\ luapc = "program"
  /\ i = 0
  /\ joining = FALSE
  /\ running = {}
  /\ posts = 0
  /\ delivered = <<>>

-----------------------------------------------------------------------------
\* The lock_guard of on_message and of drain_notifications.
Lock(t) == noti_mutex = Free /\ noti_mutex' = t

\* Mutant of Unlock: the mutex stays locked.
StayLocked == UNCHANGED noti_mutex

Unlock == noti_mutex' = Free

-----------------------------------------------------------------------------
(***************************************************************************)
(* on_message, one step per access to shared state.                        *)
(***************************************************************************)
\* The engine notifies on thread t.  It calls on_message if it is its
\* handler; on_message copies the strings and goes for the mutex.
Notify(t, m) ==
  /\ posts < MaxPosts
  /\ posting[t] = "out"
  /\ IF t = Lua THEN InLua("emit") ELSE t \in running
  /\ registered
  /\ posting' = [posting EXCEPT ![t] = "lock"]
  /\ message' = [message EXCEPT ![t] = m]
  /\ posts' = posts + 1
  /\ UNCHANGED <<noti_mutex, queue, registered, noti_func_ref, luapc, i,
                 joining, running, delivered>>

LockMessage(t) ==
  /\ posting[t] = "lock"
  /\ Lock(t)
  /\ posting' = [posting EXCEPT ![t] = "session"]
  /\ UNCHANGED <<queue, registered, noti_func_ref, message, luapc, i, joining,
                 running, posts, delivered>>

PushSession(t) ==
  /\ posting[t] = "session"
  /\ sessionid' = Append(sessionid, message[t].session)
  /\ posting' = [posting EXCEPT ![t] = "type"]
  /\ UNCHANGED <<noti_mutex, msg_type, msg_value, registered, noti_func_ref,
                 message, luapc, i, joining, running, posts, delivered>>

PushType(t) ==
  /\ posting[t] = "type"
  /\ msg_type' = Append(msg_type, message[t].type)
  /\ posting' = [posting EXCEPT ![t] = "value"]
  /\ UNCHANGED <<noti_mutex, sessionid, msg_value, registered, noti_func_ref,
                 message, luapc, i, joining, running, posts, delivered>>

\* Mutant of PushValue: the copied strings are not given up.
PushValueKeepsMessage(t) ==
  /\ posting[t] = "value"
  /\ msg_value' = Append(msg_value, message[t].value)
  /\ noti_mutex' = Free
  /\ posting' = [posting EXCEPT ![t] = "out"]
  /\ UNCHANGED <<sessionid, msg_type, registered, noti_func_ref, message, luapc,
                 i, joining, running, posts, delivered>>

\* The last push_back and the end of the lock_guard's scope.
PushValue(t) ==
  /\ posting[t] = "value"
  /\ msg_value' = Append(msg_value, message[t].value)
  /\ Unlock
  /\ posting' = [posting EXCEPT ![t] = "out"]
  /\ message' = [message EXCEPT ![t] = NoMessage]
  /\ UNCHANGED <<sessionid, msg_type, registered, noti_func_ref, luapc, i,
                 joining, running, posts, delivered>>

-----------------------------------------------------------------------------
(***************************************************************************)
(* The API calls of the Lua thread.                                        *)
(***************************************************************************)
\* lua_set_notification_handler(f): the queue stays as it is.
SetHandler(f) ==
  /\ InLua("set")
  /\ registered' = TRUE
  /\ noti_func_ref' = f
  /\ UNCHANGED <<noti_mutex, queue, posting, message, luapc, i, joining,
                 running, posts, delivered>>

\* lua_set_notification_handler of anything but a function.
ClearHandler ==
  /\ InLua("set")
  /\ registered' = FALSE
  /\ noti_func_ref' = LUA_NOREF
  /\ UNCHANGED <<noti_mutex, queue, posting, message, luapc, i, joining,
                 running, posts, delivered>>

\* drain_notifications starts: it waits for the mutex.
DrainCall ==
  /\ InLua("drain")
  /\ luapc' = "lock"
  /\ UNCHANGED <<noti_mutex, queue, registered, noti_func_ref, posting,
                 message, i, joining, running, posts, delivered>>

\* With a handler and something queued, the loop begins.
DrainBegin ==
  /\ luapc = "lock"
  /\ Lock(Lua)
  /\ noti_func_ref # LUA_NOREF /\ sessionid # <<>>
  /\ luapc' = "loop"
  /\ i' = 1
  /\ UNCHANGED <<queue, registered, noti_func_ref, posting, message, joining,
                 running, posts, delivered>>

\* Mutants of ClearQueue: nothing is cleared, or not the session ids.
ClearNothing == UNCHANGED queue
ClearAllButSessions == UNCHANGED sessionid /\ msg_type' = <<>> /\ msg_value' = <<>>

ClearQueue ==
  /\ sessionid' = <<>> /\ msg_type' = <<>> /\ msg_value' = <<>>

\* Without a handler, or with nothing queued, the loop is skipped; the three
\* vectors are emptied and the lock_guard released.
DrainSkip ==
  /\ luapc = "lock"
  /\ noti_mutex = Free
  /\ noti_func_ref = LUA_NOREF \/ sessionid = <<>>
  /\ ClearQueue
  /\ luapc' = "program"
  /\ UNCHANGED <<noti_mutex, registered, noti_func_ref, posting, message, i,
                 joining, running, posts, delivered>>

\* One iteration up to lua_pcall: the handler is read from the registry anew.
CallHandler ==
  /\ luapc = "loop"
  /\ i <= Len(msg_type)
  /\ noti_func_ref # LUA_NOREF
  /\ delivered' = Append(delivered,
                    [to |-> noti_func_ref,
                     what |-> [session |-> sessionid[i], type |-> msg_type[i],
                               value |-> msg_value[i]]])
  /\ luapc' = "handler"
  /\ UNCHANGED <<noti_mutex, queue, registered, noti_func_ref, posting,
                 message, i, joining, running, posts>>

\* An earlier iteration's handler has unregistered itself: lua_rawgeti pushes
\* nil, lua_pcall fails, the error is printed and the loop goes on.
CallNil ==
  /\ luapc = "loop"
  /\ i <= Len(msg_type)
  /\ noti_func_ref = LUA_NOREF
  /\ i' = i + 1
  /\ UNCHANGED <<noti_mutex, queue, registered, noti_func_ref, posting,
                 message, luapc, joining, running, posts, delivered>>

\* The handler returns or raises an error: lua_pcall ends either way.
HandlerReturn ==
  /\ luapc = "handler"
  /\ posting[Lua] = "out" /\ ~joining
  /\ i' = i + 1
  /\ luapc' = "loop"
  /\ UNCHANGED <<noti_mutex, queue, registered, noti_func_ref, posting,
                 message, joining, running, posts, delivered>>

DrainEnd ==
  /\ luapc = "loop"
  /\ i > Len(msg_type)
  /\ ClearQueue
  /\ Unlock
  /\ luapc' = "program"
  /\ i' = 0
  /\ UNCHANGED <<registered, noti_func_ref, posting, message, joining, running,
                 posts, delivered>>

-----------------------------------------------------------------------------
(***************************************************************************)
(* The engine's maintenance, as src/ uses it (librime is external).        *)
(***************************************************************************)
StartMaintenance(w) ==
  /\ InLua("set") /\ luapc = "program"
  /\ w \notin running
  /\ running' = running \union {w}
  /\ UNCHANGED <<noti_mutex, queue, registered, noti_func_ref, posting,
                 message, luapc, i, joining, posts, delivered>>

MaintenanceEnds(w) ==
  /\ w \in running
  /\ posting[w] = "out"
  /\ running' = running \ {w}
  /\ UNCHANGED <<noti_mutex, queue, registered, noti_func_ref, posting,
                 message, luapc, i, joining, posts, delivered>>

JoinCall ==
  /\ InLua("join")
  /\ joining' = TRUE
  /\ UNCHANGED <<noti_mutex, queue, registered, noti_func_ref, posting,
                 message, luapc, i, running, posts, delivered>>

JoinReturn ==
  /\ joining
  /\ running = {}
  /\ joining' = FALSE
  /\ UNCHANGED <<noti_mutex, queue, registered, noti_func_ref, posting,
                 message, luapc, i, running, posts, delivered>>

-----------------------------------------------------------------------------
OnMessage(t) == LockMessage(t) \/ PushSession(t) \/ PushType(t) \/ PushValue(t)

Drain == DrainBegin \/ DrainSkip \/ CallHandler \/ CallNil \/ HandlerReturn \/ DrainEnd

Next ==
  \/ \E t \in Threads : OnMessage(t) \/ \E m \in Message : Notify(t, m)
  \/ \E f \in Handlers : SetHandler(f)
  \/ ClearHandler
  \/ DrainCall
  \/ Drain
  \/ \E w \in Workers : StartMaintenance(w) \/ MaintenanceEnds(w)
  \/ JoinCall
  \/ JoinReturn

Spec == Init /\ [][Next]_vars

\* Running threads go on: what has begun in on_message, in a drain, in a
\* maintenance or in a join is not given up.  When to notify, to register, to
\* drain and to join is the engine's and the program's choice.
Fairness ==
  /\ \A t \in Threads : WF_vars(OnMessage(t))
  /\ \A w \in Workers : WF_vars(MaintenanceEnds(w))
  /\ WF_vars(Drain)
  /\ WF_vars(JoinReturn)

FairSpec == Spec /\ Fairness
-----------------------------------------------------------------------------
(* Properties.                                                             *)

\* One type invariant.
TypeOK ==
  /\ noti_mutex \in Threads \union {Free}
  /\ sessionid \in Seq(Sessions)
  /\ msg_type \in Seq(Types)
  /\ msg_value \in Seq(Values)
  /\ registered \in BOOLEAN
  /\ noti_func_ref \in Handlers \union {LUA_NOREF}
  /\ posting \in [Threads -> {"out", "lock", "session", "type", "value"}]
  /\ message \in [Threads -> Message \union {NoMessage}]
  /\ \A t \in Threads : posting[t] = "out" <=> message[t] = NoMessage
  /\ luapc \in {"program", "lock", "loop", "handler"}
  /\ i \in Nat
  /\ joining \in BOOLEAN
  /\ running \subseteq Workers
  /\ posts \in 0..MaxPosts
  /\ delivered \in Seq([to : Handlers, what : Message])

\* The code between taking noti_mutex and giving it back: the three push_back
\* of on_message, and everything drain_notifications does after its lock.
Critical(t) ==
  \/ posting[t] \in {"session", "type", "value"}
  \/ t = Lua /\ i > 0

\* At most one thread is in that code, and it is the one noti_mutex names: no
\* path through on_message, a drain or a handler's error loses the mutex.
MutexHeld == \A t \in Threads : Critical(t) <=> noti_mutex = t

\* The notification the k-th entries of the three vectors make up.
Entry(k) ==
  [session |-> sessionid[k], type |-> msg_type[k], value |-> msg_value[k]]

\* The three vectors are kept in step: whoever finds the mutex free, and every
\* iteration of a drain, sees three vectors of one length whose k-th entries
\* are the fields of one and the same notification.
Aligned ==
  (noti_mutex \in {Free, Lua} /\ posting[Lua] \in {"out", "lock"}) =>
    /\ Len(sessionid) = Len(msg_type)
    /\ Len(msg_type) = Len(msg_value)
    /\ \A k \in 1..Len(msg_value) : Entry(k) \in Message

\* Thread t cannot go on before thread u does.
WaitsFor(t, u) ==
  \/ posting[t] = "lock" /\ noti_mutex = u
  \/ t = Lua /\ luapc = "lock" /\ noti_mutex = u
  \/ t = Lua /\ joining /\ u \in running

WaitCycle ==
  \E t \in Threads : WaitsFor(Lua, t) /\ (t = Lua \/ WaitsFor(t, Lua))

\* If handlers only register and unregister handlers, the Lua thread never
\* waits for a mutex it holds, nor for a maintenance thread that waits for it.
NoWaitCycle == HandlerCalls \subseteq {"set"} => ~WaitCycle

\* Whatever handlers call, such a cycle is made inside a handler: a program
\* whose handlers are quiet may drain, join and change sessions in any order.
WaitCycleOnlyInHandler == WaitCycle => i > 0

\* What is posted and not handed over yet: a drain has reached entry i, whose
\* handler has been called unless the loop is at its head.
Reached == IF i = 0 THEN 1 ELSE IF luapc = "loop" THEN i ELSE i + 1

Pending == [k \in 1..(Len(msg_value) + 1 - Reached) |-> Entry(Reached + k - 1)]

Channel == INSTANCE NotificationChannel
  WITH NoHandler <- LUA_NOREF, pending <- Pending, handler <- noti_func_ref

\* The vectors, the mutex and the drain's loop implement the FIFO channel: no
\* notification is given twice, out of order or to a handler that has been
\* replaced, and none is lost while a handler is registered.
IsChannel == Channel!Spec

\* Everybody gets through if handlers are quiet: join_maintenance_thread returns,
\* a drain gets the mutex, goes through the queue and returns, and the engine's
\* thread is not kept in on_message for ever.  The last needs the engine to
\* notify finitely often: std::mutex promises no turn to a thread that others
\* overtake again and again.
EverybodyReturns ==
  /\ joining ~> ~joining
  /\ luapc = "lock" ~> luapc = "program"
  /\ \A w \in Workers : posting[w] = "lock" ~> posting[w] = "out"
=============================================================================
