------------------------------ MODULE NotiBridge ------------------------------
(***************************************************************************)
(* Notifications in the LuaJIT binding: the queues of src/noti_bridge.cpp  *)
(* and the RimeApi methods of rimeapi_ffi.lua that use them.  The bridge's *)
(* drain_notifications moves msg_queue into lua_queue under the mutex and  *)
(* hands out C pointers into lua_queue; the Lua side then reads one        *)
(* notification after the other through them and calls the handler, with   *)
(* the mutex free.  The pointers are good until lua_queue is assigned or   *)
(* cleared again, which a handler's own calls may do.                      *)
(*                                                                         *)
(* Every scope of the mutex is one step: nothing else touches msg_queue.   *)
(* The handler belongs to the RimeApi object, the queues to the process.   *)
(***************************************************************************)
EXTENDS Naturals, Sequences, SequencesExt

CONSTANTS
  Workers,       \* the engine's threads
  Lua,           \* the Lua thread
  Apis,          \* the RimeApi objects of the program
  Handlers,      \* the Lua functions a program may register
  Nil,           \* no handler, or no message
  Message,       \* what the engine may notify
  Garbage,       \* what is read through a pointer that is no longer good
  HandlerCalls,  \* what a handler may call, a subset of Calls
  MaxMessages,   \* MAX_MESSAGES, the room for one drain
  MaxPosts,      \* bound: how many times the engine notifies
  MaxDrains      \* bound: how many drains begin

Calls == {"set", "clear", "drain", "emit"}

Threads == Workers \union {Lua}

ASSUME NotiBridgeAssumption ==
  /\ Lua \notin Workers
  /\ Nil \notin Handlers /\ Nil \notin Message
  /\ Garbage \notin Message
  /\ HandlerCalls \subseteq Calls
  /\ MaxMessages \in Nat /\ MaxPosts \in Nat /\ MaxDrains \in Nat

VARIABLES
  msg_queue,   \* posted, not drained
  lua_queue,   \* [gen, msgs]: the drained messages and how often it was assigned
  registered,  \* the engine's notification handler is on_message
  handler,     \* [Apis -> _notifications_handler]
  posting,     \* [Threads -> the message its on_message will push, or Nil]
  frames,      \* the Lua thread's drains, innermost last
  posts, drains,  \* counters that bound the model
  delivered    \* history: what was given to which handler

vars == <<msg_queue, lua_queue, registered, handler, posting, frames, posts,
          drains, delivered>>

\* A drain: on which object, how many messages it was given, which lua_queue
\* its pointers point into, the loop index, where it is, whether its caller is
\* set_notification_handler(nil), and (history) whether its handler has called
\* something that assigns or clears lua_queue.
Frame == [api : Apis, count : Nat, gen : Nat, i : Nat,
          at : {"loop", "handler", "done", "finalize"},
          clearing : BOOLEAN, reentered : BOOLEAN]

Top == Last(frames)

\* The innermost drain is at that place.
In(place) == frames # <<>> /\ Top.at = place

WithTop(frame) == [frames EXCEPT ![Len(frames)] = frame]

\* The Lua thread runs the program or a handler, which may make this call.
InLua(call) ==
  /\ posting[Lua] = Nil
  /\ \/ frames = <<>>
     \/ In("handler") /\ call \in HandlerCalls

\* The frames when the running handler, if any, makes such a call.
Reentered ==
  IF frames = <<>> THEN frames ELSE WithTop([Top EXCEPT !.reentered = TRUE])

Init ==
  /\ msg_queue = <<>>
  /\ lua_queue = [gen |-> 0, msgs |-> <<>>]
  /\ registered = FALSE
  /\ handler = [api \in Apis |-> Nil]
  /\ posting = [t \in Threads |-> Nil]
  /\ frames = <<>>
  /\ posts = 0 /\ drains = 0
  /\ delivered = <<>>

-----------------------------------------------------------------------------
\* The engine notifies on thread t and finds on_message registered.
Notify(t, m) ==
  /\ posts < MaxPosts
  /\ registered
  /\ posting[t] = Nil
  /\ t = Lua => InLua("emit")
  /\ posting' = [posting EXCEPT ![t] = m]
  /\ posts' = posts + 1
  /\ UNCHANGED <<msg_queue, lua_queue, registered, handler, frames, drains,
                 delivered>>

\* Mutant of OnMessage: the message goes into lua_queue too, which moves it.
OnMessageIntoLuaQueue(t) ==
  /\ posting[t] # Nil
  /\ msg_queue' = Append(msg_queue, posting[t])
  /\ lua_queue' = [gen |-> lua_queue.gen + 1, msgs |-> Append(lua_queue.msgs, posting[t])]
  /\ posting' = [posting EXCEPT ![t] = Nil]
  /\ UNCHANGED <<registered, handler, frames, posts, drains, delivered>>

\* The locked part of on_message; the handler may be gone by now.
OnMessage(t) ==
  /\ posting[t] # Nil
  /\ msg_queue' = Append(msg_queue, posting[t])
  /\ posting' = [posting EXCEPT ![t] = Nil]
  /\ UNCHANGED <<lua_queue, registered, handler, frames, posts, drains,
                 delivered>>

-----------------------------------------------------------------------------
\* set_notification_handler of a function: init_bridge.
SetHandler(api, f) ==
  /\ InLua("set")
  /\ registered' = TRUE
  /\ handler' = [handler EXCEPT ![api] = f]
  /\ UNCHANGED <<msg_queue, lua_queue, posting, frames, posts, drains,
                 delivered>>

Smaller(m, n) == IF m < n THEN m ELSE n

\* Mutant of TakeQueue: msg_queue keeps what has been copied.
CopyQueue ==
  /\ lua_queue' = [gen |-> lua_queue.gen + 1, msgs |-> msg_queue]
  /\ UNCHANGED msg_queue

\* msg_queue is moved into lua_queue.
TakeQueue ==
  /\ lua_queue' = [gen |-> lua_queue.gen + 1, msgs |-> msg_queue]
  /\ msg_queue' = <<>>

\* The bridge's drain_notifications: copy, count and clear under the mutex.
\* With no message the caller returns at once, and set_notification_handler
\* goes on to finalize_bridge.
Drain(api, clearing) ==
  LET count == Smaller(Len(msg_queue), MaxMessages)
  IN  /\ drains < MaxDrains
      /\ drains' = drains + 1
      /\ TakeQueue
      /\ frames' = IF count = 0 /\ ~clearing
                   THEN Reentered
                   ELSE Append(Reentered,
                          [api |-> api, count |-> count,
                           gen |-> lua_queue.gen + 1, i |-> 1,
                           at |-> IF count = 0 THEN "done" ELSE "loop",
                           clearing |-> clearing, reentered |-> FALSE])
      /\ UNCHANGED <<registered, handler, posting, posts, delivered>>

DrainNotifications(api) == InLua("drain") /\ Drain(api, FALSE)

\* set_notification_handler of anything else drains first.
ClearHandler(api) == InLua("clear") /\ Drain(api, TRUE)

\* What the pointers of the running drain yield: its i-th message, or anything
\* once lua_queue is another one.
Read ==
  IF Top.gen = lua_queue.gen THEN lua_queue.msgs[Top.i] ELSE Garbage

Looping == In("loop") /\ posting[Lua] = Nil

\* One iteration: the strings are read, and the handler called if there is one.
CallHandler ==
  /\ Looping /\ Top.i <= Top.count
  /\ handler[Top.api] # Nil
  /\ delivered' = Append(delivered, [to |-> handler[Top.api], what |-> Read])
  /\ frames' = WithTop([Top EXCEPT !.at = "handler"])
  /\ UNCHANGED <<msg_queue, lua_queue, registered, handler, posting, posts,
                 drains>>

\* Mutant of SkipHandler: it runs on past the last message.
SkipHandlerTooFar ==
  /\ Looping /\ Top.i <= Top.count + 1
  /\ handler[Top.api] = Nil
  /\ frames' = WithTop([Top EXCEPT !.i = @ + 1])
  /\ UNCHANGED <<msg_queue, lua_queue, registered, handler, posting, posts,
                 drains, delivered>>

SkipHandler ==
  /\ Looping /\ Top.i <= Top.count
  /\ handler[Top.api] = Nil
  /\ frames' = WithTop([Top EXCEPT !.i = @ + 1])
  /\ UNCHANGED <<msg_queue, lua_queue, registered, handler, posting, posts,
                 drains, delivered>>

\* The handler returns, or pcall catches its error: the loop goes on.
HandlerReturn ==
  /\ In("handler") /\ posting[Lua] = Nil
  /\ frames' = WithTop([Top EXCEPT !.at = "loop", !.i = @ + 1])
  /\ UNCHANGED <<msg_queue, lua_queue, registered, handler, posting, posts,
                 drains, delivered>>

\* The loop ends; the drain returns to its caller.
DrainEnd ==
  /\ Looping /\ Top.i > Top.count
  /\ frames' = IF Top.clearing
               THEN WithTop([Top EXCEPT !.at = "done"])
               ELSE Front(frames)
  /\ UNCHANGED <<msg_queue, lua_queue, registered, handler, posting, posts,
                 drains, delivered>>

\* finalize_bridge up to its lock: no handler, no lua_queue.
FinalizeBridge ==
  /\ In("done")
  /\ registered' = FALSE
  /\ lua_queue' = [gen |-> lua_queue.gen + 1, msgs |-> <<>>]
  /\ frames' = WithTop([Top EXCEPT !.at = "finalize"])
  /\ UNCHANGED <<msg_queue, handler, posting, posts, drains, delivered>>

\* Its locked part, and the rest of set_notification_handler.
FinalizeEnd ==
  /\ In("finalize")
  /\ msg_queue' = <<>>
  /\ handler' = [handler EXCEPT ![Top.api] = Nil]
  /\ frames' = Front(frames)
  /\ UNCHANGED <<lua_queue, registered, posting, posts, drains, delivered>>

-----------------------------------------------------------------------------
Next ==
  \/ \E t \in Threads : OnMessage(t) \/ \E m \in Message : Notify(t, m)
  \/ \E api \in Apis : \/ \E f \in Handlers : SetHandler(api, f)
                       \/ DrainNotifications(api)
                       \/ ClearHandler(api)
  \/ CallHandler
  \/ SkipHandler
  \/ HandlerReturn
  \/ DrainEnd
  \/ FinalizeBridge
  \/ FinalizeEnd

Spec == Init /\ [][Next]_vars

-----------------------------------------------------------------------------
TypeOK ==
  /\ msg_queue \in Seq(Message)
  /\ lua_queue \in [gen : Nat, msgs : Seq(Message)]
  /\ registered \in BOOLEAN
  /\ handler \in [Apis -> Handlers \union {Nil}]
  /\ posting \in [Threads -> Message \union {Nil}]
  /\ frames \in Seq(Frame)
  /\ \A k \in DOMAIN frames : frames[k].i <= frames[k].count + 1
  /\ posts \in 0..MaxPosts
  /\ drains \in 0..MaxDrains
  /\ delivered \in Seq([to : Handlers, what : Message \union {Garbage}])

\* A drain is about to read through a pointer into a lua_queue that is gone.
Dangling(frame) ==
  /\ frame.at = "loop"
  /\ frame.i <= frame.count
  /\ frame.gen # lua_queue.gen

\* While handlers register handlers and change sessions but neither drain nor
\* unregister, every string read in a drain is still alive, whatever the
\* engine's threads post meanwhile.
NoDanglingRead ==
  HandlerCalls \subseteq {"set", "emit"} =>
    \A k \in DOMAIN frames : ~Dangling(frames[k])

\* In general: the strings of a drain die only by a call of its own handler.
PointersLiveUntilReentry ==
  \A k \in DOMAIN frames :
    Dangling(frames[k]) => frames[k].reentered

\* What is posted and not handed over, with the one drain quiet handlers allow.
Rest ==
  IF frames = <<>> THEN <<>>
  ELSE SubSeq(lua_queue.msgs, IF Top.at = "handler" THEN Top.i + 1 ELSE Top.i,
              Top.count)

Pending == Rest \o msg_queue

\* The one object's handler counts as gone when finalize_bridge begins.
TheHandler ==
  IF In("finalize") THEN Nil
  ELSE handler[CHOOSE api \in Apis : TRUE]

Channel == INSTANCE NotificationChannel
  WITH NoHandler <- Nil, pending <- Pending, handler <- TheHandler

\* With one RimeApi object, room for all messages and handlers that neither
\* drain nor unregister, the bridge is the same FIFO channel as the native
\* module's queue.
IsChannel == Channel!Spec
=============================================================================
