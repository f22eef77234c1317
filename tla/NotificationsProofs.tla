------------------------- MODULE NotificationsProofs -------------------------
(***************************************************************************)
(* Theorems about Notifications for every set of threads, handlers and     *)
(* notifications.  IInv is the inductive invariant: mutual exclusion alone *)
(* is not inductive, it needs to be known where the Lua thread can be      *)
(* while it holds the mutex (LuaFrame), and the alignment of the vectors   *)
(* needs to be known in the middle of on_message too (Vectors).            *)
(***************************************************************************)
EXTENDS Notifications, SequenceTheorems, TLAPS

\* Where the Lua thread can be: i says whether a drain is under way, and only
\* a handler's own call can make it wait inside one.
LuaFrame ==
  /\ luapc \in {"loop", "handler"} => i > 0
  /\ luapc = "program" => i = 0
  /\ i > 0 => posting[Lua] \in {"out", "lock"}
  /\ (posting[Lua] # "out" \/ joining) => luapc \in {"program", "handler"}
  /\ joining => posting[Lua] = "out"
  /\ (HandlerCalls \subseteq {"set"} /\ i > 0)
       => posting[Lua] = "out" /\ ~joining /\ luapc # "lock"

\* The vectors at every point of on_message: the thread that is in it has
\* pushed the fields of its own notification, and nothing else is unfinished.
Vectors ==
  /\ \A k \in 1..Len(msg_value) : Entry(k) \in Message
  /\ (\A t \in Threads : posting[t] \notin {"type", "value"})
       => Len(sessionid) = Len(msg_value) /\ Len(msg_type) = Len(msg_value)
  /\ \A t \in Threads : posting[t] = "type" =>
       /\ Len(sessionid) = Len(msg_value) + 1
       /\ Len(msg_type) = Len(msg_value)
       /\ sessionid[Len(msg_value) + 1] = message[t].session
  /\ \A t \in Threads : posting[t] = "value" =>
       /\ Len(sessionid) = Len(msg_value) + 1
       /\ Len(msg_type) = Len(msg_value) + 1
       /\ sessionid[Len(msg_value) + 1] = message[t].session
       /\ msg_type[Len(msg_value) + 1] = message[t].type

IInv == TypeOK /\ MutexHeld /\ LuaFrame /\ Vectors

USE NotificationsAssumption DEF NotificationsAssumption, Lock, Unlock

-----------------------------------------------------------------------------
(***************************************************************************)
(* The initial state.                                                      *)
(***************************************************************************)
LEMMA InitIInv == Init => IInv
<1> SUFFICES ASSUME Init PROVE IInv
  OBVIOUS
<1> USE DEF Init
<1>1. TypeOK
  <2>1. 0 \in 0..MaxPosts
    OBVIOUS
  <2>2. <<>> \in Seq(Sessions) /\ <<>> \in Seq(Types) /\ <<>> \in Seq(Values)
    OBVIOUS
  <2>3. <<>> \in Seq([to : Handlers, what : Message])
    OBVIOUS
  <2>4. QED
    BY <2>1, <2>2, <2>3 DEF TypeOK, Threads
<1>2. MutexHeld
  BY DEF MutexHeld, Critical, Threads
<1>3. LuaFrame
  BY DEF LuaFrame, Threads
<1>4. Vectors
  BY DEF Vectors, Threads
<1>5. QED
  BY <1>1, <1>2, <1>3, <1>4 DEF IInv

-----------------------------------------------------------------------------
(***************************************************************************)
(* Every step keeps the types.                                             *)
(***************************************************************************)
LEMMA FieldTypes ==
  ASSUME NEW m \in Message
  PROVE  m.session \in Sessions /\ m.type \in Types /\ m.value \in Values
BY DEF Sessions, Types, Values

\* A step keeps every variable in its type.
LEMMA TypeStep == IInv /\ [Next]_vars => TypeOK'
<1> SUFFICES ASSUME IInv, [Next]_vars PROVE TypeOK'
  OBVIOUS
<1> USE DEF IInv, TypeOK, queue
<1>1. CASE UNCHANGED vars
  BY <1>1 DEF vars
<1>2. ASSUME NEW t \in Threads, LockMessage(t) PROVE TypeOK'
  BY <1>2 DEF LockMessage
<1>3. ASSUME NEW t \in Threads, PushSession(t) PROVE TypeOK'
  <2>1. message[t].session \in Sessions
    BY <1>3, FieldTypes DEF PushSession
  <2>2. QED
    BY <1>3, <2>1 DEF PushSession
<1>4. ASSUME NEW t \in Threads, PushType(t) PROVE TypeOK'
  <2>1. message[t].type \in Types
    BY <1>4, FieldTypes DEF PushType
  <2>2. QED
    BY <1>4, <2>1 DEF PushType
<1>5. ASSUME NEW t \in Threads, PushValue(t) PROVE TypeOK'
  <2>1. message[t].value \in Values
    BY <1>5, FieldTypes DEF PushValue
  <2>2. QED
    BY <1>5, <2>1 DEF PushValue
<1>6. ASSUME NEW t \in Threads, NEW m \in Message, Notify(t, m) PROVE TypeOK'
  BY <1>6 DEF Notify
<1>7. ASSUME NEW h \in Handlers, SetHandler(h) PROVE TypeOK'
  BY <1>7 DEF SetHandler
<1>8. CASE ClearHandler
  BY <1>8 DEF ClearHandler
<1>9. CASE DrainCall
  BY <1>9 DEF DrainCall
<1>10. CASE DrainBegin
  BY <1>10 DEF DrainBegin, Threads
<1>11. CASE DrainSkip
  BY <1>11 DEF DrainSkip, ClearQueue
<1>12. CASE CallHandler
  <2>1. noti_mutex = Lua /\ i \in 1..Len(msg_type)
    BY <1>12 DEF CallHandler, LuaFrame, MutexHeld, Critical, Threads
  <2>2. \A t \in Threads : posting[t] \notin {"type", "value"}
    BY <1>12, <2>1 DEF CallHandler, LuaFrame, MutexHeld, Critical, Threads
  <2>3. i \in 1..Len(msg_value)
    BY <2>1, <2>2 DEF Vectors
  <2>4. [session |-> sessionid[i], type |-> msg_type[i], value |-> msg_value[i]] \in Message
    BY <2>3 DEF Vectors, Entry
  <2>5. QED
    BY <1>12, <2>4 DEF CallHandler
<1>13. CASE CallNil
  BY <1>13 DEF CallNil
<1>14. CASE HandlerReturn
  BY <1>14 DEF HandlerReturn
<1>15. CASE DrainEnd
  BY <1>15 DEF DrainEnd, ClearQueue
<1>16. ASSUME NEW w \in Workers, StartMaintenance(w) PROVE TypeOK'
  BY <1>16 DEF StartMaintenance
<1>17. ASSUME NEW w \in Workers, MaintenanceEnds(w) PROVE TypeOK'
  BY <1>17 DEF MaintenanceEnds
<1>18. CASE JoinCall
  BY <1>18 DEF JoinCall
<1>19. CASE JoinReturn
  BY <1>19 DEF JoinReturn
<1>20. QED
  BY <1>1, <1>2, <1>3, <1>4, <1>5, <1>6, <1>7, <1>8, <1>9, <1>10, <1>11, <1>12,
     <1>13, <1>14, <1>15, <1>16, <1>17, <1>18, <1>19 DEF Next, OnMessage, Drain
-----------------------------------------------------------------------------
(***************************************************************************)
(* Every step keeps the mutex with the thread that is in a critical        *)
(* section, and the Lua thread in one of the places LuaFrame allows.       *)
(***************************************************************************)
LEMMA MutexStep == IInv /\ [Next]_vars => MutexHeld'
<1> SUFFICES ASSUME IInv, [Next]_vars PROVE MutexHeld'
  OBVIOUS
<1> USE DEF IInv, TypeOK, MutexHeld, Critical, LuaFrame, Threads
<1>1. CASE UNCHANGED vars
  BY <1>1 DEF vars, Entry
<1>2. ASSUME NEW t \in Threads, LockMessage(t) PROVE MutexHeld'
  BY <1>2 DEF LockMessage
<1>3. ASSUME NEW t \in Threads, PushSession(t) PROVE MutexHeld'
  BY <1>3 DEF PushSession
<1>4. ASSUME NEW t \in Threads, PushType(t) PROVE MutexHeld'
  BY <1>4 DEF PushType
<1>5. ASSUME NEW t \in Threads, PushValue(t) PROVE MutexHeld'
  BY <1>5 DEF PushValue
<1>6. ASSUME NEW t \in Threads, NEW m \in Message, Notify(t, m) PROVE MutexHeld'
  BY <1>6 DEF Notify
<1>7. ASSUME NEW h \in Handlers, SetHandler(h) PROVE MutexHeld'
  BY <1>7 DEF SetHandler
<1>8. CASE ClearHandler
  BY <1>8 DEF ClearHandler
<1>9. CASE DrainCall
  BY <1>9 DEF DrainCall
<1>10. CASE DrainBegin
  BY <1>10 DEF DrainBegin
<1>11. CASE DrainSkip
  BY <1>11 DEF DrainSkip
<1>12. CASE CallHandler
  BY <1>12 DEF CallHandler
<1>13. CASE CallNil
  BY <1>13 DEF CallNil
<1>14. CASE HandlerReturn
  BY <1>14 DEF HandlerReturn
<1>15. CASE DrainEnd
  BY <1>15 DEF DrainEnd
<1>16. ASSUME NEW w \in Workers, StartMaintenance(w) PROVE MutexHeld'
  BY <1>16 DEF StartMaintenance
<1>17. ASSUME NEW w \in Workers, MaintenanceEnds(w) PROVE MutexHeld'
  BY <1>17 DEF MaintenanceEnds
<1>18. CASE JoinCall
  BY <1>18 DEF JoinCall
<1>19. CASE JoinReturn
  BY <1>19 DEF JoinReturn
<1>20. QED
  BY <1>1, <1>2, <1>3, <1>4, <1>5, <1>6, <1>7, <1>8, <1>9, <1>10, <1>11,
     <1>12, <1>13, <1>14, <1>15, <1>16, <1>17, <1>18, <1>19 DEF Next,
     OnMessage, Drain

\* A step keeps what the Lua thread's place in its program says of its drain.
LEMMA FrameStep == IInv /\ [Next]_vars => LuaFrame'
<1> SUFFICES ASSUME IInv, [Next]_vars PROVE LuaFrame'
  OBVIOUS
<1> USE DEF IInv, TypeOK, MutexHeld, Critical, LuaFrame, Threads, InLua
<1>1. CASE UNCHANGED vars
  BY <1>1 DEF vars, Entry
<1>2. ASSUME NEW t \in Threads, LockMessage(t) PROVE LuaFrame'
  BY <1>2 DEF LockMessage
<1>3. ASSUME NEW t \in Threads, PushSession(t) PROVE LuaFrame'
  BY <1>3 DEF PushSession
<1>4. ASSUME NEW t \in Threads, PushType(t) PROVE LuaFrame'
  BY <1>4 DEF PushType
<1>5. ASSUME NEW t \in Threads, PushValue(t) PROVE LuaFrame'
  BY <1>5 DEF PushValue
<1>6. ASSUME NEW t \in Threads, NEW m \in Message, Notify(t, m) PROVE LuaFrame'
  BY <1>6 DEF Notify
<1>7. ASSUME NEW h \in Handlers, SetHandler(h) PROVE LuaFrame'
  BY <1>7 DEF SetHandler
<1>8. CASE ClearHandler
  BY <1>8 DEF ClearHandler
<1>9. CASE DrainCall
  BY <1>9 DEF DrainCall
<1>10. CASE DrainBegin
  BY <1>10 DEF DrainBegin
<1>11. CASE DrainSkip
  BY <1>11 DEF DrainSkip
<1>12. CASE CallHandler
  BY <1>12 DEF CallHandler
<1>13. CASE CallNil
  BY <1>13 DEF CallNil
<1>14. CASE HandlerReturn
  BY <1>14 DEF HandlerReturn
<1>15. CASE DrainEnd
  BY <1>15 DEF DrainEnd
<1>16. ASSUME NEW w \in Workers, StartMaintenance(w) PROVE LuaFrame'
  BY <1>16 DEF StartMaintenance
<1>17. ASSUME NEW w \in Workers, MaintenanceEnds(w) PROVE LuaFrame'
  BY <1>17 DEF MaintenanceEnds
<1>18. CASE JoinCall
  BY <1>18 DEF JoinCall
<1>19. CASE JoinReturn
  BY <1>19 DEF JoinReturn
<1>20. QED
  BY <1>1, <1>2, <1>3, <1>4, <1>5, <1>6, <1>7, <1>8, <1>9, <1>10, <1>11,
     <1>12, <1>13, <1>14, <1>15, <1>16, <1>17, <1>18, <1>19 DEF Next,
     OnMessage, Drain

-----------------------------------------------------------------------------
(***************************************************************************)
(* Every step keeps the vectors in step.                                   *)
(***************************************************************************)
\* Only the thread that holds the mutex is between two push_backs.
LEMMA OnePoster ==
  ASSUME IInv, NEW t \in Threads, noti_mutex # t \/ (t = Lua /\ i > 0)
  PROVE  posting[t] \notin {"session", "type", "value"}
BY DEF IInv, MutexHeld, Critical, LuaFrame

\* A step that leaves the vectors alone, and every thread that is between
\* two push_backs where it is.
LEMMA VectorsFrame ==
  ASSUME IInv, UNCHANGED queue,
         \A t \in Threads :
           posting[t] \in {"type", "value"} \/ posting'[t] \in {"type", "value"}
             => posting'[t] = posting[t] /\ message'[t] = message[t]
  PROVE  Vectors'
<1>1. \A k : Entry(k)' = Entry(k)
  BY DEF Entry, queue
<1>2. QED
  BY <1>1 DEF IInv, Vectors, queue

\* What the last push_back does: it completes the entry of t's notification.
PushedValue(t) ==
  /\ message[t] \in Message
  /\ Len(msg_value') = Len(msg_value) + 1
  /\ Len(sessionid') = Len(msg_value') /\ Len(msg_type') = Len(msg_value')
  /\ \A k \in 1..Len(msg_value) : Entry(k)' = Entry(k)
  /\ Entry(Len(msg_value))' = message[t]

\* The last push_back of on_message completes one entry and leaves the others.
LEMMA PushValueEntry ==
  ASSUME IInv, NEW t \in Threads, PushValue(t)
  PROVE  PushedValue(t)
<1>1. /\ Len(sessionid) = Len(msg_value) + 1
      /\ Len(msg_type) = Len(msg_value) + 1
      /\ sessionid[Len(msg_value) + 1] = message[t].session
      /\ msg_type[Len(msg_value) + 1] = message[t].type
  BY DEF IInv, Vectors, PushValue
<1>2. message[t] \in Message
  BY DEF IInv, TypeOK, PushValue
<1>3. /\ msg_value \in Seq(Values) /\ message[t].value \in Values
      /\ msg_value' = Append(msg_value, message[t].value)
      /\ sessionid' = sessionid /\ msg_type' = msg_type
  BY <1>2, FieldTypes DEF IInv, TypeOK, PushValue
<1>4. /\ Len(msg_value') = Len(msg_value) + 1
      /\ msg_value'[Len(msg_value) + 1] = message[t].value
      /\ \A k \in 1..Len(msg_value) : msg_value'[k] = msg_value[k]
  BY <1>3
<1>5. \A k \in 1..Len(msg_value) : Entry(k)' = Entry(k)
  BY <1>3, <1>4 DEF Entry
<1>6. message[t] = [session |-> message[t].session, type |-> message[t].type,
                    value |-> message[t].value]
  BY <1>2
<1>7. Entry(Len(msg_value))' = message[t]
  BY <1>1, <1>3, <1>4, <1>6 DEF Entry
<1>8. QED
  BY <1>1, <1>2, <1>3, <1>4, <1>5, <1>7 DEF PushedValue

\* A step keeps the lengths of the three vectors as the steps of on_message say.
LEMMA VectorsStep == IInv /\ [Next]_vars => Vectors'
<1> SUFFICES ASSUME IInv, [Next]_vars PROVE Vectors'
  OBVIOUS
<1>1. CASE UNCHANGED vars
  BY <1>1, VectorsFrame DEF vars, queue
<1>2. ASSUME NEW t \in Threads, LockMessage(t) PROVE Vectors'
  BY <1>2, VectorsFrame DEF LockMessage, IInv, TypeOK, queue
<1>3. ASSUME NEW t \in Threads, PushSession(t) PROVE Vectors'
  <2>1. \A u \in Threads : u # t => posting[u] \notin {"session", "type", "value"}
    BY <1>3, OnePoster DEF IInv, MutexHeld, Critical, PushSession
  <2>2. Len(sessionid) = Len(msg_value) /\ Len(msg_type) = Len(msg_value)
    BY <1>3, <2>1 DEF IInv, Vectors, PushSession
  <2>3. \A k \in 1..Len(msg_value) : Entry(k)' = Entry(k)
    BY <1>3, <2>2 DEF Entry, PushSession, IInv, TypeOK
  <2>4. sessionid'[Len(msg_value) + 1] = message[t].session /\ Len(sessionid') = Len(msg_value) + 1
    BY <1>3, <2>2, FieldTypes DEF PushSession, IInv, TypeOK
  <2>5. \A u \in Threads : posting'[u] = IF u = t THEN "type" ELSE posting[u]
    BY <1>3 DEF PushSession, IInv, TypeOK
  <2>6. UNCHANGED <<msg_type, msg_value, message>>
    BY <1>3 DEF PushSession
  <2>7. QED
    BY <2>1, <2>2, <2>3, <2>4, <2>5, <2>6 DEF IInv, Vectors
<1>4. ASSUME NEW t \in Threads, PushType(t) PROVE Vectors'
  <2>1. \A u \in Threads : u # t => posting[u] \notin {"session", "type", "value"}
    BY <1>4, OnePoster DEF IInv, MutexHeld, Critical, PushType
  <2>2. /\ Len(sessionid) = Len(msg_value) + 1
        /\ Len(msg_type) = Len(msg_value)
        /\ sessionid[Len(msg_value) + 1] = message[t].session
    BY <1>4 DEF IInv, Vectors, PushType
  <2>3. \A k \in 1..Len(msg_value) : Entry(k)' = Entry(k)
    BY <1>4, <2>2 DEF Entry, PushType, IInv, TypeOK
  <2>4. msg_type'[Len(msg_value) + 1] = message[t].type /\ Len(msg_type') = Len(msg_value) + 1
    BY <1>4, <2>2 DEF PushType, IInv, TypeOK
  <2>5. \A u \in Threads : posting'[u] = IF u = t THEN "value" ELSE posting[u]
    BY <1>4 DEF PushType, IInv, TypeOK
  <2>6. UNCHANGED <<sessionid, msg_value, message>>
    BY <1>4 DEF PushType
  <2>7. QED
    BY <2>1, <2>2, <2>3, <2>4, <2>5, <2>6 DEF IInv, Vectors
<1>5. ASSUME NEW t \in Threads, PushValue(t) PROVE Vectors'
  <2>1. \A u \in Threads : u # t => posting[u] \notin {"session", "type", "value"}
    BY <1>5, OnePoster DEF IInv, MutexHeld, Critical, PushValue
  <2>2. PushedValue(t)
    BY <1>5, PushValueEntry
  <2>3. \A u \in Threads : posting'[u] \notin {"type", "value"}
    BY <1>5, <2>1 DEF PushValue, IInv, TypeOK
  <2>4. \A k \in 1..Len(msg_value') : Entry(k)' \in Message
    BY <2>2, <1>5 DEF PushedValue, IInv, Vectors, TypeOK
  <2>5. QED
    BY <2>2, <2>3, <2>4 DEF Vectors, PushedValue
<1>6. ASSUME NEW t \in Threads, NEW m \in Message, Notify(t, m) PROVE Vectors'
  BY <1>6, VectorsFrame DEF Notify, IInv, TypeOK, queue
<1>7. ASSUME NEW h \in Handlers, SetHandler(h) PROVE Vectors'
  BY <1>7, VectorsFrame DEF SetHandler, queue
<1>8. CASE ClearHandler
  BY <1>8, VectorsFrame DEF ClearHandler, queue
<1>9. CASE DrainCall
  BY <1>9, VectorsFrame DEF DrainCall, queue
<1>10. CASE DrainBegin
  BY <1>10, VectorsFrame DEF DrainBegin, queue
<1>11. CASE DrainSkip
  <2>1. sessionid' = <<>> /\ msg_type' = <<>> /\ msg_value' = <<>>
    BY <1>11 DEF DrainSkip, ClearQueue
  <2>2. \A t \in Threads : posting'[t] = posting[t] /\ posting[t] \notin {"type", "value"}
    BY <1>11, OnePoster DEF DrainSkip, IInv, MutexHeld, Critical, LuaFrame, TypeOK, Threads
  <2>3. QED
    BY <2>1, <2>2 DEF Vectors
<1>12. CASE CallHandler
  BY <1>12, VectorsFrame DEF CallHandler, queue
<1>13. CASE CallNil
  BY <1>13, VectorsFrame DEF CallNil, queue
<1>14. CASE HandlerReturn
  BY <1>14, VectorsFrame DEF HandlerReturn, queue
<1>15. CASE DrainEnd
  <2>1. sessionid' = <<>> /\ msg_type' = <<>> /\ msg_value' = <<>>
    BY <1>15 DEF DrainEnd, ClearQueue
  <2>2. \A t \in Threads : posting'[t] = posting[t] /\ posting[t] \notin {"type", "value"}
    BY <1>15, OnePoster DEF DrainEnd, IInv, MutexHeld, Critical, LuaFrame, TypeOK, Threads
  <2>3. QED
    BY <2>1, <2>2 DEF Vectors
<1>16. ASSUME NEW w \in Workers, StartMaintenance(w) PROVE Vectors'
  BY <1>16, VectorsFrame DEF StartMaintenance, queue
<1>17. ASSUME NEW w \in Workers, MaintenanceEnds(w) PROVE Vectors'
  BY <1>17, VectorsFrame DEF MaintenanceEnds, queue
<1>18. CASE JoinCall
  BY <1>18, VectorsFrame DEF JoinCall, queue
<1>19. CASE JoinReturn
  BY <1>19, VectorsFrame DEF JoinReturn, queue
<1>20. QED
  BY <1>1, <1>2, <1>3, <1>4, <1>5, <1>6, <1>7, <1>8, <1>9, <1>10, <1>11,
     <1>12, <1>13, <1>14, <1>15, <1>16, <1>17, <1>18, <1>19 DEF Next,
     OnMessage, Drain

-----------------------------------------------------------------------------
(***************************************************************************)
(* The invariants of every behaviour.                                      *)
(***************************************************************************)
\* The inductive invariant holds in every reachable state of on_message and
\* drain_notifications.
THEOREM Inductive == Spec => []IInv
<1>1. IInv /\ [Next]_vars => IInv'
  BY TypeStep, MutexStep, FrameStep, VectorsStep DEF IInv
<1>2. QED
  BY <1>1, InitIInv, PTL DEF Spec

\* Type correctness of the native notification queue.
THEOREM Typing == Spec => []TypeOK
<1>1. IInv => TypeOK
  BY DEF IInv
<1>2. QED
  BY <1>1, Inductive, PTL

\* Mutual exclusion between the push_backs of on_message and the whole of a
\* drain, its calls of the handler included.
THEOREM Mutex == Spec => []MutexHeld
<1>1. IInv => MutexHeld
  BY DEF IInv
<1>2. QED
  BY <1>1, Inductive, PTL

\* The three vectors are in step whenever the mutex is free or a drain reads
\* them.
THEOREM Alignment == Spec => []Aligned
<1>1. IInv => Aligned
  <2> SUFFICES ASSUME IInv, noti_mutex \in {Free, Lua}, posting[Lua] \in {"out", "lock"}
               PROVE  /\ Len(sessionid) = Len(msg_type)
                      /\ Len(msg_type) = Len(msg_value)
                      /\ \A k \in 1..Len(msg_value) : Entry(k) \in Message
    BY DEF Aligned
  <2>1. \A t \in Threads : posting[t] \notin {"type", "value"}
    BY DEF IInv, MutexHeld, Critical, Threads
  <2>2. QED
    BY <2>1 DEF IInv, Vectors
<1>2. QED
  BY <1>1, Inductive, PTL

\* A cycle in the waits-for relation closes at noti_mutex, held by the Lua
\* thread itself: it cannot close anywhere else.
LEMMA CycleAtMutex == IInv /\ WaitCycle => noti_mutex = Lua
<1> SUFFICES ASSUME IInv, NEW t \in Threads,
                    WaitsFor(Lua, t), t = Lua \/ WaitsFor(t, Lua)
             PROVE  noti_mutex = Lua
  BY DEF WaitCycle
<1>1. CASE t = Lua
  BY <1>1 DEF WaitsFor, IInv, TypeOK
<1>2. CASE t # Lua
  BY <1>2 DEF WaitsFor
<1>3. QED
  BY <1>1, <1>2

\* Deadlock freedom: while handlers only register and unregister handlers, no
\* interleaving of posting, draining and joining makes the Lua thread wait for
\* itself, or for a thread that waits for it.
THEOREM DeadlockFree == Spec => []NoWaitCycle
<1>1. IInv => NoWaitCycle
  <2> SUFFICES ASSUME IInv, HandlerCalls \subseteq {"set"}, WaitCycle
               PROVE  FALSE
    BY DEF NoWaitCycle
  <2>1. PICK t \in Threads : WaitsFor(Lua, t) /\ (t = Lua \/ WaitsFor(t, Lua))
    BY DEF WaitCycle
  <2>2. noti_mutex = Lua
    BY CycleAtMutex
  <2>3. Critical(Lua)
    BY <2>2 DEF IInv, MutexHeld, Threads
  <2>4. CASE i > 0
    <3>1. posting[Lua] = "out" /\ ~joining /\ luapc # "lock"
      BY <2>4 DEF IInv, LuaFrame
    <3>2. QED
      BY <2>1, <3>1 DEF WaitsFor
  <2>5. CASE posting[Lua] \in {"session", "type", "value"}
    BY <2>1, <2>5 DEF WaitsFor, IInv, LuaFrame
  <2>6. QED
    BY <2>3, <2>4, <2>5 DEF Critical
<1>2. QED
  BY <1>1, Inductive, PTL

\* Whatever handlers do, the Lua thread closes such a cycle only inside one.
THEOREM DeadlockOnlyInHandler == Spec => []WaitCycleOnlyInHandler
<1>1. IInv => WaitCycleOnlyInHandler
  <2> SUFFICES ASSUME IInv, WaitCycle PROVE i > 0
    BY DEF WaitCycleOnlyInHandler
  <2>1. PICK t \in Threads : WaitsFor(Lua, t) /\ (t = Lua \/ WaitsFor(t, Lua))
    BY DEF WaitCycle
  <2>2. noti_mutex = Lua
    BY CycleAtMutex
  <2>3. posting[Lua] \notin {"session", "type", "value"}
    BY <2>1 DEF WaitsFor, IInv, LuaFrame
  <2>4. QED
    BY <2>2, <2>3 DEF IInv, MutexHeld, Critical, Threads
<1>2. QED
  BY <1>1, Inductive, PTL

-----------------------------------------------------------------------------
(***************************************************************************)
(* The queue implements NotificationChannel.                               *)
(***************************************************************************)
LEMMA ChannelInit == Init => Channel!Init
BY DEF Init, Channel!Init, Pending, Reached, Threads

\* A step that neither changes the entries nor moves the drain's position
\* leaves Pending as it is.
LEMMA PendingFrame ==
  ASSUME UNCHANGED queue, Reached' = Reached
  PROVE  Pending' = Pending
BY DEF Pending, Entry, queue

\* While the Lua thread is in a drain the three lengths agree.
LEMMA DrainLengths ==
  ASSUME IInv, i > 0
  PROVE  Len(msg_type) = Len(msg_value) /\ Len(sessionid) = Len(msg_value)
<1>1. \A t \in Threads : posting[t] \notin {"type", "value"}
  BY OnePoster DEF IInv, MutexHeld, Critical, LuaFrame, Threads
<1>2. QED
  BY <1>1 DEF IInv, Vectors

\* A sequence that agrees with the tail, or with an extension, of another.
LEMMA IsTail ==
  ASSUME NEW S, NEW s \in Seq(S), s # <<>>, NEW u \in Seq(S),
         Len(u) = Len(s) - 1, \A k \in 1..Len(u) : u[k] = s[k + 1]
  PROVE  u = Tail(s)
BY HeadTailProperties, SeqEqual

\* A sequence that agrees with another and has one element more.
LEMMA IsAppend ==
  ASSUME NEW S, NEW s \in Seq(S), NEW u \in Seq(S), NEW e \in S,
         Len(u) = Len(s) + 1, u[Len(s) + 1] = e,
         \A k \in 1..Len(s) : u[k] = s[k]
  PROVE  u = Append(s, e)
BY AppendProperties, SeqEqual

SeqOfEntries ==
  /\ Pending \in Seq(Message)
  /\ Len(Pending) = Len(msg_value) + 1 - Reached
  /\ \A k \in 1..Len(Pending) : Pending[k] = Entry(Reached + k - 1)

\* Pending is a sequence of entries at every iteration of a drain.
LEMMA PendingSeq == IInv /\ Reached \in 1..(Len(msg_value) + 1) => SeqOfEntries
<1> SUFFICES ASSUME IInv, Reached \in 1..(Len(msg_value) + 1) PROVE SeqOfEntries
  OBVIOUS
<1>1. Len(msg_value) \in Nat
  BY DEF IInv, TypeOK
<1>2. \A k \in 1..(Len(msg_value) + 1 - Reached) : Entry(Reached + k - 1) \in Message
  BY <1>1 DEF IInv, Vectors
<1>3. QED
  BY <1>1, <1>2 DEF Pending, SeqOfEntries

\* An iteration of the drain takes the head of Pending.
LEMMA HandOver ==
  ASSUME IInv, IInv', luapc = "loop", i <= Len(msg_type),
         UNCHANGED queue, Reached' = i + 1
  PROVE  /\ Pending # <<>>
         /\ Head(Pending) = Entry(i)
         /\ Pending' = Tail(Pending)
<1>1. i \in 1..Len(msg_value) /\ Len(msg_value) \in Nat
  BY DrainLengths DEF IInv, LuaFrame, TypeOK
<1>2. Reached = i
  BY <1>1 DEF Reached
<1>3. /\ Pending \in Seq(Message)
      /\ Len(Pending) = Len(msg_value) + 1 - i
      /\ \A k \in 1..Len(Pending) : Pending[k] = Entry(i + k - 1)
  BY <1>1, <1>2, PendingSeq DEF SeqOfEntries
<1>4. /\ Pending' \in Seq(Message)
      /\ Len(Pending') = Len(msg_value) - i
      /\ \A k \in 1..Len(Pending') : Pending'[k] = Entry(i + k)
  <2>1. Len(msg_value)' = Len(msg_value) /\ \A k : Entry(k)' = Entry(k)
    BY DEF queue, Entry
  <2>2. (Reached \in 1..(Len(msg_value) + 1))'
    BY <1>1, <2>1
  <2>3. SeqOfEntries'
    BY <2>2, PendingSeq, PTL
  <2>4. \A k \in 1..Len(Pending') : Entry(Reached + k - 1)' = Entry(i + k)
    BY <1>1, <2>1, <2>3 DEF Entry, queue, SeqOfEntries
  <2>5. QED
    BY <1>1, <2>1, <2>3, <2>4 DEF SeqOfEntries
<1>5. Pending # <<>>
  BY <1>1, <1>3
<1>6. Head(Pending) = Entry(i)
  BY <1>1, <1>3, <1>5
<1>7. Pending' = Tail(Pending)
  <2>1. Len(Pending') = Len(Pending) - 1
    BY <1>1, <1>3, <1>4
  <2>2. ASSUME NEW k \in 1..Len(Pending') PROVE Pending'[k] = Pending[k + 1]
    <3>1. k + 1 \in 1..Len(Pending) /\ i + (k + 1) - 1 = i + k
      BY <1>1, <1>3, <1>4
    <3>2. Pending'[k] = Entry(i + k)
      BY <1>4
    <3>3. Pending[k + 1] = Entry(i + (k + 1) - 1)
      BY <1>3, <3>1
    <3>4. QED
      BY <3>1, <3>2, <3>3
  <2>3. QED
    BY <1>3, <1>4, <1>5, <2>1, <2>2, IsTail
<1>8. QED
  BY <1>5, <1>6, <1>7

\* The end of on_message appends to Pending.
LEMMA PostStep ==
  ASSUME IInv, IInv', NEW t \in Threads, PushValue(t)
  PROVE  Channel!Post(message[t]) /\ message[t] \in Message
<1>1. PushedValue(t)
  BY PushValueEntry
<1>2. i = 0 /\ i' = 0
  BY DEF IInv, MutexHeld, Critical, LuaFrame, TypeOK, PushValue, Threads
<1>3. Reached = 1 /\ Reached' = 1
  BY <1>2 DEF Reached
<1>4. Len(msg_value) \in Nat /\ Len(msg_value') = Len(msg_value) + 1
  BY <1>1 DEF PushedValue, IInv, TypeOK
<1>5. /\ Pending \in Seq(Message)
      /\ Len(Pending) = Len(msg_value)
      /\ \A k \in 1..Len(msg_value) : Pending[k] = Entry(k)
  BY <1>3, <1>4, PendingSeq DEF SeqOfEntries
<1>6. /\ Pending' \in Seq(Message)
      /\ Len(Pending') = Len(msg_value) + 1
      /\ \A k \in 1..(Len(msg_value) + 1) : Pending'[k] = Entry(k)'
  <2>1. (Reached \in 1..(Len(msg_value) + 1))'
    BY <1>3, <1>4
  <2>2. SeqOfEntries'
    BY <2>1, PendingSeq, PTL
  <2>3. \A k \in 1..(Len(msg_value) + 1) : Entry(Reached + k - 1)' = Entry(k)'
    BY <1>3 DEF Entry
  <2>4. QED
    BY <1>3, <1>4, <2>2, <2>3 DEF SeqOfEntries
<1>7. message[t] \in Message
  BY <1>1 DEF PushedValue
<1>8. Pending' = Append(Pending, message[t])
  <2>1. \A k \in 1..Len(Pending) : Pending'[k] = Pending[k]
    BY <1>1, <1>4, <1>5, <1>6 DEF PushedValue
  <2>2. Pending'[Len(Pending) + 1] = message[t]
    BY <1>1, <1>4, <1>5, <1>6 DEF PushedValue
  <2>3. QED
    BY <1>5, <1>6, <1>7, <2>1, <2>2, IsAppend
<1>9. QED
  BY <1>7, <1>8 DEF Channel!Post, PushValue

\* Every step of the threads is a step of the channel or leaves it unchanged.
LEMMA ChannelStep ==
  ASSUME IInv, IInv', [Next]_vars
  PROVE  [Channel!Next]_(Channel!channel)
<1>1. CASE UNCHANGED vars
  BY <1>1, PendingFrame DEF vars, queue, Reached, Channel!channel
<1>2. ASSUME NEW t \in Threads, LockMessage(t) PROVE [Channel!Next]_(Channel!channel)
  <2>1. Reached' = Reached
    BY <1>2 DEF LockMessage, Reached, IInv, LuaFrame, MutexHeld, Critical, InLua, TypeOK, Threads
  <2>2. QED
    BY <1>2, <2>1, PendingFrame DEF LockMessage, Channel!channel, queue
<1>3. ASSUME NEW t \in Threads, PushSession(t) PROVE [Channel!Next]_(Channel!channel)
  <2>1. Reached = 1 /\ Reached' = 1
    BY <1>3 DEF PushSession, Reached, IInv, LuaFrame, MutexHeld, Critical, TypeOK, Threads
  <2>2. \A k \in 1..Len(msg_value) : Entry(k)' = Entry(k)
    BY <1>3 DEF PushSession, Entry, IInv, Vectors, TypeOK
  <2>3. Pending' = Pending
    BY <1>3, <2>1, <2>2 DEF PushSession, Pending, IInv, TypeOK
  <2>4. QED
    BY <1>3, <2>3 DEF PushSession, Channel!channel
<1>4. ASSUME NEW t \in Threads, PushType(t) PROVE [Channel!Next]_(Channel!channel)
  <2>1. Reached = 1 /\ Reached' = 1
    BY <1>4 DEF PushType, Reached, IInv, LuaFrame, MutexHeld, Critical, TypeOK, Threads
  <2>2. \A k \in 1..Len(msg_value) : Entry(k)' = Entry(k)
    BY <1>4 DEF PushType, Entry, IInv, Vectors, TypeOK
  <2>3. Pending' = Pending
    BY <1>4, <2>1, <2>2 DEF PushType, Pending, IInv, TypeOK
  <2>4. QED
    BY <1>4, <2>3 DEF PushType, Channel!channel
<1>5. ASSUME NEW t \in Threads, PushValue(t) PROVE [Channel!Next]_(Channel!channel)
  BY <1>5, PostStep DEF Channel!Next
<1>6. ASSUME NEW t \in Threads, NEW m \in Message, Notify(t, m) PROVE [Channel!Next]_(Channel!channel)
  <2>1. Reached' = Reached
    BY <1>6 DEF Notify, Reached, IInv, LuaFrame, MutexHeld, Critical, InLua, TypeOK, Threads
  <2>2. QED
    BY <1>6, <2>1, PendingFrame DEF Notify, Channel!channel, queue
<1>7. ASSUME NEW h \in Handlers, SetHandler(h) PROVE [Channel!Next]_(Channel!channel)
  <2>1. Pending' = Pending
    BY <1>7, PendingFrame DEF SetHandler, Reached, queue
  <2>2. Channel!Register(h)
    BY <1>7, <2>1 DEF SetHandler, Channel!Register
  <2>3. QED
    BY <2>2 DEF Channel!Next
<1>8. CASE ClearHandler
  <2>1. Pending' = Pending
    BY <1>8, PendingFrame DEF ClearHandler, Reached, queue
  <2>2. Channel!Register(LUA_NOREF)
    BY <1>8, <2>1 DEF ClearHandler, Channel!Register
  <2>3. QED
    BY <2>2 DEF Channel!Next
<1>9. CASE DrainCall
  <2>1. Reached' = Reached
    BY <1>9 DEF DrainCall, Reached, IInv, LuaFrame, MutexHeld, Critical, InLua, TypeOK, Threads
  <2>2. QED
    BY <1>9, <2>1, PendingFrame DEF DrainCall, Channel!channel, queue
<1>10. CASE DrainBegin
  <2>1. Reached' = Reached
    BY <1>10 DEF DrainBegin, Reached, IInv, LuaFrame, MutexHeld, Critical, InLua, TypeOK, Threads
  <2>2. QED
    BY <1>10, <2>1, PendingFrame DEF DrainBegin, Channel!channel, queue
<1>11. CASE DrainSkip
  <2>1. i = 0 /\ i' = 0
    BY <1>11 DEF DrainSkip, IInv, MutexHeld, Critical, TypeOK, Threads
  <2>2. Pending' = <<>>
    BY <1>11, <2>1 DEF DrainSkip, ClearQueue, Pending, Reached
  <2>3. CASE noti_func_ref = LUA_NOREF
    <3>1. Channel!DiscardAll
      BY <1>11, <2>2, <2>3 DEF DrainSkip, Channel!DiscardAll
    <3>2. QED
      BY <3>1 DEF Channel!Next
  <2>4. CASE sessionid = <<>>
    <3>1. \A t \in Threads : posting[t] \notin {"type", "value"}
      BY <1>11, <2>1 DEF DrainSkip, IInv, MutexHeld, Critical
    <3>2. Len(msg_value) = 0
      BY <3>1, <2>4 DEF IInv, Vectors
    <3>3. Pending = <<>>
      BY <2>1, <3>2 DEF Pending, Reached
    <3>4. QED
      BY <1>11, <2>2, <3>3 DEF DrainSkip, Channel!channel
  <2>5. QED
    BY <1>11, <2>3, <2>4 DEF DrainSkip
<1>12. CASE CallHandler
  <2>1. Reached' = i + 1
    BY <1>12 DEF CallHandler, Reached, IInv, LuaFrame, TypeOK
  <2>2. /\ Pending # <<>>
        /\ Head(Pending) = Entry(i)
        /\ Pending' = Tail(Pending)
    BY <1>12, <2>1, HandOver DEF CallHandler, queue
  <2>3. Channel!Deliver
    BY <1>12, <2>2 DEF CallHandler, Channel!Deliver, Entry
  <2>4. QED
    BY <2>3 DEF Channel!Next
<1>13. CASE CallNil
  <2>1. Reached' = i + 1
    BY <1>13 DEF CallNil, Reached, IInv, LuaFrame, TypeOK
  <2>2. Pending # <<>> /\ Pending' = Tail(Pending)
    BY <1>13, <2>1, HandOver DEF CallNil, queue
  <2>3. Channel!DiscardHead
    BY <1>13, <2>2 DEF CallNil, Channel!DiscardHead
  <2>4. QED
    BY <2>3 DEF Channel!Next
<1>14. CASE HandlerReturn
  <2>1. Reached' = Reached
    BY <1>14 DEF HandlerReturn, Reached, IInv, LuaFrame, MutexHeld, Critical, InLua, TypeOK, Threads
  <2>2. QED
    BY <1>14, <2>1, PendingFrame DEF HandlerReturn, Channel!channel, queue
<1>15. CASE DrainEnd
  <2>1. Len(msg_value) < i /\ Len(msg_value) \in Nat
    BY <1>15, DrainLengths DEF DrainEnd, IInv, LuaFrame, TypeOK
  <2>2. Pending = <<>>
    BY <1>15, <2>1 DEF DrainEnd, Pending, Reached, IInv, TypeOK
  <2>3. Pending' = <<>>
    BY <1>15 DEF DrainEnd, ClearQueue, Pending, Reached
  <2>4. QED
    BY <1>15, <2>2, <2>3 DEF DrainEnd, Channel!channel
<1>16. ASSUME NEW w \in Workers, StartMaintenance(w) PROVE [Channel!Next]_(Channel!channel)
  <2>1. Reached' = Reached
    BY <1>16 DEF StartMaintenance, Reached, IInv, LuaFrame, MutexHeld, Critical, InLua, TypeOK, Threads
  <2>2. QED
    BY <1>16, <2>1, PendingFrame DEF StartMaintenance, Channel!channel, queue
<1>17. ASSUME NEW w \in Workers, MaintenanceEnds(w) PROVE [Channel!Next]_(Channel!channel)
  <2>1. Reached' = Reached
    BY <1>17 DEF MaintenanceEnds, Reached, IInv, LuaFrame, MutexHeld, Critical, InLua, TypeOK, Threads
  <2>2. QED
    BY <1>17, <2>1, PendingFrame DEF MaintenanceEnds, Channel!channel, queue
<1>18. CASE JoinCall
  <2>1. Reached' = Reached
    BY <1>18 DEF JoinCall, Reached, IInv, LuaFrame, MutexHeld, Critical, InLua, TypeOK, Threads
  <2>2. QED
    BY <1>18, <2>1, PendingFrame DEF JoinCall, Channel!channel, queue
<1>19. CASE JoinReturn
  <2>1. Reached' = Reached
    BY <1>19 DEF JoinReturn, Reached, IInv, LuaFrame, MutexHeld, Critical, InLua, TypeOK, Threads
  <2>2. QED
    BY <1>19, <2>1, PendingFrame DEF JoinReturn, Channel!channel, queue
<1>20. QED
  BY <1>1, <1>2, <1>3, <1>4, <1>5, <1>6, <1>7, <1>8, <1>9, <1>10, <1>11,
     <1>12, <1>13, <1>14, <1>15, <1>16, <1>17, <1>18, <1>19 DEF Next,
     OnMessage, Drain

\* on_message and drain_notifications implement the FIFO channel: in order, at
\* most once, to the handler registered at that moment, and lost only while
\* none is registered.
THEOREM Refinement == Spec => IsChannel
<1>1. IInv /\ IInv' /\ [Next]_vars => [Channel!Next]_(Channel!channel)
  BY ChannelStep
<1>2. QED
  BY <1>1, ChannelInit, Inductive, PTL DEF Spec, IsChannel, Channel!Spec
=============================================================================
