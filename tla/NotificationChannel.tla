------------------------- MODULE NotificationChannel -------------------------
(***************************************************************************)
(* What set_notification_handler and drain_notifications promise to a Lua  *)
(* program, whatever threads the engine notifies from: the notifications   *)
(* form one FIFO channel.  Each of them is given at most once, in the      *)
(* order in which it was posted, to the handler that is registered at the  *)
(* moment it is handed over.  It is thrown away only while no handler is   *)
(* registered.                                                             *)
(***************************************************************************)
EXTENDS Sequences

CONSTANTS
  Handlers,   \* the Lua functions a program may register
  NoHandler,  \* no function is registered
  Message     \* what the engine may notify

VARIABLES
  pending,    \* posted and neither given nor thrown away, oldest first
  handler,    \* the registered function, or NoHandler
  delivered   \* everything given so far: [to, what], oldest first

channel == <<pending, handler, delivered>>

Init ==
  /\ pending = <<>>
  /\ handler = NoHandler
  /\ delivered = <<>>

Post(m) ==
  /\ pending' = Append(pending, m)
  /\ UNCHANGED <<handler, delivered>>

Register(h) ==
  /\ handler' = h
  /\ UNCHANGED <<pending, delivered>>

Deliver ==
  /\ pending # <<>>
  /\ handler # NoHandler
  /\ delivered' = Append(delivered, [to |-> handler, what |-> Head(pending)])
  /\ pending' = Tail(pending)
  /\ UNCHANGED handler

DiscardHead ==
  /\ pending # <<>>
  /\ handler = NoHandler
  /\ pending' = Tail(pending)
  /\ UNCHANGED <<handler, delivered>>

DiscardAll ==
  /\ handler = NoHandler
  /\ pending' = <<>>
  /\ UNCHANGED <<handler, delivered>>

Next ==
  \/ \E m \in Message : Post(m)
  \/ \E h \in Handlers \union {NoHandler} : Register(h)
  \/ Deliver
  \/ DiscardHead
  \/ DiscardAll

Spec == Init /\ [][Next]_channel
=============================================================================
