--------------------------- MODULE NotiBridgeProofs ---------------------------
(***************************************************************************)
(* Theorems about NotiBridge for every number of threads, objects and      *)
(* nested drains.  lua_queue is assigned by a drain and cleared by         *)
(* finalize_bridge; whoever holds pointers into it then is a drain whose   *)
(* handler made the call, and that is what the invariant says of every     *)
(* frame below the innermost one.                                          *)
(***************************************************************************)
EXTENDS NotiBridge, SequenceTheorems, FiniteSetTheorems, TLAPS

\* The loop of the drain has pointers into a lua_queue.
Holds(frame) == frame.at \in {"loop", "handler"}

\* The handlers of the drains below the innermost one have called back, and so
\* have those of all that hold pointers into another lua_queue.
PointersInv ==
  /\ \A k \in 1..Len(frames) : k < Len(frames) => frames[k].reentered
  /\ \A k \in 1..Len(frames) :
       Holds(frames[k]) /\ frames[k].gen # lua_queue.gen => frames[k].reentered

\* Handlers that neither drain nor unregister do not call back.
QuietInv ==
  HandlerCalls \subseteq {"set", "emit"} =>
    \A k \in 1..Len(frames) : ~frames[k].reentered

\* What a drain counts is what its lua_queue has, or less.
CountsInv ==
  \A k \in 1..Len(frames) :
    /\ frames[k].gen <= lua_queue.gen
    /\ frames[k].i >= 1
    /\ frames[k].at = "handler" => frames[k].i <= frames[k].count
    /\ frames[k].gen = lua_queue.gen /\ Holds(frames[k])
         => frames[k].count <= Len(lua_queue.msgs)

BridgeInv == TypeOK /\ PointersInv /\ QuietInv /\ CountsInv

USE NotiBridgeAssumption DEF NotiBridgeAssumption

-----------------------------------------------------------------------------
\* The frames when the innermost is changed, dropped, or another comes on top.
LEMMA TopFacts ==
  ASSUME TypeOK, frames # <<>>
  PROVE  /\ Len(frames) \in Nat /\ Len(frames) >= 1
         /\ Top = frames[Len(frames)] /\ Top \in Frame
         /\ \A f : /\ Len(WithTop(f)) = Len(frames)
                   /\ \A k \in 1..Len(frames) :
                        WithTop(f)[k] = IF k = Len(frames) THEN f ELSE frames[k]
         /\ \A f \in Frame : WithTop(f) \in Seq(Frame)
<1>1. frames \in Seq(Frame) /\ Len(frames) \in Nat /\ Len(frames) >= 1
  BY DEF TypeOK
<1>2. Top = frames[Len(frames)] /\ Top \in Frame
  BY <1>1 DEF Top, Last
<1>3. ASSUME NEW f
      PROVE  /\ Len(WithTop(f)) = Len(frames)
             /\ \A k \in 1..Len(frames) :
                  WithTop(f)[k] = IF k = Len(frames) THEN f ELSE frames[k]
  BY <1>1 DEF WithTop
<1>4. ASSUME NEW f \in Frame PROVE WithTop(f) \in Seq(Frame)
  BY <1>1, ExceptSeq DEF WithTop
<1>5. QED
  BY <1>1, <1>2, <1>3, <1>4

\* The frames below the innermost one.
LEMMA FrontFacts ==
  ASSUME NEW S, NEW s \in Seq(S), s # <<>>
  PROVE  /\ Front(s) \in Seq(S) /\ Len(Front(s)) = Len(s) - 1
         /\ \A j \in 1..(Len(s) - 1) : Front(s)[j] = s[j]
<1>1. Len(s) \in Nat /\ Len(s) # 0
  OBVIOUS
<1>2. 1 \in Int /\ Len(s) - 1 \in Int /\ \A j \in 1..(Len(s) - 1) : s[j] \in S
  BY <1>1
<1> DEFINE front == SubSeq(s, 1, Len(s) - 1)
           n == Len(s) - 1
<1>3. /\ front \in Seq(S)
      /\ Len(front) = IF 1 <= n THEN n - 1 + 1 ELSE 0
      /\ \A j \in 1..(n - 1 + 1) : front[j] = s[1 + j - 1]
  BY <1>2, SubSeqProperties
<1>4. Front(s) = front
  BY DEF Front
<1>5. n \in Nat /\ Len(s) = n + 1
  BY <1>1
<1> HIDE DEF front, n
<1>6. Len(front) = n /\ \A j \in 1..n : front[j] = s[j]
  BY <1>3, <1>5
<1>7. Len(s) - 1 = n
  BY <1>5
<1>8. QED
  BY <1>3, <1>4, <1>6, <1>7

-----------------------------------------------------------------------------
(***************************************************************************)
(* The steps that change frames or lua_queue, by what they do to them.     *)
(***************************************************************************)
\* What the frames and the queue must be.
FramesInv ==
  /\ frames \in Seq(Frame)
  /\ lua_queue \in [gen : Nat, msgs : Seq(Message)]
  /\ \A k \in 1..Len(frames) : frames[k].i <= frames[k].count + 1
  /\ PointersInv /\ QuietInv /\ CountsInv

\* The invariant of the bridge includes that of its drain frames.
LEMMA InvFrames == BridgeInv => FramesInv
BY DEF BridgeInv, TypeOK, FramesInv

\* The innermost drain moves on, with the pointers it has.
LEMMA MoveStep ==
  ASSUME BridgeInv, frames # <<>>, NEW f \in Frame, frames' = WithTop(f),
         UNCHANGED lua_queue,
         f.reentered = Top.reentered, f.gen = Top.gen, f.count = Top.count,
         f.i <= f.count + 1, f.i >= 1, Holds(f) => Holds(Top),
         f.at = "handler" => f.i <= f.count
  PROVE  FramesInv'
<1>1. /\ Len(frames) \in Nat /\ Len(frames) >= 1
      /\ Top = frames[Len(frames)]
      /\ frames' \in Seq(Frame) /\ Len(frames') = Len(frames)
      /\ \A k \in 1..Len(frames) :
           frames'[k] = IF k = Len(frames) THEN f ELSE frames[k]
  BY TopFacts DEF BridgeInv
<1>2. Len(frames) \in 1..Len(frames)
  BY <1>1
<1>3. FramesInv
  BY InvFrames
<1>4. \A k \in 1..Len(frames) : frames'[k].i <= frames'[k].count + 1
  BY <1>1, <1>3 DEF FramesInv
<1>5. PointersInv'
  BY <1>1, <1>2, <1>3 DEF FramesInv, PointersInv
<1>6. QuietInv'
  BY <1>1, <1>2, <1>3 DEF FramesInv, QuietInv
<1>7. CountsInv'
  BY <1>1, <1>2, <1>3 DEF FramesInv, CountsInv
<1>8. QED
  BY <1>1, <1>3, <1>4, <1>5, <1>6, <1>7 DEF FramesInv

\* It returns to the handler that has called it, or to the program.
LEMMA PopStep ==
  ASSUME BridgeInv, frames # <<>>, frames' = Front(frames), UNCHANGED lua_queue
  PROVE  FramesInv'
<1>1. FramesInv
  BY InvFrames
<1>2. /\ Len(frames) \in Nat /\ Len(frames) >= 1
      /\ frames' \in Seq(Frame) /\ Len(frames') = Len(frames) - 1
      /\ \A k \in 1..(Len(frames) - 1) : frames'[k] = frames[k]
  BY <1>1, FrontFacts DEF FramesInv
<1>3. \A k \in 1..Len(frames') :
        k \in 1..Len(frames) /\ frames'[k] = frames[k] /\ frames[k].reentered
  BY <1>1, <1>2 DEF FramesInv, PointersInv
<1>4. QuietInv'
  BY <1>1, <1>3 DEF FramesInv, QuietInv
<1>5. PointersInv' /\ CountsInv' /\ \A k \in 1..Len(frames') : frames'[k].i <= frames'[k].count + 1
  BY <1>1, <1>3 DEF FramesInv, PointersInv, CountsInv
<1>6. QED
  BY <1>1, <1>2, <1>4, <1>5 DEF FramesInv

\* lua_queue is assigned: whoever had pointers into it has called back, and the
\* frames are otherwise what they were.
LEMMA AssignStep ==
  ASSUME FramesInv, NEW msgs \in Seq(Message), NEW g,
         lua_queue' = [gen |-> lua_queue.gen + 1, msgs |-> msgs],
         g \in Seq(Frame), frames' = g, Len(g) = Len(frames),
         \A k \in 1..Len(g) :
           /\ g[k].gen = frames[k].gen /\ g[k].i = frames[k].i
           /\ g[k].count = frames[k].count
           /\ g[k].at = "handler" => frames[k].at = "handler"
           /\ (k < Len(g) \/ Holds(g[k])) => g[k].reentered
           /\ g[k].reentered => frames[k].reentered \/ ~(HandlerCalls \subseteq {"set", "emit"})
  PROVE  FramesInv'
<1>1. lua_queue.gen \in Nat /\ lua_queue'.gen = lua_queue.gen + 1
      /\ lua_queue' \in [gen : Nat, msgs : Seq(Message)]
  BY DEF FramesInv
<1>2. ASSUME NEW k \in 1..Len(frames)
      PROVE  /\ frames[k].gen \in Nat /\ frames[k].gen <= lua_queue.gen /\ frames[k].i >= 1
             /\ frames[k].at = "handler" => frames[k].i <= frames[k].count
  <2>1. frames[k] \in Frame
    BY DEF FramesInv
  <2>2. QED
    BY <2>1 DEF Frame, FramesInv, CountsInv
<1>3. PointersInv'
  BY DEF PointersInv
<1>4. QuietInv'
  BY DEF FramesInv, QuietInv
<1>5. CountsInv'
  BY <1>1, <1>2 DEF CountsInv
<1>6. \A k \in 1..Len(frames') : frames'[k].i <= frames'[k].count + 1
  BY DEF FramesInv
<1>7. QED
  BY <1>1, <1>3, <1>4, <1>5, <1>6 DEF FramesInv

\* A drain begins: the handler it is called from, if any, has called back.
LEMMA DrainStep ==
  ASSUME BridgeInv, NEW api \in Apis, NEW clearing \in BOOLEAN, Drain(api, clearing),
         frames = <<>> \/ ~(HandlerCalls \subseteq {"set", "emit"})
  PROVE  FramesInv'
<1> DEFINE g == Reentered
           n == Len(frames)
           count == Smaller(Len(msg_queue), MaxMessages)
           new == [api |-> api, count |-> count, gen |-> lua_queue.gen + 1, i |-> 1,
                   at |-> IF count = 0 THEN "done" ELSE "loop",
                   clearing |-> clearing, reentered |-> FALSE]
<1>1. FramesInv
  BY InvFrames
<1>2. /\ msg_queue \in Seq(Message) /\ Len(msg_queue) \in Nat
      /\ lua_queue.gen \in Nat /\ count \in Nat /\ count <= Len(msg_queue)
  BY DEF BridgeInv, TypeOK, Smaller
<1>3. new \in Frame
  BY <1>2 DEF Frame
<1>4. lua_queue' = [gen |-> lua_queue.gen + 1, msgs |-> msg_queue]
  BY DEF Drain, TakeQueue
<1>5. frames' = g \/ frames' = Append(g, new)
  BY DEF Drain
<1>6. /\ g \in Seq(Frame) /\ Len(g) = n /\ n \in Nat
      /\ \A k \in 1..n : /\ g[k].gen = frames[k].gen /\ g[k].i = frames[k].i
                         /\ g[k].count = frames[k].count /\ g[k].reentered
                         /\ g[k].at = frames[k].at
  <2>1. CASE frames = <<>>
    BY <1>1, <2>1 DEF FramesInv, Reentered
  <2>2. CASE frames # <<>>
    <3> DEFINE f == [Top EXCEPT !.reentered = TRUE]
    <3>1. /\ n \in Nat /\ n >= 1 /\ Top = frames[n] /\ Top \in Frame
      BY <2>2, TopFacts DEF BridgeInv
    <3>2. /\ f \in Frame /\ f.reentered /\ f.gen = Top.gen /\ f.i = Top.i
          /\ f.count = Top.count /\ f.at = Top.at
      BY <3>1 DEF Frame
    <3> HIDE DEF f
    <3>3. /\ WithTop(f) \in Seq(Frame) /\ Len(WithTop(f)) = n
          /\ \A k \in 1..n : WithTop(f)[k] = IF k = n THEN f ELSE frames[k]
      BY <2>2, <3>2, TopFacts DEF BridgeInv
    <3>4. g = WithTop(f)
      BY <2>2 DEF Reentered, f
    <3>5. \A k \in 1..n : k # n => frames[k].reentered
      BY <1>1, <3>1 DEF FramesInv, PointersInv
    <3> HIDE DEF g
    <3>6. QED
      BY <3>1, <3>2, <3>3, <3>4, <3>5
  <2>3. QED
    BY <2>1, <2>2
<1> HIDE DEF g, new, count
<1>7. \A k \in 1..n : /\ frames[k].gen \in Nat /\ frames[k].gen <= lua_queue.gen
                      /\ frames[k].i >= 1 /\ frames[k].i <= frames[k].count + 1
                      /\ frames[k].at = "handler" => frames[k].i <= frames[k].count
  <2> SUFFICES ASSUME NEW k \in 1..n
               PROVE  /\ frames[k].gen \in Nat /\ frames[k].gen <= lua_queue.gen
                      /\ frames[k].i >= 1 /\ frames[k].i <= frames[k].count + 1
                      /\ frames[k].at = "handler" => frames[k].i <= frames[k].count
    OBVIOUS
  <2>1. frames[k] \in Frame
    BY <1>1 DEF FramesInv
  <2>2. QED
    BY <1>1, <2>1 DEF Frame, FramesInv, CountsInv
<1>8. /\ lua_queue' \in [gen : Nat, msgs : Seq(Message)]
      /\ lua_queue'.gen = lua_queue.gen + 1 /\ lua_queue'.msgs = msg_queue
  BY <1>2, <1>4
<1>9. CASE frames' = g
  <2>1. PointersInv'
    BY <1>6, <1>9 DEF PointersInv
  <2>2. QuietInv'
    BY <1>6, <1>9 DEF QuietInv
  <2>3. CountsInv'
    BY <1>2, <1>6, <1>7, <1>8, <1>9 DEF CountsInv
  <2>4. QED
    BY <1>6, <1>7, <1>8, <1>9, <2>1, <2>2, <2>3 DEF FramesInv
<1>10. CASE frames' = Append(g, new)
  <2>1. /\ frames' \in Seq(Frame) /\ Len(frames') = n + 1
        /\ \A k \in 1..n : frames'[k] = g[k]
        /\ frames'[n + 1] = new
    BY <1>3, <1>6, <1>10, AppendProperties
  <2>2. /\ new.gen = lua_queue.gen + 1 /\ new.i = 1 /\ new.count = count
        /\ new.reentered = FALSE /\ new.at # "handler"
    BY DEF new
  <2>3. \A k \in 1..Len(frames') : k \in 1..n \/ k = n + 1
    BY <1>6, <2>1
  <2>4. PointersInv'
    BY <1>6, <1>8, <2>1, <2>2, <2>3 DEF PointersInv
  <2>5. QuietInv'
    BY <1>6, <2>1, <2>2, <2>3 DEF QuietInv
  <2>6. ASSUME NEW k \in 1..Len(frames')
        PROVE  /\ frames'[k].gen <= lua_queue'.gen
               /\ frames'[k].i >= 1 /\ frames'[k].i <= frames'[k].count + 1
               /\ frames'[k].at = "handler" => frames'[k].i <= frames'[k].count
               /\ frames'[k].gen = lua_queue'.gen => frames'[k].count <= Len(lua_queue'.msgs)
    <3>1. CASE k \in 1..n
      <4>1. /\ frames'[k].gen = frames[k].gen /\ frames'[k].i = frames[k].i
            /\ frames'[k].count = frames[k].count /\ frames'[k].at = frames[k].at
        BY <1>6, <2>1, <3>1
      <4>2. QED
        BY <1>2, <1>7, <1>8, <3>1, <4>1
    <3>2. CASE k = n + 1
      BY <1>2, <1>8, <2>1, <2>2, <3>2
    <3>3. QED
      BY <2>3, <3>1, <3>2
  <2>7. CountsInv' /\ \A k \in 1..Len(frames') : frames'[k].i <= frames'[k].count + 1
    BY <2>6 DEF CountsInv
  <2>8. QED
    BY <1>8, <2>1, <2>4, <2>5, <2>7 DEF FramesInv
<1>11. QED
  BY <1>5, <1>9, <1>10

-----------------------------------------------------------------------------
(***************************************************************************)
(* Every step.                                                             *)
(***************************************************************************)
\* The types of what is neither a frame nor lua_queue.
RestTypes ==
  /\ msg_queue \in Seq(Message)
  /\ registered \in BOOLEAN
  /\ handler \in [Apis -> Handlers \union {Nil}]
  /\ posting \in [Threads -> Message \union {Nil}]
  /\ posts \in 0..MaxPosts
  /\ drains \in 0..MaxDrains
  /\ delivered \in Seq([to : Handlers, what : Message \union {Garbage}])

\* The invariant of the bridge is that of the drain frames and the types of the
\* rest.
LEMMA InvParts == BridgeInv <=> FramesInv /\ RestTypes
<1>1. ASSUME BridgeInv PROVE FramesInv /\ RestTypes
  BY <1>1, InvFrames DEF BridgeInv, TypeOK, RestTypes
<1>2. ASSUME FramesInv, RestTypes PROVE BridgeInv
  BY <1>2 DEF BridgeInv, TypeOK, FramesInv, RestTypes
<1>3. QED
  BY <1>1, <1>2

\* What the loop reads for its handler is a message, or garbage.
LEMMA ReadType ==
  ASSUME BridgeInv, frames # <<>>, Holds(Top), Top.i <= Top.count
  PROVE  Read \in Message \union {Garbage}
<1>1. Len(frames) \in 1..Len(frames) /\ Top = frames[Len(frames)] /\ Top \in Frame
  BY TopFacts DEF BridgeInv
<1>2. Top.i \in Nat /\ Top.i >= 1 /\ (Top.gen = lua_queue.gen => Top.count <= Len(lua_queue.msgs))
  BY <1>1 DEF BridgeInv, CountsInv, Frame
<1>3. Top.count \in Nat /\ lua_queue.msgs \in Seq(Message)
  BY <1>1 DEF BridgeInv, TypeOK, Frame
<1>4. CASE Top.gen = lua_queue.gen
  <2>1. Top.i \in 1..Len(lua_queue.msgs)
    BY <1>2, <1>3, <1>4
  <2>2. QED
    BY <1>3, <1>4, <2>1 DEF Read
<1>5. QED
  BY <1>4 DEF Read

\* Every step on the queues, the handlers and the drains keeps the invariant.
LEMMA StepBridge == BridgeInv /\ [Next]_vars => BridgeInv'
<1> SUFFICES ASSUME BridgeInv, [Next]_vars PROVE BridgeInv'
  OBVIOUS
<1> DEFINE n == Len(frames)
<1>1. FramesInv /\ RestTypes
  BY InvParts
<1>2. ASSUME UNCHANGED <<frames, lua_queue>>, RestTypes' PROVE BridgeInv'
  <2>1. FramesInv'
    BY <1>1, <1>2 DEF FramesInv, PointersInv, QuietInv, CountsInv
  <2>2. QED
    BY <1>2, <2>1 DEF BridgeInv, TypeOK, FramesInv, RestTypes
<1>3. ASSUME FramesInv', RestTypes' PROVE BridgeInv'
  <2>1. DOMAIN frames' = 1..Len(frames')
    BY <1>3 DEF FramesInv
  <2>2. TypeOK'
    BY <1>3, <2>1 DEF TypeOK, FramesInv, RestTypes
  <2>3. QED
    BY <1>3, <2>2 DEF BridgeInv, FramesInv
<1>4. ASSUME NEW t \in Threads, NEW m \in Message, Notify(t, m) PROVE BridgeInv'
  BY <1>1, <1>2, <1>4 DEF Notify, RestTypes
<1>5. ASSUME NEW t \in Threads, OnMessage(t) PROVE BridgeInv'
  <2>1. posting[t] \in Message
    BY <1>1, <1>5 DEF OnMessage, RestTypes
  <2>2. msg_queue' \in Seq(Message)
    BY <1>1, <1>5, <2>1, AppendProperties DEF OnMessage, RestTypes
  <2>3. QED
    BY <1>1, <1>2, <1>5, <2>2 DEF OnMessage, RestTypes
<1>6. ASSUME NEW api \in Apis, NEW f \in Handlers, SetHandler(api, f) PROVE BridgeInv'
  BY <1>1, <1>2, <1>6 DEF SetHandler, RestTypes
<1>7. ASSUME NEW api \in Apis, NEW clearing \in BOOLEAN, Drain(api, clearing),
             frames = <<>> \/ ~(HandlerCalls \subseteq {"set", "emit"})
      PROVE  BridgeInv'
  <2>1. FramesInv'
    BY <1>7, DrainStep
  <2>2. RestTypes'
    BY <1>1, <1>7 DEF Drain, TakeQueue, RestTypes
  <2>3. QED
    BY <1>3, <2>1, <2>2
<1>8. ASSUME NEW api \in Apis, DrainNotifications(api) \/ ClearHandler(api) PROVE BridgeInv'
  BY <1>7, <1>8 DEF DrainNotifications, ClearHandler, InLua
<1>9. ASSUME frames # <<>>
      PROVE  /\ Top \in Frame /\ Top = frames[n] /\ n \in 1..n
             /\ Top.i \in Nat /\ Top.count \in Nat
             /\ Top.i >= 1 /\ Top.i <= Top.count + 1
             /\ Top.at = "handler" => Top.i <= Top.count
  <2>1. Top \in Frame /\ Top = frames[n] /\ n \in 1..n
    BY <1>9, TopFacts DEF BridgeInv
  <2>2. QED
    BY <1>1, <2>1 DEF Frame, FramesInv, CountsInv
<1>10. CASE CallHandler
  <2> DEFINE f == [Top EXCEPT !.at = "handler"]
  <2>1. frames # <<>> /\ Top.at = "loop" /\ Top.i <= Top.count /\ frames' = WithTop(f)
    BY <1>10 DEF CallHandler, Looping, In
  <2>2. f \in Frame /\ f.reentered = Top.reentered /\ f.gen = Top.gen
        /\ f.count = Top.count /\ f.i = Top.i
    BY <1>9, <2>1 DEF Frame
  <2> HIDE DEF f
  <2>3. FramesInv'
    BY <1>9, <1>10, <2>1, <2>2, MoveStep DEF CallHandler, Holds
  <2>4. Read \in Message \union {Garbage} /\ handler[Top.api] \in Handlers
    BY <1>1, <1>9, <1>10, <2>1, ReadType DEF CallHandler, Holds, RestTypes, Frame
  <2>5. delivered' \in Seq([to : Handlers, what : Message \union {Garbage}])
    BY <1>1, <1>10, <2>4, AppendProperties DEF CallHandler, RestTypes
  <2>6. QED
    BY <1>1, <1>3, <1>10, <2>3, <2>5 DEF CallHandler, RestTypes
<1>11. CASE SkipHandler
  <2> DEFINE f == [Top EXCEPT !.i = @ + 1]
  <2>1. frames # <<>> /\ Top.at = "loop" /\ Top.i <= Top.count /\ frames' = WithTop(f)
    BY <1>11 DEF SkipHandler, Looping, In
  <2>2. Top.i <= Top.count /\ Top.i + 1 \in Nat
    BY <1>9, <2>1
  <2>3. f \in Frame /\ f.reentered = Top.reentered /\ f.gen = Top.gen
        /\ f.count = Top.count /\ f.i = Top.i + 1 /\ f.at = "loop"
    BY <1>9, <2>1, <2>2 DEF Frame
  <2> HIDE DEF f
  <2>4. FramesInv'
    <3>1. f.i <= f.count + 1 /\ f.i >= 1 /\ f.at # "handler" /\ Holds(Top) /\ lua_queue' = lua_queue
      BY <1>9, <1>11, <2>1, <2>3, <2>2 DEF SkipHandler, Holds
    <3>2. QED
      BY <2>1, <2>3, <3>1, MoveStep
  <2>5. QED
    BY <1>1, <1>3, <1>11, <2>4 DEF SkipHandler, RestTypes
<1>12. CASE HandlerReturn
  <2> DEFINE f == [Top EXCEPT !.at = "loop", !.i = @ + 1]
  <2>1. frames # <<>> /\ Top.at = "handler" /\ frames' = WithTop(f)
    BY <1>12 DEF HandlerReturn, In
  <2>2. Top.i <= Top.count /\ Top.i + 1 \in Nat
    BY <1>9, <2>1
  <2>3. f \in Frame /\ f.reentered = Top.reentered /\ f.gen = Top.gen
        /\ f.count = Top.count /\ f.i = Top.i + 1 /\ f.at = "loop"
    BY <1>9, <2>1, <2>2 DEF Frame
  <2> HIDE DEF f
  <2>4. FramesInv'
    <3>1. f.i <= f.count + 1 /\ f.i >= 1 /\ f.at # "handler" /\ Holds(Top) /\ lua_queue' = lua_queue
      BY <1>9, <1>12, <2>1, <2>3, <2>2 DEF HandlerReturn, Holds
    <3>2. QED
      BY <2>1, <2>3, <3>1, MoveStep
  <2>5. QED
    BY <1>1, <1>3, <1>12, <2>4 DEF HandlerReturn, RestTypes
<1>13. CASE DrainEnd
  <2> DEFINE f == [Top EXCEPT !.at = "done"]
  <2>1. frames # <<>> /\ frames' \in {WithTop(f), Front(frames)}
    BY <1>13 DEF DrainEnd, Looping, In
  <2>2. f \in Frame /\ f.reentered = Top.reentered /\ f.gen = Top.gen
        /\ f.count = Top.count /\ f.i = Top.i /\ f.at = "done"
    BY <1>9, <2>1 DEF Frame
  <2> HIDE DEF f
  <2>3. FramesInv'
    BY <1>9, <1>13, <2>1, <2>2, MoveStep, PopStep DEF DrainEnd, Holds
  <2>4. QED
    BY <1>1, <1>3, <1>13, <2>3 DEF DrainEnd, RestTypes
<1>14. CASE FinalizeBridge
  <2> DEFINE f == [Top EXCEPT !.at = "finalize"]
  <2>1. frames # <<>> /\ frames' = WithTop(f)
    BY <1>14 DEF FinalizeBridge, In
  <2>2. f \in Frame /\ f.reentered = Top.reentered /\ f.gen = Top.gen
        /\ f.count = Top.count /\ f.i = Top.i /\ f.at = "finalize"
    BY <1>9, <2>1 DEF Frame
  <2> HIDE DEF f
  <2>3. /\ WithTop(f) \in Seq(Frame) /\ Len(WithTop(f)) = n
        /\ \A k \in 1..n : WithTop(f)[k] = IF k = n THEN f ELSE frames[k]
    BY <2>1, <2>2, TopFacts DEF BridgeInv
  <2>4. \A k \in 1..n : k # n => frames[k].reentered
    BY <1>1, <1>9, <2>1 DEF FramesInv, PointersInv
  <2>5. <<>> \in Seq(Message)
    OBVIOUS
  <2>6. lua_queue' = [gen |-> lua_queue.gen + 1, msgs |-> <<>>]
    BY <1>14 DEF FinalizeBridge
  <2>7. FramesInv'
    <3> DEFINE g == WithTop(f)
    <3>1. g \in Seq(Frame) /\ frames' = g /\ Len(g) = Len(frames)
      BY <2>1, <2>3
    <3>2. \A k \in 1..Len(g) :
            /\ g[k].gen = frames[k].gen /\ g[k].i = frames[k].i
            /\ g[k].count = frames[k].count
            /\ g[k].at = "handler" => frames[k].at = "handler"
            /\ (k < Len(g) \/ Holds(g[k])) => g[k].reentered
            /\ g[k].reentered => frames[k].reentered
      BY <1>9, <2>1, <2>2, <2>3, <2>4 DEF Holds
    <3> HIDE DEF g
    <3>3. QED
      BY <1>1, <2>5, <2>6, <3>1, <3>2, AssignStep
  <2>8. QED
    BY <1>1, <1>3, <1>14, <2>7 DEF FinalizeBridge, RestTypes
<1>15. CASE FinalizeEnd
  <2>1. FramesInv'
    BY <1>15, PopStep DEF FinalizeEnd, In
  <2>2. RestTypes'
    <3>1. <<>> \in Seq(Message) /\ Nil \in Handlers \union {Nil}
      OBVIOUS
    <3>2. QED
      BY <1>1, <1>15, <3>1 DEF FinalizeEnd, RestTypes
  <2>3. QED
    BY <1>3, <2>1, <2>2
<1>16. CASE UNCHANGED vars
  BY <1>1, <1>2, <1>16 DEF vars, RestTypes
<1>17. QED
  BY <1>4, <1>5, <1>6, <1>8, <1>10, <1>11, <1>12, <1>13, <1>14, <1>15, <1>16 DEF Next

-----------------------------------------------------------------------------
\* The invariant holds, whatever handlers may call.
THEOREM BridgeInvariant == Spec => []BridgeInv
<1>1. Init => BridgeInv
  <2> SUFFICES ASSUME Init PROVE BridgeInv
    OBVIOUS
  <2>1. /\ frames = <<>> /\ Len(frames) = 0 /\ <<>> \in Seq(Frame) /\ <<>> \in Seq(Message)
        /\ <<>> \in Seq([to : Handlers, what : Message \union {Garbage}])
    BY DEF Init
  <2>2. lua_queue \in [gen : Nat, msgs : Seq(Message)]
    BY <2>1 DEF Init
  <2>3. TypeOK
    <3>1. 0 \in 0..MaxPosts /\ 0 \in 0..MaxDrains
      OBVIOUS
    <3>2. /\ handler \in [Apis -> Handlers \union {Nil}]
          /\ posting \in [Threads -> Message \union {Nil}]
      BY DEF Init
    <3>3. \A k \in DOMAIN frames : frames[k].i <= frames[k].count + 1
      BY <2>1
    <3>4. QED
      BY <2>1, <2>2, <3>1, <3>2, <3>3 DEF Init, TypeOK
  <2>4. QED
    BY <2>1, <2>3 DEF BridgeInv, PointersInv, QuietInv, CountsInv
<1>2. QED
  BY <1>1, StepBridge, PTL DEF Spec

\* Every variable keeps its type: so no handler is given anything but a message,
\* or what a dead pointer yields.
THEOREM BridgeTypes == Spec => []TypeOK
<1>1. BridgeInv => TypeOK
  BY DEF BridgeInv
<1>2. QED
  BY <1>1, BridgeInvariant, PTL

\* However deep drains are nested and whatever threads post meanwhile, a string is
\* read after its death only in a drain whose own handler has called back.
THEOREM PointersLive == Spec => []PointersLiveUntilReentry
<1>1. BridgeInv => PointersLiveUntilReentry
  BY DEF BridgeInv, TypeOK, PointersInv, Holds, Dangling, PointersLiveUntilReentry
<1>2. QED
  BY <1>1, BridgeInvariant, PTL

\* With handlers that neither drain nor unregister, none ever is.
THEOREM QuietHandlersReadLive == Spec => []NoDanglingRead
<1>1. BridgeInv => NoDanglingRead
  BY DEF BridgeInv, TypeOK, PointersInv, QuietInv, Holds, Dangling, NoDanglingRead
<1>2. QED
  BY <1>1, BridgeInvariant, PTL

-----------------------------------------------------------------------------
(***************************************************************************)
(* The refinement: with one object, quiet handlers and room for all that   *)
(* is posted, there is at most one drain, and it has taken all there was.  *)
(***************************************************************************)
OneQuietApi ==
  /\ HandlerCalls \subseteq {"set", "emit"}
  /\ \E api : Apis = {api}
  /\ MaxPosts <= MaxMessages

Posting == {t \in Threads : posting[t] # Nil}

\* What is queued has been posted; a drain that is done has handed over all it took.
QueueInv ==
  /\ IsFiniteSet(Posting)
  /\ Len(msg_queue) + Cardinality(Posting) <= posts
  /\ frames # <<>> /\ Top.at \in {"done", "finalize"} => Top.i = Top.count + 1

\* There is one drain at most, so its frame is all there is.
LEMMA OneFrame ==
  ASSUME OneQuietApi, BridgeInv, frames # <<>>
  PROVE  /\ Len(frames) = 1 /\ Top = frames[1] /\ Top \in Frame /\ frames = <<Top>>
         /\ Front(frames) = <<>>
         /\ \A f : WithTop(f) = <<f>>
         /\ Holds(Top) => Top.gen = lua_queue.gen /\ Top.count <= Len(lua_queue.msgs)
         /\ Top.i \in Nat /\ Top.count \in Nat /\ Top.i >= 1 /\ Top.i <= Top.count + 1
         /\ Top.at = "handler" => Top.i <= Top.count
<1>1. /\ frames \in Seq(Frame) /\ Len(frames) \in Nat /\ Len(frames) >= 1
      /\ Top = frames[Len(frames)] /\ Top \in Frame
  BY TopFacts DEF BridgeInv, TypeOK
<1>2. ~(1 < Len(frames))
  <2>1. \A k \in 1..Len(frames) : ~(k < Len(frames))
    BY DEF BridgeInv, PointersInv, QuietInv, OneQuietApi
  <2>2. 1 \in 1..Len(frames)
    BY <1>1
  <2>3. QED
    BY <2>1, <2>2
<1>3. Len(frames) = 1
  <2> DEFINE n == Len(frames)
  <2>1. n \in Nat /\ n >= 1 /\ ~(1 < n)
    BY <1>1, <1>2
  <2> HIDE DEF n
  <2>2. n = 1
    BY <2>1
  <2>3. QED
    BY <2>2 DEF n
<1>4. Top = frames[1] /\ 1 \in 1..Len(frames)
  BY <1>1, <1>3
<1>5. Front(frames) = <<>>
  <2>1. Front(frames) \in Seq(Frame) /\ Len(Front(frames)) = 0
    BY <1>1, <1>3, FrontFacts
  <2>2. QED
    BY <2>1, EmptySeq
<1>6. frames = <<Top>>
  BY <1>1, <1>3, <1>4
<1>7. ASSUME NEW f PROVE WithTop(f) = <<f>>
  BY <1>1, <1>3, <1>6 DEF WithTop
<1>8. Holds(Top) => Top.gen = lua_queue.gen /\ Top.count <= Len(lua_queue.msgs)
  BY <1>4 DEF BridgeInv, PointersInv, QuietInv, CountsInv, OneQuietApi
<1>9. /\ Top.i \in Nat /\ Top.count \in Nat /\ Top.i >= 1 /\ Top.i <= Top.count + 1
      /\ Top.at = "handler" => Top.i <= Top.count
  BY <1>1, <1>4 DEF BridgeInv, CountsInv, TypeOK, Frame
<1>10. QED
  BY <1>1, <1>3, <1>4, <1>5, <1>6, <1>7, <1>8, <1>9

\* A drain begins only while none is under way.
LEMMA QuietDrain ==
  ASSUME OneQuietApi, NEW call \in {"drain", "clear"}, InLua(call)
  PROVE  frames = <<>>
BY DEF InLua, OneQuietApi

\* The one frame is the top.
LEMMA TopOf ==
  ASSUME NEW f
  PROVE  /\ frames' = <<f>> => Top' = f /\ frames' # <<>>
         /\ frames = <<f>> => Top = f /\ frames # <<>>
BY DEF Top, Last

\* The threads that post, when one begins to and when it has.
LEMMA PostingFacts ==
  ASSUME BridgeInv, QueueInv
  PROVE  /\ \A t \in Threads, m \in Message :
              Notify(t, m) => /\ IsFiniteSet(Posting')
                              /\ Cardinality(Posting') = Cardinality(Posting) + 1
         /\ \A t \in Threads :
              OnMessage(t) => /\ IsFiniteSet(Posting')
                              /\ Cardinality(Posting') = Cardinality(Posting) - 1
         /\ Cardinality(Posting) \in Nat
<1>1. IsFiniteSet(Posting) /\ posting \in [Threads -> Message \union {Nil}]
  BY DEF QueueInv, BridgeInv, TypeOK
<1>2. ASSUME NEW t \in Threads, NEW m \in Message, Notify(t, m)
      PROVE  /\ IsFiniteSet(Posting')
             /\ Cardinality(Posting') = Cardinality(Posting) + 1
  <2>1. Posting' = Posting \union {t} /\ t \notin Posting
    BY <1>1, <1>2 DEF Notify, Posting
  <2>2. QED
    BY <1>1, <2>1, FS_AddElement
<1>3. ASSUME NEW t \in Threads, OnMessage(t)
      PROVE  /\ IsFiniteSet(Posting')
             /\ Cardinality(Posting') = Cardinality(Posting) - 1
  <2>1. Posting' = Posting \ {t} /\ t \in Posting
    BY <1>1, <1>3 DEF OnMessage, Posting
  <2>2. QED
    BY <1>1, <2>1, FS_RemoveElement
<1>4. QED
  BY <1>1, <1>2, <1>3, FS_CardinalityType

\* Every step keeps what is queued within what was posted.
LEMMA StepQueue ==
  ASSUME OneQuietApi, BridgeInv, QueueInv, [Next]_vars
  PROVE  QueueInv'
<1> DEFINE n == Len(msg_queue)
           c == Cardinality(Posting)
<1>1. /\ IsFiniteSet(Posting) /\ n + c <= posts
      /\ frames # <<>> /\ Top.at \in {"done", "finalize"} => Top.i = Top.count + 1
      /\ n \in Nat /\ posts \in Nat /\ msg_queue \in Seq(Message) /\ c \in Nat
  BY PostingFacts DEF QueueInv, BridgeInv, TypeOK
<1>2. \A f : frames' = <<f>> => Top' = f /\ frames' # <<>>
  BY TopOf
<1>3. frames # <<>> => /\ frames = <<Top>> /\ Front(frames) = <<>> /\ Top \in Frame
                       /\ \A f : WithTop(f) = <<f>>
                       /\ Top.i \in Nat /\ Top.count \in Nat /\ Top.i <= Top.count + 1
  BY OneFrame
<1>4. ASSUME UNCHANGED <<posting, posts>>, msg_queue' = <<>> \/ msg_queue' = msg_queue,
             frames' # <<>> => \E f : /\ frames' = <<f>>
                                      /\ f.at \in {"done", "finalize"} => f.i = f.count + 1
      PROVE  QueueInv'
  <2>1. Posting' = Posting
    BY <1>4 DEF Posting
  <2>2. Len(msg_queue') + c <= posts
    <3>1. CASE msg_queue' = <<>>
      <4>1. Len(msg_queue') = 0
        BY <3>1
      <4> HIDE DEF n, c
      <4>2. QED
        BY <1>1, <4>1
    <3>2. QED
      BY <1>1, <1>4, <3>1
  <2>3. QED
    BY <1>1, <1>2, <1>4, <2>1, <2>2 DEF QueueInv
<1>5. ASSUME frames' = frames
      PROVE  frames' # <<>> => \E f : /\ frames' = <<f>>
                                      /\ f.at \in {"done", "finalize"} => f.i = f.count + 1
  BY <1>1, <1>3, <1>5
<1>6. ASSUME NEW t \in Threads, NEW m \in Message, Notify(t, m) PROVE QueueInv'
  <2>1. IsFiniteSet(Posting') /\ Cardinality(Posting') = c + 1
    BY <1>6, PostingFacts
  <2>2. UNCHANGED <<msg_queue, frames>> /\ posts' = posts + 1
    BY <1>6 DEF Notify
  <2>3. Len(msg_queue') + Cardinality(Posting') <= posts'
    <3> HIDE DEF c
    <3>1. QED
      BY <1>1, <2>1, <2>2
  <2>4. QED
    BY <1>1, <2>1, <2>2, <2>3 DEF QueueInv, Top
<1>7. ASSUME NEW t \in Threads, OnMessage(t) PROVE QueueInv'
  <2>1. IsFiniteSet(Posting') /\ Cardinality(Posting') = c - 1
    BY <1>7, PostingFacts
  <2>2. UNCHANGED <<posts, frames>> /\ msg_queue' = Append(msg_queue, posting[t])
        /\ posting[t] \in Message
    BY <1>7 DEF OnMessage, BridgeInv, TypeOK
  <2>3. Len(msg_queue') = n + 1
    BY <1>1, <2>2, AppendProperties
  <2>4. Len(msg_queue') + Cardinality(Posting') <= posts'
    <3> HIDE DEF c, n
    <3>1. QED
      BY <1>1, <2>1, <2>2, <2>3
  <2>5. QED
    BY <1>1, <2>1, <2>2, <2>4 DEF QueueInv, Top
<1>8. ASSUME NEW api \in Apis, NEW f \in Handlers, SetHandler(api, f) PROVE QueueInv'
  BY <1>4, <1>5, <1>8 DEF SetHandler
<1>9. ASSUME NEW api \in Apis, NEW clearing \in BOOLEAN, Drain(api, clearing), frames = <<>>
      PROVE  QueueInv'
  <2>1. UNCHANGED <<posting, posts>> /\ msg_queue' = <<>>
    BY <1>9 DEF Drain, TakeQueue
  <2> DEFINE count == Smaller(Len(msg_queue), MaxMessages)
             f == [api |-> api, count |-> count, gen |-> lua_queue.gen + 1, i |-> 1,
                   at |-> IF count = 0 THEN "done" ELSE "loop",
                   clearing |-> clearing, reentered |-> FALSE]
  <2>2. frames' = <<>> \/ frames' = <<f>>
    <3>1. Reentered = <<>>
      BY <1>9 DEF Reentered
    <3>2. frames' = Reentered \/ frames' = Append(Reentered, f)
      BY <1>9 DEF Drain
    <3> HIDE DEF f
    <3>3. QED
      BY <3>1, <3>2
  <2>3. f.at \in {"done", "finalize"} => f.i = f.count + 1
    <3> HIDE DEF count
    <3>1. QED
      OBVIOUS
  <2> HIDE DEF f
  <2>4. QED
    BY <1>4, <2>1, <2>2, <2>3
<1>10. ASSUME NEW api \in Apis, DrainNotifications(api) \/ ClearHandler(api) PROVE QueueInv'
  BY <1>9, <1>10, QuietDrain DEF DrainNotifications, ClearHandler
<1>11. CASE CallHandler \/ SkipHandler \/ HandlerReturn
  <2>1. UNCHANGED <<posting, posts, msg_queue>> /\ frames # <<>>
    BY <1>11 DEF CallHandler, SkipHandler, HandlerReturn, Looping, In
  <2>2. \E f1 : frames' = <<f1>> /\ f1.at \notin {"done", "finalize"}
    <3>1. Top \in Frame /\ \A f1 : WithTop(f1) = <<f1>>
      BY <1>3, <2>1
    <3>2. CASE CallHandler
      BY <3>1, <3>2 DEF CallHandler, Frame
    <3>3. CASE SkipHandler
      BY <3>1, <3>3 DEF SkipHandler, Looping, In, Frame
    <3>4. CASE HandlerReturn
      <4> DEFINE f == [Top EXCEPT !.at = "loop", !.i = @ + 1]
      <4>1. frames' = <<f>>
        BY <3>1, <3>4 DEF HandlerReturn
      <4>2. f.at = "loop"
        BY <3>1 DEF Frame
      <4> HIDE DEF f
      <4>3. QED
        BY <4>1, <4>2
    <3>5. QED
      BY <1>11, <3>2, <3>3, <3>4
  <2>3. QED
    BY <1>4, <2>1, <2>2
<1>12. CASE DrainEnd
  <2>1. /\ UNCHANGED <<posting, posts, msg_queue>> /\ frames # <<>> /\ Top.i > Top.count
        /\ frames' = Front(frames) \/ frames' = WithTop([Top EXCEPT !.at = "done"])
    BY <1>12 DEF DrainEnd, Looping, In
  <2>2. Top.i = Top.count + 1
    BY <1>3, <2>1
  <2>3. CASE frames' = Front(frames)
    BY <1>3, <1>4, <2>1, <2>3
  <2>4. CASE frames' = WithTop([Top EXCEPT !.at = "done"])
    <3> DEFINE f == [Top EXCEPT !.at = "done"]
    <3>1. frames' = <<f>>
      BY <1>3, <2>1, <2>4
    <3>2. f.i = f.count + 1
      BY <1>3, <2>1, <2>2 DEF Frame
    <3> HIDE DEF f
    <3>3. QED
      BY <1>4, <2>1, <3>1, <3>2
  <2>5. QED
    BY <2>1, <2>3, <2>4
<1>13. CASE FinalizeBridge
  <2> DEFINE f == [Top EXCEPT !.at = "finalize"]
  <2>1. /\ UNCHANGED <<posting, posts, msg_queue>> /\ frames # <<>> /\ Top.at = "done"
        /\ frames' = WithTop(f)
    BY <1>13 DEF FinalizeBridge, In
  <2>2. frames' = <<f>>
    BY <1>3, <2>1
  <2>3. f.i = f.count + 1
    BY <1>1, <1>3, <2>1 DEF Frame
  <2> HIDE DEF f
  <2>4. QED
    BY <1>4, <2>1, <2>2, <2>3
<1>14. CASE FinalizeEnd
  BY <1>3, <1>4, <1>14 DEF FinalizeEnd, In
<1>15. CASE UNCHANGED vars
  BY <1>4, <1>5, <1>15 DEF vars
<1>16. QED
  BY <1>6, <1>7, <1>8, <1>10, <1>11, <1>12, <1>13, <1>14, <1>15 DEF Next

-----------------------------------------------------------------------------
\* Where the one drain is in what it took.
Reached == IF Top.at = "handler" THEN Top.i + 1 ELSE Top.i

\* What it has still to hand over: the messages from there on.
RestKnown ==
  /\ Rest \in Seq(Message)
  /\ frames = <<>> => Rest = <<>>
  /\ frames # <<>> => Reached \in Nat /\ Reached >= 1 /\ Reached <= Top.count + 1
  /\ frames # <<>> /\ Reached > Top.count => Rest = <<>>
  /\ frames # <<>> /\ Reached <= Top.count =>
       /\ Len(Rest) = Top.count - Reached + 1
       /\ \A k \in 1..(Top.count - Reached + 1) : Rest[k] = lua_queue.msgs[Reached + k - 1]

\* The invariants say so.
LEMMA RestFacts == OneQuietApi /\ BridgeInv /\ QueueInv => RestKnown
<1> SUFFICES ASSUME OneQuietApi, BridgeInv, QueueInv PROVE RestKnown
  OBVIOUS
<1> USE DEF RestKnown
<1>1. CASE frames = <<>>
  BY <1>1, EmptySeq DEF Rest
<1>2. CASE frames # <<>>
  <2> DEFINE msgs == lua_queue.msgs
             c == Top.count
             r == Reached
             s == SubSeq(msgs, r, c)
  <2>1. /\ Top \in Frame /\ Top.i \in Nat /\ c \in Nat /\ Top.i >= 1 /\ Top.i <= c + 1
        /\ Holds(Top) => Top.gen = lua_queue.gen /\ c <= Len(msgs)
        /\ Top.at = "handler" => Top.i <= c
    BY <1>2, OneFrame
  <2>2. r \in Nat /\ r >= 1 /\ r <= c + 1
    BY <2>1 DEF Reached
  <2>3. Rest = s
    BY <1>2 DEF Rest, Reached
  <2>4. ASSUME r > c PROVE s = <<>>
    <3> HIDE DEF r, c, msgs
    <3>1. QED
      BY <2>1, <2>2, <2>4, SubSeqEmpty
  <2>5. ASSUME r <= c
        PROVE  /\ s \in Seq(Message) /\ Len(s) = c - r + 1
               /\ \A k \in 1..(c - r + 1) : s[k] = msgs[r + k - 1]
    <3>1. Top.at \notin {"done", "finalize"}
      BY <1>2, <2>1, <2>5 DEF QueueInv, Reached
    <3>2. c <= Len(msgs) /\ msgs \in Seq(Message)
      BY <2>1, <3>1 DEF Holds, Frame, BridgeInv, TypeOK
    <3> HIDE DEF r, c, msgs
    <3>3. \A k \in r..c : msgs[k] \in Message
      BY <2>1, <2>2, <3>2, ElementOfSeq, LenProperties
    <3>4. QED
      BY <2>1, <2>2, <2>5, <3>3, SubSeqProperties
  <2>6. r > c \/ r <= c
    <3> HIDE DEF r, c
    <3>1. QED
      BY <2>1, <2>2
  <2>7. s \in Seq(Message)
    BY <2>4, <2>5, <2>6, EmptySeq
  <2>8. QED
    BY <1>2, <2>2, <2>3, <2>4, <2>5, <2>7
<1>3. QED
  BY <1>1, <1>2

\* Taking the head of a sequence takes it of what goes on behind it, too.
LEMMA HeadOfConcat ==
  ASSUME NEW S, NEW s \in Seq(S), NEW t \in Seq(S), s # <<>>
  PROVE  s \o t # <<>> /\ Head(s \o t) = Head(s) /\ Tail(s \o t) = Tail(s) \o t
<1> DEFINE u == s \o t
           v == Tail(s) \o t
<1>1. Len(s) \in Nat /\ Len(t) \in Nat /\ Len(s) >= 1
  BY LenProperties, EmptySeq
<1>2. /\ u \in Seq(S) /\ Len(u) = Len(s) + Len(t)
      /\ \A k \in 1..(Len(s) + Len(t)) : u[k] = IF k <= Len(s) THEN s[k] ELSE t[k - Len(s)]
  BY ConcatProperties
<1>3. /\ Tail(s) \in Seq(S) /\ Len(Tail(s)) = Len(s) - 1
      /\ \A k \in 1..(Len(s) - 1) : Tail(s)[k] = s[k + 1]
  BY HeadTailProperties
<1>4. /\ v \in Seq(S) /\ Len(v) = Len(s) - 1 + Len(t)
      /\ \A k \in 1..(Len(s) - 1 + Len(t)) :
           v[k] = IF k <= Len(s) - 1 THEN Tail(s)[k] ELSE t[k - (Len(s) - 1)]
  BY <1>3, ConcatProperties
<1> HIDE DEF u, v
<1>5. u # <<>> /\ Head(u) = Head(s)
  BY <1>1, <1>2
<1>6. /\ Tail(u) \in Seq(S) /\ Len(Tail(u)) = Len(u) - 1
      /\ \A k \in 1..(Len(u) - 1) : Tail(u)[k] = u[k + 1]
  BY <1>2, <1>5, HeadTailProperties
<1>7. \A k \in 1..(Len(s) - 1 + Len(t)) : Tail(u)[k] = v[k]
  <2> TAKE k \in 1..(Len(s) - 1 + Len(t))
  <2>1. k + 1 \in 1..(Len(s) + Len(t)) /\ k \in 1..(Len(u) - 1)
    BY <1>1, <1>2
  <2>2. Tail(u)[k] = IF k + 1 <= Len(s) THEN s[k + 1] ELSE t[(k + 1) - Len(s)]
    BY <1>2, <1>6, <2>1
  <2>3. CASE k <= Len(s) - 1
    <3>1. k + 1 <= Len(s) /\ k \in 1..(Len(s) - 1)
      BY <1>1, <2>3
    <3>2. v[k] = Tail(s)[k]
      BY <1>4, <2>3
    <3>3. QED
      BY <1>3, <2>2, <3>1, <3>2
  <2>4. CASE ~(k <= Len(s) - 1)
    <3>1. ~(k + 1 <= Len(s)) /\ (k + 1) - Len(s) = k - (Len(s) - 1)
      BY <1>1, <2>4
    <3>2. QED
      BY <1>4, <2>2, <2>4, <3>1
  <2>5. QED
    BY <2>3, <2>4
<1>8. Tail(u) = v
  BY <1>1, <1>2, <1>4, <1>6, <1>7, SeqEqual
<1>9. QED
  BY <1>5, <1>8 DEF u, v

\* One iteration of the drain takes the head of what is pending.
LEMMA IterationStep ==
  ASSUME OneQuietApi, BridgeInv, QueueInv, BridgeInv', QueueInv',
         frames # <<>>, Top.at = "loop", Top.i <= Top.count,
         UNCHANGED <<msg_queue, lua_queue>>,
         frames' # <<>>, Reached' = Top.i + 1, Top'.count = Top.count
  PROVE  /\ Pending # <<>> /\ Head(Pending) = Read /\ Pending' = Tail(Pending)
<1> DEFINE c == Top.count
           j == Top.i
           msgs == lua_queue.msgs
<1>1. Top.gen = lua_queue.gen /\ j \in Nat /\ c \in Nat /\ j >= 1 /\ j <= c /\ Reached = j
  BY OneFrame DEF Holds, Reached
<1>2. /\ Rest \in Seq(Message) /\ Len(Rest) = c - j + 1
      /\ \A k \in 1..(c - j + 1) : Rest[k] = msgs[j + k - 1]
  BY <1>1, RestFacts DEF RestKnown
<1>3. /\ Rest' \in Seq(Message)
      /\ j + 1 > c => Rest' = <<>>
      /\ j + 1 <= c => /\ Len(Rest') = c - (j + 1) + 1
                       /\ \A k \in 1..(c - (j + 1) + 1) : Rest'[k] = msgs[(j + 1) + k - 1]
  <2>1. OneQuietApi'
    BY DEF OneQuietApi
  <2>2. RestKnown'
    BY <2>1, RestFacts, PTL
  <2>3. lua_queue'.msgs = msgs
    OBVIOUS
  <2>4. QED
    BY <1>1, <2>2, <2>3 DEF RestKnown
<1> HIDE DEF c, j, msgs
<1>4. Rest # <<>> /\ Head(Rest) = msgs[j]
  BY <1>1, <1>2
<1>5. Rest' = Tail(Rest)
  <2>1. /\ Tail(Rest) \in Seq(Message) /\ Len(Tail(Rest)) = c - j
        /\ \A k \in 1..(c - j) : Tail(Rest)[k] = Rest[k + 1]
    <3>1. /\ Tail(Rest) \in Seq(Message) /\ Len(Tail(Rest)) = Len(Rest) - 1
          /\ \A k \in 1..Len(Tail(Rest)) : Tail(Rest)[k] = Rest[k + 1]
      BY <1>2, <1>4, HeadTailProperties
    <3>2. Len(Rest) - 1 = c - j
      BY <1>1, <1>2
    <3>3. QED
      BY <3>1, <3>2
  <2>2. Len(Rest') = c - j
    <3>1. CASE j + 1 > c
      BY <1>1, <1>3, <3>1, EmptySeq
    <3>2. CASE j + 1 <= c
      BY <1>1, <1>3, <3>2
    <3>3. QED
      BY <1>1, <3>1, <3>2
  <2>3. ASSUME NEW k \in 1..(c - j) PROVE Rest'[k] = Tail(Rest)[k]
    <3>1. /\ j + 1 <= c /\ k \in 1..(c - (j + 1) + 1) /\ k + 1 \in 1..(c - j + 1)
          /\ (j + 1) + k - 1 = j + (k + 1) - 1
      BY <1>1
    <3>2. Rest'[k] = msgs[(j + 1) + k - 1]
      BY <1>3, <3>1
    <3>3. Rest[k + 1] = msgs[j + (k + 1) - 1]
      BY <1>2, <3>1
    <3>4. QED
      BY <2>1, <3>1, <3>2, <3>3
  <2>4. QED
    BY <1>3, <2>1, <2>2, <2>3, SeqEqual
<1>6. Read = msgs[j]
  BY <1>1 DEF Read, msgs, j
<1>7. msg_queue \in Seq(Message)
  BY DEF BridgeInv, TypeOK
<1>8. QED
  BY <1>2, <1>4, <1>5, <1>6, <1>7, HeadOfConcat DEF Pending

\* Every step of the bridge is a step of the channel or leaves it unchanged.
LEMMA ChannelStep ==
  ASSUME OneQuietApi, BridgeInv, QueueInv, BridgeInv', QueueInv', [Next]_vars
  PROVE  [Channel!Next]_(Channel!channel)
<1> DEFINE q == msg_queue
<1>1. /\ Rest \in Seq(Message) /\ Rest' \in Seq(Message)
      /\ q \in Seq(Message) /\ q' \in Seq(Message)
      /\ frames = <<>> => Rest = <<>>
      /\ frames' = <<>> => Rest' = <<>>
  <2>1. OneQuietApi'
    BY DEF OneQuietApi
  <2>2. RestKnown /\ RestKnown'
    BY <2>1, RestFacts, PTL
  <2>3. QED
    BY <2>2 DEF RestKnown, BridgeInv, TypeOK
<1>2. frames # <<>> => /\ frames = <<Top>> /\ Front(frames) = <<>> /\ Top \in Frame
                       /\ \A f : WithTop(f) = <<f>>
                       /\ Top.i \in Nat /\ Top.count \in Nat /\ Top.i <= Top.count + 1
                       /\ Top.at = "handler" => Top.i <= Top.count
  BY OneFrame
<1>3. PICK api : Apis = {api}
  BY DEF OneQuietApi
<1>4. /\ TheHandler = IF In("finalize") THEN Nil ELSE handler[api]
      /\ TheHandler' = IF In("finalize")' THEN Nil ELSE handler'[api]
  <2>1. (CHOOSE a \in Apis : TRUE) = api
    BY <1>3
  <2>2. TheHandler = IF In("finalize") THEN Nil ELSE handler[api]
    BY <1>3, <2>1, Zenon DEF TheHandler
  <2>3. TheHandler' = IF In("finalize")' THEN Nil ELSE handler'[api]
    BY <1>3, <2>1, Zenon DEF TheHandler
  <2>4. QED
    BY <2>2, <2>3
<1>5. \A f : frames' = <<f>> => Top' = f /\ frames' # <<>>
  BY TopOf
<1>6. ASSUME UNCHANGED <<frames, lua_queue>>
      PROVE  Rest' = Rest /\ (In("finalize")' <=> In("finalize"))
  BY <1>6 DEF Rest, In, Top
<1>7. CASE UNCHANGED vars
  BY <1>4, <1>6, <1>7 DEF vars, Pending, Channel!channel
<1>8. ASSUME NEW t \in Threads, NEW m \in Message, Notify(t, m)
      PROVE  [Channel!Next]_(Channel!channel)
  BY <1>4, <1>6, <1>8 DEF Notify, Pending, Channel!channel
<1>9. ASSUME NEW t \in Threads, OnMessage(t) PROVE [Channel!Next]_(Channel!channel)
  <2> DEFINE m == posting[t]
  <2>1. m \in Message /\ q' = Append(q, m) /\ Rest' = Rest /\ delivered' = delivered
        /\ TheHandler' = TheHandler
    BY <1>4, <1>6, <1>9 DEF OnMessage, BridgeInv, TypeOK
  <2> HIDE DEF m
  <2>2. Rest \o Append(q, m) = Append(Rest \o q, m)
    <3>1. Append(q, m) = q \o <<m>> /\ <<m>> \in Seq(Message)
      BY <1>1, <2>1, AppendIsConcat
    <3>2. Rest \o q \in Seq(Message)
      BY <1>1, ConcatProperties
    <3>3. Append(Rest \o q, m) = (Rest \o q) \o <<m>>
      BY <2>1, <3>2, AppendIsConcat
    <3>4. QED
      BY <1>1, <3>1, <3>3, ConcatAssociative
  <2>3. Channel!Post(m)
    BY <2>1, <2>2 DEF Channel!Post, Pending
  <2>4. QED
    BY <2>1, <2>3 DEF Channel!Next
<1>10. ASSUME NEW a \in Apis, NEW f \in Handlers, SetHandler(a, f)
       PROVE  [Channel!Next]_(Channel!channel)
  <2>1. ~In("finalize") /\ a = api
    BY <1>3, <1>10 DEF SetHandler, InLua, In
  <2>2. TheHandler' = f /\ Rest' = Rest /\ q' = q /\ delivered' = delivered
    BY <1>3, <1>4, <1>6, <1>10, <2>1 DEF SetHandler, BridgeInv, TypeOK
  <2>3. Channel!Register(f)
    BY <2>2 DEF Channel!Register, Pending
  <2>4. QED
    BY <2>3 DEF Channel!Next
<1>11. ASSUME NEW a \in Apis, NEW clearing \in BOOLEAN, Drain(a, clearing), frames = <<>>
       PROVE  [Channel!Next]_(Channel!channel)
  <2> DEFINE count == Smaller(Len(q), MaxMessages)
             f == [api |-> a, count |-> count, gen |-> lua_queue.gen + 1, i |-> 1,
                   at |-> IF count = 0 THEN "done" ELSE "loop",
                   clearing |-> clearing, reentered |-> FALSE]
  <2>1. /\ lua_queue' = [gen |-> lua_queue.gen + 1, msgs |-> q] /\ q' = <<>>
        /\ UNCHANGED <<handler, delivered>>
        /\ frames' = IF count = 0 /\ ~clearing THEN <<>> ELSE <<f>>
    <3>1. Reentered = <<>>
      BY <1>11 DEF Reentered
    <3>2. frames' = IF count = 0 /\ ~clearing THEN Reentered ELSE Append(Reentered, f)
      BY <1>11 DEF Drain
    <3>3. Append(<<>>, f) = <<f>>
      <4> HIDE DEF f
      <4>1. QED
        OBVIOUS
    <3>4. QED
      BY <1>11, <3>1, <3>2, <3>3 DEF Drain, TakeQueue
  <2>2. count = Len(q)
    <3>1. Cardinality(Posting) \in Nat
      BY PostingFacts
    <3>2. /\ Len(q) \in Nat /\ Len(q) + Cardinality(Posting) <= posts /\ posts \in 0..MaxPosts
          /\ MaxPosts <= MaxMessages
      BY <1>1, LenProperties DEF QueueInv, BridgeInv, TypeOK, OneQuietApi
    <3>3. Len(q) <= MaxMessages
      BY <3>1, <3>2
    <3>4. QED
      BY <3>2, <3>3 DEF Smaller
  <2>3. Rest' = q
    <3>1. CASE count = 0 /\ ~clearing
      BY <1>1, <2>1, <2>2, <3>1, EmptySeq
    <3>2. CASE ~(count = 0 /\ ~clearing)
      <4>1. Top' = f /\ frames' # <<>>
        BY <1>5, <2>1, <3>2
      <4>2. f.i = 1 /\ f.count = Len(q) /\ f.at # "handler"
        BY <2>2
      <4> HIDE DEF f
      <4>3. Rest' = SubSeq(q, 1, Len(q))
        BY <2>1, <4>1, <4>2 DEF Rest
      <4>4. QED
        BY <1>1, <4>3, SubSeqFull
    <3>3. QED
      BY <3>1, <3>2
  <2>4. ~In("finalize") /\ ~In("finalize")'
    <3>1. f.at # "finalize"
      <4> HIDE DEF count
      <4>1. QED
        OBVIOUS
    <3> HIDE DEF f
    <3>2. QED
      BY <1>5, <1>11, <2>1, <3>1 DEF In
  <2>5. Pending' = Pending
    BY <1>1, <1>11, <2>1, <2>3, ConcatEmptySeq DEF Pending
  <2>6. QED
    BY <1>4, <2>1, <2>4, <2>5 DEF Channel!channel
<1>12. ASSUME NEW a \in Apis, DrainNotifications(a) \/ ClearHandler(a)
       PROVE  [Channel!Next]_(Channel!channel)
  BY <1>11, <1>12, QuietDrain DEF DrainNotifications, ClearHandler
<1>13. CASE CallHandler
  <2> DEFINE f == [Top EXCEPT !.at = "handler"]
  <2>1. /\ frames # <<>> /\ Top.at = "loop" /\ Top.i <= Top.count /\ handler[Top.api] # Nil
        /\ delivered' = Append(delivered, [to |-> handler[Top.api], what |-> Read])
        /\ frames' = <<f>> /\ UNCHANGED <<msg_queue, lua_queue, handler>>
    BY <1>2, <1>13 DEF CallHandler, Looping, In
  <2>2. f.at = "handler" /\ f.i = Top.i /\ f.count = Top.count /\ Top.api = api
    BY <1>2, <1>3, <2>1 DEF Frame
  <2> HIDE DEF f
  <2>3. Top' = f /\ frames' # <<>>
    BY <1>5, <2>1
  <2>4. Reached' = Top.i + 1 /\ Top'.count = Top.count
    BY <2>2, <2>3 DEF Reached
  <2>5. Pending # <<>> /\ Head(Pending) = Read /\ Pending' = Tail(Pending)
    BY <2>1, <2>3, <2>4, IterationStep
  <2>6. TheHandler = handler[api] /\ TheHandler' = TheHandler
    BY <1>4, <2>1, <2>2, <2>3 DEF In
  <2>7. Channel!Deliver
    BY <2>1, <2>2, <2>5, <2>6 DEF Channel!Deliver
  <2>8. QED
    BY <2>7 DEF Channel!Next
<1>14. CASE SkipHandler
  <2> DEFINE f == [Top EXCEPT !.i = @ + 1]
  <2>1. /\ frames # <<>> /\ Top.at = "loop" /\ Top.i <= Top.count /\ handler[Top.api] = Nil
        /\ frames' = <<f>> /\ UNCHANGED <<msg_queue, lua_queue, handler, delivered>>
    BY <1>2, <1>14 DEF SkipHandler, Looping, In
  <2>2. f.at = "loop" /\ f.i = Top.i + 1 /\ f.count = Top.count /\ Top.api = api
    BY <1>2, <1>3, <2>1 DEF Frame
  <2> HIDE DEF f
  <2>3. Top' = f /\ frames' # <<>>
    BY <1>5, <2>1
  <2>4. Reached' = Top.i + 1 /\ Top'.count = Top.count
    BY <2>2, <2>3 DEF Reached
  <2>5. Pending # <<>> /\ Pending' = Tail(Pending)
    BY <2>1, <2>3, <2>4, IterationStep
  <2>6. TheHandler = Nil /\ TheHandler' = TheHandler
    BY <1>4, <2>1, <2>2, <2>3 DEF In
  <2>7. Channel!DiscardHead
    BY <2>1, <2>5, <2>6 DEF Channel!DiscardHead
  <2>8. QED
    BY <2>7 DEF Channel!Next
<1>15. CASE HandlerReturn
  <2> DEFINE f == [Top EXCEPT !.at = "loop", !.i = @ + 1]
  <2>1. /\ frames # <<>> /\ Top.at = "handler" /\ frames' = <<f>>
        /\ UNCHANGED <<msg_queue, lua_queue, handler, delivered>>
    BY <1>2, <1>15 DEF HandlerReturn, In
  <2>2. f.at = "loop" /\ f.i = Top.i + 1 /\ f.count = Top.count
    BY <1>2, <2>1 DEF Frame
  <2> HIDE DEF f
  <2>3. Top' = f /\ frames' # <<>>
    BY <1>5, <2>1
  <2>4. Rest' = Rest
    BY <2>1, <2>2, <2>3 DEF Rest
  <2>5. TheHandler' = TheHandler
    BY <1>4, <2>1, <2>2, <2>3 DEF In
  <2>6. QED
    BY <2>1, <2>4, <2>5 DEF Pending, Channel!channel
<1>16. CASE DrainEnd
  <2> DEFINE f == [Top EXCEPT !.at = "done"]
  <2>1. /\ frames # <<>> /\ Top.at = "loop" /\ Top.i > Top.count
        /\ frames' = <<>> \/ frames' = <<f>>
        /\ UNCHANGED <<msg_queue, lua_queue, handler, delivered>>
    BY <1>2, <1>16 DEF DrainEnd, Looping, In
  <2>2. f.at = "done" /\ f.i = Top.i /\ f.count = Top.count
    BY <1>2, <2>1 DEF Frame
  <2> HIDE DEF f
  <2>3. Rest = <<>>
    BY <2>1, RestFacts DEF RestKnown, Reached
  <2>4. Rest' = Rest /\ ~In("finalize")'
    <3>1. CASE frames' = <<>>
      BY <1>1, <2>3, <3>1 DEF In
    <3>2. CASE frames' = <<f>>
      BY <1>5, <2>1, <2>2, <3>2 DEF Rest, In
    <3>3. QED
      BY <2>1, <3>1, <3>2
  <2>5. TheHandler' = TheHandler
    BY <1>4, <2>1, <2>4 DEF In
  <2>6. QED
    BY <2>1, <2>4, <2>5 DEF Pending, Channel!channel
<1>17. CASE FinalizeBridge
  <2> DEFINE f == [Top EXCEPT !.at = "finalize"]
  <2>1. /\ frames # <<>> /\ Top.at = "done" /\ frames' = <<f>>
        /\ UNCHANGED <<msg_queue, delivered>>
    BY <1>2, <1>17 DEF FinalizeBridge, In
  <2>2. f.at = "finalize" /\ f.i = Top.i /\ f.count = Top.count
    BY <1>2, <2>1 DEF Frame
  <2> HIDE DEF f
  <2>3. Top' = f /\ frames' # <<>>
    BY <1>5, <2>1
  <2>4. Top.i > Top.count
    BY <1>2, <2>1 DEF QueueInv
  <2>5. Rest = <<>> /\ Rest' = <<>>
    <3>1. OneQuietApi'
      BY DEF OneQuietApi
    <3>2. RestKnown /\ RestKnown'
      BY <3>1, RestFacts, PTL
    <3>3. Reached = Top.i /\ Reached' = Top.i /\ Top'.count = Top.count
      BY <2>1, <2>2, <2>3 DEF Reached
    <3>4. QED
      BY <2>1, <2>3, <2>4, <3>2, <3>3 DEF RestKnown
  <2>6. TheHandler' = Nil
    BY <1>4, <2>2, <2>3 DEF In
  <2>7. Channel!Register(Nil)
    BY <2>1, <2>5, <2>6 DEF Channel!Register, Pending
  <2>8. QED
    BY <2>7 DEF Channel!Next
<1>18. CASE FinalizeEnd
  <2>1. /\ frames # <<>> /\ Top.at = "finalize" /\ frames' = <<>> /\ q' = <<>>
        /\ handler' = [handler EXCEPT ![Top.api] = Nil] /\ delivered' = delivered
    BY <1>2, <1>18 DEF FinalizeEnd, In
  <2>2. Top.api = api /\ handler \in [Apis -> Handlers \union {Nil}]
    BY <1>2, <1>3, <2>1 DEF Frame, BridgeInv, TypeOK
  <2>3. TheHandler = Nil /\ TheHandler' = Nil
    BY <1>3, <1>4, <2>1, <2>2 DEF In
  <2>4. Pending' = <<>>
    BY <1>1, <2>1, ConcatEmptySeq DEF Pending
  <2>5. Channel!DiscardAll
    BY <2>1, <2>3, <2>4 DEF Channel!DiscardAll
  <2>6. QED
    BY <2>5 DEF Channel!Next
<1>19. QED
  BY <1>7, <1>8, <1>9, <1>10, <1>12, <1>13, <1>14, <1>15, <1>16, <1>17, <1>18 DEF Next

\* With one object, handlers that neither drain nor unregister, and no more notifications
\* than one drain takes, the bridge is the FIFO channel that the native module is: in
\* order, at most once, to the handler registered at that moment.
THEOREM BridgeIsChannel ==
  ASSUME HandlerCalls \subseteq {"set", "emit"}, \E api : Apis = {api}, MaxPosts <= MaxMessages
  PROVE  Spec => IsChannel
<1>1. OneQuietApi
  BY DEF OneQuietApi
<1>2. Init => QueueInv
  <2> SUFFICES ASSUME Init PROVE QueueInv
    OBVIOUS
  <2>1. Posting = {} /\ msg_queue = <<>> /\ frames = <<>> /\ posts = 0
    BY DEF Init, Posting
  <2>2. QED
    BY <2>1, FS_EmptySet, EmptySeq DEF QueueInv
<1>3. BridgeInv /\ QueueInv /\ [Next]_vars => QueueInv'
  BY <1>1, StepQueue
<1>4. Init => Channel!Init
  <2> SUFFICES ASSUME Init PROVE Channel!Init
    OBVIOUS
  <2>1. PICK api : Apis = {api}
    OBVIOUS
  <2>2. (CHOOSE a \in Apis : TRUE) \in Apis
    BY <2>1
  <2>3. TheHandler = Nil
    BY <2>2 DEF Init, TheHandler
  <2>4. Pending = <<>>
    BY DEF Init, Pending, Rest
  <2>5. QED
    BY <2>3, <2>4 DEF Init, Channel!Init
<1>5. BridgeInv /\ QueueInv /\ BridgeInv' /\ QueueInv' /\ [Next]_vars
        => [Channel!Next]_(Channel!channel)
  BY <1>1, ChannelStep
<1>6. QED
  BY <1>2, <1>3, <1>4, <1>5, BridgeInvariant, PTL DEF Spec, IsChannel, Channel!Spec
===============================================================================
