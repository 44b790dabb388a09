---------------------------- MODULE StylesProofs -----------------------------
(***************************************************************************)
(* Proofs about TimerStyles, for every number of connections, of rounds and  *)
(* of failing waits, for the three programs and every kind of io_context;    *)
(* and, as an instance, about PostStyles, the same styles on asio::post.     *)
(***************************************************************************)
EXTENDS TimerStyles, PostStylesState, QueueProofs

Packet == [tag : {"wait", "stop"}, id : Actor]

(* The types a handler of the io_context touches. *)
IoTypes ==
  /\ kind \in Kinds /\ style \in Styles
  /\ queue \in Seq(Packet) /\ stopped \in BOOLEAN
  /\ main \in {"start", "poll", "one", "run", "returned"}
  /\ ec \in [Actor -> BOOLEAN] /\ errors \in Nat
  /\ pending \in SUBSET Actor /\ accepting \in BOOLEAN

(* The types of the acceptor's counter and of the connections. *)
ConnTypes ==
  /\ next \in 0..(N + 1)
  /\ conn \in [Session -> {"new", "open", "over"}]
  /\ at \in [Session -> {"connect", "read", "write"}]
  /\ i \in [Session -> Nat]
  /\ progress \in [Session -> Nat]

(* The types of the variables. *)
TypeOK == IoTypes /\ ConnTypes

(* The connections are created in order, and the acceptor lets go only when    *)
(* all are created or its wait failed.                                         *)
Accepted ==
  /\ \A s \in Session : conn[s] = "new" <=> s >= Id
  /\ accepting \/ ec[0] \/ Id > N

(* The variables a handler decides by say exactly how much of a connection's   *)
(* result is there: i in the callback style, the resumption point and the loop  *)
(* counter in the others.                                                       *)
Reached(s) ==
  IF style = "callback"
  THEN i[s] <= Rounds + 1 /\ progress[s] = i[s]
  ELSE /\ at[s] = "connect" => i[s] = 0 /\ progress[s] = 0
       /\ at[s] = "read"    => i[s] < Rounds /\ progress[s] = i[s] + 1
       /\ at[s] = "write"   => i[s] = Rounds /\ progress[s] = Rounds + 1

Position(s) ==
  /\ conn[s] = "new"  => at[s] = "connect" /\ i[s] = 0 /\ progress[s] = 0
  /\ conn[s] = "open" => Reached(s)
  /\ conn[s] = "over" => \/ progress[s] = Rounds + 2
                         \/ ec[s] /\ progress[s] < Rounds + 2

(* A program that has returned has let every object go, and the stop packet is *)
(* in the queue only of a stopped context.                                      *)
Returned ==
  /\ main = "returned" => Alive = {}
  /\ Never(queue, StopPacket) \/ (stopped /\ kind = "iocp")

(* The inductive invariant. *)
IInv ==
  /\ TypeOK
  /\ OneHandler
  /\ StopsWhenOver
  /\ Accepted
  /\ \A s \in Session : Position(s)
  /\ Returned

(* When the program returns, each result is complete, unless a wait of its     *)
(* connection failed, or accepting failed before it: test.cpp's REQUIREs.      *)
Served ==
  main = "returned" =>
    \A s \in Session :
      progress[s] = Rounds + 2 \/ ec[s] \/ (conn[s] = "new" /\ ec[0])

------------------------------------------------------------------------------
(* The handlers in the queue are told apart by the id. *)
LEMMA Packets ==
  /\ StopPacket \in Packet
  /\ \A c \in Actor : Done(c) \in Packet /\ Done(c) # StopPacket
  /\ \A c, d \in Actor : Done(c) = Done(d) => c = d
<1>1. 0 \in Actor
  BY StylesAssumption DEF Actor
<1>2. \A c : Done(c).id = c /\ Done(c).tag = "wait" /\ StopPacket.tag = "stop"
  BY DEF Done, StopPacket
<1>3. StopPacket \in Packet /\ \A c \in Actor : Done(c) \in Packet
  BY <1>1 DEF Done, StopPacket, Packet
<1>4. QED
  BY <1>2, <1>3

(* The acceptor and the connections. *)
LEMMA Ids ==
  /\ 0 \in Actor /\ 0 \notin Session
  /\ Actor = Session \cup {0}
  /\ Session \subseteq Nat
  /\ N \in Nat \ {0} /\ Rounds \in Nat \ {0} /\ MaxErrors \in Nat
BY StylesAssumption DEF Actor, Session

(* A handler that runs leaves a queue, and a flag, of the right type. *)
LEMMA HandlesType ==
  ASSUME TypeOK, NEW c \in Actor, NEW ops, NEW waiting \in BOOLEAN,
         Handles(c, ops, waiting)
  PROVE  /\ Tail(queue) \in Seq(Packet)
         /\ queue' \in Seq(Packet) /\ stopped' \in BOOLEAN
         /\ main' \in {"start", "poll", "one", "run"}
         /\ pending' = ops /\ accepting' = waiting
         /\ UNCHANGED <<kind, style, ec, errors>>
<1>1. queue # <<>> /\ queue \in Seq(Packet) /\ stopped \in BOOLEAN
  BY DEF TypeOK, IoTypes, ConnTypes, Handles, CanDispatch
<1>2. Tail(queue) \in Seq(Packet)
  BY <1>1, HeadTailProperties
<1>3. queue' \in Seq(Packet) /\ stopped' \in BOOLEAN
  BY <1>1, <1>2, Packets, StopKeeps DEF Handles, HandlerLeaves
<1>4. QED
  BY <1>2, <1>3 DEF Handles, AfterOne

LEMMA HandlesIo ==
  ASSUME TypeOK, NEW c \in Actor, NEW ops \in SUBSET Actor, NEW waiting \in BOOLEAN,
         Handles(c, ops, waiting)
  PROVE  IoTypes'
<1>1. kind' \in Kinds /\ style' \in Styles /\ ec' \in [Actor -> BOOLEAN] /\ errors' \in Nat
  BY DEF TypeOK, IoTypes, ConnTypes, Handles
<1>2. QED
  BY <1>1, HandlesType DEF IoTypes

(* Every step keeps the types. *)
LEMMA TypeStep == TypeOK /\ [Next]_vars => TypeOK'
<1> SUFFICES ASSUME TypeOK, [Next]_vars PROVE TypeOK'
  OBVIOUS
<1>0. /\ next \in 0..(N + 1) /\ Id \in 1..(N + 1)
      /\ \A s \in Session : s + 1 \in 0..(N + 1) /\ s \in Actor
      /\ pending \in SUBSET Actor /\ accepting \in BOOLEAN
      /\ \A s \in Session : (s < N) \in BOOLEAN
  BY Ids DEF TypeOK, IoTypes, ConnTypes, Id, Session
<1>1. ASSUME NEW c \in Actor, NEW e \in BOOLEAN, CompleteWait(c, e)
      PROVE  TypeOK'
  BY <1>1, Packets, AppendProperties DEF CompleteWait, connVars, TypeOK, IoTypes, ConnTypes
<1>2. CASE CallRun
  BY <1>2, Packets, EnterRunKeeps DEF CallRun, connVars, TypeOK, IoTypes, ConnTypes
<1>3. CASE RunReturns
  BY <1>3, Packets, LeaveRunKeeps DEF RunReturns, connVars, TypeOK, IoTypes, ConnTypes, AfterOne
<1>c. ConnTypes
  BY DEF TypeOK, IoTypes, ConnTypes
<1>4. ASSUME NEW s \in Session, CallbackCreates(s) PROVE TypeOK'
  <2>1. IoTypes'
    BY <1>0, <1>4, Ids, HandlesIo DEF CallbackCreates
  <2>2. ConnTypes'
    BY <1>0, <1>4, <1>c DEF CallbackCreates, Opens, ConnTypes
  <2>3. QED
    BY <2>1, <2>2 DEF TypeOK
<1>5. CASE CallbackCloses
  <2>1. IoTypes'
    BY <1>0, <1>5, Ids, HandlesIo DEF CallbackCloses
  <2>2. ConnTypes'
    BY <1>0, <1>5, <1>c DEF CallbackCloses, connVars, ConnTypes
  <2>3. QED
    BY <2>1, <2>2 DEF TypeOK
<1>6. CASE SwitchEnters
  <2>1. IoTypes'
    BY <1>0, <1>6, Ids, HandlesIo DEF SwitchEnters
  <2>2. ConnTypes'
    BY <1>0, <1>6, <1>c, Ids DEF SwitchEnters, connVars, ConnTypes
  <2>3. QED
    BY <2>1, <2>2 DEF TypeOK
<1>7. ASSUME NEW s \in Session, LoopCreates(s) PROVE TypeOK'
  <2> DEFINE ops == pending \cup {s} \cup (IF s < N THEN {0} ELSE {})
  <2>1. Handles(0, ops, s < N) /\ ops \in SUBSET Actor
    BY <1>0, <1>7, Ids DEF LoopCreates
  <2> HIDE DEF ops
  <2>2. IoTypes'
    BY <1>0, <2>1, Ids, HandlesIo
  <2>3. ConnTypes'
    BY <1>0, <1>7, <1>c DEF LoopCreates, Opens, ConnTypes
  <2>4. QED
    BY <2>2, <2>3 DEF TypeOK
<1>8. CASE LoopCloses
  <2>1. IoTypes'
    BY <1>0, <1>8, Ids, HandlesIo DEF LoopCloses
  <2>2. ConnTypes'
    BY <1>8, <1>c DEF LoopCloses, connVars, ConnTypes
  <2>3. QED
    BY <2>1, <2>2 DEF TypeOK
<1>9. ASSUME NEW s \in Session, NEW again \in BOOLEAN, Writes(s, again)
      PROVE  /\ IoTypes' /\ next' \in 0..(N + 1)
             /\ conn' \in [Session -> {"new", "open", "over"}]
             /\ progress' \in [Session -> Nat]
  <2>1. IoTypes'
    <3>1. ASSUME NEW ops \in SUBSET Actor, Handles(s, ops, accepting)
          PROVE  IoTypes'
      BY <1>0, <3>1, HandlesIo
    <3>2. (IF again THEN pending \cup {s} ELSE pending) \in SUBSET Actor
      BY <1>0
    <3>3. QED
      BY <1>9, <3>1, <3>2 DEF Writes
  <2>2. QED
    BY <1>9, <1>c, <2>1 DEF Writes, ConnTypes
<1>10. ASSUME NEW s \in Session, CallbackConnect(s) PROVE TypeOK'
  <2>1. (i[s] <= Rounds) \in BOOLEAN /\ Writes(s, i[s] <= Rounds)
    BY <1>10, Ids DEF CallbackConnect
  <2>2. i' \in [Session -> Nat] /\ at' \in [Session -> {"connect", "read", "write"}]
    BY <1>10, <1>c DEF CallbackConnect, ConnTypes
  <2>3. QED
    BY <1>9, <2>1, <2>2 DEF TypeOK, IoTypes, ConnTypes
<1>11. ASSUME NEW s \in Session, LoopConnect(s) \/ LoopRead(s) \/ LoopWrite(s)
       PROVE  TypeOK'
  <2>1. Writes(s, TRUE) \/ Writes(s, FALSE)
    BY <1>11 DEF LoopConnect, LoopRead, LoopWrite
  <2>2. i' \in [Session -> Nat]
    <3>1. i[s] + 1 \in Nat
      BY <1>c DEF ConnTypes
    <3>2. i' = i \/ i' = [i EXCEPT ![s] = i[s] + 1]
      BY <1>11 DEF LoopConnect, LoopRead, LoopWrite
    <3>3. QED
      BY <1>c, <3>1, <3>2 DEF ConnTypes
  <2>3. at' \in [Session -> {"connect", "read", "write"}]
    BY <1>11, <1>c DEF LoopConnect, LoopRead, LoopWrite, ConnTypes
  <2>4. QED
    BY <1>9, <2>1, <2>2, <2>3 DEF TypeOK, IoTypes, ConnTypes
<1>14. ASSUME NEW s \in Session, ConnectFails(s) PROVE TypeOK'
  <2>1. IoTypes'
    BY <1>0, <1>14, HandlesIo DEF ConnectFails
  <2>2. ConnTypes'
    BY <1>14, <1>c DEF ConnectFails, ConnTypes
  <2>3. QED
    BY <2>1, <2>2 DEF TypeOK
<1>15. CASE UNCHANGED vars
  BY <1>15 DEF vars, ioVars, connVars, TypeOK, IoTypes, ConnTypes
<1> HIDE DEF TypeOK
<1>16. QED
  BY <1>1, <1>2, <1>3, <1>4, <1>5, <1>6, <1>7, <1>8, <1>10, <1>11, <1>14, <1>15
  DEF Next, Program, Timers, Finished

LEMMA TypeInit == Init => TypeOK
<1> SUFFICES ASSUME Init PROVE TypeOK
  OBVIOUS
<1>1. IoTypes
  <2>1. main \in {"start", "poll"} /\ accepting \in BOOLEAN
    BY DEF Init
  <2>2. ec \in [Actor -> BOOLEAN] /\ errors \in Nat /\ pending \in SUBSET Actor
    BY Ids DEF Init, IoInit
  <2>3. stopped \in BOOLEAN /\ kind \in Kinds /\ style \in Styles
    BY DEF Init, IoInit
  <2>4. queue = <<>>
    BY DEF Init, IoInit
  <2>5. QED
    BY <2>1, <2>2, <2>3, <2>4 DEF IoTypes
<1>2. next \in 0..(N + 1)
  BY Ids DEF Init
<1>3. ConnTypes
  BY <1>2 DEF Init, ConnTypes
<1>4. QED
  BY <1>1, <1>3 DEF TypeOK

(* The variables keep their types. *)
THEOREM TypeCorrect == Spec => []TypeOK
<1>1. QED
  BY TypeInit, TypeStep, PTL DEF Spec

------------------------------------------------------------------------------
(* A sequence change that leaves x where it was. *)
Same(q, r, x) ==
  /\ Once(r, x) <=> Once(q, x)
  /\ Never(r, x) <=> Never(q, x)

(* What is alive has its wait or its handler; so what waits is alive. *)
LEMMA WaitsAlive ==
  ASSUME OneHandler, NEW c \in Actor
  PROVE  /\ c \in pending => c \in Alive /\ Never(queue, Done(c))
         /\ ~Never(queue, Done(c)) => c \in Alive /\ c \notin pending /\ Once(queue, Done(c))
BY DEF OneHandler

(* The handler taken from the queue was the only one of its object, which is   *)
(* alive; the others stay where they are.                                       *)
LEMMA HandlerPop ==
  ASSUME IInv, NEW c \in Actor, NEW ops, NEW waiting \in BOOLEAN,
         Handles(c, ops, waiting)
  PROVE  /\ c \in Alive /\ c \notin pending /\ ~stopped
         /\ main \in {"run", "one"} /\ main' # "returned"
         /\ Never(queue', Done(c))
         /\ \A d \in Actor : d # c => Same(queue, queue', Done(d))
         /\ pending' = ops /\ accepting' = waiting
         /\ UNCHANGED <<kind, style, ec>>
<1>1. /\ queue \in Seq(Packet) /\ queue # <<>> /\ Head(queue) = Done(c)
      /\ Tail(queue) \in Seq(Packet) /\ stopped \in BOOLEAN
  BY HeadTailProperties DEF IInv, TypeOK, IoTypes, Handles, CanDispatch
<1>2. ~Never(queue, Done(c))
  BY <1>1, HeadIsThere
<1>3. c \in Alive /\ c \notin pending /\ Once(queue, Done(c))
  BY <1>2, WaitsAlive DEF IInv
<1>4. ~stopped
  BY <1>1, <1>3 DEF IInv, StopsWhenOver
<1>5. \A x : x # StopPacket => Same(Tail(queue), queue', x)
  BY <1>1, Packets, StopKeeps DEF Handles, HandlerLeaves, Same
<1>6. Never(Tail(queue), Done(c))
  BY <1>1, <1>3, TailSame
<1>7. Never(queue', Done(c))
  BY <1>5, <1>6, Packets DEF Same
<1>8. ASSUME NEW d \in Actor, d # c PROVE Same(queue, queue', Done(d))
  BY <1>1, <1>5, <1>8, Packets, TailOther DEF Same
<1>9. main \in {"run", "one"} /\ main' # "returned"
  BY DEF Handles, AfterOne
<1>10. QED
  BY <1>3, <1>4, <1>7, <1>8, <1>9 DEF Handles

(* No work is left exactly when no wait runs and no handler is queued. *)
LEMMA IdleMeans ==
  ASSUME NEW q \in Seq(Packet), NEW ops, Idle(q, ops)
  PROVE  ops = {} /\ \A c \in Actor : Never(q, Done(c))
BY Packets DEF Idle, Never

LEMMA IdleStop ==
  ASSUME NEW q \in Seq(Packet), NEW ops, Idle(q, ops)
  PROVE  Idle(Append(q, StopPacket), ops)
<1>1. /\ DOMAIN q = 1..Len(q) /\ Len(q) \in Nat
      /\ DOMAIN Append(q, StopPacket) = 1..(Len(q) + 1)
      /\ \A k \in 1..Len(q) : Append(q, StopPacket)[k] = q[k]
      /\ Append(q, StopPacket)[Len(q) + 1] = StopPacket
  BY Packets, AppendProperties, LenProperties
<1>2. QED
  BY <1>1 DEF Idle

(* Nothing is alive when there is no work. *)
LEMMA IdleIsOver ==
  ASSUME OneHandler, queue \in Seq(Packet), Idle(queue, pending)
  PROVE  Alive = {}
<1>1. pending = {} /\ \A c \in Actor : Never(queue, Done(c))
  BY IdleMeans
<1>2. ASSUME NEW c \in Alive PROVE FALSE
  <2>1. c \in Actor
    BY Ids DEF Alive
  <2>2. Once(queue, Done(c)) /\ Never(queue, Done(c))
    BY <1>1, <1>2, <2>1 DEF OneHandler
  <2>3. QED
    BY <2>2, OnceNotNever
<1>3. QED
  BY <1>2

(* A handler that leaves the operations ops and the objects that were alive,   *)
(* without its own unless it waits again and with those ops adds, keeps the     *)
(* handlers, the stopping and the returning in order.                           *)
LEMMA HandledKeeps ==
  ASSUME IInv, NEW c \in Actor, NEW ops \in SUBSET Actor, NEW waiting \in BOOLEAN,
         Handles(c, ops, waiting),
         pending \subseteq ops,
         \A d \in ops : d \in pending \/ d = c \/ d \notin Alive,
         Alive' = (Alive \ {c}) \cup ops
  PROVE  OneHandler' /\ StopsWhenOver' /\ Returned'
<1>1. /\ c \in Alive /\ c \notin pending /\ ~stopped
      /\ main' # "returned"
      /\ Never(queue', Done(c))
      /\ \A d \in Actor : d # c => Same(queue, queue', Done(d))
      /\ pending' = ops
  BY HandlerPop
<1>2. OneHandler'
  <2>1. ASSUME NEW d \in Actor
        PROVE  IF d \in Alive'
               THEN IF d \in pending' THEN Never(queue', Done(d)) ELSE Once(queue', Done(d))
               ELSE d \notin pending' /\ Never(queue', Done(d))
    <3>1. CASE d = c
      BY <1>1, <3>1
    <3>2. CASE d # c
      <4>1. Same(queue, queue', Done(d))
        BY <1>1, <3>2
      <4>2. CASE d \in Alive
        <5>1. d \in Alive' /\ (d \in ops <=> d \in pending)
          BY <3>2, <4>2
        <5>2. QED
          BY <1>1, <4>1, <4>2, <5>1 DEF IInv, OneHandler, Same
      <4>3. CASE d \notin Alive
        <5>1. d \notin pending /\ Never(queue, Done(d)) /\ (d \in Alive' <=> d \in ops)
          BY <3>2, <4>3 DEF IInv, OneHandler
        <5>2. QED
          BY <1>1, <4>1, <5>1 DEF Same
      <4>4. QED
        BY <4>2, <4>3
    <3>3. QED
      BY <3>1, <3>2
  <2>2. QED
    BY <2>1 DEF OneHandler, Done
<1>3. CASE Idle(Tail(queue), ops)
  <2>1. Tail(queue) \in Seq(Packet) /\ queue' \in Seq(Packet)
    BY HandlesType DEF IInv
  <2>2. ops = {} /\ stopped' = TRUE
    BY <1>3 DEF Idle, Handles, HandlerLeaves, Stop
  <2>3. Idle(queue', pending')
    <3>1. queue' = Tail(queue) \/ queue' = Append(Tail(queue), StopPacket)
      BY <1>3 DEF Handles, HandlerLeaves, Stop
    <3>2. QED
      BY <1>1, <1>3, <2>1, <3>1, IdleStop
  <2>4. Alive' = {}
    <3>1. \A d \in Actor : Never(queue', Done(d))
      BY <1>1, <2>1, <2>2, <2>3, IdleMeans
    <3>2. ASSUME NEW d \in Alive' PROVE FALSE
      <4>1. d \in Actor /\ Once(queue', Done(d))
        BY <1>1, <1>2, <2>2, <3>2, Ids DEF OneHandler, Alive, Done
      <4>2. QED
        BY <3>1, <4>1, OnceNotNever
    <3>3. QED
      BY <3>2
  <2>5. Returned'
    <3>1. stopped' = TRUE /\ (Never(queue', StopPacket) \/ kind' = "iocp")
      <4>1. CASE kind = "iocp"
        BY <2>2, <4>1 DEF Handles
      <4>2. CASE kind # "iocp"
        <5>1. queue' = Tail(queue) /\ Never(queue, StopPacket)
          BY <1>1, <1>3, <4>2 DEF Handles, HandlerLeaves, Stop, IInv, Returned
        <5>2. Never(queue', StopPacket)
          BY <5>1, Packets, TailOther DEF IInv, TypeOK, IoTypes, Handles, CanDispatch
        <5>3. QED
          BY <2>2, <5>2
      <4>3. QED
        BY <4>1, <4>2
    <3>2. QED
      BY <1>1, <3>1 DEF Returned
  <2>6. QED
    BY <1>2, <2>4, <2>5 DEF StopsWhenOver
<1>4. CASE ~Idle(Tail(queue), ops)
  <2>1. queue' = Tail(queue) /\ stopped' = stopped
    BY <1>4 DEF Handles, HandlerLeaves
  <2>2. Never(queue, StopPacket)
    BY <1>1 DEF IInv, Returned
  <2>3. Never(queue', StopPacket)
    BY <2>1, <2>2, Packets, TailOther DEF IInv, TypeOK, IoTypes, Handles, CanDispatch
  <2>4. QED
    BY <1>1, <1>2, <2>1, <2>3 DEF StopsWhenOver, Returned
<1>5. QED
  BY <1>3, <1>4

(* A step of the context that runs no handler keeps them too. *)
LEMMA NoHandlerKeeps ==
  ASSUME IInv, UNCHANGED <<kind, pending, accepting, conn>>,
         \/ EnterRun /\ main' # "returned"
         \/ RefuseRun
         \/ LeaveRun
  PROVE  OneHandler' /\ StopsWhenOver' /\ Returned'
<1>1. queue \in Seq(Packet) /\ stopped \in BOOLEAN
  BY DEF IInv, TypeOK, IoTypes
<1>2. \A x : x # StopPacket => Same(queue, queue', x)
  BY <1>1, Packets, EnterRunKeeps, LeaveRunKeeps DEF Same
<1>3. Alive' = Alive
  BY DEF Alive
<1>4. OneHandler'
  <2>1. ASSUME NEW d \in Actor
        PROVE  IF d \in Alive
               THEN IF d \in pending THEN Never(queue', Done(d)) ELSE Once(queue', Done(d))
               ELSE d \notin pending /\ Never(queue', Done(d))
    BY <1>2, Packets DEF IInv, OneHandler, Same
  <2>2. QED
    BY <1>3, <2>1 DEF OneHandler, Done
<1>5. CASE EnterRun /\ main' # "returned"
  BY <1>3, <1>4, <1>5 DEF EnterRun, IInv, StopsWhenOver, Returned
<1>6. CASE RefuseRun
  <2>1. Alive = {}
    BY <1>1, <1>6, IdleIsOver DEF RefuseRun, IInv
  <2>2. stopped' = TRUE /\ (kind # "iocp" => queue' = queue)
    BY <1>6 DEF RefuseRun, Stop
  <2>3. QED
    BY <1>3, <1>4, <2>1, <2>2 DEF IInv, StopsWhenOver, Returned
<1>7. CASE LeaveRun
  <2>1. stopped
    <3>1. CASE queue # <<>> /\ Head(queue) = StopPacket
      BY <1>1, <3>1, HeadIsThere DEF IInv, Returned
    <3>2. QED
      BY <1>7, <3>1 DEF LeaveRun
  <2>2. Alive = {} /\ stopped' = stopped /\ (kind # "iocp" => queue' = queue)
    BY <1>7, <2>1 DEF LeaveRun, IInv, StopsWhenOver
  <2>3. QED
    BY <1>3, <1>4, <2>1, <2>2 DEF IInv, StopsWhenOver, Returned
<1>8. QED
  BY <1>5, <1>6, <1>7

(* Where the acceptor is when it creates connection s. *)
LEMMA NextIsNew ==
  ASSUME IInv, NEW s \in Session, s = Id
  PROVE  /\ conn[s] = "new" /\ s \notin Alive /\ s # 0
         /\ at[s] = "connect" /\ i[s] = 0 /\ progress[s] = 0
<1>1. conn[s] = "new" /\ s # 0
  BY Ids DEF IInv, Accepted
<1>2. QED
  BY <1>1 DEF IInv, Position, Alive

(* The acceptor's handler that creates connection s. *)
LEMMA CreateKeeps ==
  ASSUME IInv, TypeOK', NEW s \in Session, s = Id, NEW waiting \in BOOLEAN,
         Handles(0, pending \cup {s} \cup (IF waiting THEN {0} ELSE {}), waiting),
         Opens(s), next' = s + 1, waiting \/ s = N
  PROVE  IInv'
<1> DEFINE ops == pending \cup {s} \cup (IF waiting THEN {0} ELSE {})
<1> USE Ids
<1>1. /\ 0 \in Alive /\ 0 \notin pending /\ accepting' = waiting /\ style' = style
      /\ ec' = ec
  BY HandlerPop
<1>2. /\ conn[s] = "new" /\ s \notin Alive /\ s # 0
      /\ at[s] = "connect" /\ i[s] = 0 /\ progress[s] = 0
  BY NextIsNew
<1>3. /\ conn \in [Session -> {"new", "open", "over"}]
      /\ pending \in SUBSET Actor
      /\ N \in Nat \ {0} /\ s \in 1..N
  BY DEF IInv, TypeOK, IoTypes, ConnTypes, Session
<1>4. /\ conn'[s] = "open" /\ \A r \in Session : r # s => conn'[r] = conn[r]
      /\ UNCHANGED <<at, i, progress>>
  BY <1>3 DEF Opens
<1>5. OneHandler' /\ StopsWhenOver' /\ Returned'
  <2>1. Alive' = (Alive \ {0}) \cup ops
    <3>1. pending \subseteq Alive
      BY <1>3, WaitsAlive DEF IInv
    <3>2. Alive' = {r \in Session : conn[r] = "open"} \cup {s} \cup (IF waiting THEN {0} ELSE {})
      BY <1>1, <1>4 DEF Alive
    <3>3. Alive \ {0} = {r \in Session : conn[r] = "open"}
      BY DEF Alive
    <3>4. QED
      BY <1>1, <3>1, <3>2, <3>3
  <2>2. /\ ops \in SUBSET Actor /\ pending \subseteq ops
        /\ \A d \in ops : d \in pending \/ d = 0 \/ d \notin Alive
    BY <1>2, <1>3
  <2>3. Handles(0, ops, waiting)
    OBVIOUS
  <2> HIDE DEF ops
  <2>4. QED
    BY <2>1, <2>2, <2>3, HandledKeeps
<1>6. Accepted'
  <2>1. Id' = s + 1 /\ \A r \in Session : r \in Nat
    BY <1>3 DEF Id
  <2>2. \A r \in Session : conn[r] = "new" <=> r >= s
    BY DEF IInv, Accepted
  <2>3. ASSUME NEW r \in Session PROVE conn'[r] = "new" <=> r >= s + 1
    BY <1>3, <1>4, <2>1, <2>2
  <2>4. waiting \/ s + 1 > N
    BY <1>3
  <2>5. QED
    BY <1>1, <2>1, <2>3, <2>4 DEF Accepted
<1>7. ASSUME NEW r \in Session PROVE Position(r)'
  <2>1. CASE r = s
    BY <1>1, <1>2, <1>4, <2>1 DEF Position, Reached
  <2>2. CASE r # s
    <3>1. Position(r)
      BY DEF IInv
    <3>2. QED
      BY <1>1, <1>4, <2>2, <3>1 DEF Position, Reached
  <2>3. QED
    BY <2>1, <2>2
<1>8. QED
  BY <1>5, <1>6, <1>7 DEF IInv

(* A handler that leaves the connections as they are, and is the acceptor's. *)
LEMMA AcceptorKeeps ==
  ASSUME IInv, TypeOK', NEW waiting \in BOOLEAN,
         Handles(0, pending \cup (IF waiting THEN {0} ELSE {}), waiting),
         UNCHANGED connVars, Id' = Id, waiting \/ ec[0] \/ Id > N
  PROVE  IInv'
<1> DEFINE ops == pending \cup (IF waiting THEN {0} ELSE {})
<1> USE Ids
<1>1. /\ 0 \in Alive /\ 0 \notin pending /\ accepting' = waiting /\ style' = style
      /\ ec' = ec
  BY HandlerPop
<1>2. UNCHANGED <<conn, at, i, progress>>
  BY DEF connVars
<1>3. pending \in SUBSET Actor
  BY DEF IInv, TypeOK, IoTypes
<1>4. OneHandler' /\ StopsWhenOver' /\ Returned'
  <2>1. Alive' = (Alive \ {0}) \cup ops
    <3>1. pending \subseteq Alive
      BY <1>3, WaitsAlive DEF IInv
    <3>2. Alive' = {r \in Session : conn[r] = "open"} \cup (IF waiting THEN {0} ELSE {})
      BY <1>1, <1>2 DEF Alive
    <3>3. Alive \ {0} = {r \in Session : conn[r] = "open"}
      BY DEF Alive
    <3>4. QED
      BY <1>1, <3>1, <3>2, <3>3
  <2>2. /\ ops \in SUBSET Actor /\ pending \subseteq ops
        /\ \A d \in ops : d \in pending \/ d = 0 \/ d \notin Alive
    BY <1>3
  <2>3. Handles(0, ops, waiting)
    OBVIOUS
  <2> HIDE DEF ops
  <2>4. QED
    BY <2>1, <2>2, <2>3, HandledKeeps
<1>5. Accepted'
  BY <1>1, <1>2 DEF IInv, Accepted
<1>6. ASSUME NEW r \in Session PROVE Position(r)'
  BY <1>1, <1>2 DEF IInv, Position, Reached
<1>7. QED
  BY <1>4, <1>5, <1>6 DEF IInv

(* The handler of connection s, which is open and stays so or is over. *)
LEMMA ConnectionKeeps ==
  ASSUME IInv, TypeOK', NEW s \in Session, NEW again \in BOOLEAN,
         Handles(s, IF again THEN pending \cup {s} ELSE pending, accepting),
         conn' = [conn EXCEPT ![s] = IF again THEN "open" ELSE "over"],
         UNCHANGED next,
         \A r \in Session : r # s =>
           at'[r] = at[r] /\ i'[r] = i[r] /\ progress'[r] = progress[r],
         conn[s] = "open" /\ Reached(s) => Position(s)'
  PROVE  IInv'
<1> DEFINE ops == IF again THEN pending \cup {s} ELSE pending
<1> USE Ids
<1>1. /\ s \in Alive /\ s \notin pending /\ UNCHANGED <<accepting, style, ec>>
  BY HandlerPop DEF IInv, TypeOK, IoTypes
<1>2. conn[s] = "open"
  BY <1>1 DEF Alive
<1>3. /\ conn \in [Session -> {"new", "open", "over"}]
      /\ pending \in SUBSET Actor /\ accepting \in BOOLEAN
  BY DEF IInv, TypeOK, IoTypes, ConnTypes
<1>4. /\ conn'[s] = IF again THEN "open" ELSE "over"
      /\ \A r \in Session : r # s => conn'[r] = conn[r]
  BY <1>3
<1>5. OneHandler' /\ StopsWhenOver' /\ Returned'
  <2>1. pending \subseteq Alive
    BY <1>3, WaitsAlive DEF IInv
  <2>2. Alive' = (Alive \ {s}) \cup ops
    <3>1. Alive' = {r \in Session : conn'[r] = "open"} \cup (IF accepting THEN {0} ELSE {})
      BY <1>1 DEF Alive
    <3>2. Alive = {r \in Session : conn[r] = "open"} \cup (IF accepting THEN {0} ELSE {})
      BY DEF Alive
    <3>3. {r \in Session : conn'[r] = "open"} =
            ({r \in Session : conn[r] = "open"} \ {s}) \cup (IF again THEN {s} ELSE {})
      BY <1>4
    <3>4. QED
      BY <1>1, <1>2, <2>1, <3>1, <3>2, <3>3
  <2>3. /\ ops \in SUBSET Actor /\ pending \subseteq ops
        /\ \A d \in ops : d \in pending \/ d = s \/ d \notin Alive
        /\ s \in Actor
    BY <1>3
  <2>4. Handles(s, ops, accepting)
    OBVIOUS
  <2> HIDE DEF ops
  <2>5. QED
    <3>1. \A w \in BOOLEAN : Handles(s, ops, w) => OneHandler' /\ StopsWhenOver' /\ Returned'
      BY <2>2, <2>3, HandledKeeps
    <3>2. QED
      BY <1>3, <2>4, <3>1
<1>6. Accepted'
  <2>1. Id' = Id
    BY DEF Id
  <2>2. \A r \in Session : conn'[r] = "new" <=> conn[r] = "new"
    BY <1>2, <1>4
  <2>3. QED
    BY <1>1, <2>1, <2>2 DEF IInv, Accepted
<1>7. ASSUME NEW r \in Session PROVE Position(r)'
  <2>1. CASE r = s
    BY <1>2, <2>1 DEF IInv, Position
  <2>2. CASE r # s
    <3>1. Position(r)
      BY DEF IInv
    <3>2. QED
      BY <1>1, <1>4, <2>2, <3>1 DEF Position, Reached
  <2>3. QED
    BY <2>1, <2>2
<1>8. QED
  BY <1>5, <1>6, <1>7 DEF IInv

(* Every step of the program keeps the invariant. *)
LEMMA InvStep == IInv /\ [Next]_vars => IInv'
<1> SUFFICES ASSUME IInv, [Next]_vars PROVE IInv'
  OBVIOUS
<1> USE Ids
<1>t. TypeOK /\ TypeOK'
  BY TypeStep DEF IInv
<1>q. /\ queue \in Seq(Packet) /\ pending \in SUBSET Actor
      /\ accepting \in BOOLEAN /\ ec \in [Actor -> BOOLEAN]
      /\ next \in 0..(N + 1)
      /\ conn \in [Session -> {"new", "open", "over"}]
      /\ at \in [Session -> {"connect", "read", "write"}]
      /\ i \in [Session -> Nat] /\ progress \in [Session -> Nat]
  BY <1>t DEF TypeOK, IoTypes, ConnTypes
<1>1. ASSUME NEW c \in Actor, NEW e \in BOOLEAN, CompleteWait(c, e)
      PROVE  IInv'
  <2>1. c \in Alive /\ Never(queue, Done(c)) /\ c \in pending /\ c \notin pending'
    BY <1>1, WaitsAlive DEF CompleteWait, IInv
  <2>2. Alive' = Alive
    BY <1>1 DEF CompleteWait, connVars, Alive
  <2>3. /\ Once(queue', Done(c))
        /\ \A x : x # Done(c) => Same(queue, queue', x)
    BY <1>1, <1>q, <2>1, Packets, AppendSame, AppendOther DEF CompleteWait, Same
  <2>4. ASSUME NEW d \in Actor
        PROVE  IF d \in Alive
               THEN IF d \in pending' THEN Never(queue', Done(d)) ELSE Once(queue', Done(d))
               ELSE d \notin pending' /\ Never(queue', Done(d))
    <3>1. CASE d = c
      BY <2>1, <2>3, <3>1
    <3>2. CASE d # c
      <4>1. Same(queue, queue', Done(d)) /\ (d \in pending' <=> d \in pending)
        BY <1>1, <2>3, <3>2, Packets DEF CompleteWait
      <4>2. QED
        BY <4>1 DEF IInv, OneHandler, Same
    <3>3. QED
      BY <3>1, <3>2
  <2>5. OneHandler'
    BY <2>2, <2>4 DEF OneHandler, Done
  <2>6. StopsWhenOver' /\ Returned'
    <3>1. UNCHANGED <<stopped, main, kind>> /\ Same(queue, queue', StopPacket)
      BY <1>1, <2>3, Packets DEF CompleteWait
    <3>2. QED
      BY <2>2, <3>1 DEF IInv, StopsWhenOver, Returned, Same
  <2>7. /\ UNCHANGED <<style, next, accepting, conn, at, i, progress>>
        /\ \A d \in Actor : d # c => ec'[d] = ec[d]
    BY <1>1, <1>q DEF CompleteWait, connVars
  <2>8. Accepted'
    <3>1. ~accepting => c # 0
      BY <2>1 DEF Alive
    <3>2. Id' = Id
      BY <2>7 DEF Id
    <3>3. QED
      BY <2>7, <3>1, <3>2 DEF IInv, Accepted
  <2>9. ASSUME NEW s \in Session PROVE Position(s)'
    <3>1. s = c => conn[s] = "open"
      BY <2>1 DEF Alive
    <3>2. Position(s)
      BY DEF IInv
    <3>3. QED
      BY <2>7, <3>1, <3>2 DEF Position, Reached
  <2>10. QED
    BY <1>t, <2>5, <2>6, <2>8, <2>9 DEF IInv
<1>2. ASSUME UNCHANGED <<kind, pending, style, next, accepting, connVars, ec>>,
             \/ EnterRun /\ main' # "returned"
             \/ RefuseRun
             \/ LeaveRun
      PROVE  IInv'
  <2>1. OneHandler' /\ StopsWhenOver' /\ Returned'
    BY <1>2, NoHandlerKeeps DEF connVars
  <2>2. Accepted'
    BY <1>2 DEF connVars, IInv, Accepted, Id
  <2>3. ASSUME NEW s \in Session PROVE Position(s)'
    BY <1>2 DEF connVars, IInv, Position, Reached
  <2>4. QED
    BY <1>t, <2>1, <2>2, <2>3 DEF IInv
<1>3. CASE CallRun
  <2>1. (EnterRun /\ main' # "returned") \/ RefuseRun
    BY <1>3 DEF CallRun, EnterRun
  <2>2. QED
    BY <1>2, <1>3, <2>1 DEF CallRun
<1>4. CASE RunReturns
  BY <1>2, <1>4 DEF RunReturns
<1>5. ASSUME NEW s \in Session, CallbackCreates(s) PROVE IInv'
  <2>1. pending \cup {0, s} = pending \cup {s} \cup (IF TRUE THEN {0} ELSE {})
    OBVIOUS
  <2>2. QED
    BY <1>t, <1>5, <2>1, CreateKeeps DEF CallbackCreates
<1>6. ASSUME NEW s \in Session, LoopCreates(s) PROVE IInv'
  <2>1. s = Id /\ (s < N \/ s = N) /\ (s < N) \in BOOLEAN
    BY <1>6 DEF LoopCreates, Id, Session
  <2>2. QED
    BY <1>t, <1>6, <2>1, CreateKeeps DEF LoopCreates
<1>7. CASE CallbackCloses
  <2>1. Handles(0, pending \cup (IF FALSE THEN {0} ELSE {}), FALSE)
    <3>1. pending \cup (IF FALSE THEN {0} ELSE {}) = pending
      OBVIOUS
    <3>2. QED
      BY <1>7, <3>1 DEF CallbackCloses
  <2>2. Id' = Id
    BY <1>7, <1>q DEF CallbackCloses, Id
  <2>3. QED
    BY <1>t, <1>7, <2>1, <2>2, AcceptorKeeps DEF CallbackCloses
<1>8. CASE SwitchEnters
  <2>1. Handles(0, pending \cup (IF TRUE THEN {0} ELSE {}), TRUE)
    <3>1. pending \cup (IF TRUE THEN {0} ELSE {}) = pending \cup {0}
      OBVIOUS
    <3>2. QED
      BY <1>8, <3>1 DEF SwitchEnters
  <2>2. Id' = Id
    BY <1>8, <1>q DEF SwitchEnters, Id
  <2>3. QED
    BY <1>t, <1>8, <2>1, <2>2, AcceptorKeeps DEF SwitchEnters
<1>9. CASE LoopCloses
  <2>1. Handles(0, pending \cup (IF FALSE THEN {0} ELSE {}), FALSE)
    <3>1. pending \cup (IF FALSE THEN {0} ELSE {}) = pending
      OBVIOUS
    <3>2. QED
      BY <1>9, <3>1 DEF LoopCloses
  <2>2. Id' = Id
    BY <1>9 DEF LoopCloses, Id
  <2>3. QED
    BY <1>t, <1>9, <2>1, <2>2, AcceptorKeeps DEF LoopCloses
<1>10. ASSUME NEW s \in Session, CallbackConnect(s) PROVE IInv'
  <2>1. (i[s] <= Rounds) \in BOOLEAN /\ UNCHANGED <<ec, style>>
    BY <1>10 DEF CallbackConnect, Writes, Handles
  <2>2. conn[s] = "open" /\ Reached(s) => Position(s)'
    BY <1>10, <1>q, <2>1 DEF CallbackConnect, Writes, Position, Reached
  <2>3. QED
    BY <1>t, <1>q, <1>10, <2>1, <2>2, ConnectionKeeps DEF CallbackConnect, Writes
<1>11. ASSUME NEW s \in Session, LoopConnect(s) PROVE IInv'
  <2>1. UNCHANGED <<ec, style>>
    BY <1>11 DEF LoopConnect, Writes, Handles
  <2>2. conn[s] = "open" /\ Reached(s) => Position(s)'
    BY <1>11, <1>q, <2>1 DEF LoopConnect, Writes, Position, Reached
  <2>3. QED
    BY <1>t, <1>q, <1>11, <2>2, ConnectionKeeps DEF LoopConnect, Writes
<1>12. ASSUME NEW s \in Session, LoopRead(s) PROVE IInv'
  <2>1. UNCHANGED <<ec, style>>
    BY <1>12 DEF LoopRead, Writes, Handles
  <2>2. conn[s] = "open" /\ Reached(s) => Position(s)'
    BY <1>12, <1>q, <2>1 DEF LoopRead, Writes, Position, Reached
  <2>3. QED
    BY <1>t, <1>q, <1>12, <2>2, ConnectionKeeps DEF LoopRead, Writes
<1>13. ASSUME NEW s \in Session, LoopWrite(s) PROVE IInv'
  <2>1. UNCHANGED <<ec, style>>
    BY <1>13 DEF LoopWrite, Writes, Handles
  <2>2. conn[s] = "open" /\ Reached(s) => Position(s)'
    BY <1>13, <1>q, <2>1 DEF LoopWrite, Writes, Position, Reached
  <2>3. QED
    BY <1>t, <1>q, <1>13, <2>2, ConnectionKeeps DEF LoopWrite, Writes
<1>14. ASSUME NEW s \in Session, ConnectFails(s) PROVE IInv'
  <2>1. UNCHANGED <<ec, style>> /\ ec[s]
    BY <1>14 DEF ConnectFails, Handles
  <2>2. conn[s] = "open" /\ Reached(s) => Position(s)'
    BY <1>14, <1>q, <2>1 DEF ConnectFails, Position, Reached
  <2>3. Handles(s, IF FALSE THEN pending \cup {s} ELSE pending, accepting)
    BY <1>14 DEF ConnectFails
  <2>4. QED
    BY <1>t, <1>q, <1>14, <2>2, <2>3, ConnectionKeeps DEF ConnectFails
<1>15. CASE UNCHANGED vars
  BY <1>15, <1>t
  DEF vars, ioVars, connVars, IInv, OneHandler, StopsWhenOver, Accepted, Position,
      Reached, Returned, Alive, Id, Done, StopPacket, Never, Once
<1>16. QED
  BY <1>1, <1>3, <1>4, <1>5, <1>6, <1>7, <1>8, <1>9, <1>10, <1>11, <1>12, <1>13,
     <1>14, <1>15
  DEF Next, Program, Timers, Finished

LEMMA Initially == Init => IInv
<1> SUFFICES ASSUME Init PROVE IInv
  OBVIOUS
<1> USE Ids
<1>1. TypeOK
  BY TypeInit
<1>2. Alive = {0} /\ pending = {0} /\ queue = <<>> /\ stopped = FALSE
  BY DEF Init, IoInit, Alive
<1>3. \A x : Never(queue, x)
  BY <1>2 DEF Never
<1>4. OneHandler
  BY <1>2, <1>3 DEF OneHandler
<1>5. Accepted /\ StopsWhenOver
  BY <1>2 DEF Init, Accepted, StopsWhenOver, Id, Session
<1>6. \A s \in Session : Position(s)
  BY DEF Init, Position
<1>7. Returned
  BY <1>3 DEF Init, Returned
<1>8. QED
  BY <1>1, <1>4, <1>5, <1>6, <1>7 DEF IInv

LEMMA Invariance == Spec => []IInv
<1>1. QED
  BY Initially, InvStep, PTL DEF Spec

(* No living object is without its handler, and none has two. *)
THEOREM OneHandlerCorrect == Spec => []OneHandler
<1>1. IInv => OneHandler
  BY DEF IInv
<1>2. QED
  BY <1>1, Invariance, PTL

(* The context stops only when the acceptor and all connections are over. *)
THEOREM StopsWhenOverCorrect == Spec => []StopsWhenOver
<1>1. IInv => StopsWhenOver
  BY DEF IInv
<1>2. QED
  BY <1>1, Invariance, PTL

(* The results are complete when the program returns. *)
THEOREM ServedCorrect == Spec => []Served
<1>1. ASSUME IInv, main = "returned", NEW s \in Session
      PROVE  progress[s] = Rounds + 2 \/ ec[s] \/ (conn[s] = "new" /\ ec[0])
  <2>1. conn[s] # "open" /\ ~accepting
    BY <1>1, Ids DEF IInv, Returned, Alive
  <2>2. conn[s] \in {"new", "open", "over"} /\ next \in Nat
    BY <1>1 DEF IInv, TypeOK, ConnTypes
  <2>3. CASE conn[s] = "new"
    BY <1>1, <2>1, <2>2, <2>3, Ids DEF IInv, Accepted, Session, Id
  <2>4. CASE conn[s] = "over"
    BY <1>1, <2>4 DEF IInv, Position
  <2>5. QED
    BY <2>1, <2>2, <2>3, <2>4
<1>2. IInv => Served
  BY <1>1 DEF Served
<1>3. QED
  BY <1>2, Invariance, PTL

------------------------------------------------------------------------------
(* The values the mapping W gives to Workflow's variables. *)
Steps == Rounds + 2
State ==
  [s \in Session |->
     IF conn[s] = "new" THEN "new"
     ELSE IF conn[s] = "over" /\ progress[s] < Rounds + 2 THEN "failed"
     ELSE "active"]
Closed == ~accepting /\ \E s \in Session : conn[s] = "new"
Over == main = "returned"

(* The types, as the steps use them. *)
LEMMA Types ==
  ASSUME IInv
  PROVE  /\ conn \in [Session -> {"new", "open", "over"}]
         /\ i \in [Session -> Nat] /\ progress \in [Session -> Nat]
         /\ accepting \in BOOLEAN /\ ec \in [Actor -> BOOLEAN]
BY DEF IInv, TypeOK, IoTypes, ConnTypes

(* A step that moves no connection and does not close is no step of Workflow. *)
LEMMA Stutter ==
  ASSUME UNCHANGED <<conn, progress>>, Closed' = Closed, Over' = Over
  PROVE  UNCHANGED W!vars
BY DEF W!vars, Closed, Over

(* The acceptor's handler: it still accepted, and the program goes on. *)
LEMMA AcceptorHandles ==
  ASSUME IInv, NEW ops, NEW waiting \in BOOLEAN, Handles(0, ops, waiting)
  PROVE  accepting /\ accepting' = waiting /\ ~Closed /\ ~Over /\ ~Over'
<1>1. 0 \in Alive /\ main \in {"run", "one"} /\ main' # "returned" /\ accepting' = waiting
  BY HandlerPop, Ids
<1>2. QED
  BY <1>1, Ids DEF Alive, Closed, Over

(* The next connection is created. *)
LEMMA Accepts ==
  ASSUME IInv, NEW s \in Session, s = Id, NEW ops, NEW waiting \in BOOLEAN,
         Handles(0, ops, waiting), Opens(s), waiting \/ s = N
  PROVE  W!Accept(s)
<1> USE Ids
<1>1. accepting /\ accepting' = waiting /\ ~Closed /\ ~Over /\ ~Over'
  BY AcceptorHandles
<1>2. conn[s] = "new" /\ progress[s] = 0
  BY NextIsNew
<1>3. \A r \in Session : conn[r] = "new" <=> r >= s
  BY DEF IInv, Accepted
<1>4. conn' = [conn EXCEPT ![s] = "open"] /\ UNCHANGED progress
  BY DEF Opens
<1>5. State' = [State EXCEPT ![s] = "active"]
  BY <1>4, Types DEF State
<1>6. progress' = [progress EXCEPT ![s] = 0]
  BY <1>2, <1>4, Types
<1>7. State[s] = "new" /\ \A r \in 1..(s - 1) : State[r] # "new"
  <2>1. \A r \in 1..(s - 1) : r \in Session /\ ~(r >= s)
    BY DEF Session
  <2>2. QED
    BY <1>2, <1>3, <2>1 DEF State
<1>8. ~Closed'
  <2>1. ASSUME s = N, NEW r \in Session PROVE conn'[r] # "new"
    BY <1>3, <1>4, <2>1, Types DEF Session
  <2>2. QED
    BY <1>1, <2>1 DEF Closed
<1>9. QED
  BY <1>1, <1>5, <1>6, <1>7, <1>8 DEF W!Accept, State, Closed, Over

(* The acceptor lets go: a step of Workflow if a connection is still expected. *)
LEMMA AcceptStops ==
  ASSUME IInv, NEW ops, Handles(0, ops, FALSE), UNCHANGED connVars
  PROVE  [W!AcceptFails]_(W!vars)
<1>1. accepting /\ ~accepting' /\ ~Closed /\ ~Over /\ ~Over'
  BY AcceptorHandles
<1>2. UNCHANGED <<conn, progress>>
  BY DEF connVars
<1>3. CASE \E s \in Session : conn[s] = "new"
  <2>1. Closed' /\ State' = State
    BY <1>1, <1>2, <1>3 DEF Closed, State
  <2>2. \E s \in W!Session : State[s] = "new"
    BY <1>3 DEF State, W!Session, Session
  <2>3. QED
    BY <1>1, <1>2, <2>1, <2>2 DEF W!AcceptFails, State, Closed, Over
<1>4. CASE ~\E s \in Session : conn[s] = "new"
  BY <1>1, <1>2, <1>4, Stutter DEF Closed, Over
<1>5. QED
  BY <1>3, <1>4

(* A connection's handler: it was open, and the acceptor is not concerned. *)
LEMMA ConnectionHandles ==
  ASSUME IInv, NEW s \in Session, NEW ops, Handles(s, ops, accepting)
  PROVE  conn[s] = "open" /\ accepting' = accepting /\ ~Over /\ ~Over'
<1>1. /\ s \in Alive /\ main \in {"run", "one"} /\ main' # "returned"
      /\ accepting' = accepting
  BY HandlerPop, Ids, Types
<1>2. QED
  BY <1>1, Ids DEF Alive, Over

(* A connection writes a character. *)
LEMMA ConnectionSteps ==
  ASSUME IInv, NEW s \in Session,
         \/ CallbackConnect(s) \/ LoopConnect(s) \/ LoopRead(s) \/ LoopWrite(s)
  PROVE  W!Step(s)
<1> USE Ids
<1>1. PICK again \in BOOLEAN :
        Writes(s, again) /\ (~again => progress[s] + 1 = Steps) /\ progress[s] < Steps
  <2>1. ASSUME NEW b \in BOOLEAN, Writes(s, b) PROVE Reached(s)
    BY <2>1, ConnectionHandles DEF Writes, IInv, Position
  <2>2. i[s] \in Nat /\ progress[s] \in Nat /\ Rounds \in Nat
    BY Types
  <2>3. CASE CallbackConnect(s)
    <3>1. Writes(s, i[s] <= Rounds) /\ (i[s] <= Rounds) \in BOOLEAN /\ style = "callback"
      BY <2>2, <2>3 DEF CallbackConnect
    <3>2. i[s] <= Rounds + 1 /\ progress[s] = i[s]
      BY <2>1, <3>1 DEF Reached
    <3>3. progress[s] < Steps /\ (~(i[s] <= Rounds) => progress[s] + 1 = Steps)
      BY <2>2, <3>2 DEF Steps
    <3>4. QED
      BY <3>1, <3>3
  <2>4. CASE LoopConnect(s)
    <3>1. Writes(s, TRUE) /\ style # "callback" /\ at[s] = "connect"
      BY <2>4 DEF LoopConnect
    <3>2. Reached(s)
      BY <2>1, <3>1
    <3>3. progress[s] < Steps
      BY <2>2, <3>1, <3>2, Ids DEF Reached, Steps
    <3>4. QED
      BY <3>1, <3>3
  <2>5. CASE LoopRead(s)
    <3>1. Writes(s, TRUE) /\ style # "callback" /\ at[s] = "read"
      BY <2>5 DEF LoopRead
    <3>2. Reached(s)
      BY <2>1, <3>1
    <3>3. progress[s] < Steps
      BY <2>2, <3>1, <3>2, Ids DEF Reached, Steps
    <3>4. QED
      BY <3>1, <3>3
  <2>6. CASE LoopWrite(s)
    <3>1. Writes(s, FALSE) /\ style # "callback" /\ at[s] = "write"
      BY <2>6 DEF LoopWrite
    <3>2. Reached(s)
      BY <2>1, <3>1
    <3>3. progress[s] + 1 = Steps /\ progress[s] < Steps
      BY <2>2, <3>1, <3>2, Ids DEF Reached, Steps
    <3>4. QED
      BY <3>1, <3>3
  <2>7. QED
    BY <2>3, <2>4, <2>5, <2>6
<1>2. conn[s] = "open" /\ accepting' = accepting /\ ~Over /\ ~Over'
  BY <1>1, ConnectionHandles DEF Writes
<1>3. /\ progress' = [progress EXCEPT ![s] = progress[s] + 1]
      /\ conn' = [conn EXCEPT ![s] = IF again THEN "open" ELSE "over"]
  BY <1>1 DEF Writes
<1>4. State[s] = "active" /\ State' = State
  <2>1. ASSUME NEW r \in Session PROVE State'[r] = State[r]
    <3>1. CASE r = s
      BY <1>1, <1>2, <1>3, <3>1, Types DEF State, Steps
    <3>2. CASE r # s
      BY <1>3, <3>2, Types DEF State
    <3>3. QED
      BY <3>1, <3>2
  <2>2. QED
    BY <1>2, <2>1 DEF State
<1>5. Closed' = Closed
  <2>1. \A r \in Session : conn'[r] = "new" <=> conn[r] = "new"
    BY <1>2, <1>3, Types
  <2>2. QED
    BY <1>2, <2>1 DEF Closed
<1>6. QED
  BY <1>1, <1>2, <1>3, <1>4, <1>5 DEF W!Step, State, Closed, Over, Steps

(* A connection whose wait failed is let go before its result is complete. *)
LEMMA ConnectionStops ==
  ASSUME IInv, NEW s \in Session, ConnectFails(s)
  PROVE  W!Fail(s)
<1> USE Ids
<1>1. conn[s] = "open" /\ accepting' = accepting /\ ~Over /\ ~Over'
  BY ConnectionHandles DEF ConnectFails
<1>2. conn' = [conn EXCEPT ![s] = "over"] /\ UNCHANGED progress
  BY DEF ConnectFails
<1>3. progress[s] < Steps
  <2>1. Reached(s) /\ i[s] \in Nat /\ progress[s] \in Nat
    BY <1>1, Types DEF IInv, Position
  <2>2. at[s] \in {"connect", "read", "write"}
    BY DEF IInv, TypeOK, ConnTypes
  <2>3. QED
    BY <2>1, <2>2 DEF Reached, Steps
<1>4. State[s] = "active" /\ State' = [State EXCEPT ![s] = "failed"]
  <2>1. conn'[s] = "over" /\ \A r \in Session : r # s => conn'[r] = conn[r]
    BY <1>2, Types
  <2>2. QED
    BY <1>1, <1>2, <1>3, <2>1 DEF State, Steps
<1>5. Closed' = Closed
  <2>1. \A r \in Session : conn'[r] = "new" <=> conn[r] = "new"
    BY <1>1, <1>2, Types
  <2>2. QED
    BY <1>1, <2>1 DEF Closed
<1>6. QED
  BY <1>1, <1>2, <1>3, <1>4, <1>5 DEF W!Fail, State, Closed, Over, Steps

(* The program runs its context, or returns when everything is over. *)
LEMMA Runs ==
  ASSUME IInv, IInv', CallRun \/ RunReturns
  PROVE  [W!Return]_(W!vars)
<1>1. UNCHANGED <<accepting, conn, progress>> /\ ~Over
  BY DEF CallRun, RunReturns, connVars, Over
<1>2. CASE ~Over'
  BY <1>1, <1>2, Stutter DEF Closed, Over
<1>3. CASE Over'
  <2>1. ~accepting /\ \A s \in Session : conn[s] # "open"
    BY <1>1, <1>3, Ids DEF IInv, Returned, Alive, Over
  <2>2. ASSUME NEW s \in Session
        PROVE  \/ State[s] = "active" /\ progress[s] = Steps
               \/ State[s] = "failed"
               \/ State[s] = "new" /\ Closed
    BY <2>1, Types DEF IInv, Position, State, Closed, Steps
  <2>3. W!Session = Session
    BY DEF W!Session, Session
  <2>4. QED
    BY <1>1, <1>3, <2>2, <2>3 DEF W!Return, W!Over, State, Closed, Over, Steps
<1>4. QED
  BY <1>2, <1>3

(* Every step maps to a step or to none. *)
LEMMA StepMaps == IInv /\ IInv' /\ [Next]_vars => [W!Next]_(W!vars)
<1> SUFFICES ASSUME IInv, IInv', [Next]_vars PROVE [W!Next]_(W!vars)
  OBVIOUS
<1>s. W!Session = Session
  BY DEF W!Session, Session
<1>1. ASSUME NEW c \in Actor, NEW e \in BOOLEAN, CompleteWait(c, e)
      PROVE  UNCHANGED W!vars
  BY <1>1, Stutter DEF CompleteWait, connVars, Closed, Over
<1>2. CASE CallRun \/ RunReturns
  BY <1>2, Runs DEF W!Next
<1>3. ASSUME NEW s \in Session, CallbackCreates(s) \/ LoopCreates(s)
      PROVE  W!Next
  <2>1. (s < N) \in BOOLEAN /\ (s < N \/ s = N)
    BY Ids DEF Session
  <2>2. LoopCreates(s) => s = Id
    BY Ids DEF LoopCreates, Id
  <2>3. W!Accept(s)
    BY <1>3, <2>1, <2>2, Accepts DEF CallbackCreates, LoopCreates
  <2>4. QED
    BY <1>s, <2>3 DEF W!Next
<1>4. CASE CallbackCloses \/ LoopCloses
  BY <1>4, AcceptStops DEF CallbackCloses, LoopCloses, W!Next
<1>5. CASE SwitchEnters
  <2>1. accepting /\ accepting' /\ ~Over /\ ~Over' /\ UNCHANGED <<conn, progress>>
    BY <1>5, AcceptorHandles DEF SwitchEnters, connVars
  <2>2. QED
    BY <2>1, Stutter DEF Closed, Over
<1>6. ASSUME NEW s \in Session,
             CallbackConnect(s) \/ LoopConnect(s) \/ LoopRead(s) \/ LoopWrite(s)
      PROVE  W!Next
  BY <1>s, <1>6, ConnectionSteps DEF W!Next
<1>7. ASSUME NEW s \in Session, ConnectFails(s) PROVE W!Next
  BY <1>s, <1>7, ConnectionStops DEF W!Next
<1>8. CASE UNCHANGED vars
  BY <1>8, Stutter DEF vars, connVars, Closed, Over
<1>9. QED
  BY <1>1, <1>2, <1>3, <1>4, <1>5, <1>6, <1>7, <1>8 DEF Next, Program, Timers, Finished

(* The initial states map to initial states. *)
LEMMA InitMaps == Init => W!Init
<1>1. W!Session = Session
  BY DEF W!Session, Session
<1>2. QED
  BY <1>1, Ids DEF Init, W!Init

(* Each program does what Workflow asks, whatever the number of connections,  *)
(* of rounds and of failures and whatever the io_context.                      *)
THEOREM Refinement == Spec => RefinesWorkflow
<1>1. QED
  BY InitMaps, StepMaps, Invariance, PTL DEF Spec, RefinesWorkflow, W!Spec

------------------------------------------------------------------------------
(* PostStyles: the same three programs on asio::post. *)
P == INSTANCE PostStyles

PostPacket == [tag : {"handle", "accept", "stop"}, id : 0..N]

PostTypes ==
  /\ kind \in Kinds /\ style \in Styles
  /\ queue \in Seq(PostPacket) /\ pending = {} /\ stopped \in BOOLEAN
  /\ main \in {"begin", "start", "run", "returned"}
  /\ _id \in Nat /\ accepting \in BOOLEAN
  /\ data \in [Session -> {"none", "live", "gone"}]
  /\ offset \in [Session -> Nat] /\ output \in [Session -> Nat]

(* How many sessions have been created: the switch program's acceptor begins   *)
(* with the first one and counts afterwards.                                    *)
Made ==
  IF ~accepting THEN N
  ELSE IF style = "switch" /\ main # "begin" THEN _id + 1
  ELSE _id

PostMade ==
  /\ \A s \in Session : data[s] = "none" <=> s > Made
  /\ Made <= N
  /\ style = "stdcoro" /\ accepting => _id < N

(* What a session has written by the time its handler runs. *)
Worked(s) ==
  /\ data[s] = "none" => offset[s] = 0 /\ output[s] = 0
  /\ data[s] = "live" =>
       /\ style = "callback" => offset[s] <= Size /\ output[s] = offset[s]
       /\ style = "switch" => offset[s] < Size /\ output[s] = offset[s] + 1
       /\ style = "stdcoro" => offset[s] < Size /\ output[s] = offset[s]
  /\ data[s] = "gone" => offset[s] = Size /\ output[s] = Size

(* run() comes back, and the context stops, when everything is over. *)
PostOver == main # "begin" /\ ~accepting /\ \A s \in Session : data[s] # "live"
PostStops ==
  /\ stopped \/ ~Never(queue, StopPacket) \/ main = "returned" => PostOver
  /\ main \in {"begin", "start"} => accepting
  /\ main = "begin" => queue = <<>> /\ _id = 0

(* What the io_context is concerned with, and the inductive invariant. *)
PostQueue == PostTypes /\ P!OnePostedHandler /\ PostStops
Post == PostQueue /\ PostMade /\ \A s \in Session : Worked(s)

(* The module's copies of what it takes from IoContext. *)
LEMMA PostNames ==
  /\ P!Session = Session /\ P!StopPacket = StopPacket
  /\ \A q, x : (P!Once(q, x) <=> Once(q, x)) /\ (P!Never(q, x) <=> Never(q, x))
  /\ \A q, ops : P!Idle(q, ops) <=> Idle(q, ops)
  /\ \A q : P!Stop(q) <=> Stop(q)
  /\ (P!EnterRun <=> EnterRun) /\ (P!RefuseRun <=> RefuseRun) /\ (P!LeaveRun <=> LeaveRun)
  /\ P!CanDispatch <=> CanDispatch
  /\ \A q : P!HandlerDone(q) <=> HandlerDone(q)
<1>1. P!Session = Session /\ P!StopPacket = StopPacket
  BY DEF P!Session, Session, P!StopPacket, StopPacket
<1>2. \A q, x : (P!Once(q, x) <=> Once(q, x)) /\ (P!Never(q, x) <=> Never(q, x))
  BY DEF P!Once, Once, P!Never, Never
<1>3. \A q, ops : P!Idle(q, ops) <=> Idle(q, ops)
  BY <1>1 DEF P!Idle, Idle
<1>4. \A q : P!Stop(q) <=> Stop(q)
  BY <1>1 DEF P!Stop, Stop
<1>5. (P!EnterRun <=> EnterRun) /\ (P!RefuseRun <=> RefuseRun)
  BY <1>3, <1>4 DEF P!EnterRun, EnterRun, P!RefuseRun, RefuseRun
<1>6. P!LeaveRun <=> LeaveRun
  BY <1>1 DEF P!LeaveRun, LeaveRun
<1>7. P!CanDispatch <=> CanDispatch
  BY <1>1 DEF P!CanDispatch, CanDispatch
<1>8. \A q : P!HandlerDone(q) <=> HandlerDone(q)
  BY <1>3, <1>4 DEF P!HandlerDone, HandlerDone, P!HandlerLeaves, HandlerLeaves
<1>9. QED
  BY <1>1, <1>2, <1>3, <1>4, <1>5, <1>6, <1>7, <1>8

LEMMA PostPackets ==
  ASSUME P!PostStylesAssumption
  PROVE  /\ N \in Nat \ {0} /\ Size \in Nat \ {0} /\ Styles \subseteq {"callback", "switch", "stdcoro"}
         /\ Session \subseteq Nat /\ 1 \in Session
         /\ StopPacket \in PostPacket
         /\ P!AcceptHandle \in PostPacket \ {StopPacket}
         /\ \A s \in Session : P!Handle(s) \in PostPacket \ {StopPacket, P!AcceptHandle}
         /\ \A s, t \in Session : P!Handle(s) = P!Handle(t) => s = t
<1>1. N \in Nat \ {0} /\ Size \in Nat \ {0} /\ Styles \subseteq {"callback", "switch", "stdcoro"}
  BY DEF P!PostStylesAssumption
<1>2. /\ \A s : P!Handle(s).tag = "handle" /\ P!Handle(s).id = s
      /\ P!AcceptHandle.tag = "accept" /\ StopPacket.tag = "stop"
  BY DEF P!Handle, P!AcceptHandle, StopPacket
<1>3. /\ StopPacket \in PostPacket /\ P!AcceptHandle \in PostPacket
      /\ \A s \in Session : P!Handle(s) \in PostPacket
  BY <1>1 DEF P!Handle, P!AcceptHandle, StopPacket, PostPacket, Session
<1>4. Session \subseteq Nat /\ 1 \in Session
  BY <1>1 DEF Session
<1>5. QED
  BY <1>1, <1>2, <1>3, <1>4

(* The queue without its head, with what the head's handler posts. *)
LEMMA PostsNone ==
  ASSUME NEW S, NEW q \in Seq(S), q # <<>>, Once(q, Head(q))
  PROVE  /\ Tail(q) \o <<>> \in Seq(S) /\ Never(Tail(q) \o <<>>, Head(q))
         /\ \A x : x # Head(q) => Same(q, Tail(q) \o <<>>, x)
<1>1. Tail(q) \in Seq(S) /\ Tail(q) \o <<>> = Tail(q)
  BY HeadTailProperties, ConcatEmptySeq
<1>2. QED
  BY <1>1, TailSame, TailOther DEF Same

LEMMA PostsOne ==
  ASSUME NEW S, NEW q \in Seq(S), q # <<>>, Once(q, Head(q)), NEW a \in S,
         a = Head(q) \/ Never(q, a)
  PROVE  /\ Tail(q) \o <<a>> \in Seq(S) /\ Once(Tail(q) \o <<a>>, a)
         /\ a # Head(q) => Never(Tail(q) \o <<a>>, Head(q))
         /\ \A x : x # Head(q) /\ x # a => Same(q, Tail(q) \o <<a>>, x)
<1> DEFINE t == Tail(q)
<1>1. t \in Seq(S) /\ t \o <<a>> = Append(t, a)
  BY HeadTailProperties, AppendIsConcat
<1>2. /\ Never(t, Head(q)) /\ Never(t, a)
      /\ \A x : x # Head(q) => Same(q, t, x)
  BY TailSame, TailOther DEF Same
<1> HIDE DEF t
<1>3. Append(t, a) \in Seq(S) /\ Once(Append(t, a), a)
  BY <1>1, <1>2, AppendSame, AppendProperties
<1>4. \A x : x # a => Same(t, Append(t, a), x)
  BY <1>1, AppendOther DEF Same
<1>5. QED
  BY <1>1, <1>2, <1>3, <1>4 DEF Same, t

LEMMA PostsTwo ==
  ASSUME NEW S, NEW q \in Seq(S), q # <<>>, Once(q, Head(q)), NEW a \in S,
         a # Head(q), Never(q, a)
  PROVE  /\ Tail(q) \o <<a, Head(q)>> \in Seq(S)
         /\ Once(Tail(q) \o <<a, Head(q)>>, a) /\ Once(Tail(q) \o <<a, Head(q)>>, Head(q))
         /\ \A x : x # Head(q) /\ x # a => Same(q, Tail(q) \o <<a, Head(q)>>, x)
<1> DEFINE r == Tail(q) \o <<a>>
           h == Head(q)
<1>1. /\ r \in Seq(S) /\ Once(r, a) /\ Never(r, h)
      /\ \A x : x # h /\ x # a => Same(q, r, x)
  BY PostsOne
<1>2. h \in S /\ Tail(q) \in Seq(S)
  BY HeadTailProperties
<1>3. Tail(q) \o <<a, h>> = Append(r, h)
  <2>1. Tail(q) \o <<a>> = Append(Tail(q), a) /\ <<a, h>> = Append(<<a>>, h)
    BY <1>2, AppendIsConcat
  <2>2. <<a>> \in Seq(S) /\ <<h>> \in Seq(S) /\ <<a, h>> = <<a>> \o <<h>>
    BY <1>2
  <2>3. (Tail(q) \o <<a>>) \o <<h>> = Tail(q) \o (<<a>> \o <<h>>)
    BY <1>2, <2>2, ConcatAssociative
  <2>4. r \o <<h>> = Append(r, h)
    BY <1>1, <1>2, AppendIsConcat
  <2>5. QED
    BY <2>2, <2>3, <2>4
<1> HIDE DEF r, h
<1>4. Append(r, h) \in Seq(S) /\ Once(Append(r, h), h)
  BY <1>1, <1>2, AppendSame, AppendProperties
<1>5. \A x : x # h => Same(r, Append(r, h), x)
  BY <1>1, <1>2, AppendOther DEF Same
<1>6. a # h
  BY DEF h
<1>7. QED
  BY <1>1, <1>3, <1>4, <1>5, <1>6 DEF Same, h

(* The handler h has run and has posted the handlers that follow it in r. *)
LEMMA PostRan ==
  ASSUME P!PostStylesAssumption, PostQueue, NEW h \in PostPacket, h # StopPacket,
         NEW posts, P!Runs(h, posts)
  PROVE  /\ queue # <<>> /\ Head(queue) = h /\ main = "run" /\ main' = "run"
         /\ UNCHANGED <<kind, pending, style>>
         /\ queue \in Seq(PostPacket)
         /\ \A s \in Session : Once(queue, P!Handle(s)) <=> data[s] = "live"
         /\ \A s \in Session : Never(queue, P!Handle(s)) <=> data[s] # "live"
         /\ Once(queue, P!AcceptHandle) <=> accepting
         /\ ~Never(queue, h)
         /\ HandlerDone(Tail(queue) \o posts)
<1>1. /\ main = "run" /\ CanDispatch /\ Head(queue) = h
      /\ HandlerDone(Tail(queue) \o posts) /\ UNCHANGED <<kind, pending, style, main>>
  BY PostNames DEF P!Runs
<1>2. queue # <<>> /\ queue \in Seq(PostPacket) /\ accepting \in BOOLEAN
  BY <1>1 DEF CanDispatch, PostQueue, PostTypes
<1>3. ~Never(queue, h)
  BY <1>1, <1>2, HeadIsThere
<1>4. /\ IF accepting THEN Once(queue, P!AcceptHandle) ELSE Never(queue, P!AcceptHandle)
      /\ \A s \in Session :
           IF data[s] = "live" THEN Once(queue, P!Handle(s)) ELSE Never(queue, P!Handle(s))
  BY <1>1, PostNames DEF PostQueue, P!OnePostedHandler
<1>5. /\ \A s \in Session : Once(queue, P!Handle(s)) <=> data[s] = "live"
      /\ \A s \in Session : Never(queue, P!Handle(s)) <=> data[s] # "live"
  BY <1>4, OnceNotNever
<1>6. Once(queue, P!AcceptHandle) <=> accepting
  BY <1>4, OnceNotNever
<1>7. QED
  BY <1>1, <1>2, <1>3, <1>5, <1>6

(* What is left in order when such a handler is through, if its object was     *)
(* alive and exactly the objects that are alive have their handler in r.        *)
LEMMA PostHandled ==
  ASSUME P!PostStylesAssumption, PostQueue, NEW h \in PostPacket, h # StopPacket,
         NEW posts, P!Runs(h, posts), ~PostOver,
         NEW r \in Seq(PostPacket), r = Tail(queue) \o posts,
         Same(queue, r, StopPacket),
         accepting' \in BOOLEAN,
         IF accepting' THEN Once(r, P!AcceptHandle) ELSE Never(r, P!AcceptHandle),
         \A s \in Session :
           IF data'[s] = "live" THEN Once(r, P!Handle(s)) ELSE Never(r, P!Handle(s)),
         data' \in [Session -> {"none", "live", "gone"}],
         offset' \in [Session -> Nat], output' \in [Session -> Nat], _id' \in Nat
  PROVE  PostQueue' /\ main = "run" /\ main' = "run" /\ style' = style
<1>1. /\ main = "run" /\ main' = "run" /\ UNCHANGED <<kind, pending, style>>
      /\ HandlerDone(r)
  BY PostRan
<1>2. stopped = FALSE /\ Never(queue, StopPacket) /\ pending = {} /\ stopped \in BOOLEAN
  BY DEF PostQueue, PostStops, PostTypes
<1>3. /\ queue' \in Seq(PostPacket) /\ stopped' \in BOOLEAN
      /\ \A x : x # StopPacket => Same(r, queue', x)
  BY <1>1, <1>2, PostPackets, HandlerDoneKeeps DEF Same
<1>4. PostTypes'
  BY <1>1, <1>3 DEF PostQueue, PostTypes
<1>5. P!OnePostedHandler'
  <2>1. IF accepting' THEN Once(queue', P!AcceptHandle) ELSE Never(queue', P!AcceptHandle)
    BY <1>3, PostPackets DEF Same
  <2>2. ASSUME NEW s \in Session
        PROVE  IF data'[s] = "live" THEN Once(queue', P!Handle(s)) ELSE Never(queue', P!Handle(s))
    BY <1>3, PostPackets DEF Same
  <2>3. P!AcceptHandle' = P!AcceptHandle /\ \A s : P!Handle(s)' = P!Handle(s)
    BY DEF P!AcceptHandle, P!Handle
  <2>4. QED
    BY <2>1, <2>2, <2>3, PostNames DEF P!OnePostedHandler, P!Once, P!Never, Once, Never
<1>6. stopped' \/ ~Never(queue', StopPacket) => PostOver'
  <2>1. CASE Idle(r, pending)
    <3>1. \A x : x # StopPacket => Never(r, x)
      BY <2>1 DEF Idle, Never
    <3>2. ~accepting' /\ \A s \in Session : data'[s] # "live"
      BY <3>1, PostPackets, OnceNotNever
    <3>3. QED
      BY <1>1, <3>2 DEF PostOver
  <2>2. CASE ~Idle(r, pending)
    <3>1. queue' = r /\ stopped' = stopped
      BY <1>1, <2>2 DEF HandlerDone, HandlerLeaves
    <3>2. QED
      BY <1>2, <3>1 DEF Same
  <2>3. QED
    BY <2>1, <2>2
<1>7. PostStops'
  BY <1>1, <1>6 DEF PostStops
<1>8. QED
  BY <1>1, <1>4, <1>5, <1>7 DEF PostQueue

(* The acceptor's handler creates session n and goes on accepting or not. *)
LEMMA PostCreates ==
  ASSUME P!PostStylesAssumption, PostQueue, NEW n \in Session, data[n] = "none",
         NEW posts, P!Runs(P!AcceptHandle, posts),
         \/ accepting' = TRUE /\ posts = <<P!Handle(n), P!AcceptHandle>>
         \/ accepting' = FALSE /\ posts = <<P!Handle(n)>>,
         data' = [data EXCEPT ![n] = "live"],
         offset' \in [Session -> Nat], output' \in [Session -> Nat], _id' \in Nat
  PROVE  PostQueue' /\ accepting /\ main = "run" /\ main' = "run" /\ style' = style
<1> DEFINE A == P!AcceptHandle
           H(s) == P!Handle(s)
           r == Tail(queue) \o posts
<1>1. /\ queue # <<>> /\ Head(queue) = A /\ queue \in Seq(PostPacket) /\ main = "run"
      /\ \A s \in Session : Once(queue, H(s)) <=> data[s] = "live"
      /\ \A s \in Session : Never(queue, H(s)) <=> data[s] # "live"
      /\ Once(queue, A) <=> accepting
      /\ ~Never(queue, A)
  BY PostRan, PostPackets
<1>2. accepting /\ ~PostOver
  BY <1>1, PostNames DEF PostQueue, P!OnePostedHandler, PostOver
<1>3. H(n) \in PostPacket /\ H(n) # A /\ Never(queue, H(n)) /\ H(n) # StopPacket /\ A # StopPacket
      /\ A \in PostPacket
  BY <1>1, PostPackets
<1>4. /\ r \in Seq(PostPacket) /\ Once(r, H(n)) /\ Same(queue, r, StopPacket)
      /\ \A x : x # A /\ x # H(n) => Same(queue, r, x)
      /\ IF accepting' THEN Once(r, A) ELSE Never(r, A)
  <2>1. CASE accepting' = TRUE /\ posts = <<H(n), A>>
    BY <1>1, <1>2, <1>3, <2>1, PostsTwo
  <2>2. CASE accepting' = FALSE /\ posts = <<H(n)>>
    BY <1>1, <1>2, <1>3, <2>2, PostsOne
  <2>3. QED
    BY <2>1, <2>2
<1>5. data' \in [Session -> {"none", "live", "gone"}]
  BY DEF PostQueue, PostTypes
<1>6. ASSUME NEW s \in Session
      PROVE  IF data'[s] = "live" THEN Once(r, H(s)) ELSE Never(r, H(s))
  <2>1. CASE s = n
    BY <1>4, <2>1 DEF PostQueue, PostTypes
  <2>2. CASE s # n
    <3>1. H(s) # A /\ H(s) # H(n) /\ data'[s] = data[s]
      BY <2>2, PostPackets DEF PostQueue, PostTypes
    <3>2. QED
      BY <1>1, <1>4, <3>1 DEF Same
  <2>3. QED
    BY <2>1, <2>2
<1> HIDE DEF r
<1>7. accepting' \in BOOLEAN
  OBVIOUS
<1>8. r = Tail(queue) \o posts
  BY DEF r
<1>9. PostQueue' /\ main = "run" /\ main' = "run" /\ style' = style
  BY <1>2, <1>3, <1>4, <1>5, <1>6, <1>7, <1>8, PostHandled
<1>10. QED
  BY <1>2, <1>9

(* The acceptor's handler posts nothing. *)
LEMMA PostAcceptEnds ==
  ASSUME P!PostStylesAssumption, PostQueue, P!Runs(P!AcceptHandle, <<>>), P!AcceptEnds
  PROVE  PostQueue' /\ accepting /\ main = "run" /\ main' = "run" /\ style' = style
<1> DEFINE A == P!AcceptHandle
           r == Tail(queue) \o <<>>
<1>1. /\ queue # <<>> /\ Head(queue) = A /\ queue \in Seq(PostPacket)
      /\ \A s \in Session : Once(queue, P!Handle(s)) <=> data[s] = "live"
      /\ \A s \in Session : Never(queue, P!Handle(s)) <=> data[s] # "live"
      /\ Once(queue, A) <=> accepting
      /\ ~Never(queue, A) /\ main = "run"
  BY PostRan, PostPackets
<1>2. accepting /\ ~PostOver
  BY <1>1, PostNames DEF PostQueue, P!OnePostedHandler, PostOver
<1>3. /\ r \in Seq(PostPacket) /\ Never(r, A) /\ \A x : x # A => Same(queue, r, x)
  BY <1>1, <1>2, PostsNone
<1>4. accepting' = FALSE /\ UNCHANGED <<_id, data, offset, output>>
  BY DEF P!AcceptEnds
<1>5. /\ data' \in [Session -> {"none", "live", "gone"}]
      /\ offset' \in [Session -> Nat] /\ output' \in [Session -> Nat] /\ _id' \in Nat
  BY <1>4 DEF PostQueue, PostTypes
<1>6. ASSUME NEW s \in Session
      PROVE  IF data'[s] = "live" THEN Once(r, P!Handle(s)) ELSE Never(r, P!Handle(s))
  BY <1>1, <1>3, <1>4, PostPackets DEF Same
<1>7. A \in PostPacket /\ A # StopPacket /\ Same(queue, r, StopPacket) /\ r = Tail(queue) \o <<>>
  BY <1>3, PostPackets
<1> HIDE DEF r
<1>8. PostQueue' /\ main = "run" /\ main' = "run" /\ style' = style
  BY <1>2, <1>3, <1>4, <1>5, <1>6, <1>7, PostHandled
<1>9. QED
  BY <1>2, <1>8

(* The handler of session s posts itself, or nothing and the session is gone. *)
LEMMA PostSession ==
  ASSUME P!PostStylesAssumption, PostQueue, NEW s \in Session, NEW posts,
         P!Runs(P!Handle(s), posts), UNCHANGED <<_id, accepting>>,
         \/ posts = <<P!Handle(s)>> /\ UNCHANGED data
         \/ posts = <<>> /\ P!Goes(s),
         offset' \in [Session -> Nat], output' \in [Session -> Nat]
  PROVE  PostQueue' /\ data[s] = "live" /\ main = "run" /\ main' = "run" /\ style' = style
<1> DEFINE A == P!AcceptHandle
           H(t) == P!Handle(t)
           r == Tail(queue) \o posts
<1>1. /\ queue # <<>> /\ Head(queue) = H(s) /\ queue \in Seq(PostPacket) /\ main = "run"
      /\ \A t \in Session : Once(queue, H(t)) <=> data[t] = "live"
      /\ \A t \in Session : Never(queue, H(t)) <=> data[t] # "live"
      /\ Once(queue, A) <=> accepting
      /\ ~Never(queue, H(s))
  BY PostRan, PostPackets
<1>2. data[s] = "live" /\ ~PostOver
  BY <1>1 DEF PostOver
<1>3. H(s) \in PostPacket /\ H(s) # A /\ H(s) # StopPacket /\ A # StopPacket /\ Once(queue, H(s))
  BY <1>1, <1>2, PostPackets
<1>4. /\ r \in Seq(PostPacket) /\ \A x : x # H(s) => Same(queue, r, x)
      /\ IF data'[s] = "live" THEN Once(r, H(s)) ELSE Never(r, H(s))
      /\ data' \in [Session -> {"none", "live", "gone"}]
      /\ \A t \in Session : t # s => data'[t] = data[t]
  <2>1. CASE posts = <<H(s)>> /\ UNCHANGED data
    BY <1>1, <1>2, <1>3, <2>1, PostsOne DEF PostQueue, PostTypes
  <2>2. CASE posts = <<>> /\ P!Goes(s)
    <3>1. /\ r \in Seq(PostPacket) /\ Never(r, H(s))
          /\ \A x : x # H(s) => Same(queue, r, x)
      BY <1>1, <1>3, <2>2, PostsNone
    <3>2. data' \in [Session -> {"none", "live", "gone"}] /\ data'[s] = "gone"
          /\ \A t \in Session : t # s => data'[t] = data[t]
      BY <2>2 DEF P!Goes, PostQueue, PostTypes
    <3> HIDE DEF r
    <3>3. QED
      BY <3>1, <3>2
  <2>3. QED
    BY <2>1, <2>2
<1>5. ASSUME NEW t \in Session
      PROVE  IF data'[t] = "live" THEN Once(r, H(t)) ELSE Never(r, H(t))
  <2>1. CASE t = s
    BY <1>4, <2>1
  <2>2. CASE t # s
    <3>1. H(t) # H(s) /\ data'[t] = data[t]
      BY <1>4, <2>2, PostPackets
    <3>2. QED
      BY <1>1, <1>4, <3>1 DEF Same
  <2>3. QED
    BY <2>1, <2>2
<1>6. IF accepting' THEN Once(r, A) ELSE Never(r, A)
  <2>1. IF accepting THEN Once(queue, A) ELSE Never(queue, A)
    BY <1>1, PostNames DEF PostQueue, P!OnePostedHandler
  <2>2. QED
    BY <1>3, <1>4, <2>1 DEF Same
<1>7. accepting' \in BOOLEAN /\ _id' \in Nat
  BY DEF PostQueue, PostTypes
<1>8. Same(queue, r, StopPacket) /\ r = Tail(queue) \o posts
  BY <1>3, <1>4
<1> HIDE DEF r
<1>9. PostQueue' /\ main = "run" /\ main' = "run" /\ style' = style
  BY <1>2, <1>3, <1>4, <1>5, <1>6, <1>7, <1>8, PostHandled
<1>10. QED
  BY <1>2, <1>9

(* The values PostStyles gives to Workflow's variables, and Workflow's steps. *)
PostState == [s \in Session |-> IF data[s] = "none" THEN "new" ELSE "active"]
PostProgress == [s \in Session |-> IF data[s] = "gone" THEN output[s] ELSE offset[s]]
PostReturned == main = "returned"

PostAccepts(n) ==
  /\ PostState[n] = "new" /\ \A r \in 1..(n - 1) : PostState[r] # "new"
  /\ PostState' = [PostState EXCEPT ![n] = "active"]
  /\ PostProgress' = [PostProgress EXCEPT ![n] = 0]
  /\ ~PostReturned /\ ~PostReturned'
PostSteps(s) ==
  /\ PostState[s] = "active" /\ PostProgress[s] < Size
  /\ PostProgress' = [PostProgress EXCEPT ![s] = @ + 1]
  /\ PostState' = PostState
  /\ ~PostReturned /\ ~PostReturned'
PostStutters == PostState' = PostState /\ PostProgress' = PostProgress /\ PostReturned' = PostReturned

LEMMA PostMaps ==
  /\ \A n \in Session : PostAccepts(n) \/ PostSteps(n) => PostW!Next
  /\ PostStutters => UNCHANGED PostW!vars
<1>1. PostW!Session = Session /\ P!Session = Session
  BY DEF PostW!Session, P!Session, Session
<1>2. ASSUME NEW n \in Session, PostAccepts(n) PROVE PostW!Accept(n)
  BY <1>1, <1>2 DEF PostAccepts, PostW!Accept, PostState, PostProgress, PostReturned
<1>3. ASSUME NEW n \in Session, PostSteps(n) PROVE PostW!Step(n)
  BY <1>1, <1>3 DEF PostSteps, PostW!Step, PostState, PostProgress, PostReturned
<1>4. PostStutters => UNCHANGED PostW!vars
  BY <1>1 DEF PostStutters, PostW!vars, PostState, PostProgress, PostReturned
<1>5. QED
  BY <1>1, <1>2, <1>3, <1>4 DEF PostW!Next

LEMMA PostFacts ==
  ASSUME P!PostStylesAssumption, Post
  PROVE  /\ data \in [Session -> {"none", "live", "gone"}]
         /\ offset \in [Session -> Nat] /\ output \in [Session -> Nat]
         /\ _id \in Nat /\ accepting \in BOOLEAN
         /\ style \in {"callback", "switch", "stdcoro"}
         /\ PostQueue /\ PostMade /\ \A s \in Session : Worked(s)
BY PostPackets DEF Post, PostQueue, PostTypes

(* The next session, number n, has been created and has written w characters. *)
LEMMA PostCreated ==
  ASSUME P!PostStylesAssumption, Post, NEW n \in Session, n = Made + 1,
         PostQueue', ~PostReturned, ~PostReturned', style' = style,
         data' = [data EXCEPT ![n] = "live"], offset' = offset,
         output' = IF style = "switch" THEN [output EXCEPT ![n] = @ + 1] ELSE output,
         Made' = n, style = "stdcoro" /\ accepting' => _id' < N
  PROVE  Post' /\ PostAccepts(n)
<1>1. /\ data \in [Session -> {"none", "live", "gone"}]
      /\ offset \in [Session -> Nat] /\ output \in [Session -> Nat]
      /\ style \in {"callback", "switch", "stdcoro"}
      /\ \A s \in Session : data[s] = "none" <=> s > Made
      /\ \A s \in Session : Worked(s)
      /\ N \in Nat \ {0} /\ Size \in Nat \ {0}
  BY PostFacts, PostPackets DEF PostMade
<1>2. n \in 1..N /\ Made \in Nat
  <2>1. Made \in Nat
    BY PostFacts, PostPackets DEF Made
  <2>2. QED
    BY <2>1 DEF Session
<1>3. data[n] = "none" /\ offset[n] = 0 /\ output[n] = 0
  BY <1>1, <1>2 DEF Worked
<1>4. /\ data'[n] = "live" /\ \A s \in Session : s # n => data'[s] = data[s]
      /\ \A s \in Session : s # n => output'[s] = output[s]
      /\ output'[n] = IF style = "switch" THEN 1 ELSE 0
  BY <1>1, <1>3
<1>5. PostMade'
  <2>1. \A s \in Session : data'[s] = "none" <=> s > Made'
    BY <1>1, <1>2, <1>4 DEF Session
  <2>2. QED
    BY <1>1, <1>2, <2>1 DEF PostMade
<1>6. ASSUME NEW s \in Session PROVE Worked(s)'
  <2>1. CASE s = n
    BY <1>1, <1>3, <1>4, <2>1 DEF Worked
  <2>2. CASE s # n
    BY <1>1, <1>4, <2>2 DEF Worked
  <2>3. QED
    BY <2>1, <2>2
<1>7. Post'
  BY <1>5, <1>6 DEF Post
<1>8. PostState' = [PostState EXCEPT ![n] = "active"]
  BY <1>1, <1>4 DEF PostState
<1>9. PostProgress' = [PostProgress EXCEPT ![n] = 0]
  <2>1. \A s \in Session : s # n =>
          (IF data'[s] = "gone" THEN output'[s] ELSE offset'[s])
            = (IF data[s] = "gone" THEN output[s] ELSE offset[s])
    BY <1>4
  <2>2. QED
    BY <1>3, <1>4, <2>1 DEF PostProgress
<1>10. PostState[n] = "new" /\ \A r \in 1..(n - 1) : PostState[r] # "new"
  <2>1. \A r \in 1..(n - 1) : r \in Session /\ ~(r > Made)
    BY <1>1, <1>2 DEF Session
  <2>2. QED
    BY <1>1, <1>3, <2>1 DEF PostState
<1>11. QED
  BY <1>7, <1>8, <1>9, <1>10 DEF PostAccepts

(* Queues of one and of two handlers. *)
LEMMA ShortQueues ==
  ASSUME NEW S, NEW a \in S, NEW b \in S, a # b
  PROVE  /\ <<a, b>> \in Seq(S) /\ Once(<<a, b>>, a) /\ Once(<<a, b>>, b)
         /\ <<b>> \in Seq(S) /\ Once(<<b>>, b)
         /\ \A x : x # b => Never(<<b>>, x) /\ (x # a => Never(<<a, b>>, x))
<1>1. <<a, b>> \in Seq(S) /\ <<b>> \in Seq(S)
  OBVIOUS
<1>2. /\ DOMAIN <<a, b>> = {1, 2} /\ <<a, b>>[1] = a /\ <<a, b>>[2] = b
      /\ DOMAIN <<b>> = {1} /\ <<b>>[1] = b
  OBVIOUS
<1>3. QED
  BY <1>1, <1>2, Zenon DEF Once, Never

LEMMA CountedUp ==
  ASSUME NEW f \in [Session -> Nat], NEW n \in Session
  PROVE  [f EXCEPT ![n] = @ + 1] \in [Session -> Nat]
<1>1. f[n] + 1 \in Nat
  OBVIOUS
<1>2. QED
  BY <1>1

LEMMA JoinTwo ==
  ASSUME NEW a, NEW b
  PROVE  <<a>> \o <<b>> = <<a, b>>
<1> DEFINE S == {a, b}
<1>1. <<a>> \in Seq(S) /\ b \in S /\ <<a, b>> = Append(<<a>>, b)
  OBVIOUS
<1> HIDE DEF S
<1>2. QED
  BY <1>1, AppendIsConcat

(* The test starts the program; the switch program creates its first session. *)
LEMMA PostBegins ==
  ASSUME P!PostStylesAssumption, Post, P!Begin
  PROVE  Post' /\ [PostW!Next]_(PostW!vars)
<1> DEFINE A == P!AcceptHandle
           H(s) == P!Handle(s)
<1>1. /\ main = "begin" /\ main' = "start"
      /\ IF style = "switch" THEN queue' = <<H(1), A>> /\ P!Creates(1, TRUE)
         ELSE queue' = <<A>> /\ UNCHANGED <<data, offset, output>>
      /\ UNCHANGED <<kind, pending, stopped, style, _id, accepting>>
  BY DEF P!Begin
<1>2. /\ queue = <<>> /\ _id = 0 /\ accepting = TRUE /\ stopped = FALSE
      /\ PostTypes /\ PostMade /\ \A s \in Session : Worked(s)
      /\ PostQueue
  BY <1>1 DEF Post, PostQueue, PostStops, PostOver, PostTypes
<1>3. /\ A \in PostPacket /\ H(1) \in PostPacket /\ H(1) # A
      /\ \A s \in Session : H(s) # A /\ (s # 1 => H(s) # H(1))
      /\ A # StopPacket /\ H(1) # StopPacket /\ 1 \in Session
      /\ N \in Nat \ {0} /\ Session \subseteq Nat
  BY PostPackets
<1>4. \A s \in Session : data[s] = "none"
  BY <1>1, <1>2, <1>3 DEF PostMade, Made, Session
<1> HIDE DEF A, H
<1>q. /\ <<H(1), A>> \in Seq(PostPacket) /\ Once(<<H(1), A>>, H(1)) /\ Once(<<H(1), A>>, A)
      /\ <<A>> \in Seq(PostPacket) /\ Once(<<A>>, A)
      /\ \A x : x # A => Never(<<A>>, x) /\ (x # H(1) => Never(<<H(1), A>>, x))
  BY <1>3, ShortQueues
<1>5. queue' \in Seq(PostPacket) /\ Once(queue', A) /\ Never(queue', StopPacket)
  BY <1>1, <1>3, <1>q DEF A, H
<1>6. ASSUME style = "switch"
      PROVE  /\ data' = [data EXCEPT ![1] = "live"] /\ offset' = offset
             /\ output' = [output EXCEPT ![1] = @ + 1]
             /\ \A s \in Session : IF data'[s] = "live" THEN Once(queue', H(s))
                                   ELSE Never(queue', H(s))
  <2>1. /\ data' = [data EXCEPT ![1] = "live"] /\ offset' = offset
        /\ output' = [output EXCEPT ![1] = @ + 1] /\ queue' = <<H(1), A>>
    BY <1>1, <1>6 DEF P!Creates, A, H
  <2>2. ASSUME NEW s \in Session
        PROVE  IF data'[s] = "live" THEN Once(queue', H(s)) ELSE Never(queue', H(s))
    <3>1. CASE s = 1
      BY <1>2, <1>3, <1>q, <2>1, <3>1 DEF PostTypes
    <3>2. CASE s # 1
      BY <1>2, <1>3, <1>4, <1>q, <2>1, <3>2 DEF PostTypes
    <3>3. QED
      BY <3>1, <3>2
  <2>3. QED
    BY <2>1, <2>2
<1>7. ASSUME style # "switch", NEW s \in Session
      PROVE  data'[s] # "live" /\ Never(queue', H(s))
  BY <1>1, <1>3, <1>4, <1>7, <1>q DEF A, H
<1>8. PostQueue'
  <2>1. PostTypes'
    <3>1. /\ data' \in [Session -> {"none", "live", "gone"}]
          /\ offset' \in [Session -> Nat] /\ output' \in [Session -> Nat]
      <4>1. CASE style = "switch"
        <5>1. /\ [data EXCEPT ![1] = "live"] \in [Session -> {"none", "live", "gone"}]
              /\ [output EXCEPT ![1] = @ + 1] \in [Session -> Nat]
          BY <1>2, <1>3, CountedUp DEF PostTypes
        <5>2. QED
          BY <1>2, <1>6, <4>1, <5>1 DEF PostTypes
      <4>2. CASE style # "switch"
        BY <1>1, <1>2, <4>2 DEF PostTypes
      <4>3. QED
        BY <4>1, <4>2
    <3>2. QED
      BY <1>1, <1>2, <1>5, <3>1 DEF PostTypes
  <2>2. P!OnePostedHandler'
    <3>1. \A s \in Session : IF data'[s] = "live" THEN Once(queue', H(s)) ELSE Never(queue', H(s))
      BY <1>6, <1>7
    <3>2. accepting' = TRUE /\ Once(queue', A)
      BY <1>1, <1>2, <1>5
    <3>3. P!AcceptHandle' = P!AcceptHandle /\ \A s : P!Handle(s)' = P!Handle(s)
      BY DEF P!AcceptHandle, P!Handle
    <3>4. QED
      BY <3>1, <3>2, <3>3, PostNames DEF P!OnePostedHandler, P!Once, P!Never, Once, Never, A, H
  <2>3. PostStops'
    BY <1>1, <1>2, <1>5 DEF PostStops
  <2>4. QED
    BY <2>1, <2>2, <2>3 DEF PostQueue
<1>9. CASE style = "switch"
  <2>1. Made = 0 /\ Made' = 1
    BY <1>1, <1>2, <1>9 DEF Made
  <2>2. Post' /\ PostAccepts(1)
    BY <1>1, <1>3, <1>6, <1>8, <1>9, <2>1, PostCreated DEF PostReturned
  <2>3. QED
    BY <1>3, <2>2, PostMaps
<1>10. CASE style # "switch"
  <2>1. UNCHANGED <<data, offset, output, style, _id, accepting>>
    BY <1>1, <1>10
  <2>2. PostMade' /\ \A s \in Session : Worked(s)'
    BY <1>2, <1>10, <2>1 DEF PostMade, Made, Worked
  <2>3. PostStutters
    BY <1>1, <2>1 DEF PostStutters, PostState, PostProgress, PostReturned
  <2>4. QED
    BY <1>8, <2>2, <2>3, PostMaps DEF Post
<1>11. QED
  BY <1>9, <1>10

(* run() is called, and comes back. *)
LEMMA PostRuns ==
  ASSUME P!PostStylesAssumption, Post, P!CallRun \/ P!RunReturns
  PROVE  Post' /\ [PostW!Next]_(PostW!vars)
<1>1. /\ PostQueue /\ PostTypes /\ P!OnePostedHandler /\ PostStops
      /\ PostMade /\ \A s \in Session : Worked(s)
  BY DEF Post, PostQueue
<1>2. /\ UNCHANGED <<kind, pending, style, _id, accepting, data, offset, output>>
      /\ main \in {"start", "run"} /\ main' \in {"run", "returned"}
      /\ EnterRun \/ LeaveRun
      /\ main' = "returned" => LeaveRun /\ main = "run"
  <2>1. CASE P!CallRun
    <3>1. /\ main = "start"
          /\ IF Idle(queue, pending) THEN RefuseRun /\ main' = "returned" ELSE EnterRun /\ main' = "run"
          /\ UNCHANGED <<kind, pending, style, _id, accepting, data, offset, output>>
      BY <2>1, PostNames DEF P!CallRun
    <3>2. Once(queue, P!AcceptHandle)
      BY <1>1, <3>1, PostNames DEF PostStops, P!OnePostedHandler
    <3>3. ~Idle(queue, pending)
      BY <3>2, PostPackets DEF Idle, Once
    <3>4. QED
      BY <3>1, <3>3
  <2>2. CASE P!RunReturns
    BY <2>2, PostNames DEF P!RunReturns
  <2>3. QED
    BY <2>1, <2>2
<1>3. /\ queue' \in Seq(PostPacket) /\ stopped' \in BOOLEAN
      /\ \A x : x # StopPacket => (Once(queue', x) <=> Once(queue, x))
                                  /\ (Never(queue', x) <=> Never(queue, x))
  BY <1>1, <1>2, PostPackets, EnterRunKeeps, LeaveRunKeeps DEF PostTypes
<1>4. main' = "returned" \/ stopped' \/ ~Never(queue', StopPacket) => PostOver
  <2>1. EnterRun => (stopped' => stopped) /\ queue' = queue
    BY DEF EnterRun
  <2>2. LeaveRun => stopped \/ ~Never(queue, StopPacket)
    <3>1. ASSUME queue # <<>>, Head(queue) = StopPacket PROVE ~Never(queue, StopPacket)
      BY <1>1, <3>1, HeadIsThere DEF PostTypes
    <3>2. QED
      BY <3>1 DEF LeaveRun
  <2>3. QED
    BY <1>1, <1>2, <2>1, <2>2 DEF PostStops
<1>5. PostQueue'
  <2>1. PostTypes'
    BY <1>1, <1>2, <1>3 DEF PostTypes
  <2>2. P!OnePostedHandler'
    <3>1. /\ IF accepting THEN Once(queue, P!AcceptHandle) ELSE Never(queue, P!AcceptHandle)
          /\ \A s \in Session :
               IF data[s] = "live" THEN Once(queue, P!Handle(s)) ELSE Never(queue, P!Handle(s))
      BY <1>1, <1>2, PostNames DEF P!OnePostedHandler
    <3>2. /\ IF accepting' THEN Once(queue', P!AcceptHandle) ELSE Never(queue', P!AcceptHandle)
          /\ \A s \in Session :
               IF data'[s] = "live" THEN Once(queue', P!Handle(s)) ELSE Never(queue', P!Handle(s))
      BY <1>2, <1>3, <3>1, PostPackets
    <3>3. P!AcceptHandle' = P!AcceptHandle /\ \A s : P!Handle(s)' = P!Handle(s)
      BY DEF P!AcceptHandle, P!Handle
    <3>4. QED
      BY <3>2, <3>3, PostNames DEF P!OnePostedHandler, P!Once, P!Never, Once, Never
  <2>3. PostOver => PostOver'
    BY <1>2 DEF PostOver
  <2>4. PostStops'
    BY <1>2, <1>4, <2>3 DEF PostStops
  <2>5. QED
    BY <2>1, <2>2, <2>4 DEF PostQueue
<1>6. Post'
  BY <1>1, <1>2, <1>5 DEF Post, PostMade, Made, Worked
<1>7. PostState' = PostState /\ PostProgress' = PostProgress /\ ~PostReturned
  BY <1>2 DEF PostState, PostProgress, PostReturned
<1>8. CASE main' = "returned"
  <2>1. PostOver
    BY <1>4, <1>8
  <2>2. \A s \in Session : PostState[s] = "active" /\ PostProgress[s] = Size
    <3>1. Made = N /\ N \in Nat
      BY <2>1, PostPackets DEF Made, PostOver
    <3>2. ASSUME NEW s \in Session PROVE data[s] = "gone" /\ output[s] = Size
      <4>1. data[s] \in {"none", "live", "gone"} /\ data[s] # "live"
        BY <1>1, <2>1 DEF PostTypes, PostOver
      <4>2. data[s] # "none"
        BY <1>1, <3>1 DEF PostMade, Session
      <4>3. QED
        BY <1>1, <4>1, <4>2 DEF Worked
    <3>3. QED
      BY <3>2 DEF PostState, PostProgress
  <2>3. PostW!Session = Session /\ P!Session = Session
    BY DEF PostW!Session, P!Session, Session
  <2>4. PostW!Return
    BY <1>7, <1>8, <2>2, <2>3 DEF PostW!Return, PostW!Over, PostState, PostProgress, PostReturned
  <2>5. QED
    BY <1>6, <2>4 DEF PostW!Next
<1>9. CASE main' # "returned"
  BY <1>6, <1>7, <1>9, PostMaps DEF PostStutters, PostReturned
<1>10. QED
  BY <1>8, <1>9

(* accept_handle, in each of the three programs. *)
LEMMA PostAcceptSteps ==
  ASSUME P!PostStylesAssumption, Post, P!CallbackAccept \/ P!SwitchAccept \/ P!CoroAccept
  PROVE  Post' /\ [PostW!Next]_(PostW!vars)
<1> DEFINE A == P!AcceptHandle
<1>1. /\ PostQueue /\ PostMade /\ \A s \in Session : Worked(s)
      /\ _id \in Nat /\ accepting \in BOOLEAN
      /\ offset \in [Session -> Nat] /\ output \in [Session -> Nat]
      /\ N \in Nat \ {0}
  BY PostFacts, PostPackets
<1>2. ASSUME NEW n \in Nat, P!Runs(A, <<P!Handle(n), A>>) \/ P!Runs(A, <<P!Handle(n)>>)
      PROVE  accepting /\ main = "run"
  <2>1. PICK posts : P!Runs(A, posts)
    BY <1>2
  <2>2. main = "run" /\ ~Never(queue, A)
    BY <1>1, <2>1, PostRan, PostPackets
  <2>3. QED
    BY <1>1, <2>2, PostNames DEF PostQueue, P!OnePostedHandler
<1>3. ASSUME NEW n \in Nat, n = Made + 1, n <= N,
             \/ P!Runs(A, <<P!Handle(n), A>>) /\ accepting' = TRUE
             \/ P!Runs(A, <<P!Handle(n)>>) /\ accepting' = FALSE,
             P!Creates(n, style = "switch"), _id' \in Nat,
             accepting => Made' = n /\ (style = "stdcoro" /\ accepting' => _id' < N)
      PROVE  Post' /\ [PostW!Next]_(PostW!vars)
  <2>1. n \in Session /\ data[n] = "none"
    <3>1. Made \in Nat
      BY <1>1 DEF Made
    <3>2. n \in Session /\ n > Made
      BY <1>1, <1>3, <3>1 DEF Session
    <3>3. QED
      BY <1>1, <3>2 DEF PostMade
  <2>2. /\ data' = [data EXCEPT ![n] = "live"] /\ offset' = offset
        /\ output' = IF style = "switch" THEN [output EXCEPT ![n] = @ + 1] ELSE output
    BY <1>3 DEF P!Creates
  <2>3. offset' \in [Session -> Nat] /\ output' \in [Session -> Nat]
    <3>1. [output EXCEPT ![n] = @ + 1] \in [Session -> Nat]
      BY <1>1, <2>1, CountedUp
    <3>2. QED
      BY <1>1, <2>2, <3>1
  <2>4. PICK posts : /\ P!Runs(A, posts)
                     /\ \/ accepting' = TRUE /\ posts = <<P!Handle(n), A>>
                        \/ accepting' = FALSE /\ posts = <<P!Handle(n)>>
    BY <1>3
  <2>5. PostQueue' /\ accepting /\ main = "run" /\ main' = "run" /\ style' = style
    BY <1>1, <1>3, <2>1, <2>2, <2>3, <2>4, PostCreates
  <2>6. ~PostReturned /\ ~PostReturned'
    BY <2>5 DEF PostReturned
  <2>7. Post' /\ PostAccepts(n)
    BY <1>3, <2>1, <2>2, <2>5, <2>6, PostCreated
  <2>8. QED
    BY <2>1, <2>7, PostMaps
<1>4. ASSUME P!Runs(A, <<>>), P!AcceptEnds, accepting => Made = N
      PROVE  Post' /\ [PostW!Next]_(PostW!vars)
  <2>1. PostQueue' /\ accepting /\ main = "run" /\ main' = "run" /\ style' = style
    BY <1>1, <1>4, PostAcceptEnds
  <2>2. accepting' = FALSE /\ UNCHANGED <<_id, data, offset, output>>
    BY <1>4 DEF P!AcceptEnds
  <2>3. Made' = N /\ Made = N
    BY <1>4, <2>1, <2>2 DEF Made
  <2>4. PostMade' /\ \A s \in Session : Worked(s)'
    BY <1>1, <2>1, <2>2, <2>3 DEF PostMade, Worked
  <2>5. PostStutters
    BY <2>1, <2>2 DEF PostStutters, PostState, PostProgress, PostReturned
  <2>6. QED
    BY <2>1, <2>4, <2>5, PostMaps DEF Post
<1>5. CASE P!CallbackAccept
  <2>1. CASE _id < N
    <3>1. /\ style = "callback" /\ P!Runs(A, <<P!Handle(_id + 1), A>>)
          /\ P!Creates(_id + 1, FALSE) /\ _id' = _id + 1 /\ accepting' = accepting
      BY <1>5, <2>1 DEF P!CallbackAccept
    <3>2. _id + 1 \in Nat /\ _id + 1 <= N /\ _id' \in Nat
      BY <1>1, <2>1, <3>1
    <3>3. accepting = TRUE
      BY <1>1, <1>2, <3>1, <3>2
    <3>4. style' = style
      BY <3>1 DEF P!Runs
    <3>5. Made = _id /\ Made' = _id + 1
      BY <3>1, <3>3, <3>4 DEF Made
    <3>6. P!Creates(_id + 1, style = "switch")
      BY <3>1 DEF P!Creates
    <3>7. QED
      BY <1>3, <3>1, <3>2, <3>3, <3>5, <3>6
  <2>2. CASE ~(_id < N)
    <3>1. style = "callback" /\ P!Runs(A, <<>>) /\ P!AcceptEnds
      BY <1>5, <2>2 DEF P!CallbackAccept
    <3>2. accepting => Made = N
      BY <1>1, <2>2, <3>1 DEF PostMade, Made
    <3>3. QED
      BY <1>4, <3>1, <3>2
  <2>3. QED
    BY <2>1, <2>2
<1>6. CASE P!SwitchAccept
  <2>1. main = "run" /\ style = "switch"
    BY <1>6 DEF P!SwitchAccept, P!Runs
  <2>2. CASE _id + 1 < N
    <3>1. /\ P!Runs(A, <<P!Handle(_id + 2), A>>)
          /\ P!Creates(_id + 2, TRUE) /\ _id' = _id + 1 /\ accepting' = accepting
      BY <1>6, <2>2 DEF P!SwitchAccept
    <3>2. _id + 2 \in Nat /\ _id + 2 <= N /\ _id' \in Nat /\ _id + 2 = _id + 1 + 1
      BY <1>1, <2>2, <3>1
    <3>3. accepting = TRUE
      BY <1>1, <1>2, <3>1, <3>2
    <3>4. style' = style /\ main' = main
      BY <3>1 DEF P!Runs
    <3>5. Made = _id + 1 /\ Made' = _id + 2
      BY <2>1, <3>1, <3>2, <3>3, <3>4 DEF Made
    <3>6. P!Creates(_id + 2, style = "switch")
      BY <2>1, <3>1 DEF P!Creates
    <3>7. QED
      BY <1>3, <2>1, <3>1, <3>2, <3>3, <3>5, <3>6
  <2>3. CASE ~(_id + 1 < N)
    <3>1. P!Runs(A, <<>>) /\ P!AcceptEnds
      BY <1>6, <2>3 DEF P!SwitchAccept
    <3>2. accepting => Made = N
      BY <1>1, <2>1, <2>3 DEF PostMade, Made
    <3>3. QED
      BY <1>4, <3>1, <3>2
  <2>4. QED
    BY <2>2, <2>3
<1>7. CASE P!CoroAccept
  <2>1. /\ style = "stdcoro" /\ P!Creates(_id + 1, FALSE)
        /\ P!Runs(A, <<P!Handle(_id + 1)>> \o (IF _id + 1 < N THEN <<A>> ELSE <<>>))
        /\ IF _id + 1 < N THEN _id' = _id + 1 /\ accepting' = accepting
           ELSE accepting' = FALSE /\ _id' = _id
    BY <1>7 DEF P!CoroAccept
  <2>2. style' = style /\ _id + 1 \in Nat /\ _id' \in Nat
    BY <1>1, <2>1 DEF P!Runs
  <2>3. accepting = TRUE
    <3>1. PICK posts : P!Runs(A, posts)
      BY <2>1
    <3>2. ~Never(queue, A) /\ main = "run"
      BY <1>1, <3>1, PostRan, PostPackets
    <3>3. QED
      BY <1>1, <3>2, PostNames DEF PostQueue, P!OnePostedHandler
  <2>4. _id < N /\ Made = _id
    BY <1>1, <2>1, <2>3 DEF PostMade, Made
  <2>5. P!Creates(_id + 1, style = "switch")
    BY <2>1 DEF P!Creates
  <2>6. CASE _id + 1 < N
    <3>1. P!Runs(A, <<P!Handle(_id + 1), A>>) /\ _id' = _id + 1 /\ accepting' = TRUE
      <4>1. <<P!Handle(_id + 1)>> \o <<A>> = <<P!Handle(_id + 1), A>>
        BY JoinTwo
      <4>2. QED
        BY <2>1, <2>3, <2>6, <4>1
    <3>2. Made' = _id + 1
      BY <2>1, <2>2, <3>1 DEF Made
    <3>3. QED
      BY <1>1, <1>3, <2>2, <2>4, <2>5, <2>6, <3>1, <3>2
  <2>7. CASE ~(_id + 1 < N)
    <3>1. P!Runs(A, <<P!Handle(_id + 1)>>) /\ _id' = _id /\ accepting' = FALSE
      <4>1. <<P!Handle(_id + 1)>> \o <<>> = <<P!Handle(_id + 1)>>
        OBVIOUS
      <4>2. QED
        BY <2>1, <2>7, <4>1
    <3>2. Made' = _id + 1 /\ _id + 1 <= N
      BY <1>1, <2>4, <2>7, <3>1 DEF Made
    <3>3. QED
      BY <1>3, <2>2, <2>4, <2>5, <3>1, <3>2
  <2>8. QED
    BY <2>6, <2>7
<1>8. QED
  BY <1>5, <1>6, <1>7

(* A session whose handler has run: one step of it, or none, is done. *)
LEMMA PostWorks ==
  ASSUME P!PostStylesAssumption, Post, NEW s \in Session, NEW posts,
         P!Runs(P!Handle(s), posts), UNCHANGED <<_id, accepting>>,
         \/ posts = <<P!Handle(s)>> /\ UNCHANGED data
         \/ posts = <<>> /\ P!Goes(s),
         offset' \in [Session -> Nat], output' \in [Session -> Nat],
         \A t \in Session : t # s => offset'[t] = offset[t] /\ output'[t] = output[t],
         data[s] = "live" => Worked(s)',
         \/ offset'[s] = offset[s] + 1 /\ offset[s] < Size
            /\ (posts = <<>> => output'[s] = offset[s] + 1)
         \/ offset'[s] = offset[s] /\ (posts = <<>> => output'[s] = offset[s])
  PROVE  Post' /\ [PostW!Next]_(PostW!vars)
<1>1. /\ PostQueue /\ PostMade /\ \A t \in Session : Worked(t)
      /\ data \in [Session -> {"none", "live", "gone"}]
      /\ offset \in [Session -> Nat] /\ output \in [Session -> Nat]
  BY PostFacts
<1>2. PostQueue' /\ data[s] = "live" /\ main = "run" /\ main' = "run" /\ style' = style
  BY <1>1, PostSession
<1>3. /\ data' \in [Session -> {"none", "live", "gone"}]
      /\ \A t \in Session : t # s => data'[t] = data[t]
      /\ data'[s] = IF posts = <<>> THEN "gone" ELSE "live"
  <2>1. CASE posts = <<P!Handle(s)>> /\ UNCHANGED data
    BY <1>1, <1>2, <2>1
  <2>2. CASE posts = <<>> /\ P!Goes(s)
    BY <1>1, <2>2 DEF P!Goes
  <2>3. QED
    BY <2>1, <2>2
<1>4. Made' = Made
  BY <1>2 DEF Made
<1>5. PostMade'
  BY <1>1, <1>2, <1>3, <1>4 DEF PostMade
<1>6. \A t \in Session : t # s => Worked(t)'
  BY <1>1, <1>2, <1>3 DEF Worked
<1>7. Post'
  BY <1>2, <1>5, <1>6 DEF Post
<1>8. PostState' = PostState /\ PostState[s] = "active" /\ ~PostReturned /\ ~PostReturned'
  BY <1>2, <1>3 DEF PostState, PostReturned
<1>9. PostProgress[s] = offset[s]
  BY <1>2 DEF PostProgress
<1>10. CASE offset'[s] = offset[s] + 1 /\ offset[s] < Size
            /\ (posts = <<>> => output'[s] = offset[s] + 1)
  <2>1. PostProgress' = [PostProgress EXCEPT ![s] = @ + 1]
    BY <1>2, <1>3, <1>9, <1>10 DEF PostProgress
  <2>2. PostSteps(s)
    BY <1>8, <1>9, <1>10, <2>1 DEF PostSteps
  <2>3. QED
    BY <1>7, <2>2, PostMaps
<1>11. CASE offset'[s] = offset[s] /\ (posts = <<>> => output'[s] = offset[s])
  <2>1. PostProgress' = PostProgress
    BY <1>2, <1>3, <1>9, <1>11 DEF PostProgress
  <2>2. PostStutters
    BY <1>8, <2>1 DEF PostStutters, PostReturned
  <2>3. QED
    BY <1>7, <2>2, PostMaps
<1>12. QED
  BY <1>10, <1>11

(* handle, in each of the three programs. *)
LEMMA PostHandleSteps ==
  ASSUME P!PostStylesAssumption, Post, NEW s \in Session,
         P!CallbackHandle(s) \/ P!SwitchHandle(s) \/ P!CoroHandle(s)
  PROVE  Post' /\ [PostW!Next]_(PostW!vars)
<1> DEFINE H == P!Handle(s)
<1>1. /\ PostQueue /\ Worked(s) /\ Size \in Nat \ {0}
      /\ data \in [Session -> {"none", "live", "gone"}]
      /\ offset \in [Session -> Nat] /\ output \in [Session -> Nat]
  BY PostFacts, PostPackets
<1>2. ASSUME NEW posts, P!Runs(H, posts)
      PROVE  data[s] = "live" /\ style' = style
  BY <1>1, <1>2, PostRan, PostPackets
<1>3. /\ P!Writes(s) => /\ output' \in [Session -> Nat] /\ output'[s] = output[s] + 1
                        /\ \A t \in Session : t # s => output'[t] = output[t]
      /\ P!Counts(s) => /\ offset' \in [Session -> Nat] /\ offset'[s] = offset[s] + 1
                        /\ \A t \in Session : t # s => offset'[t] = offset[t]
                        /\ UNCHANGED <<_id, accepting>>
      /\ P!Goes(s) => data'[s] = "gone"
  BY <1>1 DEF P!Writes, P!Counts, P!Goes
<1>4. CASE P!CallbackHandle(s)
  <2>1. CASE offset[s] < Size
    <3>1. style = "callback" /\ P!Runs(H, <<H>>) /\ P!Writes(s) /\ P!Counts(s) /\ UNCHANGED data
      BY <1>4, <2>1 DEF P!CallbackHandle
    <3>2. data[s] = "live" => Worked(s)'
      BY <1>1, <1>2, <1>3, <2>1, <3>1 DEF Worked
    <3>3. <<H>> # <<>>
      OBVIOUS
    <3>4. QED
      BY <1>3, <2>1, <3>1, <3>2, <3>3, PostWorks
  <2>2. CASE ~(offset[s] < Size)
    <3>1. /\ style = "callback" /\ P!Runs(H, <<>>) /\ P!Goes(s)
          /\ UNCHANGED <<_id, accepting, offset, output>>
      BY <1>4, <2>2 DEF P!CallbackHandle
    <3>2. data[s] = "live" /\ offset[s] = Size /\ output[s] = Size
      BY <1>1, <1>2, <2>2, <3>1 DEF Worked
    <3>3. Worked(s)'
      BY <1>3, <3>1, <3>2 DEF Worked
    <3>4. offset' \in [Session -> Nat] /\ output' \in [Session -> Nat]
      BY <1>1, <3>1
    <3>5. QED
      BY <3>1, <3>2, <3>3, <3>4, PostWorks
  <2>3. QED
    BY <2>1, <2>2
<1>5. CASE P!SwitchHandle(s)
  <2>1. style = "switch" /\ P!Counts(s)
    BY <1>5 DEF P!SwitchHandle
  <2>2. CASE offset[s] + 1 < Size
    <3>1. P!Runs(H, <<H>>) /\ P!Writes(s) /\ UNCHANGED data
      BY <1>5, <2>2 DEF P!SwitchHandle
    <3>2. data[s] = "live" => Worked(s)'
      BY <1>1, <1>2, <1>3, <2>1, <2>2, <3>1 DEF Worked
    <3>3. <<H>> # <<>> /\ offset[s] < Size
      BY <1>1, <2>2
    <3>4. QED
      BY <1>3, <2>1, <3>1, <3>2, <3>3, PostWorks
  <2>3. CASE ~(offset[s] + 1 < Size)
    <3>1. P!Runs(H, <<>>) /\ P!Goes(s) /\ UNCHANGED output
      BY <1>5, <2>3 DEF P!SwitchHandle
    <3>2. data[s] = "live" /\ offset[s] < Size /\ output[s] = offset[s] + 1 /\ offset[s] + 1 = Size
      BY <1>1, <1>2, <2>1, <2>3, <3>1 DEF Worked
    <3>3. Worked(s)'
      BY <1>3, <2>1, <3>1, <3>2 DEF Worked
    <3>4. output' \in [Session -> Nat]
      BY <1>1, <3>1
    <3>5. QED
      BY <1>3, <2>1, <3>1, <3>2, <3>3, <3>4, PostWorks
  <2>4. QED
    BY <2>2, <2>3
<1>6. CASE P!CoroHandle(s)
  <2>1. style = "stdcoro" /\ P!Counts(s) /\ P!Writes(s)
    BY <1>6 DEF P!CoroHandle
  <2>2. CASE offset[s] + 1 < Size
    <3>1. P!Runs(H, <<H>>) /\ UNCHANGED data
      BY <1>6, <2>2 DEF P!CoroHandle
    <3>2. data[s] = "live" => Worked(s)'
      BY <1>1, <1>2, <1>3, <2>1, <2>2, <3>1 DEF Worked
    <3>3. <<H>> # <<>> /\ offset[s] < Size
      BY <1>1, <2>2
    <3>4. QED
      BY <1>3, <2>1, <3>1, <3>2, <3>3, PostWorks
  <2>3. CASE ~(offset[s] + 1 < Size)
    <3>1. P!Runs(H, <<>>) /\ P!Goes(s)
      BY <1>6, <2>3 DEF P!CoroHandle
    <3>2. data[s] = "live" /\ offset[s] < Size /\ output[s] = offset[s] /\ offset[s] + 1 = Size
      BY <1>1, <1>2, <2>1, <2>3, <3>1 DEF Worked
    <3>3. Worked(s)'
      BY <1>3, <2>1, <3>1, <3>2 DEF Worked
    <3>4. QED
      BY <1>3, <2>1, <3>1, <3>2, <3>3, PostWorks
  <2>4. QED
    BY <2>2, <2>3
<1>7. QED
  BY <1>4, <1>5, <1>6

LEMMA PostStep ==
  ASSUME P!PostStylesAssumption, Post, [P!Next]_(P!vars)
  PROVE  Post' /\ [PostW!Next]_(PostW!vars)
<1>1. CASE UNCHANGED P!vars
  <2>1. UNCHANGED <<kind, queue, pending, stopped, style, main, _id, accepting, data, offset, output>>
    BY <1>1 DEF P!vars, P!ioVars
  <2>2. P!OnePostedHandler' <=> P!OnePostedHandler
    BY <2>1 DEF P!OnePostedHandler, P!Once, P!Never, P!AcceptHandle, P!Handle
  <2>3. Post'
    BY <2>1, <2>2 DEF Post, PostQueue, PostTypes, PostStops, PostOver, PostMade, Made, Worked,
                      Never
  <2>4. PostStutters
    BY <2>1 DEF PostStutters, PostState, PostProgress, PostReturned
  <2>5. QED
    BY <2>3, <2>4, PostMaps
<1>2. CASE P!Program
  BY <1>2, PostBegins, PostRuns, PostAcceptSteps, PostHandleSteps, PostNames DEF P!Program
<1>3. QED
  BY <1>1, <1>2 DEF P!Next, P!Finished

LEMMA PostInit == P!PostStylesAssumption => (P!Init => Post /\ PostW!Init)
<1> SUFFICES ASSUME P!PostStylesAssumption, P!Init PROVE Post /\ PostW!Init
  OBVIOUS
<1>1. /\ kind \in Kinds /\ queue = <<>> /\ pending = {} /\ stopped = FALSE
      /\ style \in Styles /\ main = "begin" /\ _id = 0 /\ accepting = TRUE
      /\ data = [s \in Session |-> "none"]
      /\ offset = [s \in Session |-> 0] /\ output = [s \in Session |-> 0]
  BY PostNames DEF P!Init, P!IoInit
<1>2. N \in Nat \ {0} /\ Session = 1..N
  BY PostPackets DEF Session
<1>3. PostTypes
  <2>1. <<>> \in Seq(PostPacket)
    BY EmptySeq
  <2>2. /\ data \in [Session -> {"none", "live", "gone"}]
        /\ offset \in [Session -> Nat] /\ output \in [Session -> Nat]
    BY <1>1
  <2>3. QED
    BY <1>1, <2>1, <2>2 DEF PostTypes
<1>4. P!OnePostedHandler
  BY <1>1 DEF P!OnePostedHandler
<1>5. PostStops
  BY <1>1 DEF PostStops, Never
<1>6. PostMade
  BY <1>1, <1>2 DEF PostMade, Made
<1>7. \A s \in Session : Worked(s)
  BY <1>1 DEF Worked
<1>8. PostW!Session = Session /\ P!Session = Session
  BY DEF PostW!Session, P!Session, Session
<1>9. PostW!Init
  BY <1>1, <1>8 DEF PostW!Init
<1>10. QED
  BY <1>3, <1>4, <1>5, <1>6, <1>7, <1>9 DEF Post, PostQueue

LEMMA PostHolds == P!PostStylesAssumption => (P!Spec => []Post)
<1> SUFFICES ASSUME P!PostStylesAssumption PROVE P!Spec => []Post
  OBVIOUS
<1>1. P!Init => Post
  BY PostInit
<1>2. Post /\ [P!Next]_(P!vars) => Post'
  BY PostStep
<1>3. QED
  BY <1>1, <1>2, PTL DEF P!Spec

(* The acceptor and each living session have exactly one queued handler, the   *)
(* others none: OnePostedHandler of PostStylesState, for the programs on         *)
(* asio::post.                                                                   *)
THEOREM OnePostedHandlerCorrect == P!PostStylesAssumption => (P!Spec => []OnePostedHandler)
<1> SUFFICES ASSUME P!PostStylesAssumption PROVE P!Spec => []OnePostedHandler
  OBVIOUS
<1>1. Post => OnePostedHandler
  BY PostNames
  DEF Post, PostQueue, P!OnePostedHandler, OnePostedHandler, P!Handle, Handle,
      P!AcceptHandle, AcceptHandle
<1>2. QED
  BY <1>1, PostHolds, PTL

(* The programs on asio::post do what Workflow asks, whatever the number of     *)
(* sessions, the length of the value and the io_context.                         *)
THEOREM PostRefinement == P!PostStylesAssumption => (P!Spec => PostRefinesWorkflow)
<1> SUFFICES ASSUME P!PostStylesAssumption PROVE P!Spec => PostRefinesWorkflow
  OBVIOUS
<1>1. P!Init => PostW!Init
  BY PostInit
<1>2. Post /\ [P!Next]_(P!vars) => [PostW!Next]_(PostW!vars)
  BY PostStep
<1>3. QED
  BY <1>1, <1>2, PostHolds, PTL DEF P!Spec, PostRefinesWorkflow, PostW!Spec
==============================================================================
