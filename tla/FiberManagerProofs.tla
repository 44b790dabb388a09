-------------------------- MODULE FiberManagerProofs --------------------------
(***************************************************************************)
(* Proofs about FiberManager, for every number of fibers, length of the       *)
(* buffer and capacity of the channel, and every kind of io_context.          *)
(***************************************************************************)
EXTENDS FiberManager, QueueProofs

Packet == [tag : {"flag", "stop"}, id : Ids \cup {0}]

(* The types of what the manager fiber touches. *)
ManagerTypes ==
  /\ kind \in Kinds /\ pending = {}
  /\ queue \in Seq(Packet) /\ stopped \in BOOLEAN
  /\ manager \in {"create", "call", "loop", "run", "pop", "join", "returned"}
  /\ joining \in Ids \cup {0}
  /\ fiber_cont \in SUBSET Ids

(* The types of what the fibers touch. *)
FiberTypes ==
  /\ at \in [Ids -> {"none", "new", "wait", "push", "ended"}]
  /\ finished \in [Ids -> BOOLEAN]
  /\ output \in [Ids -> Nat]
  /\ chan \in Seq(Ids)
  /\ parked \in SUBSET Ids

(* The types of the variables. *)
TypeOK == ManagerTypes /\ FiberTypes

(* A fiber that exists and has not ended is in fiber_cont, and its output is   *)
(* complete before it comes to its scope guard; the manager is joining exactly  *)
(* in its join().                                                               *)
Living ==
  /\ \A f \in Ids :
       /\ at[f] \in {"new", "wait", "push"} => f \in fiber_cont
       /\ at[f] \in {"push", "ended"} => output[f] = Size
       /\ manager = "create" <=> at[f] = "none"
  /\ manager = "join" <=> joining # 0
  /\ manager = "returned" => fiber_cont = {}

(* The inductive invariant. *)
IInv == TypeOK /\ FlagAlive /\ EndedIsKnown /\ Living

(* When handle() returns every fiber has written its whole buffer. *)
OutputComplete == manager = "returned" => \A f \in Ids : output[f] = Size

------------------------------------------------------------------------------
(* The handlers in the queue are told apart by the id. *)
LEMMA Packets ==
  /\ StopPacket \in Packet
  /\ \A f \in Ids : Flag(f) \in Packet /\ Flag(f) # StopPacket
  /\ \A f, g \in Ids : Flag(f) = Flag(g) => f = g
<1>1. \A f : Flag(f).id = f /\ Flag(f).tag = "flag" /\ StopPacket.tag = "stop"
  BY DEF Flag, StopPacket
<1>2. StopPacket \in Packet /\ \A f \in Ids : Flag(f) \in Packet
  BY DEF Flag, StopPacket, Packet
<1>3. QED
  BY <1>1, <1>2

LEMMA IdsAreNotZero == Ids \subseteq Nat /\ 0 \notin Ids /\ Ids # {}
BY FiberManagerAssumption DEF Ids

(* A sequence change that leaves x where it was. *)
Same(q, r, x) ==
  /\ Once(r, x) <=> Once(q, x)
  /\ Never(r, x) <=> Never(q, x)

(* FlagAlive speaks of the fibers' places, of their flags and of the queue. *)
LEMMA FlagsKept ==
  ASSUME FlagAlive, UNCHANGED <<at, finished>>,
         \A f \in Ids : Same(queue, queue', Flag(f))
  PROVE  FlagAlive'
BY DEF FlagAlive, Same, Flag

(* Where the context's own steps leave the handlers. *)
LEMMA ContextKeeps ==
  ASSUME TypeOK, EnterRun \/ RefuseRun \/ LeaveRun
  PROVE  /\ queue' \in Seq(Packet) /\ stopped' \in BOOLEAN
         /\ \A f \in Ids : Same(queue, queue', Flag(f))
<1>1. queue \in Seq(Packet) /\ stopped \in BOOLEAN
  BY DEF TypeOK, ManagerTypes
<1>2. QED
  BY <1>1, Packets, EnterRunKeeps, LeaveRunKeeps DEF Same

(* The manager calls run(), or run() returns to it. *)
LEMMA RunStep ==
  ASSUME IInv, EnterRun \/ RefuseRun \/ LeaveRun,
         manager \notin {"create", "join", "returned"}, manager' \in {"run", "pop"},
         UNCHANGED <<kind, pending, joining, fiber_cont, fiberVars>>
  PROVE  IInv'
<1>1. TypeOK'
  BY ContextKeeps DEF IInv, TypeOK, ManagerTypes, FiberTypes, fiberVars
<1>2. FlagAlive'
  BY ContextKeeps, FlagsKept DEF IInv, fiberVars
<1>3. EndedIsKnown'
  BY DEF IInv, EndedIsKnown, Never, Once, fiberVars
<1>4. Living'
  BY DEF IInv, Living, fiberVars
<1>5. QED
  BY <1>1, <1>2, <1>3, <1>4 DEF IInv

(* A handler has run: the flag it sets belongs to a fiber that waits for it,   *)
(* and there is no second one.                                                  *)
LEMMA FlagStep ==
  ASSUME IInv, NEW f \in Ids, RunFlag(f)
  PROVE  IInv'
<1>1. /\ queue \in Seq(Packet) /\ queue # <<>> /\ Head(queue) = Flag(f)
      /\ Tail(queue) \in Seq(Packet) /\ stopped \in BOOLEAN
  BY HeadTailProperties DEF IInv, TypeOK, ManagerTypes, RunFlag, CanDispatch
<1>2. /\ queue' \in Seq(Packet) /\ stopped' \in BOOLEAN
      /\ \A x : x # StopPacket => Same(Tail(queue), queue', x)
  BY <1>1, Packets, HandlerDoneKeeps DEF RunFlag, Same
<1>3. at[f] = "wait" /\ ~finished[f] /\ Once(queue, Flag(f))
  BY <1>1, HeadIsThere DEF IInv, FlagAlive
<1>4. Never(queue', Flag(f))
  BY <1>1, <1>2, <1>3, Packets, TailSame DEF Same
<1>5. \A g \in Ids : g # f => Same(queue, queue', Flag(g))
  BY <1>1, <1>2, Packets, TailOther DEF Same
<1>6. /\ finished \in [Ids -> BOOLEAN] /\ finished' = [finished EXCEPT ![f] = TRUE]
      /\ UNCHANGED <<kind, pending, manager, joining, fiber_cont, at, output, chan, parked>>
  BY DEF IInv, TypeOK, FiberTypes, RunFlag
<1>7. TypeOK'
  BY <1>2, <1>6 DEF IInv, TypeOK, ManagerTypes, FiberTypes
<1>8. FlagAlive'
  <2>1. ASSUME NEW g \in Ids
        PROVE  IF at[g] = "wait" /\ ~finished'[g]
               THEN Once(queue', Flag(g)) ELSE Never(queue', Flag(g))
    <3>1. CASE g = f
      BY <1>4, <1>6, <3>1
    <3>2. CASE g # f
      BY <1>5, <1>6, <3>2 DEF IInv, FlagAlive, Same
    <3>3. QED
      BY <3>1, <3>2
  <2>2. QED
    BY <1>6, <2>1 DEF FlagAlive, Flag
<1>9. EndedIsKnown' /\ Living'
  BY <1>6 DEF IInv, EndedIsKnown, Living, Never, Once
<1>10. QED
  BY <1>7, <1>8, <1>9 DEF IInv

(* An id is taken from the channel: it is that of an ended fiber, which is      *)
(* joined next.                                                                 *)
LEMMA PopStep ==
  ASSUME IInv, Pop
  PROVE  IInv'
<1> DEFINE f == Head(chan)
<1>1. /\ chan \in Seq(Ids) /\ chan # <<>> /\ f \in Ids
      /\ Tail(chan) \in Seq(Ids) /\ chan' = Tail(chan)
  BY HeadTailProperties DEF IInv, TypeOK, FiberTypes, Pop
<1>2. at[f] = "ended" /\ f \in fiber_cont /\ Once(chan, f)
  BY <1>1, HeadIsThere DEF IInv, EndedIsKnown
<1>3. joining = 0 /\ joining' = f /\ manager = "pop" /\ manager' = "join"
  BY <1>2 DEF IInv, Living, Pop
<1>4. Never(chan', f) /\ \A g \in Ids : g # f => Same(chan, chan', g)
  BY <1>1, <1>2, TailSame, TailOther DEF Same
<1>5. parked' \in SUBSET Ids
  BY DEF IInv, TypeOK, FiberTypes, Pop
<1>6. UNCHANGED <<ioVars, fiber_cont, at, finished, output>>
  BY DEF Pop
<1>7. TypeOK'
  BY <1>1, <1>3, <1>5, <1>6 DEF IInv, TypeOK, ManagerTypes, FiberTypes, ioVars
<1>8. FlagAlive'
  BY <1>6, FlagsKept DEF IInv, Same, ioVars
<1>9. EndedIsKnown'
  <2>1. ASSUME NEW g \in Ids
        PROVE  IF at[g] = "ended" /\ g \in fiber_cont /\ joining' # g
               THEN Once(chan', g)
               ELSE Never(chan', g) /\ (joining' = g => at[g] = "ended")
    <3>1. CASE g = f
      BY <1>2, <1>3, <1>4, <3>1
    <3>2. CASE g # f
      BY <1>3, <1>4, <3>2, IdsAreNotZero DEF IInv, EndedIsKnown, Same
    <3>3. QED
      BY <3>1, <3>2
  <2>2. QED
    BY <1>6, <2>1 DEF EndedIsKnown
<1>10. Living'
  BY <1>1, <1>3, <1>6, IdsAreNotZero DEF IInv, Living
<1>11. QED
  BY <1>7, <1>8, <1>9, <1>10 DEF IInv

(* The fiber that is joined is erased. *)
LEMMA JoinStep ==
  ASSUME IInv, Join
  PROVE  IInv'
<1>1. joining \in Ids /\ at[joining] = "ended" /\ Never(chan, joining)
  BY DEF IInv, TypeOK, ManagerTypes, Living, Join, EndedIsKnown
<1>2. /\ manager' = "loop" /\ joining' = 0 /\ manager = "join"
      /\ fiber_cont' = fiber_cont \ {joining}
      /\ UNCHANGED <<kind, queue, pending, stopped, at, finished, output, chan, parked>>
  BY DEF Join, ioVars, fiberVars
<1>3. TypeOK'
  BY <1>2 DEF IInv, TypeOK, ManagerTypes, FiberTypes
<1>4. FlagAlive'
  BY <1>2, FlagsKept DEF IInv, Same
<1>5. EndedIsKnown'
  BY <1>1, <1>2, IdsAreNotZero DEF IInv, EndedIsKnown, Never, Once
<1>6. Living'
  BY <1>1, <1>2 DEF IInv, Living
<1>7. QED
  BY <1>3, <1>4, <1>5, <1>6 DEF IInv

(* A fiber writes a character and posts the handler that sets its flag. *)
LEMMA WriteStep ==
  ASSUME IInv, NEW f \in Ids, Writes(f)
  PROVE  IInv'
<1>1. /\ queue \in Seq(Packet) /\ Never(queue, Flag(f))
      /\ queue' = Append(queue, Flag(f)) /\ queue' \in Seq(Packet)
  BY Packets, AppendProperties
  DEF IInv, TypeOK, ManagerTypes, Writes, GoesOn, FlagAlive
<1>2. /\ Once(queue', Flag(f))
      /\ \A g \in Ids : g # f => Same(queue, queue', Flag(g))
  BY <1>1, Packets, AppendSame, AppendOther DEF Same
<1>3. /\ at' = [at EXCEPT ![f] = "wait"] /\ finished' = [finished EXCEPT ![f] = FALSE]
      /\ output' = [output EXCEPT ![f] = output[f] + 1]
      /\ at[f] \in {"new", "wait"} /\ manager \in {"loop", "join"}
      /\ UNCHANGED <<kind, pending, stopped, manager, joining, fiber_cont, chan, parked>>
  BY DEF Writes, GoesOn, Scheduled
<1>4. /\ at \in [Ids -> {"none", "new", "wait", "push", "ended"}]
      /\ finished \in [Ids -> BOOLEAN] /\ output \in [Ids -> Nat]
  BY DEF IInv, TypeOK, FiberTypes
<1>5. TypeOK'
  <2>1. output[f] + 1 \in Nat
    BY <1>4
  <2>2. QED
    BY <1>1, <1>3, <1>4, <2>1 DEF IInv, TypeOK, ManagerTypes, FiberTypes
<1>6. FlagAlive'
  <2>1. ASSUME NEW g \in Ids
        PROVE  IF at'[g] = "wait" /\ ~finished'[g]
               THEN Once(queue', Flag(g)) ELSE Never(queue', Flag(g))
    <3>1. CASE g = f
      BY <1>2, <1>3, <1>4, <3>1
    <3>2. CASE g # f
      BY <1>2, <1>3, <1>4, <3>2 DEF IInv, FlagAlive, Same
    <3>3. QED
      BY <3>1, <3>2
  <2>2. QED
    BY <2>1 DEF FlagAlive, Flag
<1>7. EndedIsKnown'
  <2>1. \A g \in Ids : at'[g] = "ended" <=> at[g] = "ended"
    BY <1>3, <1>4
  <2>2. QED
    BY <1>3, <2>1 DEF IInv, EndedIsKnown
<1>8. Living'
  BY <1>3, <1>4 DEF IInv, Living
<1>9. QED
  BY <1>5, <1>6, <1>7, <1>8 DEF IInv

(* A fiber's id goes to the channel and the fiber ends. *)
LEMMA PushStep ==
  ASSUME IInv, NEW f \in Ids, Pushes(f)
  PROVE  IInv'
<1>1. /\ at[f] \in {"new", "wait", "push"} /\ output[f] = Size
      /\ at[f] = "wait" => finished[f]
      /\ at' = [at EXCEPT ![f] = "ended"] /\ chan' = Append(chan, f)
      /\ manager \in {"loop", "join"}
      /\ UNCHANGED <<ioVars, manager, joining, fiber_cont, finished, output, parked>>
  BY DEF IInv, Living, Pushes, MayPush, GoesOn, Scheduled, ioVars
<1>2. /\ at \in [Ids -> {"none", "new", "wait", "push", "ended"}]
      /\ chan \in Seq(Ids) /\ chan' \in Seq(Ids)
  BY <1>1, AppendProperties DEF IInv, TypeOK, FiberTypes
<1>3. f \in fiber_cont /\ joining # f /\ Never(chan, f)
  BY <1>1 DEF IInv, Living, EndedIsKnown
<1>4. Once(chan', f) /\ \A g \in Ids : g # f => Same(chan, chan', g)
  BY <1>1, <1>2, <1>3, AppendSame, AppendOther DEF Same
<1>5. TypeOK'
  BY <1>1, <1>2 DEF IInv, TypeOK, ManagerTypes, FiberTypes, ioVars
<1>6. FlagAlive'
  BY <1>1, <1>2 DEF IInv, FlagAlive, Flag, ioVars
<1>7. EndedIsKnown'
  <2>1. ASSUME NEW g \in Ids
        PROVE  IF at'[g] = "ended" /\ g \in fiber_cont /\ joining # g
               THEN Once(chan', g)
               ELSE Never(chan', g) /\ (joining = g => at'[g] = "ended")
    <3>1. CASE g = f
      BY <1>1, <1>2, <1>3, <1>4, <3>1
    <3>2. CASE g # f
      BY <1>1, <1>2, <1>4, <3>2 DEF IInv, EndedIsKnown, Same
    <3>3. QED
      BY <3>1, <3>2
  <2>2. QED
    BY <1>1, <2>1 DEF EndedIsKnown
<1>8. Living'
  BY <1>1, <1>2 DEF IInv, Living
<1>9. QED
  BY <1>5, <1>6, <1>7, <1>8 DEF IInv

(* A fiber waits for room in the channel. *)
LEMMA ParkStep ==
  ASSUME IInv, NEW f \in Ids, Parks(f)
  PROVE  IInv'
<1>1. /\ at[f] \in {"new", "wait", "push"} /\ output[f] = Size
      /\ at[f] = "wait" => finished[f]
      /\ at' = [at EXCEPT ![f] = "push"] /\ parked' = parked \cup {f}
      /\ manager \in {"loop", "join"}
      /\ UNCHANGED <<ioVars, manager, joining, fiber_cont, finished, output, chan>>
  BY DEF IInv, Living, Parks, MayPush, GoesOn, Scheduled, ioVars
<1>2. at \in [Ids -> {"none", "new", "wait", "push", "ended"}]
  BY DEF IInv, TypeOK, FiberTypes
<1>3. TypeOK'
  BY <1>1, <1>2 DEF IInv, TypeOK, ManagerTypes, FiberTypes, ioVars
<1>4. FlagAlive'
  BY <1>1, <1>2 DEF IInv, FlagAlive, Flag, ioVars
<1>5. EndedIsKnown'
  <2>1. \A g \in Ids : at'[g] = "ended" <=> at[g] = "ended"
    BY <1>1, <1>2
  <2>2. QED
    BY <1>1, <2>1 DEF IInv, EndedIsKnown
<1>6. Living'
  BY <1>1, <1>2 DEF IInv, Living
<1>7. QED
  BY <1>3, <1>4, <1>5, <1>6 DEF IInv

(* The fibers are created. *)
LEMMA CreateStep ==
  ASSUME IInv, Create
  PROVE  IInv'
<1>1. /\ manager = "create" /\ manager' = "call" /\ fiber_cont' = Ids
      /\ at' = [f \in Ids |-> "new"]
      /\ UNCHANGED <<ioVars, joining, finished, output, chan, parked>>
  BY DEF Create
<1>2. \A f \in Ids : at[f] = "none"
  BY <1>1 DEF IInv, Living
<1>3. TypeOK'
  BY <1>1 DEF IInv, TypeOK, ManagerTypes, FiberTypes, ioVars
<1>4. FlagAlive' /\ EndedIsKnown'
  BY <1>1, <1>2 DEF IInv, FlagAlive, EndedIsKnown, Flag, ioVars
<1>5. Living'
  BY <1>1 DEF IInv, Living
<1>6. QED
  BY <1>3, <1>4, <1>5 DEF IInv

(* The manager looks for an id in vain, or has joined everybody. *)
LEMMA LoopStep ==
  ASSUME IInv, ChannelEmpty \/ Return
  PROVE  IInv'
<1>1. /\ manager \in {"pop", "loop"} /\ manager' \in {"loop", "returned"}
      /\ manager' = "returned" => fiber_cont = {}
      /\ UNCHANGED <<ioVars, joining, fiber_cont, fiberVars>>
  BY DEF ChannelEmpty, Return
<1>2. TypeOK'
  BY <1>1 DEF IInv, TypeOK, ManagerTypes, FiberTypes, ioVars, fiberVars
<1>3. FlagAlive' /\ EndedIsKnown'
  BY <1>1 DEF IInv, FlagAlive, EndedIsKnown, Flag, ioVars, fiberVars
<1>4. Living'
  BY <1>1 DEF IInv, Living, fiberVars
<1>5. QED
  BY <1>2, <1>3, <1>4 DEF IInv

(* Every step keeps the invariant. *)
LEMMA InvStep == IInv /\ [Next]_vars => IInv'
<1> SUFFICES ASSUME IInv, [Next]_vars PROVE IInv'
  OBVIOUS
<1>1. CASE CallRun
  BY <1>1, RunStep DEF CallRun
<1>2. CASE RunReturns
  BY <1>2, RunStep DEF RunReturns
<1>3. CASE UNCHANGED vars
  BY <1>3
  DEF vars, ioVars, fiberVars, IInv, TypeOK, ManagerTypes, FiberTypes, FlagAlive,
      EndedIsKnown, Living, Flag
<1>4. QED
  BY <1>1, <1>2, <1>3, CreateStep, LoopStep, PopStep, JoinStep, FlagStep, WriteStep,
     PushStep, ParkStep
  DEF Next, Manager, Fiber, Finished

LEMMA Initially == Init => IInv
<1> SUFFICES ASSUME Init PROVE IInv
  OBVIOUS
<1>1. ManagerTypes
  <2>1. queue = <<>>
    BY DEF Init, IoInit
  <2>2. /\ kind \in Kinds /\ pending = {} /\ stopped \in BOOLEAN /\ joining = 0
        /\ manager = "create" /\ fiber_cont = {}
    BY DEF Init, IoInit
  <2>3. QED
    BY <2>1, <2>2 DEF ManagerTypes
<1>2. FiberTypes
  BY DEF Init, FiberTypes
<1>3. FlagAlive /\ EndedIsKnown
  <2>1. \A x : Never(queue, x) /\ Never(chan, x)
    BY DEF Init, IoInit, Never
  <2>2. QED
    BY <2>1, IdsAreNotZero DEF Init, FlagAlive, EndedIsKnown
<1>4. Living
  BY DEF Init, Living
<1>5. QED
  BY <1>1, <1>2, <1>3, <1>4 DEF IInv, TypeOK

LEMMA Invariance == Spec => []IInv
<1>1. QED
  BY Initially, InvStep, PTL DEF Spec

(* The variables keep their types. *)
THEOREM TypeCorrect == Spec => []TypeOK
<1>1. IInv => TypeOK
  BY DEF IInv
<1>2. QED
  BY <1>1, Invariance, PTL

(* A posted handler finds the fiber whose flag it sets, waiting for it. *)
THEOREM FlagAliveCorrect == Spec => []FlagAlive
<1>1. IInv => FlagAlive
  BY DEF IInv
<1>2. QED
  BY <1>1, Invariance, PTL

(* The manager knows of every ended fiber, and of no other. *)
THEOREM EndedIsKnownCorrect == Spec => []EndedIsKnown
<1>1. IInv => EndedIsKnown
  BY DEF IInv
<1>2. QED
  BY <1>1, Invariance, PTL

(* The output is complete when handle() returns. *)
THEOREM OutputCompleteCorrect == Spec => []OutputComplete
<1>1. ASSUME IInv, manager = "returned", NEW f \in Ids PROVE output[f] = Size
  <2>1. at[f] \in {"none", "new", "wait", "push", "ended"} /\ at[f] # "none"
    BY <1>1 DEF IInv, TypeOK, FiberTypes, Living
  <2>2. QED
    BY <1>1, <2>1 DEF IInv, Living
<1>2. IInv => OutputComplete
  BY <1>1 DEF OutputComplete
<1>3. QED
  BY <1>2, Invariance, PTL
==============================================================================
