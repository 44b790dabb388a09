--------------------------- MODULE CoroServerProofs ---------------------------
(***************************************************************************)
(* Proofs about CoroServer, for every number of clients and of faults, every *)
(* length of their messages and every kind of io_context.                    *)
(***************************************************************************)
EXTENDS CoroServer, QueueProofs

Packet == [tag : {"done", "stop"}, id : Nat]

(* The types of the io_context's variables and of the loop's. *)
LoopTypes ==
  /\ kind \in Kinds
  /\ queue \in Seq(Packet) /\ stopped \in BOOLEAN
  /\ pending \in SUBSET Id
  /\ main \in {"loop", "run", "drain", "dead"}
  /\ awake_cont \in Seq(Id)

(* The types of the coroutines'. *)
CoroTypes ==
  /\ coro \in [Id -> {"none", "alive", "done", "erased"}]
  /\ connection_id \in 1..(N + 1)
  /\ at \in [Connection -> {"read", "timer", "write"}]
  /\ offset \in [Connection -> Nat]
  /\ error \in [Id -> BOOLEAN]
  /\ bytes \in [Id -> Nat]
  /\ faults \in Nat

(* The types of the variables. *)
TypeOK == LoopTypes /\ CoroTypes

(* An accept has completed without an error only for a client there is. *)
Listening ==
  /\ \A c \in Connection : coro[c] = "none" <=> c >= connection_id
  /\ coro[0] = "alive"
  /\ 0 \notin pending /\ ~error[0] => connection_id <= N

(* How far coroutine c has come, and what its last operation may have moved. *)
Progress(c) ==
  /\ offset[c] <= Length
  /\ coro[c] = "alive" /\ c \notin pending /\ ~error[c] /\ at[c] # "timer" =>
       offset[c] + bytes[c] <= Length
  /\ coro[c] \in {"none", "alive"} /\ at[c] # "timer" => offset[c] < Length
  /\ coro[c] \in {"done", "erased"} => (at[c] = "write" /\ offset[c] = Length) \/ error[c]

(* The inductive invariant: an exception ends everything where it stands. *)
IInv ==
  /\ TypeOK
  /\ OneWait
  /\ Listening
  /\ \A c \in Connection : Progress(c)

------------------------------------------------------------------------------
(* The handlers in the queue are told apart by the id. *)
LEMMA Packets ==
  /\ StopPacket \in Packet
  /\ \A i \in Id : Done(i) \in Packet /\ Done(i) # StopPacket
  /\ \A i, j \in Id : Done(i) = Done(j) => i = j
<1>1. \A i : Done(i).id = i /\ Done(i).tag = "done" /\ StopPacket.tag = "stop"
  BY DEF Done, StopPacket
<1>2. StopPacket \in Packet /\ \A i \in Id : Done(i) \in Packet
  BY DEF Done, StopPacket, Packet, Id
<1>3. QED
  BY <1>1, <1>2

LEMMA Ids ==
  /\ N \in Nat /\ Length \in Nat \ {0} /\ MaxFaults \in Nat
  /\ Id = Connection \cup {0} /\ 0 \notin Connection
  /\ Connection \subseteq Nat /\ Connection = 1..N
BY CoroServerAssumption DEF Id, Connection

(* A sequence change that leaves x where it was. *)
Same(q, r, x) ==
  /\ Once(r, x) <=> Once(q, x)
  /\ Never(r, x) <=> Never(q, x)

(* What the proofs ask of the places where coroutine i is waited for. *)
Wait(i) ==
  CASE coro[i] = "alive" -> Operation(i) \/ Handler(i) \/ Awake(i)
    [] coro[i] = "done"  -> Awake(i)
    [] OTHER -> Nowhere(i)

(* A step that touches none of its places leaves coroutine i's wait as it is.  *)
LEMMA WaitKept ==
  ASSUME NEW i \in Id, Wait(i), coro'[i] = coro[i], i \in pending' <=> i \in pending,
         Same(queue, queue', Done(i)), Same(awake_cont, awake_cont', i)
  PROVE  Wait(i)'
BY DEF Wait, Operation, Handler, Awake, Nowhere, Same, Done

(* The same for all, when only the context or the loop moves. *)
LEMMA AllKept ==
  ASSUME IInv, TypeOK', UNCHANGED <<pending, awake_cont, coroVars, error, bytes>>,
         \A i \in Id : Same(queue, queue', Done(i))
  PROVE  IInv'
<1>1. OneWait'
  BY DEF IInv, OneWait, Operation, Handler, Awake, Nowhere, Same, Done, coroVars
<1>2. Listening' /\ \A c \in Connection : Progress(c)'
  BY DEF IInv, Listening, Progress, coroVars
<1>3. QED
  BY <1>1, <1>2 DEF IInv

(* The id taken from awake_cont was the only wait of its coroutine. *)
LEMMA Woken ==
  ASSUME IInv, NEW i \in Id, NEW pushed \in {<<>>, <<i>>}, Awakes(i, pushed)
  PROVE  /\ Awake(i) /\ coro[i] \in {"alive", "done"}
         /\ awake_cont' \in Seq(Id)
         /\ pushed = <<>> => Never(awake_cont', i)
         /\ pushed = <<i>> => Once(awake_cont', i)
         /\ \A j \in Id : j # i => Same(awake_cont, awake_cont', j)
         /\ UNCHANGED <<kind, queue, stopped, main, error, bytes, faults>>
<1>1. /\ awake_cont \in Seq(Id) /\ awake_cont # <<>> /\ Head(awake_cont) = i
      /\ Tail(awake_cont) \in Seq(Id)
  BY HeadTailProperties DEF IInv, TypeOK, LoopTypes, Awakes
<1>2. ~Never(awake_cont, i)
  BY <1>1, HeadIsThere
<1>3. Awake(i) /\ coro[i] \in {"alive", "done"}
  BY <1>2 DEF IInv, OneWait, Operation, Handler, Nowhere
<1>4. Never(Tail(awake_cont), i)
  BY <1>1, <1>3, TailSame DEF Awake
<1>5. \A j \in Id : j # i => Same(awake_cont, Tail(awake_cont), j)
  BY <1>1, TailOther DEF Same
<1>6. CASE pushed = <<>>
  <2>1. awake_cont' = Tail(awake_cont)
    BY <1>1, <1>6, ConcatEmptySeq DEF Awakes
  <2>2. QED
    BY <1>1, <1>3, <1>4, <1>5, <1>6, <2>1 DEF Awakes
<1>7. CASE pushed = <<i>>
  <2>1. awake_cont' = Append(Tail(awake_cont), i)
    BY <1>1, <1>7, AppendIsConcat DEF Awakes
  <2>2. awake_cont' \in Seq(Id) /\ Once(awake_cont', i)
    BY <1>1, <1>4, <2>1, AppendSame, AppendProperties
  <2>3. \A j \in Id : j # i => Same(awake_cont, awake_cont', j)
    BY <1>1, <1>5, <2>1, AppendOther DEF Same
  <2>4. pushed # <<>>
    BY <1>7
  <2>5. QED
    BY <1>3, <2>2, <2>3, <2>4 DEF Awakes
<1>8. QED
  BY <1>6, <1>7

------------------------------------------------------------------------------
(* The types, as the steps use them. *)
LEMMA Types ==
  ASSUME IInv
  PROVE  /\ kind \in Kinds /\ queue \in Seq(Packet) /\ stopped \in BOOLEAN
         /\ pending \in SUBSET Id /\ awake_cont \in Seq(Id)
         /\ main \in {"loop", "run", "drain", "dead"}
         /\ coro \in [Id -> {"none", "alive", "done", "erased"}]
         /\ connection_id \in 1..(N + 1)
         /\ at \in [Connection -> {"read", "timer", "write"}]
         /\ offset \in [Connection -> Nat]
         /\ error \in [Id -> BOOLEAN] /\ bytes \in [Id -> Nat] /\ faults \in Nat
BY DEF IInv, TypeOK, LoopTypes, CoroTypes

(* The loop of coro_example: the context's own steps, and the empty queue. *)
LEMMA LoopStep ==
  ASSUME IInv, CallRun \/ RunReturns \/ Drained
  PROVE  IInv'
<1>1. /\ queue' \in Seq(Packet) /\ stopped' \in BOOLEAN
      /\ \A i \in Id : Same(queue, queue', Done(i))
  <2>1. CASE EnterRun \/ RefuseRun
    BY <2>1, Types, Packets, EnterRunKeeps DEF Same
  <2>2. CASE LeaveRun
    BY <2>2, Types, Packets, LeaveRunKeeps DEF Same
  <2>3. CASE UNCHANGED <<queue, stopped>>
    BY <2>3, Types DEF Same
  <2>4. QED
    BY <2>1, <2>2, <2>3 DEF CallRun, RunReturns, Drained, ioVars
<1>2. /\ main' \in {"loop", "run", "drain"}
      /\ UNCHANGED <<kind, pending, awake_cont, coroVars, error, bytes, faults>>
  BY DEF CallRun, RunReturns, Drained, ioVars
<1>3. TypeOK'
  BY <1>1, <1>2, Types DEF TypeOK, LoopTypes, CoroTypes, coroVars
<1>4. QED
  BY <1>1, <1>2, <1>3, AllKept

(* A handler moves its coroutine's wait from the queue to awake_cont. *)
LEMMA HandlerStep ==
  ASSUME IInv, NEW i \in Id, RunHandler(i)
  PROVE  IInv'
<1>1. /\ queue # <<>> /\ Head(queue) = Done(i) /\ Tail(queue) \in Seq(Packet)
      /\ awake_cont' = Append(awake_cont, i)
      /\ UNCHANGED <<kind, pending, main, coroVars, error, bytes, faults>>
  BY Types, HeadTailProperties DEF RunHandler, CanDispatch
<1>2. /\ queue' \in Seq(Packet) /\ stopped' \in BOOLEAN
      /\ \A x : x # StopPacket => Same(Tail(queue), queue', x)
  BY <1>1, Types, Packets, HandlerDoneKeeps DEF RunHandler, Same
<1>3. Handler(i) /\ coro[i] = "alive"
  <2>1. ~Never(queue, Done(i))
    BY <1>1, Types, HeadIsThere
  <2>2. QED
    BY <2>1 DEF IInv, OneWait, Operation, Awake, Nowhere
<1>4. Never(queue', Done(i)) /\ \A j \in Id : j # i => Same(queue, queue', Done(j))
  <2>1. Never(Tail(queue), Done(i))
    <3>1. Once(queue, Head(queue))
      BY <1>1, <1>3 DEF Handler
    <3>2. Never(Tail(queue), Head(queue))
      BY <1>1, <3>1, Types, TailSame
    <3>3. QED
      BY <1>1, <3>2
  <2>2. \A j \in Id : j # i => Same(queue, Tail(queue), Done(j))
    BY <1>1, Types, Packets, TailOther DEF Same
  <2>3. QED
    BY <1>2, <2>1, <2>2, Packets DEF Same
<1>5. /\ awake_cont' \in Seq(Id) /\ Once(awake_cont', i)
      /\ \A j \in Id : j # i => Same(awake_cont, awake_cont', j)
  BY <1>1, <1>3, Types, AppendProperties, AppendSame, AppendOther DEF Handler, Same
<1>6. OneWait'
  <2>1. ASSUME NEW j \in Id PROVE Wait(j)'
    <3>1. CASE j = i
      BY <1>1, <1>3, <1>4, <1>5, <3>1 DEF Handler, Wait, Awake, Done, coroVars
    <3>2. CASE j # i
      <4>1. Wait(j)
        BY DEF IInv, OneWait, Wait
      <4>2. QED
        BY <1>1, <1>4, <1>5, <3>2, <4>1, WaitKept DEF coroVars
    <3>3. QED
      BY <3>1, <3>2
  <2>2. QED
    BY <2>1 DEF OneWait, Wait
<1>7. TypeOK'
  BY <1>1, <1>2, <1>5, Types DEF TypeOK, LoopTypes, CoroTypes, coroVars
<1>8. Listening' /\ \A c \in Connection : Progress(c)'
  BY <1>1 DEF IInv, Listening, Progress, coroVars
<1>9. QED
  BY <1>6, <1>7, <1>8 DEF IInv

(* An operation completes: its result is stored and its handler queued. *)
LEMMA CompleteStep ==
  ASSUME IInv, NEW i \in Id, NEW e \in BOOLEAN, Complete(i, e)
  PROVE  IInv'
<1> USE Ids
<1>1. /\ i \in pending
      /\ i = 0 /\ ~e => connection_id <= N
      /\ pending' = pending \ {i} /\ queue' = Append(queue, Done(i))
      /\ error' = [error EXCEPT ![i] = e]
      /\ UNCHANGED <<kind, stopped, main, awake_cont, coro, connection_id, at, offset>>
  BY DEF Complete, coroVars
<1>2. PICK k \in Moves(i) : bytes' = [bytes EXCEPT ![i] = IF e THEN 0 ELSE k]
  BY DEF Complete
<1>3. Operation(i) /\ coro[i] = "alive"
  BY <1>1 DEF IInv, OneWait, Handler, Awake, Nowhere
<1>4. /\ queue' \in Seq(Packet) /\ Once(queue', Done(i))
      /\ \A j \in Id : j # i => Same(queue, queue', Done(j))
  BY <1>1, <1>3, Types, Packets, AppendProperties, AppendSame, AppendOther
  DEF Operation, Same
<1>5. OneWait'
  <2>1. ASSUME NEW j \in Id PROVE Wait(j)'
    <3>1. CASE j = i
      BY <1>1, <1>3, <1>4, <3>1 DEF Operation, Wait, Handler, Done
    <3>2. CASE j # i
      <4>1. Wait(j)
        BY DEF IInv, OneWait, Wait
      <4>2. QED
        BY <1>1, <1>4, <3>2, <4>1, WaitKept DEF Same
    <3>3. QED
      BY <3>1, <3>2
  <2>2. QED
    BY <2>1 DEF OneWait, Wait
<1>6. k \in Nat /\ (i # 0 => at[i] = "timer" \/ offset[i] + k <= Length)
  BY <1>2, Types DEF Moves
<1>7. TypeOK'
  <2>1. LoopTypes'
    BY <1>1, <1>4, Types DEF LoopTypes
  <2>2. faults' \in Nat
    BY Types DEF Complete
  <2>3. CoroTypes'
    BY <1>1, <1>2, <1>6, <2>2, Types DEF CoroTypes
  <2>4. QED
    BY <2>1, <2>3 DEF TypeOK
<1>8. Listening'
  BY <1>1, Types DEF IInv, Listening
<1>9. ASSUME NEW c \in Connection PROVE Progress(c)'
  <2>1. Progress(c)
    BY DEF IInv
  <2>2. CASE c # i
    BY <1>1, <1>2, <2>1, <2>2, Types DEF Progress
  <2>3. CASE c = i
    <3>1. c # 0 /\ error'[c] = e /\ (~e => bytes'[c] = k)
      BY <1>1, <1>2, <2>3, Types
    <3>2. QED
      BY <1>1, <1>3, <1>6, <2>1, <2>3, <3>1 DEF Progress
  <2>4. QED
    BY <2>2, <2>3
<1>10. QED
  BY <1>5, <1>7, <1>8, <1>9 DEF IInv

(* In a step in which every coroutine's wait is either seen to or left alone,  *)
(* all are in order.                                                             *)
LEMMA OthersKept ==
  ASSUME IInv, UNCHANGED queue,
         \A j \in Id :
           \/ Wait(j)'
           \/ /\ coro'[j] = coro[j] /\ (j \in pending' <=> j \in pending)
              /\ Same(awake_cont, awake_cont', j)
  PROVE  OneWait'
<1>1. ASSUME NEW j \in Id PROVE Wait(j)'
  <2>1. Wait(j)
    BY DEF IInv, OneWait, Wait
  <2>2. QED
    BY <2>1, WaitKept DEF Same
<1>2. QED
  BY <1>1 DEF OneWait, Wait

(* An ended coroutine is erased. *)
LEMMA EraseStep ==
  ASSUME IInv, NEW i \in Id, Erase(i)
  PROVE  IInv'
<1>1. /\ Awake(i) /\ awake_cont' \in Seq(Id) /\ Never(awake_cont', i)
      /\ \A j \in Id : j # i => Same(awake_cont, awake_cont', j)
      /\ UNCHANGED <<kind, queue, stopped, main, error, bytes, faults>>
  BY Woken DEF Erase
<1>2. /\ coro[i] = "done" /\ coro' = [coro EXCEPT ![i] = "erased"]
      /\ UNCHANGED <<pending, connection_id, at, offset>>
  BY DEF Erase
<1>3. /\ coro'[i] = "erased" /\ \A j \in Id : j # i => coro'[j] = coro[j]
  BY <1>2, Types
<1>4. TypeOK'
  BY <1>1, <1>2, Types DEF TypeOK, LoopTypes, CoroTypes
<1>5. OneWait'
  <2>1. Wait(i)'
    BY <1>1, <1>2, <1>3 DEF Wait, Nowhere, Awake, Done
  <2>2. QED
    BY <1>1, <1>2, <1>3, <2>1, OthersKept
<1>6. Listening' /\ \A c \in Connection : Progress(c)'
  BY <1>1, <1>2, <1>3, Ids DEF IInv, Listening, Progress
<1>7. QED
  BY <1>4, <1>5, <1>6 DEF IInv

(* The listener creates a connection's coroutine and accepts again. *)
LEMMA ListenStep ==
  ASSUME IInv, Listen
  PROVE  IInv'
<1> USE Ids
<1>1. /\ Awake(0) /\ awake_cont' \in Seq(Id) /\ Never(awake_cont', 0)
      /\ \A j \in Id : j # 0 => Same(awake_cont, awake_cont', j)
      /\ UNCHANGED <<kind, queue, stopped, main, error, bytes, faults>>
  BY Woken DEF Listen
<1>c. PICK c \in Connection : c = connection_id
  BY <1>1, Types DEF IInv, Listening, Awake, Listen
<1>2. /\ ~error[0] /\ coro' = [coro EXCEPT ![c] = "alive"]
      /\ pending' = pending \cup {c, 0} /\ connection_id' = c + 1
      /\ UNCHANGED <<at, offset>>
  BY <1>c DEF Listen
<1>3. coro[c] = "none" /\ coro[0] = "alive" /\ c # 0
  BY <1>c, Types DEF IInv, Listening
<1>4. coro'[c] = "alive" /\ \A j \in Id : j # c => coro'[j] = coro[j]
  BY <1>2, <1>3, Types
<1>5. TypeOK'
  <2>1. c + 1 \in 1..(N + 1)
    BY <1>3
  <2>2. LoopTypes'
    BY <1>1, <1>2, <1>3, Types DEF LoopTypes
  <2>3. CoroTypes'
    BY <1>1, <1>2, <1>3, <2>1, Types DEF CoroTypes
  <2>4. QED
    BY <2>2, <2>3 DEF TypeOK
<1>6. OneWait'
  <2>1. Wait(0)'
    BY <1>1, <1>2, <1>3, <1>4 DEF Wait, Operation, Awake, Done
  <2>2. Nowhere(c)
    BY <1>3 DEF IInv, OneWait
  <2>3. Wait(c)'
    BY <1>1, <1>2, <1>3, <1>4, <2>2 DEF Wait, Operation, Nowhere, Done, Same
  <2>4. QED
    BY <1>1, <1>2, <1>3, <1>4, <2>1, <2>3, OthersKept
<1>7. Listening'
  BY <1>c, <1>2, <1>3, <1>4, Types DEF IInv, Listening
<1>8. ASSUME NEW d \in Connection PROVE Progress(d)'
  BY <1>1, <1>2, <1>3, <1>4 DEF IInv, Progress
<1>9. QED
  BY <1>5, <1>6, <1>7, <1>8 DEF IInv

(* Connection c goes on to wait for the operation next at o. *)
LEMMA WaitsStep ==
  ASSUME IInv, NEW c \in Connection, NEW next \in {"read", "timer", "write"},
         NEW o \in Nat, o <= Length, next # "timer" => o < Length, Waits(c, next, o)
  PROVE  IInv'
<1> USE Ids
<1>1. /\ Awake(c) /\ awake_cont' \in Seq(Id) /\ Never(awake_cont', c)
      /\ \A j \in Id : j # c => Same(awake_cont, awake_cont', j)
      /\ UNCHANGED <<kind, queue, stopped, main, error, bytes, faults>>
  BY Woken DEF Waits
<1>2. /\ coro[c] = "alive" /\ pending' = pending \cup {c}
      /\ at' = [at EXCEPT ![c] = next] /\ offset' = [offset EXCEPT ![c] = o]
      /\ UNCHANGED <<coro, connection_id>>
  BY DEF Waits
<1>3. TypeOK'
  <2>1. LoopTypes'
    BY <1>1, <1>2, Types DEF LoopTypes
  <2>2. CoroTypes'
    BY <1>1, <1>2, Types DEF CoroTypes
  <2>3. QED
    BY <2>1, <2>2 DEF TypeOK
<1>4. OneWait'
  <2>1. Wait(c)'
    BY <1>1, <1>2 DEF Wait, Operation, Awake, Done
  <2>2. QED
    BY <1>1, <1>2, <2>1, OthersKept
<1>5. Listening'
  BY <1>1, <1>2 DEF IInv, Listening
<1>6. ASSUME NEW d \in Connection PROVE Progress(d)'
  <2>1. CASE d = c
    <3>1. at'[c] = next /\ offset'[c] = o
      BY <1>2, Types
    <3>2. QED
      BY <1>2, <2>1, <3>1 DEF Progress
  <2>2. CASE d # c
    <3>1. /\ at'[d] = at[d] /\ offset'[d] = offset[d]
          /\ d \in pending' <=> d \in pending
      BY <1>2, <2>2, Types
    <3>2. QED
      BY <1>1, <1>2, <3>1 DEF IInv, Progress
  <2>3. QED
    BY <2>1, <2>2
<1>7. QED
  BY <1>3, <1>4, <1>5, <1>6 DEF IInv

(* Connection c's coroutine returns with its offset at o. *)
LEMMA ReturnsStep ==
  ASSUME IInv, NEW c \in Connection, NEW o \in Nat, o <= Length,
         (at[c] = "write" /\ o = Length) \/ error[c], Returns(c, o)
  PROVE  IInv'
<1> USE Ids
<1>1. /\ Awake(c) /\ awake_cont' \in Seq(Id) /\ Once(awake_cont', c)
      /\ \A j \in Id : j # c => Same(awake_cont, awake_cont', j)
      /\ UNCHANGED <<kind, queue, stopped, main, error, bytes, faults>>
  BY Woken DEF Returns
<1>2. /\ coro[c] = "alive" /\ coro' = [coro EXCEPT ![c] = "done"]
      /\ offset' = [offset EXCEPT ![c] = o]
      /\ UNCHANGED <<pending, connection_id, at>>
  BY DEF Returns
<1>3. /\ coro'[c] = "done" /\ \A j \in Id : j # c => coro'[j] = coro[j]
      /\ offset'[c] = o /\ \A d \in Connection : d # c => offset'[d] = offset[d]
  BY <1>2, Types
<1>4. TypeOK'
  <2>1. LoopTypes'
    BY <1>1, <1>2, Types DEF LoopTypes
  <2>2. CoroTypes'
    BY <1>1, <1>2, Types DEF CoroTypes
  <2>3. QED
    BY <2>1, <2>2 DEF TypeOK
<1>5. OneWait'
  <2>1. Wait(c)'
    BY <1>1, <1>2, <1>3 DEF Wait, Awake, Done
  <2>2. QED
    BY <1>1, <1>2, <1>3, <2>1, OthersKept
<1>6. Listening'
  BY <1>1, <1>2, <1>3 DEF IInv, Listening
<1>7. ASSUME NEW d \in Connection PROVE Progress(d)'
  <2>1. CASE d = c
    BY <1>1, <1>2, <1>3, <2>1 DEF Progress
  <2>2. CASE d # c
    BY <1>1, <1>2, <1>3, <2>2 DEF IInv, Progress
  <2>3. QED
    BY <2>1, <2>2
<1>8. QED
  BY <1>4, <1>5, <1>6, <1>7 DEF IInv

(* An exception ends the program: nothing else has changed. *)
LEMMA ThrowsStep ==
  ASSUME IInv, NEW i \in Id, Throws(i)
  PROVE  IInv'
<1>1. TypeOK'
  <2>1. faults' \in Nat
    BY Types DEF Throws
  <2>2. QED
    BY <2>1, Types DEF Throws, TypeOK, LoopTypes, CoroTypes, ioVars, coroVars
<1>2. QED
  BY <1>1, AllKept DEF Throws, Same, ioVars

(* What a connection's coroutine does when it is resumed. *)
LEMMA ResumeStep ==
  ASSUME IInv, NEW c \in Connection,
         AfterRead(c) \/ AfterTimer(c) \/ AfterWrite(c) \/ AfterError(c)
  PROVE  IInv'
<1> USE Ids
<1>1. offset[c] \in Nat /\ bytes[c] \in Nat /\ offset[c] <= Length
  BY Types DEF IInv, Progress
<1>2. CASE AfterTimer(c)
  BY <1>2, WaitsStep DEF AfterTimer
<1>3. CASE AfterError(c)
  BY <1>1, <1>3, ReturnsStep DEF AfterError
<1> DEFINE o == offset[c] + bytes[c]
<1>4. ASSUME Awakes(c, <<>>) \/ Awakes(c, <<c>>), coro[c] = "alive",
             ~error[c], at[c] # "timer"
      PROVE  o \in Nat /\ o <= Length
  <2>1. c \notin pending
    BY <1>4, Woken DEF Awake
  <2>2. QED
    BY <1>1, <1>4, <2>1 DEF IInv, Progress
<1>5. CASE AfterRead(c)
  <2>1. Waits(c, IF o < Length THEN "read" ELSE "timer", o)
    BY <1>5 DEF AfterRead
  <2>2. o \in Nat /\ o <= Length
    BY <1>4, <1>5, <2>1 DEF AfterRead, Waits
  <2> HIDE DEF o
  <2>3. CASE o < Length
    BY <2>1, <2>2, <2>3, WaitsStep
  <2>4. CASE ~(o < Length)
    BY <2>1, <2>2, <2>4, WaitsStep
  <2>5. QED
    BY <2>3, <2>4
<1>6. CASE AfterWrite(c)
  <2>1. IF o < Length THEN Waits(c, "write", o) ELSE Returns(c, o)
    BY <1>6 DEF AfterWrite
  <2>2. o \in Nat /\ o <= Length
    BY <1>4, <1>6, <2>1 DEF AfterWrite, Waits, Returns
  <2> HIDE DEF o
  <2>3. CASE o < Length
    BY <2>1, <2>2, <2>3, WaitsStep
  <2>4. CASE ~(o < Length)
    <3>1. o = Length /\ Returns(c, o) /\ at[c] = "write"
      BY <1>6, <2>1, <2>2, <2>4 DEF AfterWrite
    <3>2. QED
      BY <2>2, <3>1, ReturnsStep
  <2>5. QED
    BY <2>3, <2>4
<1>7. QED
  BY <1>2, <1>3, <1>5, <1>6

(* Every step keeps the invariant. *)
LEMMA InvStep == IInv /\ [Next]_vars => IInv'
<1> SUFFICES ASSUME IInv, [Next]_vars PROVE IInv'
  OBVIOUS
<1>1. ASSUME NEW i \in Id, Resume(i) PROVE IInv'
  <2>1. CASE i = 0 /\ Listen
    BY <2>1, ListenStep
  <2>2. CASE i # 0 /\ (AfterRead(i) \/ AfterTimer(i) \/ AfterWrite(i) \/ AfterError(i))
    <3>1. i \in Connection
      BY <2>2, Ids
    <3>2. QED
      BY <2>2, <3>1, ResumeStep
  <2>3. CASE Throws(i)
    BY <2>3, ThrowsStep
  <2>4. QED
    BY <1>1, <2>1, <2>2, <2>3 DEF Resume
<1>2. CASE UNCHANGED vars
  <2>1. TypeOK'
    BY <1>2, Types DEF vars, ioVars, coroVars, TypeOK, LoopTypes, CoroTypes
  <2>2. QED
    BY <1>2, <2>1, AllKept DEF vars, ioVars, Same
<1>3. QED
  BY <1>1, <1>2, LoopStep, HandlerStep, CompleteStep, EraseStep
  DEF Next, Program, Clients, Dead

LEMMA Initially == Init => IInv
<1> SUFFICES ASSUME Init PROVE IInv
  OBVIOUS
<1> USE Ids
<1>1. queue = <<>> /\ awake_cont = <<>> /\ pending = {0}
  BY DEF Init, IoInit
<1>2. LoopTypes
  <2>1. kind \in Kinds /\ stopped \in BOOLEAN /\ main = "loop"
    BY DEF Init, IoInit
  <2>2. QED
    BY <1>1, <2>1 DEF LoopTypes
<1>3. CoroTypes
  BY DEF Init, CoroTypes
<1>4. OneWait
  <2>1. \A x : Never(queue, x) /\ Never(awake_cont, x)
    BY <1>1 DEF Never
  <2>2. QED
    BY <1>1, <2>1 DEF Init, OneWait, Operation, Nowhere
<1>5. Listening
  BY <1>1 DEF Init, Listening
<1>6. \A c \in Connection : Progress(c)
  BY DEF Init, Progress
<1>7. QED
  BY <1>2, <1>3, <1>4, <1>5, <1>6 DEF IInv, TypeOK

LEMMA Invariance == Spec => []IInv
<1>1. QED
  BY Initially, InvStep, PTL DEF Spec

(* The variables keep their types. *)
THEOREM TypeCorrect == Spec => []TypeOK
<1>1. IInv => TypeOK
  BY DEF IInv
<1>2. QED
  BY <1>1, Invariance, PTL

(* No coroutine is forgotten, and none is resumed twice for one operation. *)
THEOREM OneWaitCorrect == Spec => []OneWait
<1>1. IInv => OneWait
  BY DEF IInv
<1>2. QED
  BY <1>1, Invariance, PTL

(* A connection ends with its message written back, or with an error. *)
THEOREM ServedCorrect == Spec => []Served
<1>1. IInv => Served
  BY DEF IInv, Progress, Served
<1>2. QED
  BY <1>1, Invariance, PTL
==============================================================================
