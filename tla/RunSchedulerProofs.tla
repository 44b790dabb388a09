------------------------- MODULE RunSchedulerProofs --------------------------
(***************************************************************************)
(* Proofs about RunScheduler, for every number of sessions, of steps and of *)
(* failing waits, and for every kind of io_context.                         *)
(***************************************************************************)
EXTENDS RunScheduler, QueueProofs

(* The handlers in the io_context's queue are told apart by tag and id. *)
LEMMA Packets ==
  /\ StopPacket \in Packet
  /\ \A i \in Coro :
       /\ WaitDone(i) \in Packet /\ WaitDone(i) # StopPacket
       /\ EraseTimer(i) \in Packet /\ EraseTimer(i) # StopPacket
  /\ \A i, j \in Coro :
       /\ WaitDone(i) = WaitDone(j) => i = j
       /\ EraseTimer(i) = EraseTimer(j) => i = j
       /\ WaitDone(i) # EraseTimer(j)
<1>1. 0 \in Coro
  BY SchedulerAssumption DEF Coro
<1>2. \A i, j : WaitDone(i) = WaitDone(j) => i = j
  <2>1. \A i : WaitDone(i).id = i
    BY DEF WaitDone
  <2>2. QED
    BY <2>1
<1>3. \A i, j : EraseTimer(i) = EraseTimer(j) => i = j
  <2>1. \A i : EraseTimer(i).id = i
    BY DEF EraseTimer
  <2>2. QED
    BY <2>1
<1>4. \A i, j : /\ WaitDone(i) # EraseTimer(j)
                /\ WaitDone(i) # StopPacket
                /\ EraseTimer(i) # StopPacket
  <2>1. /\ StopPacket.tag = "stop"
        /\ \A i : WaitDone(i).tag = "wait" /\ EraseTimer(i).tag = "erase"
    BY DEF WaitDone, EraseTimer, StopPacket
  <2>2. QED
    BY <2>1
<1>5. /\ StopPacket \in Packet
      /\ \A i \in Coro : WaitDone(i) \in Packet /\ EraseTimer(i) \in Packet
  BY <1>1 DEF WaitDone, EraseTimer, StopPacket, Packet
<1>6. QED
  BY <1>2, <1>3, <1>4, <1>5

(* Session and acceptor ids. *)
LEMMA Ids ==
  /\ 0 \in Coro /\ 0 \notin Session
  /\ Coro = Session \cup {0}
  /\ Session \subseteq Nat /\ Coro \subseteq Nat
BY SchedulerAssumption DEF Coro, Session

(* The tail of awake_cont, and the tail with one id pushed. *)
LEMMA AwakeTail ==
  ASSUME awake \in Seq(Coro), awake # <<>>
  PROVE  /\ Head(awake) \in Coro
         /\ Tail(awake) \in Seq(Coro)
         /\ \A i \in Coro : Append(Tail(awake), i) \in Seq(Coro)
BY HeadTailProperties, AppendProperties

(* Every step keeps the types. *)
LEMMA TypeStep == TypeOK /\ [Next]_vars => TypeOK'
<1> SUFFICES ASSUME TypeOK, [Next]_vars PROVE TypeOK'
  OBVIOUS
<1> USE Packets, Ids DEF TypeOK
<1>1. ASSUME NEW i \in Coro, NEW e \in BOOLEAN, CompleteWait(i, e)
      PROVE  TypeOK'
  BY <1>1, AppendProperties DEF CompleteWait
<1>2. CASE CallRun
  BY <1>2, EnterRunKeeps DEF CallRun, coroVars
<1>3. ASSUME NEW i \in Coro, RunWaitDone(i) PROVE TypeOK'
  <2>1. Tail(queue) \in Seq(Packet)
    BY <1>3, HeadTailProperties DEF RunWaitDone, CanDispatch
  <2>2. queue' \in Seq(Packet) /\ stopped' \in BOOLEAN
    BY <1>3, <2>1, HandlerDoneKeeps DEF RunWaitDone
  <2>3. awake' \in Seq(Coro)
    BY <1>3, AppendProperties DEF RunWaitDone
  <2>4. QED
    BY <1>3, <2>2, <2>3 DEF RunWaitDone, coroVars
<1>4. ASSUME NEW s \in Session, RunEraseTimer(s) PROVE TypeOK'
  <2>1. Tail(queue) \in Seq(Packet)
    BY <1>4, HeadTailProperties DEF RunEraseTimer, CanDispatch
  <2>2. queue' \in Seq(Packet) /\ stopped' \in BOOLEAN
    BY <1>4, <2>1, HandlerDoneKeeps DEF RunEraseTimer
  <2>3. QED
    BY <1>4, <2>2 DEF RunEraseTimer, coroVars
<1>5. CASE RunReturns
  BY <1>5, LeaveRunKeeps DEF RunReturns, coroVars
<1>6. CASE NothingAwake \/ Discard \/ Return
  BY <1>6, AwakeTail DEF NothingAwake, Discard, Return, ioVars, coroVars
<1>7. ASSUME NEW s \in Session, SessionWaits(s) PROVE TypeOK'
  BY <1>7, AwakeTail DEF SessionWaits, Resumes
<1>8. ASSUME NEW s \in Session, SessionEnds(s) PROVE TypeOK'
  BY <1>8, AwakeTail, AppendProperties DEF SessionEnds, Resumes, Ends
<1>9. ASSUME NEW s \in Session, SessionFails(s) PROVE TypeOK'
  BY <1>9, AwakeTail DEF SessionFails, Resumes, Ends
<1>10. ASSUME NEW s \in Session, AcceptWaits(s) PROVE TypeOK'
  BY <1>10, AwakeTail DEF AcceptWaits, Creates, Resumes
<1>11. ASSUME NEW s \in Session, AcceptEnds(s) PROVE TypeOK'
  BY <1>11, AwakeTail DEF AcceptEnds, Creates, Resumes
<1>12. CASE AcceptFails
  BY <1>12, AwakeTail DEF AcceptFails, Resumes, Ends
<1>13. CASE UNCHANGED vars
  BY <1>13 DEF vars
<1> HIDE DEF TypeOK
<1>14. QED
  BY <1>1, <1>2, <1>3, <1>4, <1>5, <1>6, <1>7, <1>8, <1>9, <1>10, <1>11, <1>12,
     <1>13
  DEF Next, Scheduler, SessionStep, Timers, Done

(* The variables keep their types. *)
THEOREM TypeCorrect == Spec => []TypeOK
<1>1. Init => TypeOK
  BY Ids, SchedulerAssumption DEF Init, IoInit, TypeOK
<1>2. QED
  BY <1>1, TypeStep, PTL DEF Spec

------------------------------------------------------------------------------
(* A sequence change that leaves x where it was. *)
Same(q, r, x) ==
  /\ Once(r, x) <=> Once(q, x)
  /\ Never(r, x) <=> Never(q, x)

(* The wake-up of a coroutine is not disturbed by a step that leaves its wait, *)
(* its handler and its place in awake_cont alone.                              *)
LEMMA TokenKept ==
  ASSUME NEW i \in Coro,
         i \in pending' <=> i \in pending,
         Same(queue, queue', WaitDone(i)), Same(awake, awake', i)
  PROVE  /\ OneToken(i)' <=> OneToken(i)
         /\ NoToken(i)' <=> NoToken(i)
BY DEF OneToken, NoToken, Same, WaitDone

(* An id taken from awake_cont was the only wake-up of its coroutine, and     *)
(* taking it, or pushing it back, disturbs no other coroutine's.              *)
LEMMA AwakePop ==
  ASSUME TypeOK, WakeTokens, awake # <<>>, NEW i \in Coro, i = Head(awake)
  PROVE  /\ i \in live /\ i \notin pending
         /\ Never(queue, WaitDone(i))
         /\ Never(Tail(awake), i)
         /\ Once(Append(Tail(awake), i), i)
         /\ \A j \in Coro : j # i =>
              /\ Same(awake, Tail(awake), j)
              /\ Same(awake, Append(Tail(awake), i), j)
<1>1. awake \in Seq(Coro) /\ Tail(awake) \in Seq(Coro)
  BY AwakeTail DEF TypeOK
<1>2. ~Never(awake, i)
  BY <1>1, HeadIsThere
<1>3. /\ i \in live /\ i \notin pending
      /\ Never(queue, WaitDone(i)) /\ Once(awake, i)
  BY <1>2 DEF WakeTokens, OneToken, NoToken
<1>4. Never(Tail(awake), i)
  BY <1>1, <1>3, TailSame
<1>5. Once(Append(Tail(awake), i), i)
  BY <1>1, <1>4, AppendSame
<1>6. ASSUME NEW j \in Coro, j # i
      PROVE  /\ Same(awake, Tail(awake), j)
             /\ Same(awake, Append(Tail(awake), i), j)
  BY <1>1, <1>6, TailOther, AppendOther DEF Same
<1>7. QED
  BY <1>3, <1>4, <1>5, <1>6

(* A wait's handler taken from the queue was the only wake-up of its           *)
(* coroutine, which is suspended.                                              *)
LEMMA WaitPop ==
  ASSUME IInv, NEW i \in Coro, CanDispatch, Head(queue) = WaitDone(i),
         HandlerDone(Tail(queue))
  PROVE  /\ i \in live /\ i \notin pending /\ coro[i] # "done"
         /\ Never(awake, i)
         /\ Never(queue', WaitDone(i))
         /\ \A j \in Coro :
              /\ j # i => Same(queue, queue', WaitDone(j))
              /\ Same(queue, queue', EraseTimer(j))
<1>1. /\ queue \in Seq(Packet) /\ queue # <<>>
      /\ Tail(queue) \in Seq(Packet) /\ stopped \in BOOLEAN
  BY HeadTailProperties DEF IInv, TypeOK, CanDispatch
<1>2. ~Never(queue, WaitDone(i))
  BY <1>1, HeadIsThere
<1>3. /\ i \in live /\ i \notin pending
      /\ Once(queue, WaitDone(i)) /\ Never(awake, i)
  BY <1>2 DEF IInv, WakeTokens, OneToken, NoToken
<1>4. coro[i] # "done"
  BY <1>3, OnceNotNever DEF IInv, WakeTokens
<1>5. \A x : x # StopPacket => Same(Tail(queue), queue', x)
  BY <1>1, Packets, HandlerDoneKeeps DEF Same
<1>6. Never(Tail(queue), WaitDone(i))
  BY <1>1, <1>3, TailSame
<1>7. Never(queue', WaitDone(i))
  BY <1>5, <1>6, Packets DEF Same
<1>8. ASSUME NEW x, x # StopPacket, x # WaitDone(i)
      PROVE  Same(queue, queue', x)
  BY <1>1, <1>5, <1>8, TailOther DEF Same
<1>9. QED
  BY <1>3, <1>4, <1>7, <1>8, Packets

(* The same for the handler that erases a timer: its session has ended and    *)
(* no wait of it is outstanding.                                               *)
LEMMA ErasePop ==
  ASSUME IInv, NEW i \in Session, CanDispatch, Head(queue) = EraseTimer(i),
         HandlerDone(Tail(queue))
  PROVE  /\ coro[i] = "done"
         /\ i \notin pending /\ Never(queue, WaitDone(i))
         /\ \A j \in Coro :
              /\ Same(queue, queue', WaitDone(j))
              /\ j # i => Same(queue, queue', EraseTimer(j))
<1>1. /\ queue \in Seq(Packet) /\ queue # <<>>
      /\ Tail(queue) \in Seq(Packet) /\ stopped \in BOOLEAN
  BY HeadTailProperties DEF IInv, TypeOK, CanDispatch
<1>2. coro[i] = "done"
  BY <1>1, HeadIsThere DEF IInv, TimerLifetime
<1>3. i \notin pending /\ Never(queue, WaitDone(i))
  BY <1>2, Ids, OnceNotNever DEF IInv, WakeTokens, OneToken, NoToken
<1>4. \A x : x # StopPacket => Same(Tail(queue), queue', x)
  BY <1>1, Packets, HandlerDoneKeeps DEF Same
<1>5. ASSUME NEW x, x # StopPacket, x # EraseTimer(i)
      PROVE  Same(queue, queue', x)
  BY <1>1, <1>4, <1>5, TailOther DEF Same
<1>6. QED
  BY <1>2, <1>3, <1>5, Packets, Ids

(* Every step of the program keeps the invariant. *)
LEMMA InvStep == IInv /\ [Next]_vars => IInv'
<1> SUFFICES ASSUME IInv, [Next]_vars PROVE IInv'
  OBVIOUS
<1> USE Ids
<1>t. TypeOK /\ TypeOK'
  BY TypeStep DEF IInv
<1>q. /\ queue \in Seq(Packet) /\ awake \in Seq(Coro) /\ stopped \in BOOLEAN
      /\ coro \in [Coro -> {"new", "suspended", "done"}]
      /\ progress \in [Coro -> Nat] /\ ec \in [Coro -> BOOLEAN]
      /\ N \in Nat \ {0} /\ Steps \in Nat \ {0}
  BY <1>t, SchedulerAssumption DEF TypeOK
<1>i. Lifecycle /\ WakeTokens /\ TimerLifetime
  BY DEF IInv
<1>1. ASSUME NEW i \in Coro, NEW e \in BOOLEAN, CompleteWait(i, e)
      PROVE  IInv'
  <2>1. /\ i \in pending /\ i \notin pending' /\ i \in live
        /\ Never(queue, WaitDone(i)) /\ Never(awake, i)
    BY <1>1, <1>i, OnceNotNever DEF CompleteWait, WakeTokens, OneToken, NoToken
  <2>2. coro[i] = "suspended"
    BY <2>1, <1>i, <1>q, OnceNotNever DEF WakeTokens, Lifecycle
  <2>3. Once(queue', WaitDone(i))
    BY <1>1, <1>q, <2>1, Packets, AppendSame DEF CompleteWait
  <2>4. \A j \in Coro :
          /\ j # i => Same(queue, queue', WaitDone(j))
          /\ Same(queue, queue', EraseTimer(j))
    BY <1>1, <1>q, Packets, AppendOther DEF CompleteWait, Same
  <2>5. WakeTokens'
    <3>1. ASSUME NEW j \in Coro
          PROVE  (IF j \in live THEN OneToken(j) ELSE NoToken(j))'
      <4>1. CASE j = i
        BY <1>1, <2>1, <2>3, <4>1 DEF CompleteWait, OneToken, WaitDone
      <4>2. CASE j # i
        <5>1. /\ OneToken(j)' <=> OneToken(j)
              /\ NoToken(j)' <=> NoToken(j)
          BY <1>1, <2>4, <4>2, TokenKept DEF CompleteWait, Same
        <5>2. QED
          BY <1>1, <1>i, <5>1 DEF CompleteWait, WakeTokens
      <4>3. QED
        BY <4>1, <4>2
    <3>2. QED
      BY <1>1, <1>i, <3>1 DEF CompleteWait, WakeTokens
  <2>6. Lifecycle'
    BY <1>1, <1>i, <1>q, <2>2 DEF CompleteWait, Lifecycle
  <2>7. TimerLifetime'
    BY <1>1, <1>i, <2>1, <2>2, <2>4 DEF CompleteWait, TimerLifetime, Lifecycle, Same,
       WaitDone, EraseTimer
  <2>8. QED
    BY <1>t, <2>5, <2>6, <2>7 DEF IInv
<1>2. CASE CallRun \/ RunReturns \/ NothingAwake \/ Return \/ UNCHANGED vars
  <2>1. \A x : x # StopPacket => Same(queue, queue', x)
    <3>1. CASE CallRun
      BY <3>1, <1>q, Packets, EnterRunKeeps DEF CallRun, Same
    <3>2. CASE RunReturns
      BY <3>2, <1>q, Packets, LeaveRunKeeps DEF RunReturns, Same
    <3>3. CASE NothingAwake \/ Return \/ UNCHANGED vars
      BY <3>3 DEF NothingAwake, Return, ioVars, vars, Same
    <3>4. QED
      BY <1>2, <3>1, <3>2, <3>3
  <2>2. /\ UNCHANGED <<pending, live, awake, timers, coro, progress, ec>>
        /\ main' = "returned" => live = {}
    BY <1>2, <1>i DEF CallRun, RunReturns, NothingAwake, Return, vars, ioVars,
       coroVars, Lifecycle
  <2>3. WakeTokens'
    <3>1. \A j \in Coro : /\ OneToken(j)' <=> OneToken(j)
                          /\ NoToken(j)' <=> NoToken(j)
      BY <2>1, <2>2, Packets, TokenKept DEF Same
    <3>2. QED
      BY <1>i, <2>2, <3>1 DEF WakeTokens
  <2>4. Lifecycle'
    BY <1>i, <2>2 DEF Lifecycle
  <2>5. TimerLifetime'
    BY <1>i, <2>1, <2>2, Packets DEF TimerLifetime, Same, WaitDone, EraseTimer
  <2>6. QED
    BY <1>t, <2>3, <2>4, <2>5 DEF IInv
<1>3. ASSUME NEW i \in Coro, RunWaitDone(i) PROVE IInv'
  <2>1. /\ i \in live /\ i \notin pending /\ coro[i] # "done"
        /\ Never(awake, i)
        /\ Never(queue', WaitDone(i))
        /\ \A j \in Coro :
             /\ j # i => Same(queue, queue', WaitDone(j))
             /\ Same(queue, queue', EraseTimer(j))
    BY <1>3, WaitPop DEF RunWaitDone
  <2>2. Once(awake', i) /\ \A j \in Coro : j # i => Same(awake, awake', j)
    BY <1>3, <1>q, <2>1, AppendSame, AppendOther DEF RunWaitDone, Same
  <2>3. UNCHANGED <<pending, main, live, timers, coro, progress, ec>>
    BY <1>3 DEF RunWaitDone, coroVars
  <2>4. WakeTokens'
    <3>1. ASSUME NEW j \in Coro
          PROVE  /\ (IF j \in live THEN OneToken(j) ELSE NoToken(j))'
                 /\ (j \in live /\ coro[j] = "done" => Once(awake, j))'
      <4>1. CASE j = i
        BY <2>1, <2>2, <2>3, <4>1 DEF OneToken, WaitDone
      <4>2. CASE j # i
        <5>1. /\ OneToken(j)' <=> OneToken(j)
              /\ NoToken(j)' <=> NoToken(j)
          BY <2>1, <2>2, <2>3, <4>2, TokenKept
        <5>2. QED
          BY <1>i, <2>2, <2>3, <4>2, <5>1 DEF WakeTokens, Same
      <4>3. QED
        BY <4>1, <4>2
    <3>2. QED
      BY <3>1 DEF WakeTokens
  <2>5. Lifecycle'
    BY <1>i, <2>3 DEF Lifecycle
  <2>6. TimerLifetime'
    BY <1>i, <2>1, <2>3, Packets DEF TimerLifetime, Same, WaitDone, EraseTimer
  <2>7. QED
    BY <1>t, <2>4, <2>5, <2>6 DEF IInv
<1>4. ASSUME NEW s \in Session, RunEraseTimer(s) PROVE IInv'
  <2>1. /\ coro[s] = "done"
        /\ s \notin pending /\ Never(queue, WaitDone(s))
        /\ \A j \in Coro :
             /\ Same(queue, queue', WaitDone(j))
             /\ j # s => Same(queue, queue', EraseTimer(j))
    BY <1>4, ErasePop DEF RunEraseTimer
  <2>2. /\ UNCHANGED <<pending, main, live, awake, coro, progress, ec>>
        /\ timers' = timers \ {s}
    BY <1>4 DEF RunEraseTimer, coroVars
  <2>3. WakeTokens'
    <3>1. \A j \in Coro : /\ OneToken(j)' <=> OneToken(j)
                          /\ NoToken(j)' <=> NoToken(j)
      BY <2>1, <2>2, TokenKept DEF Same
    <3>2. QED
      BY <1>i, <2>2, <3>1 DEF WakeTokens
  <2>4. Lifecycle'
    BY <1>i, <2>1, <2>2 DEF Lifecycle
  <2>5. TimerLifetime'
    BY <1>i, <2>1, <2>2 DEF TimerLifetime, Same, WaitDone, EraseTimer
  <2>6. QED
    BY <1>t, <2>3, <2>4, <2>5 DEF IInv
<1>5. CASE Discard
  <2> DEFINE i == Head(awake)
  <2>1. /\ i \in Coro /\ i \in live /\ i \notin pending
        /\ Never(queue, WaitDone(i))
        /\ Never(Tail(awake), i)
        /\ \A j \in Coro : j # i => Same(awake, Tail(awake), j)
    BY <1>5, <1>i, <1>t, <1>q, AwakeTail, AwakePop DEF Discard
  <2>2. /\ coro[i] = "done"
        /\ live' = live \ {i} /\ awake' = Tail(awake) /\ main' = "loop"
        /\ UNCHANGED <<queue, pending, timers, coro, progress, ec>>
    BY <1>5, <2>1 DEF Discard, ioVars, coroVars
  <2> HIDE DEF i
  <2>3. WakeTokens'
    <3>1. ASSUME NEW j \in Coro
          PROVE  /\ (IF j \in live THEN OneToken(j) ELSE NoToken(j))'
                 /\ (j \in live /\ coro[j] = "done" => Once(awake, j))'
      <4>1. CASE j = i
        BY <2>1, <2>2, <4>1 DEF NoToken, WaitDone
      <4>2. CASE j # i
        <5>1. /\ OneToken(j)' <=> OneToken(j)
              /\ NoToken(j)' <=> NoToken(j)
          BY <2>1, <2>2, <4>2, TokenKept DEF Same
        <5>2. QED
          BY <1>i, <2>1, <2>2, <4>2, <5>1 DEF WakeTokens, Same
      <4>3. QED
        BY <4>1, <4>2
    <3>2. QED
      BY <3>1 DEF WakeTokens
  <2>4. Lifecycle'
    BY <1>i, <2>1, <2>2 DEF Lifecycle
  <2>5. TimerLifetime'
    BY <1>i, <2>2 DEF TimerLifetime, WaitDone, EraseTimer
  <2>6. QED
    BY <1>t, <2>3, <2>4, <2>5 DEF IInv
<1>6. ASSUME NEW s \in Session, SessionWaits(s) PROVE IInv'
  <2>1. /\ s \in Coro /\ s \in live /\ s \notin pending
        /\ Never(queue, WaitDone(s)) /\ Never(Tail(awake), s)
        /\ \A j \in Coro : j # s => Same(awake, Tail(awake), j)
    BY <1>6, <1>i, <1>t, AwakePop DEF SessionWaits, Resumes
  <2>2. coro[s] = "suspended" /\ s \in timers
    BY <1>6, <1>i, <1>q, <2>1 DEF SessionWaits, Resumes, Lifecycle
  <2>3. /\ UNCHANGED <<queue, live, timers, coro, ec>>
        /\ pending' = pending \cup {s} /\ awake' = Tail(awake) /\ main' = "loop"
        /\ progress' = [progress EXCEPT ![s] = @ + 1] /\ progress[s] + 1 < Steps
    BY <1>6 DEF SessionWaits, Resumes
  <2>4. WakeTokens'
    <3>1. ASSUME NEW j \in Coro
          PROVE  /\ (IF j \in live THEN OneToken(j) ELSE NoToken(j))'
                 /\ (j \in live /\ coro[j] = "done" => Once(awake, j))'
      <4>1. CASE j = s
        BY <2>1, <2>2, <2>3, <4>1 DEF OneToken, WaitDone
      <4>2. CASE j # s
        <5>1. /\ OneToken(j)' <=> OneToken(j)
              /\ NoToken(j)' <=> NoToken(j)
          BY <2>1, <2>3, <4>2, TokenKept DEF Same
        <5>2. QED
          BY <1>i, <2>1, <2>3, <4>2, <5>1 DEF WakeTokens, Same
      <4>3. QED
        BY <4>1, <4>2
    <3>2. QED
      BY <3>1 DEF WakeTokens
  <2>5. Lifecycle'
    BY <1>i, <1>q, <2>2, <2>3 DEF Lifecycle
  <2>6. TimerLifetime'
    BY <1>i, <2>2, <2>3 DEF TimerLifetime, WaitDone, EraseTimer
  <2>7. QED
    BY <1>t, <2>4, <2>5, <2>6 DEF IInv
<1>7. ASSUME NEW i \in Coro, awake # <<>>, Head(awake) = i, Ends(i),
             coro[i] = "suspended", main' = "loop", 
             UNCHANGED <<pending, live, timers, ec>>,
             \A j \in Coro : Same(queue, queue', WaitDone(j))
      PROVE  WakeTokens'
  <2>1. /\ i \in live /\ i \notin pending
        /\ Never(queue, WaitDone(i))
        /\ Once(awake', i)
        /\ \A j \in Coro : j # i => Same(awake, awake', j)
    BY <1>7, <1>i, <1>t, AwakePop DEF Ends
  <2>2. coro' = [coro EXCEPT ![i] = "done"]
    BY <1>7 DEF Ends
  <2>3. ASSUME NEW j \in Coro
        PROVE  /\ (IF j \in live THEN OneToken(j) ELSE NoToken(j))'
               /\ (j \in live /\ coro[j] = "done" => Once(awake, j))'
    <3>1. CASE j = i
      BY <1>7, <2>1, <2>2, <3>1 DEF OneToken, Same, WaitDone
    <3>2. CASE j # i
      <4>1. /\ OneToken(j)' <=> OneToken(j)
            /\ NoToken(j)' <=> NoToken(j)
        BY <1>7, <2>1, <3>2, TokenKept
      <4>2. QED
        BY <1>7, <1>i, <1>q, <2>1, <2>2, <3>2, <4>1 DEF WakeTokens, Same
    <3>3. QED
      BY <3>1, <3>2
  <2>4. QED
    BY <2>3 DEF WakeTokens
<1>8. ASSUME NEW s \in Session, SessionEnds(s) \/ SessionFails(s) PROVE IInv'
  <2>1. /\ s \in Coro /\ awake # <<>> /\ Head(awake) = s /\ s \in live
        /\ Ends(s) /\ main' = "loop"
        /\ UNCHANGED <<pending, live, timers, ec>>
    BY <1>8 DEF SessionEnds, SessionFails, Resumes
  <2>2. coro[s] = "suspended"
    BY <1>8, <1>i, <1>q, <2>1 DEF SessionEnds, SessionFails, Resumes, Lifecycle
  <2>3. \A j \in Coro :
          /\ Same(queue, queue', WaitDone(j))
          /\ j # s => Same(queue, queue', EraseTimer(j))
    <3>1. CASE SessionEnds(s)
      BY <3>1, <1>q, <2>1, Packets, AppendOther DEF SessionEnds, Same
    <3>2. CASE SessionFails(s)
      BY <3>2 DEF SessionFails, Same
    <3>3. QED
      BY <1>8, <3>1, <3>2
  <2>4. WakeTokens'
    BY <1>7, <2>1, <2>2, <2>3
  <2>5. /\ coro' = [coro EXCEPT ![s] = "done"]
        /\ progress' \in [Coro -> Nat]
        /\ \A j \in Coro : j # s => progress'[j] = progress[j]
        /\ progress'[s] = Steps \/ (progress'[s] = progress[s] /\ ec[s])
    BY <1>8, <1>q DEF SessionEnds, SessionFails, Ends
  <2>6. Lifecycle'
    BY <1>i, <1>q, <2>1, <2>2, <2>5 DEF Lifecycle
  <2>7. TimerLifetime'
    BY <1>i, <1>q, <2>1, <2>3, <2>5 DEF TimerLifetime, Same, WaitDone, EraseTimer
  <2>8. QED
    BY <1>t, <2>4, <2>6, <2>7 DEF IInv
<1>9. CASE AcceptFails
  <2>1. /\ awake # <<>> /\ Head(awake) = 0 /\ Ends(0) /\ main' = "loop"
        /\ UNCHANGED <<queue, pending, live, timers, progress, ec>>
        /\ ec[0] /\ coro[0] # "done"
    BY <1>9 DEF AcceptFails, Resumes
  <2>2. coro[0] = "suspended"
    BY <1>i, <1>q, <2>1 DEF Lifecycle
  <2>3. WakeTokens'
    BY <1>7, <2>1, <2>2 DEF Same
  <2>4. coro' = [coro EXCEPT ![0] = "done"]
    BY <2>1 DEF Ends
  <2>5. Lifecycle'
    BY <1>i, <1>q, <2>1, <2>2, <2>4 DEF Lifecycle
  <2>6. TimerLifetime'
    BY <1>i, <1>q, <2>1, <2>4 DEF TimerLifetime, WaitDone, EraseTimer
  <2>7. QED
    BY <1>t, <2>3, <2>5, <2>6 DEF IInv
<1>10. ASSUME NEW s \in Session, AcceptWaits(s) \/ AcceptEnds(s) PROVE IInv'
  <2>1. /\ 0 \in live /\ 0 \notin pending
        /\ Never(queue, WaitDone(0)) /\ Never(Tail(awake), 0)
        /\ Once(Append(Tail(awake), 0), 0)
        /\ \A j \in Coro : j # 0 => /\ Same(awake, Tail(awake), j)
                                   /\ Same(awake, Append(Tail(awake), 0), j)
    BY <1>10, <1>i, <1>t, AwakePop DEF AcceptWaits, AcceptEnds, Resumes
  <2>2. /\ coro[0] = "suspended" /\ s = progress[0] + 1
        /\ coro[s] = "new" /\ s \notin live
    BY <1>10, <1>i, <1>q, <2>1 DEF AcceptWaits, AcceptEnds, Resumes, Creates,
       Lifecycle
  <2>3. s \notin pending /\ Never(queue, WaitDone(s)) /\ Never(awake, s)
    BY <1>i, <2>2 DEF WakeTokens, NoToken
  <2>4. /\ UNCHANGED <<queue, ec>> /\ main' = "loop"
        /\ live' = live \cup {s} /\ timers' = timers \cup {s}
        /\ progress' = [progress EXCEPT ![0] = s]
    BY <1>10 DEF AcceptWaits, AcceptEnds, Resumes, Creates
  <2>5. \/ /\ coro' = [coro EXCEPT ![s] = "suspended"] /\ s < N
           /\ pending' = pending \cup {s, 0} /\ awake' = Tail(awake)
        \/ /\ coro' = [coro EXCEPT ![s] = "suspended", ![0] = "done"] /\ s = N
           /\ pending' = pending \cup {s} /\ awake' = Append(Tail(awake), 0)
    BY <1>10 DEF AcceptWaits, AcceptEnds
  <2>6. \A j \in Coro : j # 0 => Same(awake, awake', j)
    BY <2>1, <2>5
  <2>7. WakeTokens'
    <3>1. ASSUME NEW j \in Coro
          PROVE  /\ (IF j \in live THEN OneToken(j) ELSE NoToken(j))'
                 /\ (j \in live /\ coro[j] = "done" => Once(awake, j))'
      <4>1. CASE j = 0
        BY <1>q, <2>1, <2>2, <2>4, <2>5, <4>1 DEF OneToken, WaitDone
      <4>2. CASE j = s
        <5>1. j \in live' /\ j \in pending' /\ coro'[j] = "suspended"
          BY <1>q, <2>4, <2>5, <4>2
        <5>2. Never(queue', WaitDone(j)) /\ Never(awake', j)
          BY <2>3, <2>4, <2>6, <4>2 DEF Same
        <5>3. QED
          BY <5>1, <5>2 DEF OneToken, WaitDone
      <4>3. CASE j # 0 /\ j # s
        <5>1. /\ OneToken(j)' <=> OneToken(j)
              /\ NoToken(j)' <=> NoToken(j)
          BY <2>4, <2>5, <2>6, <4>3, TokenKept DEF Same
        <5>2. QED
          BY <1>i, <1>q, <2>4, <2>5, <2>6, <4>3, <5>1 DEF WakeTokens, Same
      <4>4. QED
        BY <4>1, <4>2, <4>3
    <3>2. QED
      BY <3>1 DEF WakeTokens
  <2>8. Lifecycle'
    <3>1. progress[s] < Steps
      BY <1>i, <1>q, <2>2 DEF Lifecycle
    <3>2. QED
      BY <1>i, <1>q, <2>1, <2>2, <2>4, <2>5, <3>1 DEF Lifecycle
  <2>9. TimerLifetime'
    BY <1>i, <1>q, <2>2, <2>4, <2>5 DEF TimerLifetime, WaitDone, EraseTimer
  <2>10. QED
    BY <1>t, <2>7, <2>8, <2>9 DEF IInv
<1> HIDE DEF IInv
<1>11. QED
  BY <1>1, <1>2, <1>3, <1>4, <1>5, <1>6, <1>8, <1>9, <1>10
  DEF Next, Scheduler, SessionStep, Timers, Done

(* The invariant holds in every state of every behaviour. *)
LEMMA Invariance == Spec => []IInv
<1>1. Init => IInv
  <2> SUFFICES ASSUME Init PROVE IInv
    OBVIOUS
  <2> USE Ids, SchedulerAssumption
  <2>1. TypeOK
    BY DEF Init, IoInit, TypeOK
  <2>2. \A x : Never(queue, x) /\ Never(awake, x)
    BY DEF Init, IoInit, Never
  <2>3. WakeTokens
    BY <2>2 DEF Init, IoInit, WakeTokens, OneToken, NoToken
  <2>4. Lifecycle
    BY DEF Init, Lifecycle, Session
  <2>5. TimerLifetime
    BY <2>2 DEF Init, IoInit, TimerLifetime
  <2>6. QED
    BY <2>1, <2>3, <2>4, <2>5 DEF IInv
<1>2. QED
  BY <1>1, InvStep, PTL DEF Spec

(* A coroutine's state agrees with coro_cont and with what it has done. *)
THEOREM LifecycleCorrect == Spec => []Lifecycle
<1>1. IInv => Lifecycle
  BY DEF IInv
<1>2. QED
  BY <1>1, Invariance, PTL

(* No wake-up is lost or doubled. *)
THEOREM WakeTokensCorrect == Spec => []WakeTokens
<1>1. IInv => WakeTokens
  BY DEF IInv
<1>2. QED
  BY <1>1, Invariance, PTL

(* No timer is destroyed while a wait on it is outstanding. *)
THEOREM TimerLifetimeCorrect == Spec => []TimerLifetime
<1>1. IInv => TimerLifetime
  BY DEF IInv
<1>2. QED
  BY <1>1, Invariance, PTL

(* When the scheduler returns, each session has its whole result or an error *)
(* kept it from it.                                                           *)
THEOREM ServedCorrect == Spec => []Served
<1>1. IInv => Served
  <2> SUFFICES ASSUME IInv, main = "returned", NEW s \in Session
               PROVE  progress[s] = Steps \/ ec[s] \/ (coro[s] = "new" /\ ec[0])
    BY DEF Served
  <2>1. live = {} /\ coro \in [Coro -> {"new", "suspended", "done"}]
    BY DEF IInv, Lifecycle, TypeOK
  <2>2. coro[0] = "done"
    BY <2>1, Ids DEF IInv, Lifecycle
  <2>3. CASE coro[s] = "done"
    BY <2>3 DEF IInv, Lifecycle
  <2>4. CASE coro[s] = "new"
    BY <2>2, <2>4, SchedulerAssumption DEF IInv, Lifecycle, Session
  <2>5. QED
    BY <2>1, <2>3, <2>4, Ids DEF IInv, Lifecycle
<1>2. QED
  BY <1>1, Invariance, PTL

------------------------------------------------------------------------------
(* Windows.  Until the context has stopped for the first time, only the       *)
(* acceptor's first wait exists; afterwards the stop packet is always in the   *)
(* queue, so run() always returns.                                             *)
FirstWait ==
  /\ awake = <<>> /\ live = {0} /\ main # "wake"
  /\ \/ queue = <<>> /\ pending = {0}
     \/ queue = <<WaitDone(0)>> /\ pending = {}

PacketInv ==
  kind = "iocp" => IF stopped THEN ~Never(queue, StopPacket) ELSE FirstWait

(* Every step keeps it. *)
LEMMA PacketStep == TypeOK /\ PacketInv /\ [Next]_vars => PacketInv'
<1> SUFFICES ASSUME TypeOK, PacketInv, [Next]_vars PROVE PacketInv'
  OBVIOUS
<1>k. kind' = kind
  <2>1. ASSUME NEW s \in Session, SessionStep(s) PROVE kind' = kind
    BY <2>1 DEF SessionStep, SessionWaits, SessionEnds, SessionFails, AcceptWaits,
       AcceptEnds, RunEraseTimer, Resumes
  <2>2. ASSUME CallRun \/ RunReturns \/ NothingAwake \/ Discard \/ Return \/ AcceptFails
        PROVE  kind' = kind
    BY <2>2 DEF CallRun, RunReturns, NothingAwake, Discard, Return, AcceptFails,
       Resumes, ioVars
  <2>3. ASSUME NEW i \in Coro, RunWaitDone(i) PROVE kind' = kind
    BY <2>3 DEF RunWaitDone
  <2>4. ASSUME Timers \/ UNCHANGED vars PROVE kind' = kind
    BY <2>4 DEF Timers, CompleteWait, vars
  <2>5. QED
    BY <2>1, <2>2, <2>3, <2>4 DEF Next, Scheduler, Done
<1> SUFFICES ASSUME kind = "iocp"
             PROVE  IF stopped' THEN ~Never(queue', StopPacket) ELSE FirstWait'
  BY <1>k DEF PacketInv
<1> USE Packets, Ids
<1>q. queue \in Seq(Packet) /\ stopped \in BOOLEAN
  BY DEF TypeOK
<1>s. ASSUME NEW x \in Packet, x # StopPacket
      PROVE  Never(Append(queue, x), StopPacket) <=> Never(queue, StopPacket)
  BY <1>q, <1>s, AppendOther
<1>t. ASSUME queue # <<>>, Head(queue) # StopPacket
      PROVE  Never(Tail(queue), StopPacket) <=> Never(queue, StopPacket)
  BY <1>q, <1>t, TailOther
<1>f. CASE ~stopped
  <2>1. FirstWait
    BY <1>f DEF PacketInv
  <2>2. queue # <<>> => Head(queue) = WaitDone(0) /\ Tail(queue) = <<>>
    <3>1. CASE queue = <<>>
      BY <3>1
    <3>2. CASE queue = <<WaitDone(0)>>
      <4>1. Len(queue) = 1 /\ Head(queue) = WaitDone(0)
        BY <3>2
      <4>2. Len(Tail(queue)) = 0 /\ Tail(queue) \in Seq(Packet)
        BY <1>q, <3>2, <4>1, HeadTailProperties
      <4>3. QED
        BY <4>1, <4>2, EmptySeq
    <3>3. QED
      BY <2>1, <3>1, <3>2 DEF FirstWait
  <2>3. ~Idle(queue, pending)
    BY <2>1 DEF FirstWait, Idle
  <2>4. ASSUME NEW i \in Coro, NEW e \in BOOLEAN, CompleteWait(i, e)
        PROVE  ~stopped' /\ FirstWait'
    <3>1. i = 0 /\ queue = <<>> /\ pending' = {} /\ queue' = Append(queue, WaitDone(0))
      BY <2>1, <2>4 DEF CompleteWait, FirstWait
    <3>2. queue' = <<WaitDone(0)>>
      BY <3>1
    <3>3. QED
      BY <1>f, <2>1, <2>4, <3>1, <3>2 DEF CompleteWait, FirstWait, WaitDone
  <2>5. ASSUME CallRun PROVE ~stopped' /\ FirstWait'
    BY <1>f, <2>1, <2>3, <2>5 DEF CallRun, EnterRun, RefuseRun, FirstWait, WaitDone
  <2>6. ASSUME NEW i \in Coro, RunWaitDone(i)
        PROVE  stopped' /\ ~Never(queue', StopPacket)
    <3>1. queue # <<>> /\ pending = {} /\ Tail(queue) = <<>>
      BY <2>1, <2>2, <2>6 DEF RunWaitDone, CanDispatch, FirstWait
    <3>2. Idle(Tail(queue), pending)
      BY <3>1 DEF Idle
    <3>3. stopped' = TRUE /\ queue' = Append(Tail(queue), StopPacket)
      BY <1>f, <2>6, <3>2 DEF RunWaitDone, HandlerDone, HandlerLeaves, Stop
    <3>4. Once(queue', StopPacket)
      <4>1. Tail(queue) \in Seq(Packet) /\ Never(Tail(queue), StopPacket)
        BY <1>q, <3>1 DEF Never
      <4>2. QED
        BY <3>3, <4>1, AppendSame
    <3>5. QED
      BY <3>3, <3>4, OnceNotNever
  <2>7. ~RunReturns
    BY <2>2 DEF RunReturns, LeaveRun
  <2>8. \A s \in Session : ~RunEraseTimer(s)
    BY <2>2 DEF RunEraseTimer, CanDispatch
  <2>9. /\ ~NothingAwake /\ ~Discard /\ ~Return /\ ~AcceptFails
        /\ \A s \in Session : /\ ~SessionWaits(s) /\ ~SessionEnds(s) /\ ~SessionFails(s)
                              /\ ~AcceptWaits(s) /\ ~AcceptEnds(s)
    BY <2>1 DEF FirstWait, NothingAwake, Discard, Return, SessionWaits, SessionEnds,
       SessionFails, AcceptWaits, AcceptEnds, AcceptFails, Resumes
  <2>10. ASSUME UNCHANGED vars PROVE ~stopped' /\ FirstWait'
    BY <1>f, <2>1, <2>10 DEF vars, FirstWait, WaitDone
  <2>11. QED
    BY <2>4, <2>5, <2>6, <2>7, <2>8, <2>9, <2>10
    DEF Next, Scheduler, SessionStep, Timers, Done
<1>g. CASE stopped
  <2>1. ~Never(queue, StopPacket)
    BY <1>g DEF PacketInv
  <2>2. ASSUME NEW i \in Coro, NEW e \in BOOLEAN, CompleteWait(i, e)
        PROVE  stopped' /\ ~Never(queue', StopPacket)
    BY <1>g, <1>s, <2>1, <2>2 DEF CompleteWait
  <2>3. ASSUME CallRun PROVE stopped' /\ ~Never(queue', StopPacket)
    BY <1>g, <2>1, <2>3 DEF CallRun, EnterRun, RefuseRun, Stop
  <2>4. ASSUME CanDispatch, HandlerDone(Tail(queue))
        PROVE  stopped' /\ ~Never(queue', StopPacket)
    BY <1>g, <1>t, <2>1, <2>4 DEF CanDispatch, HandlerDone, HandlerLeaves, Stop
  <2>5. ASSUME RunReturns PROVE stopped' /\ ~Never(queue', StopPacket)
    <3>1. stopped' = stopped /\ queue # <<>> /\ queue' = Append(Tail(queue), StopPacket)
      BY <2>5 DEF RunReturns, LeaveRun
    <3>2. Tail(queue) \in Seq(Packet)
      BY <1>q, <3>1, HeadTailProperties
    <3>3. /\ Len(Tail(queue)) + 1 \in DOMAIN queue'
          /\ queue'[Len(Tail(queue)) + 1] = StopPacket
      BY <3>1, <3>2, AppendProperties, LenProperties
    <3>4. QED
      BY <1>g, <3>1, <3>3 DEF Never
  <2>6. ASSUME NEW s \in Session, SessionEnds(s)
        PROVE  stopped' /\ ~Never(queue', StopPacket)
    BY <1>g, <1>s, <2>1, <2>6 DEF SessionEnds, Resumes
  <2>7. ASSUME UNCHANGED <<queue, stopped>>
        PROVE  stopped' /\ ~Never(queue', StopPacket)
    BY <1>g, <2>1, <2>7
  <2>8. ASSUME NEW s \in Session,
               SessionWaits(s) \/ SessionFails(s) \/ AcceptWaits(s) \/ AcceptEnds(s)
        PROVE  UNCHANGED <<queue, stopped>>
    BY <2>8 DEF SessionWaits, SessionFails, AcceptWaits, AcceptEnds, Creates, Resumes
  <2>9. ASSUME AcceptFails \/ NothingAwake \/ Discard \/ Return \/ UNCHANGED vars
        PROVE  UNCHANGED <<queue, stopped>>
    BY <2>9 DEF AcceptFails, NothingAwake, Discard, Return, Resumes, vars, ioVars
  <2>10. ASSUME NEW i \in Coro, RunWaitDone(i)
         PROVE  CanDispatch /\ HandlerDone(Tail(queue))
    BY <2>10 DEF RunWaitDone
  <2>11. ASSUME NEW s \in Session, RunEraseTimer(s)
         PROVE  CanDispatch /\ HandlerDone(Tail(queue))
    BY <2>11 DEF RunEraseTimer
  <2>12. QED
    BY <2>2, <2>3, <2>4, <2>5, <2>6, <2>7, <2>8, <2>9, <2>10, <2>11
    DEF Next, Scheduler, SessionStep, Timers, Done
<1>h. QED
  BY <1>q, <1>f, <1>g

(* On Windows run() never blocks on a timer while a coroutine is ready. *)
THEOREM NoHeadOfLineCorrect == Spec => []NoHeadOfLine
<1>1. Init => PacketInv
  BY DEF Init, IoInit, PacketInv, FirstWait
<1>2. TypeOK /\ PacketInv => NoHeadOfLine
  <2>1. ~Never(queue, StopPacket) => queue # <<>>
    BY DEF Never
  <2>2. QED
    BY <2>1 DEF TypeOK, PacketInv, FirstWait, NoHeadOfLine
<1>3. QED
  BY <1>1, <1>2, PacketStep, TypeCorrect, PTL DEF Spec

------------------------------------------------------------------------------
(* RunScheduler implements Workflow: every step of the scheduler, of the       *)
(* io_context and of the timers is a step of Workflow or none, under the        *)
(* refinement mapping W of RunScheduler.                                        *)


(* The values the mapping W gives to Workflow's variables. *)
State ==
  [s \in Session |->
     IF coro[s] = "new" THEN "new"
     ELSE IF coro[s] = "done" /\ progress[s] < Steps THEN "failed"
     ELSE "active"]
Progress == [s \in Session |-> progress[s]]
Closed   == coro[0] = "done" /\ progress[0] < N
Returned == main = "returned"

(* What a step of a coroutine starts from. *)
LEMMA Resumed ==
  ASSUME IInv, NEW i \in Coro, Resumes(i)
  PROVE  /\ coro[i] = "suspended"
         /\ main # "returned" /\ main' # "returned"
         /\ ec' = ec
BY DEF IInv, TypeOK, Lifecycle, Resumes

(* A step that moves no coroutine is no step of Workflow. *)
LEMMA Stutter ==
  ASSUME UNCHANGED <<coro, progress>>, Returned' = Returned
  PROVE  UNCHANGED W!vars
BY DEF W!vars, Returned

(* A session that has waited takes a step. *)
LEMMA SessionSteps ==
  ASSUME IInv, NEW s \in Session, SessionWaits(s) \/ SessionEnds(s)
  PROVE  W!Step(s)
<1> USE Ids
<1>1. /\ coro \in [Coro -> {"new", "suspended", "done"}]
      /\ progress \in [Coro -> Nat]
      /\ Steps \in Nat \ {0}
  BY SchedulerAssumption DEF IInv, TypeOK
<1>2. coro[s] = "suspended" /\ main # "returned" /\ main' # "returned"
  BY Resumed DEF SessionWaits, SessionEnds
<1>3. /\ progress' = [progress EXCEPT ![s] = @ + 1]
      /\ progress[s] < Steps
      /\ \/ coro' = coro
         \/ coro' = [coro EXCEPT ![s] = "done"] /\ progress[s] + 1 = Steps
  BY <1>1 DEF SessionWaits, SessionEnds, Ends
<1>4. Progress' = [Progress EXCEPT ![s] = @ + 1]
  BY <1>1, <1>3 DEF Progress
<1>5. State' = State /\ State[s] = "active"
  <2>1. ASSUME NEW r \in Session PROVE State'[r] = State[r]
    BY <1>1, <1>2, <1>3 DEF State
  <2>2. QED
    BY <1>2, <2>1 DEF State
<1>6. Closed' = Closed
  BY <1>1, <1>3 DEF Closed
<1>7. QED
  BY <1>2, <1>3, <1>4, <1>5, <1>6 DEF W!Step, State, Progress, Closed

(* A session whose wait failed fails. *)
LEMMA SessionStops ==
  ASSUME IInv, NEW s \in Session, SessionFails(s)
  PROVE  W!Fail(s)
<1> USE Ids
<1>1. /\ coro \in [Coro -> {"new", "suspended", "done"}]
      /\ progress \in [Coro -> Nat]
  BY DEF IInv, TypeOK
<1>2. coro[s] = "suspended" /\ main # "returned" /\ main' # "returned"
  BY Resumed DEF SessionFails
<1>3. progress[s] < Steps
  BY <1>2 DEF IInv, Lifecycle
<1>4. progress' = progress /\ coro' = [coro EXCEPT ![s] = "done"]
  BY DEF SessionFails, Ends
<1>5. State' = [State EXCEPT ![s] = "failed"] /\ State[s] = "active"
  BY <1>1, <1>2, <1>3, <1>4 DEF State
<1>6. Closed' = Closed
  BY <1>1, <1>4 DEF Closed
<1>7. QED
  BY <1>2, <1>3, <1>4, <1>5, <1>6 DEF W!Fail, State, Closed

(* The acceptor's step accepts the next session. *)
LEMMA Accepts ==
  ASSUME IInv, NEW s \in Session, AcceptWaits(s) \/ AcceptEnds(s)
  PROVE  W!Accept(s)
<1> USE Ids
<1>1. /\ coro \in [Coro -> {"new", "suspended", "done"}]
      /\ progress \in [Coro -> Nat]
      /\ N \in Nat \ {0} /\ Steps \in Nat \ {0}
  BY SchedulerAssumption DEF IInv, TypeOK
<1>2. coro[0] = "suspended" /\ main # "returned" /\ main' # "returned"
  BY Resumed DEF AcceptWaits, AcceptEnds
<1>3. /\ s = progress[0] + 1
      /\ progress' = [progress EXCEPT ![0] = s]
      /\ \/ coro' = [coro EXCEPT ![s] = "suspended"]
         \/ coro' = [coro EXCEPT ![s] = "suspended", ![0] = "done"] /\ s = N
  BY DEF AcceptWaits, AcceptEnds, Creates
<1>4. /\ coro[s] = "new" /\ progress[s] = 0
      /\ \A r \in 1..(s - 1) : r \in Session /\ coro[r] # "new"
  BY <1>1, <1>3 DEF IInv, Lifecycle, Session
<1>5. Progress' = [Progress EXCEPT ![s] = 0]
  BY <1>1, <1>3, <1>4 DEF Progress
<1>6. State' = [State EXCEPT ![s] = "active"]
  <2>1. coro'[s] = "suspended" /\ \A r \in Session : r # s => coro'[r] = coro[r]
    BY <1>1, <1>3
  <2>2. \A r \in Session : progress'[r] = progress[r]
    BY <1>1, <1>3
  <2>3. QED
    BY <2>1, <2>2 DEF State
<1>7. State[s] = "new" /\ \A r \in 1..(s - 1) : State[r] # "new"
  BY <1>4 DEF State
<1>8. ~Closed /\ ~Closed'
  BY <1>1, <1>2, <1>3 DEF Closed
<1>9. QED
  BY <1>2, <1>5, <1>6, <1>7, <1>8 DEF W!Accept, State, Progress, Closed

(* An acceptor whose wait failed closes, with a session still expected. *)
LEMMA AcceptStops ==
  ASSUME IInv, AcceptFails
  PROVE  W!AcceptFails
<1> USE Ids
<1>1. /\ coro \in [Coro -> {"new", "suspended", "done"}]
      /\ progress \in [Coro -> Nat]
      /\ N \in Nat \ {0}
  BY SchedulerAssumption DEF IInv, TypeOK
<1>2. coro[0] = "suspended" /\ main # "returned" /\ main' # "returned"
  BY Resumed DEF AcceptFails
<1>3. progress' = progress /\ coro' = [coro EXCEPT ![0] = "done"]
  BY DEF AcceptFails, Ends
<1>4. N \in Session /\ coro[N] = "new" /\ progress[0] < N
  BY <1>1, <1>2 DEF IInv, Lifecycle, Session
<1>5. State' = State /\ State[N] = "new"
  <2>1. ASSUME NEW r \in Session PROVE coro'[r] = coro[r]
    BY <1>1, <1>3
  <2>2. QED
    BY <1>3, <1>4, <2>1 DEF State
<1>6. ~Closed /\ Closed'
  BY <1>1, <1>2, <1>3, <1>4 DEF Closed
<1>7. W!Session = Session
  BY DEF W!Session, Session
<1>8. QED
  BY <1>2, <1>3, <1>4, <1>5, <1>6, <1>7 DEF W!AcceptFails, State, Closed

(* The scheduler returns when every session is over. *)
LEMMA Returns ==
  ASSUME IInv, Return
  PROVE  W!Return
<1> USE Ids
<1>1. /\ coro \in [Coro -> {"new", "suspended", "done"}]
      /\ progress \in [Coro -> Nat]
      /\ N \in Nat \ {0} /\ Steps \in Nat \ {0}
  BY SchedulerAssumption DEF IInv, TypeOK
<1>2. /\ live = {} /\ main # "returned" /\ main' = "returned"
      /\ UNCHANGED <<coro, progress>>
  BY DEF Return, coroVars
<1>3. coro[0] = "done"
  BY <1>1, <1>2 DEF IInv, Lifecycle
<1>4. ASSUME NEW s \in Session
      PROVE  \/ State[s] = "active" /\ Progress[s] = Steps
             \/ State[s] = "failed"
             \/ State[s] = "new" /\ Closed
  <2>1. CASE coro[s] = "new"
    <3>1. progress[0] < N
      BY <1>1, <2>1 DEF IInv, Lifecycle, Session
    <3>2. QED
      BY <1>3, <2>1, <3>1 DEF State, Closed
  <2>2. CASE coro[s] = "done"
    <3>1. progress[s] <= Steps
      BY DEF IInv, Lifecycle
    <3>2. QED
      BY <1>1, <2>2, <3>1 DEF State, Progress
  <2>3. coro[s] # "suspended"
    BY <1>2 DEF IInv, Lifecycle
  <2>4. QED
    BY <1>1, <2>1, <2>2, <2>3
<1>5. W!Session = Session
  BY DEF W!Session, Session
<1>6. QED
  BY <1>2, <1>4, <1>5 DEF W!Return, W!Over, State, Progress, Closed

(* The initial states map to initial states. *)
LEMMA Initially == Init => W!Init
<1>1. W!Session = Session
  BY DEF W!Session, Session
<1>2. QED
  BY <1>1, Ids DEF Init, W!Init

(* Every step maps to a step or to none. *)
LEMMA StepMaps == IInv /\ [Next]_vars => [W!Next]_(W!vars)
<1> SUFFICES ASSUME IInv, [Next]_vars PROVE [W!Next]_(W!vars)
  OBVIOUS
<1>s. W!Session = Session
  BY DEF W!Session, Session
<1>1. ASSUME NEW i \in Coro, NEW e \in BOOLEAN, CompleteWait(i, e)
      PROVE  UNCHANGED W!vars
  BY <1>1, Stutter DEF CompleteWait, Returned
<1>2. ASSUME CallRun \/ RunReturns \/ NothingAwake \/ Discard
      PROVE  UNCHANGED W!vars
  BY <1>2, Stutter DEF CallRun, RunReturns, NothingAwake, Discard, Returned, coroVars
<1>3. ASSUME NEW i \in Coro, RunWaitDone(i) PROVE UNCHANGED W!vars
  BY <1>3, Stutter DEF RunWaitDone, Returned, coroVars
<1>4. ASSUME NEW s \in Session, RunEraseTimer(s) PROVE UNCHANGED W!vars
  BY <1>4, Stutter DEF RunEraseTimer, Returned, coroVars
<1>5. ASSUME UNCHANGED vars PROVE UNCHANGED W!vars
  BY <1>5, Stutter DEF vars, Returned
<1>6. ASSUME NEW s \in Session, SessionStep(s) PROVE [W!Next]_(W!vars)
  BY <1>s, <1>4, <1>6, SessionSteps, SessionStops, Accepts DEF SessionStep, W!Next
<1>7. ASSUME AcceptFails \/ Return PROVE W!Next
  BY <1>7, AcceptStops, Returns DEF W!Next
<1>8. QED
  BY <1>1, <1>2, <1>3, <1>5, <1>6, <1>7 DEF Next, Scheduler, Timers, Done

(* The program does what Workflow asks, whatever the number of sessions,      *)
(* steps and failures and whatever the io_context.                             *)
THEOREM Refinement == Spec => RefinesWorkflow
<1>1. QED
  BY Initially, StepMaps, Invariance, PTL DEF Spec, RefinesWorkflow, W!Spec
==============================================================================
