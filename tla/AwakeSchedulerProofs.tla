------------------------ MODULE AwakeSchedulerProofs -------------------------
(***************************************************************************)
(* Proofs about AwakeScheduler, for every number of coroutines and of       *)
(* characters and for every kind of io_context.                             *)
(***************************************************************************)
EXTENDS AwakeScheduler, QueueProofs

(* The posted handlers are told apart by their ids. *)
LEMMA Packets ==
  /\ StopPacket \in Packet
  /\ \A i \in Coro : Wake(i) \in Packet /\ Wake(i) # StopPacket
  /\ \A i, j \in Coro : Wake(i) = Wake(j) => i = j
<1>1. \A i, j : Wake(i) = Wake(j) => i = j
  <2>1. \A i : Wake(i).id = i
    BY DEF Wake
  <2>2. QED
    BY <2>1
<1>2. \A i : Wake(i) # StopPacket
  <2>1. StopPacket.tag = "stop" /\ \A i : Wake(i).tag = "wake"
    BY DEF Wake, StopPacket
  <2>2. QED
    BY <2>1
<1>3. StopPacket \in Packet /\ \A i \in Coro : Wake(i) \in Packet
  BY AwakeAssumption DEF Wake, StopPacket, Packet, Coro
<1>4. QED
  BY <1>1, <1>2, <1>3

(* The tail of awake_cont, and the tail with one id pushed. *)
LEMMA AwakeTail ==
  ASSUME awake \in Seq(Coro), awake # <<>>
  PROVE  /\ Head(awake) \in Coro
         /\ Tail(awake) \in Seq(Coro)
         /\ \A i \in Coro : Append(Tail(awake), i) \in Seq(Coro)
BY HeadTailProperties, AppendProperties

(* Every step keeps the types. *)
LEMMA TypeStep == TypeOK /\ [Next]_vars => TypeOK'
<1> SUFFICES ASSUME TypeOK, [Next]_vars PROVE TypeOK'
  OBVIOUS
<1> USE Packets, AwakeAssumption DEF TypeOK
<1>1. ASSUME NEW i \in Coro, Create(i) PROVE TypeOK'
  BY <1>1, AppendProperties DEF Create, AppendAndPost
<1>2. CASE CallRun
  BY <1>2, EnterRunKeeps DEF CallRun
<1>3. ASSUME NEW i \in Coro, RunWake(i) PROVE TypeOK'
  <2>1. Tail(queue) \in Seq(Packet)
    BY <1>3, HeadTailProperties DEF RunWake, CanDispatch
  <2>2. queue' \in Seq(Packet) /\ stopped' \in BOOLEAN
    BY <1>3, <2>1, HandlerDoneKeeps DEF RunWake
  <2>3. awake' \in Seq(Coro)
    BY <1>3, AppendProperties DEF RunWake
  <2>4. QED
    BY <1>3, <2>2, <2>3 DEF RunWake
<1>4. CASE RunReturns
  BY <1>4, LeaveRunKeeps DEF RunReturns
<1>5. CASE Discard \/ AwakeEmpty \/ Return
  BY <1>5, AwakeTail DEF Discard, AwakeEmpty, Return, ioVars
<1>6. ASSUME NEW i \in Coro, Yields(i) PROVE TypeOK'
  BY <1>6, AwakeTail, AppendProperties DEF Yields, Resumes, AppendAndPost
<1>7. ASSUME NEW i \in Coro, Ends(i) PROVE TypeOK'
  BY <1>7, AwakeTail DEF Ends, Resumes
<1>8. CASE UNCHANGED vars
  BY <1>8 DEF vars
<1> HIDE DEF TypeOK
<1>9. QED
  BY <1>1, <1>2, <1>3, <1>4, <1>5, <1>6, <1>7, <1>8 DEF Next, Handle, Done

(* The initial values are of these types. *)
LEMMA InitType == Init => TypeOK
<1> SUFFICES ASSUME Init PROVE TypeOK
  OBVIOUS
<1>1. kind \in Kinds /\ queue = <<>> /\ pending = {} /\ stopped = FALSE
  BY DEF Init, IoInit
<1>2. /\ main = "create" /\ live = {} /\ awake = <<>>
      /\ coro = [i \in Coro |-> "new"]
      /\ progress = [i \in Coro |-> 0]
  BY DEF Init
<1>3. <<>> \in Seq(Packet) /\ <<>> \in Seq(Coro)
  OBVIOUS
<1>4. /\ [i \in Coro |-> "new"] \in [Coro -> {"new", "suspended", "done"}]
      /\ [i \in Coro |-> 0] \in [Coro -> Nat]
  OBVIOUS
<1>5. QED
  BY <1>1, <1>2, <1>3, <1>4 DEF TypeOK

(* The variables keep their types. *)
THEOREM TypeCorrect == Spec => []TypeOK
BY InitType, TypeStep, PTL DEF Spec

------------------------------------------------------------------------------
(* A sequence change that leaves x where it was. *)
Same(q, r, x) ==
  /\ Once(r, x) <=> Once(q, x)
  /\ Never(r, x) <=> Never(q, x)

(* The conjunct of WakeTokens for one coroutine. *)
Token(i) ==
  /\ coro[i] = "suspended" =>
       \/ Never(queue, Wake(i)) /\ Once(awake, i)
       \/ Once(queue, Wake(i))  /\ Never(awake, i)
  /\ coro[i] = "done" =>
       /\ Never(queue, Wake(i))
       /\ IF i \in live THEN Once(awake, i) ELSE Never(awake, i)
  /\ coro[i] = "new" => Never(queue, Wake(i)) /\ Never(awake, i)

LEMMA Tokens == WakeTokens <=> \A i \in Coro : Token(i)
BY DEF WakeTokens, Token

(* A step that leaves a coroutine and its places in both queues alone leaves  *)
(* its wake-up alone.                                                          *)
LEMMA TokenKept ==
  ASSUME NEW i \in Coro, Token(i),
         coro'[i] = coro[i], i \in live' <=> i \in live,
         Same(queue, queue', Wake(i)), Same(awake, awake', i)
  PROVE  Token(i)'
BY DEF Token, Same, Wake

(* An id taken from awake_cont was the only wake-up of a coroutine that is in *)
(* coro_cont; taking it, or pushing it back, disturbs no other's.              *)
LEMMA AwakePop ==
  ASSUME IInv, awake # <<>>, NEW i \in Coro, i = Head(awake)
  PROVE  /\ i \in live /\ coro[i] # "new"
         /\ Never(queue, Wake(i))
         /\ Never(Tail(awake), i)
         /\ Once(Append(Tail(awake), i), i)
         /\ \A j \in Coro : j # i =>
              /\ Same(awake, Tail(awake), j)
              /\ Same(awake, Append(Tail(awake), i), j)
<1>1. awake \in Seq(Coro) /\ Tail(awake) \in Seq(Coro)
  BY AwakeTail DEF IInv, TypeOK
<1>2. ~Never(awake, i) /\ coro[i] \in {"new", "suspended", "done"}
  BY <1>1, HeadIsThere DEF IInv, TypeOK
<1>3. Token(i)
  BY Tokens DEF IInv
<1>4. i \in live /\ coro[i] # "new" /\ Never(queue, Wake(i)) /\ Once(awake, i)
  BY <1>2, <1>3 DEF Token, IInv, Lifecycle
<1>5. Never(Tail(awake), i)
  BY <1>1, <1>4, TailSame
<1>6. Once(Append(Tail(awake), i), i)
  BY <1>1, <1>5, AppendSame
<1>7. ASSUME NEW j \in Coro, j # i
      PROVE  /\ Same(awake, Tail(awake), j)
             /\ Same(awake, Append(Tail(awake), i), j)
  BY <1>1, <1>7, TailOther, AppendOther DEF Same
<1>8. QED
  BY <1>4, <1>5, <1>6, <1>7

(* Every step of the program keeps the invariant. *)
LEMMA InvStep == IInv /\ [Next]_vars => IInv'
<1> SUFFICES ASSUME IInv, [Next]_vars PROVE IInv'
  OBVIOUS
<1>t. TypeOK /\ TypeOK'
  BY TypeStep DEF IInv
<1>q. /\ queue \in Seq(Packet) /\ awake \in Seq(Coro) /\ stopped \in BOOLEAN
      /\ coro \in [Coro -> {"new", "suspended", "done"}]
      /\ progress \in [Coro -> Nat]
      /\ N \in Nat \ {0} /\ Steps \in Nat \ {0}
  BY <1>t, AwakeAssumption DEF TypeOK
<1>i. Lifecycle /\ \A i \in Coro : Token(i)
  BY Tokens DEF IInv
<1>1. ASSUME NEW i \in Coro, Create(i) PROVE IInv'
  <2>1. /\ coro' = [coro EXCEPT ![i] = "suspended"] /\ coro[i] = "new"
        /\ progress' = [progress EXCEPT ![i] = @ + 1]
        /\ queue' = Append(queue, Wake(i)) /\ awake' = awake
        /\ live' = live \cup {i} /\ main = "create"
        /\ \A j \in 1..(i - 1) : coro[j] # "new"
        /\ main' = IF i = N THEN "loop" ELSE "create"
    BY <1>1 DEF Create, AppendAndPost
  <2>2. ASSUME NEW j \in Coro PROVE Token(j)'
    <3>1. CASE j = i
      <4>1. Never(queue, Wake(i)) /\ Never(awake, i)
        BY <1>i, <2>1 DEF Token
      <4>2. Once(queue', Wake(i))
        BY <1>q, <2>1, <4>1, Packets, AppendSame
      <4>3. QED
        BY <1>q, <2>1, <3>1, <4>1, <4>2 DEF Token, Wake
    <3>2. CASE j # i
      <4>1. Same(queue, queue', Wake(j)) /\ Same(awake, awake', j)
        BY <1>q, <2>1, <3>2, Packets, AppendOther DEF Same
      <4>2. coro'[j] = coro[j] /\ (j \in live' <=> j \in live)
        BY <1>q, <2>1, <3>2
      <4>3. QED
        BY <1>i, <4>1, <4>2, TokenKept
    <3>3. QED
      BY <3>1, <3>2
  <2>3. Lifecycle'
    <3>1. i = N => \A j \in Coro : coro'[j] # "new"
      BY <1>q, <2>1 DEF Coro
    <3>2. QED
      BY <1>i, <1>q, <2>1, <3>1 DEF Lifecycle
  <2>4. WakeTokens'
    BY <2>2 DEF WakeTokens, Token
  <2>5. QED
    BY <1>t, <2>3, <2>4 DEF IInv
<1>2. CASE CallRun \/ RunReturns \/ AwakeEmpty \/ Return \/ UNCHANGED vars
  <2>1. \A x : x # StopPacket => Same(queue, queue', x)
    <3>1. CASE CallRun
      BY <3>1, <1>q, Packets, EnterRunKeeps DEF CallRun, Same
    <3>2. CASE RunReturns
      BY <3>2, <1>q, Packets, LeaveRunKeeps DEF RunReturns, Same
    <3>3. CASE AwakeEmpty \/ Return \/ UNCHANGED vars
      BY <3>3 DEF AwakeEmpty, Return, ioVars, vars, Same
    <3>4. QED
      BY <1>2, <3>1, <3>2, <3>3
  <2>2. /\ UNCHANGED <<live, awake, coro, progress>>
        /\ main' = "returned" => live = {}
        /\ main = "create" => main' = "create"
    BY <1>2, <1>i DEF CallRun, RunReturns, AwakeEmpty, Return, vars, ioVars, Lifecycle
  <2>3. \A j \in Coro : Token(j)'
    BY <1>i, <2>1, <2>2, Packets, TokenKept DEF Same
  <2>4. WakeTokens'
    BY <2>3 DEF WakeTokens, Token
  <2>5. Lifecycle'
    BY <1>i, <2>2 DEF Lifecycle
  <2>6. QED
    BY <1>t, <2>4, <2>5 DEF IInv
<1>3. ASSUME NEW i \in Coro, RunWake(i) PROVE IInv'
  <2>1. /\ queue # <<>> /\ Tail(queue) \in Seq(Packet) /\ Head(queue) = Wake(i)
        /\ awake' = Append(awake, i)
        /\ UNCHANGED <<main, live, coro, progress>>
    BY <1>3, <1>q, HeadTailProperties DEF RunWake, CanDispatch
  <2>2. \A x : x # StopPacket => Same(Tail(queue), queue', x)
    BY <1>3, <1>q, <2>1, Packets, HandlerDoneKeeps DEF RunWake, Same
  <2>3. ~Never(queue, Wake(i))
    BY <1>q, <2>1, HeadIsThere
  <2>4. coro[i] = "suspended" /\ Once(queue, Wake(i)) /\ Never(awake, i)
    BY <1>i, <1>q, <2>3 DEF Token
  <2>5. Never(queue', Wake(i)) /\ Once(awake', i)
    <3>1. Never(Tail(queue), Wake(i))
      BY <1>q, <2>1, <2>4, TailSame
    <3>2. QED
      BY <1>q, <2>1, <2>2, <2>4, <3>1, Packets, AppendSame DEF Same
  <2>6. ASSUME NEW j \in Coro PROVE Token(j)'
    <3>1. CASE j = i
      BY <2>1, <2>4, <2>5, <3>1 DEF Token, Wake
    <3>2. CASE j # i
      <4>1. Same(queue, queue', Wake(j))
        <5>1. Same(queue, Tail(queue), Wake(j))
          BY <1>q, <2>1, <3>2, Packets, TailOther DEF Same
        <5>2. QED
          BY <2>2, <5>1, Packets DEF Same
      <4>2. Same(awake, awake', j)
        BY <1>q, <2>1, <3>2, AppendOther DEF Same
      <4>3. QED
        BY <1>i, <2>1, <4>1, <4>2, TokenKept
    <3>3. QED
      BY <3>1, <3>2
  <2>7. WakeTokens'
    BY <2>6 DEF WakeTokens, Token
  <2>8. Lifecycle'
    BY <1>i, <2>1 DEF Lifecycle
  <2>9. QED
    BY <1>t, <2>7, <2>8 DEF IInv
<1>4. ASSUME NEW i \in Coro, Yields(i) PROVE IInv'
  <2>1. /\ awake # <<>> /\ i = Head(awake) /\ coro[i] # "done" /\ progress[i] < Steps
        /\ progress' = [progress EXCEPT ![i] = @ + 1]
        /\ queue' = Append(queue, Wake(i)) /\ awake' = Tail(awake)
        /\ UNCHANGED <<main, live, coro>>
    BY <1>4 DEF Yields, Resumes, AppendAndPost
  <2>2. /\ i \in live /\ coro[i] = "suspended"
        /\ Never(queue, Wake(i)) /\ Never(Tail(awake), i)
        /\ \A j \in Coro : j # i => Same(awake, Tail(awake), j)
    BY <1>q, <2>1, AwakePop
  <2>3. Once(queue', Wake(i))
    BY <1>q, <2>1, <2>2, Packets, AppendSame
  <2>4. ASSUME NEW j \in Coro PROVE Token(j)'
    <3>1. CASE j = i
      BY <2>1, <2>2, <2>3, <3>1 DEF Token, Wake
    <3>2. CASE j # i
      <4>1. Same(queue, queue', Wake(j))
        BY <1>q, <2>1, <3>2, Packets, AppendOther DEF Same
      <4>2. QED
        BY <1>i, <2>1, <2>2, <3>2, <4>1, TokenKept
    <3>3. QED
      BY <3>1, <3>2
  <2>5. WakeTokens'
    BY <2>4 DEF WakeTokens, Token
  <2>6. Lifecycle'
    BY <1>i, <1>q, <2>1, <2>2 DEF Lifecycle
  <2>7. QED
    BY <1>t, <2>5, <2>6 DEF IInv
<1>5. ASSUME NEW i \in Coro, Ends(i) PROVE IInv'
  <2>1. /\ awake # <<>> /\ i = Head(awake) /\ coro[i] # "done" /\ progress[i] = Steps
        /\ coro' = [coro EXCEPT ![i] = "done"]
        /\ awake' = Append(Tail(awake), i)
        /\ UNCHANGED <<queue, main, live, progress>>
    BY <1>5 DEF Ends, Resumes
  <2>2. /\ i \in live
        /\ Never(queue, Wake(i)) /\ Once(awake', i)
        /\ \A j \in Coro : j # i => Same(awake, awake', j)
    BY <2>1, AwakePop
  <2>3. ASSUME NEW j \in Coro PROVE Token(j)'
    <3>1. CASE j = i
      BY <1>q, <2>1, <2>2, <3>1 DEF Token, Wake
    <3>2. CASE j # i
      <4>1. coro'[j] = coro[j] /\ Same(queue, queue', Wake(j))
        BY <1>q, <2>1, <3>2 DEF Same
      <4>2. QED
        BY <1>i, <2>1, <2>2, <3>2, <4>1, TokenKept
    <3>3. QED
      BY <3>1, <3>2
  <2>4. WakeTokens'
    BY <2>3 DEF WakeTokens, Token
  <2>5. Lifecycle'
    BY <1>i, <1>q, <2>1, <2>2 DEF Lifecycle
  <2>6. QED
    BY <1>t, <2>4, <2>5 DEF IInv
<1>6. CASE Discard
  <2> DEFINE i == Head(awake)
  <2>1. awake # <<>> /\ i \in Coro
    BY <1>6, <1>q, AwakeTail DEF Discard
  <2>2. /\ i \in live /\ Never(queue, Wake(i)) /\ Never(Tail(awake), i)
        /\ \A j \in Coro : j # i => Same(awake, Tail(awake), j)
    BY <2>1, AwakePop
  <2>3. /\ coro[i] = "done" /\ live' = live \ {i} /\ awake' = Tail(awake)
        /\ UNCHANGED <<queue, main, coro, progress>>
    BY <1>6, <2>2 DEF Discard, ioVars
  <2> HIDE DEF i
  <2>4. ASSUME NEW j \in Coro PROVE Token(j)'
    <3>1. CASE j = i
      BY <2>1, <2>2, <2>3, <3>1 DEF Token, Wake
    <3>2. CASE j # i
      BY <1>i, <2>2, <2>3, <3>2, TokenKept DEF Same
    <3>3. QED
      BY <3>1, <3>2
  <2>5. WakeTokens'
    BY <2>4 DEF WakeTokens, Token
  <2>6. Lifecycle'
    BY <1>i, <2>1, <2>3 DEF Lifecycle
  <2>7. QED
    BY <1>t, <2>5, <2>6 DEF IInv
<1> HIDE DEF IInv
<1>7. QED
  BY <1>1, <1>2, <1>3, <1>4, <1>5, <1>6 DEF Next, Handle, Done

(* The invariant holds in every state of every behaviour. *)
LEMMA Invariance == Spec => []IInv
<1>1. Init => IInv
  <2> SUFFICES ASSUME Init PROVE IInv
    OBVIOUS
  <2>1. TypeOK
    BY InitType
  <2>2. \A x : Never(queue, x) /\ Never(awake, x)
    BY DEF Init, IoInit, Never
  <2>3. WakeTokens
    BY <2>2 DEF Init, WakeTokens
  <2>4. Lifecycle
    BY AwakeAssumption DEF Init, Lifecycle
  <2>5. QED
    BY <2>1, <2>3, <2>4 DEF IInv
<1>2. QED
  BY <1>1, InvStep, PTL DEF Spec

(* A coroutine's state agrees with coro_cont and with what it has written. *)
THEOREM LifecycleCorrect == Spec => []Lifecycle
<1>1. IInv => Lifecycle
  BY DEF IInv
<1>2. QED
  BY <1>1, Invariance, PTL

(* No wake-up is lost or doubled. *)
THEOREM WakeTokensCorrect == Spec => []WakeTokens
<1>1. IInv => WakeTokens
  BY DEF IInv
<1>2. QED
  BY <1>1, Invariance, PTL

(* handle() returns only when every output is complete. *)
THEOREM OutputCompleteCorrect == Spec => []OutputComplete
<1>1. IInv => OutputComplete
  BY DEF IInv, TypeOK, Lifecycle, OutputComplete
<1>2. QED
  BY <1>1, Invariance, PTL


------------------------------------------------------------------------------
(* Some x stands before some y in q. *)
Ahead(q, x, y) == \E k, l \in DOMAIN q : k < l /\ q[k] = x /\ q[l] = y

(* The wake-up of i comes before that of j: awake_cont is emptied before run() *)
(* takes the next handler from the queue.                                       *)
WokenBefore(i, j) ==
  \/ Ahead(awake, i, j)
  \/ Ahead(queue, Wake(i), Wake(j))
  \/ ~Never(awake, i) /\ ~Never(queue, Wake(j))

(* It is i's turn before j's. *)
Precedes(i, j) == progress[i] < progress[j] \/ (progress[i] = progress[j] /\ i < j)

Suspended(i) == coro[i] = "suspended"

(* Two suspended coroutines are woken in the order of their turns. *)
InTurn(i, j) == Suspended(i) /\ Suspended(j) /\ WokenBefore(i, j) => Precedes(i, j)

(* The same for all of them, and the order in which they are created. *)
Turns ==
  /\ \A i, j \in Coro : InTurn(i, j)
  /\ \A i, j \in Coro : i < j /\ coro[i] = "new" => coro[j] = "new"
  /\ main = "create" => /\ awake = <<>>
                        /\ \A i \in Coro :
                             coro[i] = "new" \/ (Suspended(i) /\ progress[i] = 1)
  /\ TurnsInOrder

LEMMA AheadAppend ==
  ASSUME NEW S, NEW q \in Seq(S), NEW e \in S, NEW x, NEW y, Ahead(Append(q, e), x, y)
  PROVE  Ahead(q, x, y) \/ (y = e /\ ~Never(q, x))
<1>1. /\ DOMAIN q = 1..Len(q) /\ Len(q) \in Nat
      /\ DOMAIN Append(q, e) = 1..(Len(q) + 1)
      /\ \A k \in 1..Len(q) : Append(q, e)[k] = q[k]
      /\ Append(q, e)[Len(q) + 1] = e
  BY AppendProperties, LenProperties
<1>2. PICK k, l \in 1..(Len(q) + 1) : k < l /\ Append(q, e)[k] = x /\ Append(q, e)[l] = y
  BY <1>1 DEF Ahead
<1>3. k \in 1..Len(q) /\ q[k] = x
  BY <1>1, <1>2
<1>4. CASE l \in 1..Len(q)
  BY <1>1, <1>2, <1>3, <1>4 DEF Ahead
<1>5. CASE l = Len(q) + 1
  BY <1>1, <1>2, <1>3, <1>5 DEF Never
<1>6. QED
  BY <1>1, <1>2, <1>4, <1>5

LEMMA AheadTail ==
  ASSUME NEW S, NEW q \in Seq(S), q # <<>>, NEW x, NEW y
  PROVE  /\ Ahead(Tail(q), x, y) => Ahead(q, x, y)
         /\ x = Head(q) /\ ~Never(Tail(q), y) => Ahead(q, x, y)
         /\ ~Never(Tail(q), y) => ~Never(q, y)
<1>1. /\ DOMAIN q = 1..Len(q) /\ Len(q) \in Nat \ {0} /\ q[1] = Head(q)
      /\ DOMAIN Tail(q) = 1..(Len(q) - 1)
      /\ \A k \in 1..(Len(q) - 1) : Tail(q)[k] = q[k + 1] /\ k + 1 \in 1..Len(q)
  BY HeadTailProperties, LenProperties, EmptySeq
<1>2. ASSUME Ahead(Tail(q), x, y) PROVE Ahead(q, x, y)
  <2>1. PICK k, l \in 1..(Len(q) - 1) : k < l /\ Tail(q)[k] = x /\ Tail(q)[l] = y
    BY <1>1, <1>2 DEF Ahead
  <2>2. k + 1 < l + 1 /\ q[k + 1] = x /\ q[l + 1] = y
    BY <1>1, <2>1
  <2>3. QED
    BY <1>1, <2>1, <2>2 DEF Ahead
<1>3. ASSUME ~Never(Tail(q), y) PROVE ~Never(q, y) /\ (x = Head(q) => Ahead(q, x, y))
  <2>1. PICK l \in 1..(Len(q) - 1) : Tail(q)[l] = y
    BY <1>1, <1>3 DEF Never
  <2>2. 1 < l + 1 /\ q[l + 1] = y /\ l + 1 \in 1..Len(q) /\ 1 \in 1..Len(q)
    BY <1>1, <2>1
  <2>3. QED
    BY <1>1, <2>2 DEF Ahead, Never
<1>4. QED
  BY <1>2, <1>3

(* Moving or adding the stop packet brings no handler before another. *)
LEMMA AheadOfStop ==
  ASSUME NEW S, StopPacket \in S, NEW q \in Seq(S), NEW x, NEW y, y # StopPacket
  PROVE  /\ Ahead(Append(q, StopPacket), x, y) => Ahead(q, x, y)
         /\ q # <<>> /\ Ahead(Append(Tail(q), StopPacket), x, y) => Ahead(q, x, y)
<1>1. Ahead(Append(q, StopPacket), x, y) => Ahead(q, x, y)
  BY AheadAppend
<1>2. ASSUME q # <<>>, Ahead(Append(Tail(q), StopPacket), x, y) PROVE Ahead(q, x, y)
  <2>1. Tail(q) \in Seq(S)
    BY <1>2, HeadTailProperties
  <2>2. Ahead(Tail(q), x, y)
    BY <1>2, <2>1, AheadAppend
  <2>3. QED
    BY <1>2, <2>2, AheadTail
<1>3. QED
  BY <1>1, <1>2

(* What every step relies on. *)
LEMMA TurnFacts ==
  ASSUME IInv
  PROVE  /\ queue \in Seq(Packet) /\ awake \in Seq(Coro) /\ Coro \subseteq Nat
         /\ coro \in [Coro -> {"new", "suspended", "done"}] /\ progress \in [Coro -> Nat]
         /\ N \in Nat \ {0} /\ Steps \in Nat \ {0}
         /\ \A i \in Coro :
              /\ coro[i] = "new" => progress[i] = 0 /\ main = "create"
              /\ coro[i] = "done" => progress[i] = Steps
              /\ progress[i] <= Steps
         /\ \A i \in Coro : ~Never(queue, Wake(i)) => coro[i] = "suspended"
BY AwakeAssumption DEF IInv, TypeOK, Coro, Lifecycle, WakeTokens, Once, Never

(* A step that leaves coroutines and outputs as they are, and brings no wake-up *)
(* before another, keeps the turns.                                             *)
LEMMA TurnsKept ==
  ASSUME IInv, Turns, coro' = coro, progress' = progress,
         main' = "create" => main = "create" /\ awake' = awake,
         \A i, j \in Coro : Suspended(i) /\ Suspended(j) /\ WokenBefore(i, j)' => WokenBefore(i, j)
  PROVE  Turns'
<1>1. ASSUME NEW i \in Coro, NEW j \in Coro PROVE InTurn(i, j)'
  BY <1>1 DEF Turns, InTurn, Suspended, Precedes
<1>2. TurnsInOrder'
  BY DEF Turns, TurnsInOrder
<1>3. main' = "create" =>
        /\ awake' = <<>>
        /\ \A i \in Coro : coro'[i] = "new" \/ (Suspended(i)' /\ progress'[i] = 1)
  BY DEF Turns, Suspended
<1>4. \A i, j \in Coro : i < j /\ coro'[i] = "new" => coro'[j] = "new"
  BY DEF Turns
<1>5. QED
  BY <1>1, <1>2, <1>3, <1>4 DEF Turns

(* run() is called or returns, or moves on: only the stop packet moves. *)
LEMMA LoopTurns ==
  ASSUME IInv, Turns, CallRun \/ RunReturns \/ AwakeEmpty \/ Return \/ UNCHANGED vars
  PROVE  Turns'
<1>1. UNCHANGED <<awake, coro, progress>> /\ (main' = "create" => main = "create")
  BY DEF CallRun, RunReturns, AwakeEmpty, Return, vars, ioVars
<1>2. \/ queue' = queue \/ queue' = Append(queue, StopPacket)
      \/ queue # <<>> /\ queue' = Append(Tail(queue), StopPacket)
  BY DEF CallRun, EnterRun, RefuseRun, Stop, RunReturns, LeaveRun, AwakeEmpty, Return, vars, ioVars
<1>3. ASSUME NEW i \in Coro, NEW j \in Coro, Suspended(j), WokenBefore(i, j)'
      PROVE  WokenBefore(i, j)
  <2>1. Wake(j) # StopPacket /\ StopPacket \in Packet /\ queue \in Seq(Packet)
    BY Packets, TurnFacts
  <2>2. Ahead(queue', Wake(i), Wake(j)) => Ahead(queue, Wake(i), Wake(j))
    BY <1>2, <2>1, AheadOfStop
  <2>3. Never(queue', Wake(j)) <=> Never(queue, Wake(j))
    <3>1. stopped \in BOOLEAN
      BY DEF IInv, TypeOK
    <3>2. CASE CallRun
      BY <3>1, <3>2, <2>1, EnterRunKeeps DEF CallRun
    <3>3. CASE RunReturns
      BY <3>1, <3>3, <2>1, LeaveRunKeeps DEF RunReturns
    <3>4. CASE AwakeEmpty \/ Return \/ UNCHANGED vars
      BY <3>4 DEF AwakeEmpty, Return, vars, ioVars
    <3>5. QED
      BY <3>2, <3>3, <3>4
  <2>4. QED
    BY <1>1, <1>3, <2>2, <2>3 DEF WokenBefore, Wake
<1>4. QED
  BY <1>1, <1>3, TurnsKept

(* A handler moves a wake-up from the head of the queue to the end of awake_cont. *)
LEMMA RunWakeTurns ==
  ASSUME IInv, Turns, NEW i \in Coro, RunWake(i)
  PROVE  Turns'
<1>1. /\ queue # <<>> /\ Head(queue) = Wake(i) /\ awake' = Append(awake, i)
      /\ main = "run" /\ UNCHANGED <<main, coro, progress>>
      /\ queue' = Tail(queue) \/ queue' = Append(Tail(queue), StopPacket)
  BY DEF RunWake, CanDispatch, HandlerDone, HandlerLeaves, Stop
<1>2. queue \in Seq(Packet) /\ Tail(queue) \in Seq(Packet) /\ awake \in Seq(Coro)
  BY <1>1, TurnFacts, HeadTailProperties
<1>3. ASSUME NEW a \in Coro, NEW b \in Coro, WokenBefore(a, b)' PROVE WokenBefore(a, b)
  <2>1. /\ Wake(b) # StopPacket /\ StopPacket \in Packet
        /\ Wake(a) = Wake(i) <=> a = i
    BY Packets
  <2>2. CASE Ahead(awake', a, b)
    <3>1. Ahead(awake, a, b) \/ (b = i /\ ~Never(awake, a))
      BY <1>1, <1>2, <2>2, AheadAppend
    <3>2. ~Never(queue, Wake(i))
      BY <1>1, <1>2, HeadIsThere
    <3>3. QED
      BY <3>1, <3>2 DEF WokenBefore
  <2>3. CASE Ahead(queue', Wake(a), Wake(b))
    <3>1. Ahead(queue, Wake(a), Wake(b))
      BY <1>1, <1>2, <2>1, <2>3, AheadOfStop, AheadTail
    <3>2. QED
      BY <3>1 DEF WokenBefore
  <2>4. CASE ~Never(awake', a) /\ ~Never(queue', Wake(b))
    <3>1. ~Never(Tail(queue), Wake(b))
      <4>1. CASE queue' = Tail(queue)
        BY <2>4, <4>1
      <4>2. CASE queue' = Append(Tail(queue), StopPacket)
        <5>1. Never(Append(Tail(queue), StopPacket), Wake(b)) <=> Never(Tail(queue), Wake(b))
          BY <1>2, <2>1, AppendOther
        <5>2. QED
          BY <2>4, <4>2, <5>1
      <4>3. QED
        BY <1>1, <4>1, <4>2
    <3>2. ~Never(queue, Wake(b)) /\ Ahead(queue, Wake(i), Wake(b))
      BY <1>1, <1>2, <3>1, AheadTail
    <3>3. a = i \/ ~Never(awake, a)
      BY <1>1, <1>2, <2>4, AppendOther
    <3>4. QED
      BY <3>2, <3>3 DEF WokenBefore
  <2>5. QED
    BY <1>3, <2>2, <2>3, <2>4 DEF WokenBefore, Wake
<1>4. QED
  BY <1>1, <1>3, TurnsKept

(* The coroutine at the head of awake_cont is the one whose turn it is. *)
LEMMA HeadTurn ==
  ASSUME IInv, Turns, NEW i \in Coro, awake # <<>>, i = Head(awake), Suspended(i),
         NEW j \in Coro, j # i, Suspended(j)
  PROVE  Precedes(i, j)
<1>1. awake \in Seq(Coro)
  BY TurnFacts
<1>2. Once(awake, j) \/ Once(queue, Wake(j))
  BY DEF IInv, WakeTokens, Suspended
<1>3. CASE Once(awake, j)
  <2>1. ~Never(Tail(awake), j)
    BY <1>1, <1>3, TailOther, OnceNotNever
  <2>2. Ahead(awake, i, j)
    BY <1>1, <2>1, AheadTail
  <2>3. QED
    BY <2>2 DEF Turns, InTurn, WokenBefore
<1>4. CASE Once(queue, Wake(j))
  <2>1. ~Never(queue, Wake(j)) /\ ~Never(awake, i)
    BY <1>1, <1>4, HeadIsThere, OnceNotNever
  <2>2. QED
    BY <2>1 DEF Turns, InTurn, WokenBefore
<1>5. QED
  BY <1>2, <1>3, <1>4

(* What stands before something in q is in q. *)
LEMMA AheadThere ==
  ASSUME NEW q, NEW x, NEW y, Ahead(q, x, y)
  PROVE  ~Never(q, x) /\ ~Never(q, y)
BY DEF Ahead, Never

(* The coroutines are created in the order of their ids. *)
LEMMA CreateTurns ==
  ASSUME IInv, Turns, NEW i \in Coro, Create(i)
  PROVE  Turns'
<1>1. /\ main = "create" /\ coro[i] = "new" /\ awake' = awake
      /\ \A j \in 1..(i - 1) : coro[j] # "new"
      /\ progress' = [progress EXCEPT ![i] = @ + 1]
      /\ queue' = Append(queue, Wake(i))
      /\ coro' = [coro EXCEPT ![i] = "suspended"]
  BY DEF Create, AppendAndPost
<1>2. /\ queue \in Seq(Packet) /\ Coro \subseteq Nat /\ Coro = 1..N /\ N \in Nat
      /\ coro \in [Coro -> {"new", "suspended", "done"}]
      /\ progress \in [Coro -> Nat]
  BY TurnFacts DEF Coro
<1>3. awake = <<>> /\ Never(queue, Wake(i)) /\ progress[i] = 0
  BY <1>1, TurnFacts DEF Turns
<1>4. ASSUME NEW j \in Coro, j # i
      PROVE  /\ coro'[j] = coro[j] /\ progress'[j] = progress[j]
             /\ j < i => coro[j] = "suspended" /\ progress[j] = 1
             /\ i < j => coro[j] = "new" /\ progress[j] = 0
  <2>1. j < i => coro[j] # "new"
    BY <1>1, <1>2
  <2>2. i < j => coro[j] = "new"
    BY <1>1 DEF Turns
  <2>3. coro[j] = "new" \/ (coro[j] = "suspended" /\ progress[j] = 1)
    BY <1>1 DEF Turns, Suspended
  <2>4. coro[j] = "new" => progress[j] = 0
    BY TurnFacts
  <2>5. QED
    BY <1>1, <1>2, <1>4, <2>1, <2>2, <2>3, <2>4
<1>5. coro'[i] = "suspended" /\ progress'[i] = 1
  BY <1>1, <1>2, <1>3
<1>6. ASSUME NEW a \in Coro, NEW b \in Coro,
             Suspended(a)', Suspended(b)', WokenBefore(a, b)'
      PROVE  Precedes(a, b)'
  <2>1. Ahead(queue', Wake(a), Wake(b))
    <3>1. ~Ahead(awake', a, b) /\ Never(awake', a)
      BY <1>1, <1>3 DEF Ahead, Never
    <3>2. QED
      BY <1>6, <3>1 DEF WokenBefore, Wake
  <2>2. Wake(i) \in Packet /\ (Wake(b) = Wake(i) => b = i)
    BY Packets
  <2>3. Ahead(queue, Wake(a), Wake(b)) \/ (b = i /\ ~Never(queue, Wake(a)))
    BY <1>1, <1>2, <2>1, <2>2, AheadAppend
  <2>4. a # i
    BY <1>3, <2>3, AheadThere
  <2>5. CASE b = i
    <3>1. ~(i < a)
      BY <1>4, <1>6, <2>4 DEF Suspended
    <3>2. a < i
      BY <1>2, <2>4, <3>1
    <3>3. progress'[a] = 1 /\ progress'[b] = 1
      BY <1>4, <1>5, <2>4, <2>5, <3>2
    <3>4. QED
      BY <2>5, <3>2, <3>3 DEF Precedes
  <2>6. CASE b # i
    <3>1. WokenBefore(a, b)
      BY <2>3, <2>6 DEF WokenBefore
    <3>2. coro'[a] = coro[a] /\ coro'[b] = coro[b]
      BY <1>4, <2>4, <2>6
    <3>3. Precedes(a, b)
      BY <1>6, <3>1, <3>2 DEF Turns, InTurn, Suspended
    <3>4. progress'[a] = progress[a] /\ progress'[b] = progress[b]
      BY <1>4, <2>4, <2>6
    <3>5. QED
      BY <3>3, <3>4 DEF Precedes
  <2>7. QED
    BY <2>5, <2>6
<1>7. ASSUME NEW a \in Coro, NEW b \in Coro, a < b, coro'[a] = "new"
      PROVE  coro'[b] = "new"
  <2>1. a # i /\ coro[a] = "new"
    BY <1>4, <1>5, <1>7
  <2>2. ~(a < i)
    BY <1>4, <2>1
  <2>3. i < a /\ i < b /\ b # i
    BY <1>2, <1>7, <2>1, <2>2
  <2>4. QED
    BY <1>4, <2>3
<1>8. ASSUME NEW a \in Coro PROVE coro'[a] = "new" \/ (Suspended(a)' /\ progress'[a] = 1)
  <2>1. CASE a = i
    BY <1>5, <2>1 DEF Suspended
  <2>2. CASE a # i
    <3>1. coro[a] = "new" \/ (Suspended(a) /\ progress[a] = 1)
      BY <1>1 DEF Turns
    <3>2. QED
      BY <1>4, <2>2, <3>1 DEF Suspended
  <2>3. QED
    BY <2>1, <2>2
<1>9. TurnsInOrder'
  <2>1. ASSUME NEW a \in Coro, NEW b \in Coro, a < b
        PROVE  progress'[b] <= progress'[a] /\ progress'[a] <= progress'[b] + 1
    <3>1. CASE a = i
      BY <1>2, <1>4, <1>5, <2>1, <3>1
    <3>2. CASE b = i
      BY <1>2, <1>4, <1>5, <2>1, <3>2
    <3>3. CASE a # i /\ b # i
      BY <1>4, <2>1, <3>3 DEF Turns, TurnsInOrder
    <3>4. QED
      BY <3>1, <3>2, <3>3
  <2>2. QED
    BY <2>1 DEF TurnsInOrder
<1>10. QED
  BY <1>1, <1>3, <1>6, <1>7, <1>8, <1>9 DEF Turns, InTurn

(* A resumed coroutine writes a character and goes to the end of the line. *)
LEMMA YieldsTurns ==
  ASSUME IInv, Turns, NEW i \in Coro, Yields(i)
  PROVE  Turns'
<1>1. /\ main = "wake" /\ main' = main /\ awake # <<>> /\ i = Head(awake)
      /\ coro[i] # "done" /\ progress[i] < Steps
      /\ progress' = [progress EXCEPT ![i] = @ + 1]
      /\ queue' = Append(queue, Wake(i)) /\ awake' = Tail(awake) /\ coro' = coro
  BY DEF Yields, Resumes, AppendAndPost
<1>2. /\ queue \in Seq(Packet) /\ awake \in Seq(Coro) /\ Coro \subseteq Nat
      /\ coro \in [Coro -> {"new", "suspended", "done"}]
      /\ progress \in [Coro -> Nat] /\ Steps \in Nat
  BY TurnFacts
<1>3. Suspended(i) /\ Never(queue, Wake(i)) /\ Never(Tail(awake), i)
  BY <1>1, <1>2, AwakePop DEF Suspended
<1>4. progress'[i] = progress[i] + 1 /\ \A j \in Coro : j # i => progress'[j] = progress[j]
  BY <1>1, <1>2
<1>5. ASSUME NEW j \in Coro, j # i
      PROVE  /\ Suspended(j) => Precedes(i, j)
             /\ Suspended(j) \/ (coro[j] = "done" /\ progress[j] = Steps)
  <2>1. Suspended(j) => Precedes(i, j)
    BY <1>1, <1>3, <1>5, HeadTurn
  <2>2. coro[j] # "new" /\ (coro[j] = "done" => progress[j] = Steps)
    BY <1>1, TurnFacts
  <2>3. QED
    BY <1>2, <2>1, <2>2 DEF Suspended
<1>6. ASSUME NEW j \in Coro, j # i
      PROVE  progress[i] <= progress[j] /\ (j < i => progress[i] < progress[j])
  <2>1. progress[i] \in Nat /\ progress[j] \in Nat /\ i \in Nat /\ j \in Nat
    BY <1>2
  <2>2. CASE Suspended(j)
    <3>1. progress[i] < progress[j] \/ (progress[i] = progress[j] /\ i < j)
      BY <1>5, <1>6, <2>2 DEF Precedes
    <3>2. QED
      BY <2>1, <3>1
  <2>3. CASE progress[j] = Steps
    BY <1>1, <1>2, <2>1, <2>3
  <2>4. QED
    BY <1>5, <1>6, <2>2, <2>3
<1>7. ASSUME NEW a \in Coro, NEW b \in Coro, a < b
      PROVE  progress[b] <= progress[a] /\ progress[a] <= progress[b] + 1
  BY <1>7 DEF Turns, TurnsInOrder
<1>8. ASSUME NEW a \in Coro, NEW b \in Coro, Suspended(a), Suspended(b), WokenBefore(a, b)'
      PROVE  Precedes(a, b)'
  <2>1. Wake(i) \in Packet /\ (Wake(b) = Wake(i) => b = i)
    BY Packets
  <2>2. Ahead(queue', Wake(a), Wake(b)) =>
          Ahead(queue, Wake(a), Wake(b)) \/ (b = i /\ ~Never(queue, Wake(a)))
    BY <1>1, <1>2, <2>1, AheadAppend
  <2>3. CASE a = i
    <3>1. ~Ahead(awake', a, b) /\ Never(awake', a) /\ ~Ahead(queue', Wake(a), Wake(b))
      BY <1>1, <1>3, <2>2, <2>3, AheadThere
    <3>2. QED
      BY <1>8, <3>1 DEF WokenBefore, Wake
  <2>4. CASE a # i /\ b = i
    <3>1. Precedes(i, a)
      BY <1>5, <1>8, <2>4
    <3>2. /\ i < a => progress[a] <= progress[i]
          /\ a < i => progress[a] <= progress[i] + 1
          /\ i < a \/ a < i
      BY <1>2, <1>7, <2>4
    <3>3. progress[a] \in Nat /\ progress[i] \in Nat /\ a \in Nat /\ i \in Nat
      BY <1>2
    <3>4. progress[a] < progress[i] + 1 \/ (progress[a] = progress[i] + 1 /\ a < i)
      BY <3>1, <3>2, <3>3 DEF Precedes
    <3>5. QED
      BY <1>4, <2>4, <3>4 DEF Precedes
  <2>5. CASE a # i /\ b # i
    <3>1. Ahead(queue', Wake(a), Wake(b)) => Ahead(queue, Wake(a), Wake(b))
      BY <2>2, <2>5
    <3>2. Never(queue', Wake(b)) <=> Never(queue, Wake(b))
      BY <1>1, <1>2, <2>1, <2>5, AppendOther
    <3>3. /\ Ahead(awake', a, b) => Ahead(awake, a, b)
          /\ ~Never(awake', a) => ~Never(awake, a)
      BY <1>1, <1>2, AheadTail
    <3>4. WokenBefore(a, b)
      BY <1>8, <3>1, <3>2, <3>3 DEF WokenBefore, Wake
    <3>5. Precedes(a, b)
      BY <1>8, <3>4 DEF Turns, InTurn
    <3>6. QED
      BY <1>4, <2>5, <3>5 DEF Precedes
  <2>6. QED
    BY <2>3, <2>4, <2>5
<1>9. ASSUME NEW a \in Coro, NEW b \in Coro, a < b
      PROVE  progress'[b] <= progress'[a] /\ progress'[a] <= progress'[b] + 1
  <2>1. a \in Nat /\ b \in Nat /\ progress[a] \in Nat /\ progress[b] \in Nat
    BY <1>2
  <2>2. CASE a = i
    <3>1. b # i /\ progress'[b] = progress[b] /\ progress'[a] = progress[a] + 1
      BY <1>4, <1>9, <2>1, <2>2
    <3>2. progress[a] <= progress[b]
      BY <1>6, <2>2, <3>1
    <3>3. QED
      BY <1>7, <1>9, <2>1, <3>1, <3>2
  <2>3. CASE b = i
    <3>1. a # i /\ progress'[a] = progress[a] /\ progress'[b] = progress[b] + 1
      BY <1>4, <1>9, <2>1, <2>3
    <3>2. progress[b] < progress[a]
      BY <1>9, <1>6, <2>3, <3>1
    <3>3. QED
      BY <1>7, <1>9, <2>1, <3>1, <3>2
  <2>4. CASE a # i /\ b # i
    BY <1>4, <1>7, <1>9, <2>4
  <2>5. QED
    BY <2>2, <2>3, <2>4
<1>10. QED
  <2>1. main' # "create"
    BY <1>1
  <2>2. \A a, b \in Coro : InTurn(a, b)'
    BY <1>1, <1>8 DEF InTurn, Suspended
  <2>3. \A a, b \in Coro : a < b /\ coro'[a] = "new" => coro'[b] = "new"
    BY <1>1 DEF Turns
  <2>4. TurnsInOrder'
    BY <1>9 DEF TurnsInOrder
  <2>5. QED
    BY <2>1, <2>2, <2>3, <2>4 DEF Turns

(* A coroutine that ends leaves the line; its id is pushed once more. *)
LEMMA EndsTurns ==
  ASSUME IInv, Turns, NEW i \in Coro, Ends(i)
  PROVE  Turns'
<1>1. /\ main = "wake" /\ main' = main /\ awake # <<>>
      /\ coro[i] # "done" /\ coro' = [coro EXCEPT ![i] = "done"]
      /\ awake' = Append(Tail(awake), i) /\ queue' = queue /\ progress' = progress
  BY DEF Ends, Resumes
<1>2. /\ awake \in Seq(Coro) /\ Tail(awake) \in Seq(Coro)
      /\ coro \in [Coro -> {"new", "suspended", "done"}]
  BY <1>1, TurnFacts, AwakeTail
<1>3. ASSUME NEW a \in Coro PROVE Suspended(a)' => Suspended(a) /\ a # i
  BY <1>1, <1>2 DEF Suspended
<1>4. ASSUME NEW a \in Coro, NEW b \in Coro, a # i, b # i, WokenBefore(a, b)'
      PROVE  WokenBefore(a, b)
  <2>1. Ahead(awake', a, b) => Ahead(awake, a, b)
    BY <1>1, <1>2, <1>4, AheadAppend, AheadTail
  <2>2. Never(awake', a) <=> Never(Tail(awake), a)
    BY <1>1, <1>2, <1>4, AppendOther
  <2>3. ~Never(awake', a) => ~Never(awake, a)
    BY <1>1, <1>2, <2>2, AheadTail
  <2>4. QED
    BY <1>1, <1>4, <2>1, <2>3 DEF WokenBefore, Wake
<1>5. ASSUME NEW a \in Coro, NEW b \in Coro PROVE InTurn(a, b)'
  BY <1>1, <1>3, <1>4 DEF Turns, InTurn, Precedes
<1>6. \A a \in Coro : coro[a] # "new" /\ coro'[a] # "new"
  BY <1>1, <1>2, TurnFacts
<1>7. TurnsInOrder'
  BY <1>1 DEF Turns, TurnsInOrder
<1>8. QED
  BY <1>1, <1>5, <1>6, <1>7 DEF Turns

(* Erasing a coroutine takes its id from awake_cont. *)
LEMMA DiscardTurns ==
  ASSUME IInv, Turns, Discard
  PROVE  Turns'
<1>1. /\ main = "wake" /\ main' = main /\ awake # <<>> /\ awake' = Tail(awake)
      /\ queue' = queue /\ coro' = coro /\ progress' = progress
  BY DEF Discard, ioVars
<1>2. awake \in Seq(Coro)
  BY TurnFacts
<1>3. ASSUME NEW a \in Coro, NEW b \in Coro, WokenBefore(a, b)' PROVE WokenBefore(a, b)
  <2>1. /\ Ahead(awake', a, b) => Ahead(awake, a, b)
        /\ ~Never(awake', a) => ~Never(awake, a)
    BY <1>1, <1>2, AheadTail
  <2>2. QED
    BY <1>1, <1>3, <2>1 DEF WokenBefore, Wake
<1>4. QED
  BY <1>1, <1>3, TurnsKept

(* Every step keeps the turns. *)
LEMMA TurnsStep == IInv /\ Turns /\ [Next]_vars => Turns'
<1> SUFFICES ASSUME IInv, Turns, [Next]_vars PROVE Turns'
  OBVIOUS
<1>1. ASSUME NEW i \in Coro, Create(i) \/ RunWake(i) \/ Yields(i) \/ Ends(i) PROVE Turns'
  BY <1>1, CreateTurns, RunWakeTurns, YieldsTurns, EndsTurns
<1>2. CASE CallRun \/ RunReturns \/ AwakeEmpty \/ Return \/ UNCHANGED vars
  BY <1>2, LoopTurns
<1>3. CASE Discard
  BY <1>3, DiscardTurns
<1>4. QED
  BY <1>1, <1>2, <1>3 DEF Next, Handle, Done

(* At the start nobody has been created. *)
LEMMA InitTurns == Init => Turns
<1> SUFFICES ASSUME Init PROVE Turns
  OBVIOUS
<1>1. /\ main = "create" /\ awake = <<>>
      /\ coro = [i \in Coro |-> "new"] /\ progress = [i \in Coro |-> 0]
  BY DEF Init
<1>2. \A i \in Coro : coro[i] = "new" /\ progress[i] = 0 /\ ~Suspended(i)
  BY <1>1 DEF Suspended
<1>3. TurnsInOrder
  BY <1>2 DEF TurnsInOrder
<1>4. QED
  BY <1>1, <1>2, <1>3 DEF Turns, InTurn

(* The coroutines take turns in the order of their ids, and no output is ever *)
(* more than one character ahead of another's: awake_cont and the io_context's *)
(* queue together are one line in which a coroutine that has had its turn goes *)
(* to the end (handle() and create_coro of asio_coroutine2.ixx).               *)
THEOREM TurnsInOrderCorrect == Spec => []TurnsInOrder
<1>1. Turns => TurnsInOrder
  BY DEF Turns
<1>2. QED
  BY <1>1, Invariance, InitTurns, TurnsStep, PTL DEF Spec

------------------------------------------------------------------------------
(* The program implements Workflow. *)

State == [i \in Coro |-> IF coro[i] = "new" THEN "new" ELSE "active"]
Returned == main = "returned"

(* A step that creates and ends nobody, writes nothing and does not return is *)
(* none of Workflow.                                                           *)
LEMMA Stutter ==
  ASSUME \A i \in Coro : coro'[i] = "new" <=> coro[i] = "new",
         progress' = progress, Returned' = Returned
  PROVE  UNCHANGED W!vars
<1>1. State' = State
  BY DEF State
<1>2. QED
  BY <1>1 DEF W!vars, State, Returned

(* Creating a coroutine accepts it, with its first character written. *)
LEMMA CreateAccepts ==
  ASSUME IInv, NEW i \in Coro, Create(i)
  PROVE  W!Accept(i)
<1>1. /\ coro \in [Coro -> {"new", "suspended", "done"}]
      /\ progress \in [Coro -> Nat]
      /\ N \in Nat \ {0}
  BY AwakeAssumption DEF IInv, TypeOK
<1>2. /\ main # "returned" /\ main' # "returned"
      /\ coro[i] = "new" /\ progress[i] = 0
      /\ \A j \in 1..(i - 1) : j \in Coro /\ coro[j] # "new"
  BY <1>1 DEF Create, Coro, IInv, Lifecycle
<1>3. /\ coro' = [coro EXCEPT ![i] = "suspended"]
      /\ progress' = [progress EXCEPT ![i] = 1]
  BY <1>1, <1>2 DEF Create, AppendAndPost
<1>4. State' = [State EXCEPT ![i] = "active"]
  BY <1>1, <1>3 DEF State
<1>5. State[i] = "new" /\ \A j \in 1..(i - 1) : State[j] # "new"
  BY <1>2 DEF State
<1>6. QED
  BY <1>2, <1>3, <1>4, <1>5 DEF W!Accept, State, Returned

(* A coroutine that writes a character and yields takes a step. *)
LEMMA YieldSteps ==
  ASSUME IInv, NEW i \in Coro, Yields(i)
  PROVE  W!Step(i)
<1>1. /\ coro[i] # "new" /\ progress[i] < Steps
      /\ main # "returned" /\ main' = main /\ coro' = coro
      /\ progress' = [progress EXCEPT ![i] = @ + 1]
  BY DEF Yields, Resumes, AppendAndPost, IInv, Lifecycle
<1>2. State' = State /\ State[i] = "active"
  BY <1>1 DEF State
<1>3. QED
  BY <1>1, <1>2 DEF W!Step, State, Returned

(* handle() returns when every coroutine is over. *)
LEMMA ReturnReturns ==
  ASSUME IInv, Return
  PROVE  W!Return
<1>1. /\ live = {} /\ main = "loop" /\ main' = "returned"
      /\ coro' = coro /\ progress' = progress
  BY DEF Return
<1>2. ASSUME NEW i \in Coro PROVE State[i] = "active" /\ progress[i] = Steps
  BY <1>1 DEF IInv, TypeOK, Lifecycle, State
<1>3. W!Session = Coro
  BY DEF W!Session, Coro
<1>4. State' = State
  BY <1>1 DEF State
<1>5. QED
  BY <1>1, <1>2, <1>3, <1>4 DEF W!Return, W!Over, State, Returned

(* Every step maps to a step or to none. *)
LEMMA StepMaps == IInv /\ [Next]_vars => [W!Next]_(W!vars)
<1> SUFFICES ASSUME IInv, [Next]_vars PROVE [W!Next]_(W!vars)
  OBVIOUS
<1>s. W!Session = Coro
  BY DEF W!Session, Coro
<1>1. ASSUME NEW i \in Coro, Create(i) \/ Yields(i) PROVE W!Next
  BY <1>s, <1>1, CreateAccepts, YieldSteps DEF W!Next
<1>2. CASE Return
  BY <1>2, ReturnReturns DEF W!Next
<1>3. ASSUME NEW i \in Coro, RunWake(i) PROVE UNCHANGED W!vars
  BY <1>3, Stutter DEF RunWake, Returned
<1>4. ASSUME NEW i \in Coro, Ends(i) PROVE UNCHANGED W!vars
  <2>1. coro[i] # "new" /\ coro' = [coro EXCEPT ![i] = "done"]
    BY <1>4 DEF Ends, Resumes, IInv, Lifecycle
  <2>2. \A j \in Coro : coro'[j] = "new" <=> coro[j] = "new"
    BY <2>1 DEF IInv, TypeOK
  <2>3. QED
    BY <1>4, <2>2, Stutter DEF Ends, Resumes, Returned
<1>5. ASSUME CallRun \/ RunReturns \/ Discard \/ AwakeEmpty
      PROVE  UNCHANGED W!vars
  BY <1>5, Stutter DEF CallRun, RunReturns, Discard, AwakeEmpty, Returned
<1>6. CASE UNCHANGED vars
  BY <1>6, Stutter DEF vars, Returned
<1>7. QED
  BY <1>1, <1>2, <1>3, <1>4, <1>5, <1>6 DEF Next, Handle, Done

(* The initial states map to initial states. *)
LEMMA Initially == Init => W!Init
<1>1. W!Session = Coro
  BY DEF W!Session, Coro
<1>2. QED
  BY <1>1 DEF Init, W!Init

(* handle() does what Workflow asks, whatever the number of coroutines and of *)
(* characters and whatever the io_context.                                     *)
THEOREM Refinement == Spec => RefinesWorkflow
BY Initially, StepMaps, Invariance, PTL DEF Spec, RefinesWorkflow, W!Spec
==============================================================================
