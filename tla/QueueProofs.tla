----------------------------- MODULE QueueProofs -----------------------------
(***************************************************************************)
(* Lemmas about the queues of IoContext: how Once and Never change when an  *)
(* element is appended or the head is taken, and what the io_context's own *)
(* steps leave alone.                                                       *)
(***************************************************************************)
EXTENDS IoContext, SequenceTheorems, TLAPS

(* Appending another element does not change where x is. *)
LEMMA AppendOther ==
  ASSUME NEW S, NEW q \in Seq(S), NEW e \in S, NEW x, e # x
  PROVE  /\ Once(Append(q, e), x) <=> Once(q, x)
         /\ Never(Append(q, e), x) <=> Never(q, x)
<1> DEFINE r == Append(q, e)
<1>1. /\ r \in Seq(S)
      /\ Len(q) \in Nat /\ Len(r) = Len(q) + 1
      /\ DOMAIN q = 1..Len(q) /\ DOMAIN r = 1..(Len(q) + 1)
      /\ \A k \in 1..Len(q) : r[k] = q[k]
      /\ r[Len(q) + 1] = e
  BY AppendProperties, LenProperties
<1> HIDE DEF r
<1>2. \A k \in DOMAIN r : r[k] = x => k \in DOMAIN q
  BY <1>1
<1>3. Never(r, x) <=> Never(q, x)
  BY <1>1, <1>2 DEF Never
<1>4. Once(r, x) <=> Once(q, x)
  BY <1>1, <1>2 DEF Once
<1>5. QED
  BY <1>3, <1>4 DEF r

(* Appending an element that was not there puts it there once. *)
LEMMA AppendSame ==
  ASSUME NEW S, NEW q \in Seq(S), NEW e \in S, Never(q, e)
  PROVE  Once(Append(q, e), e)
<1>1. /\ Len(q) \in Nat /\ DOMAIN q = 1..Len(q)
      /\ DOMAIN Append(q, e) = 1..(Len(q) + 1)
      /\ \A k \in 1..Len(q) : Append(q, e)[k] = q[k]
      /\ Append(q, e)[Len(q) + 1] = e
  BY AppendProperties, LenProperties
<1>2. QED
  BY <1>1 DEF Once, Never

(* Taking a head other than x does not change whether x is there. *)
LEMMA TailOther ==
  ASSUME NEW S, NEW q \in Seq(S), q # <<>>, NEW x, Head(q) # x
  PROVE  /\ Once(Tail(q), x) <=> Once(q, x)
         /\ Never(Tail(q), x) <=> Never(q, x)
<1> DEFINE t == Tail(q)
<1>1. /\ Len(q) \in Nat \ {0} /\ t \in Seq(S) /\ Len(t) = Len(q) - 1
      /\ DOMAIN q = 1..Len(q) /\ DOMAIN t = 1..(Len(q) - 1)
      /\ \A k \in 1..(Len(q) - 1) : t[k] = q[k + 1]
      /\ q[1] # x
  BY HeadTailProperties, LenProperties, EmptySeq
<1> HIDE DEF t
<1>2. Never(t, x) <=> Never(q, x)
  <2>1. ASSUME Never(t, x), NEW k \in DOMAIN q
        PROVE  q[k] # x
    <3>1. CASE k = 1
      BY <1>1, <3>1
    <3>2. CASE k # 1
      <4>1. k - 1 \in DOMAIN t /\ t[k - 1] = q[k]
        BY <1>1, <3>2
      <4>2. QED
        BY <2>1, <4>1 DEF Never
    <3>3. QED
      BY <3>1, <3>2
  <2>2. ASSUME Never(q, x), NEW k \in DOMAIN t
        PROVE  t[k] # x
    BY <1>1, <2>2 DEF Never
  <2>3. QED
    BY <2>1, <2>2 DEF Never
<1>3. ASSUME Once(t, x) PROVE Once(q, x)
  <2>1. PICK k \in DOMAIN t : t[k] = x /\ \A j \in DOMAIN t : t[j] = x => j = k
    BY <1>3 DEF Once
  <2>2. k + 1 \in DOMAIN q /\ q[k + 1] = x
    BY <1>1, <2>1
  <2>3. ASSUME NEW j \in DOMAIN q, q[j] = x PROVE j = k + 1
    <3>1. j # 1
      BY <1>1, <2>3
    <3>2. j - 1 \in DOMAIN t /\ t[j - 1] = x
      BY <1>1, <2>3, <3>1
    <3>3. QED
      BY <1>1, <2>1, <3>2
  <2>4. QED
    BY <2>2, <2>3 DEF Once
<1>4. ASSUME Once(q, x) PROVE Once(t, x)
  <2>1. PICK k \in DOMAIN q : q[k] = x /\ \A j \in DOMAIN q : q[j] = x => j = k
    BY <1>4 DEF Once
  <2>2. k # 1
    BY <1>1, <2>1
  <2>3. k - 1 \in DOMAIN t /\ t[k - 1] = x
    BY <1>1, <2>1, <2>2
  <2>4. ASSUME NEW j \in DOMAIN t, t[j] = x PROVE j = k - 1
    <3>1. j + 1 \in DOMAIN q /\ q[j + 1] = x
      BY <1>1, <2>4
    <3>2. j + 1 = k
      BY <2>1, <3>1
    <3>3. QED
      BY <1>1, <3>2
  <2>5. QED
    BY <2>3, <2>4 DEF Once
<1>5. QED
  BY <1>2, <1>3, <1>4 DEF t

(* Taking the only occurrence of x leaves none. *)
LEMMA TailSame ==
  ASSUME NEW S, NEW q \in Seq(S), q # <<>>, Once(q, Head(q))
  PROVE  Never(Tail(q), Head(q))
<1>1. /\ Len(q) \in Nat \ {0}
      /\ DOMAIN q = 1..Len(q) /\ DOMAIN Tail(q) = 1..(Len(q) - 1)
      /\ \A k \in 1..(Len(q) - 1) : Tail(q)[k] = q[k + 1]
      /\ q[1] = Head(q)
  BY HeadTailProperties, LenProperties, EmptySeq
<1>2. \A j \in DOMAIN q : q[j] = Head(q) => j = 1
  BY <1>1 DEF Once
<1>3. QED
  BY <1>1, <1>2 DEF Never

(* The head of a queue is somewhere in it. *)
LEMMA HeadIsThere ==
  ASSUME NEW S, NEW q \in Seq(S), q # <<>>
  PROVE  ~Never(q, Head(q))
<1>1. 1 \in DOMAIN q /\ q[1] = Head(q)
  BY EmptySeq, LenProperties
<1>2. QED
  BY <1>1 DEF Never

(* What is there once is not absent. *)
LEMMA OnceNotNever ==
  ASSUME NEW q, NEW x, Once(q, x)
  PROVE  ~Never(q, x)
BY DEF Once, Never

(* The steps of run() that touch the queue itself leave every handler but   *)
(* the one that ran where it was: only the stop packet is added or moved.   *)
LEMMA StopKeeps ==
  ASSUME NEW S, StopPacket \in S, NEW q \in Seq(S), Stop(q)
  PROVE  /\ queue' \in Seq(S)
         /\ stopped' = TRUE
         /\ \A x : x # StopPacket =>
              /\ Once(queue', x) <=> Once(q, x)
              /\ Never(queue', x) <=> Never(q, x)
<1>1. queue' = q \/ queue' = Append(q, StopPacket)
  BY DEF Stop
<1>2. queue' \in Seq(S) /\ stopped' = TRUE
  BY <1>1, AppendProperties DEF Stop
<1>3. ASSUME NEW x, x # StopPacket
      PROVE  /\ Once(queue', x) <=> Once(q, x)
             /\ Never(queue', x) <=> Never(q, x)
  <2>1. CASE queue' = q
    BY <2>1
  <2>2. CASE queue' = Append(q, StopPacket)
    BY <2>2, <1>3, AppendOther
  <2>3. QED
    BY <1>1, <2>1, <2>2
<1>4. QED
  BY <1>2, <1>3

LEMMA HandlerDoneKeeps ==
  ASSUME NEW S, StopPacket \in S, NEW q \in Seq(S), HandlerDone(q),
         stopped \in BOOLEAN
  PROVE  /\ queue' \in Seq(S)
         /\ stopped' \in BOOLEAN
         /\ \A x : x # StopPacket =>
              /\ Once(queue', x) <=> Once(q, x)
              /\ Never(queue', x) <=> Never(q, x)
BY StopKeeps DEF HandlerDone, HandlerLeaves

LEMMA EnterRunKeeps ==
  ASSUME NEW S, StopPacket \in S, queue \in Seq(S), stopped \in BOOLEAN,
         EnterRun \/ RefuseRun
  PROVE  /\ queue' \in Seq(S)
         /\ stopped' \in BOOLEAN
         /\ \A x : x # StopPacket =>
              /\ Once(queue', x) <=> Once(queue, x)
              /\ Never(queue', x) <=> Never(queue, x)
BY StopKeeps DEF EnterRun, RefuseRun

LEMMA LeaveRunKeeps ==
  ASSUME NEW S, StopPacket \in S, queue \in Seq(S), stopped \in BOOLEAN, LeaveRun
  PROVE  /\ queue' \in Seq(S)
         /\ stopped' \in BOOLEAN
         /\ \A x : x # StopPacket =>
              /\ Once(queue', x) <=> Once(queue, x)
              /\ Never(queue', x) <=> Never(queue, x)
<1>1. CASE UNCHANGED queue
  BY <1>1 DEF LeaveRun
<1>2. CASE /\ queue # <<>> /\ Head(queue) = StopPacket
           /\ queue' = Append(Tail(queue), StopPacket)
  <2>1. Tail(queue) \in Seq(S)
    BY <1>2, HeadTailProperties
  <2>2. queue' \in Seq(S) /\ stopped' \in BOOLEAN
    BY <1>2, <2>1, AppendProperties DEF LeaveRun
  <2>3. ASSUME NEW x, x # StopPacket
        PROVE  /\ Once(queue', x) <=> Once(queue, x)
               /\ Never(queue', x) <=> Never(queue, x)
    BY <1>2, <2>1, <2>3, AppendOther, TailOther
  <2>4. QED
    BY <2>2, <2>3
<1>3. QED
  BY <1>1, <1>2 DEF LeaveRun
==============================================================================
