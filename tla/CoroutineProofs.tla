--------------------------- MODULE CoroutineProofs ---------------------------
(***************************************************************************)
(* Proofs about the C++20 coroutines of stdcoro.ixx: AsioStrand, for every     *)
(* number of coroutines, rounds and io threads, however long threads take and   *)
(* however short the closure's sleep is; and StdCoro, for any sets of eager and *)
(* lazy tasks and any number of awaits, whatever throws.                        *)
(***************************************************************************)
EXTENDS AsioStrand, StdCoroState, FiniteSetTheorems, SequenceTheorems, TLAPS

Packet == [tag : {"cb", "noop"}, id : Coro]

(* The states of a coroutine, and the types of the variables. *)
States == {"post", "push", "pushed", "wait", "over", "broken"}

TypeOK ==
  /\ at \in [Coro -> States]
  /\ i \in [Coro -> Nat]
  /\ queue \in Seq(Packet) /\ stopped \in BOOLEAN
  /\ thread \in [IoThreads -> Coro \cup {0}]
  /\ done \in SUBSET IoThreads
  /\ g_task_queue \in Seq(Coro)
  /\ task \in Coro \cup {0}
  /\ g_mutex \in BOOLEAN

(* The inductive invariant.  Where a coroutine is resumed while it runs, the    *)
(* program is undefined, and goes no further in the model.                       *)
IInv == TypeOK /\ OneResumption

------------------------------------------------------------------------------
(* How many times x is in q, when an element is appended or the head taken. *)
LEMMA QueuedIsNat ==
  ASSUME NEW S, NEW q \in Seq(S), NEW x
  PROVE  /\ IsFiniteSet({k \in DOMAIN q : q[k] = x})
         /\ Queued(q, x) \in Nat
<1>1. DOMAIN q = 1..Len(q) /\ Len(q) \in Nat
  BY LenProperties
<1>2. IsFiniteSet(1..Len(q))
  BY <1>1, FS_Interval
<1>3. IsFiniteSet({k \in DOMAIN q : q[k] = x})
  BY <1>1, <1>2, FS_Subset
<1>4. QED
  BY <1>3, FS_CardinalityType DEF Queued

LEMMA QueuedAppend ==
  ASSUME NEW S, NEW q \in Seq(S), NEW e \in S, NEW x
  PROVE  Queued(Append(q, e), x) = Queued(q, x) + (IF e = x THEN 1 ELSE 0)
<1> DEFINE D == {k \in DOMAIN q : q[k] = x}
           E == {k \in DOMAIN Append(q, e) : Append(q, e)[k] = x}
<1>1. /\ DOMAIN q = 1..Len(q) /\ Len(q) \in Nat
      /\ DOMAIN Append(q, e) = 1..(Len(q) + 1)
      /\ \A k \in 1..Len(q) : Append(q, e)[k] = q[k]
      /\ Append(q, e)[Len(q) + 1] = e
  BY AppendProperties, LenProperties
<1>q. Queued(q, x) = Cardinality(D) /\ Queued(Append(q, e), x) = Cardinality(E)
  BY DEF Queued
<1>2. IsFiniteSet(D) /\ Cardinality(D) \in Nat
  BY <1>q, QueuedIsNat
<1>n. Len(q) + 1 \notin D
  BY <1>1
<1>3. CASE e = x
  <2>1. E = D \cup {Len(q) + 1}
    BY <1>1, <1>3
  <2>2. Cardinality(E) = Cardinality(D) + 1
    BY <1>2, <1>n, <2>1, FS_AddElement
  <2>3. QED
    BY <1>3, <1>q, <2>2
<1>4. CASE e # x
  <2>1. E = D
    BY <1>1, <1>4
  <2> HIDE DEF D, E
  <2>2. QED
    BY <1>2, <1>4, <1>q, <2>1
<1>5. QED
  BY <1>3, <1>4

LEMMA QueuedTail ==
  ASSUME NEW S, NEW q \in Seq(S), q # <<>>, NEW x
  PROVE  Queued(q, x) = Queued(Tail(q), x) + (IF Head(q) = x THEN 1 ELSE 0)
<1> DEFINE D == {k \in DOMAIN q : q[k] = x}
           E == {k \in DOMAIN Tail(q) : Tail(q)[k] = x}
           F == {k \in D : k # 1}
           f == [k \in E |-> k + 1]
<1>1. /\ DOMAIN q = 1..Len(q) /\ Len(q) \in Nat \ {0} /\ q[1] = Head(q)
      /\ Tail(q) \in Seq(S) /\ DOMAIN Tail(q) = 1..(Len(q) - 1)
      /\ \A k \in 1..(Len(q) - 1) : Tail(q)[k] = q[k + 1]
  BY HeadTailProperties, LenProperties, EmptySeq
<1>q. Queued(q, x) = Cardinality(D) /\ Queued(Tail(q), x) = Cardinality(E)
  BY DEF Queued
<1>2. IsFiniteSet(E) /\ Cardinality(E) \in Nat
  BY <1>1, <1>q, QueuedIsNat
<1>3. f \in Bijection(E, F)
  <2>1. f \in [E -> F]
    BY <1>1
  <2>2. \A a, b \in E : f[a] = f[b] => a = b
    BY <1>1
  <2>3. \A k \in F : \E a \in E : f[a] = k
    <3>1. ASSUME NEW k \in F PROVE k - 1 \in E /\ f[k - 1] = k
      BY <1>1
    <3>2. QED
      BY <3>1
  <2>4. QED
    BY <2>1, <2>2, <2>3 DEF Bijection, Injection, Surjection, IsInjective
<1>4. IsFiniteSet(F) /\ Cardinality(F) = Cardinality(E)
  BY <1>2, <1>3, FS_Bijection DEF ExistsBijection
<1>5. CASE Head(q) = x
  <2>1. D = F \cup {1} /\ 1 \notin F
    BY <1>1, <1>5
  <2> HIDE DEF D, E, F
  <2>2. Cardinality(D) = Cardinality(F) + 1
    BY <1>4, <2>1, FS_AddElement
  <2>3. QED
    BY <1>2, <1>4, <1>5, <1>q, <2>2
<1>6. CASE Head(q) # x
  <2>1. D = F
    BY <1>1, <1>6
  <2> HIDE DEF D, E, F
  <2>2. QED
    BY <1>2, <1>4, <1>6, <1>q, <2>1
<1>7. QED
  BY <1>5, <1>6

------------------------------------------------------------------------------
(* The io threads that run r, when thread t starts or stops to run s. *)
LEMMA RunnersChange ==
  ASSUME thread \in [IoThreads -> Coro \cup {0}], NEW t \in IoThreads,
         NEW s \in Coro \cup {0}, thread' = [thread EXCEPT ![t] = s], NEW r \in Coro
  PROVE  /\ Cardinality(Runners(r)) \in Nat /\ Cardinality(Runners(r)') \in Nat
         /\ Cardinality(Runners(r)') + (IF thread[t] = r THEN 1 ELSE 0)
              = Cardinality(Runners(r)) + (IF s = r THEN 1 ELSE 0)
<1> DEFINE A == Runners(r) \ {t}
<1>1. IsFiniteSet(IoThreads) /\ Runners(r) \in SUBSET IoThreads
  BY AsioStrandAssumption DEF Runners
<1>2. IsFiniteSet(Runners(r)) /\ IsFiniteSet(A)
  BY <1>1, FS_Subset, FS_RemoveElement
<1>3. Cardinality(A) \in Nat /\ t \notin A
  BY <1>2, FS_CardinalityType
<1>4. Runners(r) = IF thread[t] = r THEN A \cup {t} ELSE A
  BY DEF Runners
<1>5. Runners(r)' = IF s = r THEN A \cup {t} ELSE A
  BY DEF Runners
<1>6. Cardinality(A \cup {t}) = Cardinality(A) + 1
  BY <1>2, <1>3, FS_AddElement
<1> HIDE DEF A
<1>7. Cardinality(Runners(r)) = Cardinality(A) + (IF thread[t] = r THEN 1 ELSE 0)
  BY <1>3, <1>4, <1>6
<1>8. Cardinality(Runners(r)') = Cardinality(A) + (IF s = r THEN 1 ELSE 0)
  BY <1>3, <1>5, <1>6
<1>9. QED
  BY <1>3, <1>7, <1>8

(* The handlers are told apart by tag and id. *)
LEMMA Packets ==
  /\ 0 \notin Coro
  /\ \A r \in Coro : Cb(r) \in Packet /\ Noop(r) \in Packet
  /\ \A r, s \in Coro : (Cb(r) = Cb(s) => r = s) /\ Noop(r) # Cb(s)
<1>1. \A r : /\ Cb(r).id = r /\ Cb(r).tag = "cb"
             /\ Noop(r).tag = "noop"
  BY DEF Cb, Noop
<1>2. \A r \in Coro : Cb(r) \in Packet /\ Noop(r) \in Packet
  BY DEF Cb, Noop, Packet
<1>3. QED
  BY <1>1, <1>2 DEF Coro

(* The three places that can make r go on. *)
One(r) ==
  /\ Queued(queue, Cb(r)) = IF at[r] = "post" THEN 1 ELSE 0
  /\ Cardinality(Runners(r)) = IF at[r] \in {"push", "pushed"} THEN 1 ELSE 0
  /\ Queued(g_task_queue, r) + (IF task = r THEN 1 ELSE 0)
       = IF at[r] \in {"pushed", "wait"} THEN 1 ELSE 0

(* The types, and the counts as numbers. *)
LEMMA Facts ==
  ASSUME IInv, Defined
  PROVE  /\ TypeOK
         /\ \A r \in Coro : /\ One(r)
                            /\ Queued(queue, Cb(r)) \in Nat
                            /\ Queued(g_task_queue, r) \in Nat
BY QueuedIsNat DEF IInv, TypeOK, OneResumption, One

(* A step that leaves r's places and r's state alone. *)
LEMMA OneKept ==
  ASSUME NEW r \in Coro, One(r), at'[r] = at[r],
         Queued(queue', Cb(r)) = Queued(queue, Cb(r)),
         Cardinality(Runners(r)') = Cardinality(Runners(r)),
         Queued(g_task_queue', r) = Queued(g_task_queue, r),
         task' = r <=> task = r
  PROVE  One(r)'
BY DEF One, Cb, Queued

------------------------------------------------------------------------------
(* An io thread takes the handler that resumes r. *)
LEMMA CbMeets ==
  ASSUME IInv, Defined, NEW t \in IoThreads, NEW r \in Coro, RunsCb(t, r)
  PROVE  at[r] = "post"
<1>1. queue \in Seq(Packet) /\ queue # <<>> /\ Head(queue) = Cb(r)
  BY Facts DEF RunsCb, Takes, TypeOK
<1>2. Tail(queue) \in Seq(Packet)
  BY <1>1, HeadTailProperties
<1>3. Queued(queue, Cb(r)) = Queued(Tail(queue), Cb(r)) + 1 /\ Queued(Tail(queue), Cb(r)) \in Nat
  BY <1>1, <1>2, QueuedTail, QueuedIsNat
<1>4. QED
  BY <1>3, Facts DEF One

LEMMA RunsCbStep ==
  ASSUME IInv, Defined, NEW t \in IoThreads, NEW r \in Coro, RunsCb(t, r)
  PROVE  TypeOK' /\ \A s \in Coro : One(s)'
<1> USE Packets
<1>1. /\ queue \in Seq(Packet) /\ queue # <<>> /\ Head(queue) = Cb(r)
      /\ queue' = Tail(queue) /\ queue' \in Seq(Packet)
      /\ thread[t] = 0 /\ thread' = [thread EXCEPT ![t] = r]
      /\ UNCHANGED <<i, stopped, g_task_queue, task, g_mutex, done>>
  BY Facts, HeadTailProperties DEF RunsCb, Takes, TypeOK
<1>2. \A s \in Coro : Queued(queue, Cb(s)) = Queued(queue', Cb(s)) + (IF s = r THEN 1 ELSE 0)
  BY <1>1, QueuedTail
<1>3. \A s \in Coro : Queued(queue', Cb(s)) \in Nat
  BY <1>1, QueuedIsNat
<1>4. at[r] = "post" /\ Queued(queue', Cb(r)) = 0
  BY <1>2, <1>3, Facts DEF One
<1>5. at' = [at EXCEPT ![r] = "push"]
  BY <1>4 DEF RunsCb
<1>6. TypeOK'
  BY <1>1, <1>5, Facts DEF TypeOK, States
<1>7. ASSUME NEW s \in Coro PROVE One(s)'
  <2>t. thread \in [IoThreads -> Coro \cup {0}] /\ thread[t] # s
    BY <1>1, Facts DEF TypeOK
  <2>2. /\ Cardinality(Runners(s)) \in Nat /\ Cardinality(Runners(s)') \in Nat
        /\ Cardinality(Runners(s)') + (IF thread[t] = s THEN 1 ELSE 0)
             = Cardinality(Runners(s)) + (IF r = s THEN 1 ELSE 0)
    BY <1>1, <2>t, RunnersChange
  <2>1. Cardinality(Runners(s)') = Cardinality(Runners(s)) + (IF s = r THEN 1 ELSE 0)
    BY <2>t, <2>2
  <2>3. CASE s = r
    <3>1. Cardinality(Runners(r)') = 1
      BY <1>4, <2>1, <2>3, Facts DEF One
    <3>2. at'[r] = "push"
      BY <1>5, Facts DEF TypeOK
    <3>3. Queued(g_task_queue, r) + (IF task = r THEN 1 ELSE 0) = 0
      BY <1>4, Facts DEF One
    <3>4. QED
      BY <1>1, <1>4, <2>3, <3>1, <3>2, <3>3 DEF One, Cb
  <2>4. CASE s # r
    <3>1. at'[s] = at[s]
      BY <1>5, <2>4, Facts DEF TypeOK
    <3>2. QED
      BY <1>1, <1>2, <1>3, <2>1, <2>2, <2>4, <3>1, Facts, OneKept
  <2>5. QED
    BY <2>3, <2>4
<1>8. QED
  BY <1>6, <1>7

(* The handler of line 77 does nothing. *)
LEMMA RunsNoopStep ==
  ASSUME IInv, Defined, NEW t \in IoThreads, NEW r \in Coro, RunsNoop(t, r)
  PROVE  TypeOK' /\ \A s \in Coro : One(s)'
<1> USE Packets
<1>1. /\ queue \in Seq(Packet) /\ queue # <<>> /\ Head(queue) = Noop(r)
      /\ queue' = Tail(queue) /\ queue' \in Seq(Packet)
      /\ UNCHANGED <<at, i, thread, g_task_queue, task, g_mutex, done>>
  BY Facts, HeadTailProperties DEF RunsNoop, Takes, TypeOK
<1>2. ASSUME NEW s \in Coro PROVE Queued(queue', Cb(s)) = Queued(queue, Cb(s))
  <2>1. Queued(queue', Cb(s)) \in Nat
    BY <1>1, QueuedIsNat
  <2>2. QED
    BY <1>1, <2>1, QueuedTail
<1>3. TypeOK'
  <2>1. stopped' \in BOOLEAN
    BY Facts DEF RunsNoop, NoWork, TypeOK
  <2>2. QED
    BY <1>1, <2>1, Facts DEF TypeOK
<1>4. ASSUME NEW s \in Coro PROVE One(s)'
  BY <1>1, <1>2, Facts, OneKept DEF Runners
<1>5. QED
  BY <1>3, <1>4

(* The closure is queued for the task thread. *)
LEMMA PushesStep ==
  ASSUME IInv, Defined, NEW t \in IoThreads, NEW r \in Coro, Pushes(t, r)
  PROVE  TypeOK' /\ \A s \in Coro : One(s)'
<1>1. /\ at[r] = "push" /\ at' = [at EXCEPT ![r] = "pushed"]
      /\ g_task_queue' = Append(g_task_queue, r)
      /\ UNCHANGED <<i, queue, stopped, thread, task, g_mutex, done>>
  BY DEF Pushes
<1>2. g_task_queue \in Seq(Coro) /\ g_task_queue' \in Seq(Coro)
  BY <1>1, Facts, AppendProperties DEF TypeOK
<1>3. \A s \in Coro : Queued(g_task_queue', s)
                       = Queued(g_task_queue, s) + (IF s = r THEN 1 ELSE 0)
  BY <1>1, <1>2, QueuedAppend
<1>4. TypeOK'
  BY <1>1, <1>2, Facts DEF TypeOK, States
<1>5. ASSUME NEW s \in Coro PROVE One(s)'
  <2>1. Runners(s)' = Runners(s)
    BY <1>1 DEF Runners
  <2>2. CASE s = r
    <3>1. at'[r] = "pushed"
      BY <1>1, Facts DEF TypeOK
    <3>2. QED
      BY <1>1, <1>3, <2>1, <2>2, <3>1, Facts DEF One
  <2>3. CASE s # r
    <3>1. at'[s] = at[s]
      BY <1>1, <2>3, Facts DEF TypeOK
    <3>2. Queued(g_task_queue', s) = Queued(g_task_queue, s)
      BY <1>3, <2>3, Facts
    <3>3. QED
      BY <1>1, <2>1, <3>1, <3>2, Facts, OneKept
  <2>4. QED
    BY <2>2, <2>3
<1>6. QED
  BY <1>4, <1>5

(* The coroutine suspends at line 77. *)
LEMMA SuspendsStep ==
  ASSUME IInv, Defined, NEW t \in IoThreads, NEW r \in Coro, Suspends(t, r)
  PROVE  TypeOK' /\ \A s \in Coro : One(s)'
<1> USE Packets
<1>1. /\ at[r] = "pushed" /\ at' = [at EXCEPT ![r] = "wait"]
      /\ thread[t] = r /\ thread' = [thread EXCEPT ![t] = 0]
      /\ queue' = Append(queue, Noop(r))
      /\ UNCHANGED <<i, stopped, g_task_queue, task, g_mutex, done>>
  BY Facts DEF Suspends, TypeOK
<1>2. queue \in Seq(Packet) /\ queue' \in Seq(Packet)
  BY <1>1, Facts, AppendProperties DEF TypeOK
<1>3. \A s \in Coro : Queued(queue', Cb(s)) = Queued(queue, Cb(s))
  BY <1>1, <1>2, QueuedAppend, Facts
<1>4. TypeOK'
  BY <1>1, <1>2, Facts DEF TypeOK, States
<1>5. ASSUME NEW s \in Coro PROVE One(s)'
  <2>t. thread \in [IoThreads -> Coro \cup {0}]
    BY Facts DEF TypeOK
  <2>u. \A x \in Coro \cup {0} : thread' = [thread EXCEPT ![t] = x] =>
          /\ Cardinality(Runners(s)) \in Nat /\ Cardinality(Runners(s)') \in Nat
          /\ Cardinality(Runners(s)') + (IF thread[t] = s THEN 1 ELSE 0)
               = Cardinality(Runners(s)) + (IF x = s THEN 1 ELSE 0)
    BY <2>t, RunnersChange
  <2>v. 0 \in Coro \cup {0} /\ thread' = [thread EXCEPT ![t] = 0]
    BY <1>1
  <2>1. /\ Cardinality(Runners(s)) \in Nat /\ Cardinality(Runners(s)') \in Nat
        /\ Cardinality(Runners(s)') + (IF thread[t] = s THEN 1 ELSE 0)
             = Cardinality(Runners(s)) + (IF 0 = s THEN 1 ELSE 0)
    BY <2>u, <2>v
  <2>2. Cardinality(Runners(s)') + (IF s = r THEN 1 ELSE 0) = Cardinality(Runners(s))
    BY <1>1, <2>1
  <2>3. CASE s = r
    <3>1. at'[r] = "wait"
      BY <1>1, Facts DEF TypeOK
    <3>2. Cardinality(Runners(r)') = 0
      BY <1>1, <2>1, <2>2, <2>3, Facts DEF One
    <3>3. QED
      BY <1>1, <1>3, <2>3, <3>1, <3>2, Facts DEF One, Cb
  <2>4. CASE s # r
    <3>1. at'[s] = at[s]
      BY <1>1, <2>4, Facts DEF TypeOK
    <3>2. QED
      BY <1>1, <1>3, <2>1, <2>2, <2>4, <3>1, Facts, OneKept
  <2>5. QED
    BY <2>3, <2>4
<1>6. QED
  BY <1>4, <1>5

(* The task thread takes a closure. *)
LEMMA TaskPopsStep ==
  ASSUME IInv, Defined, TaskPops
  PROVE  TypeOK' /\ \A s \in Coro : One(s)'
<1> USE Packets
<1>1. /\ task = 0 /\ g_task_queue # <<>> /\ task' = Head(g_task_queue)
      /\ g_task_queue' = Tail(g_task_queue) /\ g_mutex' = TRUE
      /\ UNCHANGED <<at, i, queue, stopped, thread, done>>
  BY DEF TaskPops
<1>2. /\ g_task_queue \in Seq(Coro) /\ g_task_queue' \in Seq(Coro) /\ task' \in Coro
  BY <1>1, Facts, HeadTailProperties DEF TypeOK
<1>3. TypeOK'
  BY <1>1, <1>2, Facts DEF TypeOK
<1>4. ASSUME NEW s \in Coro PROVE One(s)'
  <2>1. Queued(g_task_queue, s) = Queued(g_task_queue', s) + (IF task' = s THEN 1 ELSE 0)
    BY <1>1, <1>2, QueuedTail
  <2>2. Runners(s)' = Runners(s) /\ task # s
    BY <1>1 DEF Runners
  <2>3. Queued(g_task_queue, s) \in Nat /\ One(s)
    BY Facts
  <2>4. QED
    BY <1>1, <2>1, <2>2, <2>3 DEF One, Cb
<1>5. QED
  BY <1>3, <1>4

(* The task thread resumes the coroutine: it meets it suspended at line 77, or on *)
(* its way there.                                                                   *)
LEMMA TaskMeets ==
  ASSUME IInv, Defined, NEW r \in Coro, TaskResumes(r)
  PROVE  task = r /\ at[r] \in {"pushed", "wait"}
<1>1. Queued(g_task_queue, r) \in Nat /\ One(r) /\ task = r
  BY Facts DEF TaskResumes
<1>2. QED
  BY <1>1 DEF One

(* It resumes it while it runs. *)
LEMMA TaskBreaks ==
  ASSUME IInv, Defined, NEW r \in Coro, TaskResumes(r), at[r] # "wait"
  PROVE  TypeOK' /\ ~Defined'
<1>1. /\ at' = [at EXCEPT ![r] = "broken"] /\ i' = [i EXCEPT ![r] = i[r] + 1]
      /\ task' = 0 /\ UNCHANGED <<stopped, thread, g_task_queue, g_mutex, done>>
  BY DEF TaskResumes
<1>2. at' \in [Coro -> States] /\ i' \in [Coro -> Nat] /\ at'[r] = "broken"
  BY <1>1, Facts DEF TypeOK, States
<1>3. queue' = queue
  BY <1>2 DEF TaskResumes
<1>4. QED
  BY <1>1, <1>2, <1>3, Facts DEF TypeOK, Defined

(* It resumes it where it has suspended. *)
LEMMA TaskResumesStep ==
  ASSUME IInv, Defined, NEW r \in Coro, TaskResumes(r), at[r] = "wait"
  PROVE  TypeOK' /\ \A s \in Coro : One(s)'
<1> USE Packets
<1>1. at[r] = "wait" /\ task = r /\ task' = 0
  BY DEF TaskResumes
<1>2. /\ at' = [at EXCEPT ![r] = IF i[r] + 1 < Rounds THEN "post" ELSE "over"]
      /\ i' = [i EXCEPT ![r] = i[r] + 1]
      /\ queue' = IF at'[r] = "post" THEN Append(queue, Cb(r)) ELSE queue
      /\ UNCHANGED <<stopped, thread, g_task_queue, g_mutex, done>>
  BY <1>1 DEF TaskResumes
<1>3. at'[r] \in {"post", "over"} /\ \A s \in Coro : s # r => at'[s] = at[s]
  BY <1>2, Facts DEF TypeOK, States
<1>4. queue \in Seq(Packet) /\ queue' \in Seq(Packet)
  BY <1>2, Facts, AppendProperties DEF TypeOK
<1>5. \A s \in Coro : Queued(queue', Cb(s))
        = Queued(queue, Cb(s)) + (IF s = r /\ at'[r] = "post" THEN 1 ELSE 0)
  BY <1>2, <1>4, QueuedAppend, Facts
<1>6. TypeOK'
  <2>1. at' \in [Coro -> States] /\ i' \in [Coro -> Nat]
    BY <1>2, Facts DEF TypeOK, States
  <2>2. QED
    BY <1>1, <1>2, <1>4, <2>1, Facts DEF TypeOK
<1>7. ASSUME NEW s \in Coro PROVE One(s)'
  <2>1. Runners(s)' = Runners(s)
    BY <1>2 DEF Runners
  <2>2. CASE s = r
    <3>1. /\ Queued(queue', Cb(r)) = IF at'[r] = "post" THEN 1 ELSE 0
          /\ Cardinality(Runners(r)) = 0
          /\ Queued(g_task_queue, r) = 0
      BY <1>1, <1>5, Facts DEF One
    <3>2. QED
      BY <1>1, <1>2, <1>3, <2>1, <2>2, <3>1 DEF One, Cb
  <2>3. CASE s # r
    <3>1. Queued(queue', Cb(s)) = Queued(queue, Cb(s))
      BY <1>5, <2>3, Facts
    <3>2. QED
      BY <1>1, <1>2, <1>3, <2>1, <2>3, <3>1, Facts, OneKept
  <2>4. QED
    BY <2>2, <2>3
<1>8. QED
  BY <1>6, <1>7

(* Every step of the program keeps the invariant. *)
LEMMA InvStep == IInv /\ [Next]_vars => IInv'
<1> SUFFICES ASSUME IInv, [Next]_vars PROVE IInv'
  OBVIOUS
<1>1. ASSUME Defined, NEW t \in IoThreads, Leaves(t) PROVE TypeOK' /\ \A s \in Coro : One(s)'
  <2>1. done' \in SUBSET IoThreads
    BY <1>1, Facts DEF Leaves, TypeOK
  <2>2. UNCHANGED <<at, i, queue, stopped, thread, g_task_queue, task, g_mutex>>
    BY <1>1 DEF Leaves
  <2>3. TypeOK'
    BY <1>1, <2>1, <2>2, Facts DEF TypeOK
  <2>4. QED
    BY <1>1, <2>2, <2>3, Facts DEF One, Runners, Cb
<1>2. ASSUME Defined, TaskUnlocks PROVE TypeOK' /\ \A s \in Coro : One(s)'
  <2>1. UNCHANGED <<at, i, queue, stopped, thread, done, g_task_queue, task>> /\ g_mutex' = FALSE
    BY <1>2 DEF TaskUnlocks
  <2>2. TypeOK'
    BY <1>2, <2>1, Facts DEF TypeOK
  <2>3. QED
    BY <1>2, <2>1, <2>2, Facts DEF One, Runners, Cb
<1>3. ASSUME Defined, NEW r \in Coro, TaskResumes(r)
      PROVE  TypeOK' /\ (Defined' => \A s \in Coro : One(s)')
  BY <1>3, TaskBreaks, TaskResumesStep
<1>4. CASE Next
  <2>1. TypeOK' /\ (Defined' => \A s \in Coro : One(s)')
    BY <1>1, <1>2, <1>3, <1>4, RunsCbStep, RunsNoopStep, PushesStep, SuspendsStep, TaskPopsStep
    DEF Next, IoThread, TaskThread
  <2>2. QED
    BY <2>1 DEF IInv, OneResumption, One
<1>5. CASE UNCHANGED vars
  <2>1. TypeOK' /\ (Defined' => Defined)
    BY <1>5 DEF vars, IInv, TypeOK, Defined
  <2>2. ASSUME Defined, NEW r \in Coro PROVE One(r)'
    BY <1>5, <2>2, Facts DEF vars, One, Runners, Queued, Cb
  <2>3. QED
    BY <2>1, <2>2 DEF IInv, OneResumption, One
<1>6. QED
  BY <1>4, <1>5

LEMMA QueuedOnce ==
  ASSUME NEW r \in Coro
  PROVE  /\ Queued([s \in Coro |-> Cb(s)], Cb(r)) = 1
         /\ Queued(<<>>, r) = 0
<1>1. \A s \in Coro : Cb(s) = Cb(r) <=> s = r
  BY Packets
<1>2. {k \in DOMAIN [s \in Coro |-> Cb(s)] : [s \in Coro |-> Cb(s)][k] = Cb(r)} = {r}
  BY <1>1
<1>3. {k \in DOMAIN <<>> : <<>>[k] = r} = {}
  OBVIOUS
<1>4. QED
  BY <1>2, <1>3, FS_Singleton, FS_EmptySet DEF Queued

LEMMA Initially == Init => IInv
<1> SUFFICES ASSUME Init PROVE IInv
  OBVIOUS
<1>1. queue \in Seq(Packet)
  <2>1. \A r \in 1..N : Cb(r) \in Packet
    BY Packets DEF Coro
  <2>2. N \in Nat /\ queue = [r \in 1..N |-> Cb(r)]
    BY AsioStrandAssumption DEF Init, Coro
  <2>3. QED
    BY <2>1, <2>2, IsASeq
<1>2. g_task_queue = <<>>
  BY DEF Init
<1>3. TypeOK
  <2>1. at \in [Coro -> States] /\ i \in [Coro -> Nat]
    BY DEF Init, States
  <2>2. thread \in [IoThreads -> Coro \cup {0}] /\ task \in Coro \cup {0}
    BY DEF Init
  <2>3. stopped \in BOOLEAN /\ g_mutex \in BOOLEAN /\ done \in SUBSET IoThreads
    BY DEF Init
  <2>4. g_task_queue \in Seq(Coro)
    BY <1>2
  <2>5. QED
    BY <1>1, <2>1, <2>2, <2>3, <2>4 DEF TypeOK
<1>4. ASSUME NEW r \in Coro PROVE One(r)
  <2>1. Runners(r) = {}
    BY Packets DEF Init, Runners
  <2>2. Cardinality(Runners(r)) = 0
    BY <2>1, FS_EmptySet
  <2>3. Queued(queue, Cb(r)) = 1 /\ Queued(g_task_queue, r) = 0
    BY QueuedOnce DEF Init
  <2>4. QED
    BY <2>2, <2>3, Packets DEF Init, One
<1>5. QED
  BY <1>3, <1>4 DEF IInv, OneResumption, One

LEMMA Invariance == Spec => []IInv
BY Initially, InvStep, PTL DEF Spec

(* No coroutine is resumed by two threads, or after its end, and none is          *)
(* forgotten, on any number of io threads, as long as none is resumed on its way   *)
(* to line 77.                                                                    *)
THEOREM OneResumptionCorrect == Spec => []OneResumption
<1>1. IInv => OneResumption
  BY DEF IInv
<1>2. QED
  BY <1>1, Invariance, PTL

(* And that is the one way in which a coroutine is ever resumed while it is not    *)
(* suspended: the closure's sleep ends before the thread that queued it has         *)
(* suspended the coroutine, at every length of the sleep.                           *)
THEOREM OnlyHasteBreaksCorrect == Spec => OnlyHasteBreaks
<1>1. ASSUME IInv, [Next]_vars
      PROVE  [\A r \in Coro :
                 at'[r] = "broken" /\ at[r] # "broken" => task = r /\ at[r] = "pushed"]_vars
  <2> SUFFICES ASSUME Next, NEW r \in Coro, at'[r] = "broken", at[r] # "broken"
               PROVE  task = r /\ at[r] = "pushed"
    BY <1>1 DEF vars
  <2>d. Defined /\ at \in [Coro -> States]
    BY <1>1, Facts DEF Next, IoThread, TaskThread, TypeOK, IInv
  <2>1. ASSUME NEW s \in Coro, NEW t \in IoThreads, RunsCb(t, s) PROVE FALSE
    <3>1. at[s] = "post"
      BY <1>1, <2>1, <2>d, CbMeets
    <3>2. at' = [at EXCEPT ![s] = "push"]
      BY <2>1, <3>1 DEF RunsCb
    <3>3. QED
      BY <2>d, <3>2
  <2>2. ASSUME NEW s \in Coro, TaskResumes(s) PROVE task = r /\ at[r] = "pushed"
    <3>1. task = s /\ at[s] \in {"pushed", "wait"}
      BY <1>1, <2>2, <2>d, TaskMeets
    <3>2. s = r
      BY <2>2, <2>d DEF TaskResumes
    <3>3. at[r] # "wait"
      BY <2>2, <2>d, <3>2 DEF TaskResumes
    <3>4. QED
      BY <3>1, <3>2, <3>3
  <2>3. ASSUME NEW s \in Coro, NEW t \in IoThreads, Pushes(t, s) \/ Suspends(t, s) PROVE FALSE
    BY <2>3, <2>d DEF Pushes, Suspends
  <2>4. QED
    BY <2>1, <2>2, <2>3
    DEF Next, IoThread, TaskThread, Leaves, RunsNoop, TaskPops, TaskUnlocks
<1>2. QED
  BY <1>1, Invariance, PTL DEF Spec, OnlyHasteBreaks

(* The context stops only when every coroutine waits for the task thread or is  *)
(* over.                                                                         *)
THEOREM StopsWhileWaitingCorrect == Spec => StopsWhileWaiting
<1>2. ASSUME IInv, [Next]_vars
      PROVE  [stopped' /\ ~stopped => \A r \in Coro : at[r] \in {"wait", "over"}]_vars
  <2>1. ASSUME stopped', ~stopped, NEW r \in Coro
        PROVE  at[r] \in {"wait", "over"}
    <3>1. stopped' # stopped
      BY <2>1
    <3>2. PICK t \in IoThreads, s \in Coro : Defined /\ RunsNoop(t, s)
      BY <1>2, <3>1
      DEF Next, IoThread, TaskThread, RunsCb, Pushes, Suspends, Leaves, TaskPops,
          TaskUnlocks, TaskResumes, vars
    <3>d. TypeOK /\ One(r) /\ at[r] # "broken" /\ One(r)'
      BY <1>2, <3>2, Facts, RunsNoopStep DEF Defined
    <3>3. queue' = <<>> /\ (\A u \in IoThreads : thread[u] = 0) /\ at' = at /\ thread' = thread
      BY <2>1, <3>2 DEF RunsNoop, NoWork
    <3>4. at[r] # "post"
      <4>1. Queued(queue', Cb(r)') = 0
        BY <3>3, FS_EmptySet DEF Queued
      <4>2. QED
        BY <3>3, <3>d, <4>1 DEF One
    <3>5. at[r] \notin {"push", "pushed"}
      <4>1. Runners(r) = {}
        BY <3>3, Packets DEF Runners
      <4>2. Cardinality(Runners(r)) = 0
        BY <4>1, FS_EmptySet
      <4>3. QED
        BY <3>d, <4>2 DEF One
    <3>6. QED
      BY <3>d, <3>4, <3>5 DEF TypeOK, States
  <2>2. QED
    BY <2>1
<1>3. QED
  BY <1>2, Invariance, PTL DEF Spec, StopsWhileWaiting

------------------------------------------------------------------------------
(* The tasks and their frames. *)
CONSTANTS Awaits, Callers

S == INSTANCE StdCoro

Frames == {"none", "initial", "suspended", "final", "destroyed"}
Tasks  == {"none", "held", "null", "gone"}

(* The types of the variables. *)
TaskTypes ==
  /\ caller \in Callers
  /\ frame \in [S!Coroutine -> Frames]
  /\ h \in [S!Coroutine -> Tasks]
  /\ wait \in [S!Coroutine -> Nat]
  /\ awaits \in [S!Coroutine -> Nat]
  /\ detached \in [S!Coroutine -> BOOLEAN]
  /\ on_error \in [S!Coroutine -> BOOLEAN]
  /\ ex \in [S!Coroutine -> BOOLEAN]
  /\ misuse \in BOOLEAN /\ terminated \in BOOLEAN

(* Who owns c's frame.  detach() gives up the handle together with the        *)
(* ownership, so only a frame that nobody holds destroys itself.  One handler    *)
(* waits for a suspended eager coroutine, and none for one that has ended.       *)
Owned(c) ==
  /\ terminated \/ (frame[c] = "none" <=> h[c] = "none")
  /\ h[c] = "none" => wait[c] = 0
  /\ h[c] \in {"none", "held"} => ~detached[c]
  /\ h[c] = "held" => frame[c] # "destroyed"
  /\ c \in Lazy => ~detached[c] /\ h[c] # "null"
  /\ c \in Eager /\ frame[c] = "suspended" => wait[c] = 1
  /\ c \in Eager /\ (frame[c] = "final" \/ (frame[c] = "destroyed" /\ detached[c])) =>
       wait[c] = 0

(* The same where the tasks are used as the test uses them: one handler waits   *)
(* exactly for the suspended coroutines, a lazy frame is held until it is        *)
(* destroyed, and an eager one is detached before anything can resume it.        *)
Tested(c) ==
  /\ wait[c] = IF frame[c] = "suspended" THEN 1 ELSE 0
  /\ c \in Lazy => frame[c] = "none" \/ h[c] = "held" \/ frame[c] = "destroyed"
  /\ c \in Eager =>
       /\ frame[c] # "initial"
       /\ frame[c] = "suspended" => detached[c]
       /\ frame[c] = "final" => terminated

(* The inductive invariant. *)
TaskInv ==
  /\ TaskTypes
  /\ \A c \in S!Coroutine : Owned(c)
  /\ caller = "test" => ~misuse /\ \A c \in S!Coroutine : Tested(c)

(* What running coroutine c does: it changes c's entries only, and its frame    *)
(* destroys itself only at its end and only when it has been detached.           *)
LEMMA RunsOne ==
  ASSUME TaskTypes, NEW c \in S!Coroutine, NEW left \in Nat, NEW gone \in BOOLEAN, NEW caught \in BOOLEAN,
         S!Runs(c, left, gone, caught)
  PROVE  /\ frame' \in [S!Coroutine -> Frames] /\ wait' \in [S!Coroutine -> Nat]
         /\ awaits' \in [S!Coroutine -> Nat] /\ ex' \in [S!Coroutine -> BOOLEAN]
         /\ terminated' \in BOOLEAN
         /\ \A d \in S!Coroutine : d # c => frame'[d] = frame[d] /\ wait'[d] = wait[d]
         /\ frame'[c] \in {"suspended", "final", "destroyed"}
         /\ wait'[c] = IF frame'[c] = "suspended" THEN left + 1 ELSE left
         /\ frame'[c] = "destroyed" => gone /\ c \in Eager
         /\ frame'[c] = "final" => ~(gone /\ c \in Eager)
         /\ terminated \/ terminated' => frame'[c] \in {"final", "destroyed"} \/ terminated
<1> USE DEF TaskTypes, Frames
<1>1. CASE S!Suspends(c, left)
  BY <1>1 DEF S!Suspends
<1>2. CASE S!Ends(c, left, gone)
  BY <1>2 DEF S!Ends, S!FinalSuspend
<1>3. CASE S!Throws(c, left, gone, caught)
  <2>1. ex' \in [S!Coroutine -> BOOLEAN] /\ wait' \in [S!Coroutine -> Nat]
    BY <1>3 DEF S!Throws
  <2>2. terminated' \in BOOLEAN /\ awaits' = awaits
    BY <1>3 DEF S!Throws
  <2>3. QED
    BY <1>3, <2>1, <2>2 DEF S!Throws, S!FinalSuspend
<1>4. QED
  BY <1>1, <1>2, <1>3 DEF S!Runs

(* The initial state. *)
LEMMA TaskInit == S!Init => TaskInv
<1> SUFFICES ASSUME S!Init PROVE TaskInv
  OBVIOUS
<1>1. TaskTypes
  BY DEF S!Init, TaskTypes, Frames, Tasks
<1>2. \A c \in S!Coroutine : Owned(c) /\ Tested(c)
  BY DEF S!Init, Owned, Tested
<1>3. QED
  BY <1>1, <1>2 DEF S!Init, TaskInv

(* A coroutine whose entries a step leaves alone keeps its part of the invariant. *)
LEMMA KeptOne ==
  ASSUME TaskInv, ~terminated, caller' = caller, NEW d \in S!Coroutine,
         frame'[d] = frame[d], h'[d] = h[d], wait'[d] = wait[d], detached'[d] = detached[d]
  PROVE  Owned(d)' /\ (caller = "test" => Tested(d)')
<1>1. Owned(d) /\ (caller = "test" => Tested(d))
  BY DEF TaskInv
<1>2. Owned(d)'
  BY <1>1 DEF Owned
<1>3. ASSUME caller = "test" PROVE Tested(d)'
  BY <1>1, <1>3 DEF Tested
<1>4. QED
  BY <1>2, <1>3

(* A step that keeps the types and every other coroutine's entries keeps the      *)
(* invariant when it keeps c's part of it.                                         *)
LEMMA OneChanged ==
  ASSUME TaskInv, ~terminated, ~misuse, caller' = caller, TaskTypes', NEW c \in S!Coroutine,
         \A d \in S!Coroutine : d # c =>
           /\ frame'[d] = frame[d] /\ h'[d] = h[d]
           /\ wait'[d] = wait[d] /\ detached'[d] = detached[d],
         Owned(c)',
         caller = "test" => ~misuse' /\ Tested(c)'
  PROVE  TaskInv'
<1>1. ASSUME NEW d \in S!Coroutine PROVE Owned(d)' /\ (caller = "test" => Tested(d)')
  <2>1. CASE d = c
    BY <2>1
  <2>2. CASE d # c
    BY <2>2, KeptOne
  <2>3. QED
    BY <2>1, <2>2
<1>2. QED
  BY <1>1 DEF TaskInv

(* Every step of a coroutine, its handlers or its task object keeps the invariant. *)
LEMMA StepKeepsTasks ==
  ASSUME S!StdCoroAssumption, TaskInv, ~terminated, ~misuse,
         NEW c \in S!Coroutine, S!Step(c), UNCHANGED caller
  PROVE  TaskInv'
<1>0. /\ TaskTypes /\ Owned(c) /\ (caller = "test" => Tested(c))
      /\ c \in Eager <=> c \notin Lazy
  BY DEF TaskInv, S!Coroutine
<1>1. CASE S!CreateLazy(c)
  <2>1. TaskTypes'
    BY <1>0, <1>1 DEF S!CreateLazy, TaskTypes, Frames, Tasks, S!promiseVars
  <2>2. Owned(c)' /\ (caller = "test" => Tested(c)')
    BY <1>0, <1>1 DEF S!CreateLazy, TaskTypes, Owned, Tested, S!promiseVars
  <2>3. QED
    BY <1>0, <1>1, <2>1, <2>2, OneChanged DEF S!CreateLazy, TaskTypes, S!promiseVars
<1>2. CASE S!Resume(c)
  <2>1. /\ S!Runs(c, wait[c], FALSE, FALSE) /\ c \in Lazy /\ h[c] = "held"
        /\ wait[c] \in Nat /\ (caller = "test" => wait[c] = 0)
    BY <1>0, <1>2 DEF S!Resume, TaskTypes, Tested
  <2>2. UNCHANGED <<h, detached, on_error, misuse>>
    BY <1>2 DEF S!Resume
  <2>3. TaskTypes'
    BY <1>0, <2>1, <2>2, RunsOne DEF TaskTypes
  <2>f. /\ frame'[c] \in {"suspended", "final", "destroyed"}
        /\ wait'[c] = IF frame'[c] = "suspended" THEN wait[c] + 1 ELSE wait[c]
        /\ frame'[c] # "destroyed"
    BY <1>0, <2>1, RunsOne
  <2>4. Owned(c)' /\ (caller = "test" => Tested(c)')
    <3>1. Owned(c)'
      BY <1>0, <2>1, <2>2, <2>f DEF Owned
    <3>2. ASSUME caller = "test" PROVE Tested(c)'
      BY <1>0, <2>1, <2>2, <2>f, <3>2 DEF Tested
    <3>3. QED
      BY <3>1, <3>2
  <2>5. QED
    BY <1>0, <2>1, <2>2, <2>3, <2>4, RunsOne, OneChanged
<1>3. CASE S!CreateEager(c)
  <2>1. S!Runs(c, 0, FALSE, FALSE) /\ h[c] = "none" /\ caller = "documented" /\ c \in Eager
    BY <1>3 DEF S!CreateEager
  <2>2. UNCHANGED <<detached, on_error, misuse>> /\ h' = [h EXCEPT ![c] = "held"]
    BY <1>3 DEF S!CreateEager
  <2>3. TaskTypes' /\ h'[c] = "held"
    BY <1>0, <2>1, <2>2, RunsOne DEF TaskTypes, Tasks
  <2>f. /\ frame'[c] \in {"suspended", "final"}
        /\ wait'[c] = IF frame'[c] = "suspended" THEN 1 ELSE 0
        /\ detached'[c] = FALSE
    <3>1. /\ frame'[c] \in {"suspended", "final", "destroyed"} /\ frame'[c] # "destroyed"
          /\ wait'[c] = IF frame'[c] = "suspended" THEN 0 + 1 ELSE 0
      BY <1>0, <2>1, RunsOne
    <3>2. detached'[c] = FALSE
      BY <1>0, <2>1, <2>2 DEF Owned, TaskTypes
    <3>3. QED
      BY <3>1, <3>2
  <2>4. Owned(c)'
    BY <1>0, <2>1, <2>3, <2>f DEF Owned
  <2>5. QED
    BY <1>0, <2>1, <2>2, <2>3, <2>4, RunsOne, OneChanged DEF TaskTypes
<1>4. CASE S!CreateDetached(c)
  <2>1. c \in Eager /\ h[c] = "none" /\ UNCHANGED misuse
    BY <1>4 DEF S!CreateDetached
  <2>2. CASE S!Suspends(c, 0) /\ S!Detach(c, TRUE)
    <3>1. TaskTypes'
      BY <1>0, <2>1, <2>2 DEF S!Suspends, S!Detach, TaskTypes, Frames, Tasks
    <3>2. Owned(c)' /\ Tested(c)'
      BY <1>0, <2>1, <2>2 DEF S!Suspends, S!Detach, TaskTypes, Owned, Tested
    <3>3. QED
      BY <2>1, <2>2, <3>1, <3>2, <1>0, OneChanged DEF S!Suspends, S!Detach, TaskTypes
  <2>3. CASE S!Throws(c, 0, FALSE, FALSE) /\ UNCHANGED <<h, detached, on_error>>
    <3>1. S!Runs(c, 0, FALSE, FALSE) /\ terminated'
      BY <2>1, <2>3 DEF S!Runs, S!Throws
    <3>2. TaskTypes'
      BY <1>0, <2>1, <2>3, <3>1, RunsOne DEF TaskTypes
    <3>3. Owned(c)' /\ (caller = "test" => Tested(c)')
      BY <1>0, <2>1, <2>3, <3>1, RunsOne DEF Owned, Tested
    <3>4. QED
      BY <2>1, <2>3, <3>1, <3>2, <3>3, <1>0, RunsOne, OneChanged
  <2>4. QED
    BY <1>4, <2>2, <2>3 DEF S!CreateDetached
<1>5. CASE S!DetachLater(c)
  <2>1. TaskTypes'
    BY <1>0, <1>5 DEF S!DetachLater, S!Detach, TaskTypes, Tasks
  <2>2. Owned(c)' /\ caller # "test"
    BY <1>0, <1>5 DEF S!DetachLater, S!Detach, TaskTypes, Owned
  <2>3. QED
    BY <1>0, <1>5, <2>1, <2>2, OneChanged DEF S!DetachLater, S!Detach, TaskTypes
<1>6. CASE S!Destruct(c)
  <2>1. TaskTypes' /\ UNCHANGED <<wait, detached, misuse, terminated>>
    BY <1>0, <1>6 DEF S!Destruct, TaskTypes, Frames, Tasks, S!promiseVars
  <2>2. Owned(c)' /\ (caller = "test" => Tested(c)')
    BY <1>0, <1>6, <2>1 DEF S!Destruct, S!MayDestruct, TaskTypes, Owned, Tested
  <2>3. QED
    BY <1>0, <1>6, <2>1, <2>2, OneChanged DEF S!Destruct, TaskTypes
<1>7. CASE S!Handler(c)
  <2>1. /\ S!Runs(c, wait[c] - 1, detached[c], on_error[c])
        /\ wait[c] > 0 /\ wait[c] - 1 \in Nat /\ frame[c] = "suspended"
    BY <1>0, <1>7 DEF S!Handler, TaskTypes
  <2>2. UNCHANGED <<h, detached, on_error, misuse>>
    BY <1>7 DEF S!Handler
  <2>3. detached[c] \in BOOLEAN /\ on_error[c] \in BOOLEAN
    BY <1>0 DEF TaskTypes
  <2>4. TaskTypes'
    BY <1>0, <2>1, <2>2, <2>3, RunsOne DEF TaskTypes
  <2>5. Owned(c)' /\ (caller = "test" => Tested(c)')
    BY <1>0, <2>1, <2>2, <2>3, RunsOne DEF Owned, Tested
  <2>6. QED
    BY <1>0, <2>1, <2>2, <2>3, <2>4, <2>5, RunsOne, OneChanged
<1>8. CASE S!HandlerTooLate(c)
  <2>1. caller # "test"
    BY <1>0, <1>8 DEF S!HandlerTooLate, Tested
  <2>2. TaskTypes' /\ Owned(c)'
    BY <1>0, <1>8 DEF S!HandlerTooLate, TaskTypes, Owned, S!promiseVars
  <2>3. QED
    BY <1>0, <1>8, <2>1, <2>2, OneChanged DEF S!HandlerTooLate, TaskTypes, S!promiseVars
<1>9. QED
  BY <1>1, <1>2, <1>3, <1>4, <1>5, <1>6, <1>7, <1>8 DEF S!Step

(* The invariant is inductive. *)
LEMMA TaskStep == S!StdCoroAssumption => (TaskInv /\ [S!Next]_(S!vars) => TaskInv')
<1>1. ASSUME S!StdCoroAssumption, TaskInv, S!Next PROVE TaskInv'
  BY <1>1, StepKeepsTasks DEF S!Next
<1>2. ASSUME TaskInv, UNCHANGED S!vars PROVE TaskInv'
  BY <1>2 DEF S!vars, S!promiseVars, TaskInv, TaskTypes, Owned, Tested
<1>3. QED
  BY <1>1, <1>2

LEMMA TaskInvariance == S!StdCoroAssumption => (S!Spec => []TaskInv)
<1>1. SUFFICES ASSUME S!StdCoroAssumption PROVE S!Spec => []TaskInv
  OBVIOUS
<1>2. TaskInv /\ [S!Next]_(S!vars) => TaskInv'
  BY <1>1, TaskStep
<1>3. QED
  BY <1>2, TaskInit, PTL DEF S!Spec

------------------------------------------------------------------------------
(* As the test uses the tasks no coroutine is resumed after its frame is gone,   *)
(* whatever throws and in whatever order operations complete.                     *)
THEOREM NoDeadResumeCorrect == S!StdCoroAssumption => (S!Spec => []NoDeadResume)
<1>1. SUFFICES ASSUME S!StdCoroAssumption PROVE S!Spec => []NoDeadResume
  OBVIOUS
<1>2. TaskInv => NoDeadResume
  BY DEF TaskInv, NoDeadResume
<1>3. QED
  BY <1>1, <1>2, TaskInvariance, PTL

(* As the test uses the tasks, a task object or a handler leads to every frame.  *)
THEOREM ReachableCorrect == S!StdCoroAssumption => (S!Spec => []Reachable)
<1>1. SUFFICES ASSUME S!StdCoroAssumption PROVE S!Spec => []Reachable
  OBVIOUS
<1>2. TaskInv => Reachable
  BY DEF TaskInv, Owned, Tested, Reachable, Coroutine, S!Coroutine
<1>3. QED
  BY <1>1, <1>2, TaskInvariance, PTL

(* Whatever the caller does, a coroutine that has ended of itself is over: no task *)
(* object would destroy its frame again, and no handler resumes an eager one.      *)
THEOREM EndedIsOverCorrect == S!StdCoroAssumption => (S!Spec => []EndedIsOver)
<1>1. SUFFICES ASSUME S!StdCoroAssumption PROVE S!Spec => []EndedIsOver
  OBVIOUS
<1>2. TaskInv => EndedIsOver
  BY DEF TaskInv, Owned, EndedIsOver, Coroutine, S!Coroutine
<1>3. QED
  BY <1>1, <1>2, TaskInvariance, PTL

(* Whatever the caller does, the one detached frame that is left for good is that  *)
(* of a coroutine that had ended when it was detached.                             *)
THEOREM OnlyLateDetachLeaksCorrect ==
  S!StdCoroAssumption => (S!Spec => OnlyLateDetachLeaks)
<1>1. SUFFICES ASSUME S!StdCoroAssumption PROVE S!Spec => OnlyLateDetachLeaks
  OBVIOUS
<1>2. ASSUME TaskInv, [S!Next]_(S!vars), NEW d \in Eager, detached'[d], frame'[d] = "final"
      PROVE  frame[d] = "final"
  <2> SUFFICES ASSUME NEW c \in S!Coroutine, S!Step(c), frame'[d] # frame[d] PROVE FALSE
    BY <1>2 DEF S!Next, S!vars
  <2>1. TaskTypes /\ Owned(c) /\ Owned(d) /\ d \in S!Coroutine /\ d \notin Lazy
    BY <1>1, <1>2 DEF TaskInv, S!Coroutine, S!StdCoroAssumption
  <2>2. ~S!CreateLazy(c) /\ ~S!DetachLater(c) /\ ~S!Destruct(c) /\ ~S!HandlerTooLate(c)
    BY <1>2, <2>1
    DEF S!CreateLazy, S!DetachLater, S!Destruct, S!HandlerTooLate, TaskTypes
  <2>3. ASSUME NEW left \in Nat, NEW gone \in BOOLEAN, NEW caught \in BOOLEAN,
               S!Runs(c, left, gone, caught)
        PROVE  c = d /\ ~gone
    BY <1>2, <2>1, <2>3, RunsOne
  <2>4. ~S!Resume(c)
    <3> SUFFICES ASSUME S!Resume(c) PROVE FALSE
      OBVIOUS
    <3>1. c \in Lazy /\ wait[c] \in Nat /\ S!Runs(c, wait[c], FALSE, FALSE)
      BY <2>1 DEF S!Resume, TaskTypes
    <3>2. QED
      BY <2>1, <2>3, <3>1
  <2>5. ~S!CreateEager(c)
    <3> SUFFICES ASSUME S!CreateEager(c) PROVE FALSE
      OBVIOUS
    <3>1. h[c] = "none" /\ S!Runs(c, 0, FALSE, FALSE) /\ detached' = detached
      BY DEF S!CreateEager
    <3>2. QED
      BY <1>2, <2>1, <2>3, <3>1 DEF Owned
  <2>6. ~S!CreateDetached(c)
    <3> SUFFICES ASSUME S!CreateDetached(c) PROVE FALSE
      OBVIOUS
    <3>1. h[c] = "none" /\ ~S!Suspends(c, 0)
      BY <1>2, <2>1 DEF S!CreateDetached, S!Suspends, TaskTypes
    <3>2. S!Runs(c, 0, FALSE, FALSE) /\ detached' = detached
      BY <3>1 DEF S!CreateDetached, S!Runs
    <3>3. QED
      BY <1>2, <2>1, <2>3, <3>1, <3>2 DEF Owned
  <2>7. ~S!Handler(c)
    <3> SUFFICES ASSUME S!Handler(c) PROVE FALSE
      OBVIOUS
    <3>1. /\ S!Runs(c, wait[c] - 1, detached[c], on_error[c]) /\ detached' = detached
          /\ wait[c] - 1 \in Nat /\ detached[c] \in BOOLEAN /\ on_error[c] \in BOOLEAN
      BY <2>1 DEF S!Handler, TaskTypes
    <3>2. QED
      BY <1>2, <2>3, <3>1
  <2>8. QED
    BY <2>2, <2>4, <2>5, <2>6, <2>7 DEF S!Step
<1>3. TaskInv /\ [S!Next]_(S!vars) =>
        [\A c \in Eager :
           detached'[c] /\ frame'[c] = "final" => frame[c] = "final"]_<<frame, detached>>
  BY <1>2
<1>4. QED
  BY <1>1, <1>3, TaskInvariance, PTL DEF S!Spec, OnlyLateDetachLeaks
==============================================================================
