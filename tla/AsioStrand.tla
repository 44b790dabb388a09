----------------------------- MODULE AsioStrand ------------------------------
(***************************************************************************)
(* asio_strand.ixx: coroutines that go to and fro between the threads of an    *)
(* io_context and a task thread.  Each round of run() posts a handler and       *)
(* suspends (line 65); an io thread resumes it; it queues a closure for the      *)
(* task thread under g_mutex (line 68) and suspends again (line 77), with a       *)
(* handler that does nothing; the task thread, which holds g_mutex meanwhile,     *)
(* resumes it.                                                                    *)
(*                                                                         *)
(* The closure is queued before the coroutine has suspended.  What should keep      *)
(* the task thread from resuming it too early is that the closure sleeps for 100 ms *)
(* first, which need not be long enough.  If it is not, the coroutine is resumed    *)
(* while it runs: it is "broken", and what the program does from then on is         *)
(* undefined and not modelled.                                                      *)
(*                                                                         *)
(* run_all has been called in the initial state: the coroutines are at line 65,    *)
(* and the task thread, which may have started long ago, has found nothing.         *)
(* The strands of main are not used.                                               *)
(***************************************************************************)
EXTENDS Naturals, Sequences, FiniteSets

CONSTANTS
  N,              (* coroutines: 10 in the code                        *)
  Rounds,         (* of each: 3 in the code                            *)
  IoThreads       (* hardware_concurrency() threads that call run()    *)

ASSUME AsioStrandAssumption ==
  /\ N \in Nat \ {0} /\ Rounds \in Nat \ {0}
  /\ IsFiniteSet(IoThreads) /\ IoThreads # {}

Coro == 1..N

VARIABLES
  at,            \* "post" (suspended at 65), "push" (before 67), "pushed" (before 77),
                 \* "wait" (suspended at 77), "over", or "broken" (resumed while running)
  i,             \* its loop counter
  queue,         \* the handlers of the io_context, oldest first
  stopped,       \* io_context::stopped()
  thread,        \* the coroutine an io thread runs, 0 for none
  done,          \* the io threads whose run() has returned
  g_task_queue,  \* coroutines whose closures wait for the task thread
  task,          \* the coroutine whose closure the task thread runs, 0 for none
  g_mutex        \* the task thread holds g_mutex; others hold it for one step only

vars == <<at, i, queue, stopped, thread, done, g_task_queue, task, g_mutex>>

Cb(r)   == [tag |-> "cb", id |-> r]      (* cb of async_post: resumes r *)
Noop(r) == [tag |-> "noop", id |-> r]    (* the handler of line 77      *)

Init ==
  /\ at = [r \in Coro |-> "post"]
  /\ i = [r \in Coro |-> 0]
  /\ queue = [r \in Coro |-> Cb(r)]
  /\ stopped = FALSE
  /\ thread = [t \in IoThreads |-> 0] /\ done = {}
  /\ g_task_queue = <<>> /\ task = 0
  /\ g_mutex = FALSE

------------------------------------------------------------------------------
(* An io thread in run() takes the handler h.  On Windows it may do so after the  *)
(* context has stopped, before it meets the stop packet; elsewhere it will not.    *)
Takes(t, h) ==
  /\ thread[t] = 0 /\ t \notin done
  /\ queue # <<>> /\ Head(queue) = h
  /\ queue' = Tail(queue)

(* h resumes the coroutine, which goes on in this thread. *)
RunsCb(t, r) ==
  /\ Takes(t, Cb(r))
  /\ thread' = [thread EXCEPT ![t] = r]
  /\ at' = [at EXCEPT ![r] = IF @ = "post" THEN "push" ELSE "broken"]
  /\ UNCHANGED <<i, stopped, g_task_queue, task, g_mutex, done>>

(* Mutant: a handler that is being run does not count as work. *)
NoWorkQueued(q, th) == q = <<>>

(* No work is left: the queue is empty and no thread is inside a handler. *)
NoWork(q, th) == q = <<>> /\ \A t \in IoThreads : th[t] = 0

RunsNoop(t, r) ==
  /\ Takes(t, Noop(r))
  /\ stopped' = (stopped \/ NoWork(queue', thread))
  /\ UNCHANGED <<at, i, thread, g_task_queue, task, g_mutex, done>>

(* Lines 67-75: needs g_mutex, and gives it back at once. *)
Pushes(t, r) ==
  /\ thread[t] = r /\ at[r] = "push"
  /\ ~g_mutex
  /\ g_task_queue' = Append(g_task_queue, r)
  /\ at' = [at EXCEPT ![r] = "pushed"]
  /\ UNCHANGED <<i, queue, stopped, thread, task, g_mutex, done>>

(* Mutant: line 77 is async_post, whose handler resumes the coroutine. *)
SuspendsResuming(t, r) ==
  /\ thread[t] = r /\ at[r] = "pushed"
  /\ at' = [at EXCEPT ![r] = "wait"]
  /\ queue' = Append(queue, Cb(r))
  /\ thread' = [thread EXCEPT ![t] = 0]
  /\ UNCHANGED <<i, stopped, g_task_queue, task, g_mutex, done>>

(* Line 77: the coroutine suspends, and the thread is back in run(). *)
Suspends(t, r) ==
  /\ thread[t] = r /\ at[r] = "pushed"
  /\ at' = [at EXCEPT ![r] = "wait"]
  /\ queue' = Append(queue, Noop(r))
  /\ thread' = [thread EXCEPT ![t] = 0]
  /\ UNCHANGED <<i, stopped, g_task_queue, task, g_mutex, done>>

(* The context has stopped: run() returns. *)
Leaves(t) ==
  /\ thread[t] = 0 /\ t \notin done
  /\ stopped
  /\ done' = done \cup {t}
  /\ UNCHANGED <<at, i, queue, stopped, thread, g_task_queue, task, g_mutex>>

------------------------------------------------------------------------------
(* The task thread locks g_mutex and takes a closure; with none it unlocks it and  *)
(* goes round its loop, which changes nothing.                                     *)
TaskPops ==
  /\ task = 0 /\ ~g_mutex
  /\ g_task_queue # <<>>
  /\ task' = Head(g_task_queue)
  /\ g_task_queue' = Tail(g_task_queue)
  /\ g_mutex' = TRUE
  /\ UNCHANGED <<at, i, queue, stopped, thread, done>>

(* It has slept, and resumes the coroutine, which goes on in this thread to line 65  *)
(* of its next round, where it has suspended when the handler is posted, or to its   *)
(* end.                                                                              *)
TaskResumes(r) ==
  /\ task = r
  /\ i' = [i EXCEPT ![r] = @ + 1]
  /\ at' = [at EXCEPT ![r] = IF @ # "wait" THEN "broken"
                              ELSE IF i[r] + 1 < Rounds THEN "post" ELSE "over"]
  /\ queue' = IF at'[r] = "post" THEN Append(queue, Cb(r)) ELSE queue
  /\ task' = 0
  /\ UNCHANGED <<stopped, thread, g_task_queue, g_mutex, done>>

(* Mutant: the lock_guard outlives the loop. *)
TaskKeepsMutex == g_mutex /\ task = 0 /\ UNCHANGED vars

TaskUnlocks ==
  /\ g_mutex /\ task = 0
  /\ g_mutex' = FALSE
  /\ UNCHANGED <<at, i, queue, stopped, thread, done, g_task_queue, task>>

------------------------------------------------------------------------------
(* No coroutine has been resumed while it ran. *)
Defined == \A r \in Coro : at[r] # "broken"

IoThread(t) ==
  /\ Defined
  /\ \/ Leaves(t)
     \/ \E r \in Coro : RunsCb(t, r) \/ RunsNoop(t, r) \/ Pushes(t, r) \/ Suspends(t, r)

TaskThread ==
  /\ Defined
  /\ TaskPops \/ TaskUnlocks \/ \E r \in Coro : TaskResumes(r)

Next == TaskThread \/ \E t \in IoThreads : IoThread(t)

Spec == Init /\ [][Next]_vars

(* Every thread runs.  The task thread sleeps for 100 ms without g_mutex between   *)
(* two closures, so that whoever waits for it gets it in the end.                   *)
FairSpec ==
  /\ Spec
  /\ \A t \in IoThreads : SF_vars(IoThread(t))
  /\ SF_vars(TaskThread)

------------------------------------------------------------------------------
Runners(r) == {t \in IoThreads : thread[t] = r}
Queued(q, x) == Cardinality({k \in DOMAIN q : q[k] = x})

(* One resumption is under way for a suspended coroutine, by the thread whose turn   *)
(* it is; one thread runs a running one; nothing refers to a frame that is gone.     *)
(* So it is for as long as no coroutine has been resumed while it ran.               *)
OneResumption ==
  Defined => \A r \in Coro :
    /\ Queued(queue, Cb(r)) = IF at[r] = "post" THEN 1 ELSE 0
    /\ Cardinality(Runners(r)) = IF at[r] \in {"push", "pushed"} THEN 1 ELSE 0
    /\ Queued(g_task_queue, r) + (IF task = r THEN 1 ELSE 0)
         = IF at[r] \in {"pushed", "wait"} THEN 1 ELSE 0

(* However long threads take, one interleaving alone resumes a coroutine that is not *)
(* suspended: the closure's sleep (line 71) is over before the thread that queued it  *)
(* has got from line 75 to the suspension of line 77.  No handler of an io thread     *)
(* ever does, and no closure meets a coroutine that is elsewhere.                      *)
OnlyHasteBreaks ==
  [][\A r \in Coro : at'[r] = "broken" /\ at[r] # "broken" => task = r /\ at[r] = "pushed"]_vars

(* The context stops only while every coroutine waits for the task thread or is       *)
(* over: that is when the io threads leave run(), for good (lines 147 and 77).         *)
StopsWhileWaiting == [][stopped' /\ ~stopped => \A r \in Coro : at[r] \in {"wait", "over"}]_vars

(* Every coroutine gets through its first round, on every schedule on which no closure *)
(* comes too early.  The later ones are run only as long as some handler keeps the io   *)
(* threads in run().                                                                    *)
FirstRound == <>(~Defined \/ \A r \in Coro : i[r] > 0)
==============================================================================
