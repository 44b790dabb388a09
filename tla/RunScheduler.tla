---------------------------- MODULE RunScheduler -----------------------------
(***************************************************************************)
(* The shared scheduler run_scheduler (tests/src/io_scheduler.ixx) with    *)
(* the stackful coroutines it drives in test_coroutine2.cpp,               *)
(* test_context_continuation.cpp and test_context_fiber.cpp, which differ  *)
(* only in the coroutine library.                                           *)
(*                                                                         *)
(* Coroutine 0 accepts: it waits on a timer, then creates the next session *)
(* coroutine, which runs to its own first wait at once.  A session waits    *)
(* Steps times, adding a piece to its result after each wait.  A wait's     *)
(* completion handler pushes the coroutine's id on awake_cont, and so does  *)
(* the coroutine's scope guard when it ends.  After every io_context::run() *)
(* the scheduler takes one id and resumes that coroutine, or erases it if   *)
(* it has ended.                                                            *)
(***************************************************************************)
EXTENDS IoContext

CONSTANTS
  N,           (* number of sessions: 3 in the code                     *)
  Steps,       (* waits of a session: 1 + 3 + 1 in the code             *)
  MaxErrors    (* bound: how many waits may complete with an error_code *)

ASSUME SchedulerAssumption ==
  /\ N \in Nat \ {0}
  /\ Steps \in Nat \ {0}
  /\ MaxErrors \in Nat

Session == 1..N
Coro    == 0..N

VARIABLES
  main,       \* where run_scheduler is: "loop", "run", "wake" or "returned"
  live,       \* the keys of coro_cont
  awake,      \* awake_cont
  coro,       \* "new", "suspended" or "done", per coroutine
  progress,   \* pieces of result[id]; for the acceptor, sessions created
  ec,         \* the error_code of the coroutine's last wait, as a Boolean
  timers,     \* the keys of timer_cont
  errors      \* how many waits have failed so far

vars == <<kind, queue, pending, stopped, main, live, awake, coro, progress, ec,
          timers, errors>>

(* The completion handler of a wait, and the handler posted by a session's end. *)
WaitDone(i)   == [tag |-> "wait", id |-> i]
EraseTimer(i) == [tag |-> "erase", id |-> i]

Init ==
  /\ IoInit({0})
  /\ main = "loop"
  /\ live = {0}
  /\ awake = <<>>
  /\ coro = [i \in Coro |-> IF i = 0 THEN "suspended" ELSE "new"]
  /\ progress = [i \in Coro |-> 0]
  /\ ec = [i \in Coro |-> FALSE]
  /\ timers = {}
  /\ errors = 0

------------------------------------------------------------------------------
(* The environment: a timer expires, in any order among those running.  The *)
(* completion carries an error_code.                                        *)
CompleteWait(i, e) ==
  /\ i \in pending
  /\ e => errors < MaxErrors
  /\ pending' = pending \ {i}
  /\ queue' = Append(queue, WaitDone(i))
  /\ ec' = [ec EXCEPT ![i] = e]
  /\ errors' = IF e THEN errors + 1 ELSE errors
  /\ UNCHANGED <<kind, stopped, main, live, awake, coro, progress, timers>>

------------------------------------------------------------------------------
(* The scheduler's loop around io_context::run(). *)
coroVars == <<coro, progress, ec, errors>>

(* Mutant: the context is restarted before each run(). *)
CallRunRestarting ==
  /\ main = "loop"
  /\ live # {}
  /\ stopped' = FALSE
  /\ queue' = SelectSeq(queue, LAMBDA h : h # StopPacket)
  /\ main' = IF Idle(queue, pending) THEN "wake" ELSE "run"
  /\ UNCHANGED <<kind, pending, live, awake, timers, coroVars>>

CallRun ==
  /\ main = "loop"
  /\ live # {}
  /\ \/ EnterRun /\ main' = "run"
     \/ RefuseRun /\ main' = "wake"
  /\ UNCHANGED <<kind, pending, live, awake, timers, coroVars>>

(* Mutant: the handler returns early on an error instead of waking. *)
RunWaitDoneUnlessFailed(i) ==
  /\ main = "run"
  /\ CanDispatch
  /\ Head(queue) = WaitDone(i)
  /\ awake' = IF ec[i] THEN awake ELSE Append(awake, i)
  /\ HandlerDone(Tail(queue))
  /\ UNCHANGED <<kind, pending, main, live, timers, coroVars>>

(* The handler of a wait: awake_cont.push(id). *)
RunWaitDone(i) ==
  /\ main = "run"
  /\ CanDispatch
  /\ Head(queue) = WaitDone(i)
  /\ awake' = Append(awake, i)
  /\ HandlerDone(Tail(queue))
  /\ UNCHANGED <<kind, pending, main, live, timers, coroVars>>

(* The handler posted at a session's end: timer_cont.erase(id). *)
RunEraseTimer(i) ==
  /\ main = "run"
  /\ CanDispatch
  /\ Head(queue) = EraseTimer(i)
  /\ timers' = timers \ {i}
  /\ HandlerDone(Tail(queue))
  /\ UNCHANGED <<kind, pending, main, live, awake, coroVars>>

RunReturns ==
  /\ main = "run"
  /\ LeaveRun
  /\ main' = "wake"
  /\ UNCHANGED <<kind, pending, live, awake, timers, coroVars>>

NothingAwake ==
  /\ main = "wake"
  /\ awake = <<>>
  /\ main' = "loop"
  /\ UNCHANGED <<ioVars, live, awake, timers, coroVars>>

(* The id taken from awake_cont names an ended coroutine, or none: drop it. *)
Discard ==
  /\ main = "wake"
  /\ awake # <<>>
  /\ Head(awake) \in live => coro[Head(awake)] = "done"
  /\ live' = live \ {Head(awake)}
  /\ awake' = Tail(awake)
  /\ main' = "loop"
  /\ UNCHANGED <<ioVars, timers, coroVars>>

Return ==
  /\ main = "loop"
  /\ live = {}
  /\ main' = "returned"
  /\ UNCHANGED <<ioVars, live, awake, timers, coroVars>>

------------------------------------------------------------------------------
(* Resuming a coroutine: it runs from one suspension point to the next.     *)

(* The id taken from awake_cont is i, and i can be resumed. *)
Resumes(i) ==
  /\ main = "wake"
  /\ awake # <<>>
  /\ Head(awake) = i
  /\ i \in live
  /\ coro[i] # "done"
  /\ main' = "loop"
  /\ UNCHANGED <<kind, stopped, ec, errors>>

(* Mutant: no scope guard, so an ended coroutine is never looked at again. *)
EndsSilently(i) ==
  /\ coro' = [coro EXCEPT ![i] = "done"]
  /\ awake' = Tail(awake)

(* The coroutine's end: its scope guard pushes the id once more. *)
Ends(i) ==
  /\ coro' = [coro EXCEPT ![i] = "done"]
  /\ awake' = Append(Tail(awake), i)

(* Mutant: the timer's erasure is posted one wait too early. *)
SessionWaitsAndErases(s) ==
  /\ Resumes(s)
  /\ ~ec[s]
  /\ progress[s] + 1 < Steps
  /\ progress' = [progress EXCEPT ![s] = @ + 1]
  /\ pending' = pending \cup {s}
  /\ awake' = Tail(awake)
  /\ queue' = Append(queue, EraseTimer(s))
  /\ UNCHANGED <<coro, live, timers>>

SessionWaits(s) ==
  /\ Resumes(s)
  /\ ~ec[s]
  /\ progress[s] + 1 < Steps
  /\ progress' = [progress EXCEPT ![s] = @ + 1]
  /\ pending' = pending \cup {s}
  /\ awake' = Tail(awake)
  /\ UNCHANGED <<queue, coro, live, timers>>

SessionEnds(s) ==
  /\ Resumes(s)
  /\ ~ec[s]
  /\ progress[s] + 1 = Steps
  /\ progress' = [progress EXCEPT ![s] = @ + 1]
  /\ queue' = Append(queue, EraseTimer(s))
  /\ Ends(s)
  /\ UNCHANGED <<pending, live, timers>>

SessionFails(s) ==
  /\ Resumes(s)
  /\ ec[s]
  /\ Ends(s)
  /\ UNCHANGED <<queue, pending, progress, live, timers>>

(* The acceptor creates session s, which runs to its first wait. *)
Creates(s) ==
  /\ ~ec[0]
  /\ s = progress[0] + 1
  /\ progress' = [progress EXCEPT ![0] = s]
  /\ live' = live \cup {s}
  /\ timers' = timers \cup {s}
  /\ UNCHANGED queue

AcceptWaits(s) ==
  /\ Resumes(0)
  /\ Creates(s)
  /\ s < N
  /\ coro' = [coro EXCEPT ![s] = "suspended"]
  /\ pending' = pending \cup {s, 0}
  /\ awake' = Tail(awake)

(* Mutant: the accept loop stops one session short. *)
AcceptEndsEarly(s) ==
  /\ Resumes(0)
  /\ Creates(s)
  /\ s = N - 1
  /\ coro' = [coro EXCEPT ![s] = "suspended", ![0] = "done"]
  /\ pending' = pending \cup {s}
  /\ awake' = Append(Tail(awake), 0)

AcceptEnds(s) ==
  /\ Resumes(0)
  /\ Creates(s)
  /\ s = N
  /\ coro' = [coro EXCEPT ![s] = "suspended", ![0] = "done"]
  /\ pending' = pending \cup {s}
  /\ awake' = Append(Tail(awake), 0)

AcceptFails ==
  /\ Resumes(0)
  /\ ec[0]
  /\ Ends(0)
  /\ UNCHANGED <<queue, pending, progress, live, timers>>

------------------------------------------------------------------------------
SessionStep(s) ==
  \/ SessionWaits(s) \/ SessionEnds(s) \/ SessionFails(s)
  \/ AcceptWaits(s) \/ AcceptEnds(s)
  \/ RunEraseTimer(s)

Scheduler ==
  \/ CallRun \/ RunReturns \/ NothingAwake \/ Discard \/ Return \/ AcceptFails
  \/ \E i \in Coro : RunWaitDone(i)
  \/ \E s \in Session : SessionStep(s)

Timers == \E i \in Coro, e \in BOOLEAN : CompleteWait(i, e)

(* The result has been returned: nothing is left to do. *)
Done == main = "returned" /\ UNCHANGED vars

Next == Scheduler \/ Timers \/ Done

Spec == Init /\ [][Next]_vars

(* The scheduler's thread keeps running, and a timer that was started expires. *)
Fairness ==
  /\ WF_vars(Scheduler)
  /\ \A i \in Coro : WF_vars(\E e \in BOOLEAN : CompleteWait(i, e))

FairSpec == Spec /\ Fairness

------------------------------------------------------------------------------
Packet == [tag : {"wait", "erase", "stop"}, id : Coro]

(* The types of the variables. *)
TypeOK ==
  /\ kind \in Kinds
  /\ queue \in Seq(Packet)
  /\ pending \in SUBSET Coro
  /\ stopped \in BOOLEAN
  /\ main \in {"loop", "run", "wake", "returned"}
  /\ live \in SUBSET Coro
  /\ awake \in Seq(Coro)
  /\ coro \in [Coro -> {"new", "suspended", "done"}]
  /\ progress \in [Coro -> Nat]
  /\ ec \in [Coro -> BOOLEAN]
  /\ timers \in SUBSET Session
  /\ errors \in Nat

(* Where the wake-up of coroutine i is: its wait is still running, or the    *)
(* wait's handler is queued, or its id is in awake_cont.                     *)
NoToken(i) ==
  i \notin pending /\ Never(queue, WaitDone(i)) /\ Never(awake, i)

OneToken(i) ==
  \/ i \in pending    /\ Never(queue, WaitDone(i)) /\ Never(awake, i)
  \/ i \notin pending /\ Once(queue, WaitDone(i))  /\ Never(awake, i)
  \/ i \notin pending /\ Never(queue, WaitDone(i)) /\ Once(awake, i)

(* No wake-up is lost and none is doubled: a coroutine in coro_cont has      *)
(* exactly one, one that is not there has none, and what is left to an ended *)
(* coroutine is the id its scope guard pushed.  A lost one would hang        *)
(* run_scheduler; a doubled one would resume a coroutine in the middle of a  *)
(* wait, or write to the stack of one that has ended (io_scheduler.ixx,      *)
(* awake() in test_coroutine2.cpp).                                          *)
WakeTokens ==
  \A i \in Coro :
    /\ IF i \in live THEN OneToken(i) ELSE NoToken(i)
    /\ i \in live /\ coro[i] = "done" => Once(awake, i)

(* A session's timer is destroyed only when no wait of it is outstanding:    *)
(* destroying it earlier would complete the wait with operation_aborted, and *)
(* that handler would write to the finished coroutine's stack.               *)
TimerLifetime ==
  \A s \in Session :
    /\ s \in pending \/ ~Never(queue, WaitDone(s)) => s \in timers
    /\ ~Never(queue, EraseTimer(s)) => coro[s] = "done"

(* What WakeTokens, TimerLifetime and Served rest on: a coroutine's state    *)
(* agrees with coro_cont and with what it has done.  The acceptor has created *)
(* exactly the sessions up to progress[0]; a suspended session still has      *)
(* steps to take and a timer to take them with; an ended coroutine has        *)
(* finished, or its last wait failed.                                         *)
Lifecycle ==
  /\ coro[0] # "new" /\ progress[0] <= N
  /\ coro[0] = "suspended" => progress[0] < N
  /\ coro[0] = "done" => progress[0] = N \/ ec[0]
  /\ \A s \in Session :
       /\ coro[s] = "new" <=> s > progress[0]
       /\ coro[s] = "new" => progress[s] = 0
       /\ progress[s] <= Steps
       /\ coro[s] = "suspended" => progress[s] < Steps /\ s \in timers
       /\ coro[s] = "done" => progress[s] = Steps \/ ec[s]
  /\ \A i \in Coro :
       /\ coro[i] = "suspended" => i \in live
       /\ coro[i] = "new" => i \notin live
  /\ main = "returned" => live = {}

(* When the scheduler returns, each session has its whole result, unless its *)
(* wait failed or accepting failed before it: test.cpp's REQUIREs.           *)
Served ==
  main = "returned" =>
    \A s \in Session : progress[s] = Steps \/ ec[s] \/ (coro[s] = "new" /\ ec[0])

(* The inductive invariant of the proofs in RunSchedulerProofs. *)
IInv == TypeOK /\ Lifecycle /\ WakeTokens /\ TimerLifetime

(* On "iocp", run() does not block while a coroutine is ready: the wake-up  *)
(* is delivered without waiting for another coroutine's timer.               *)
NoHeadOfLine ==
  kind = "iocp" /\ main = "run" /\ awake # <<>> => queue # <<>>

(* The program does what Workflow asks. *)
W == INSTANCE Workflow WITH
       First <- 0,
       state <- [s \in Session |->
                   IF coro[s] = "new" THEN "new"
                   ELSE IF coro[s] = "done" /\ progress[s] < Steps THEN "failed"
                   ELSE "active"],
       progress <- [s \in Session |-> progress[s]],
       closed <- coro[0] = "done" /\ progress[0] < N,
       returned <- main = "returned"

RefinesWorkflow == W!Spec

(* The scheduler returns ("直到所有協程完成", io_scheduler.ixx). *)
Terminates == <>(main = "returned")

(* It does on every io_context on which a second run() still runs handlers,  *)
(* in whatever order the timers expire and whichever wait fails.             *)
TerminatesWhereRunWorks == kind # "reactor" => Terminates
==============================================================================
