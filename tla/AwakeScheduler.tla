--------------------------- MODULE AwakeScheduler ----------------------------
(***************************************************************************)
(* The scheduler inside handle() of asio/src/asio_coroutine2.ixx,          *)
(* asio_continuatioin.ixx and asio_context_fiber.ixx, which are one         *)
(* algorithm over three coroutine libraries.                                *)
(*                                                                         *)
(* All coroutines are created first, and each runs to its first yield.     *)
(* A coroutine appends one character to its output, posts a handler that   *)
(* will push its id on awake_cont, and yields; after the last character it  *)
(* ends, and its scope guard pushes its id once more.  After every          *)
(* io_context::run() the scheduler empties awake_cont, resuming the         *)
(* coroutines in order and erasing those that have ended.                   *)
(*                                                                         *)
(* No operation is ever pending here: all work is posted handlers.  The     *)
(* code's ids 0.._count-1 are 1..N.                                         *)
(***************************************************************************)
EXTENDS IoContext

CONSTANTS
  N,           (* _count: 3 in the tests                             *)
  Steps        (* characters of the buffer "abc"                     *)

ASSUME AwakeAssumption == N \in Nat \ {0} /\ Steps \in Nat \ {0}

Coro == 1..N

VARIABLES
  main,       \* where handle() is: "create", "loop", "run", "wake", "returned"
  live,       \* the keys of coro_cont
  awake,      \* awake_cont
  coro,       \* "new", "suspended" or "done", per coroutine
  progress    \* characters of _output[id]

vars == <<kind, queue, pending, stopped, main, live, awake, coro, progress>>

(* The posted handler cb: awake_cont.push(id). *)
Wake(i) == [tag |-> "wake", id |-> i]

Init ==
  /\ IoInit({})
  /\ main = "create"
  /\ live = {}
  /\ awake = <<>>
  /\ coro = [i \in Coro |-> "new"]
  /\ progress = [i \in Coro |-> 0]

(* One round of the coroutine's loop, up to its yield. *)
AppendAndPost(i) ==
  /\ progress' = [progress EXCEPT ![i] = @ + 1]
  /\ queue' = Append(queue, Wake(i))

------------------------------------------------------------------------------
(* Creating the coroutines, in the order of their ids. *)
Create(i) ==
  /\ main = "create"
  /\ coro[i] = "new"
  /\ \A j \in 1..(i - 1) : coro[j] # "new"
  /\ AppendAndPost(i)
  /\ coro' = [coro EXCEPT ![i] = "suspended"]
  /\ live' = live \cup {i}
  /\ main' = IF i = N THEN "loop" ELSE "create"
  /\ UNCHANGED <<kind, pending, stopped, awake>>

(* The loop around io_context::run(). *)
CallRun ==
  /\ main = "loop"
  /\ live # {}
  /\ \/ EnterRun /\ main' = "run"
     \/ RefuseRun /\ main' = "wake"
  /\ UNCHANGED <<kind, pending, live, awake, coro, progress>>

(* Mutant: awake_cont is a stack. *)
RunWakeFirst(i) ==
  /\ main = "run"
  /\ CanDispatch
  /\ Head(queue) = Wake(i)
  /\ awake' = <<i>> \o awake
  /\ HandlerDone(Tail(queue))
  /\ UNCHANGED <<kind, pending, main, live, coro, progress>>

RunWake(i) ==
  /\ main = "run"
  /\ CanDispatch
  /\ Head(queue) = Wake(i)
  /\ awake' = Append(awake, i)
  /\ HandlerDone(Tail(queue))
  /\ UNCHANGED <<kind, pending, main, live, coro, progress>>

RunReturns ==
  /\ main = "run"
  /\ LeaveRun
  /\ main' = "wake"
  /\ UNCHANGED <<kind, pending, live, awake, coro, progress>>

(* The inner loop over awake_cont. *)
Resumes(i) ==
  /\ main = "wake"
  /\ awake # <<>>
  /\ Head(awake) = i
  /\ i \in live
  /\ coro[i] # "done"
  /\ UNCHANGED <<kind, pending, stopped, main, live>>

Yields(i) ==
  /\ Resumes(i)
  /\ progress[i] < Steps
  /\ AppendAndPost(i)
  /\ awake' = Tail(awake)
  /\ UNCHANGED coro

(* Mutant: no scope guard. *)
EndsSilently(i) ==
  /\ Resumes(i)
  /\ progress[i] = Steps
  /\ coro' = [coro EXCEPT ![i] = "done"]
  /\ awake' = Tail(awake)
  /\ UNCHANGED <<queue, progress>>

Ends(i) ==
  /\ Resumes(i)
  /\ progress[i] = Steps
  /\ coro' = [coro EXCEPT ![i] = "done"]
  /\ awake' = Append(Tail(awake), i)
  /\ UNCHANGED <<queue, progress>>

(* Mutant: whatever coroutine the id names is erased, ended or not. *)
DiscardAny ==
  /\ main = "wake"
  /\ awake # <<>>
  /\ live' = live \ {Head(awake)}
  /\ awake' = Tail(awake)
  /\ UNCHANGED <<ioVars, main, coro, progress>>

(* Mutant: an ended coroutine is passed over but stays in coro_cont. *)
DiscardKeeping ==
  /\ main = "wake"
  /\ awake # <<>>
  /\ Head(awake) \in live => coro[Head(awake)] = "done"
  /\ awake' = Tail(awake)
  /\ UNCHANGED <<ioVars, main, live, coro, progress>>

Discard ==
  /\ main = "wake"
  /\ awake # <<>>
  /\ Head(awake) \in live => coro[Head(awake)] = "done"
  /\ live' = live \ {Head(awake)}
  /\ awake' = Tail(awake)
  /\ UNCHANGED <<ioVars, main, coro, progress>>

AwakeEmpty ==
  /\ main = "wake"
  /\ awake = <<>>
  /\ main' = "loop"
  /\ UNCHANGED <<ioVars, live, awake, coro, progress>>

Return ==
  /\ main = "loop"
  /\ live = {}
  /\ main' = "returned"
  /\ UNCHANGED <<ioVars, live, awake, coro, progress>>

------------------------------------------------------------------------------
Handle ==
  \/ \E i \in Coro : Create(i) \/ RunWake(i) \/ Yields(i) \/ Ends(i)
  \/ CallRun \/ RunReturns \/ Discard \/ AwakeEmpty \/ Return

Done == main = "returned" /\ UNCHANGED vars

Next == Handle \/ Done

Spec == Init /\ [][Next]_vars

(* handle() is the only thread and never blocks: run() finds its work queued. *)
FairSpec == Spec /\ WF_vars(Handle)

------------------------------------------------------------------------------
Packet == [tag : {"wake", "stop"}, id : 0..N]

(* The types of the variables. *)
TypeOK ==
  /\ kind \in Kinds
  /\ queue \in Seq(Packet)
  /\ pending = {}
  /\ stopped \in BOOLEAN
  /\ main \in {"create", "loop", "run", "wake", "returned"}
  /\ live \in SUBSET Coro
  /\ awake \in Seq(Coro)
  /\ coro \in [Coro -> {"new", "suspended", "done"}]
  /\ progress \in [Coro -> Nat]

(* No wake-up is lost or doubled: a suspended coroutine has one, queued in    *)
(* the io_context or in awake_cont; an ended one has the one its scope guard  *)
(* pushed until it is erased; no other coroutine has any (create_coro's cb    *)
(* and on_exit in asio_coroutine2.ixx).                                       *)
WakeTokens ==
  \A i \in Coro :
    /\ coro[i] = "suspended" =>
         \/ Never(queue, Wake(i)) /\ Once(awake, i)
         \/ Once(queue, Wake(i))  /\ Never(awake, i)
    /\ coro[i] = "done" =>
         /\ Never(queue, Wake(i))
         /\ IF i \in live THEN Once(awake, i) ELSE Never(awake, i)
    /\ coro[i] = "new" => Never(queue, Wake(i)) /\ Never(awake, i)

(* What WakeTokens and OutputComplete rest on: coro_cont holds every coroutine *)
(* that has not ended, the scheduler's loop starts only when all have been     *)
(* created, and a coroutine ends after its last character.                     *)
Lifecycle ==
  /\ \A i \in Coro :
       /\ coro[i] = "new" => i \notin live /\ progress[i] = 0 /\ main = "create"
       /\ coro[i] = "suspended" => i \in live /\ progress[i] # 0
       /\ progress[i] <= Steps
       /\ coro[i] = "done" => progress[i] = Steps
  /\ main = "returned" => live = {}

(* The inductive invariant of the proofs in AwakeSchedulerProofs. *)
IInv == TypeOK /\ Lifecycle /\ WakeTokens

(* First in, first out: the coroutines take turns in the order of their ids,  *)
(* so no output is ever more than one character ahead of another's            *)
(* ("按awake_cont中先進先出的順序喚醒協程").                                   *)
TurnsInOrder ==
  \A i, j \in Coro :
    i < j => progress[j] <= progress[i] /\ progress[i] <= progress[j] + 1

(* handle() returns only when every output is complete: the tests' REQUIRE.   *)
OutputComplete ==
  main = "returned" => \A i \in Coro : coro[i] = "done" /\ progress[i] = Steps

(* The program does what Workflow asks; a session is accepted with its first  *)
(* character already written.                                                 *)
W == INSTANCE Workflow WITH
       First <- 1,
       state <- [i \in Coro |-> IF coro[i] = "new" THEN "new" ELSE "active"],
       closed <- FALSE,
       returned <- main = "returned"

RefinesWorkflow == W!Spec

(* handle() returns. *)
Terminates == <>(main = "returned")
==============================================================================
