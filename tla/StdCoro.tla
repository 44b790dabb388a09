------------------------------- MODULE StdCoro -------------------------------
(***************************************************************************)
(* The life of C++20 coroutines under stdcoro.ixx: frames, the task objects    *)
(* that own or have given up a frame (eager_task, lazy_task), and the handlers  *)
(* of asynchronous operations, which keep a copy of the coroutine's handle and   *)
(* resume it whatever has become of the frame.                                   *)
(*                                                                         *)
(* A coroutine runs, on the one thread there is, from a resumption to its next  *)
(* co_await, its end or an exception in one step.  What the caller does with the *)
(* task objects is chosen once: either what test_std_coroutine.cpp does (resume  *)
(* the lazy task once and keep it until it is done; detach the eager tasks at     *)
(* once), or all that the comments of stdcoro.ixx allow.                          *)
(***************************************************************************)
EXTENDS StdCoroState

CONSTANTS
  Awaits,        (* bound: how often a coroutine awaits                     *)
  Callers        (* "test", and "documented": all that the comments allow  *)

ASSUME StdCoroAssumption ==
  Eager \cap Lazy = {} /\ Awaits \in Nat \ {0} /\ Callers \subseteq {"test", "documented"}

promiseVars == <<detached, on_error, ex>>
vars == <<caller, frame, h, wait, awaits, promiseVars, misuse, terminated>>

Init ==
  /\ caller \in Callers
  /\ frame = [c \in Coroutine |-> "none"] /\ h = [c \in Coroutine |-> "none"]
  /\ wait = [c \in Coroutine |-> 0] /\ awaits = [c \in Coroutine |-> 0]
  /\ detached = [c \in Coroutine |-> FALSE] /\ on_error = [c \in Coroutine |-> FALSE]
  /\ ex = [c \in Coroutine |-> FALSE]
  /\ misuse = FALSE /\ terminated = FALSE

------------------------------------------------------------------------------
(* What a coroutine does from a resumption on; left is the number of handlers   *)
(* that are still to resume it, gone says whether detach() has been called by     *)
(* then, caught whether with an on_error that returns.                            *)

(* co_await suspend_async(): the operation is started with the handle. *)
Suspends(c, left) ==
  /\ awaits[c] < Awaits
  /\ frame' = [frame EXCEPT ![c] = "suspended"]
  /\ wait' = [wait EXCEPT ![c] = left + 1]
  /\ awaits' = [awaits EXCEPT ![c] = @ + 1]
  /\ UNCHANGED <<ex, terminated>>

(* Mutant: no frame destroys itself. *)
FinalSuspendAlways(c, gone) == frame' = [frame EXCEPT ![c] = "final"]

(* final_suspend(): only a detached frame destroys itself. *)
FinalSuspend(c, gone) ==
  frame' = [frame EXCEPT ![c] = IF c \in Eager /\ gone THEN "destroyed" ELSE "final"]

Ends(c, left, gone) ==
  /\ FinalSuspend(c, gone)
  /\ wait' = [wait EXCEPT ![c] = left]
  /\ UNCHANGED <<awaits, ex, terminated>>

(* unhandled_exception() *)
Throws(c, left, gone, caught) ==
  /\ FinalSuspend(c, gone)
  /\ wait' = [wait EXCEPT ![c] = left]
  /\ ex' = [ex EXCEPT ![c] = c \in Lazy]
  /\ terminated' = (c \in Eager /\ ~caught)
  /\ UNCHANGED awaits

Runs(c, left, gone, caught) ==
  \/ Suspends(c, left)
  \/ Ends(c, left, gone)
  \/ Throws(c, left, gone, caught)

------------------------------------------------------------------------------
(* initial_suspend() of a lazy_task suspends. *)
CreateLazy(c) ==
  /\ c \in Lazy /\ h[c] = "none"
  /\ frame' = [frame EXCEPT ![c] = "initial"]
  /\ h' = [h EXCEPT ![c] = "held"]
  /\ UNCHANGED <<wait, awaits, promiseVars, misuse, terminated>>

(* lazy_task::resume() starts the coroutine, or has it go on from a co_await: the *)
(* handler of what it awaits is then left to resume it once more.  resume()       *)
(* rethrows what is in ex; what a handler's resumption leaves there nobody looks  *)
(* at.                                                                            *)
Resume(c) ==
  /\ c \in Lazy /\ h[c] = "held"
  /\ frame[c] = "initial" \/ (caller = "documented" /\ frame[c] = "suspended")
  /\ Runs(c, wait[c], FALSE, FALSE)
  /\ UNCHANGED <<h, detached, on_error, misuse>>

(* An eager coroutine runs when it is called. *)
CreateEager(c) ==
  /\ caller = "documented" /\ c \in Eager /\ h[c] = "none"
  /\ Runs(c, 0, FALSE, FALSE)
  /\ h' = [h EXCEPT ![c] = "held"]
  /\ UNCHANGED <<detached, on_error, misuse>>

(* Mutant: detach() does not mark the promise. *)
DetachUnmarked(c, fn) ==
  /\ h' = [h EXCEPT ![c] = "null"]
  /\ on_error' = [on_error EXCEPT ![c] = fn]
  /\ UNCHANGED detached

(* Mutant: detach() keeps the handle. *)
DetachHolding(c, fn) ==
  /\ on_error' = [on_error EXCEPT ![c] = fn]
  /\ detached' = [detached EXCEPT ![c] = TRUE]
  /\ UNCHANGED h

(* eager_task::detach(); fn says whether it is given an on_error that returns:   *)
(* the one of detach() without an argument terminates the program.                *)
Detach(c, fn) ==
  /\ h' = [h EXCEPT ![c] = "null"]
  /\ on_error' = [on_error EXCEPT ![c] = fn]
  /\ detached' = [detached EXCEPT ![c] = TRUE]

DetachLater(c) ==
  /\ caller = "documented" /\ c \in Eager /\ h[c] = "held"
  /\ \E fn \in BOOLEAN : Detach(c, fn)
  /\ UNCHANGED <<frame, wait, awaits, ex, misuse, terminated>>

(* accept_handle of the test: connection_handle() awaits first, or throws      *)
(* before anything could catch it; then its task is detached.                   *)
CreateDetached(c) ==
  /\ caller = "test" /\ c \in Eager /\ h[c] = "none"
  /\ \/ Suspends(c, 0) /\ Detach(c, TRUE)
     \/ Throws(c, 0, FALSE, FALSE) /\ UNCHANGED <<h, detached, on_error>>
  /\ UNCHANGED misuse

(* Mutant: the lazy task is destructed when it has been started. *)
MayDestructEarly(c) ==
  IF c \in Lazy THEN frame[c] # "initial" ELSE h[c] = "held" => caller = "documented"

(* A lazy task has to live until it is done; a test's eager task is detached. *)
MayDestruct(c) ==
  IF c \in Lazy THEN frame[c] = "final" ELSE h[c] = "held" => caller = "documented"

(* ~eager_task(), ~lazy_task(): a frame that is still held is destroyed.  A    *)
(* handler that waits for an operation of the frame stays: cancelling the        *)
(* operation makes it run.                                                       *)
Destruct(c) ==
  /\ h[c] \in {"held", "null"} /\ MayDestruct(c)
  /\ h' = [h EXCEPT ![c] = "gone"]
  /\ frame' = IF h[c] = "held" THEN [frame EXCEPT ![c] = "destroyed"] ELSE frame
  /\ UNCHANGED <<wait, awaits, promiseVars, misuse, terminated>>

(* The operation completes, and cb's handler resumes the coroutine. *)
Handler(c) ==
  /\ wait[c] > 0 /\ frame[c] = "suspended"
  /\ Runs(c, wait[c] - 1, detached[c], on_error[c])
  /\ UNCHANGED <<h, detached, on_error, misuse>>

(* It does so too when the coroutine has ended or its frame is gone. *)
HandlerTooLate(c) ==
  /\ wait[c] > 0 /\ frame[c] # "suspended"
  /\ misuse' = TRUE
  /\ wait' = [wait EXCEPT ![c] = @ - 1]
  /\ UNCHANGED <<frame, h, awaits, promiseVars, terminated>>

------------------------------------------------------------------------------
Step(c) ==
  \/ CreateLazy(c) \/ Resume(c) \/ CreateEager(c) \/ CreateDetached(c)
  \/ DetachLater(c) \/ Destruct(c) \/ Handler(c) \/ HandlerTooLate(c)

Next ==
  /\ ~terminated /\ ~misuse
  /\ \E c \in Coroutine : Step(c)
  /\ UNCHANGED caller

Spec == Init /\ [][Next]_vars

==============================================================================
