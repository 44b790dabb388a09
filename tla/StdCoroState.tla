---------------------------- MODULE StdCoroState -----------------------------
(***************************************************************************)
(* The coroutines of stdcoro.ixx, their frames and task objects, and what    *)
(* must hold of them.  StdCoro says what happens to them.                    *)
(***************************************************************************)
EXTENDS Naturals

CONSTANTS Eager, Lazy   (* the coroutines that are eager and lazy tasks *)

Coroutine == Eager \cup Lazy

VARIABLES
  caller,     \* what is done with the task objects
  frame,      \* "none", "initial", "suspended", "final" or "destroyed"
  h,          \* the task object: "none", "held", "null" or "gone" (destructed)
  wait,       \* how many operations' handlers are to resume the coroutine
  awaits,     \* how often it has awaited
  detached,   \* of an eager promise: it has been detached
  on_error,   \* of an eager promise: it catches an exception
  ex,         \* of a lazy promise: an exception is stored
  misuse,     \* a coroutine was resumed that had ended or been destroyed
  terminated  \* std::terminate()

------------------------------------------------------------------------------
(* As the test uses the tasks, no coroutine is resumed after it has ended or     *)
(* been destroyed: a handler is only left waiting while there is a frame to        *)
(* resume.                                                                        *)
NoDeadResume == caller = "test" => ~misuse

(* However tasks are used, a coroutine that has ended of itself, detached at       *)
(* whatever time or not, is over: no task object holds a frame that has destroyed   *)
(* itself, and would destroy it again, and no handler is left to resume an eager      *)
(* one.  What can leave one is the destructor of its task (stdcoro.ixx:98).         *)
EndedIsOver ==
  /\ \A c \in Coroutine : h[c] = "held" => frame[c] # "destroyed"
  /\ \A c \in Eager :
       frame[c] = "final" \/ (frame[c] = "destroyed" /\ detached[c]) => wait[c] = 0

(* A detached coroutine of the test lives exactly as long as a handler waits to  *)
(* resume it, and a held one that is not suspended on a handler has ended or not  *)
(* begun: no frame is left to which neither a task object nor a handler leads,    *)
(* and none that two handlers would resume.                                       *)
Reachable ==
  \A c \in Coroutine :
    caller = "test" /\ frame[c] \in {"initial", "suspended", "final"} =>
      /\ h[c] = "held" \/ wait[c] > 0 \/ terminated
      /\ wait[c] = IF frame[c] = "suspended" THEN 1 ELSE 0

(* However tasks are used, a detached coroutine frees its frame when it ends       *)
(* (stdcoro.ixx:41).  The one frame that is left for good is that of a coroutine    *)
(* that had ended when it was detached (stdcoro.ixx:126-133).                      *)
OnlyLateDetachLeaks ==
  [][\A c \in Eager :
       detached'[c] /\ frame'[c] = "final" => frame[c] = "final"]_<<frame, detached>>
==============================================================================
