----------------------------- MODULE TimerStyles -----------------------------
(***************************************************************************)
(* The three programs on timers whose handlers continue the work            *)
(* themselves, without a scheduler: test_callback.cpp, test_switch_coro.cpp *)
(* and test_std_coroutine.cpp of tests/src.                                  *)
(*                                                                         *)
(* One acceptor and N connections each have one timer and, while they are   *)
(* alive, one wait on it.  The handler of the wait calls on_accept or       *)
(* on_connect (or resumes the C++20 coroutine), which starts the next wait   *)
(* or lets the object go.  The callback and switch programs run the context *)
(* once; the C++20 program calls run_one() until its acceptor is done and   *)
(* run() afterwards.                                                         *)
(*                                                                         *)
(* The C++20 program's ids 0..2 are 1..N here.                               *)
(***************************************************************************)
EXTENDS StylesState

CONSTANTS
  Rounds,      (* the r's of a result: 3 in the code                    *)
  MaxErrors    (* bound: how many waits may complete with an error_code *)

ASSUME StylesAssumption ==
  /\ Styles \subseteq {"callback", "switch", "stdcoro"}
  /\ N \in Nat \ {0}
  /\ Rounds \in Nat \ {0}
  /\ MaxErrors \in Nat

Actor == 0..N          \* 0 is the acceptor

(* Besides, main is "poll" when run_one() is next and "one" inside it. *)
VARIABLES
  next,       \* the acceptor's loop counter; 0 before the first wait's handler
  conn,       \* "new", "open" or "over", per connection
  at,         \* where the connection's function or coroutine goes on
  i,          \* the connection's loop counter
  progress,   \* characters in result[id]
  ec,         \* the error_code of the actor's last wait, as a Boolean
  errors      \* how many waits have failed so far

vars == <<ioVars, style, main, next, accepting, conn, at, i, progress, ec, errors>>

connVars == <<conn, at, i, progress>>

Done(c) == [tag |-> "wait", id |-> c]

(* The first wait of the acceptor is started before the context runs. *)
Init ==
  /\ IoInit({0})
  /\ style \in Styles
  /\ main = IF style = "stdcoro" THEN "poll" ELSE "start"
  /\ next = IF style = "stdcoro" THEN 1 ELSE 0
  /\ accepting = TRUE
  /\ conn = [s \in Session |-> "new"]
  /\ at = [s \in Session |-> "connect"]
  /\ i = [s \in Session |-> 0]
  /\ progress = [s \in Session |-> 0]
  /\ ec = [c \in Actor |-> FALSE]
  /\ errors = 0

------------------------------------------------------------------------------
(* The environment: a timer expires, in any order among those running. *)
CompleteWait(c, e) ==
  /\ c \in pending
  /\ e => errors < MaxErrors
  /\ pending' = pending \ {c}
  /\ queue' = Append(queue, Done(c))
  /\ ec' = [ec EXCEPT ![c] = e]
  /\ errors' = IF e THEN errors + 1 ELSE errors
  /\ UNCHANGED <<kind, stopped, style, main, next, accepting, connVars>>

------------------------------------------------------------------------------
(* The program around the context. *)

(* Mutant: the loop around run_one() does not look at t.done(). *)
PollForever(waiting) == "poll"

(* do { run_one(); } while (!t.done()), and run() after it. *)
AfterOne(waiting) == IF waiting THEN "poll" ELSE "start"

CallRun ==
  /\ main \in {"start", "poll"}
  /\ IF Idle(queue, pending)
     THEN RefuseRun /\ main' = IF main = "start" THEN "returned" ELSE main
     ELSE EnterRun  /\ main' = IF main = "start" THEN "run" ELSE "one"
  /\ UNCHANGED <<kind, pending, style, next, accepting, connVars, ec, errors>>

RunReturns ==
  /\ main \in {"run", "one"}
  /\ LeaveRun
  /\ main' = IF main = "run" THEN "returned" ELSE AfterOne(accepting)
  /\ UNCHANGED <<kind, pending, style, next, accepting, connVars, ec, errors>>

(* The handler of c's wait runs; afterwards the operations of ops are under *)
(* way, and the acceptor waits or not.                                       *)
Handles(c, ops, waiting) ==
  /\ main \in {"run", "one"}
  /\ CanDispatch
  /\ Head(queue) = Done(c)
  /\ pending' = ops
  /\ HandlerLeaves(Tail(queue), ops)
  /\ accepting' = waiting
  /\ main' = IF main = "one" THEN AfterOne(waiting) ELSE main
  /\ UNCHANGED <<kind, style, ec, errors>>

------------------------------------------------------------------------------
(* The acceptor. *)

(* Connection s is created with its timer running. *)
Opens(s) ==
  /\ conn' = [conn EXCEPT ![s] = "open"]
  /\ UNCHANGED <<at, i, progress>>

(* data->id as on_accept finds it: the first wait's handler counts it up. *)
Id == IF next = 0 THEN 1 ELSE next

(* Mutant: the id is counted up twice. *)
CallbackCreatesSkipping(s) ==
  /\ style = "callback"
  /\ ~ec[0]
  /\ s = Id
  /\ Handles(0, pending \cup {0, s}, TRUE)
  /\ Opens(s)
  /\ next' = s + 2

CallbackCreates(s) ==
  /\ style = "callback"
  /\ ~ec[0]
  /\ s = Id
  /\ Handles(0, pending \cup {0, s}, TRUE)
  /\ Opens(s)
  /\ next' = s + 1

(* An error, or the wait after the last connection. *)
CallbackCloses ==
  /\ style = "callback"
  /\ ec[0] \/ Id > N
  /\ Handles(0, pending, FALSE)
  /\ next' = Id
  /\ UNCHANGED connVars

(* The first wait's handler enters on_accept in state 0, which starts another *)
(* wait and looks at no error_code.                                            *)
SwitchEnters ==
  /\ style = "switch"
  /\ next = 0
  /\ Handles(0, pending \cup {0}, TRUE)
  /\ next' = 1
  /\ UNCHANGED connVars

(* Mutant: the loop waits once more after the last connection. *)
LoopCreatesAndWaits(s) ==
  /\ style # "callback"
  /\ ~ec[0]
  /\ s = next
  /\ Handles(0, pending \cup {0, s}, s < N)
  /\ Opens(s)
  /\ next' = s + 1

(* The loop of the switch's on_accept and of accept_handle. *)
LoopCreates(s) ==
  /\ style # "callback"
  /\ ~ec[0]
  /\ s = next
  /\ Handles(0, pending \cup {s} \cup (IF s < N THEN {0} ELSE {}), s < N)
  /\ Opens(s)
  /\ next' = s + 1

LoopCloses ==
  /\ style # "callback"
  /\ next # 0
  /\ ec[0]
  /\ Handles(0, pending, FALSE)
  /\ UNCHANGED <<next, connVars>>

------------------------------------------------------------------------------
(* The connections. *)

(* The result grows by one character, and the connection waits again or ends. *)
Writes(s, again) ==
  /\ Handles(s, IF again THEN pending \cup {s} ELSE pending, accepting)
  /\ progress' = [progress EXCEPT ![s] = @ + 1]
  /\ conn' = [conn EXCEPT ![s] = IF again THEN "open" ELSE "over"]
  /\ UNCHANGED next

CallbackConnect(s) ==
  /\ style = "callback"
  /\ ~ec[s]
  /\ Writes(s, i[s] <= Rounds)
  /\ i' = IF i[s] <= Rounds THEN [i EXCEPT ![s] = @ + 1] ELSE i
  /\ UNCHANGED at

(* Mutant: after the first wait no other is started. *)
LoopConnectForgetsWait(s) ==
  /\ style # "callback"
  /\ at[s] = "connect"
  /\ ~ec[s]
  /\ Handles(s, pending, accepting)
  /\ progress' = [progress EXCEPT ![s] = @ + 1]
  /\ at' = [at EXCEPT ![s] = "read"]
  /\ UNCHANGED <<next, conn, i>>

(* The first wait is over: the loop is entered. *)
LoopConnect(s) ==
  /\ style # "callback"
  /\ at[s] = "connect"
  /\ ~ec[s]
  /\ Writes(s, TRUE)
  /\ at' = [at EXCEPT ![s] = "read"]
  /\ UNCHANGED i

(* One round of the loop: another one, or the wait after the loop. *)
LoopRead(s) ==
  /\ style # "callback"
  /\ at[s] = "read"
  /\ ~ec[s]
  /\ Writes(s, TRUE)
  /\ i' = [i EXCEPT ![s] = @ + 1]
  /\ at' = [at EXCEPT ![s] = IF i[s] + 1 < Rounds THEN "read" ELSE "write"]

LoopWrite(s) ==
  /\ style # "callback"
  /\ at[s] = "write"
  /\ ~ec[s]
  /\ Writes(s, FALSE)
  /\ UNCHANGED <<at, i>>

(* In every style a connection whose wait failed returns and is let go. *)
ConnectFails(s) ==
  /\ ec[s]
  /\ Handles(s, pending, accepting)
  /\ conn' = [conn EXCEPT ![s] = "over"]
  /\ UNCHANGED <<next, at, i, progress>>

------------------------------------------------------------------------------
Program ==
  \/ CallRun \/ RunReturns \/ CallbackCloses \/ SwitchEnters \/ LoopCloses
  \/ \E s \in Session :
       \/ CallbackCreates(s) \/ CallbackConnect(s)
       \/ LoopCreates(s) \/ LoopConnect(s) \/ LoopRead(s) \/ LoopWrite(s)
       \/ ConnectFails(s)

Timers == \E c \in Actor, e \in BOOLEAN : CompleteWait(c, e)

(* The result has been returned: nothing is left to do. *)
Finished == main = "returned" /\ UNCHANGED vars

Next == Program \/ Timers \/ Finished

Spec == Init /\ [][Next]_vars

(* The program's only thread keeps running, and a wait that was started ends. *)
FairSpec ==
  /\ Spec
  /\ WF_vars(Program)
  /\ \A c \in Actor : WF_vars(\E e \in BOOLEAN : CompleteWait(c, e))

------------------------------------------------------------------------------
(* The acceptor and the open connections: the objects a handler keeps alive. *)
Alive == {s \in Session : conn[s] = "open"} \cup (IF accepting THEN {0} ELSE {})

(* The handlers are the only owners of the objects and the only callers of    *)
(* on_accept and on_connect: a living one has exactly one wait running or one  *)
(* handler queued, a dead one has neither.  A lost one would leave the object's *)
(* work undone, a second one would run its steps twice or resume a destroyed   *)
(* C++20 frame (cb in all three programs).                                     *)
OneHandler ==
  \A c \in Actor :
    IF c \in Alive
    THEN IF c \in pending THEN Never(queue, Done(c)) ELSE Once(queue, Done(c))
    ELSE c \notin pending /\ Never(queue, Done(c))

(* The context stops only when the acceptor and all connections are over: no  *)
(* run_one() of the C++20 program finds it stopped, which nothing would undo   *)
(* (test_std_coroutine.cpp, do while).                                         *)
StopsWhenOver == stopped => Alive = {}

(* Each of the programs does what Workflow asks. *)
W == INSTANCE Workflow WITH
       First <- 0,
       Steps <- Rounds + 2,
       state <- [s \in Session |->
                   IF conn[s] = "new" THEN "new"
                   ELSE IF conn[s] = "over" /\ progress[s] < Rounds + 2 THEN "failed"
                   ELSE "active"],
       closed <- ~accepting /\ \E s \in Session : conn[s] = "new",
       returned <- main = "returned"

RefinesWorkflow == W!Spec

(* The program returns, on every io_context. *)
Terminates == <>(main = "returned")
==============================================================================
