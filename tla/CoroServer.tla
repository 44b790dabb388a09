----------------------------- MODULE CoroServer ------------------------------
(***************************************************************************)
(* coroutine2_server.cpp: the echo server whose connections, and whose       *)
(* listener, are stackful coroutines.  A handler only stores the result and    *)
(* pushes the coroutine's id to awake_cont; the loop of coro_example runs the   *)
(* context, then resumes what is in awake_cont until it is empty, and erases    *)
(* coroutines that have ended.  The listener never ends, so there is always     *)
(* an accept under way, and run() comes back only because the context stopped   *)
(* once, when the first accept had completed and there was nothing else to do.  *)
(*                                                                         *)
(* The bytes themselves are Echo's subject; here offset counts them.  Id 0 is  *)
(* the listener.  An exception of get_info(), which throws for a socket that    *)
(* is not connected, leaves resume() and ends the program.                      *)
(***************************************************************************)
EXTENDS IoContext

CONSTANTS
  N,          (* bound: how many clients connect                *)
  Length,     (* bytes of a client's message                    *)
  Chunk,      (* the room made for a read: 4 in the code        *)
  MaxFaults   (* bound: operations that complete with an error  *)

ASSUME CoroServerAssumption ==
  N \in Nat /\ Length \in Nat \ {0} /\ Chunk \in Nat \ {0} /\ MaxFaults \in Nat

Connection == 1..N
Id == 0..N

VARIABLES
  main,           \* "loop" (run() is next), "run", "drain" or "dead"
  awake_cont,     \* ids to resume, oldest first
  coro,           \* coro_cont: "none", "alive", "done" (ended, not erased), "erased"
  connection_id,  \* the listener's next id
  at,             \* what a connection's coroutine waits for
  offset,         \* its offset
  error, bytes,   \* what the last handler of a coroutine has stored
  faults

coroVars == <<coro, connection_id, at, offset>>
vars == <<ioVars, main, awake_cont, coroVars, error, bytes, faults>>

Done(i) == [tag |-> "done", id |-> i]

(* The listener has run to its first yield. *)
Init ==
  /\ IoInit({0})
  /\ main = "loop" /\ awake_cont = <<>>
  /\ coro = [i \in Id |-> IF i = 0 THEN "alive" ELSE "none"]
  /\ connection_id = 1
  /\ at = [c \in Connection |-> "read"]
  /\ offset = [c \in Connection |-> 0]
  /\ error = [i \in Id |-> FALSE] /\ bytes = [i \in Id |-> 0]
  /\ faults = 0

------------------------------------------------------------------------------
(* How many bytes an operation of i may move; accepts and timers move none.    *)
Moves(i) ==
  IF i = 0 \/ at[i] = "timer" THEN {0}
  ELSE {k \in 1..(Length - offset[i]) : at[i] = "read" => k <= Chunk}

(* The environment: an operation completes, in any order.  Only N clients come. *)
Complete(i, e) ==
  /\ i \in pending
  /\ i = 0 /\ ~e => connection_id <= N
  /\ IF e THEN faults < MaxFaults /\ faults' = faults + 1 ELSE UNCHANGED faults
  /\ pending' = pending \ {i}
  /\ queue' = Append(queue, Done(i))
  /\ error' = [error EXCEPT ![i] = e]
  /\ \E k \in Moves(i) : bytes' = [bytes EXCEPT ![i] = IF e THEN 0 ELSE k]
  /\ UNCHANGED <<kind, stopped, main, awake_cont, coroVars>>

------------------------------------------------------------------------------
(* The loop of coro_example. *)
CallRun ==
  /\ main = "loop"
  /\ IF Idle(queue, pending) THEN RefuseRun /\ main' = "drain" ELSE EnterRun /\ main' = "run"
  /\ UNCHANGED <<kind, pending, awake_cont, coroVars, error, bytes, faults>>

(* The handler made by callback(): its results are stored already. *)
RunHandler(i) ==
  /\ main = "run"
  /\ CanDispatch
  /\ Head(queue) = Done(i)
  /\ awake_cont' = Append(awake_cont, i)
  /\ HandlerDone(Tail(queue))
  /\ UNCHANGED <<kind, pending, main, coroVars, error, bytes, faults>>

RunReturns ==
  /\ main = "run"
  /\ LeaveRun
  /\ main' = "drain"
  /\ UNCHANGED <<kind, pending, awake_cont, coroVars, error, bytes, faults>>

Drained ==
  /\ main = "drain" /\ awake_cont = <<>>
  /\ main' = "loop"
  /\ UNCHANGED <<ioVars, awake_cont, coroVars, error, bytes, faults>>

(* The id i is taken from awake_cont; what its coroutine does pushes pushed.   *)
Awakes(i, pushed) ==
  /\ main = "drain"
  /\ awake_cont # <<>> /\ Head(awake_cont) = i
  /\ awake_cont' = Tail(awake_cont) \o pushed
  /\ UNCHANGED <<kind, queue, stopped, main, error, bytes, faults>>

(* Mutant: the erased coroutine's element is kept. *)
EraseNot(i) ==
  /\ coro[i] = "done"
  /\ Awakes(i, <<>>)
  /\ UNCHANGED <<pending, coroVars>>

Erase(i) ==
  /\ coro[i] = "done"
  /\ Awakes(i, <<>>)
  /\ coro' = [coro EXCEPT ![i] = "erased"]
  /\ UNCHANGED <<pending, connection_id, at, offset>>

(* Mutant: the next accept is forgotten. *)
ListenForgetting ==
  /\ ~error[0]
  /\ Awakes(0, <<>>)
  /\ coro' = [coro EXCEPT ![connection_id] = "alive"]
  /\ pending' = pending \cup {connection_id}
  /\ connection_id' = connection_id + 1
  /\ UNCHANGED <<at, offset>>

(* The listener: the new connection's coroutine runs to its first read when it *)
(* is created, then the loop starts the next accept.                            *)
Listen ==
  /\ ~error[0]
  /\ Awakes(0, <<>>)
  /\ coro' = [coro EXCEPT ![connection_id] = "alive"]
  /\ pending' = pending \cup {connection_id, 0}
  /\ connection_id' = connection_id + 1
  /\ UNCHANGED <<at, offset>>

(* Coroutine c goes on to wait for the operation next, at offset o. *)
Waits(c, next, o) ==
  /\ coro[c] = "alive"
  /\ Awakes(c, <<>>)
  /\ pending' = pending \cup {c}
  /\ at' = [at EXCEPT ![c] = next]
  /\ offset' = [offset EXCEPT ![c] = o]
  /\ UNCHANGED <<coro, connection_id>>

(* Coroutine c returns: its scope guard pushes its id once more. *)
Returns(c, o) ==
  /\ coro[c] = "alive"
  /\ Awakes(c, <<c>>)
  /\ coro' = [coro EXCEPT ![c] = "done"]
  /\ offset' = [offset EXCEPT ![c] = o]
  /\ UNCHANGED <<pending, connection_id, at>>

(* The read loop, whose last byte is end_char. *)
AfterRead(c) ==
  /\ at[c] = "read" /\ ~error[c]
  /\ LET o == offset[c] + bytes[c] IN Waits(c, IF o < Length THEN "read" ELSE "timer", o)

(* The timer's error is not looked at. *)
AfterTimer(c) == at[c] = "timer" /\ Waits(c, "write", 0)

(* Mutant: the rest of a write is not written. *)
AfterWriteOnce(c) ==
  /\ at[c] = "write" /\ ~error[c]
  /\ Returns(c, offset[c] + bytes[c])

(* The write loop; at its end the coroutine returns. *)
AfterWrite(c) ==
  /\ at[c] = "write" /\ ~error[c]
  /\ LET o == offset[c] + bytes[c] IN IF o < Length THEN Waits(c, "write", o) ELSE Returns(c, o)

AfterError(c) == at[c] \in {"read", "write"} /\ error[c] /\ Returns(c, offset[c])

(* get_info(), which every line of the log calls, throws: of the listener's      *)
(* unconnected socket after a failed accept, or of a connection that was reset,   *)
(* be it by the operation's error or after the operation had succeeded.           *)
Throws(i) ==
  /\ main = "drain"
  /\ awake_cont # <<>> /\ Head(awake_cont) = i
  /\ coro[i] = "alive"
  /\ IF error[i] THEN UNCHANGED faults ELSE faults < MaxFaults /\ faults' = faults + 1
  /\ main' = "dead"
  /\ UNCHANGED <<ioVars, awake_cont, coroVars, error, bytes>>

------------------------------------------------------------------------------
Resume(i) ==
  \/ i = 0 /\ Listen
  \/ i # 0 /\ (AfterRead(i) \/ AfterTimer(i) \/ AfterWrite(i) \/ AfterError(i))
  \/ Throws(i)

Program ==
  \/ CallRun \/ RunReturns \/ Drained
  \/ \E i \in Id : RunHandler(i) \/ Erase(i) \/ Resume(i)

Clients == \E i \in Id, e \in BOOLEAN : Complete(i, e)

(* The program has ended. *)
Dead == main = "dead" /\ UNCHANGED vars

Next == Program \/ Clients \/ Dead

Spec == Init /\ [][Next]_vars

(* The program's only thread keeps running; operations of connections complete. *)
FairSpec ==
  /\ Spec
  /\ WF_vars(Program)
  /\ \A i \in Connection : WF_vars(\E e \in BOOLEAN : Complete(i, e))

------------------------------------------------------------------------------
(* Where coroutine i is waited for. *)
Operation(i) == i \in pending    /\ Never(queue, Done(i)) /\ Never(awake_cont, i)
Handler(i)   == i \notin pending /\ Once(queue, Done(i))  /\ Never(awake_cont, i)
Awake(i)     == i \notin pending /\ Never(queue, Done(i)) /\ Once(awake_cont, i)
Nowhere(i)   == i \notin pending /\ Never(queue, Done(i)) /\ Never(awake_cont, i)

(* A coroutine that has not been erased is waited for in exactly one place: an *)
(* operation under way, a handler in the queue or its id in awake_cont (only    *)
(* there once it has ended).  None is resumed twice for one operation, in the   *)
(* middle of a read, and none is forgotten, the listener least of all.          *)
OneWait ==
  \A i \in Id :
    CASE coro[i] = "alive" -> Operation(i) \/ Handler(i) \/ Awake(i)
      [] coro[i] = "done"  -> Awake(i)
      [] OTHER -> Nowhere(i)

(* A connection's coroutine is gone only when its message has been written back *)
(* whole, or an operation of it has failed.                                      *)
Served ==
  \A c \in Connection :
    coro[c] \in {"done", "erased"} => (at[c] = "write" /\ offset[c] = Length) \/ error[c]

(* On Windows every connection that is accepted comes to its end and leaves the *)
(* map, or the program ends: run() never runs out of work again, and the          *)
(* listener never ends (coroutine2_server.cpp:184).  With the documented contract *)
(* of io_context a second run() returns at once, and nothing is ever read.        *)
AcceptedComeToAnEnd ==
  \A c \in Connection :
    (kind = "iocp" /\ coro[c] = "alive") ~> (coro[c] = "erased" \/ main = "dead")
==============================================================================
