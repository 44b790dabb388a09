------------------------------ MODULE TaskEcho -------------------------------
(***************************************************************************)
(* src/client.cpp and src/server.cpp: one write and one read, in seven        *)
(* styles of asynchronous code (AsyncType), and the lite::task of coro.hpp      *)
(* that four of them are written with.                                         *)
(*                                                                         *)
(* Neither program has an offset: what one async_write_some and one            *)
(* async_read_some move is all that is written and read.                       *)
(*                                                                         *)
(* BoostCoro2 runs the context a second time, inside on_connect, in a           *)
(* coroutine of its own, and each handler yields to coro2_main, which goes on   *)
(* as the other styles' handlers do.  The client's on_connect therefore returns *)
(* when the connection is over; until then it keeps the inner run() at work,    *)
(* and with its coroutine that run() is unwound.                                *)
(***************************************************************************)
EXTENDS TaskEchoState

CONSTANTS
  ClientTypes, ServerTypes,  (* the styles looked at, per side        *)
  Text,                      (* "client." and "server.", per side     *)
  Zero,                      (* what vec is filled with               *)
  Room                       (* the size of vec: 1024 in the code     *)

ASSUME TaskEchoAssumption ==
  /\ ClientTypes \subseteq AsyncType /\ ServerTypes \subseteq AsyncType
  /\ \A e \in Side : Text[e] \in Seq(Nat) \ {<<>>}
  /\ Zero \in Nat /\ Room \in Nat \ {0}

taskVars == <<type, frame, promise, got>>
vars == <<duplexVars, taskVars>>

Init ==
  /\ DuplexInit
  /\ type \in [Side -> AsyncType]
  /\ type["client"] \in ClientTypes /\ type["server"] \in ServerTypes
  /\ frame = PerConn("none", "none")
  /\ promise = PerConn("ok", "ok")
  /\ got = PerConn("none", "none")

(* The styles whose caller calls get(). *)
CallsGet(e) ==
  type[e] \in IF e = "client" THEN {"CoroResume", "CoroResumeValue", "CoroReturnValue"}
              ELSE {"CoroReturnValue"}

(* The coroutine runs (initial_suspend never suspends) to its first co_await:   *)
(* await_suspend() stores the handle and starts the operation.                  *)
Suspends(e, c) ==
  frame' = IF IsTask(e) THEN [frame EXCEPT ![e][c] = "suspended"] ELSE frame

(* on_connect and on_accept have the task back when the coroutine has suspended *)
(* for the first time, and call task::get() before anything else happens: it     *)
(* reads promise.value as it is then.                                            *)
Get(e, c) ==
  /\ got' = IF CallsGet(e) THEN [got EXCEPT ![e][c] = promise[e][c]] ELSE got
  /\ UNCHANGED <<type, promise>>

(* co_return stores the result, and the frame destroys itself (final_suspend   *)
(* never suspends).                                                             *)
CoReturns(e, c, result) ==
  /\ promise' = IF CallsGet(e) THEN [promise EXCEPT ![e][c] = result] ELSE promise
  /\ frame' = IF IsTask(e) THEN [frame EXCEPT ![e][c] = "destroyed"] ELSE frame
  /\ UNCHANGED <<type, got>>

------------------------------------------------------------------------------
(* on_connect: the style's function starts to write. *)
Connect(c) ==
  /\ Connected(c, "write", Text["client"])
  /\ Suspends("client", c) /\ Get("client", c)

ConnectFails(c) ==
  /\ op["client"][c] = "connect"
  /\ IF program["server"] = "up" THEN Fault ELSE UNCHANGED faults
  /\ LetsGo("client", c)
  /\ UNCHANGED taskVars

(* remote_endpoint() in on_connect throws when the connection it was called for  *)
(* has been reset already.                                                       *)
ConnectThrows(c) ==
  /\ op["client"][c] = "connect"
  /\ IF program["server"] = "up" THEN Fault ELSE UNCHANGED faults
  /\ link' = [link EXCEPT ![c] = "reset"]
  /\ program' = [program EXCEPT !["client"] = "down"]
  /\ op' = [op EXCEPT !["client"] = [d \in Conn |-> "over"]]
  /\ UNCHANGED <<accepting, buffer, offset, wire, taskVars>>

(* on_accept starts the next accept and the style's function, which reads; for  *)
(* a style it does not know it lets the socket go.                               *)
Accept(c) ==
  /\ type["server"] \in KnownStyles
  /\ Accepted(c, TRUE, Resize(<<>>, Room, Zero))
  /\ Suspends("server", c) /\ Get("server", c)

AcceptIgnores(c) ==
  /\ type["server"] \notin KnownStyles
  /\ accepting /\ link[c] # "none" /\ op["server"][c] = "new"
  /\ LetsGo("server", c)
  /\ UNCHANGED <<faults, taskVars>>

(* With an error on_accept returns before it starts the next accept. *)
AcceptFails ==
  /\ accepting /\ Fault
  /\ accepting' = FALSE
  /\ UNCHANGED <<program, op, buffer, offset, link, wire, taskVars>>

(* Mutant: the bytes of the write are taken for those of the reply. *)
ClientWritesOnly(c) ==
  /\ \E k \in 1..Len(Text["client"]) :
       Written("client", c, k) /\ Starts("client", c, "over", Text["client"], k)
  /\ CoReturns("client", c, "ok")

(* "send success!": the client reads next. *)
ClientWrites(c) ==
  /\ \E k \in 1..Len(Text["client"]) : Written("client", c, k)
  /\ Starts("client", c, "read", Resize(<<>>, Room, Zero), 0)
  /\ UNCHANGED taskVars

(* The client's read is its last step.  coro_resume_value() flows off its end   *)
(* without the co_return its promise asks for: it may return as if it had, or   *)
(* the program ends here.                                                        *)
ClientReads(c) ==
  /\ \E k \in 1..Room :
       /\ Read("client", c, k)
       /\ Starts("client", c, "over", Filled("client", c, k), k)
  /\ CoReturns("client", c, "ok")

ClientFlowsOff(c) ==
  /\ type["client"] = "CoroResumeValue"
  /\ \E k \in 1..Room : k <= Len(wire["client"][c])
  /\ op["client"][c] = "read" /\ link[c] = "up"
  /\ Dies("client")
  /\ UNCHANGED <<faults, taskVars>>

(* Mutant: the server reads on. *)
ServerReadsOn(c) ==
  /\ \E k \in 1..Room : Read("server", c, k)
  /\ Starts("server", c, "read", Resize(<<>>, Room, Zero), 0)
  /\ UNCHANGED taskVars

ServerReads(c) ==
  /\ \E k \in 1..Room : Read("server", c, k)
  /\ Starts("server", c, "write", Text["server"], 0)
  /\ UNCHANGED taskVars

ServerWrites(c) ==
  /\ \E k \in 1..Len(Text["server"]) :
       /\ Written("server", c, k)
       /\ Starts("server", c, "over", Text["server"], k)
  /\ CoReturns("server", c, "ok")

(* Mutant: with an error the handler returns and does not resume the coroutine. *)
FailsSilently(e, c) == GivesUp(e, c) /\ UNCHANGED taskVars

(* A read or write fails: the coroutine is resumed and returns the error. *)
Fails(e, c) == GivesUp(e, c) /\ CoReturns(e, c, "error")

(* remote_endpoint() in on_accept throws for a connection that was reset. *)
AcceptThrows(c) ==
  /\ accepting /\ op["server"][c] = "new"
  /\ Throws("server", c, {"new"})
  /\ UNCHANGED taskVars

------------------------------------------------------------------------------
ClientStep(c) ==
  \/ Connect(c) \/ ConnectFails(c) \/ ConnectThrows(c)
  \/ ClientWrites(c) \/ ClientReads(c) \/ ClientFlowsOff(c) \/ Fails("client", c)
ServerStep(c) ==
  \/ Accept(c) \/ AcceptIgnores(c) \/ AcceptThrows(c) \/ ServerReads(c) \/ ServerWrites(c)
  \/ Fails("server", c)
Ends(e) == Returns(e) /\ UNCHANGED taskVars
Network(c) == Reset(c) /\ UNCHANGED taskVars

(* A program that has ended has closed its sockets, also those not accepted. *)
Closing(c) == program["server"] # "up" /\ Network(c)

Next ==
  \/ \E c \in Conn : ClientStep(c) \/ ServerStep(c) \/ Network(c)
  \/ \E e \in Side : Ends(e)
  \/ AcceptFails

Spec == Init /\ [][Next]_vars

(* Operations that can complete do, both programs run their handlers and the   *)
(* system closes the sockets of a program that has ended.                       *)
FairSpec ==
  /\ Spec
  /\ \A e \in Side : WF_vars(Ends(e))
  /\ \A c \in Conn : WF_vars(ClientStep(c)) /\ WF_vars(ServerStep(c)) /\ WF_vars(Closing(c))

------------------------------------------------------------------------------
(* The client returns, in every style and with every style of the server. *)
Terminates == <>(program["client"] # "up")
==============================================================================
