------------------------------- MODULE Duplex --------------------------------
(***************************************************************************)
(* Two programs that talk over TCP, as the echo clients and servers of the   *)
(* repository do: each side of a connection has a buffer, an offset into it    *)
(* and at most one operation under way, async_connect, async_read_some,        *)
(* async_write_some or a timer; an operation that reads or writes may move     *)
(* fewer bytes than it was given.                                              *)
(*                                                                         *)
(* Each program is one thread inside run(): the completion of an operation     *)
(* and its handler are one step, since a handler uses nothing but its own      *)
(* connection (and counters).  The extending modules say what handlers do.     *)
(*                                                                         *)
(* socket.remote_endpoint(), called for the log in most handlers, throws when  *)
(* the connection has been reset, or was never made.  Nothing catches that:    *)
(* the exception leaves run() and ends the program with all its connections.   *)
(* A reset between a completion and its handler is the same step.               *)
(***************************************************************************)
EXTENDS Bytes, FiniteSets

CONSTANTS
  N,          (* number of connections                          *)
  MaxFaults   (* bound: resets and other errors while both are up *)

ASSUME DuplexAssumption == N \in Nat \ {0} /\ MaxFaults \in Nat

Conn == 1..N
Side == {"client", "server"}
Peer(e) == IF e = "client" THEN "server" ELSE "client"

VARIABLES
  program,        \* per side: "up", "returned" from run(), "down" after an exception
  accepting,      \* the server has an accept under way
  op,             \* what a side of a connection waits for: "connect", "read",
                  \* "timer", "write"; "new" before the accept, "over" when it
                  \* has let go of the socket
  buffer, offset, \* where it reads into or writes from
  link,           \* the TCP connection: "none", "up" or "reset"
  wire,           \* bytes on their way to a side
  faults

duplexVars == <<program, accepting, op, buffer, offset, link, wire, faults>>

PerConn(client, server) ==
  [e \in Side |-> [c \in Conn |-> IF e = "client" THEN client ELSE server]]

DuplexInit ==
  /\ program = [e \in Side |-> "up"] /\ accepting = TRUE
  /\ op = PerConn("connect", "new")
  /\ buffer = PerConn(<<>>, <<>>) /\ offset = PerConn(0, 0)
  /\ link = [c \in Conn |-> "none"] /\ wire = PerConn(<<>>, <<>>)
  /\ faults = 0

Fault == faults < MaxFaults /\ faults' = faults + 1

(* Side e of c waits for the operation next, with the buffer b from o on. *)
Starts(e, c, next, b, o) ==
  /\ op' = [op EXCEPT ![e][c] = next]
  /\ buffer' = [buffer EXCEPT ![e][c] = b]
  /\ offset' = [offset EXCEPT ![e][c] = o]

(* Side e lets c go: the last handler that owned the socket is over. *)
LetsGo(e, c) ==
  /\ op' = [op EXCEPT ![e][c] = "over"]
  /\ UNCHANGED <<program, accepting, buffer, offset, link, wire>>

(* An exception ends program e with every connection it has. *)
Dies(e) ==
  /\ program' = [program EXCEPT ![e] = "down"]
  /\ accepting' = (accepting /\ e # "server")
  /\ op' = [op EXCEPT ![e] = [c \in Conn |-> "over"]]
  /\ UNCHANGED <<buffer, offset, link, wire>>

(* The connect completes without an error and the client goes on with the     *)
(* operation next.                                                             *)
Connected(c, next, b) ==
  /\ op["client"][c] = "connect" /\ program["server"] = "up"
  /\ link' = [link EXCEPT ![c] = "up"]
  /\ Starts("client", c, next, b, 0)
  /\ UNCHANGED <<program, accepting, wire, faults>>

(* The accept completes; the server goes on with a read into b.  A connection  *)
(* that was reset before is accepted and found reset.                          *)
Accepted(c, again, b) ==
  /\ accepting /\ link[c] # "none" /\ op["server"][c] = "new"
  /\ accepting' = again
  /\ Starts("server", c, "read", b, 0)
  /\ UNCHANGED <<program, link, wire, faults>>

(* The write of side e completes after k bytes. *)
Written(e, c, k) ==
  /\ op[e][c] = "write" /\ link[c] = "up"
  /\ LET rest == From(buffer[e][c], offset[e][c]) IN
       /\ k \in Amounts(rest, Len(rest))
       /\ wire' = [wire EXCEPT ![Peer(e)][c] = @ \o Front(rest, k)]
  /\ UNCHANGED <<program, accepting, link, faults>>

(* The read of side e completes after k bytes, which leaves Filled(e, c, k). *)
Read(e, c, k) ==
  /\ op[e][c] = "read" /\ link[c] = "up"
  /\ k \in Amounts(wire[e][c], Len(buffer[e][c]) - offset[e][c])
  /\ wire' = [wire EXCEPT ![e][c] = From(@, k)]
  /\ UNCHANGED <<program, accepting, link, faults>>

Filled(e, c, k) == Store(buffer[e][c], offset[e][c], Front(wire[e][c], k))

(* A read or write completes with an error, a reset or the peer's end, and the *)
(* handler returns.                                                            *)
GivesUp(e, c) ==
  /\ \/ op[e][c] \in {"read", "write"} /\ link[c] = "reset"
     \/ op[e][c] = "read" /\ op[Peer(e)][c] = "over" /\ wire[e][c] = <<>>
     \/ op[e][c] = "write" /\ op[Peer(e)][c] = "over"
  /\ LetsGo(e, c)
  /\ UNCHANGED faults

(* A handler of a connection that has been reset asks for the remote endpoint. *)
Throws(e, c, ops) == op[e][c] \in ops /\ link[c] = "reset" /\ Dies(e) /\ UNCHANGED faults

(* Side e has no operation under way: run() returns. *)
Returns(e) ==
  /\ program[e] = "up"
  /\ e = "server" => ~accepting
  /\ \A c \in Conn : op[e][c] \in {"over", "new"}
  /\ program' = [program EXCEPT ![e] = "returned"]
  /\ UNCHANGED <<accepting, op, buffer, offset, link, wire, faults>>

(* The network, or the end of a program, resets a connection. *)
Reset(c) ==
  /\ link[c] = "up"
  /\ IF \A e \in Side : program[e] = "up" THEN Fault ELSE UNCHANGED faults
  /\ link' = [link EXCEPT ![c] = "reset"]
  /\ UNCHANGED <<program, accepting, op, buffer, offset, wire>>

------------------------------------------------------------------------------
(* What side e of c has read so far. *)
Received(e, c) == Front(buffer[e][c], offset[e][c])

(* What side e of c has read, what is on its way to it and what its peer has    *)
(* still to write.                                                              *)
Conversation(e, c) ==
  Received(e, c) \o wire[e][c]
    \o IF op[Peer(e)][c] = "write" THEN From(buffer[Peer(e)][c], offset[Peer(e)][c]) ELSE <<>>
==============================================================================
