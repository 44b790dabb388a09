-------------------------------- MODULE Echo ---------------------------------
(***************************************************************************)
(* callback_client.cpp and callback_server.cpp: N connections send a         *)
(* message that ends with end_char, the server waits wait_seconds and sends   *)
(* it back, the client counts the replies.                                    *)
(*                                                                         *)
(* switch_server.ixx is the same server as a coroutine made of a switch        *)
(* statement: each of its resumptions does what a handler of the callback       *)
(* server does, but for the last one, which ends the connection.               *)
(***************************************************************************)
EXTENDS Duplex

CONSTANTS
  Servers,        (* the servers looked at: "callback", "switch"      *)
  Message,        (* to_buffer("client")                              *)
  EndChar,        (* end_char                                         *)
  EmptyChar,      (* empty_char                                       *)
  Chunk,          (* the room made for a read: 4 in the code          *)
  MaxReconnects   (* bound: connects that fail while the server is up *)

ASSUME EchoAssumption ==
  /\ Servers \subseteq {"callback", "switch"}
  /\ Chunk \in Nat \ {0} /\ MaxReconnects \in Nat
  /\ EmptyChar \in Nat
  /\ Message \in Seq(Nat) \ {<<>>} /\ Message[Len(Message)] = EndChar
  /\ \A k \in 1..(Len(Message) - 1) : Message[k] # EndChar

VARIABLES
  server,                 \* which of the servers it is
  g_count, g_reconnect    \* the client's counters

counters == <<g_count, g_reconnect>>
vars == <<duplexVars, server, counters>>

Init == DuplexInit /\ server \in Servers /\ g_count = 0 /\ g_reconnect = 0

------------------------------------------------------------------------------
(* on_connect without an error: the message is about to be written. *)
Connect(c) == Connected(c, "write", Message) /\ UNCHANGED counters

(* Mutant: a connect that fails is the end of its connection. *)
ReconnectNot(c) ==
  /\ op["client"][c] = "connect"
  /\ program["server"] = "down" \/ g_reconnect < MaxReconnects
  /\ LetsGo("client", c)
  /\ UNCHANGED <<counters, faults>>

(* on_connect with an error connects again; a server that is down refuses for *)
(* ever, where the counter stops at its bound.                                 *)
Reconnect(c) ==
  /\ op["client"][c] = "connect"
  /\ program["server"] = "down" \/ g_reconnect < MaxReconnects
  /\ g_reconnect' = IF g_reconnect < MaxReconnects THEN g_reconnect + 1 ELSE g_reconnect
  /\ UNCHANGED <<duplexVars, g_count>>

(* Mutant: the next accept is not started. *)
AcceptOnce(c) == Accepted(c, FALSE, Resize(<<>>, Chunk, EmptyChar)) /\ UNCHANGED counters

(* on_accept starts the next accept and the first read. *)
Accept(c) == Accepted(c, TRUE, Resize(<<>>, Chunk, EmptyChar)) /\ UNCHANGED counters

(* on_accept with an error: get_info() of a socket that was never connected. *)
AcceptFails == accepting /\ Fault /\ Dies("server") /\ UNCHANGED counters

(* All is written: the callback programs read what the peer sends next, the     *)
(* coroutine of the switch server has come to its end.                           *)
AfterWrite(e, c, b) ==
  IF e = "server" /\ server = "switch" THEN Starts(e, c, "over", b, Len(b))
  ELSE Starts(e, c, "read", Resize(b, Chunk, EmptyChar), 0)

(* on_write, the same in all programs: the rest is written, unless all is. *)
WriteSome(e, c) ==
  /\ \E k \in 1..Len(Message) :
       LET b == buffer[e][c]  o == offset[e][c] + k IN
       /\ Written(e, c, k)
       /\ IF o = Len(b) THEN AfterWrite(e, c, b) ELSE Starts(e, c, "write", b, o)
  /\ UNCHANGED counters

(* The message is not complete: room is made behind what has been read. *)
ReadMore(e, c, b, o) == Starts(e, c, "read", Resize(b, o + Chunk, EmptyChar), o)

(* Mutant: any reply is counted, complete or not. *)
CompleteOrNot(e, b, o) == b[o] = EndChar \/ e = "client"

(* on_read compares only the last byte of a read with end_char. *)
Complete(e, b, o) == b[o] = EndChar

(* on_read: the server starts the timer, the client counts the reply. *)
ReadSome(e, c) ==
  /\ \E k \in 1..Chunk :
       LET b == Filled(e, c, k)  o == offset[e][c] + k IN
       /\ Read(e, c, k)
       /\ IF Complete(e, b, o)
          THEN /\ Starts(e, c, IF e = "server" THEN "timer" ELSE "over", b, o)
               /\ g_count' = IF e = "client" THEN g_count + 1 ELSE g_count
          ELSE ReadMore(e, c, b, o) /\ UNCHANGED g_count
  /\ UNCHANGED g_reconnect

(* Mutant: the buffer keeps the room made for the last read. *)
TimeoutUncut(c) ==
  /\ op["server"][c] = "timer"
  /\ Starts("server", c, "write", buffer["server"][c], 0)
  /\ UNCHANGED <<program, accepting, link, wire, counters, faults>>

(* The timer's handler: the bytes read, and no more, are about to be written. *)
Timeout(c) ==
  /\ op["server"][c] = "timer"
  /\ Starts("server", c, "write", Received("server", c), 0)
  /\ UNCHANGED <<program, accepting, link, wire, counters, faults>>

TimerFails(c) ==
  op["server"][c] = "timer" /\ Fault /\ LetsGo("server", c) /\ UNCHANGED counters

(* The error paths of on_read and on_write, and get_info() when it throws. *)
Loses(e, c) ==
  /\ GivesUp(e, c) \/ Throws(e, c, {"read", "timer", "write"})
  /\ UNCHANGED counters

------------------------------------------------------------------------------
Step(e, c) == WriteSome(e, c) \/ ReadSome(e, c) \/ Loses(e, c)
ClientStep(c) == (Connect(c) \/ Reconnect(c) \/ Step("client", c)) /\ UNCHANGED server
ServerStep(c) ==
  (Accept(c) \/ Timeout(c) \/ TimerFails(c) \/ Step("server", c)) /\ UNCHANGED server
ClientReturns == Returns("client") /\ UNCHANGED <<server, counters>>
AcceptorEnds == AcceptFails /\ UNCHANGED server
Network == \E c \in Conn : Reset(c) /\ UNCHANGED <<server, counters>>

Next ==
  \/ \E c \in Conn : ClientStep(c) \/ ServerStep(c)
  \/ ClientReturns \/ AcceptorEnds \/ Network

Spec == Init /\ [][Next]_vars

(* Operations that can complete do, and both programs run their handlers. *)
FairSpec ==
  /\ Spec
  /\ WF_vars(ClientReturns)
  /\ \A c \in Conn : WF_vars(ClientStep(c)) /\ WF_vars(ServerStep(c))

------------------------------------------------------------------------------

(* No byte is lost, repeated, reordered or made up by partial reads and writes *)
(* or by the padding and cutting of the buffers, in either direction (on_read   *)
(* and on_write of both programs).                                              *)
BytesConserved ==
  \A e \in Side, c \in Conn :
    op[e][c] = "read" /\ op[Peer(e)][c] = "write" => Conversation(e, c) = Message

(* The client has read all of the reply. *)
Got(c) ==
  op["client"][c] = "over" /\ op["server"][c] # "new" /\ Received("client", c) = Message

(* g_count, which the client prints at the end, is the number of connections    *)
(* whose whole reply has been read: none is counted twice or cut short.          *)
CountsReplies == g_count = Cardinality({c \in Conn : Got(c)})

(* The whole reply has left the server and the client is still reading it. *)
Replied(c) ==
  op["client"][c] = "read" /\ Received("client", c) \o wire["client"][c] = Message

X == INSTANCE Exchange WITH
       phase <- [c \in Conn |->
         IF Got(c) THEN "answered"
         ELSE IF \/ op["client"][c] = "over" \/ link[c] = "reset"
                 \/ op["server"][c] = "over" /\ ~Replied(c)
              THEN "failed"
         ELSE IF op["server"][c] \in {"timer", "write"} \/ Replied(c) THEN "asked"
         ELSE "new"],
       faulted <- faults > 0

(* Every connection is answered once, after its whole request has arrived, or  *)
(* fails after a fault.  In good weather none does, however often connecting    *)
(* fails: no error path, and no get_info() that throws, is reached.             *)
RefinesExchange == X!Spec

(* The client returns, unless there is no server left to connect to. *)
Terminates == <>(program["client"] # "up" \/ program["server"] = "down")
==============================================================================
