------------------------------- MODULE DotEcho -------------------------------
(***************************************************************************)
(* The older echo programs, whose messages end with a dot: the callback       *)
(* client and server with their common.cpp, and the client and server whose    *)
(* handlers are coroutines made of a switch statement (common.h).  Either      *)
(* client may talk to either server.                                           *)
(*                                                                         *)
(* common.cpp's async_write() clears the buffer whenever it is called (its     *)
(* test _buffer.size() >= 0 is always true), also when on_write calls it with   *)
(* an empty buffer to write the rest; cut records the connections this has      *)
(* happened to.                                                                 *)
(***************************************************************************)
EXTENDS DotEchoState

CONSTANTS
  Styles,     (* the programs looked at: "callback", "switch"            *)
  Dot, Zero,  (* the last character, and the one buffers are filled with *)
  Chunk       (* the room made for a read: 4 in the code                 *)

ASSUME DotEchoAssumption ==
  /\ Styles \subseteq {"callback", "switch"}
  /\ Chunk \in Nat \ {0} /\ Zero \in Nat
  /\ \A e \in Side :
       /\ Text[e] \in Seq(Nat) \ {<<>>} /\ Text[e][Len(Text[e])] = Dot
       /\ \A k \in 1..(Len(Text[e]) - 1) : Text[e][k] # Dot

vars == <<duplexVars, style, cut>>

Init == DuplexInit /\ style \in [Side -> Styles] /\ cut = [c \in Conn |-> FALSE]

------------------------------------------------------------------------------
Connect(c) == Connected(c, "write", Text["client"])

(* on_connect with an error returns: this connection is not tried again. *)
ConnectFails(c) ==
  /\ op["client"][c] = "connect"
  /\ IF program["server"] = "up" THEN Fault ELSE UNCHANGED faults
  /\ LetsGo("client", c)

(* on_accept, or the loop of Accept, goes on accepting and starts to read. *)
Accept(c) == Accepted(c, TRUE, Resize(<<>>, Chunk, Zero))

(* With an error it returns before it starts the next accept. *)
AcceptFails ==
  /\ accepting /\ Fault
  /\ accepting' = FALSE
  /\ UNCHANGED <<program, op, buffer, offset, link, wire>>

(* async_read(_data, 4, on_read), with what the buffer held left in front. *)
ReadsOn(e, c, b, o) == Starts(e, c, "read", Resize(b, o + Chunk, Zero), o)

(* common.cpp's on_write.  After a write that was cut short it calls            *)
(* async_write with an empty buffer, and that clears the text.                  *)
CallbackWrite(e, c) ==
  /\ style[e] = "callback"
  /\ \E k \in 1..Len(Text[e]) :
       LET whole == offset[e][c] + k = Len(buffer[e][c]) IN
       /\ Written(e, c, k)
       /\ IF whole THEN ReadsOn(e, c, buffer[e][c], 0) ELSE Starts(e, c, "write", <<>>, 0)
       /\ cut' = [cut EXCEPT ![c] = @ \/ ~whole]

(* Writing nothing completes at once with zero bytes, and offset and size are  *)
(* equal.                                                                       *)
CallbackWriteNothing(e, c) ==
  /\ style[e] = "callback"
  /\ op[e][c] = "write" /\ buffer[e][c] = <<>>
  /\ ReadsOn(e, c, <<>>, 0)
  /\ UNCHANGED <<program, accepting, link, wire, faults, cut>>

(* Mutant: the loop's condition is tested with the size of one read. *)
SwitchWriteShort(e, c) ==
  /\ style[e] = "switch"
  /\ \E k \in 1..Len(Text[e]) :
       LET o == offset[e][c] + k IN
       /\ Written(e, c, k)
       /\ IF o < Chunk THEN Starts(e, c, "write", buffer[e][c], o)
          ELSE IF e = "client" THEN ReadsOn(e, c, <<>>, 0)
          ELSE Starts(e, c, "over", buffer[e][c], o)

(* The write loop of the coroutines: the server's ends there, the client's goes *)
(* on to read.                                                                   *)
SwitchWrite(e, c) ==
  /\ style[e] = "switch"
  /\ \E k \in 1..Len(Text[e]) :
       LET o == offset[e][c] + k IN
       /\ Written(e, c, k)
       /\ IF o < Len(buffer[e][c]) THEN Starts(e, c, "write", buffer[e][c], o)
          ELSE IF e = "client" THEN ReadsOn(e, c, <<>>, 0)
          ELSE Starts(e, c, "over", buffer[e][c], o)

(* Mutant: what was read before is forgotten. *)
GoesOnForgetting(e, c, b, o) ==
  IF b[o] # Dot THEN ReadsOn(e, c, b, 0)
  ELSE IF e = "client" THEN Starts(e, c, "over", b, o)
  ELSE Starts(e, c, "write", Text[e], 0)

(* Mutant: the client closes after its first read. *)
GoesOnClosing(e, c, b, o) ==
  IF e = "client" THEN Starts(e, c, "over", b, o)
  ELSE IF b[o] # Dot THEN ReadsOn(e, c, b, o)
  ELSE Starts(e, c, "write", Text[e], 0)

(* After a read: more is read, or the client closes, or the server answers. *)
GoesOn(e, c, b, o) ==
  IF b[o] # Dot THEN ReadsOn(e, c, b, o)
  ELSE IF e = "client" THEN Starts(e, c, "over", b, o)
  ELSE Starts(e, c, "write", Text[e], 0)

(* on_read of the callback programs, the read loops of the coroutines. *)
ReadSome(e, c) ==
  \E k \in 1..Chunk : Read(e, c, k) /\ GoesOn(e, c, Filled(e, c, k), offset[e][c] + k)

(* remote_endpoint() is asked for before the error_code is looked at; only the *)
(* callback client's on_read does not ask.                                      *)
Loses(e, c) ==
  \/ GivesUp(e, c)
  \/ Throws(e, c, IF e = "client" /\ style[e] = "callback" THEN {"write"} ELSE {"read", "write"})

------------------------------------------------------------------------------
(* One step of side e for connection c. *)
Step(e, c) ==
  /\ \/ CallbackWrite(e, c) \/ CallbackWriteNothing(e, c)
     \/ (SwitchWrite(e, c) \/ ReadSome(e, c) \/ Loses(e, c)) /\ UNCHANGED cut
  /\ UNCHANGED style

ClientStep(c) ==
  \/ (Connect(c) \/ ConnectFails(c)) /\ UNCHANGED <<style, cut>>
  \/ Step("client", c)
ServerStep(c) ==
  \/ Accept(c) /\ UNCHANGED <<style, cut>>
  \/ Step("server", c)
Ends(e) == Returns(e) /\ UNCHANGED <<style, cut>>
AcceptorEnds == AcceptFails /\ UNCHANGED <<style, cut>>
Network(c) == Reset(c) /\ UNCHANGED <<style, cut>>

(* A program that has ended has closed its sockets, also those not accepted. *)
Closing(c) == program["server"] # "up" /\ Network(c)

Next ==
  \/ \E c \in Conn : ClientStep(c) \/ ServerStep(c) \/ Network(c)
  \/ \E e \in Side : Ends(e)
  \/ AcceptorEnds

Spec == Init /\ [][Next]_vars

(* Operations that can complete do, both programs run their handlers and the   *)
(* system closes the sockets of a program that has ended.                       *)
FairSpec ==
  /\ Spec
  /\ \A e \in Side : WF_vars(Ends(e))
  /\ \A c \in Conn : WF_vars(ClientStep(c)) /\ WF_vars(ServerStep(c)) /\ WF_vars(Closing(c))

------------------------------------------------------------------------------
(* The client returns, whichever of the servers it talks to, unless a callback  *)
(* program's write is cut short: then the other side waits for the dot.          *)
Terminates == <>(program["client"] # "up" \/ \E c \in Conn : cut[c])
==============================================================================
