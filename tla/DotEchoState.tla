---------------------------- MODULE DotEchoState -----------------------------
(***************************************************************************)
(* The state of the older echo programs and what must hold of it.  DotEcho   *)
(* says what they do.                                                        *)
(***************************************************************************)
EXTENDS Duplex

(* "client." and "server.", per side; the switch client says "server." too, but *)
(* no property looks at the words.                                              *)
CONSTANT Text

VARIABLES
  style,     \* which of the programs each side is
  cut        \* per connection: a callback program's write moved only a part (history)

------------------------------------------------------------------------------
(* Side e's handler or write loop finds its write through, and says so: "write    *)
(* fininish!".  It reads next, or, in the switch server, is over.                *)
Reports(e, c) ==
  /\ op[e][c] = "write"
  /\ op'[e][c] = "read" \/ (op'[e][c] = "over" /\ offset'[e][c] > offset[e][c])

(* All of side e's text has left it: its peer has read it or it is on its way. *)
TextIsOut(e, c) == Received(Peer(e), c) \o wire[Peer(e)][c] = Text[e]

(* The empty write that common.cpp's on_write() starts for the rest of a text     *)
(* which async_write() has cleared.                                              *)
WritesNothing(e, c) == style[e] = "callback" /\ buffer[e][c] = <<>> /\ cut[c]

(* When a side reports its write as finished, client or server, in on_write of   *)
(* common.cpp or in the coroutines' write loop, its whole text is out, in however *)
(* many pieces it and its peer's were written and read, as long as the peer has  *)
(* not let go.  One report alone is false: that of a callback program which has   *)
(* cleared the rest and written nothing instead (common.cpp:61, :26).             *)
FinishedMeansWritten ==
  [][\A e \in Side, c \in Conn :
       Reports(e, c) /\ op'[Peer(e)][c] # "over" => TextIsOut(e, c)' \/ WritesNothing(e, c)
    ]_<<duplexVars, style, cut>>

(* Even when writes are cut, a side reads nothing but the beginning of what its *)
(* peer has to say.                                                              *)
BeginningsOnly ==
  \A e \in Side, c \in Conn :
    LET said == Received(e, c) \o wire[e][c] IN
    op[e][c] = "read" => said = Front(Text[Peer(e)], Len(said))

(* The client has read the whole reply. *)
DotGot(c) == op["client"][c] = "over" /\ Received("client", c) = Text["server"]

(* The whole reply has left the server and the client is still reading it. *)
DotReplied(c) ==
  op["client"][c] = "read" /\ Received("client", c) \o wire["client"][c] = Text["server"]

DotX == INSTANCE Exchange WITH
       phase <- [c \in Conn |->
         IF DotGot(c) THEN "answered"
         ELSE IF \/ op["client"][c] = "over" \/ link[c] = "reset" \/ cut[c]
                 \/ op["server"][c] = "over" /\ ~DotReplied(c)
              THEN "failed"
         ELSE IF op["server"][c] = "write" \/ DotReplied(c) THEN "asked"
         ELSE "new"],
       faulted <- faults > 0 \/ \E c \in Conn : cut[c]

(* Every connection is answered once, after its whole request has arrived, or  *)
(* fails: after a fault, or because a callback program's write was cut short.   *)
DotRefinesExchange == DotX!Spec
==============================================================================
