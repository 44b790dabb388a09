----------------------------- MODULE PostStyles ------------------------------
(***************************************************************************)
(* The three programs on asio::post whose handlers continue the work          *)
(* themselves: asio_callback.cpp, asio_switch.cpp and asio_std_coroutine.ixx.   *)
(* An acceptor creates N data objects (coroutine frames), each of which writes  *)
(* the characters of value one by one and posts itself in between.              *)
(*                                                                         *)
(* There is one call of run(), so any io_context will do, asio_lite's too,      *)
(* which takes a handler from its queue when it has run.  Nothing but the       *)
(* handlers puts anything in the queue: the order of the output is determined.  *)
(***************************************************************************)
EXTENDS PostStylesState

ASSUME PostStylesAssumption ==
  /\ Styles \subseteq {"callback", "switch", "stdcoro"}
  /\ N \in Nat \ {0} /\ Size \in Nat \ {0}

vars == <<ioVars, style, main, _id, accepting, data, offset, output>>

Init ==
  /\ IoInit({})
  /\ style \in Styles
  /\ main = "begin"
  /\ _id = 0 /\ accepting = TRUE
  /\ data = [s \in Session |-> "none"]
  /\ offset = [s \in Session |-> 0] /\ output = [s \in Session |-> 0]

------------------------------------------------------------------------------
(* Session s is created; with eager its function writes the first character    *)
(* before it posts itself.                                                      *)
Creates(s, eager) ==
  /\ data' = [data EXCEPT ![s] = "live"]
  /\ output' = IF eager THEN [output EXCEPT ![s] = @ + 1] ELSE output
  /\ UNCHANGED offset

(* The test calls accept_handle, or posts it. *)
Begin ==
  /\ main = "begin"
  /\ main' = "start"
  /\ IF style = "switch"
     THEN queue' = <<Handle(1), AcceptHandle>> /\ Creates(1, TRUE)
     ELSE queue' = <<AcceptHandle>> /\ UNCHANGED <<data, offset, output>>
  /\ UNCHANGED <<kind, pending, stopped, style, _id, accepting>>

CallRun ==
  /\ main = "start"
  /\ IF Idle(queue, pending) THEN RefuseRun /\ main' = "returned" ELSE EnterRun /\ main' = "run"
  /\ UNCHANGED <<kind, pending, style, _id, accepting, data, offset, output>>

RunReturns ==
  /\ main = "run"
  /\ LeaveRun
  /\ main' = "returned"
  /\ UNCHANGED <<kind, pending, style, _id, accepting, data, offset, output>>

(* The handler h runs and posts the handlers of posts. *)
Runs(h, posts) ==
  /\ main = "run"
  /\ CanDispatch
  /\ Head(queue) = h
  /\ HandlerDone(Tail(queue) \o posts)
  /\ UNCHANGED <<kind, pending, style, main>>

(* accept_handle has nothing left to accept. *)
AcceptEnds ==
  /\ accepting' = FALSE
  /\ UNCHANGED <<_id, data, offset, output>>

CallbackAccept ==
  /\ style = "callback"
  /\ IF _id < N
     THEN /\ Runs(AcceptHandle, <<Handle(_id + 1), AcceptHandle>>)
          /\ Creates(_id + 1, FALSE)
          /\ _id' = _id + 1 /\ UNCHANGED accepting
     ELSE Runs(AcceptHandle, <<>>) /\ AcceptEnds

(* Mutant: the data object is made with the _id before _id++. *)
SwitchAcceptStale ==
  /\ style = "switch"
  /\ IF _id < N
     THEN /\ Runs(AcceptHandle, <<Handle(_id + 1), AcceptHandle>>)
          /\ Creates(_id + 1, TRUE)
          /\ _id' = _id + 1 /\ UNCHANGED accepting
     ELSE Runs(AcceptHandle, <<>>) /\ AcceptEnds

(* The loop goes on with _id++. *)
SwitchAccept ==
  /\ style = "switch"
  /\ IF _id + 1 < N
     THEN /\ Runs(AcceptHandle, <<Handle(_id + 2), AcceptHandle>>)
          /\ Creates(_id + 2, TRUE)
          /\ _id' = _id + 1 /\ UNCHANGED accepting
     ELSE Runs(AcceptHandle, <<>>) /\ AcceptEnds

(* cb of async_post: the session is created, then accept_handle is resumed. *)
CoroAccept ==
  /\ style = "stdcoro"
  /\ Runs(AcceptHandle, <<Handle(_id + 1)>> \o (IF _id + 1 < N THEN <<AcceptHandle>> ELSE <<>>))
  /\ Creates(_id + 1, FALSE)
  /\ IF _id + 1 < N THEN _id' = _id + 1 /\ UNCHANGED accepting
     ELSE accepting' = FALSE /\ UNCHANGED _id

(* Session s takes the character at offset[s], or the one after it. *)
Writes(s) == output' = [output EXCEPT ![s] = @ + 1]

Counts(s) ==
  /\ offset' = [offset EXCEPT ![s] = @ + 1]
  /\ UNCHANGED <<_id, accepting>>

Goes(s) == data' = [data EXCEPT ![s] = "gone"]

(* The call after the last character finds none and posts nothing. *)
CallbackHandle(s) ==
  /\ style = "callback"
  /\ IF offset[s] < Size
     THEN Runs(Handle(s), <<Handle(s)>>) /\ Writes(s) /\ Counts(s) /\ UNCHANGED data
     ELSE Runs(Handle(s), <<>>) /\ Goes(s) /\ UNCHANGED <<_id, accepting, offset, output>>

(* The loop goes on with offset++. *)
SwitchHandle(s) ==
  /\ style = "switch"
  /\ Counts(s)
  /\ IF offset[s] + 1 < Size THEN Runs(Handle(s), <<Handle(s)>>) /\ Writes(s) /\ UNCHANGED data
     ELSE Runs(Handle(s), <<>>) /\ Goes(s) /\ UNCHANGED output

(* Mutant: the coroutine is resumed twice. *)
CoroHandleTwice(s) ==
  /\ style = "stdcoro"
  /\ Writes(s) /\ Counts(s)
  /\ IF offset[s] + 1 < Size THEN Runs(Handle(s), <<Handle(s), Handle(s)>>) /\ UNCHANGED data
     ELSE Runs(Handle(s), <<>>) /\ Goes(s)

(* cb of async_post: the character is written, then the coroutine is resumed;  *)
(* after the last one its frame destroys itself.                                *)
CoroHandle(s) ==
  /\ style = "stdcoro"
  /\ Writes(s) /\ Counts(s)
  /\ IF offset[s] + 1 < Size THEN Runs(Handle(s), <<Handle(s)>>) /\ UNCHANGED data
     ELSE Runs(Handle(s), <<>>) /\ Goes(s)

------------------------------------------------------------------------------
Program ==
  \/ Begin \/ CallRun \/ RunReturns
  \/ CallbackAccept \/ SwitchAccept \/ CoroAccept
  \/ \E s \in Session : CallbackHandle(s) \/ SwitchHandle(s) \/ CoroHandle(s)

(* The program has returned. *)
Finished == main = "returned" /\ UNCHANGED vars

Next == Program \/ Finished

(* The program's only thread keeps running. *)
Spec == Init /\ [][Next]_vars /\ WF_vars(Program)

==============================================================================
