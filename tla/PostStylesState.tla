--------------------------- MODULE PostStylesState ---------------------------
(***************************************************************************)
(* The state of the programs on asio::post whose handlers continue the work  *)
(* themselves, and what must hold of it.  PostStyles says what they do.       *)
(***************************************************************************)
EXTENDS StylesState

CONSTANT Size   (* value.size(), "abc" in the code *)

(* Besides, main is "begin" before the test has called accept_handle. *)
VARIABLES
  _id,       \* the acceptor's counter, from 0
  data,      \* "none", "live" or "gone", per session
  offset,    \* its loop counter: data.offset, or the place in buffer
  output     \* characters in _output[id]

Handle(s)    == [tag |-> "handle", id |-> s]
AcceptHandle == [tag |-> "accept", id |-> 0]

------------------------------------------------------------------------------
(* Exactly one queued handler refers to the acceptor while it is not through   *)
(* and to each living session: shared_ptr<Data>, or the frame, lives as long as *)
(* something will continue it and no longer (handle and accept_handle).          *)
OnePostedHandler ==
  main # "begin" =>
    /\ IF accepting THEN Once(queue, AcceptHandle) ELSE Never(queue, AcceptHandle)
    /\ \A s \in Session :
         IF data[s] = "live" THEN Once(queue, Handle(s)) ELSE Never(queue, Handle(s))

(* The three programs do what Workflow asks, and in the same steps; what a     *)
(* session is left with is its output, and that is complete when run() comes   *)
(* back (REQUIRE(i.second == "abc")).                                            *)
PostW == INSTANCE Workflow WITH
       First <- 0,
       Steps <- Size,
       state <- [s \in Session |-> IF data[s] = "none" THEN "new" ELSE "active"],
       progress <- [s \in Session |-> IF data[s] = "gone" THEN output[s] ELSE offset[s]],
       closed <- FALSE,
       returned <- main = "returned"

PostRefinesWorkflow == PostW!Spec
==============================================================================
