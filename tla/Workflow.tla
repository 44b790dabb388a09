------------------------------ MODULE Workflow -------------------------------
(***************************************************************************)
(* What every style of coroutine in the repository is asked to do: accept  *)
(* the sessions in order, take each one through the same number of steps,  *)
(* and return only when all of them are through.  A step that fails ends    *)
(* its session, and an accept that fails ends the accepting; neither        *)
(* disturbs the other sessions.                                             *)
(***************************************************************************)
EXTENDS Naturals

CONSTANTS
  N,          (* number of sessions                                   *)
  Steps,      (* steps of a session                                   *)
  First       (* steps a session has taken by the time it is accepted *)

VARIABLES
  state,      \* "new" (not accepted), "active" or "failed", per session
  progress,   \* steps taken, per session
  closed,     \* accepting has failed
  returned    \* the program has returned its result

vars == <<state, progress, closed, returned>>

Session == 1..N

Init ==
  /\ state = [s \in Session |-> "new"]
  /\ progress = [s \in Session |-> 0]
  /\ closed = FALSE
  /\ returned = FALSE

(* The next session is accepted: every earlier one has been. *)
Accept(s) ==
  /\ ~closed /\ ~returned
  /\ state[s] = "new"
  /\ \A r \in 1..(s - 1) : state[r] # "new"
  /\ state' = [state EXCEPT ![s] = "active"]
  /\ progress' = [progress EXCEPT ![s] = First]
  /\ UNCHANGED <<closed, returned>>

(* An accept fails while a session is still expected. *)
AcceptFails ==
  /\ ~closed /\ ~returned
  /\ \E s \in Session : state[s] = "new"
  /\ closed' = TRUE
  /\ UNCHANGED <<state, progress, returned>>

Step(s) ==
  /\ ~returned
  /\ state[s] = "active"
  /\ progress[s] < Steps
  /\ progress' = [progress EXCEPT ![s] = @ + 1]
  /\ UNCHANGED <<state, closed, returned>>

Fail(s) ==
  /\ ~returned
  /\ state[s] = "active"
  /\ progress[s] < Steps
  /\ state' = [state EXCEPT ![s] = "failed"]
  /\ UNCHANGED <<progress, closed, returned>>

Over(s) ==
  \/ state[s] = "active" /\ progress[s] = Steps
  \/ state[s] = "failed"
  \/ state[s] = "new" /\ closed

Return ==
  /\ ~returned
  /\ \A s \in Session : Over(s)
  /\ returned' = TRUE
  /\ UNCHANGED <<state, progress, closed>>

Next ==
  \/ \E s \in Session : Accept(s) \/ Step(s) \/ Fail(s)
  \/ AcceptFails
  \/ Return

Spec == Init /\ [][Next]_vars
==============================================================================
