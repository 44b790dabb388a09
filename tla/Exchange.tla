------------------------------ MODULE Exchange -------------------------------
(***************************************************************************)
(* What every pair of echo programs promises: a connection asks once, is    *)
(* answered at most once and only after its whole request has arrived, or   *)
(* fails, and none fails unless something has gone wrong.  An exception that *)
(* ends a program fails many connections at once.                            *)
(***************************************************************************)
CONSTANT Conn      (* the connections *)

VARIABLES
  phase,     \* "new", "asked", "answered" or "failed", per connection
  faulted    \* an operation has failed, or a program could not do what it was asked

vars == <<phase, faulted>>

Init == phase = [c \in Conn |-> "new"] /\ faulted \in BOOLEAN

(* The server has the whole request. *)
Ask(c) == phase[c] = "new" /\ phase' = [phase EXCEPT ![c] = "asked"]

(* The client has the whole reply. *)
Answer(c) == phase[c] = "asked" /\ phase' = [phase EXCEPT ![c] = "answered"]

(* The connections of F fail, now or later than the fault. *)
Fail(F) ==
  /\ faulted'
  /\ \A c \in F : phase[c] # "answered"
  /\ phase' = [c \in Conn |-> IF c \in F THEN "failed" ELSE phase[c]]

Next ==
  /\ faulted => faulted'
  /\ \/ \E c \in Conn : Ask(c) \/ Answer(c)
     \/ \E F \in SUBSET Conn : Fail(F)

Spec == Init /\ [][Next]_vars
==============================================================================
