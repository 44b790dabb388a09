----------------------------- MODULE MCTaskEcho ------------------------------
(* TaskEcho for TLC. *)
EXTENDS TaskEcho

Words == [e \in Side |-> IF e = "client" THEN <<1, 2>> ELSE <<3, 4>>]
==============================================================================
