------------------------------ MODULE MCDotEcho ------------------------------
(* DotEcho for TLC: three characters, so that a read of two does not suffice. *)
EXTENDS DotEcho

BothStyles == {"callback", "switch"}

Words == [e \in Side |-> IF e = "client" THEN <<1, 2, 9>> ELSE <<5, 6, 9>>]
==============================================================================
