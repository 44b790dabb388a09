------------------------------ MODULE MCStdCoro ------------------------------
(* StdCoro for TLC: one lazy and two eager tasks, as two connections have them. *)
EXTENDS StdCoro

CONSTANTS accept_handle, connection1, connection2

OneLazy == {accept_handle}
TwoEager == {connection1, connection2}
AllCallers == {"test", "documented"}
==============================================================================
