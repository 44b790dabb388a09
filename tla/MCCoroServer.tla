---------------------------- MODULE MCCoroServer -----------------------------
(* CoroServer for TLC. *)
EXTENDS CoroServer

BothKinds == {"reactor", "iocp"}
==============================================================================
