--------------------------- MODULE MCFiberManager ----------------------------
(* FiberManager for TLC. *)
EXTENDS FiberManager

AllKinds == {"reactor", "iocp", "restarted"}
==============================================================================
