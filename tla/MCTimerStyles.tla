---------------------------- MODULE MCTimerStyles ----------------------------
(* TimerStyles for TLC. *)
EXTENDS TimerStyles

(* The io_contexts the programs are built with. *)
BothKinds == {"reactor", "iocp"}

AllStyles == {"callback", "switch", "stdcoro"}
==============================================================================
