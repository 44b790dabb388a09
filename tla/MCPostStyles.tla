---------------------------- MODULE MCPostStyles -----------------------------
(* PostStyles for TLC. *)
EXTENDS PostStyles

AllKinds == {"reactor", "iocp", "restarted"}
AllStyles == {"callback", "switch", "stdcoro"}
==============================================================================
