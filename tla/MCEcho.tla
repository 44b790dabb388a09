------------------------------- MODULE MCEcho --------------------------------
(* Echo for TLC: bytes are numbers, the message is longer than one read. *)
EXTENDS Echo

BothServers == {"callback", "switch"}

FourBytes == <<1, 2, 3, 0>>
==============================================================================
