---------------------------- MODULE MCAsioStrand -----------------------------
(* AsioStrand for TLC, with two io threads. *)
EXTENDS AsioStrand

CONSTANTS t1, t2
Threads == {t1, t2}
==============================================================================
