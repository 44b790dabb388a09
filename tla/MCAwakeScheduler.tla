-------------------------- MODULE MCAwakeScheduler ---------------------------
(* AwakeScheduler for TLC. *)
EXTENDS AwakeScheduler

(* The io_contexts on which a second run() still runs handlers. *)
WorkingKinds == {"iocp", "restarted"}

(* Every io_context: safety does not depend on run() making progress. *)
AllKinds == {"reactor", "iocp", "restarted"}
==============================================================================
