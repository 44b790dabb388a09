--------------------------- MODULE MCRunScheduler ----------------------------
(* RunScheduler for TLC. *)
EXTENDS RunScheduler

(* Every io_context: safety does not depend on run() making progress. *)
AllKinds == {"reactor", "iocp", "restarted"}

(* The io_contexts on which a second run() still runs handlers. *)
WorkingKinds == {"iocp", "restarted"}

(* The contract boost::asio documents, as epoll, kqueue and select have it. *)
ReactorOnly == {"reactor"}
==============================================================================
