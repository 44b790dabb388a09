------------------------------ MODULE IoContext ------------------------------
(***************************************************************************)
(* The event loop every program of the repository is driven by: the part   *)
(* of boost::asio::io_context (and of the repository's own io_context,      *)
(* asio_lite) that its run() loops depend on.                               *)
(*                                                                         *)
(* The programs call run() many times and never call restart().  What the  *)
(* second and later calls do differs between implementations, so the kind  *)
(* of io_context is chosen once, in the initial state:                      *)
(*                                                                         *)
(*   "reactor"    the documented contract (epoll, kqueue, select): when     *)
(*                the work runs out the context is stopped, and run() on a  *)
(*                stopped context returns without running a handler;        *)
(*   "iocp"       Windows: stopping posts a packet to the completion port.  *)
(*                run() takes completions in order and returns when it      *)
(*                meets the packet, which it posts again;                   *)
(*   "restarted"  run() works until nothing is left, however often it is    *)
(*                called: asio_lite, which has no stopped state, or an      *)
(*                io_context restarted before each run().                   *)
(*                                                                         *)
(* Handlers are records [tag, id]; the modules that extend this one say     *)
(* what running a handler does.                                             *)
(***************************************************************************)
EXTENDS Naturals, Sequences

CONSTANT Kinds        (* the kinds of io_context the program may be given *)

ASSUME KindsAssumption == Kinds \subseteq {"reactor", "iocp", "restarted"}

VARIABLES
  kind,      \* the kind of this io_context
  queue,     \* handlers ready to run, oldest first; on "iocp" also the stop packet
  pending,   \* asynchronous operations started and not completed yet
  stopped    \* io_context::stopped()

ioVars == <<kind, queue, pending, stopped>>

(* The packet win_iocp_io_context::stop() posts to the completion port. *)
StopPacket == [tag |-> "stop", id |-> 0]

(* x is nowhere, or at exactly one position, of the sequence q. *)
Never(q, x) == \A k \in DOMAIN q : q[k] # x
Once(q, x)  == \E k \in DOMAIN q : q[k] = x /\ \A j \in DOMAIN q : q[j] = x => j = k

(* A freshly constructed io_context on which the operations ops were started. *)
IoInit(ops) ==
  /\ kind \in Kinds
  /\ queue = <<>>
  /\ pending = ops
  /\ stopped = FALSE

(* No outstanding work: no operation under way and no handler waiting. *)
Idle(q, ops) == ops = {} /\ \A k \in DOMAIN q : q[k] = StopPacket

(* stop(), called by run() when it finds, or leaves, no outstanding work. *)
Stop(q) ==
  /\ stopped' = TRUE
  /\ queue' = IF kind = "iocp" /\ ~stopped THEN Append(q, StopPacket) ELSE q

(* run() is called and there is work: it starts to run handlers. *)
EnterRun ==
  /\ ~Idle(queue, pending)
  /\ stopped' = (stopped /\ kind # "restarted")
  /\ UNCHANGED queue

(* run() is called and there is none: it stops the context and returns. *)
RefuseRun == Idle(queue, pending) /\ Stop(queue)

(* Inside run(): the oldest handler may be taken from the queue. *)
CanDispatch ==
  /\ queue # <<>>
  /\ Head(queue) # StopPacket
  /\ stopped => kind = "iocp"

(* A handler has run and left the queue q and the operations ops; when no work *)
(* is left the context stops.                                                  *)
HandlerLeaves(q, ops) ==
  IF Idle(q, ops) THEN Stop(q) ELSE queue' = q /\ UNCHANGED stopped

(* The same for a handler that starts no operation. *)
HandlerDone(q) == HandlerLeaves(q, pending)

(* run() returns. *)
LeaveRun ==
  /\ UNCHANGED stopped
  /\ \/ /\ kind = "iocp"
        /\ queue # <<>>
        /\ Head(queue) = StopPacket
        /\ queue' = Append(Tail(queue), StopPacket)
     \/ /\ kind # "iocp"
        /\ stopped
        /\ UNCHANGED queue
==============================================================================
