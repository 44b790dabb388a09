---------------------------- MODULE FiberManager -----------------------------
(***************************************************************************)
(* handle() of asio_fiber.ixx: a manager fiber that creates N fibers, calls    *)
(* run() for them, joins those whose ids it finds in a bounded channel, and      *)
(* yields.  A fiber writes its characters one by one; after each it posts a       *)
(* handler that sets its local flag finished, and yields until the flag is set.  *)
(* Its scope guard pushes its id to the channel, where it may have to wait.       *)
(*                                                                         *)
(* One thread runs all fibers.  Control changes hands only where a fiber yields,  *)
(* waits or ends.  Which fiber is next is left open: the code sets no scheduling  *)
(* algorithm, and nothing here depends on Boost's default one.  A fiber that      *)
(* looks at its flag and yields again has changed nothing, and takes no step.     *)
(***************************************************************************)
EXTENDS IoContext

CONSTANTS
  N,          (* _count: 3 in the code              *)
  Size,       (* buffer.size(), "abc" in the code   *)
  Capacity    (* of chan: 2 in the code             *)

ASSUME FiberManagerAssumption ==
  /\ N \in Nat \ {0} /\ Size \in Nat \ {0}
  /\ Capacity \in Nat \ {0, 1}

Ids == 1..N

(* A buffered_channel keeps one of its slots free. *)
Room == Capacity - 1

VARIABLES
  manager,    \* "create", "call" (run() is next), "loop" (it yields), "run", "pop",
              \* "join" or "returned"
  joining,    \* the fiber the manager waits for in join(), 0 for none
  fiber_cont, \* keys of fiber_cont
  at,         \* where each fiber is: "none", "new", "wait" (its flag), "push", "ended"
  finished,   \* its flag
  output,     \* characters in _output[id]
  chan,       \* ids in the channel, oldest first
  parked      \* fibers asleep in push() until an id is taken

fiberVars == <<at, finished, output, chan, parked>>

vars == <<ioVars, manager, joining, fiber_cont, fiberVars>>

Flag(f) == [tag |-> "flag", id |-> f]

Init ==
  /\ IoInit({})
  /\ manager = "create" /\ joining = 0
  /\ fiber_cont = {}
  /\ at = [f \in Ids |-> "none"]
  /\ finished = [f \in Ids |-> FALSE]
  /\ output = [f \in Ids |-> 0]
  /\ chan = <<>> /\ parked = {}

------------------------------------------------------------------------------
(* The manager fiber. *)
Create ==
  /\ manager = "create"
  /\ manager' = "call"
  /\ fiber_cont' = Ids
  /\ at' = [f \in Ids |-> "new"]
  /\ UNCHANGED <<ioVars, joining, finished, output, chan, parked>>

CallRun ==
  /\ manager \in {"call", "loop"}
  /\ fiber_cont # {}
  /\ IF Idle(queue, pending) THEN RefuseRun /\ manager' = "pop" ELSE EnterRun /\ manager' = "run"
  /\ UNCHANGED <<kind, pending, joining, fiber_cont, fiberVars>>

(* Mutant: the flag that is set belongs to all of them. *)
RunFlagOfAll(f) ==
  /\ manager = "run"
  /\ CanDispatch
  /\ Head(queue) = Flag(f)
  /\ finished' = [g \in Ids |-> TRUE]
  /\ HandlerDone(Tail(queue))
  /\ UNCHANGED <<kind, pending, manager, joining, fiber_cont, at, output, chan, parked>>

RunFlag(f) ==
  /\ manager = "run"
  /\ CanDispatch
  /\ Head(queue) = Flag(f)
  /\ finished' = [finished EXCEPT ![f] = TRUE]
  /\ HandlerDone(Tail(queue))
  /\ UNCHANGED <<kind, pending, manager, joining, fiber_cont, at, output, chan, parked>>

RunReturns ==
  /\ manager = "run"
  /\ LeaveRun
  /\ manager' = "pop"
  /\ UNCHANGED <<kind, pending, joining, fiber_cont, fiberVars>>

(* try_pop() finds nothing. *)
ChannelEmpty ==
  /\ manager = "pop"
  /\ chan = <<>>
  /\ manager' = "loop"
  /\ UNCHANGED <<ioVars, joining, fiber_cont, fiberVars>>

(* try_pop() takes an id and wakes one of the fibers that wait for room. *)
Pop ==
  /\ manager = "pop"
  /\ chan # <<>>
  /\ chan' = Tail(chan)
  /\ IF parked = {} THEN UNCHANGED parked ELSE \E f \in parked : parked' = parked \ {f}
  /\ IF Head(chan) \in fiber_cont
     THEN manager' = "join" /\ joining' = Head(chan)
     ELSE manager' = "loop" /\ UNCHANGED joining
  /\ UNCHANGED <<ioVars, fiber_cont, at, finished, output>>

(* Mutant: the entry stays in fiber_cont. *)
JoinOnly ==
  /\ manager = "join"
  /\ at[joining] = "ended"
  /\ joining' = 0
  /\ manager' = "loop"
  /\ UNCHANGED <<ioVars, fiber_cont, fiberVars>>

(* The fiber is joined once it has ended, and its entry is erased. *)
Join ==
  /\ manager = "join"
  /\ at[joining] = "ended"
  /\ fiber_cont' = fiber_cont \ {joining}
  /\ joining' = 0
  /\ manager' = "loop"
  /\ UNCHANGED <<ioVars, fiberVars>>

(* fiber_cont is empty: the manager ends, and the scope guard of handle() joins it. *)
Return ==
  /\ manager = "loop"
  /\ fiber_cont = {}
  /\ manager' = "returned"
  /\ UNCHANGED <<ioVars, joining, fiber_cont, fiberVars>>

------------------------------------------------------------------------------
(* A fiber runs only while the manager has yielded or waits. *)
Scheduled(f) == manager \in {"loop", "join"} /\ UNCHANGED <<kind, pending, manager, joining, fiber_cont>>

(* Fiber f is at the top of its loop: at its start, or its flag has been set. *)
GoesOn(f) == at[f] = "new" \/ (at[f] = "wait" /\ finished[f])

Writes(f) ==
  /\ Scheduled(f)
  /\ GoesOn(f) /\ output[f] < Size
  /\ output' = [output EXCEPT ![f] = @ + 1]
  /\ queue' = Append(queue, Flag(f))
  /\ finished' = [finished EXCEPT ![f] = FALSE]
  /\ at' = [at EXCEPT ![f] = "wait"]
  /\ UNCHANGED <<stopped, chan, parked>>

(* In the scope guard: push() has not been through yet. *)
MayPush(f) == (GoesOn(f) /\ output[f] = Size) \/ (at[f] = "push" /\ f \notin parked)

(* There is room: the id is pushed and the fiber ends without another stop. *)
Pushes(f) ==
  /\ Scheduled(f)
  /\ MayPush(f)
  /\ Len(chan) < Room
  /\ chan' = Append(chan, f)
  /\ at' = [at EXCEPT ![f] = "ended"]
  /\ UNCHANGED <<queue, stopped, finished, output, parked>>

(* Mutant: the fiber does not wait for room, and its id is dropped. *)
PushDropped(f) ==
  /\ Scheduled(f)
  /\ MayPush(f)
  /\ Len(chan) = Room
  /\ at' = [at EXCEPT ![f] = "ended"]
  /\ UNCHANGED <<queue, stopped, finished, output, chan, parked>>

(* The channel is full: the fiber sleeps until an id is taken, and tries again. *)
Parks(f) ==
  /\ Scheduled(f)
  /\ MayPush(f)
  /\ Len(chan) = Room
  /\ at' = [at EXCEPT ![f] = "push"]
  /\ parked' = parked \cup {f}
  /\ UNCHANGED <<queue, stopped, finished, output, chan>>

------------------------------------------------------------------------------
Manager ==
  \/ Create \/ CallRun \/ RunReturns \/ ChannelEmpty \/ Pop \/ Join \/ Return
  \/ \E f \in Ids : RunFlag(f)

Fiber(f) == Writes(f) \/ Pushes(f) \/ Parks(f)

(* handle() has returned. *)
Finished == manager = "returned" /\ UNCHANGED vars

Next == Manager \/ (\E f \in Ids : Fiber(f)) \/ Finished

Spec == Init /\ [][Next]_vars

(* Every ready fiber gets its turn.  The fibers yield to the manager and it to   *)
(* them, so one that can go on may be kept from it while run() runs, but not for *)
(* ever: it can go on again and again, and does.                                  *)
FairSpec == Spec /\ WF_vars(Manager) /\ \A f \in Ids : SF_vars(Fiber(f))

------------------------------------------------------------------------------
(* The posted handler writes to a local variable of a fiber: while it is queued,  *)
(* once, the fiber is in the loop that waits for it, and not with the flag set     *)
(* (asio_fiber.ixx:126).  A fiber that waits in vain would never end.             *)
FlagAlive ==
  \A f \in Ids :
    IF at[f] = "wait" /\ ~finished[f] THEN Once(queue, Flag(f)) ELSE Never(queue, Flag(f))

(* An ended fiber that has not been joined is known to the manager: its id is in   *)
(* the channel once, or being joined; no other id is there, so that join() never   *)
(* waits for a fiber that waits for the manager (create_fiber's scope guard).      *)
EndedIsKnown ==
  \A f \in Ids :
    IF at[f] = "ended" /\ f \in fiber_cont /\ joining # f
    THEN Once(chan, f) ELSE Never(chan, f) /\ (joining = f => at[f] = "ended")

(* handle() returns, where a second run() still runs handlers: the full channel    *)
(* delays fibers but never stops them all.  With the documented contract of         *)
(* io_context the first run(), which has nothing to do, stops the context for good. *)
Terminates == kind # "reactor" => <>(manager = "returned")
==============================================================================
