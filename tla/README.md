# Verification of coroutine_example

The repository writes the same asynchronous programs in many styles (callbacks,
`switch`, stackful coroutines, fibers, C++20 coroutines): accept a few connections,
take each through a fixed sequence of waits or an exchange of messages, stop when all
are through. What differs is how a handler gets back into the code that waits for it,
and with it what can go wrong: a coroutine that is never resumed, resumed twice,
resumed after its end, or whose timer, frame or buffer is gone when its handler runs.
This directory models those programs in TLA+, checks the models with TLC and proves
their central invariants, and the refinements of three of them, with TLAPS.

Contents: 1 the system; 2 the modules; 3 the runs; 4 what the code does otherwise than
one would expect; 5 the proofs; 6 abstractions; 7 what is not modelled; 8 what is left.

## 1. The system

| Component | State | Operations | What makes it correct | Module |
|---|---|---|---|---|
| **run_scheduler** and its coroutines: `tests/src/io_scheduler.ixx`, `test_coroutine2.cpp`, `test_context_continuation.cpp`, `test_context_fiber.cpp` | `coro_cont`, `awake_cont` (queue of ids), `timer_cont`, `result` | loop of `io_context::run()`, take one id, resume or erase; wait handlers push ids; a scope guard pushes the id at the end; a posted handler erases the timer | one wake-up per living coroutine; no timer dies under a wait; returns, every result complete | RunScheduler |
| **post-based schedulers**: `asio/src/asio_coroutine2.ixx`, `asio_continuatioin.ixx`, `asio_context_fiber.ixx` | `coro_cont`, `awake_cont`, `_output` | create all, then `run()` and drain `awake_cont` | the same, and turns in order | AwakeScheduler |
| **callback, switch and C++20 styles on timers**: `tests/src/test_callback.cpp`, `test_switch_coro.cpp`, `test_std_coroutine.cpp` | one object or frame per connection, kept alive by its handler | handlers that re-arm themselves; one `run()`, or `run_one()` and `run()` | one handler per object; errors end only their connection | TimerStyles |
| **the same on posts**: `asio/src/asio_callback.cpp`, `asio_switch.cpp`, `asio_std_coroutine.ixx` | the same, `_output` | the same with `post` | the same | PostStyles |
| **task types**: `tests/src/stdcoro.ixx` | frames, owned or detached; promise | create, suspend, resume, `detach`, destroy, throw | each frame destroyed once, never resumed afterwards, never left behind | StdCoro |
| **asio_fiber**: `asio/src/asio_fiber.ixx` | fibers, their flags, a bounded channel | a manager fiber runs the context, pops ids of finished fibers, joins | every fiber joined; the channel's bound never stops everyone | FiberManager |
| **asio_strand**: `asio/src/asio_strand.ixx`, `asio/include/task.hpp` | the context's queue, `g_task_queue` under `g_mutex`, one handle per coroutine | a task thread and several io threads resume coroutines | a coroutine is resumed once, by one thread, while suspended | AsioStrand |
| **callback echo** and **switch server**: `callback/src/callback_client.cpp`, `callback_server.cpp`, `switch/src/switch_server.ixx`, `callback/include/callback.h`, `include/connection.h` | per connection `buffer`, `offset`; counters; the acceptor | connect and reconnect, accept, read to the end character, wait, write back | the reply is what was received, whatever the pieces; accepting goes on | Duplex, Echo |
| **older echo programs**: `src/client/`, `src/server/`, `callback/src/common.cpp`, `switch/include/common.h` | the same; a `switch` state | the same without wait and reconnecting | the same | Duplex, DotEcho |
| **src/client.cpp, src/server.cpp** with `include/coro.hpp` | promise and frame of `lite::task`, destroyed at the end | one write and one read in seven styles; `get()` | no access to a frame that is gone; every style comes to the same | Duplex, TaskEcho |
| **coroutine2 echo server**: `coroutine2/src/coroutine2_server.cpp` | `coro_cont`, `awake_cont`, per connection `offset`, `error`, `bytes` | the run_scheduler idea with sockets and a listener that never ends | accepted connections come to an end | CoroServer |
| **io_context** (Boost.Asio, external), **asio_lite** (`asio/include/asio_lite.*`, `asio/src/asio_lite.cpp`) | ready handlers, operations under way, stopped | `run`, `run_one`, `post`, timers, sockets | what a second `run()` does | IoContext |

How they interact. Except in asio_strand the coroutines and the event loop share one
thread and communicate through two queues: the context's queue of ready handlers and,
where there is a scheduler, its `awake_cont`. A coroutine starts an operation and
suspends; the environment completes the operation; the handler runs inside `run()`
and resumes the coroutine or pushes its id for the scheduler, which resumes it after
`run()` has returned. A resumed coroutine may start operations, post handlers, create
coroutines and push its own id. Operations may complete between any two steps, in
any order, each with an error. In asio_strand the threads of the context and a task
thread hand the coroutines to each other. The echo programs are pairs of programs that
share only the connection between them.

What is hard to test: the tests run on one platform, on loopback, with equal timers that
expire in the order they were started, with whole messages and without errors. The
order of completion, the pieces a message comes in, errors, resets, the schedule of
fibers and threads, and the meaning of a second `run()` are left to chance. The list,
line by line, is under `hazards` in `PROJECT.json`, each with the properties that
watch it or the reason why none does.

## 2. The modules

```
Workflow      what the timer and post programs are asked to do (no queues, no handlers)
   ^ refined by
   +-- RunScheduler      +-- AwakeScheduler     +-- TimerStyles     +-- PostStyles
   |
   |   CoroServer   FiberManager
   v extend
IoContext     the event loop

Exchange      what a pair of echo programs promises (no bytes, no operations)
   ^ refined by
   +-- Echo              +-- DotEcho            +-- TaskEcho
   v extend
Duplex        two programs over TCP, which extends
Bytes         buffers

StdCoro, AsioStrand      on their own
```

`MC<module>` gives a module its constants for TLC. The theorems are in `<module>Proofs` for
RunScheduler, AwakeScheduler, FiberManager and CoroServer, in `StylesProofs` for TimerStyles and PostStyles,
in `EchoProofs` for Echo, DotEcho and TaskEcho, and in `CoroutineProofs` for AsioStrand and StdCoro.
`QueueProofs` holds lemmas about IoContext's queue.

Some modules are in two parts: `<module>State` declares the state and says what must hold of it
(PostStylesState, TaskEchoState, DotEchoState, StdCoroState), and the module extends it with what the programs do.
What is proved of several specifications in one module is thus stated by the same definitions that the runs check. `StylesState`
is what TimerStyles and PostStyles share: the acceptor, the sessions and the thread. Where below a
property of such a module is named, it is in its State module; the refinements are called
`PostRefinesWorkflow`, `TaskRefinesExchange` and `DotRefinesExchange`.

Definitions whose comment begins
with `Mutant` are plausible bugs: put in the place of the definition that follows
them, each makes the property it is listed with fail.

**IoContext** is the part of `io_context` the programs depend on: `queue` (handlers
ready to run), `pending` (operations under way), `stopped`. None of the programs calls
`restart()`, and implementations differ in what a second `run()` then does, so the initial state
chooses a `kind`: `"reactor"` is the documented contract (a stopped context runs
nothing), `"iocp"` is Boost's Windows implementation (stopping posts a packet behind
the completions that are already there; `run()` works up to the packet and posts it
again), `"restarted"` works until nothing is left, as asio_lite does and as an
`io_context` would that is restarted before each `run()`. No program here does that to
Boost's; the kind is there for asio_lite and because it is the obvious repair of the
finding below. `EnterRun`, `RefuseRun`, `HandlerLeaves` and `LeaveRun` are the points of one
call of `run()`.

**Workflow** accepts sessions in order, lets each take its steps or fail, lets accepting
fail, and returns when every accepted session is over. `First` says how many steps a
session has taken by the time it is accepted.

**RunScheduler** is `run_scheduler` with the coroutines of the three programs that use it.

| Model | Code |
|---|---|
| `main` | where the thread is in `run_scheduler`: before `run()`, inside it, after it, returned |
| `live`, `awake`, `timers` | keys of `coro_cont`, `awake_cont`, keys of `timer_cont` |
| `coro[i]` | not created, suspended at a yield, or ended (`operator bool()` is false) |
| `progress[s]` | characters in `result[s]`; `progress[0]` is the acceptor's loop counter |
| `CompleteWait` | a timer expires; its `error_code` travels with the completion |
| `RunWaitDone` | the wait's handler: store the error, `awake_cont.push(id)` |
| `RunEraseTimer` | the handler posted at a session's end: `timer_cont.erase(id)` |
| `CallRun`, `RunReturns` | `io_ctx.run()` |
| `NothingAwake`, `Discard`, `Return` | the branches of the loop that resume nobody |
| `SessionWaits`, `SessionEnds`, `SessionFails` | a session from one yield to the next, to its last line, to an early return |
| `AcceptWaits`, `AcceptEnds`, `AcceptFails` | the acceptor likewise; a session it creates runs to its first wait in the same step |

A coroutine's run between two suspension points is one action because nothing else
runs on that thread meanwhile; what may happen meanwhile, a timer's expiry, only
touches `pending` and the end of `queue`. This holds for all modules with one thread.

**AwakeScheduler** is `handle()` of the three post-based programs: the same idea with
posted handlers instead of timers and an inner loop that drains `awake_cont`.
asio_context_fiber resumes each new fiber explicitly and the others start eagerly,
which is one step here in either case.

**TimerStyles** is the three programs on timers that have no scheduler; `style` says
which. **PostStyles** is their counterparts on posts.

| Model | Code |
|---|---|
| `main` | before, inside and after `run()`; in TimerStyles for the C++20 program also before and inside `run_one()` |
| `next`, `accepting`; `_id`, `accepting` | the acceptor's counter; it has a wait to come (C++20: not `t.done()`) |
| `at`, `i`, `progress`; `offset`, `output` | where a connection goes on, its counter, the length of its result |
| `CallbackCreates`, `CallbackCloses`, `SwitchEnters`, `LoopCreates`, `LoopCloses` | `on_accept` of the callback program, and of the `switch` and C++20 programs |
| `CallbackConnect`; `LoopConnect`, `LoopRead`, `LoopWrite`; `ConnectFails` | `on_connect` by its counter; by its resumption point; its error return |
| `CallRun`, `AfterOne` | `run()`, or `run_one()` and the test of `t.done()` |
| `CallbackAccept`, `SwitchAccept`, `CoroAccept` | `accept_handle` of the three post programs |
| `CallbackHandle`, `SwitchHandle` and `CoroHandle` | their `handle` |

The callback programs number their rounds and the others loop, so the same character is
reached in different ways; the refinement of `Workflow` says that they come to the same.

**StdCoro** is the life of the frames, task objects and handlers that `stdcoro.ixx` deals in.

| Model | Code |
|---|---|
| `frame`, `awaits` | the coroutine frame; how often it has suspended (bounded by `Awaits`) |
| `h` | the task object's handle: held, null after `detach()`, gone with the object |
| `wait` | how many completion handlers of `suspend_async` hold the handle and will resume it: more than one when `lazy_task::resume()` has gone past a `co_await` by hand |
| `detached`, `on_error`, `ex` | the promises' members |
| `misuse`, `terminated` | a handler resumed a coroutine that had ended or whose frame was gone; `std::terminate()` |
| `CreateLazy`, `Resume`, `CreateEager`, `CreateDetached` | the coroutine functions and `lazy_task::resume()` |
| `Detach`, `DetachLater`, `Destruct` | `detach()`, with an `on_error` that returns or the default that terminates; the destructors |
| `Handler`, `HandlerTooLate` | the operation completes: the coroutine is suspended, or has ended or lost its frame |
| `Suspends`, `Ends`, `Throws` | what a coroutine does when it is resumed: `co_await`, `final_suspend`, `unhandled_exception` |

`caller` says what is done with the tasks: what the test does, or all that the comments
of the file allow. The two are kept apart because the second leads to misuse (see 4).

**FiberManager** is `handle()` of asio_fiber. `manager` is where the manager fiber is, `at[f]` where
fiber `f` is, `finished[f]` its local flag, `chan` the channel, `parked` the fibers asleep in
`push()`. A `buffered_channel` of capacity 2 has room for one id (`Room`). Ready fibers run
in any order, which covers every scheduling algorithm.

**AsioStrand** follows one handler, one lock or one suspension at a time: `thread[t]` is the
coroutine an io thread runs, `task` the one whose closure the task thread runs, `at[r]`
where coroutine `r` is in `run()`. The other threads hold `g_mutex` for a step, the task
thread from `TaskPops` to `TaskUnlocks`. A coroutine that is resumed while it runs is `"broken"`: the
program's behaviour is undefined from there, and the model goes no further (`Defined`). A resumption and the
next `co_await` are one step: the coroutine counts as suspended before `await_suspend` runs, and nothing
else refers to it until that has posted the handler.

**CoroServer** is `coro_example` of the coroutine2 server: `Listen`, `AfterRead`, `AfterTimer`,
`AfterWrite`, `AfterError` and `Throws` are the coroutines from one yield to the next (`Throws`: `get_info()`
of a socket that is not connected, or no longer, whether the operation has succeeded or not), `Erase`
and `Drained` the rest of the inner loop, `RunHandler` the handler made by `callback()`.

**Duplex** is what the echo programs share: per side of a connection the operation under way
(`op`), `buffer` and `offset`; per connection the TCP `link` and the bytes on the `wire`. A
read or write moves any number of bytes from one to what it was given. A reset, a failing
accept and a failing timer are faults, bounded by `MaxFaults` while both programs are up.
`get_info()` asks an unconnected socket for its remote endpoint and throws, which ends the
program (`Dies`).

| Model | Code |
|---|---|
| `Connect`, `Reconnect`, `ConnectFails`, `ConnectThrows` | `on_connect` |
| `Accept`, `AcceptFails`, `AcceptIgnores`, `AcceptThrows` | `on_accept`, or the accept loop |
| `WriteSome`, `AfterWrite`, `ReadSome`, `Timeout`, `TimerFails`, `Loses` (Echo) | `on_write`, `on_read`, the timer's handler, their error returns, and the same between two yields of the switch server; `server` says which |
| `CallbackWrite`, `CallbackWriteNothing`, `SwitchWrite`, `GoesOn` (DotEcho) | `on_write` of common.cpp, the write loops, what follows a read |
| `Suspends`, `Get`, `CoReturns` (TaskEcho) | `await_suspend`, `task::get()`, `return_value` and `final_suspend` |
| `ClientWrites`, `ClientReads`, `ClientFlowsOff`, `ServerReads`, `ServerWrites` (TaskEcho) | the client's and the server's functions, in each style |

**Exchange** is what a pair of them promises: a connection asks once, is answered at most
once and only after its request has arrived, or fails, and none fails before something
has gone wrong (`faulted`: an operation failed, or one of the programs could not do what it
was asked to, as with a style the server does not know).

## 3. The runs

States are TLC's distinct states.

| Run | Bounds | Properties | States |
|---|---|---|---|
| `run_scheduler` | 3 sessions, 3 waits each, at most 1 failing wait, all kinds | `WakeTokens`, `TimerLifetime`, `NoHeadOfLine`, `RefinesWorkflow`, `TerminatesWhereRunWorks` | 111k |
| `run_scheduler_reactor` | 2 sessions, 2 waits, `reactor` | `Terminates` (violated) | |
| `awake_scheduler` | 8 coroutines, 3 characters, `iocp` and `restarted` | `WakeTokens`, `TurnsInOrder`, `RefinesWorkflow`, `Terminates` | <1k |
| `timer_styles` | 3 connections, 2 rounds (4 waits), at most 2 failing waits, `reactor` and `iocp`, three styles | `OneHandler`, `StopsWhenOver`, `RefinesWorkflow`, `Terminates` | 184k |
| `post_styles` | 5 sessions, 3 characters, all kinds, three styles | `OnePostedHandler`, `PostRefinesWorkflow` | <1k |
| `echo` | 2 connections, 4 bytes, reads of 3, 1 failing connect, 1 fault, both servers | `BytesConserved`, `CountsReplies`, `RefinesExchange`, `Terminates` | 219k |
| `dot_echo` | 2 connections, 3 characters, reads of 2, 1 fault, both clients with both servers | `FinishedMeansWritten`, `BeginningsOnly`, `DotRefinesExchange`, `Terminates` | 105k |
| `task_echo` | 1 connection, 2 bytes, 2 faults, 7 client styles with 7 server styles | `FrameLife`, `TaskRefinesExchange`, `Terminates` | 12k |
| `coro_server` | 2 clients, 3 bytes, reads of 2, 2 faults, `reactor` and `iocp` | `OneWait`, `Served`, `AcceptedComeToAnEnd` | 155k |
| `std_coro` | 1 lazy and 2 eager tasks, at most 3 suspensions each, both callers | `NoDeadResume`, `Reachable`, `EndedIsOver`, `OnlyLateDetachLeaks` | 278k |
| `fiber_manager` | 4 fibers, 2 characters, a channel of capacity 2, all kinds | `FlagAlive`, `EndedIsKnown`, `Terminates` | 52k |
| `asio_strand` | 3 coroutines, 3 rounds, 2 io threads, any sleep | `OneResumption`, `OnlyHasteBreaks`, `StopsWhileWaiting`, `FirstRound` | 117k |

What the properties say.

* `WakeTokens`: a coroutine in `coro_cont` has exactly one wake-up, in one of three
  places (timer running, handler queued, id in `awake_cont`); one that is not there has
  none. Losing one hangs the program; doubling one resumes a coroutine in the
  middle of its next wait or writes to a finished stack. `OneWait` says it of CoroServer,
  listener included; `OneHandler` and `OnePostedHandler` of the styles whose objects live only as long as a handler
  does; `OneResumption` of asio_strand, where the places are on different threads.
* `TimerLifetime`: a wait outstanding or a handler queued implies the timer is
  still in `timer_cont`, and the erasing handler is only ever queued for an ended session.
* `NoHeadOfLine`: on Windows `run()` never blocks on a timer while some coroutine's id
  is waiting, although only one id is taken per `run()`.
* `TurnsInOrder`: outputs never differ by more than one character.
* `StopsWhenOver`: the context never runs out of work early, so no `run_one()` of the
  C++20 program meets a stopped context.
* `RefinesWorkflow`, `RefinesExchange` and their namesakes: the whole behaviour, step by step.
* `BytesConserved`: what one side has read, what is on its way and what the other has still to
  write are together the message, at every point of every sequence of partial reads and writes.
  `CountsReplies`: the number the client prints is the number of whole replies.
* `FinishedMeansWritten`: when a side, client or server, reports its write as finished, its whole text has
  left it, read by the peer or on the way, as long as the peer has not let go. One report is excepted by name, because
  it is false: that of the empty write of common.cpp (`WritesNothing`, see 4). `BeginningsOnly`: even then a peer reads a
  beginning of the text and nothing else.
* `FrameLife`: a `lite::task`'s frame lives exactly as long as an operation that will resume
  it.
* `Served`: a connection of the coroutine2 server ends with its message written back or an
  error. `AcceptedComeToAnEnd`: on Windows every accepted one does end.
* `NoDeadResume`, `Reachable`: no frame of the test is resumed after its end, and none is left without an
  owner or a handler that leads to it.
* `EndedIsOver`, `OnlyLateDetachLeaks`: for every caller, no frame is destroyed twice, no eager coroutine that ends of
  itself leaves a handler behind, and no detached one that ends leaves its frame (for the exceptions see 4).
* `FlagAlive`: the handler that writes to a fiber's local variable finds it, waiting.
  `EndedIsKnown`: the manager knows of exactly the fibers that have ended, so that `join()`
  never waits for one that waits for the manager.
* `OnlyHasteBreaks`: a coroutine of asio_strand is resumed while it is not suspended in one interleaving
  only, when the task thread has run the closure before the thread that queued it has come to line 77.
  `OneResumption` holds as long as that has not happened, and `FirstRound` unless it does.
* `StopsWhileWaiting`: the context of asio_strand stops only while every coroutine waits for the
  task thread. `FirstRound`: every coroutine gets through its first round.

Bounds. Three sessions is the code's own number and the least at which one is being
created, one is waiting and one is ending at once. The code's five waits become three in
RunScheduler because the first, a middle and the last are all the cases the code
distinguishes; for TimerStyles two rounds are the least with a first and a last one, and
two failures are needed to have the ignored first error of the switch program followed by
one that counts. The post programs are deterministic, so that larger numbers only make
the one schedule of each longer. In the echo modules two connections share the acceptor and the counters,
and nothing else; messages are longer than one read, so that they arrive in one, two and
more pieces, and not a multiple of it. One fault meets every other activity; the
second in CoroServer and TaskEcho is the failure of the other side or of the listener. TaskEcho
has one connection because client.cpp makes one. In FiberManager a channel with room for one
and four fibers have several fibers asleep in `push()` while one is joined. In AsioStrand
three coroutines leave one for each io thread and one for the task thread; three rounds are
the code's. What does not depend on the
bounds is proved in section 5.

Fairness. Where one thread runs everything, weak fairness of the program (`Scheduler`,
`Program`, `Handle`, `Manager`, a side's steps) says that thread is not suspended for ever while
it can take a step: the code never blocks except inside `run()`, whose return or next handler
is one of those steps. Weak fairness of timers and of reads and writes that can complete says that
operations end, as Asio promises. New clients, resets, errors and accepts are never assumed to
come. `WF(Closing)` in DotEcho and TaskEcho is the system closing the sockets of a program that has
ended. FiberManager has strong fairness of each fiber, because whether a fiber can run goes to and fro with
the manager: the round-robin and every other fair scheduling algorithm picks a ready fiber in
the end. AsioStrand has strong fairness of each thread, because `g_mutex` goes to and fro: the
task thread gives it back for the time its closure sleeps, so that a waiting thread gets it.

Deadlock is checked except where the system may really stop: `echo`, `dot_echo` and `task_echo`
(the client has returned and the server waits for ever for the next one), `std_coro` (the
program has ended, or has met `std::terminate()`) and `asio_strand` (the io threads have left and the task
thread polls an empty queue for ever, which changes nothing; or the program is undefined). Elsewhere a finished program
stutters (`Done`, `Finished`, `Dead`).

## 4. What the code does

### Finding

**`run_scheduler` on a stopped context** (run `run_scheduler_reactor`).

`run_scheduler` calls `io_ctx.run()` repeatedly and never `restart()`
(`tests/src/io_scheduler.ixx:35`). Under the documented contract the first call
stops the context as soon as its last handler has run, and the second returns at once
although the acceptor has started a new wait: the loop of line 32 spins for ever and
no session is created, against line 20 ("直到所有協程完成") and the tests. The
repository's only preset builds with MSVC, where the completion port makes the
program work. `AwakeScheduler` has the same loop (`asio_coroutine2.ixx:121`) and needs
the same kinds of context. One `restart()` before `run()` gives kind `"restarted"`, for
which the safety and liveness properties hold; but as only one id is taken per
`run()`, a ready coroutine would then wait for another one's timer (the mutant
`CallRunRestarting` shows it), which the stop packet on Windows happens to prevent
(`NoHeadOfLine`). A repair should also drain `awake_cont`, as AwakeScheduler does.

### Observations

Behaviour that the models keep as it is, with what the properties say of it:

* `callback/src/common.cpp:61`: `_buffer.size() >= 0` is always true, so that continuing a partial write clears the
  buffer and writes nothing. `offset` and `buffer.size()` are both 0 then, and line 26 reports the write as finished,
  while the peer waits for a dot that never comes. `cut` in DotEcho records it; `FinishedMeansWritten` says that
  there is no other way to a false report.
* `src/client.cpp:392`, `:399`, `:410`: `get()` is called as soon as the task has suspended for the first time and
  returns the promise's default. The error that the coroutine returns later reaches nobody, so that line 413 never
  logs one. The frame is there at that moment, as it has only just suspended (`Get`).
* `stdcoro.ixx:40` and `:95` say that the destructor of a task forcibly ends a coroutine that has not ended. That
  destroys the frame and does not cancel what the coroutine waits for: the operation's handler resumes a frame that is
  gone (`HandlerTooLate`). `EndedIsOver` says that an eager coroutine that ends by itself leaves no such handler. No program here destructs
  the task of a suspended coroutine (`NoDeadResume`).
* `stdcoro.ixx:41` and `:108` say that a detached frame is destroyed when its coroutine ends. An eager coroutine may
  have ended when its caller gets the task; then `detach()` (`:124`) gives the handle up after `final_suspend()` has
  suspended, and nobody can destroy the frame. `OnlyLateDetachLeaks` says that this is the only frame left for good.
  In the test the coroutine has always awaited first, or terminated the program (`Reachable`).
* `stdcoro.ixx:205` lets `resume()` continue a lazy task from any `co_await`. The operation's handler stays and resumes
  the coroutine once more, at its next `co_await` or after its end. The test resumes a task once.
* `coroutine2_server.cpp:188` and `asio_fiber.ixx` (`handle()`) call `run()` again on a stopped
  context too: with the documented contract the first serves nobody and the second never returns. Their
  liveness properties are stated for the other kinds. On Windows the coroutine2 server depends on the
  context having stopped once, when the first accept had completed and nothing else was pending.
* `src/client.cpp`, `coro_resume_value()`: the coroutine flows off its end although its promise asks
  for a `co_return` with a value, which is undefined; `ClientFlowsOff` lets it end the program or not.
* `callback_server.cpp:108` and others ask for the remote endpoint of a socket in an error path;
  for one that is not connected that throws out of `run()` and ends the program. A failing accept
  ends the accepting in `server/callback.cpp:49`, `server.cpp` and `switch/include/common.h:76`.
* `stdcoro.ixx:207`: an exception thrown after the first suspension of a lazy task is stored and never looked
  at. `detach()` of a task that has no handle (`:126`) uses the null handle's promise. The test does neither.
* `asio_strand.ixx:68` queues the closure that resumes a coroutine before the coroutine has
  suspended. Only the closure's `sleep_for(100ms)` keeps the task thread from resuming a running
  coroutine; in the model the sleep has any length and it can, and `OnlyHasteBreaks` says that nothing else can. And
  (`:147`) the io threads return from `run()` for good when every coroutine waits for the
  task thread: what is posted later is never run.
* `test_fiber.cpp:89`: when accepting fails, the main fiber returns with joinable fibers in its
  vector and without stopping the context.
* `test_switch_coro.cpp:110` ignores the error of its first wait, since the handler enters `on_accept` in
  state 0; the connections are served all the same.

## 5. The proofs

Each theorem holds for every value of its module's constants under the module's named assumption
(numbers of sessions, bytes and so on are natural numbers, not zero where the code has at
least one; sets of threads are finite) and for every kind of context, so also where the program does not terminate.

| Module | Theorems |
|---|---|
| `RunSchedulerProofs` | `TypeCorrect`, `LifecycleCorrect`, `WakeTokensCorrect`, `TimerLifetimeCorrect`, `ServedCorrect`, `NoHeadOfLineCorrect`, `Refinement` |
| `AwakeSchedulerProofs` | `TypeCorrect`, `LifecycleCorrect`, `WakeTokensCorrect`, `OutputCompleteCorrect`, `TurnsInOrderCorrect`, `Refinement` |
| `StylesProofs` | TimerStyles: `TypeCorrect`, `OneHandlerCorrect`, `StopsWhenOverCorrect`, `ServedCorrect`, `Refinement` |
| | PostStyles: `OnePostedHandlerCorrect`, `PostRefinement` |
| `EchoProofs` | Echo: `BytesConservedCorrect`, `CountsRepliesCorrect`, `RefinesExchangeCorrect` |
| | TaskEcho: `FrameLifeCorrect`, `TaskRefinesExchangeCorrect` |
| | DotEcho: `FinishedMeansWrittenCorrect`, `BeginningsOnlyCorrect`, `DotRefinesExchangeCorrect` |
| `FiberManagerProofs` | `TypeCorrect`, `FlagAliveCorrect`, `EndedIsKnownCorrect`, `OutputCompleteCorrect` |
| `CoroServerProofs` | `TypeCorrect`, `OneWaitCorrect`, `ServedCorrect` |
| `CoroutineProofs` | AsioStrand: `OneResumptionCorrect`, `OnlyHasteBreaksCorrect`, `StopsWhileWaitingCorrect` |
| | StdCoro: `NoDeadResumeCorrect`, `ReachableCorrect`, `EndedIsOverCorrect`, `OnlyLateDetachLeaksCorrect` |

`XCorrect` is `Spec => []X`, for the action properties `FinishedMeansWritten`, `OnlyHasteBreaks`, `StopsWhileWaiting` and
`OnlyLateDetachLeaks` `Spec => X`. `Refinement` is `Spec => RefinesWorkflow`, of PostStyles `PostRefinesWorkflow`. Where a module of proofs is about several specifications,
it extends one of them and the State modules of the others, and has the others as instances (`T` is TaskEcho, `D`
DotEcho, `P` PostStyles, `S` StdCoro); their named assumption is then a hypothesis, as in
`T!TaskEchoAssumption => (T!Spec => []FrameLife)`. Echo, DotEcho and TaskEcho
declare the same variables of Duplex, so that what is proved of Duplex's operators serves all three.
Together they state every invariant, every action property and every refinement that a passing
run checks. In every module an invariant, `IInv` unless it is named below, is shown to be inductive, one step or lemma
per action; the safety theorems, and the facts that the steps of a refinement need, follow from it.

**RunScheduler.** `WakeTokens` alone is not inductive: that a resumed session may start a wait
needs it to be suspended and not new, that a created one has no old wake-up needs the
acceptor's counter to be ahead of every session in `coro_cont`, and that erasing a
timer is harmless needs the ended session's only wake-up to be an id. These facts are
`Lifecycle` and `TimerLifetime`, and `IInv == TypeOK /\ Lifecycle /\ WakeTokens /\
TimerLifetime`. `Served` follows: when the scheduler returns nothing is in `coro_cont`, so nothing is
suspended. `NoHeadOfLine` needs an invariant of its own, `PacketInv`: on `iocp` a stopped context
has its packet in the queue, and before the context first stops nobody has been
resumed, so nothing but the acceptor's first wait can be there to block on. The
refinement turns a resumed session into a step of `Workflow`, a creation into an acceptance, and everything
that only moves wake-ups into a stutter; `Lifecycle` supplies the abstract guards.

**AwakeScheduler** likewise, with a drained id as the coroutine's only wake-up (`AwakePop`); the end
of a coroutine is a stutter, its last character having been written before. `TurnsInOrder` needs an
invariant of its own, `Turns`: two suspended coroutines are woken in the order of their turns (fewer
characters first, then the smaller id), where `awake` and the `queue` behind it are one line (`WokenBefore`).
Then the coroutine at the head of `awake_cont` precedes all others (`HeadTurn`), may write one more, and is
last in the line afterwards (`YieldsTurns`).

**TimerStyles.** `OneHandler` needs to know who is alive. `Accepted` says that the connections below the
acceptor's counter have been created and no other, `Position` that what a handler decides by (a
counter in the callback program, a resumption point and a loop counter in the others) agrees with the length of
the result. Every handler takes its object's one completion and registers one wait for it, or
lets it go, and may create another object with its own; that this keeps `OneHandler` and
`StopsWhenOver` is one lemma, `HandledKeeps`, that the actions cite.

**PostStyles.** The programs differ in when they count: the callback program creates a session and then
counts it, the switch program begins at 0 with the first one and counts afterwards. `PostMade` says with
`Made` how many sessions there are in each. `Worked` relates a session's counter to its output at the moment
its handler is about to run, which is one ahead in the switch program, and `PostStops` says what is over when
the context stops. With them and `OnePostedHandler` the invariant `Post` is inductive, and the same facts give
the refinement: each handler of a session is one `Work` of Workflow, or the stutter that ends it.

**Echo.** `BytesConserved` speaks of the moment when both sides wait for each other; its invariant,
`Connections`, says where the bytes are at every moment. `Talk`, and in it `Reading`, has a case for each
pair of operations that can be under way: what a side has received, joined with what is on the wire, is as much
of the message as its peer has written, and all of it when the peer has turned to reading. A partial operation moves
bytes from one of these parts to the next, which lemmas about sequences (`Joined`, `Split`, `FrontMore`, `ResizeKeeps`,
`StoreAppends`) say once and for all. `Weather` says that resets and
the end of a server have a fault as their cause while a client is at work. Every handler touches one connection and
leaves the others' bytes alone (`Handled`, `Others`, `Undisturbed`), so that one lemma, `OneHandled`, takes each
action from its connection to all of them, and gives the step of Exchange and of `g_count` at once. `CountsReplies` and the refinement
then are about single steps: an answer adds one connection to those that have their reply.

**TaskEcho.** `Tasks` adds `Frames`, the relation of frames to operations, and `Acceptor`: while no fault
has happened a server goes on accepting. `TaskTalk` is weaker than Echo's `Talk`, as these programs write and read
once and do not compare what they get.

**DotEcho.** The programs' texts end with a dot, and a side has read the whole when it sees one;
`DotTalk` says that what a side has, with what is on its way, is a beginning of its peer's text, the whole of it unless
`cut`. A beginning that has the dot is the whole text, since a text has no other: that is what makes
reading in pieces come to the right end. Of a side that reports its write it says that its text is out, in `ReportPlace` and
`DotReports`, for client and server alike.

**StdCoro.** `Owned` relates a frame to its task object and, of an eager task, to its handlers, for every caller;
`EndedIsOver` is a part of it. `Tested`, for the test's, says that
a handler waits exactly for the suspended frames and that an eager one is detached before
anything can resume it. What a coroutine does when it runs is one lemma, `RunsOne`.

**FiberManager.** `Living`: fibers that have not ended are in `fiber_cont`, and those at their
scope guard have written everything. With it `FlagAlive` and `EndedIsKnown` are inductive, whatever the
capacity of the channel.

**CoroServer.** `Listening`: the connections below `connection_id` have been created and no other, and the listener
never ends. `Progress`: a read or write under way leaves `offset` within the message. With `OneWait` they say that what a
resumed coroutine looks at is the result of its own last operation.

**AsioStrand.** `OneResumption` counts: handlers, closures and threads that refer to a coroutine.
`QueuedAppend`, `QueuedTail` and `RunnersChange` say how the counts change when an element is
appended or taken and when a thread changes hands; with them `TypeOK /\ OneResumption` is inductive, with
no assumption on the sleep. The counts say where a coroutine is when something resumes it: a handler of an io thread finds it at
line 65 (`CbMeets`), the task thread at line 77 or on the way there (`TaskMeets`), so that nothing but the second of
these makes it `"broken"`: `OnlyHasteBreaks`. When the context
stops, the queue is empty and no thread runs a coroutine, so the counts leave only `"wait"` and `"over"`.

`QueueProofs` holds the lemmas about `Once` and `Never`: how they change when an element is
appended or taken, and that the context's own steps move nothing but the stop packet.

Model-checked only: all liveness, that is `Terminates`, `TerminatesWhereRunWorks`, `AcceptedComeToAnEnd` and `FirstRound` (fairness and `ENABLED` are out of the prover's reach). No module has a RECURSIVE operator.

## 6. Abstractions

* Results are lengths, not characters, except in Echo, DotEcho and TaskEcho; ids are the code's for
  run_scheduler (0 accepts, 1..N are sessions) and one higher than the code's for the post-based
  programs and the C++20 program.
* Timers that run at the same time expire in any order, which is more than equal
  durations allow, and so covers every clock. The sleep in asio_strand may be too short for what
  the program counts on.
* The `error_code` is recorded when the completion is produced rather than when its handler runs;
  nobody reads it in between. In the echo modules completion and handler are one step, since a handler
  uses nothing but its own connection and the counters.
* TCP is reliable and in order; a reset loses what is on its way. Connecting, accepting,
  reading and writing each may fail, and may fail at any time.
* In the BoostCoro2 style of src/client.cpp the `run()` that is called inside a handler is one `run()`
  until the connection is over; how the two stacks change hands is left out.
* Memory failure, and destruction after a program has returned, are left out. Of exceptions the models have
  those of the coroutines in StdCoro and those of `remote_endpoint()`, which `get_info()` and `on_connect` and `on_accept` call
  for the log: they end the program, on error paths and on success paths alike, for a connection may be reset after its
  operation has succeeded (`Throws`, `ConnectThrows`, `AcceptThrows`). In the echo modules, where completion and handler
  are one step, such a connection throws in place of completing: what it has just read or
  written is lost with the program either way.
* The stack switch itself is the coroutine library's and is atomic; so is `co_await`, but for asio_strand,
  where another thread may look.
* Configuration files and command lines are constants; logging is left out, except that `get_info()`,
  called for it, throws.

## 7. Not modelled

* **Library-driven styles on timers** (`test_use_awaitable.cpp`, `test_cobalt.cpp`, `test_stdexec.cpp`): the
  control is in the libraries; what the repository's own lines add is the sequence of waits of Workflow.
* **Fibers on timers** (`test_fiber.cpp`): what makes a fiber ready and what ends `run()` is the vendored
  scheduling algorithm in `tests/src/fiber/asio`. Its one error path is described in section 4.
* **Demonstrations** (`src/main.cpp`, `src/std_coro.cpp`, `src/coro_std.cpp`, `coroutine2/src/coro2.cpp`,
  `context/src/callcc.cpp`): single-threaded examples with literal inputs, each with one execution, which
  running it shows.
* **Vendored code, wrappers, build files**: no protocol of their own.
* Of `include/coro.hpp`, the read and write variants no program calls.
* Strands and executors of Boost.Asio: asio_strand constructs strands and never uses them.
* asio_lite's calling a handler through a reference to the front of a queue that the handler appends to:
  `std::queue` keeps that reference valid, so the model does not tell it from taking the handler first.

## 8. What is left

* Refinement of Workflow by FiberManager and CoroServer: their safety theorems already give its parts.
* In asio_strand, what the program does after a coroutine has been resumed while it runs is undefined: the model
  stops there.
