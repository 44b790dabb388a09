----------------------------- MODULE StylesState -----------------------------
(***************************************************************************)
(* What the callback, switch and C++20 programs have in common, on timers    *)
(* (TimerStyles) and on posts (PostStyles): an acceptor, N sessions and one   *)
(* thread, on an io_context.                                                  *)
(***************************************************************************)
EXTENDS IoContext

CONSTANTS
  Styles,   (* the programs looked at                   *)
  N         (* number of sessions: 3 in every program   *)

Session == 1..N

VARIABLES
  style,     \* the program
  main,      \* where its thread is: "start" (run() is next), "run" (inside it),
             \* "returned", and what else the program has
  accepting  \* the acceptor is not through
==============================================================================
