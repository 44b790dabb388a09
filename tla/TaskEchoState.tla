---------------------------- MODULE TaskEchoState ----------------------------
(***************************************************************************)
(* The state of src/client.cpp and src/server.cpp, with the frames of their  *)
(* coroutines, and what must hold of it.  TaskEcho says what they do.        *)
(***************************************************************************)
EXTENDS Duplex

AsyncType == {"Callback", "CoroSwith", "BoostCoro2", "CoroResume", "CoroResumeValue",
              "CoroReturn", "CoroReturnValue"}

VARIABLES
  type,     \* the style of each side
  frame,    \* the coroutine frame: "none", "suspended" or "destroyed"
  promise,  \* promise.value: "ok" (its default) or "error"
  got       \* what get() returned to on_connect or on_accept: "none" before

(* The styles that are a lite::task. *)
IsTask(e) ==
  type[e] \in {"CoroResume", "CoroReturn", "CoroReturnValue"}
              \cup (IF e = "client" THEN {"CoroResumeValue"} ELSE {})

(* The styles on_accept knows. *)
KnownStyles == {"Callback", "CoroResume", "CoroReturn", "CoroReturnValue"}

------------------------------------------------------------------------------
(* A frame lives exactly as long as an operation is under way whose handler     *)
(* refers to its locals and will resume it: no handler writes into a destroyed  *)
(* frame, and no frame is left that nothing resumes.  Only the end of a program *)
(* leaves frames behind.                                                        *)
FrameLife ==
  \A e \in Side, c \in Conn :
    program[e] # "down" =>
      (frame[e][c] = "suspended" <=> IsTask(e) /\ op[e][c] \in {"read", "write"})

(* The client has read, whatever it is. *)
TaskGot(c) == op["client"][c] = "over" /\ offset["client"][c] > 0

TaskX == INSTANCE Exchange WITH
       phase <- [c \in Conn |->
         IF TaskGot(c) THEN "answered"
         ELSE IF \/ op["client"][c] = "over" \/ link[c] = "reset"
                 \/ op["server"][c] = "over" /\ wire["client"][c] = <<>>
              THEN "failed"
         ELSE IF op["server"][c] \in {"write", "over"} THEN "asked"
         ELSE "new"],
       faulted <- \/ faults > 0
                  \/ type["client"] = "CoroResumeValue"
                  \/ type["server"] \notin KnownStyles

(* Every connection is answered once, after (the beginning of) its request has *)
(* arrived, or fails: after a fault, or because the server does not know the     *)
(* style it was given, or because coro_resume_value() may not return.            *)
TaskRefinesExchange == TaskX!Spec
==============================================================================
