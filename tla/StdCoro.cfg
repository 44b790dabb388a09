CONSTANTS
  accept_handle = accept_handle
  connection1 = connection1
  connection2 = connection2
  Eager <- TwoEager
  Lazy <- OneLazy
  Awaits = 3
  Callers <- AllCallers
SPECIFICATION Spec
INVARIANTS NoDeadResume Reachable EndedIsOver
PROPERTY OnlyLateDetachLeaks
CHECK_DEADLOCK FALSE
