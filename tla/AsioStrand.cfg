CONSTANTS
  t1 = t1
  t2 = t2
  IoThreads <- Threads
  Rounds = 3
  N = 3
SPECIFICATION FairSpec
INVARIANT OneResumption
PROPERTIES OnlyHasteBreaks StopsWhileWaiting FirstRound
CHECK_DEADLOCK FALSE
