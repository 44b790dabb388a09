CONSTANTS
  N = 2
  MaxFaults = 1
  Styles <- BothStyles
  Text <- Words
  Dot = 9
  Zero = 0
  Chunk = 2
SPECIFICATION FairSpec
INVARIANTS BeginningsOnly
PROPERTIES FinishedMeansWritten DotRefinesExchange Terminates
CHECK_DEADLOCK FALSE
