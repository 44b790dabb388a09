CONSTANTS
  N = 1
  MaxFaults = 2
  ClientTypes <- AsyncType
  ServerTypes <- AsyncType
  Text <- Words
  Zero = 0
  Room = 3
SPECIFICATION FairSpec
INVARIANTS FrameLife
PROPERTIES TaskRefinesExchange Terminates
CHECK_DEADLOCK FALSE
