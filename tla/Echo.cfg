CONSTANTS
  N = 2
  Servers <- BothServers
  Message <- FourBytes
  EndChar = 0
  EmptyChar = 255
  Chunk = 3
  MaxReconnects = 1
  MaxFaults = 1
SPECIFICATION FairSpec
INVARIANTS BytesConserved CountsReplies
PROPERTIES RefinesExchange Terminates
CHECK_DEADLOCK FALSE
