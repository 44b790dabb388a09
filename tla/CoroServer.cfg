CONSTANTS
  Kinds <- BothKinds
  N = 2
  Length = 3
  Chunk = 2
  MaxFaults = 2
SPECIFICATION FairSpec
INVARIANTS OneWait Served
PROPERTY AcceptedComeToAnEnd
