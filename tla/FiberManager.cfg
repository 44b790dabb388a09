CONSTANTS
  Kinds <- AllKinds
  N = 4
  Size = 2
  Capacity = 2
SPECIFICATION FairSpec
INVARIANTS FlagAlive EndedIsKnown
PROPERTY Terminates
