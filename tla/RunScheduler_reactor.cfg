CONSTANTS
  Kinds <- ReactorOnly
  N = 2
  Steps = 2
  MaxErrors = 0
SPECIFICATION FairSpec
PROPERTY Terminates
