CONSTANTS
  Kinds <- WorkingKinds
  N = 8
  Steps = 3
SPECIFICATION FairSpec
INVARIANTS WakeTokens TurnsInOrder
PROPERTIES RefinesWorkflow Terminates
