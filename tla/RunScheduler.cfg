CONSTANTS
  Kinds <- AllKinds
  N = 3
  Steps = 3
  MaxErrors = 1
SPECIFICATION FairSpec
INVARIANTS WakeTokens TimerLifetime NoHeadOfLine
PROPERTIES RefinesWorkflow TerminatesWhereRunWorks
