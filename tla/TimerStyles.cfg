CONSTANTS
  Kinds <- BothKinds
  Styles <- AllStyles
  N = 3
  Rounds = 2
  MaxErrors = 2
SPECIFICATION FairSpec
INVARIANTS OneHandler StopsWhenOver
PROPERTIES RefinesWorkflow Terminates
