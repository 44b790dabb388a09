CONSTANTS
  Kinds <- AllKinds
  Styles <- AllStyles
  N = 5
  Size = 3
SPECIFICATION Spec
INVARIANT OnePostedHandler
PROPERTY PostRefinesWorkflow
