CONSTANTS
  Thread = {main, worker}
  Ours = {"a"}
  Theirs = {"f"}
  Contexts <- MCContexts
  CodeOf <- MCCodeOf
  Bounds <- MCBounds
SYMMETRY ThreadSymmetry
SPECIFICATION RecordsSpec
INVARIANTS
  RecordsAreTrees
  AnswersAreItsOwn
PROPERTIES
  WrapKeepsChain
  CaptureLosesNothing
