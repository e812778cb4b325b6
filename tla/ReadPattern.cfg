SPECIFICATION Spec
CONSTANTS
  o1 = o1
  o2 = o2
  Objects = {o1, o2}
  None = None
  Traces <- Traces4
  Strategies = {"layer", "coaccess", "other"}
  Files <- Files2
  PageAlignment = 256
  PackAlignment = 512
  NoBlock = NoBlock
  Block <- Blocks
INVARIANTS
  AnalysisAnswers
CHECK_DEADLOCK FALSE
