SPECIFICATION Spec
CONSTANTS
  Budget = 120
  MaxDepth = 4
  Differing = {"shadowed"}
INVARIANT FoldedMeansTheSame
CHECK_DEADLOCK FALSE
