SPECIFICATION OutputSpec
CONSTANTS
  NodeAmnt = 2
  Load = 3
  Outs = {0, 1, 2}
INVARIANTS
  MajorityWins
  OutputIsEvaluated
