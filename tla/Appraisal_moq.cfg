\* One product, appraised by a single pass.
SPECIFICATION AppraisalSpec
CONSTANTS
  ProfitCurve <- MCProfitCurve
  BsrCurve <- MCBsrCurve
  Scenarios <- MCScenarios
  MaxPasses = 1
  MaxForced = 0
  ImageTopK = 2
\* The bounded pass is used up.
CHECK_DEADLOCK FALSE
INVARIANTS RecommendedWithinMoq
