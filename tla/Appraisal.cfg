\* One product, appraised by up to three passes with two stages re-run by force.
SPECIFICATION AppraisalSpec
CONSTANTS
  ProfitCurve <- MCProfitCurve
  BsrCurve <- MCBsrCurve
  Scenarios <- MCScenarios
  MaxPasses = 3
  MaxForced = 2
  ImageTopK = 2
\* The bounded passes and re-runs are used up.
CHECK_DEADLOCK FALSE
INVARIANTS RecommendationIsEarned ProfitOfItsOffer
PROPERTIES ExportedIsRecommended RecommendationRepeats
