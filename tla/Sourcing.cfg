\* One product, matched up to twice by a worker, while a person edits
\* the queue and imports an offer.
SPECIFICATION Spec
CONSTANTS
  Products <- MCProducts
  Offers = {"o1", "o2", "o3"}
  HexMock = "m1"
  DigitMock = "m2"
  Sales <- MCSales
  Answers <- MCAnswers
  OfferPages <- MCOfferPages
  Understandings <- MCUnderstandings
  ImportTerms <- MCImportTerms
  TopK = 2
  DetailLimit = 1
  ResultTTL = 0
  DetailTTL = 1
  MaxClock = 1
  MaxMatches = 2
  MaxEdits = 1
\* The bounded matches, edits and ticks are used up.
CHECK_DEADLOCK FALSE
INVARIANTS NoMockInFormalMode AttemptsAreHonest DetailIsOwn QueueExactUnlessOverlap
