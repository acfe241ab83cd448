\* One product of a target category, matched once without any person around.
SPECIFICATION Spec
CONSTANTS
  Products <- MCProducts
  Offers = {"o1", "o2", "o3"}
  HexMock = "m1"
  DigitMock = "m2"
  Sales <- MCSales
  Answers <- MCAnswers
  OfferPages <- MCOfferPages
  Understandings <- MCUnderstandings
  ImportTerms <- MCImportTerms
  TopK = 2
  DetailLimit = 1
  ResultTTL = 0
  DetailTTL = 1
  MaxClock = 0
  MaxMatches = 1
  MaxEdits = 0
CHECK_DEADLOCK FALSE
INVARIANT BlockIsQueued
