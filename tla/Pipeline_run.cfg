\* Two products; crashes, failures, empty outputs and a request of the user.
\* The bounded crashes, failures and requests are used up, so a job may rest for ever.
SPECIFICATION Spec
CONSTANTS
  A = A  B = B
  Inputs = {}
  NoInput = NoInput
  NoWorker = NoWorker
  MaxAttempts = 2
  Catalogue <- MCCatalogue
  MarketCap = 1
  ExportEnabled = TRUE
  Unlimited = {}
  MaxSurprises = 2
  MaxRequests = 1
CHECK_DEADLOCK FALSE
INVARIANTS SuccessIsEarned
PROPERTIES StagesInOrder
