\* One product: every job comes to rest, through two surprises and a request.  A match
\* may fail any number of times, so that only MaxAttempts ends its retries.
\* The bounded crashes, failures and requests are used up, so a job may rest for ever.
SPECIFICATION FairSpec
CONSTANTS
  A = A  B = B
  Inputs = {}
  NoInput = NoInput
  NoWorker = NoWorker
  MaxAttempts = 2
  Catalogue <- MCCatalogue1
  MarketCap = 2
  ExportEnabled = TRUE
  Unlimited = {"match"}
  MaxSurprises = 2
  MaxRequests = 1
CHECK_DEADLOCK FALSE
PROPERTIES JobsRest
