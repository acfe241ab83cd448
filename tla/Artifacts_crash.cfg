\* One process at a time crashes anywhere and is restarted; the records change before
\* and after a successful export.
\* The number of claims is bounded, so a run may end.
SPECIFICATION Spec
CONSTANTS
  w1 = w1
  Workers = {w1}
  Inputs <- MCInputs
  NoInput = NoInput
  NoWorker = NoWorker
  Required = {"excel"}
  MaxAttempts = 3
  MaxClaims = 4
  MaxGenerations = 2
CHECK_DEADLOCK FALSE
INVARIANTS CommittedSetsComplete SuccessMeansPublished ExportIsOneRecordSet RegenerationWorks
