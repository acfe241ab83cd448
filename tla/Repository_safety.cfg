\* One node, two workers, two inputs, two automatic attempts, two re-openings:
\* a worker can be overtaken twice and the retry budget is exhausted and renewed.
SPECIFICATION Spec
CONSTANTS
  w1 = w1  w2 = w2  n1 = n1  n2 = n2  i1 = i1  i2 = i2
  Nodes = {n1}
  ExportNodes = {n1}
  Workers = {w1, w2}
  Inputs = {i1, i2}
  NoInput = NoInput
  NoWorker = NoWorker
  MaxAttempts = 2
  Backoffs = {0, 1}
  LeaseTicks = 1
  MaxRenewals = 1
SYMMETRY Symmetry
INVARIANTS TypeOK AttemptsAgree OutputIsCurrent RetryBudget
PROPERTIES ImplementsGrants CommitOncePerKey AttemptHistory LegalTransitions LostLeaseStaysLost ReopeningRenewsToken
