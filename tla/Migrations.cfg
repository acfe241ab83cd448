\* Two processes started three times between them, on 47 databases.
SPECIFICATION Spec
CONSTANTS
  Process = {p1, p2}
  ResultTable = {scores, profit_snapshots}
  Null = Null
  Databases <- MCDatabases
  Payloads <- MCPayloads
  MaxStarts = 3
  MaxWrites = 2
\* The bounded starts are used up.
CHECK_DEADLOCK FALSE
INVARIANTS RepairIsPossible
PROPERTIES RepairsAreAudited IdsAreNeverReused
