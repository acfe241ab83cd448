\* Two jobs, two runs, two request threads; a restart, a failed write or a failed preflight.
SPECIFICATION Spec
CONSTANTS
  j1 = j1  j2 = j2  r1 = r1  r2 = r2  t1 = t1  t2 = t2  c1 = c1  c2 = c2
  Jobs = {j1, j2}
  Runs = {r1, r2}
  Threads = {t1, t2}
  Clients = {c1, c2}
  NoRun = NoRun
  NoJob = NoJob
  NoThread = NoThread
  MaxRequests = 3
  MaxSurprises = 1
SYMMETRY Symmetry
CHECK_DEADLOCK FALSE
INVARIANTS TypeOK OneJobAtATime JobsAreAttended
PROPERTIES RestartKeepsQueue OpenRunsAreTakenUp
