\* Two workers with their heartbeats, two recovering processes and one operator.
\* The clock is bounded, so a run ends when nothing is left to do.
SPECIFICATION Spec
CONSTANTS
  w1 = w1  w2 = w2  p1 = p1  p2 = p2  r1 = r1  i1 = i1
  Inputs = {i1}
  NoInput = NoInput
  NoWorker = NoWorker
  Workers = {w1, w2}
  Recoverers = {p1, p2}
  Requests = {r1}
  Methods = {"claim", "heartbeat", "succeed", "fail", "recover", "promote", "resume", "retry", "force_rerun"}
  Dispositions = {"retryable", "human_required"}
  SlowSessions = FALSE
  MaxAttempts = 3
  LeaseTicks = 1
  MaxTime = 3
  MaxClaims = 3
SYMMETRY Symmetry
CHECK_DEADLOCK FALSE
INVARIANTS AttemptsAgree
PROPERTIES OnlyExpiredLeasesTaken
