\* One caller, batches of up to two ASINs, a retry, three names, one file copied or rewritten.
SPECIFICATION FairSpec
CONSTANTS
  a1 = a1  a2 = a2  c1 = c1  f1 = f1  f2 = f2  f3 = f3
  Asins = {a1, a2}
  Callers = {c1}
  Files = {f1, f2, f3}
  NoAsin = NoAsin
  NoFile = NoFile
  MaxRetries = 1
  MaxCalls = 2
  MaxTampering = 1
CHECK_DEADLOCK FALSE
INVARIANTS OneManifestPerCall EvidenceIsOwn EvidenceOnce HumanStopsBatch
PROPERTIES BatchesEnd
