SPECIFICATION FairSpec
CONSTANTS
  Callers = {a, b}
  Paths = {remessa}
  Conns = {s1, s2, s3}
  Blocks = 1
  MaxRetries = 2
  MaxFaults = 2
  None = None
INVARIANTS IInv NoOrphanSession UploadedIsWhole FailuresAreCaused
PROPERTIES TransfersEnd
