SPECIFICATION FairSpec
CONSTANTS
  p = p
  q = q
  r = r
  Procs = {p, q, r}
  Target = p
  PIPE_CAPACITY = 6
  MAX_COUNTERS = 2
  CounterCounts = {0, 3}
  Interruptible = TRUE
  MaxWork = 1
  None = None
  Apmc = Apmc
INVARIANT TypeOK
INVARIANT PrintsAllReports
INVARIANT ComplainsOnlyWithoutReports
INVARIANT FramesStay
PROPERTY SessionEnds
CHECK_DEADLOCK FALSE
