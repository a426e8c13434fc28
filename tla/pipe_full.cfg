SPECIFICATION EndingSpec
CONSTANTS
  p = p
  q = q
  r = r
  Procs = {p, q, r}
  Target = p
  PIPE_CAPACITY = 3
  MAX_COUNTERS = 2
  CounterCounts = {2}
  Interruptible = FALSE
  MaxWork = 0
  None = None
  Apmc = Apmc
PROPERTY ReportsIndependently
CHECK_DEADLOCK FALSE
