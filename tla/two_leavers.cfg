SPECIFICATION Spec
CONSTANTS
  m = m
  a = a
  b = b
  Threads = {m, a}
  Main = m
  MAX_THREAD_SLOTS = 2
  INT_MAX = 7
  RegionMode = FALSE
  Exiters = {m, a}
  Forkers = {}
  MaxTaken = 7
  MaxWork = 2
  MaxForks = 0
INVARIANT LeavingReports
