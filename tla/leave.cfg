SPECIFICATION FairSpec
CONSTANTS
  m = m
  a = a
  b = b
  Threads = {m, a, b}
  Main = m
  MAX_THREAD_SLOTS = 2
  INT_MAX = 7
  RegionMode = FALSE
  Exiters = {m, a}
  Forkers = {}
  MaxTaken = 7
  MaxWork = 0
  MaxForks = 0
INVARIANTS AtMostOneMessage
PROPERTY OnlyTheWriteWaits
