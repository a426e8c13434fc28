SPECIFICATION Spec
CONSTANTS
  m = m
  a = a
  b = b
  Threads = {m, a}
  Main = m
  MAX_THREAD_SLOTS = 2
  INT_MAX = 7
  RegionMode = TRUE
  Exiters = {m}
  Forkers = {m}
  MaxTaken = 3
  MaxWork = 2
  MaxForks = 1
INVARIANTS SlotsDisjoint NoOrphanSlot HandlersHaveRun ExitReports
PROPERTY ImplementsLedger
