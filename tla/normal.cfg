SPECIFICATION Spec
CONSTANTS
  m = m
  a = a
  b = b
  Threads = {m, a, b}
  Main = m
  MAX_THREAD_SLOTS = 2
  INT_MAX = 7
  RegionMode = FALSE
  Exiters = {m}
  Forkers = {m}
  MaxTaken = 7
  MaxWork = 1
  MaxForks = 1
INVARIANTS TypeOK SlotsDisjoint NoOrphanSlot UntrackedOnlyWhenFull HandlersHaveRun ExitReports
PROPERTY ImplementsLedger
