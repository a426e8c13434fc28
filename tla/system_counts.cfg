SPECIFICATION Spec
CONSTANTS
  cycles = cycles
  instructions = instructions
  e1 = e1
  e2 = e2
  e3 = e3
  inst = inst
  junk = junk
  alias = alias
  unknown = unknown
  None = None
  Junk = Junk
  Unreadable = Unreadable
  Comma = Comma
  hardware <- Hardware
  Directories <- SomeDirectories
  Paths <- SomePaths
  own_cpu <- OwnCpu
  DEFAULT_EVENTS <- Defaults
  Requests <- SomeRequests
  U16 = 5
  U8_BITS = 8
  n_fixed = 2
  NConfigFree = 1
  NConfigForced = 2
  NCPU = 2
  hw_ncpu = 2
  MOD = 1200
  Bursts = {1100}
  MaxBursts = 2
  MaxConfigures = 2
INVARIANTS TypeOK BufferFits FailureReleases ReportsTrueCounts ListsEachEventOnce
