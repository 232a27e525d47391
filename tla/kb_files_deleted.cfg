SPECIFICATION Spec
CONSTANTS
  a = a
  b = b
  blank = blank
  nothing = nothing
  t1 = t1
  Contents = {a, b}
  Empty = blank
  NoBytes = nothing
  Threads = {t1}
  NumNames = 2
  MaxFiles = 1
  MaxUploads = 2
  MaxRuns = 1
  MaxFaults = 0
  MaxEvents = 4
SYMMETRY Renamings
INVARIANT DeletedLeavesNothing
CHECK_DEADLOCK FALSE
