SPECIFICATION Spec
CONSTANTS
  a = a
  b = b
  blank = blank
  nothing = nothing
  t1 = t1
  Contents = {a, b}
  Empty = blank
  NoBytes = nothing
  Threads = {t1}
  NumNames = 2
  MaxFiles = 2
  MaxUploads = 2
  MaxRuns = 2
  MaxFaults = 1
  MaxEvents = 4
INVARIANT UploadsAreKept
INVARIANT DeletedStaysDeleted
INVARIANT ShownIsTrue
CONSTRAINT Small
SYMMETRY Renamings
CHECK_DEADLOCK FALSE
