SPECIFICATION Spec
CONSTANTS
  f1 = f1
  f2 = f2
  t1 = t1
  poller = poller
  NumJobs = 1
  Files = {f1, f2}
  FileLists <- OneFile
  MaxActive = 1
  Threads = {t1}
  Poller = poller
  MaxCancels = 0
  MaxCrashes = 0
  SinksMayFail = FALSE
  FilesMayFail = FALSE
INVARIANT TwoRunnersDoNoHarm
CHECK_DEADLOCK FALSE
