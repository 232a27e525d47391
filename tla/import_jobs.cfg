SPECIFICATION Spec
CONSTANTS
  f1 = f1
  f2 = f2
  t1 = t1
  poller = poller
  NumJobs = 2
  Files = {f1, f2}
  FileLists <- OneOrBoth
  MaxActive = 1
  Threads = {t1}
  Poller = poller
  MaxCancels = 1
  MaxCrashes = 1
  SinksMayFail = FALSE
  FilesMayFail = TRUE
INVARIANT CompletedIsDone
INVARIANT CountedOnce
INVARIANT RetryHasOneRunner
INVARIANT ReadyIsIndexed
INVARIANT ActiveLimit
PROPERTY StatusMachine
CONSTRAINT Small
ACTION_CONSTRAINT FewRaise
CHECK_DEADLOCK FALSE
