SPECIFICATION IngestSpec
CONSTANTS
  f1 = f1
  f2 = f2
  t1 = t1
  t2 = t2
  p1 = p1
  p2 = p2
  g1 = g1
  g2 = g2
  x = x
  Blank = Blank
  Torn = Torn
  Files = {f1, f2}
  Writers = {t1, t2}
  MaxOps = 4
  MaxFaults = 1
  Parsers = {p1, p2}
  NumPatterns = 1
  Layers <- SomeLayers
  Answers <- SomeAnswers
  MaxPages = 2
  MaxParses = 2
  None = None
  Lengths <- SomeLengths
  IndexSizes = {512}
  Sent <- SomeOptions
  SentParsings <- SomeParsings
  Names = {"default", "custom"}
  FileKinds = {"headed"}
  MaxJobs = 3
  Documents = {g1, g2}
  Locals = {x}
  MaxRefs = 2
  MaxKeys = 2
  MaxRuns = 2
  MaxHalts = 1
  Pictures = {x}
  Bare = Bare
  MaxItems = 4
  ChunkItems = 2
  IndexItems = 1
INVARIANT RefusalsAreRefused
CHECK_DEADLOCK FALSE
