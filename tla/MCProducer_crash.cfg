\* One real runner and a dry runner against a delta feed, with failures.
SPECIFICATION FairSpec
CONSTANTS
  a = a
  b = b
  d = d
  x = x
  y = y
  Runners <- OneAndDry
  DryRunners <- OnlyDry
  Records <- TwoRecords
  LatestOnly = TRUE
  PageLimit = 2
  AtomicSink = FALSE
  MaxAttempts = 2
  MaxChanges = 3
  MaxFaults = 1
  IdleGenerations = 1
INVARIANTS NothingSkipped PublishedIsCurrent
PROPERTIES EffectsNeedRealRuns CatchesUp
