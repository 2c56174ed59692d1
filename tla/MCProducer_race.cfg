\* Two real runners race on one checkpoint of a feed that lists every change.
SPECIFICATION FairSpec
CONSTANTS
  a = a
  b = b
  d = d
  x = x
  y = y
  Runners <- TwoRunners
  DryRunners = {}
  Records <- TwoRecords
  LatestOnly = FALSE
  PageLimit = 2
  AtomicSink = TRUE
  MaxAttempts = 1
  MaxChanges = 3
  MaxFaults = 1
  IdleGenerations = 1
INVARIANTS CallInvariant PublishedIsCurrent
PROPERTIES CheckpointChain DeliversAtLeastOnce CatchesUpUnlessOvertaken
