\* Two real runners on a delta feed: a conflict after publication.
SPECIFICATION Spec
CONSTANTS
  a = a
  b = b
  d = d
  x = x
  y = y
  Runners <- TwoRunners
  DryRunners = {}
  Records <- OneRecord
  LatestOnly = TRUE
  PageLimit = 1
  AtomicSink = TRUE
  MaxAttempts = 1
  MaxChanges = 2
  MaxFaults = 0
  IdleGenerations = 0
INVARIANTS PublishedIsCurrent
