\* One real runner on a feed of every change: a change overtaken before its fetch.
SPECIFICATION FairSpec
CONSTANTS
  a = a
  b = b
  d = d
  x = x
  y = y
  Runners <- OneRunner
  DryRunners = {}
  Records <- OneRecord
  LatestOnly = FALSE
  PageLimit = 1
  AtomicSink = TRUE
  MaxAttempts = 2
  MaxChanges = 2
  MaxFaults = 0
  IdleGenerations = 1
PROPERTIES CatchesUp
