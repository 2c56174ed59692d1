\* Links end, and runs of a benchmark.
CHECK_DEADLOCK FALSE
SPECIFICATION MCSpec
SYMMETRY Symmetry
CONSTANTS
  \* Policies around the boundaries: a single attempt, no delay, an initial delay
  \* above the maximum, a multiplier of one, requests above the maximum.
  Attempts = {0, 1, 2, 4}
  Delays = {0, 1, 2, 5}
  Multipliers = {0, 1, 2, 3}
  Requests = {0, 1, 3, 9}
  ann = ann
  ops = ops
  team = team
  Subjects = {ann}
  Groups = {ops, team}
  AclRefs = {"acl", "other"}
  PoliciesInUse <- MCPolicies
  PrincipalsInUse <- MCPrincipals
  ResourcesInUse <- MCResources
  stable = stable
  mixed = mixed
  Bundles <- MCBundles
  Concepts <- MCConcepts
  Builders = {v, w}
  None = None
  Torn = Torn
  MaxCrashes = 1
  root = root
  child = child
  text = text
  Names = {root, child, text}
  BundleName = root
  Directories <- MCDirectories
  EscapedText <- MCEscapedText
  NoTarget = NoTarget
  MaxSegments = 4
  expectedUid = expectedUid
  forbiddenUid = forbiddenUid
  CaseIds = {1, 2}
  ConceptUids = {expectedUid, forbiddenUid}
  Benchmarks <- MCBenchmarks
  Whole = 2
  MaxObservations = 2
  invoice = invoice
  billing = billing
  Records = {invoice}
  Titles = {billing, finance}
  EntitlementRefs = {a, b}
  Renderers = {v, w}
  NoMapping = NoMapping
  NoRef = NoRef
  NoFile = NoFile
  TornFile = TornFile
  MaxVersion = 1
  MaxRenderCrashes = 1
INVARIANTS SleepIsBounded DecisionsAreSound LinksLeadWhereValidated FullReportMeansFlawlessRun CheckedBundleIsCurrent
PROPERTIES BackoffGrows RevocationNeverGrants PairIsSound
