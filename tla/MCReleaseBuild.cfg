\* A build and its verification while the directory is edited twice.
SPECIFICATION Spec
CONSTANTS
  None = None
  Paths <- FourPaths
  ConceptPaths <- TwoConcepts
  ManifestPath = "META-INF"
  WalkRank <- Walk
  TextRank <- Texts
  Uids = {"u1", "u2"}
  Documents <- EightDocuments
  Bundles <- ThreeBundles
  CreatedAt = 1
  AcceptedForms = {"valid", "incomplete"}
  StaleIsError = TRUE
  BrokenIsError = TRUE
  MaxEdits = 2
INVARIANTS BuildInvariant BuiltVerifies ValidatedIsIndexable AlteredIsRejected QuietBuildIsExact
