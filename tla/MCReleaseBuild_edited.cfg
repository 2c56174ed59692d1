\* A file edited between the two reads a build makes of it.
SPECIFICATION Spec
CONSTANTS
  None = None
  Paths <- FourPaths
  ConceptPaths <- TwoConcepts
  ManifestPath = "META-INF"
  WalkRank <- Walk
  TextRank <- Texts
  Uids = {"u1", "u2"}
  Documents <- EightDocuments
  Bundles <- ThreeBundles
  CreatedAt = 1
  AcceptedForms = {"valid", "incomplete"}
  StaleIsError = TRUE
  BrokenIsError = TRUE
  MaxEdits = 1
INVARIANTS EntriesDescribeContent
