\* One walk of up to four pages over a connector that may answer anything.
SPECIFICATION Spec
CONSTANTS
  c0 = c0
  c1 = c1
  c2 = c2
  c3 = c3
  wiki = wiki
  other = other
  page = page
  Cursors = {c0, c1, c2, c3}
  Start = c0
  Sources = {wiki, other}
  Self = wiki
  Ids = {page}
  Versions = {1, 2}
  Flaws = {"BODY_EMPTY"}
  Batches <- MCBatches
  Fetched <- MCFetched
  PageSize = 1
  MaxPages = 4
INVARIANTS ConformantWalkIsComplete ConformantEventsAreDistinct ConformantPagesAreIngestible EveryStopIsExplained
