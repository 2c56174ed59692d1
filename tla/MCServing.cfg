\* Fetches, searches and listings while releases come and go.
SPECIFICATION Spec
CONSTANTS
  ann = ann
  ops = ops
  main = main
  broken = broken
  old = old
  guide = guide
  plan = plan
  text = text
  text2 = text2
  secret = secret
  prod = prod
  next = next
  d1 = d1
  d2 = d2
  e1 = e1
  e2 = e2
  Subjects = {ann}
  Groups = {ops}
  AclRefs = {"open", "narrow"}
  Digests = {d1, d2}
  Archives = {main, broken, old}
  Paths = {guide, plan}
  Contents = {text, text2, secret}
  Contained <- MCContained
  Channels = {prod, next}
  Evidence = {e1, e2}
  None = None
  Threads = {t1}
  Queries <- MCQueries
  Policy <- MCPolicy
SYMMETRY Symmetry
INVARIANTS TypeOK OnlyEntitledIsRead NothingRevealed LateRequestsDenied FetchedIsAdmitted PointersServeActive
PROPERTIES EvidenceIsRetained
