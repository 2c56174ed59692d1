\* A listing while the only release is withdrawn.
SPECIFICATION Spec
CONSTANTS
  ann = ann
  ops = ops
  main = main
  broken = broken
  old = old
  guide = guide
  plan = plan
  text = text
  text2 = text2
  secret = secret
  prod = prod
  next = next
  d1 = d1
  d2 = d2
  e1 = e1
  e2 = e2
  Subjects = {ann}
  Groups = {ops}
  AclRefs = {"open", "narrow"}
  Digests = {d1}
  Archives = {main, old}
  Paths = {guide, plan}
  Contents = {text, text2, secret}
  Contained <- MCContained
  Channels = {prod}
  Evidence = {e1}
  None = None
  Threads = {t1}
  Queries <- MCList
  Policy <- MCPolicy
INVARIANTS ListsNoneWithdrawn
