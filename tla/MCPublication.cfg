SPECIFICATION Spec
CONSTANTS
  stable = stable
  mixed = mixed
  Bundles <- MCBundles
  Concepts <- MCConcepts
  Builders = {v}
  None = None
  Torn = Torn
  MaxCrashes = 0
  Publishers = {p, q}
  Trusted = {p}
  AllowedStatuses = {"stable"}
  RequireSourceHash = TRUE
  MaxTime = 1
  MaxPushes = 2
INVARIANTS SignedIsOwnPush AdmittedIsPublished AdmittedIsServed
