SPECIFICATION Spec
CONSTANTS
  s = s
  t = t
  u = u
  k = k
  l = l
  Sources <- MCSources
  Locks = {k, l}
  VersionOf <- MCVersionOf
  Absent = Absent
  Broken = Broken
  MaxDisturbances = 1
SYMMETRY EvidenceSymmetry
INVARIANTS QuietBuildIsPristine RejectionHasACause ReproducedIsPristine
PROPERTIES AcceptanceIsSound
