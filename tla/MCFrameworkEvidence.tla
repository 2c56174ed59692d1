------------------------ MODULE MCFrameworkEvidence ------------------------
(* Two source trees of one version and one of the next, two locks.         *)
EXTENDS FrameworkEvidence, TLC

CONSTANTS s, t, u, k, l

MCSources == {s, t, u}
MCVersionOf == [x \in MCSources |-> IF x = u THEN 2 ELSE 1]

EvidenceSymmetry == Permutations({s, t}) \cup Permutations({k, l})
=============================================================================
