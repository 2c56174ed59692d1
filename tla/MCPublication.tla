--------------------------- MODULE MCPublication ---------------------------
(* Two states of a bundle: in one every concept is stable, in the other    *)
(* there is a draft beside the stable one.  All become stale at time 1,    *)
(* and none lacks a field.                                                 *)
EXTENDS Publication

CONSTANTS stable, mixed

concept(status) == [status |-> status, staleAfter |-> 1, lacks |-> {}]

MCBundles == {stable, mixed}

MCConcepts ==
  [b \in MCBundles |->
     IF b = stable THEN {concept("stable")} ELSE {concept("stable"), concept("draft")}]
=============================================================================
