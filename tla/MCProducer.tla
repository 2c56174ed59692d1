----------------------------- MODULE MCProducer -----------------------------
(* Small instances of Producer for TLC.  Runners and records are model     *)
(* values.                                                                 *)
EXTENDS Producer

CONSTANTS a, b, d, x, y

OneRunner == {a}
TwoRunners == {a, b}
OneAndDry == {a, d}
OnlyDry == {d}
OneRecord == {x}
TwoRecords == {x, y}
=============================================================================
