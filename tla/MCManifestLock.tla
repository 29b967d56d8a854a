--------------------------- MODULE MCManifestLock ---------------------------
(***************************************************************************)
(* Instances of ManifestLock for TLC: two machines, one of which has two   *)
(* writers in flight.                                                      *)
(***************************************************************************)
EXTENDS ManifestLock, TLC

CONSTANTS w1, w2, w3, A, B

MCHost == [w \in Writers |-> IF w = w3 THEN B ELSE A]

=============================================================================
