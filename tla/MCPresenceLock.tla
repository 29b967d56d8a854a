-------------------------- MODULE MCPresenceLock --------------------------
(***************************************************************************)
(* Small instances of PresenceLock for TLC: machines A and B.              *)
(***************************************************************************)
EXTENDS PresenceLock

CONSTANTS A, B

(* A starts again after it was stopped or killed.                         *)
TwiceOnA == [m \in Machines |-> IF m = A THEN 2 ELSE 1]

OneAtATime == {{}, {"fault"}, {"stall"}, {"kill"}, {"restore"}}
=============================================================================
