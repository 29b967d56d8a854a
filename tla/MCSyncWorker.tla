---------------------------- MODULE MCSyncWorker ----------------------------
(***************************************************************************)
(* Instances of SyncWorker for TLC: job names and kinds.                   *)
(***************************************************************************)
EXTENDS SyncWorker

CONSTANTS n1, p1, m1, m2

MCKind == [j \in Jobs |-> IF j = n1 THEN "network"
                          ELSE IF j = p1 THEN "preset" ELSE "manual"]
=============================================================================
