--------------------------- MODULE MCCatalogSync ---------------------------
(***************************************************************************)
(* Small instances of CatalogSync for TLC: machines A and B, each with its *)
(* own catalog directory, and the manifest on the share.                   *)
(***************************************************************************)
EXTENDS CatalogSync

CONSTANTS A, B, dirA, dirB, share

OwnCatalogDir     == [m \in Machines |-> IF m = A THEN dirA ELSE dirB]
SharedManifestDir == [m \in Machines |-> share]

(* Bounds: how often something happens on A and on B.                      *)
Never    == [m \in Machines |-> 0]
Each     == [m \in Machines |-> 1]
OnceOnA  == [m \in Machines |-> IF m = A THEN 1 ELSE 0]
OnceOnB  == [m \in Machines |-> IF m = A THEN 0 ELSE 1]
=============================================================================
