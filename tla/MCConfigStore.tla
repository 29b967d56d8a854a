--------------------------- MODULE MCConfigStore ---------------------------
(***************************************************************************)
(* Small instances of ConfigStore for TLC: two connections.                *)
(***************************************************************************)
EXTENDS ConfigStore

CONSTANTS H1, H2

Edited == [paths |-> "new", auto |-> FALSE, interval |-> 0, synced |-> 2]
Python == [paths |-> "old", auto |-> TRUE, interval |-> 0, synced |-> 2]

MCOwnFiles == {NoConfig, Edited}
MCLegacyFiles == {NoConfig, Python}

(* Two different settings, an onboarding (time 1 is the beginning of the   *)
(* calendar) and an interval that is refused.                              *)
MCPatches ==
    {[paths |-> "new", auto |-> TRUE, interval |-> 2, synced |-> Kept],
     [paths |-> "none", auto |-> FALSE, interval |-> 1, synced |-> Kept],
     [paths |-> "new", auto |-> FALSE, interval |-> 2, synced |-> 1],
     [paths |-> "new", auto |-> TRUE, interval |-> 0, synced |-> Kept]}

OneAtATime == {{}, {"fault"}, {"overlap"}, {"meanwhile"}}
=============================================================================
