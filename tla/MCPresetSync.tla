---------------------------- MODULE MCPresetSync ----------------------------
(***************************************************************************)
(* Small instances of PresetSync for TLC: machines A and B.                *)
(***************************************************************************)
EXTENDS PresetSync

CONSTANTS A, B, p1

(* Nothing, or one kind of upset, in a behaviour.                          *)
OneAtATime == {{}, {"fault"}, {"overlap"}, {"edit"}, {"select"}}

OnlyFaults == {{"fault"}}
=============================================================================
