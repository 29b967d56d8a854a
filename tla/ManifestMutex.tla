---------------------------- MODULE ManifestMutex ----------------------------
(***************************************************************************)
(* What the .manifest_lock protocol promises to the machines that share a  *)
(* manifest: a lock with one holder at a time, that can be orphaned when   *)
(* its holder's machine goes down and then is never granted again, and a   *)
(* manifest that changes only in the hands of the holder.                  *)
(***************************************************************************)
CONSTANTS Writers, NoManifest, Torn

VARIABLES
    holder,     \* the writer that has the lock, or "free", or "orphaned"
    content     \* content of sync_manifest.json

mvars == <<holder, content>>

MInit ==
    /\ holder = "free"
    /\ content = NoManifest

Acquire(w) ==
    /\ holder = "free"
    /\ holder' = w
    /\ UNCHANGED content

(* The holder tears the manifest, and later completes it.                  *)
Write(w) ==
    /\ holder = w
    /\ \/ content' = Torn
       \/ content = Torn /\ content' = w
    /\ UNCHANGED holder

Release(w) ==
    /\ holder = w
    /\ holder' = "free"
    /\ UNCHANGED content

Orphan(w) ==
    /\ holder = w
    /\ holder' = "orphaned"
    /\ UNCHANGED content

MNext == \E w \in Writers : Acquire(w) \/ Write(w) \/ Release(w) \/ Orphan(w)

MSpec == MInit /\ [][MNext]_mvars
=============================================================================
