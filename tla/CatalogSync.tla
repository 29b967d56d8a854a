---------------------------- MODULE CatalogSync ----------------------------
(***************************************************************************)
(* Catalog synchronisation between machines: the orchestrator              *)
(* (internal/coordinator/catalog_sync_orchestrator.go), the three rules    *)
(* (internal/sync/manifest.go), the restore of a catalog from a backup zip *)
(* with its pre-sync copy and the retention of old zips                    *)
(* (internal/sync/catalog_restore.go, retention.go), fed by the Lightroom  *)
(* and backup monitors (internal/monitor) and wired up in                  *)
(* cmd/agent/main.go.                                                      *)
(*                                                                         *)
(* Backup zips live in one shared folder.  A machine restores into         *)
(* CatalogDir[m] and keeps the manifest in ManifestDir[m]: the agent wires *)
(* both to the configured catalog_path, the orchestrator and               *)
(* .docs/sync-architecture.md keep them apart, so both are parameters.     *)
(*                                                                         *)
(* A catalog's content is named by the zip that holds it, or by the        *)
(* directory when no zip does.  The queue and the pause switch of the      *)
(* worker are those of SyncWorker, seen from the jobs; a preset cycle      *)
(* (PresetSync) is here a job that takes its place in the queue.           *)
(***************************************************************************)
EXTENDS Integers, Sequences, FiniteSets

CONSTANTS
    Machines, Zips, Dirs,
    CatalogDir,   \* CatalogDir[m]: where m restores
    ManifestDir,  \* ManifestDir[m]: where m reads and writes the manifest
    AutoSync,     \* machines with auto_sync on
    FirstLaunch,  \* machines that have never synced
    PresetUsers,  \* machines with preset_sync_enabled
    UnsafeSaves,  \* machines whose save of config.yaml may fail or be cut off
    MaxBackups,   \* max_catalog_backups
    QueueSize,    \* capacity of the worker's queue
    MaxRestarts,  \* MaxRestarts[m]: bound on restarts of m's agent
    MaxOpens,     \* MaxOpens[m]: bound on starts of Lightroom on m
    MaxManual,    \* MaxManual[m]: bound on commands of m's user and on calls
                  \* of the onboarding dialog that are lost
    NoZip, NoManifest,
    Wiped,        \* a catalog directory without catalog files
    Partial       \* one with some of them

ASSUME CatalogAssumption ==
    /\ CatalogDir \in [Machines -> Dirs]
    /\ ManifestDir \in [Machines -> Dirs]
    /\ AutoSync \subseteq Machines
    /\ FirstLaunch \subseteq Machines
    /\ PresetUsers \subseteq Machines /\ UnsafeSaves \subseteq Machines
    /\ {MaxBackups, QueueSize} \subseteq Nat \ {0}
    /\ {MaxRestarts, MaxOpens, MaxManual} \subseteq [Machines -> Nat]
    /\ NoZip \notin Zips \cup Machines
    /\ {Wiped, Partial} \cap (Zips \cup Dirs) = {}

VARIABLES
    \* shared and on disk
    clock,       \* timestamps taken so far; the machines' clocks agree
    shelf,       \* zips in the backup folder, oldest first
    maker,       \* maker[z]: the machine whose Lightroom made z
    corrupt,     \* zips that cannot be read back
    manifest,    \* manifest[d]: sync_manifest.json in directory d
    catalog,     \* catalog[d]: content of catalog directory d
    presync,     \* presync[d]: pre-sync copies in d, oldest first
    lastSynced,  \* lastSynced[m]: last_synced_timestamp of m's agent ...
    stored,      \* ... and what a start would read of it, 0 when torn
    \* beside the worker and the orchestrator of m
    lr,          \* lr[m]: is Lightroom running on m
    ui,          \* ui[m]: where the onboarding dialog of m is
    copied,      \* the timestamp in the copy a save_config handler has
    presets,     \* calls of enqueuePresetSync that are due
    \* in the memory of m's agent
    lrSeen,      \* AppState.lightroomRunning
    stopEvt,     \* a RunPendingIfAny is due
    check,       \* where the startup check is; at "pend" it holds the mutex
    cand,        \* the manifest it has decided to sync
    seen,        \* newest zip known to the backup monitor, <<>> before baseline
    detected,    \* zips whose OnLocalBackupCreated is due
    pending,     \* orchestrator.pendingManifest
    jobs,        \* jobs accepted by the worker, the first running or held
    step,        \* next step of the running job
    doneEvt,     \* manifest of a network job whose OnSyncCompleted is due
    paused       \* the worker's pause switch

(* Bounds and history.                                                     *)
VARIABLES
    used,        \* used[m]: restarts, opens and commands so far
    lastGood,    \* lastGood[d]: the content d last had in full
    tries,       \* tries[d]: copies made of d's catalog since it broke
    touched,     \* touched[d]: Lightroom was open on d during a restore
    recorded,    \* recorded[m]: manifests m has synced and recorded, until
                 \* its timestamp goes back before them
    answered     \* answered[m]: has m's user answered or onboarded

stamps  == <<lastSynced, stored>>
disk    == <<clock, shelf, maker, corrupt, manifest, catalog, presync, stamps>>
outside == <<lr, ui, copied, presets>>
memory  == <<lrSeen, stopEvt, check, cand, seen, detected, pending, jobs, step,
             doneEvt, paused>>
hist    == <<used, lastGood, tries, touched, recorded, answered>>
vars    == <<disk, outside, memory, hist>>

Contents  == Zips \cup Dirs
Manifests == [machine : Machines, time : Nat, zip : Zips]
MaybeManifest == Manifests \cup {NoManifest}
Jobs      == [kind : {"network", "latest", "chosen", "preset"}, man : MaybeManifest,
              zip : Zips \cup {NoZip}]
Steps     == {"idle", "validate", "presync", "retain", "revalidate", "clean",
              "extract", "preset"}
Broken(d) == catalog[d] \in {Wiped, Partial}

Epoch == 1   \* the 1970 timestamp of onboarding; 0 is the empty string

(* The agent asks for a preset cycle once after its start.                 *)
AtStart(m) == [start |-> m \in PresetUsers, calls |-> 0]

Newest == IF shelf = <<>> THEN NoZip ELSE shelf[Len(shelf)]
OnShelf(z) == \E i \in DOMAIN shelf : shelf[i] = z
Readable(z) == OnShelf(z) /\ z \notin corrupt

(* CleanupZipRetention: the newest n stay.                                 *)
KeepNewest(s, n) ==
    IF Len(s) <= n THEN s ELSE SubSeq(s, Len(s) - n + 1, Len(s))

(* A step of a job belongs to a job.                                       *)
JobsOK ==
    /\ jobs \in [Machines -> Seq(Jobs)]
    /\ step \in [Machines -> Steps]
    /\ \A m \in Machines : step[m] # "idle" => jobs[m] # <<>>

(* Every variable has its type.                                            *)
TypeOK ==
    /\ clock \in Nat
    /\ shelf \in Seq(Zips)
    /\ maker \in [Zips -> Machines \cup {NoZip}]
    /\ corrupt \in SUBSET Zips
    /\ manifest \in [Dirs -> MaybeManifest]
    /\ catalog \in [Dirs -> Contents \cup {Wiped, Partial}]
    /\ presync \in [Dirs -> Seq(Contents \cup {Partial})]
    /\ lastSynced \in [Machines -> Nat] /\ stored \in [Machines -> Nat]
    /\ copied \in [Machines -> Seq(Nat)]
    /\ presets \in [Machines -> [start : BOOLEAN, calls : Nat]]
    /\ lr \in [Machines -> BOOLEAN] /\ lrSeen \in [Machines -> BOOLEAN]
    /\ stopEvt \in [Machines -> BOOLEAN] /\ paused \in [Machines -> BOOLEAN]
    /\ ui \in [Machines -> {"none", "ask", "pull", "push", "sync"}]
    /\ check \in [Machines -> {"due", "decided", "pend", "done"}]
    /\ seen \in [Machines -> {<<>>} \cup {<<z>> : z \in Zips \cup {NoZip}}]
    /\ detected \in [Machines -> SUBSET Zips]
    /\ cand \in [Machines -> MaybeManifest]
    /\ pending \in [Machines -> MaybeManifest]
    /\ doneEvt \in [Machines -> MaybeManifest]
    /\ JobsOK
    /\ lastGood \in [Dirs -> Contents]
    /\ tries \in [Dirs -> Nat]
    /\ touched \in [Dirs -> BOOLEAN]
    /\ recorded \in [Machines -> SUBSET Manifests]
    /\ answered \in [Machines -> BOOLEAN]

Init ==
    /\ clock = Epoch
    /\ shelf = <<>>
    /\ maker = [z \in Zips |-> NoZip]
    /\ corrupt = {}
    /\ manifest = [d \in Dirs |-> NoManifest]
    /\ catalog = [d \in Dirs |-> d]
    /\ presync = [d \in Dirs |-> <<>>]
    /\ lastSynced = [m \in Machines |-> IF m \in FirstLaunch THEN 0 ELSE Epoch]
    /\ stored = lastSynced
    /\ lr = [m \in Machines |-> FALSE]
    /\ ui = [m \in Machines |-> "none"]
    /\ copied = [m \in Machines |-> <<>>]
    /\ presets = [m \in Machines |-> AtStart(m)]
    /\ lrSeen = [m \in Machines |-> FALSE]
    /\ stopEvt = [m \in Machines |-> FALSE]
    /\ check = [m \in Machines |-> IF m \in AutoSync THEN "due" ELSE "done"]
    /\ cand = [m \in Machines |-> NoManifest]
    /\ seen = [m \in Machines |-> <<>>]
    /\ detected = [m \in Machines |-> {}]
    /\ pending = [m \in Machines |-> NoManifest]
    /\ jobs = [m \in Machines |-> <<>>]
    /\ step = [m \in Machines |-> "idle"]
    /\ doneEvt = [m \in Machines |-> NoManifest]
    /\ paused = [m \in Machines |-> m \in FirstLaunch]
    /\ used = [m \in Machines |-> [restarts |-> 0, opens |-> 0, manual |-> 0]]
    /\ lastGood = [d \in Dirs |-> d]
    /\ tries = [d \in Dirs |-> 0]
    /\ touched = [d \in Dirs |-> FALSE]
    /\ recorded = [m \in Machines |-> {}]
    /\ answered = [m \in Machines |-> FALSE]

-----------------------------------------------------------------------------
(* Lightroom, on a catalog that is whole.  Before it exits it may leave a  *)
(* backup zip of its catalog in the shared folder.                         *)

LightroomStart(m) ==
    LET d == CatalogDir[m] IN
    /\ ~lr[m] /\ ~Broken(d)
    /\ used[m].opens < MaxOpens[m]
    /\ used' = [used EXCEPT ![m].opens = @ + 1]
    /\ lr' = [lr EXCEPT ![m] = TRUE]
    /\ touched' = [touched EXCEPT ![d] = @ \/ step[m] \notin {"idle", "preset"}]
    /\ UNCHANGED <<disk, ui, copied, presets, memory, lastGood, tries, recorded, answered>>

LightroomBackup(m, z) ==
    LET d == CatalogDir[m] IN
    /\ lr[m] /\ ~Broken(d)
    /\ maker[z] = NoZip
    /\ maker' = [maker EXCEPT ![z] = m]
    /\ shelf' = Append(shelf, z)
    /\ corrupt' \in {corrupt, corrupt \cup {z}}
    /\ catalog' = [catalog EXCEPT ![d] = z]
    /\ lastGood' = [lastGood EXCEPT ![d] = z]
    /\ UNCHANGED <<clock, manifest, presync, stamps, outside, memory, used,
                   tries, touched, recorded, answered>>

LightroomExit(m) ==
    /\ lr[m]
    /\ lr' = [lr EXCEPT ![m] = FALSE]
    /\ UNCHANGED <<disk, ui, copied, presets, memory, hist>>

(* A handler starts one more enqueuePresetSync.                            *)
CallPresetSync(m) ==
    presets' = IF m \in PresetUsers THEN [presets EXCEPT ![m].calls = @ + 1]
               ELSE presets

(* Mutant of ProbeLightroom: the stop is shown but not announced.          *)
ProbeUnannounced(m) ==
    /\ lrSeen[m] # lr[m]
    /\ lrSeen' = [lrSeen EXCEPT ![m] = lr[m]]
    /\ UNCHANGED <<disk, outside, stopEvt, check, cand, seen, detected,
                   pending, jobs, step, doneEvt, paused, hist>>

(* LightroomMonitor.probeAndDispatch with the agent's hooks: on an edge    *)
(* the status is set and, when Lightroom stopped, RunPendingIfAny and a    *)
(* preset cycle are due.                                                   *)
ProbeLightroom(m) ==
    /\ lrSeen[m] # lr[m]
    /\ lrSeen' = [lrSeen EXCEPT ![m] = lr[m]]
    /\ stopEvt' = [stopEvt EXCEPT ![m] = @ \/ ~lr[m]]
    /\ IF lr[m] THEN UNCHANGED presets ELSE CallPresetSync(m)
    /\ UNCHANGED <<disk, lr, ui, copied, check, cand, seen, detected, pending, jobs,
                   step, doneEvt, paused, hist>>

-----------------------------------------------------------------------------
(* Publishing backups *)

(* BackupMonitor.scanAndDispatch: the first scan is the baseline, a later  *)
(* one reports the newest zip when it is another than before.              *)
ScanBackups(m) ==
    /\ seen[m] # <<Newest>>
    /\ seen' = [seen EXCEPT ![m] = <<Newest>>]
    /\ detected' = IF seen[m] = <<>> THEN detected
                   ELSE [detected EXCEPT ![m] = @ \cup ({Newest} \ {NoZip})]
    /\ UNCHANGED <<disk, outside, lrSeen, stopEvt, check, cand, pending, jobs,
                   step, doneEvt, paused, hist>>

(* OnLocalBackupCreated: NewManifestForBackup with this machine's name and *)
(* time, then WriteManifest.                                               *)
OnLocalBackupCreated(m, z) ==
    /\ z \in detected[m]
    /\ OnShelf(z)
    /\ clock' = clock + 1
    /\ manifest' = [manifest EXCEPT ![ManifestDir[m]] =
                       [machine |-> m, time |-> clock', zip |-> z]]
    /\ detected' = [detected EXCEPT ![m] = @ \ {z}]
    /\ UNCHANGED <<shelf, maker, corrupt, catalog, presync, stamps, outside,
                   lrSeen, stopEvt, check, cand, seen, pending, jobs, step,
                   doneEvt, paused, hist>>

(* The zip is gone, or the manifest lock is not obtained in time: logged.  *)
PublishFails(m, z) ==
    /\ z \in detected[m]
    /\ detected' = [detected EXCEPT ![m] = @ \ {z}]
    /\ UNCHANGED <<disk, outside, lrSeen, stopEvt, check, cand, seen, pending,
                   jobs, step, doneEvt, paused, hist>>

-----------------------------------------------------------------------------
(* Deciding to sync *)

(* ShouldSyncFromNetwork's three rules.                                    *)
SelfBackup(m, man) == man.machine = m
Covers(stamp, man) == stamp # 0 /\ stamp >= man.time
AlreadySynced(m, man) == Covers(lastSynced[m], man)
ShouldSyncFromNetwork(m, man) ==
    /\ man # NoManifest
    /\ ~SelfBackup(m, man)
    /\ ~AlreadySynced(m, man)
    /\ OnShelf(man.zip)

NetworkJob(man) == [kind |-> "network", man |-> man, zip |-> man.zip]
LatestJob       == [kind |-> "latest", man |-> NoManifest, zip |-> NoZip]
ChosenJob(z)    == [kind |-> "chosen", man |-> NoManifest, zip |-> z]
PresetJob       == [kind |-> "preset", man |-> NoManifest, zip |-> NoZip]

(* The worker has taken the first job, the others are in its queue.        *)
QueueFull(m) == Len(jobs[m]) > QueueSize
Enqueue(m, job) == jobs' = [jobs EXCEPT ![m] = Append(@, job)]
EnqueueOrReject(m, job) ==
    IF QueueFull(m) THEN UNCHANGED jobs ELSE Enqueue(m, job)

(* CheckStartupManifest, once, 1.2s after the agent starts: read the       *)
(* manifest and ask the rules.  With auto_sync off there is no check.      *)
CheckStartupManifest(m) ==
    LET man == manifest[ManifestDir[m]] IN
    /\ check[m] = "due"
    /\ IF ShouldSyncFromNetwork(m, man)
       THEN /\ check' = [check EXCEPT ![m] = "decided"]
            /\ cand' = [cand EXCEPT ![m] = man]
       ELSE check' = [check EXCEPT ![m] = "done"] /\ UNCHANGED cand
    /\ UNCHANGED <<disk, outside, lrSeen, stopEvt, seen, detected, pending,
                   jobs, step, doneEvt, paused, hist>>

(* The manifest cannot be read or parsed: logged, and that was the check.  *)
StartupReadFails(m) ==
    /\ check[m] = "due"
    /\ manifest[ManifestDir[m]] # NoManifest
    /\ check' = [check EXCEPT ![m] = "done"]
    /\ UNCHANGED <<disk, outside, lrSeen, stopEvt, cand, seen, detected,
                   pending, jobs, step, doneEvt, paused, hist>>

(* queueOrPend takes the mutex; when Lightroom is seen running it keeps it *)
(* until the manifest is pended, otherwise the job is enqueued.            *)
QueueOrPend(m) ==
    /\ check[m] = "decided"
    /\ IF lrSeen[m]
       THEN /\ check' = [check EXCEPT ![m] = "pend"]
            /\ UNCHANGED <<jobs, pending>>
       ELSE /\ check' = [check EXCEPT ![m] = "done"]
            /\ IF QueueFull(m) THEN UNCHANGED <<jobs, pending>>
               ELSE /\ Enqueue(m, NetworkJob(cand[m]))
                    /\ pending' = [pending EXCEPT ![m] = NoManifest]
    /\ UNCHANGED <<disk, outside, lrSeen, stopEvt, cand, seen, detected, step,
                   doneEvt, paused, hist>>

PendManifest(m) ==
    /\ check[m] = "pend"
    /\ pending' = [pending EXCEPT ![m] = cand[m]]
    /\ check' = [check EXCEPT ![m] = "done"]
    /\ UNCHANGED <<disk, outside, lrSeen, stopEvt, cand, seen, detected, jobs,
                   step, doneEvt, paused, hist>>

(* Mutant of RunPendingIfAny: without the mutex.                           *)
RunPendingUnlocked(m) ==
    /\ stopEvt[m]
    /\ stopEvt' = [stopEvt EXCEPT ![m] = FALSE]
    /\ IF pending[m] # NoManifest /\ ~lrSeen[m] /\ ~QueueFull(m)
       THEN /\ Enqueue(m, NetworkJob(pending[m]))
            /\ pending' = [pending EXCEPT ![m] = NoManifest]
       ELSE UNCHANGED <<jobs, pending>>
    /\ UNCHANGED <<disk, outside, lrSeen, check, cand, seen, detected, step,
                   doneEvt, paused, hist>>

(* RunPendingIfAny, under the same mutex, enqueues what was pended without *)
(* asking the rules again, unless Lightroom is seen running.  With the     *)
(* queue full the manifest stays pended.                                   *)
RunPendingIfAny(m) ==
    /\ stopEvt[m] /\ check[m] # "pend"
    /\ stopEvt' = [stopEvt EXCEPT ![m] = FALSE]
    /\ IF pending[m] # NoManifest /\ ~lrSeen[m] /\ ~QueueFull(m)
       THEN /\ Enqueue(m, NetworkJob(pending[m]))
            /\ pending' = [pending EXCEPT ![m] = NoManifest]
       ELSE UNCHANGED <<jobs, pending>>
    /\ UNCHANGED <<disk, outside, lrSeen, check, cand, seen, detected, step,
                   doneEvt, paused, hist>>

-----------------------------------------------------------------------------
(* Preset cycles.  They share the worker and its queue with the restores.  *)

(* Two seconds after the start, unless Lightroom is seen running.          *)
PresetSyncAtStart(m) ==
    /\ presets[m].start
    /\ presets' = [presets EXCEPT ![m].start = FALSE]
    /\ IF lrSeen[m] THEN UNCHANGED jobs ELSE EnqueueOrReject(m, PresetJob)
    /\ UNCHANGED <<disk, lr, ui, copied, lrSeen, stopEvt, check, cand, seen,
                   detected, pending, step, doneEvt, paused, hist>>

(* After a stop of Lightroom or a network sync.                            *)
PresetSyncCalled(m) ==
    /\ presets[m].calls > 0
    /\ presets' = [presets EXCEPT ![m].calls = @ - 1]
    /\ EnqueueOrReject(m, PresetJob)
    /\ UNCHANGED <<disk, lr, ui, copied, lrSeen, stopEvt, check, cand, seen,
                   detected, pending, step, doneEvt, paused, hist>>

-----------------------------------------------------------------------------
(* The running job *)

Job(m) == Head(jobs[m])

(* Mutant of StartJob: the pause gate is missing.                          *)
StartJobUngated(m) ==
    LET d == CatalogDir[m] IN
    /\ step[m] = "idle" /\ jobs[m] # <<>> /\ Job(m).kind # "preset"
    /\ step' = [step EXCEPT ![m] = IF Job(m).kind = "network" THEN "validate"
                                   ELSE "revalidate"]
    /\ jobs' = IF Job(m).kind = "latest"
               THEN [jobs EXCEPT ![m][1].zip = Newest] ELSE jobs
    /\ touched' = [touched EXCEPT ![d] = lr[m] \/ (Broken(d) /\ @)]
    /\ UNCHANGED <<disk, outside, lrSeen, stopEvt, check, cand, seen, detected,
                   pending, doneEvt, paused, used, lastGood, tries, recorded,
                   answered>>

(* The worker passes the pause gate.  Sync Now lists the backups now, and  *)
(* restores the newest one, whoever made it.                               *)
StartJob(m) ==
    LET d == CatalogDir[m] IN
    /\ step[m] = "idle" /\ jobs[m] # <<>> /\ ~paused[m]
    /\ Job(m).kind # "preset"
    /\ step' = [step EXCEPT ![m] = IF Job(m).kind = "network" THEN "validate"
                                   ELSE "revalidate"]
    /\ jobs' = IF Job(m).kind = "latest"
               THEN [jobs EXCEPT ![m][1].zip = Newest] ELSE jobs
    /\ touched' = [touched EXCEPT ![d] = lr[m] \/ (Broken(d) /\ @)]
    /\ UNCHANGED <<disk, outside, lrSeen, stopEvt, check, cand, seen, detected,
                   pending, doneEvt, paused, used, lastGood, tries, recorded,
                   answered>>

(* Mutant of JobEnds: the step of the finished job survives it.            *)
JobEndsOnly(m) ==
    /\ jobs' = [jobs EXCEPT ![m] = Tail(@)]
    /\ UNCHANGED step

(* Execute has returned, and the worker is free for the next job.          *)
JobEnds(m) ==
    /\ step' = [step EXCEPT ![m] = "idle"]
    /\ jobs' = [jobs EXCEPT ![m] = Tail(@)]

GoTo(m, s) == step' = [step EXCEPT ![m] = s] /\ UNCHANGED jobs

(* The cycle of a preset job, and its end, whatever came of it.            *)
StartPresetJob(m) ==
    /\ step[m] = "idle" /\ jobs[m] # <<>> /\ ~paused[m]
    /\ Job(m).kind = "preset"
    /\ GoTo(m, "preset")
    /\ UNCHANGED <<disk, outside, lrSeen, stopEvt, check, cand, seen, detected,
                   pending, doneEvt, paused, hist>>

PresetJobEnds(m) ==
    /\ step[m] = "preset"
    /\ JobEnds(m)
    /\ UNCHANGED <<disk, outside, lrSeen, stopEvt, check, cand, seen, detected,
                   pending, doneEvt, paused, hist>>

(* ValidateZipIntegrity before a network sync, and again in                *)
(* RestoreCatalogFromZip.                                                  *)
Validate(m) ==
    /\ step[m] \in {"validate", "revalidate"}
    /\ IF Readable(Job(m).zip)
       THEN GoTo(m, IF step[m] = "validate" THEN "presync" ELSE "clean")
       ELSE JobEnds(m)
    /\ UNCHANGED <<disk, outside, lrSeen, stopEvt, check, cand, seen, detected,
                   pending, doneEvt, paused, hist>>

(* CreatePreSyncBackup copies what catalog files there are and prunes the  *)
(* copies.                                                                 *)
CreatePreSyncBackup(m) ==
    LET d == CatalogDir[m] IN
    /\ step[m] = "presync"
    /\ IF catalog[d] = Wiped THEN UNCHANGED <<presync, tries>>
       ELSE /\ presync' = [presync EXCEPT ![d] =
                              KeepNewest(Append(@, catalog[d]), MaxBackups)]
            /\ tries' = [tries EXCEPT ![d] = IF Broken(d) THEN @ + 1 ELSE @]
    /\ GoTo(m, "retain")
    /\ UNCHANGED <<clock, shelf, maker, corrupt, manifest, catalog, stamps,
                   outside, lrSeen, stopEvt, check, cand, seen, detected,
                   pending, doneEvt, paused, used, lastGood, touched, recorded,
                   answered>>

(* Mutant of PreSyncFails: the error is only logged and the sync goes on.  *)
PreSyncFailureIgnored(m) ==
    /\ step[m] = "presync"
    /\ GoTo(m, "retain")
    /\ UNCHANGED <<disk, outside, lrSeen, stopEvt, check, cand, seen, detected,
                   pending, doneEvt, paused, hist>>

(* It fails before, while or after writing the copy: an incomplete copy is *)
(* left behind, nothing is pruned, and the job ends with the error.        *)
PreSyncFails(m) ==
    LET d == CatalogDir[m] IN
    /\ step[m] = "presync"
    /\ \/ UNCHANGED <<presync, tries>>
       \/ /\ catalog[d] # Wiped
          /\ \E c \in {Partial, catalog[d]} :
                presync' = [presync EXCEPT ![d] = Append(@, c)]
          /\ tries' = [tries EXCEPT ![d] = IF Broken(d) THEN @ + 1 ELSE @]
    /\ JobEnds(m)
    /\ UNCHANGED <<clock, shelf, maker, corrupt, manifest, catalog, stamps,
                   outside, lrSeen, stopEvt, check, cand, seen, detected,
                   pending, doneEvt, paused, used, lastGood, touched, recorded,
                   answered>>

(* CleanupZipRetention of the shared folder; its errors are only logged.   *)
CleanupZipRetention(m) ==
    /\ step[m] = "retain"
    /\ shelf' \in {shelf, KeepNewest(shelf, MaxBackups)}
    /\ GoTo(m, "revalidate")
    /\ UNCHANGED <<clock, maker, corrupt, manifest, catalog, presync,
                   stamps, outside, lrSeen, stopEvt, check, cand, seen,
                   detected, pending, doneEvt, paused, hist>>

(* CleanupCatalogArtifacts removes the old catalog; a file in use stops it *)
(* at the first file or half way, and fails the job.                       *)
CleanupCatalogArtifacts(m) ==
    LET d == CatalogDir[m] IN
    /\ step[m] = "clean"
    /\ \/ /\ catalog' = [catalog EXCEPT ![d] = Wiped]
          /\ GoTo(m, "extract")
       \/ /\ catalog' \in {catalog, [catalog EXCEPT ![d] = Partial]}
          /\ catalog[d] # Wiped
          /\ JobEnds(m)
    /\ UNCHANGED <<clock, shelf, maker, corrupt, manifest, presync, stamps,
                   outside, lrSeen, stopEvt, check, cand, seen, detected,
                   pending, doneEvt, paused, hist>>

(* ExtractZipSafe puts the backup in place.  The removal of transient      *)
(* files that follows may still fail the job.                              *)
ExtractZip(m) ==
    LET d == CatalogDir[m]
        z == Job(m).zip IN
    /\ step[m] = "extract"
    /\ Readable(z)
    /\ catalog' = [catalog EXCEPT ![d] = z]
    /\ lastGood' = [lastGood EXCEPT ![d] = z]
    /\ tries' = [tries EXCEPT ![d] = 0]
    /\ \/ UNCHANGED doneEvt
       \/ /\ Job(m).kind = "network"
          /\ doneEvt' = [doneEvt EXCEPT ![m] = Job(m).man]
    /\ JobEnds(m)
    /\ UNCHANGED <<clock, shelf, maker, corrupt, manifest, presync, stamps,
                   outside, lrSeen, stopEvt, check, cand, seen, detected,
                   pending, paused, used, touched, recorded, answered>>

(* It fails: the zip has gone from the share, or a file cannot be written. *)
ExtractFails(m) ==
    LET d == CatalogDir[m] IN
    /\ step[m] = "extract"
    /\ \/ UNCHANGED catalog
       \/ /\ OnShelf(Job(m).zip)
          /\ catalog' = [catalog EXCEPT ![d] = Partial]
    /\ JobEnds(m)
    /\ UNCHANGED <<clock, shelf, maker, corrupt, manifest, presync, stamps,
                   outside, lrSeen, stopEvt, check, cand, seen, detected,
                   pending, doneEvt, paused, hist>>

(* The manager takes the timestamp into its memory and saves the file: the *)
(* save may fail, leaving the file as it was or torn, and so may an agent  *)
(* that stops in it.  last_synced_timestamp is the last field of the file. *)
(* A failure shows in the next restart, and is left out if none follows.   *)
SaveStamp(m, t) ==
    /\ lastSynced' = [lastSynced EXCEPT ![m] = t]
    /\ \/ stored' = [stored EXCEPT ![m] = t]
       \/ /\ m \in UnsafeSaves /\ used[m].restarts < MaxRestarts[m]
          /\ stored' \in {stored, [stored EXCEPT ![m] = 0]}

(* What stands of m's record once its timestamp is t: all of it, unless    *)
(* the timestamp goes back, and then what t still covers.                  *)
Standing(m, t) ==
    {man \in recorded[m] : t >= lastSynced[m] \/ Covers(t, man)}

(* Mutant of OnSyncCompleted: the timestamp is not saved.                  *)
OnSyncCompletedUnsaved(m) ==
    /\ doneEvt[m] # NoManifest
    /\ doneEvt' = [doneEvt EXCEPT ![m] = NoManifest]
    /\ recorded' = [recorded EXCEPT ![m] = @ \cup {doneEvt[m]}]
    /\ CallPresetSync(m)
    /\ UNCHANGED <<clock, stamps, shelf, maker, corrupt, manifest, catalog,
                   presync, lr, ui, copied, lrSeen, stopEvt, check, cand, seen,
                   detected, pending, jobs, step, paused, used, lastGood,
                   tries, touched, answered>>

(* OnSyncCompleted records the time of completion, and the handler that    *)
(* called it asks for a preset cycle.                                      *)
OnSyncCompleted(m) ==
    /\ doneEvt[m] # NoManifest
    /\ clock' = clock + 1
    /\ SaveStamp(m, clock')
    /\ doneEvt' = [doneEvt EXCEPT ![m] = NoManifest]
    /\ recorded' = [recorded EXCEPT ![m] = @ \cup {doneEvt[m]}]
    /\ CallPresetSync(m)
    /\ UNCHANGED <<shelf, maker, corrupt, manifest, catalog, presync, lr, ui,
                   copied, lrSeen, stopEvt, check, cand, seen, detected,
                   pending, jobs, step, paused, used, lastGood, tries, touched,
                   answered>>

-----------------------------------------------------------------------------
(* The user *)

Command(m) == /\ used[m].manual < MaxManual[m]
              /\ used' = [used EXCEPT ![m].manual = @ + 1]

(* Sync Now and Restore backup: no rule, no pre-sync copy, no retention.   *)
ManualRestore(m) ==
    /\ Command(m)
    /\ \/ EnqueueOrReject(m, LatestJob)
       \/ \E z \in Zips : OnShelf(z) /\ EnqueueOrReject(m, ChosenJob(z))
    /\ UNCHANGED <<disk, outside, lrSeen, stopEvt, check, cand, seen, detected,
                   pending, step, doneEvt, paused, lastGood, tries, touched,
                   recorded, answered>>

PauseOrResume(m) ==
    /\ Command(m)
    /\ paused' = [paused EXCEPT ![m] = ~@]
    /\ answered' = [answered EXCEPT ![m] = @ \/ paused[m]]
    /\ UNCHANGED <<disk, outside, lrSeen, stopEvt, check, cand, seen, detected,
                   pending, jobs, step, doneEvt, lastGood, tries, touched,
                   recorded>>

(* A save_config that changes other settings: the handler copies the       *)
(* configuration, last_synced_timestamp with it, patches the copy and puts *)
(* it back.                                                                *)
CopyConfig(m) ==
    /\ copied[m] = <<>>
    /\ Command(m)
    /\ copied' = [copied EXCEPT ![m] = <<lastSynced[m]>>]
    /\ UNCHANGED <<disk, lr, ui, presets, memory, lastGood, tries, touched,
                   recorded, answered>>

UpdateConfig(m) ==
    /\ copied[m] # <<>>
    /\ SaveStamp(m, copied[m][1])
    /\ recorded' = [recorded EXCEPT ![m] = Standing(m, copied[m][1])]
    /\ copied' = [copied EXCEPT ![m] = <<>>]
    /\ UNCHANGED <<clock, shelf, maker, corrupt, manifest, catalog, presync,
                   lr, ui, presets, memory, used, lastGood, tries, touched,
                   answered>>

(* Onboarding: take the network's catalog, or declare the local one the    *)
(* master.  The dialog is shown when the UI reads a configuration without  *)
(* last_synced_timestamp and stays until it reads another; polling does    *)
(* not read it.                                                            *)
OnboardAsk(m) ==
    /\ ui[m] = "none" /\ lastSynced[m] = 0
    /\ ui' = [ui EXCEPT ![m] = "ask"]
    /\ UNCHANGED <<disk, lr, copied, presets, memory, hist>>

OnboardHidden(m) ==
    /\ ui[m] = "ask" /\ lastSynced[m] # 0
    /\ ui' = [ui EXCEPT ![m] = "none"]
    /\ UNCHANGED <<disk, lr, copied, presets, memory, hist>>

(* The dialog saves a timestamp, over whatever there is by now, resumes,   *)
(* and for a pull asks for Sync Now, one call after the other ...          *)
OnboardSave(m) ==
    /\ ui[m] = "ask"
    /\ \/ /\ ui' = [ui EXCEPT ![m] = "pull"]
          /\ SaveStamp(m, Epoch)
          /\ recorded' = [recorded EXCEPT ![m] = Standing(m, Epoch)]
          /\ UNCHANGED clock
       \/ /\ ui' = [ui EXCEPT ![m] = "push"]
          /\ clock' = clock + 1
          /\ SaveStamp(m, clock')
          /\ UNCHANGED recorded
    /\ answered' = [answered EXCEPT ![m] = TRUE]
    /\ UNCHANGED <<shelf, maker, corrupt, manifest, catalog, presync, lr,
                   copied, presets, memory, used, lastGood, tries, touched>>

OnboardResume(m) ==
    /\ ui[m] \in {"pull", "push"}
    /\ ui' = [ui EXCEPT ![m] = IF @ = "pull" THEN "sync" ELSE "none"]
    /\ paused' = [paused EXCEPT ![m] = FALSE]
    /\ answered' = [answered EXCEPT ![m] = TRUE]
    /\ UNCHANGED <<disk, lr, copied, presets, lrSeen, stopEvt, check, cand,
                   seen, detected, pending, jobs, step, doneEvt, used,
                   lastGood, tries, touched, recorded>>

OnboardSync(m) ==
    /\ ui[m] = "sync"
    /\ ui' = [ui EXCEPT ![m] = "none"]
    /\ EnqueueOrReject(m, LatestJob)
    /\ UNCHANGED <<disk, lr, copied, presets, lrSeen, stopEvt, check, cand,
                   seen, detected, pending, step, doneEvt, paused, hist>>

(* ... also when a call does not reach the agent or is refused.            *)
OnboardCallFails(m) ==
    /\ Command(m)
    /\ \/ ui[m] = "ask" /\ ui' \in {[ui EXCEPT ![m] = u] : u \in {"pull", "push"}}
       \/ ui[m] = "pull" /\ ui' = [ui EXCEPT ![m] = "sync"]
       \/ ui[m] \in {"push", "sync"} /\ ui' = [ui EXCEPT ![m] = "none"]
    /\ UNCHANGED <<disk, lr, copied, presets, memory, lastGood, tries, touched,
                   recorded, answered>>

(* The agent stops or crashes at any point and starts again: its memory is *)
(* gone, and a copy or a restore is left unfinished.  It starts with the   *)
(* timestamp the file has, and pauses without one.                         *)
Restart(m) ==
    LET d == CatalogDir[m] IN
    /\ used[m].restarts < MaxRestarts[m]
    /\ used' = [used EXCEPT ![m].restarts = @ + 1]
    /\ lrSeen' = [lrSeen EXCEPT ![m] = FALSE]
    /\ stopEvt' = [stopEvt EXCEPT ![m] = FALSE]
    /\ check' = [check EXCEPT ![m] = IF m \in AutoSync THEN "due" ELSE "done"]
    /\ cand' = [cand EXCEPT ![m] = NoManifest]
    /\ seen' = [seen EXCEPT ![m] = <<>>]
    /\ detected' = [detected EXCEPT ![m] = {}]
    /\ pending' = [pending EXCEPT ![m] = NoManifest]
    /\ jobs' = [jobs EXCEPT ![m] = <<>>]
    /\ step' = [step EXCEPT ![m] = "idle"]
    /\ doneEvt' = [doneEvt EXCEPT ![m] = NoManifest]
    /\ lastSynced' = [lastSynced EXCEPT ![m] = stored[m]]
    /\ recorded' = [recorded EXCEPT ![m] = Standing(m, stored[m])]
    /\ paused' = [paused EXCEPT ![m] = stored[m] = 0]
    /\ copied' = [copied EXCEPT ![m] = <<>>]
    /\ presets' = [presets EXCEPT ![m] = AtStart(m)]
    /\ \/ UNCHANGED <<catalog, presync, tries>>
       \/ /\ \/ step[m] = "clean" /\ catalog[d] # Wiped
             \/ step[m] = "extract"
          /\ catalog' = [catalog EXCEPT ![d] = Partial]
          /\ UNCHANGED <<presync, tries>>
       \/ /\ step[m] = "presync" /\ catalog[d] # Wiped
          /\ presync' = [presync EXCEPT ![d] = Append(@, Partial)]
          /\ tries' = [tries EXCEPT ![d] = IF Broken(d) THEN @ + 1 ELSE @]
          /\ UNCHANGED catalog
    /\ UNCHANGED <<clock, shelf, maker, corrupt, manifest, stored, lr, ui,
                   lastGood, touched, answered>>

AgentStep(m) ==
    \/ ProbeLightroom(m) \/ ScanBackups(m)
    \/ \E z \in Zips : OnLocalBackupCreated(m, z) \/ PublishFails(m, z)
    \/ CheckStartupManifest(m) \/ StartupReadFails(m)
    \/ QueueOrPend(m) \/ PendManifest(m) \/ RunPendingIfAny(m)
    \/ PresetSyncAtStart(m) \/ PresetSyncCalled(m)
    \/ StartPresetJob(m) \/ PresetJobEnds(m)
    \/ StartJob(m) \/ Validate(m)
    \/ CreatePreSyncBackup(m) \/ PreSyncFails(m)
    \/ CleanupZipRetention(m) \/ CleanupCatalogArtifacts(m)
    \/ ExtractZip(m) \/ ExtractFails(m)
    \/ OnSyncCompleted(m) \/ UpdateConfig(m)

UserStep(m) ==
    \/ LightroomStart(m) \/ LightroomExit(m)
    \/ \E z \in Zips : LightroomBackup(m, z)
    \/ ManualRestore(m) \/ PauseOrResume(m) \/ CopyConfig(m)
    \/ OnboardAsk(m) \/ OnboardHidden(m) \/ OnboardSave(m)
    \/ OnboardResume(m) \/ OnboardSync(m) \/ OnboardCallFails(m)

Next == \E m \in Machines : AgentStep(m) \/ UserStep(m) \/ Restart(m)

Spec == Init /\ [][Next]_vars

(* The agent's goroutines run: its polls, callbacks and the worker go on.  *)
LiveSpec == Spec /\ \A m \in Machines : WF_vars(AgentStep(m))

-----------------------------------------------------------------------------
(* A catalog that a failed or interrupted network sync has left broken can *)
(* be recovered: its last whole content is among the pre-sync copies, until *)
(* max_catalog_backups copies of the broken one have pushed it out.  Said  *)
(* of syncs during which Lightroom stays closed, as it may change the      *)
(* catalog after the copy.  (CreatePreSyncBackup before                    *)
(* RestoreCatalogFromZip, README "Pre-sync backup".)                       *)
RecoverableCatalog ==
    \A d \in Dirs :
        Broken(d) /\ ~touched[d] /\ tries[d] < MaxBackups
            => \E i \in DOMAIN presync[d] : presync[d][i] = lastGood[d]

(* A pended sync is not forgotten: while Lightroom is seen closed, a run   *)
(* of RunPendingIfAny is due.  The pended manifest and the status it waits *)
(* on are under different locks.  (Said of a queue that has room: a run on *)
(* one filled by commands and preset cycles leaves the manifest pended     *)
(* until the next stop.)                                                   *)
PendingNotForgotten ==
    \A m \in Machines :
        (pending[m] # NoManifest \/ check[m] = "pend") /\ ~lrSeen[m] => stopEvt[m]

(* A manifest that was synced and recorded is not synced again, by this    *)
(* run of the agent or a later one, as long as its record stands (rule 2   *)
(* of ShouldSyncFromNetwork against the completion time that               *)
(* OnSyncCompleted stores).  The record does not stand any more when an    *)
(* overtaken save_config or an onboarding dialog puts an older timestamp   *)
(* in its place, or the agent starts from a file whose save failed.        *)
NoRepeatSync ==
    \A m \in Machines :
        \A i \in DOMAIN jobs[m] : jobs[m][i].man \notin recorded[m]

(* A machine that has never synced keeps its own catalog: what the startup *)
(* check queues is held until its user resumes syncing or answers the      *)
(* onboarding, however often the agent restarts, with whatever settings    *)
(* saved (the auto-pause on an empty last_synced_timestamp).               *)
FirstLaunchProtected ==
    \A m \in FirstLaunch :
        LET d == CatalogDir[m] IN
        ~answered[m] => catalog[d] \in {d} \cup {z \in Zips : maker[z] = m}

(* Once Lightroom stays closed, a pended sync is queued.                   *)
PendingRuns ==
    \A m \in Machines :
        <>[]~lr[m] => (pending[m] # NoManifest ~> pending[m] = NoManifest)

-----------------------------------------------------------------------------
(* The inductive invariant behind NoRepeatSync.                            *)

Decided(m) == check[m] \in {"decided", "pend"}
Syncs(m)   == {i \in DOMAIN jobs[m] : jobs[m][i].kind = "network"}

(* A sync of m is in one place at a time: decided, pended, with the worker *)
(* or completed and not yet recorded.  Manual jobs have no manifest.       *)
OneSync(m) ==
    /\ Decided(m) => cand[m] # NoManifest
    /\ check[m] # "done" => /\ pending[m] = NoManifest
                            /\ Syncs(m) = {}
                            /\ doneEvt[m] = NoManifest
    /\ pending[m] # NoManifest => Syncs(m) = {} /\ doneEvt[m] = NoManifest
    /\ Syncs(m) # {} => doneEvt[m] = NoManifest
    /\ \A i, k \in Syncs(m) : i = k
    /\ \A i \in DOMAIN jobs[m] \ Syncs(m) : jobs[m][i].man = NoManifest

(* What is recorded is in none of these places, and rule 2 knows it.       *)
OnceRecorded(m) ==
    /\ NoManifest \notin recorded[m]
    /\ Decided(m) => cand[m] \notin recorded[m]
    /\ pending[m] \notin recorded[m] /\ doneEvt[m] \notin recorded[m]
    /\ \A i \in DOMAIN jobs[m] : jobs[m][i].man \notin recorded[m]
    /\ \A man \in recorded[m] : AlreadySynced(m, man)

(* No manifest and no record is stamped later than now.                    *)
Past(man) == man # NoManifest => man.time <= clock
Stamped(m) ==
    /\ lastSynced[m] <= clock /\ stored[m] <= clock
    /\ copied[m] # <<>> => copied[m][1] <= clock
    /\ Past(cand[m]) /\ Past(pending[m]) /\ Past(doneEvt[m])
    /\ \A i \in DOMAIN jobs[m] : Past(jobs[m][i].man)

SyncInv ==
    /\ TypeOK
    /\ \A m \in Machines : OneSync(m) /\ OnceRecorded(m) /\ Stamped(m)
    /\ Epoch <= clock
    /\ \A d \in Dirs : Past(manifest[d])

-----------------------------------------------------------------------------
(* What the documents promise and the code does not keep.                  *)

(* .docs/sync-architecture.md:57 gives the reason of rule 2 as "Đã sync    *)
(* bản này rồi": a manifest is skipped as already synced only when its     *)
(* backup was synced before.                                               *)
SkippedOnlyIfSynced ==
    [][\A m \in Machines :
          LET man == manifest[ManifestDir[m]] IN
          /\ CheckStartupManifest(m) /\ man # NoManifest
          /\ ~SelfBackup(m, man) /\ AlreadySynced(m, man)
          => \/ maker[man.zip] = m
             \/ \E old \in recorded[m] : old.zip = man.zip]_vars
=============================================================================
