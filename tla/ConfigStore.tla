---------------------------- MODULE ConfigStore ----------------------------
(***************************************************************************)
(* The configuration of one agent (internal/config/config.go) and those    *)
(* who change it: the start of the agent, which loads it or takes it over  *)
(* from the Python version, the handlers of the save_config command        *)
(* (cmd/agent/main.go), each on a connection of its own, and the sync      *)
(* worker, which records what it has synced.                               *)
(*                                                                         *)
(* A configuration is its paths, the auto-sync switch, one number that     *)
(* stands for the intervals and limits, and last_synced_timestamp, in the  *)
(* order in which the file has them.                                       *)
(*                                                                         *)
(* Covered: saves that overlap, files that cannot be read or written,      *)
(* agents that stop in the middle of a save.  Not covered: values of the   *)
(* wrong type in a file edited by hand.                                    *)
(***************************************************************************)
EXTENDS Integers

CONSTANTS
    Handlers,    \* connections of the UI that may save the configuration
    Worker,      \* the sync worker
    Startup,     \* main before the components run
    Patches,     \* what the UI saves
    OwnFiles,    \* the config.yaml a behaviour may begin with
    LegacyFiles, \* the configurations of the Python version, or NoConfig
    Stamps,      \* the times the worker records
    NoConfig,
    Upsets,      \* sets of what may go wrong in a behaviour
    MaxPatches,  \* bound on save_config commands
    MaxFaults    \* bound on failures and crashes

Actors == Handlers \cup {Worker, Startup}

(* Time 0 is the empty last_synced_timestamp of a first launch.            *)
Configs == [paths : {"none", "old", "new"}, auto : BOOLEAN,
            interval : Int, synced : Nat]

Default == [paths |-> "none", auto |-> FALSE, interval |-> 1, synced |-> 0]

(* A patch names all settings; synced only when it ends the onboarding.    *)
Kept == -1

ASSUME ConfigAssumption ==
    /\ Handlers \cap {Worker, Startup} = {} /\ Worker # Startup
    /\ Patches \subseteq [paths : {"none", "old", "new"}, auto : BOOLEAN,
                          interval : Int, synced : Nat \cup {Kept}]
    /\ OwnFiles \subseteq Configs \cup {NoConfig} /\ NoConfig \notin Configs
    /\ LegacyFiles \subseteq Configs \cup {NoConfig}
    /\ Stamps \subseteq Nat \ {0}
    /\ Upsets \subseteq SUBSET {"fault", "overlap", "meanwhile"}
    /\ MaxPatches \in Nat /\ MaxFaults \in Nat

VARIABLES
    cfg,      \* Manager.cfg
    file,     \* config.yaml: what it has or should have, and whether it is
              \* "absent", "torn" or "whole"
    legacy,   \* the first of the legacy files that exists
    backup,   \* the legacy file has been copied
    agent,    \* "down", "starting" or "up"
    pc,       \* where each actor is
    hand,     \* the configuration in its hands: the patched copy, then the
              \* marshalled data
    shown,    \* AppState.autoSync
    paused    \* the worker was paused at the start, for the onboarding

(* History and bounds.                                                     *)
VARIABLES
    saved,    \* what was last saved completely
    unsaved,  \* a save failed, or the file is not what was loaded, and no
              \* save has been completed since
    asked,    \* the last patch, while the agent stands for it
    upsets, patches, faults

store == <<cfg, file, legacy, backup>>
history == <<saved, unsaved, asked>>
bounds == <<upsets, patches, faults>>
vars == <<store, agent, pc, hand, shown, paused, history, bounds>>

Allowed(what) == what \in upsets

Fault ==
    /\ Allowed("fault") /\ faults < MaxFaults
    /\ faults' = faults + 1
    /\ UNCHANGED <<upsets, patches>>

(* The program counters: "idle"; "load" and "migrate" of the start;        *)
(* "update" before the memory is changed; "lock", "open" and "write" in    *)
(* Save; "backup" of the start; "get" and "show" of a handler.             *)
PCs == {"idle", "load", "migrate", "update", "lock", "open", "write",
        "backup", "get", "show"}

TypeOK ==
    /\ cfg \in Configs
    /\ file \in [state : {"absent", "torn", "whole"}, cfg : Configs]
    /\ legacy \in LegacyFiles
    /\ backup \in BOOLEAN
    /\ agent \in {"down", "starting", "up"}
    /\ pc \in [Actors -> PCs]
    /\ hand \in [Actors -> Configs]
    /\ shown \in BOOLEAN /\ paused \in BOOLEAN
    /\ saved \in Configs /\ unsaved \in BOOLEAN
    /\ asked \in Patches \cup {NoConfig}
    /\ upsets \in Upsets
    /\ patches \in 0..MaxPatches /\ faults \in 0..MaxFaults
    \* Whatever the files and the UI say, the agent runs with intervals.
    /\ agent = "up" => cfg.interval > 0

Init ==
    /\ cfg = Default
    /\ \E own \in OwnFiles :
         file = IF own = NoConfig THEN [state |-> "absent", cfg |-> Default]
                ELSE [state |-> "whole", cfg |-> own]
    /\ legacy \in LegacyFiles
    /\ backup = FALSE
    /\ agent = "down"
    /\ pc = [a \in Actors |-> "idle"]
    /\ hand = [a \in Actors |-> Default]
    /\ shown = FALSE /\ paused = FALSE
    /\ saved = file.cfg /\ unsaved = TRUE
    /\ asked = NoConfig
    /\ upsets \in Upsets
    /\ patches = 0 /\ faults = 0

-----------------------------------------------------------------------------
(* The lock of the manager.  A reader of Save keeps it until the file is   *)
(* written; all other sections are one step.                               *)

\* Save gives the lock back before it writes.
MayWriteLockAlways == TRUE

MayWriteLock == \A a \in Actors : pc[a] \notin {"open", "write"}

Goto(a, label) == pc' = [pc EXCEPT ![a] = label]

(* An actor that is done keeps nothing.                                    *)
Keep(a, c) == hand' = [hand EXCEPT ![a] = c]
Rest(a) == Keep(a, Default)

(* applyDefaults: of the intervals that are not positive.                  *)
Usable(c) == IF c.interval <= 0 THEN [c EXCEPT !.interval = Default.interval]
             ELSE c

\* The timestamp written first.
FieldsReadStampFirst(c, n) ==
    [paths |-> IF n >= 2 THEN c.paths ELSE Default.paths,
     auto |-> IF n >= 3 THEN c.auto ELSE Default.auto,
     interval |-> Default.interval,
     synced |-> IF n >= 1 THEN c.synced ELSE Default.synced]

(* What is read from a file whose writer stopped: a part of the fields,    *)
(* in their order, or nothing that can be parsed.  The last one is missing *)
(* or its quote is open.                                                   *)
FieldsRead(c, n) ==
    [paths |-> IF n >= 1 THEN c.paths ELSE Default.paths,
     auto |-> IF n >= 2 THEN c.auto ELSE Default.auto,
     interval |-> IF n >= 3 THEN c.interval ELSE Default.interval,
     synced |-> Default.synced]

Loaded(f) ==
    CASE f.state = "absent" -> {Default}
      [] f.state = "whole" -> {Usable(f.cfg)}
      [] f.state = "torn" -> {Usable(FieldsRead(f.cfg, n)) : n \in 0..3}

-----------------------------------------------------------------------------
(* Save: marshal under the read lock, then os.WriteFile, which truncates   *)
(* the file and writes it.                                                 *)

SaveLock(a) ==
    /\ pc[a] = "lock"
    /\ Keep(a, cfg)
    /\ Goto(a, "open")
    /\ UNCHANGED <<store, agent, shown, paused, history, bounds>>

SaveOpen(a) ==
    /\ pc[a] = "open"
    /\ file' = [state |-> "torn", cfg |-> hand[a]]
    /\ Goto(a, "write")
    /\ UNCHANGED <<cfg, legacy, backup, agent, hand, shown, paused, history,
                   bounds>>

(* Where an actor goes on after a save: the start copies the legacy file,  *)
(* a handler answers, unless the save failed.                              *)
AfterSave(a) == CASE a = Startup -> "backup"
                  [] a = Worker -> "idle"
                  [] OTHER -> "get"

SaveWrite(a) ==
    /\ pc[a] = "write"
    /\ file' = [state |-> "whole", cfg |-> hand[a]]
    /\ saved' = hand[a]
    /\ unsaved' = FALSE
    /\ Goto(a, AfterSave(a))
    /\ Rest(a)
    /\ UNCHANGED <<cfg, legacy, backup, agent, shown, paused, asked,
                   bounds>>

(* The file cannot be opened, or only a part of it is written.  The start  *)
(* goes on with what it has.                                               *)
SaveFails(a) ==
    /\ pc[a] \in {"open", "write"}
    /\ unsaved' = TRUE
    /\ asked' = IF a \in Handlers THEN NoConfig ELSE asked
    /\ Goto(a, IF a = Startup THEN "show" ELSE "idle")
    /\ Rest(a)
    /\ Fault
    /\ UNCHANGED <<store, agent, shown, paused, saved>>

SaveStep(a) == SaveLock(a) \/ SaveOpen(a) \/ SaveWrite(a)

-----------------------------------------------------------------------------
(* The start of the agent.                                                 *)

Start ==
    /\ agent = "down"
    /\ agent' = "starting"
    /\ Goto(Startup, "load")
    /\ UNCHANGED <<store, hand, shown, paused, history, bounds>>

(* Load; an error leaves the defaults.                                     *)
Load ==
    /\ pc[Startup] = "load"
    /\ \/ cfg' \in Loaded(file) /\ UNCHANGED <<asked, bounds>>
       \/ cfg' = Default /\ asked' = NoConfig /\ Fault
    /\ unsaved' = ~(file.state = "whole" /\ file.cfg = cfg')
    /\ Goto(Startup, "migrate")
    /\ UNCHANGED <<file, legacy, backup, agent, hand, shown, paused, saved>>

\* A configuration is taken to be missing when the defaults were loaded.
HasTargetIfLoaded == cfg # Default

HasTarget == file.state # "absent"

(* MigrateFromLegacyPaths up to its Save.  A legacy file that cannot be    *)
(* read or parsed ends the migration.                                      *)
Migrate ==
    /\ pc[Startup] = "migrate"
    /\ \/ /\ HasTarget \/ legacy = NoConfig
          /\ Goto(Startup, "show")
          /\ UNCHANGED <<cfg, bounds>>
       \/ /\ ~HasTarget /\ legacy # NoConfig
          /\ cfg' = Usable(legacy)
          /\ Goto(Startup, "lock")
          /\ UNCHANGED bounds
       \/ /\ ~HasTarget /\ legacy # NoConfig
          /\ Goto(Startup, "show")
          /\ Fault
          /\ UNCHANGED cfg
    /\ UNCHANGED <<file, legacy, backup, agent, hand, shown, paused, history>>

BackupLegacy ==
    /\ pc[Startup] = "backup"
    /\ \/ backup' = TRUE /\ UNCHANGED bounds
       \/ UNCHANGED backup /\ Fault
    /\ Goto(Startup, "show")
    /\ UNCHANGED <<cfg, file, legacy, agent, hand, shown, paused, history>>

(* main takes the switch into the status and pauses a first launch.        *)
Up ==
    /\ pc[Startup] = "show"
    /\ agent' = "up"
    /\ shown' = cfg.auto
    /\ paused' = (cfg.synced = 0)
    /\ Goto(Startup, "idle")
    /\ UNCHANGED <<store, hand, history, bounds>>

Quiet == \A a \in Actors : pc[a] = "idle"

(* The agent stops, killed or at the end of its session.                   *)
Stop ==
    /\ agent # "down"
    /\ agent' = "down"
    /\ pc' = [a \in Actors |-> "idle"]
    /\ cfg' = Default
    /\ hand' = [a \in Actors |-> Default]
    /\ shown' = FALSE /\ paused' = FALSE
    /\ unsaved' = TRUE
    /\ asked' = IF Quiet /\ ~unsaved THEN asked ELSE NoConfig
    /\ Fault
    /\ UNCHANGED <<file, legacy, backup, saved>>

-----------------------------------------------------------------------------
(* save_config.                                                            *)

\* No validation.
ValidAlways(patch) == TRUE

Valid(patch) == patch.interval > 0

\* What the patch does not name is the default.
PatchedDefault(c, patch) ==
    [patch EXCEPT !.synced = IF @ = Kept THEN Default.synced ELSE @]

Patched(c, patch) ==
    [patch EXCEPT !.synced = IF @ = Kept THEN c.synced ELSE @]

(* applyConfigPatch copies the configuration and patches the copy.         *)
BeginPatch(h) ==
    /\ agent = "up" /\ pc[h] = "idle"
    /\ patches < MaxPatches
    /\ Allowed("overlap") \/ \A g \in Handlers : pc[g] = "idle"
    /\ \E patch \in Patches :
         /\ Valid(patch)
         /\ Keep(h, Patched(cfg, patch))
         /\ asked' = patch
    /\ Goto(h, "update")
    /\ patches' = patches + 1
    /\ UNCHANGED <<store, agent, shown, paused, saved, unsaved, upsets,
                   faults>>

Update(h) ==
    /\ pc[h] = "update"
    /\ MayWriteLock
    /\ cfg' = hand[h]
    /\ Goto(h, "lock")
    /\ Rest(h)
    /\ UNCHANGED <<file, legacy, backup, agent, shown, paused, history,
                   bounds>>

(* The handler reads the configuration again, then shows its switch.       *)
Reread(h) ==
    /\ pc[h] = "get" /\ h \in Handlers
    /\ Keep(h, cfg)
    /\ Goto(h, "show")
    /\ UNCHANGED <<store, agent, shown, paused, history, bounds>>

Answer(h) ==
    /\ pc[h] = "show" /\ h \in Handlers
    /\ shown' = hand[h].auto
    /\ Goto(h, "idle")
    /\ Rest(h)
    /\ UNCHANGED <<store, agent, paused, history, bounds>>

HandlerStep(h) == Update(h) \/ Reread(h) \/ Answer(h)

-----------------------------------------------------------------------------
(* SetLastSyncedTimestamp of the worker, after a sync; its Save follows.   *)

RecordGuard(stamp) ==
    /\ agent = "up" /\ pc[Worker] = "idle"
    /\ MayWriteLock
    /\ stamp > cfg.synced
    /\ Allowed("meanwhile") \/ \A h \in Handlers : pc[h] # "update"
    /\ Goto(Worker, "lock")
    /\ UNCHANGED <<file, legacy, backup, agent, hand, shown, paused, history,
                   bounds>>

\* The worker changes what was saved last.
RecordSyncedInFile(stamp) ==
    /\ RecordGuard(stamp)
    /\ cfg' = [Usable(saved) EXCEPT !.synced = stamp]

RecordSynced(stamp) ==
    /\ RecordGuard(stamp)
    /\ cfg' = [cfg EXCEPT !.synced = stamp]

-----------------------------------------------------------------------------
Next ==
    \/ Start \/ Load \/ Migrate \/ BackupLegacy \/ Up \/ Stop
    \/ \E a \in Actors : SaveStep(a) \/ SaveFails(a)
    \/ \E h \in Handlers : BeginPatch(h) \/ HandlerStep(h)
    \/ \E stamp \in Stamps : RecordSynced(stamp)

Spec == Init /\ [][Next]_vars

-----------------------------------------------------------------------------
(* Properties.                                                             *)

Saving == \E a \in Actors : pc[a] \in {"lock", "open", "write"}

(* However saves overlap: once nobody is saving, config.yaml has what the  *)
(* agent works with, unless the last save failed or there never was one.   *)
(* Save reads and writes under one read lock for this (config.go:97).      *)
DiskFollowsMemory ==
    agent = "up" /\ ~Saving /\ ~unsaved =>
        file = [state |-> "whole", cfg |-> cfg]

(* An agent that stopped in the middle of a save comes up with what was    *)
(* saved before, or as on a first launch, paused; never with a mixture     *)
(* that lets it synchronise: last_synced_timestamp is the last field of    *)
(* the file.  And the start never writes the configuration of the Python   *)
(* version over one that is there, be it torn, unreadable or full of       *)
(* defaults (MigrateFromLegacyPaths).                                      *)
RestartKnown ==
    [][/\ Up => \/ paused'
                \/ cfg' = Usable(saved)
                \/ legacy # NoConfig /\ cfg' = Usable(legacy)
       /\ SaveOpen(Startup) => ~HasTarget]_vars

(* Settings a user has saved stay, in the memory, in the status and over a *)
(* restart, whatever the worker records.  Unless another save_config runs  *)
(* at the same time: of two the later one takes back the settings of the   *)
(* earlier, and the status may show the switch of either.  And unless a    *)
(* save fails: then the memory has the settings and the status has not.    *)
Settings(c) == <<c.paths, c.auto, c.interval>>

SettingsKept ==
    /\ agent = "up" /\ asked # NoConfig
    /\ \A h \in Handlers : pc[h] = "idle"
    /\ ~Allowed("overlap")
    => /\ Settings(cfg) = Settings(asked)
       /\ shown = asked.auto

(* Saving settings does not take back what the worker has recorded as      *)
(* synced, unless the worker records it between the copy and the update of *)
(* a handler (main.go:1087 and 1145); the onboarding alone sets it.        *)
SyncedKept ==
    [][/\ agent = "up" /\ agent' = "up"
       /\ upsets \cap {"overlap", "meanwhile"} = {}
       /\ cfg'.synced < cfg.synced
       => asked.synced # Kept]_vars
=============================================================================
