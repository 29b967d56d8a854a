# LightroomSync: specification of the agent

LightroomSync keeps the Lightroom catalogs of several Windows machines in step.
Each machine runs an *agent* (`src/cmd/agent/main.go`) that watches Lightroom
and a shared backup folder, publishes new backups in a *manifest*, and restores
the newest backup of another machine into its own catalog when it starts. A
UI process (Wails, `src/frontend`, `src/internal/uiapi`) talks to the agent over
a named pipe.

This directory holds TLA+ modules of the parts where several goroutines,
processes or machines meet, configurations that check them with TLC, and proofs
checked by TLAPS. `PROJECT.json` links every definition to the source lines it
models, every property to the runs that check it and to a mutation of the code
it catches, and lists the hazards the properties are for.

1. [Inventory](#inventory) · 2. [Modules](#modules) · 3. [Runs](#runs) ·
4. [Fairness](#fairness) · 5. [Proofs](#proofs) ·
6. [Where code and documents disagree](#where-code-and-documents-disagree) ·
7. [Not modelled](#not-modelled) · 8. [Plan](#plan)

## Inventory

Paths are under `src/`. "Hard" is what a unit test would hardly reach.

| Component | State | Operations | Hard | Correct when |
|---|---|---|---|---|
| Manifest lock, `internal/sync/manifest.go` | `sync_manifest.json` and its `.lock` file on a share | `WriteManifest`: exclusive create, retry every 500 ms, stale break after 10 s, caller's deadline, write, deferred remove; `ReadManifest` | machines racing for the file, crash with the file left behind, torn writes, a slow holder taken for dead | one writer at a time, nobody removes a live holder's file, the manifest is the last holder's or torn by it, a call returns, an orphaned lock is broken |
| Sync worker, `internal/coordinator/sync_worker.go` | queue of 16 jobs, `paused`, `resumeCh` | `Enqueue`, `Run`, `waitUntilResumed`, `process`, `Pause`, `Resume` | pause checked, then the lock released before `process`; resume channel swapped; cancellation at the gate | accepted jobs start once and in order, at most one after `Pause`, no wake-up lost, each reports its outcome |
| Watchdog, `internal/coordinator/watchdog.go` | open operations with deadlines | `Start`, stop function, `scanExpired`, alert outside the lock | alert after the job ended; several jobs under one operation id | entries only for the job at hand |
| Status cache, `internal/coordinator/state.go` | flags, colour, text, job name, progress | setters and `recomputeDerivedStatusLocked` | written by worker, monitors, IPC handlers and watchdog in any order | "sync in progress" exactly while a job runs |
| Event bus, `internal/coordinator/events.go` | bounded channel, handler table | non-blocking `Emit`, `Run`, `dispatch` | a full bus drops the event that would record a sync | a success is recorded unless its event was dropped |
| Orchestrator, `internal/coordinator/catalog_sync_orchestrator.go` | `pendingManifest` | `CheckStartupManifest`, `queueOrPend`, `RunPendingIfAny`, `OnLocalBackupCreated`, `OnSyncCompleted` | Lightroom's status and the pended manifest are under different locks; Lightroom opens between decision, enqueue and restore | a pended sync runs once, after Lightroom closed; nothing is synced twice |
| Three rules, `ShouldSyncFromNetwork` in `manifest.go` | none | own machine, timestamp against `last_synced_timestamp`, zip present | timestamps of several machines compared as strings | only another machine's newer backup is synced |
| Restore and retention, `internal/sync/catalog_restore.go`, `retention.go` | catalog directory, `PreSyncBackups`, shared folder | validate, pre-sync copy, prune, clean, extract | failure or crash between cleaning and extracting; copies of a broken catalog pushing out the good one | the content overwritten can be recovered |
| Monitors, `internal/monitor/lightroom.go`, `backup.go` | last probe; newest zip seen | poll and report edges | an edge seen late; a zip seen while being written | every edge is reported once, in order |
| Agent composition, `cmd/agent/main.go` | wiring, command handlers, start-up, shutdown | 20 IPC commands, tray menu, hooks | first launch and auto-pause across restarts; commands during a sync | see the components |
| Onboarding and UI, `frontend/src/App.ts` | poll caches, in-flight flags, a snapshot of the configuration | `Pull`, `Push`, refreshes | three calls in a row against a running agent, any of which may fail; a dialog that stays while its snapshot is stale | nothing happens to the catalog before the user answers |
| Preset sync, `internal/sync/preset_sync.go` | local tree, shared tree, `preset_state.json`, `.sync_deleted.json`, logos of watermark templates | one cycle at a time: tombstones, pull deletions, pull, push deletions, push, save state, save tombstones | cycles of several machines over one tombstone file; a file removed before it is replaced; a failure half way; a missing file can mean deleted here or newer there | no deleted preset comes back, an unshared edit is lost only to a newer version, a shared template finds its logo, machines come to agree |
| Configuration, `internal/config/config.go` | `config.yaml`, its copy in memory, the legacy file of the Python version | `Load`, `MigrateFromLegacyPaths`, `Update`, `SetLastSyncedTimestamp`, `Save`, `applyConfigPatch` | the handler copies, patches and writes back in separate locked calls; the file is truncated and rewritten in place | file and memory agree when nobody saves, a saved setting stays, a restart never runs a mixture |
| Presence lock, `internal/monitor/lock.go`, `heartbeat.go` | `lightroom_lock.txt` with ONLINE/OFFLINE, temporary files | write by temporary file and rename, two levels of retry, heartbeat, two OFFLINEs at shutdown | a retried ONLINE after OFFLINE; two writers of one agent and those of others at once | the file is a whole line, a stopped agent ends OFFLINE, a running one beats |
| Network health, resume detector, `internal/monitor` | breaker, last tick, warning in the status | `Allow`, `RecordSuccess`, `RecordFailure`, `checkOnce`, `OnResume` | probes overtaken by the share coming or going, sleeps, a warning others clear | an outage is declared after failures in a row only, breaker and status follow the share |
| Log stream, `internal/logstream/buffer.go` | ring of entries | `Add`, `Since` | a cursor overtaken by the ring | in order, without repetition |
| IPC, `internal/ipc` | listener | accept, decode, handle, close | close during a request | each request answered once |
| Update checker, `internal/update` | none | version order, release choice, download | interrupted download | never a partial installer |
| Tray, Win32 adapters, UI windows | handles | system calls | none of interest | not applicable |

How they meet: monitors and the worker `Emit` events, the bus calls handlers;
handlers start goroutines that call the orchestrator (`main.go:249-297`); the
orchestrator enqueues jobs on the worker; the worker runs `Execute`, which touches
the shared folder and the catalog. All of them write the status cache. IPC
handlers call `Pause`, `Resume` and `Enqueue` from their own goroutines, and
`save_config` changes the configuration that the worker stamps after a sync. Preset
cycles run as worker jobs when the agent starts, when Lightroom stops and after a
catalog sync. The network monitor, the resume detector and the heartbeat have
goroutines of their own. Machines meet only through files: manifest, lock files,
zips, shared presets and tombstones.

## Modules

| Module | Models |
|---|---|
| `ManifestMutex` | The abstract promise of `WriteManifest`: one holder, who alone changes the manifest; a crash orphans the lock. |
| `ManifestLock` | `WriteManifest` as it runs: one program counter per call (open, select, second attempt, truncate, fill, unlock), ages in place of the deadline and stale timer, I/O errors and machine crashes. |
| `AppState` | The status cache as a record and its setters as operators; no variables. |
| `SyncWorker` | Worker, pause switch, event bus, watchdog and the status they share. `Run`, `waitUntilResumed` and `process` are split at every point where another goroutine can intervene. |
| `CatalogSync` | Two or more machines: Lightroom, monitors, orchestrator, network and manual jobs step by step, retention, configuration's timestamp in memory and in the file, onboarding, preset jobs, restart of an agent. It takes the worker's queue and pause switch as `SyncWorker` describes them: jobs in order, one at a time, `Pause` looked at before a job starts. |
| `PresetSync` | Machines and the shared `Presets` folder: users who save and delete presets, and the cycle of `PresetSyncManager.Sync` step by step, with logos, state and tombstone files. |
| `ConfigStore` | The configuration of one agent: start, load, migration, the `save_config` handler, the worker's `SetLastSyncedTimestamp`, and `Save` in its three steps. |
| `ShareHealth` | Circuit breaker, its monitor, the resume detector and the warning that `main` makes of them, with tickers, sleep and a share that comes and goes. |
| `PresenceLock` | `WriteLock` by temporary file and rename, by the heartbeats and the shutdown of several agents on one catalog. |
| `MCManifestLock`, `MCSyncWorker`, `MCCatalogSync`, `MCPresetSync`, `MCConfigStore`, `MCPresenceLock` | Values of the constants for TLC (`ShareHealth` needs none). |
| `ManifestLockProofs`, `SyncWorkerProofs`, `SyncOrderProofs`, `CatalogSyncProofs`, `ShareHealthProofs`, `PresetSyncProofs`, `ConfigStoreProofs`, `PresenceLockProofs` | Theorems; each has its inductive invariant before the first lemma that uses it. |

The modules are composed where the components share state: `SyncWorker` takes
`AppState` with worker, bus and watchdog; `CatalogSync` takes orchestrator, worker
queue, monitors, restore and onboarding of several machines; `ManifestLock`
implements `ManifestMutex`, which is what `CatalogSync` assumes of it in making
`WriteManifest` one step. The four others touch the rest through one flag or
file each (the warning, the timestamp, the lock file that a restore deletes), which
their environment actions change at any moment.

**ManifestLock.** `pc[w]` is where call `w` is in `WriteManifest`. `age[w]` counts
ticks; the deadline is `CtxTimeout`, the stale break `StaleTimeout`. `Tick` is
maximal progress: time passes only in the `select`, or, with `SlowOpen`, in a slow
`os.OpenFile`, which no deadline interrupts: a call may come back from it with deadline,
stale timer and ticker all due. Ages run up to the later of the two timers (`Horizon`). `os.WriteFile` is two steps,
truncation and content, and either may fail. When several `select` branches are
ready any may be taken, as in Go. `Host[w]` lets a crash take every call of a
machine with it; the lock file on the share stays.

**SyncWorker.** `queue` and `bus` are the two channels, `woken` says that the resume
channel the worker parked on has been closed (a later `Pause` makes a new one and
cannot unclose it). The IPC command is `RequestSync` then `EnqueueRequest`,
since the status is written before the queue is tried. `ScanExpired` and `OnAlert`
are separate, the alert being called after the lock is released. `accepted`,
`started`, `outcome`, `recorded`, `dropped`, `pauseStarts` are history.

**CatalogSync.** `lastSynced` is the timestamp in the manager's memory, `stored` what a
start would read of `config.yaml`. `SaveStamp` writes both; the save may fail or be cut
off, which leaves the old file or a torn one, without the timestamp (`UnsafeSaves`
says on which machines; such a failure is left out when no restart can show it).
A `save_config` is `CopyConfig` then `UpdateConfig`, and puts the timestamp it copied
back over whatever was recorded in between. The onboarding dialog is shown when the UI
reads a configuration without a timestamp (`OnboardAsk`) and may then save at any
later moment, over a record too: polling does not read the configuration again, and
`OnboardHidden`, a refresh, need not come. `invoke` does not throw, so a call that fails
is followed by the next one (`OnboardCallFails`). `recorded[m]` is history: what `m` has
synced and recorded, until its timestamp in memory goes back before it. Preset cycles are jobs in
the worker's queue (`PresetSyncAtStart`, `PresetSyncCalled`), whose content is
`PresetSync`.

A content is named by its zip, or by its directory when no zip
holds it; `Wiped` and `Partial` are a directory after cleaning and after an
extraction that stopped half way. Everything on disk survives `Restart`, which may
leave a copy or an extraction incomplete; everything in memory is reset and the
auto-pause decided anew. `check`, `cand` split the start-up check where it lets go
of the status lock: read the manifest and decide, look at Lightroom, pend.
Commands of the user and Lightroom may come between any two steps. `WriteManifest`
is one step here, as `ManifestLock` justifies.

**PresetSync.** A file is its text, its modification time and, for a watermark template,
the place of its logo. Users' saves have distinct times, so the time of the edit
stands for the text; the file time is a separate field, because a file that has been renamed into
place has the current time until `os.Chtimes` gives it that of the edit.
`cycle[m]` holds what `Sync` has in its local variables: `seen` is `networkFiles` and later
`localFiles`, `newState`, `tomb` (the tombstones as read at the beginning), `dirty`,
`failed` (`cycleErr`), and `todo`, the set a loop has still to visit, in any order as with
a Go map. What a loop looks up when it visits a file (`Here(loc[m][p])`, `Here(net[p])`) is
read then, what the scan found is read from `seen`: the difference is what another
machine or a user can get between.

A copy to the share is one step per call of the file system: `PushWrite` fills the
temporary file, `PushRemove` removes the old preset, `PushRename` puts the new one there
with the current time, `SetTimeThere` is `os.Chtimes`. A logo takes `PushLogo` (stat, and
the temporary file), `LogoRemove`, `LogoRename`. The temporary names `tmp[p]` and
`logoTmp` are those of the share: another machine may rename, overwrite or remove what this
one has written. A copy from the share is `Pull` (what is read of the share, and the local
logo), `PullPlace` and `SetTimeHere`; the local removal, renaming and logo are steps only where
one fails (`HalfDone`, `HalfPulled`), since no other machine sees them, and users who
look in between are the upset "edit". `CopyFails` is a call that fails, by a
fault, because what it needs is gone (`Gone`) or because another machine has the file open
(`Disturbed`); `Break` is an agent that stops. Both may leave half of what they were at.
A cycle with an error keeps the old state and writes no tombstone. A state or tombstone file
that cannot be read counts as empty (`Start`, `ReadTombstones`). `missing` is history: the
presets whose logo a replacement removed and did not put back. `selected` are the presets
of the categories a machine synchronises.

**ConfigStore.** `pc[a]` is where a handler, the worker or the start of the agent is.
A handler copies (`BeginPatch`), updates the memory (`Update`), saves
(`SaveLock`, `SaveOpen`, `SaveWrite`: the read lock is held over the last two,
so `MayWriteLock` blocks writers of the memory), reads again and shows the switch in
the status (`Reread`, `Answer`). A torn file loads as a prefix of its fields with
defaults for the rest (`FieldsRead`); `last_synced_timestamp` is the last field.
One number stands for intervals and limits; what matters of it is whether
`applyDefaults` and the validation accept it.

**ShareHealth.** One tick is the period of both tickers. `Allow` ... `EndCheck` are
the steps of `checkOnce`; between `Probe` and `EndCheck` the share may change. `Detect`,
`Revalidate`, `Revalidated` are the detector, which stops taking ticks while
its hook runs. Time passes (`Tick`) when the goroutines have taken their ticks, and
during a probe only while the share does not answer; `Sleep` is a gap longer than every
timeout, at any moment.

**PresenceLock.** `writer[m][w]` is the `WriteLock` in progress of the heartbeat
or of `main`; its `epoch` is the part of the temporary name that tells the two
writes of one agent apart. `Retry` and `Fail` are `writeWithRetry`,
`LookBeforeRename` and `Rename` are `renameWithRetry`. A killed agent's rename may
still happen on the share (`Gone`).

## Runs

Passing runs:

| Run | Instance | Shows |
|---|---|---|
| `manifest_lock` | 3 writers on 2 machines, 2 faults, deadline before stale timeout as in the agent, so that the stale timer never fires | mutual exclusion, `HolderKeepsLockFile`, `WrittenIntact`, `OnlyHolderWrites`, refinement of `ManifestMutex`, `CallReturns` |
| `manifest_stale_break` | 2 writers, deadline (4 ticks) after stale timeout (2), slow share: deadline, timer and ticker may all be due | an orphaned lock is broken if callers wait long enough and go on calling |
| `sync_worker` | a network and a manual job, queue and bus of one | order, pause gate, wake-up, status, watchdog; every accepted job reports, a success is recorded, shutdown stops the worker |
| `catalog_network` | A makes 2 backups, B syncs, 1 copy kept, B restarts once | `RecoverableCatalog` under every failure of a file operation |
| `catalog_pending` | Lightroom opens once on each, 2 copies kept, preset cycles on B, B restarts once | a pended sync is neither forgotten nor delayed for ever |
| `catalog_manual` | B never synced; the onboarding dialog at any time, one command of the user, `save_config` or lost call, saves that fail or tear the file, one restart, queue of one; 2.5 million states | the catalog of a machine whose user has not answered is left alone; what was recorded is not synced again while its record stands |
| `preset_sync` | 2 machines, a watermark template, tolerance 1, clock to 3, one fault, one overlap, 2 changes of categories; per behaviour no upset or one kind (fault, overlapping cycles, edits during a cycle, changed categories); 503 thousand states | deletions stay, a shared template finds its logo unless a replacement removed it, a machine removes only versions it knew, edits are lost only to newer or mistimed versions, machines converge |
| `config_store` | 2 handlers, 2 commands out of 4 patches, 2 faults; from no file, an edited one or a legacy one; per behaviour no upset or one of fault, overlapping handlers, a record in the middle of a patch; 527 thousand states | file and memory agree, settings and the timestamp are kept, a restart takes what was saved or pauses |
| `share_health` | threshold 3, open timeout 2, gap 2, share changes 3 times, 2 sleeps, 2 other status changes; 55 thousand states, deadlock checked | an outage is declared after 3 failures in a row only; breaker and status come to follow the share |
| `presence_lock` | 2 agents, one started again after a stop or a kill, 2 rename attempts, 2 write attempts, 2 faults; per behaviour none or one of fault, slow share, kill, restore; 782 thousand states | the lock file is never torn, a clean stop ends OFFLINE, a running agent is ONLINE again and again |

Violation runs show a statement of the documents that the code does not keep;
see [below](#where-code-and-documents-disagree).

**Bounds.** Two machines suffice for the rules, which compare one manifest with one
machine; three writers for the lock, as a third can enter while one leaves and
one waits, and two of them share a machine so that a crash takes both. Queue and
bus of one reach "full" at once; the code's 16 and its bus size only delay it. Two zips
give "older" and "newer", one zip with retries gives repeated attempts. `MaxFaults`,
`MaxRestarts`, `MaxOpens`, `MaxManual`, `MaxStarts`, `MaxOverlaps` and `MaxSelects` bound what the
environment does, never what the agent does. The 4 s, 10 s and 500 ms of `WriteManifest` are 2 to 4
ticks: only their order matters. In `CatalogSync` all machines share one clock that
advances at each timestamp.

Every rule of a preset cycle is about one file, so one preset suffices; a watermark
template takes every branch but one, an ordinary preset being one without the steps of logo
and rewriting; its text is read only when it is copied, a difference the proofs cover.
One overlap lets a cycle start at every step of another and run to its end beside it. A clock of 3 with steps of 1 and 2 and tolerance 1 gives versions
within and beyond the tolerance. In `PresetSync`, `ConfigStore` and `PresenceLock`
the constant `Upsets` lists what may go wrong together; the runs take one kind at
a time, since the properties name the kinds they survive and mixtures add only
states. `ConfigStore` needs two handlers to overlap and a second command to take back
the first; two faults are a failed save and a crash. In `ShareHealth` three switches
let the share go, come and go again, or come back in the middle of a probe. In
`PresenceLock`, `MaxFaults = MaxRetries` lets the retries be used up.

`PendingRuns` and `PendingNotForgotten` presuppose that the queue has room when
Lightroom stops: `RunPendingIfAny` on a full queue leaves the manifest pended until
the next stop. In `catalog_pending` the queue of two is shared with the preset cycles of the
start and of the stop and has no manual commands, so there is room when it is needed; the
code's holds 16 jobs. A job counts as taken off the queue when
it is the first, the worker being free to receive it at once.

`CHECK_DEADLOCK FALSE` is set for `CatalogSync`, `PresetSync`, `ConfigStore` and
`PresenceLock`: once their bounds are used up, everything may legitimately come to
rest. The lock, worker and share models never deadlock.

**The deployment checked.** The `CatalogSync` runs put the manifest on the share and
each catalog on its machine, the deployment of `.docs/sync-architecture.md`.
`main.go:235` wires the manifest manager to `catalog_path`, so with local catalogs
no manifest is ever shared (`ManifestDir = CatalogDir`). The runs say what the
orchestrator does once it reads the manifest it is meant to read.

## Fairness

- `CallFairness` (lock): each started call takes its steps and its time passes. The
  goroutine is scheduled and system calls return; nothing makes a machine start
  a backup. `BackupFairness` adds that machines go on making backups, needed for
  "broken eventually", since only a later call can break the lock, and
  `SF(StaleTimer(w))`: of several ready branches of a `select` Go chooses at random, so over
  many calls the stale timer is not passed over for ever, though any one call may leave by its
  deadline. Without it the property is false on a slow share.
- `WorkerFairness`: the worker goroutine takes its enabled steps, and the bus
  goroutine dispatches until shutdown. Weak fairness of the *disjunction* of the
  worker's steps: when `select` has two ready branches Go picks at random, so
  no branch by itself is fair. Hence `ShutdownStops` assumes that the pause switch is
  not flipped for ever. Nobody is obliged to resume, so `AcceptedJobsReport` is
  said of runs in which syncing stays enabled.
- `CatalogSync`: `WF(AgentStep(m))`, the agent of each machine goes on. Users, Lightroom
  and restarts are under no obligation; their bounds keep them from for ever
  pre-empting the agent.
- `PresetSync`: `WF(CycleStep(m))`, a cycle that runs goes on; and `SF(Start(m))`: what
  starts one (the agent starts, Lightroom stops, a catalog was synchronised) happens
  again and again, also at times when no other machine runs a cycle. Without it a
  machine whose user never touches Lightroom again stays behind. Users and failures
  are under no obligation.
- `ShareHealth`: `WF` of monitor, detector and `Tick`: tickers go on, and the system
  calls of a probe come back, if with an error (the redirector gives a share up).
- `PresenceLock`: `WF(Heartbeat(m))`, `WF(Main(m))`: system calls come back and both
  goroutines run. Starts, stops and kills are free. `ConfigStore` has no liveness
  property and states no fairness.

## Proofs

Every safety property of the passing runs is a theorem, for all values of the
constants that meet the named assumptions, and `PendingNotForgotten` of
behaviours with room in the queue. Each inductive invariant was first
checked by TLC on the instance of its run, which is also how the parts that were missing
from it came to light.

`ManifestLockProofs` (assumption `ConstantsAssumption`): `TypeCorrect`; and, from
`StaleBreakUnreachable` (opens are prompt, deadline shorter than stale timeout, as
at `main.go:264`), `LockExclusive`, `LockKept`, `ManifestIntact`,
`OnlyHolderWritesHolds` and the refinement `MutexRefinement`. Mutual exclusion is not
inductive: that a holder keeps its lock file needs that no call reaches the stale
break, which needs that no age exceeds the deadline; `WrittenIntact` needs that
a write in progress shows as `Torn`. `LockInv` is that strengthening. For the
refinement the abstract holder is the writer between open and remove (`LockHolder`),
"orphaned" when the file exists without one; exclusion makes the `CHOOSE` unique.
Without `StaleBreakUnreachable` exclusion is false: with a slow share or a long
deadline, a live holder can lose its lock.

`SyncWorkerProofs`: from `WorkerInv`, type correctness, `PauseAdmitsOne`
(`PauseSwitchSound`), `NoLostWakeup` (`WakeupKept`), `SyncingWhileRunning`, `WatchOnlyCurrent`, for any set of jobs and any
channel capacities. The strengthening: a worker past the gate with the switch on
has not yet started a job in this pause, which bounds the count by one.

`SyncOrderProofs`: `AcceptedInOrder`, by `OrderInv`: what was accepted is what was
started, then the job at hand if it has not started, then the queue. Each step moves
a job across one of the two boundaries, so the proof is a matter of how sequences
concatenate.

`CatalogSyncProofs` (assumption `CatalogAssumption`) has four arguments, all on top of
`SyncInv`.

- `SyncedOnce`, that is `NoRepeatSync` for any number of machines, zips, directories,
  restarts and commands, and `CatalogTypeCorrect`. The code takes a recorded timestamp
  back in three ways: an onboarding dialog whose snapshot is stale puts 1970 over it, a
  `save_config` that was overtaken puts back what it copied, and a start reads a
  `config.yaml` whose save failed or was torn. All three are in the model, and
  the manifest is then synced again. What is proved is that nothing else does
  that: until the timestamp goes back before what was recorded (`recorded`), it is not
  among the jobs. *One sync at a time*: a sync of a machine is decided, pended, queued or
  completed, never in two of these places (the start-up check runs once per start, and a
  restart empties them all); otherwise one copy could be recorded while another waits, which
  no rule looks at again. *Rule 2 knows what was recorded*: no manifest is stamped
  later than now, completion is stamped now, and a timestamp that goes back takes what it
  does not cover any more out of `recorded` (`Standing`), from then on. The common clock of
  `CatalogSync` is part of that argument: with skewed clocks rule 2 gives no such
  guarantee. Most steps only leave the queue alone, shorten it or add a job without a
  manifest, which one lemma (`FollowsKeeps`) settles; it also covers every machine
  that is not the actor.
- `PendingKeptWithRoom`, that is `PendingNotForgotten` in behaviours whose queue has room
  when `RunPendingIfAny` runs on a pended sync (`HasRoom`). The code does not always have it:
  network syncs, commands and preset cycles share one queue, nothing bounds the preset
  cycles of a paused worker, and on a full queue `RunPendingIfAny` waits for the next stop.
  It needs that a pended manifest or one about to be pended while Lightroom
  is seen closed has its run on the way, which holds because `queueOrPend` keeps the mutex until
  the manifest is stored.
- `FirstLaunchProtectedHolds`, from `OwnCatalogs` (catalogs are on local disks: no
  two machines restore into one directory; with a common directory it is false). The strengthening
  `Protected`: as long as the user has not resumed or answered, the machine is paused, no job that
  restores has passed the gate, memory, file and the copy of any handler have no
  timestamp, and its catalog is its own; a restart pauses again because the timestamp is
  empty, whatever settings were saved or torn, and a zip has one maker.
- `RecoverableCatalogHolds`, from `OwnCatalogs`, for behaviours in which the worker has
  network syncs only (`OnlySyncs`; a manual restore makes no copy).
  `RecoverableWithoutCommands` has no assumption on the behaviour, only on the
  configuration: machines that have onboarded, users who give no commands, saves of the
  configuration that are whole, as in the run `catalog_network`; a torn `config.yaml` would bring
  the onboarding dialog and its Sync Now. That the good copy exists is
  not inductive; where it lies is: no further from the newest copy than copies were
  made since the catalog broke (`Copied`), for retention keeps the newest in their
  order (`KeepNewestKeeps`). From the copy to the extraction the job has it
  (`Careful`), so a failure or restart at any of these steps finds it.

`ShareHealthProofs` (assumption `HealthAssumption`): `HealthTypeCorrect` and
`OutageSound`, that is `OpensOnlyAfterOutage` for any threshold, timeouts and
bounds. `OpensOnlyAfterOutage` needs that the breaker never counts a failure that is not
of the present streak: `Counted`, `failures <= streak`. It is an inequality, for a
breaker that opens begins to count anew while the streak goes on. That a half-open
breaker always has its probe on the way is part of `TypeOK`: only the monitor enters
it, and every check that began half-open ends closed or open.

`PresetSyncProofs` (assumption `PresetAssumption`): from `PresetInv`, for any machines,
presets, watermark templates and tolerance. Its parts are what a cycle knows by itself
(`OwnInv`), what holds of each file on the share (`ShareInv`), of cycles that do not
overlap (`Solo`), and of behaviours where nothing goes wrong (`Calm`).

- `PresetTypeCorrect` and `SharedLogoExistsHolds` hold whatever overlaps, fails or is
  edited. A template on its way to the share has been rewritten only after its logo was
  copied (`HandFits`), and the same is so of what anybody left in the temporary file
  (`ShareInv`). From then on the logo is there, or a replacement has removed it
  (`Given`); the second happens for a moment in every replacement, and for longer when the
  renaming fails, the agent stops before it, or another machine has taken the temporary
  file. Where nothing goes wrong only the cycle between the two calls has the logo
  away (`Steady`).
- `EditKeptHolds` is an action property of behaviours with failures or with overlaps: a cycle
  replaces or deletes only what it scanned as older, and what it scanned was shared
  (`Fresh`), unless the share showed a file between renaming and `os.Chtimes`, or one
  that a stopped cycle left there. Such a version has a time that is not its own
  (`Mistimed`), and a newer unshared edit is lost to it: that is a case of the
  property, not one left out of the model. A push that rewrites the local template
  loses it when the rewriting fails, but then it is on the share (`Sent`). With
  failures *and* overlaps together not even that is so: the renaming may put there what another
  cycle wrote under the same temporary name.
- `DeletionStaysHolds` and `RemovesOnlyKnownHolds` are about behaviours without failures,
  overlaps and edits during a cycle (`upsets`, chosen initially, says so). Their part,
  `Calm`, follows one cycle through its phases: what it knows of the share
  is true (`Knows`), its tombstones are those of the file and its own (`Mourns`), what it
  pushes is younger than any deletion, what it has written it finds again (`Steady`), and
  between cycles the file has every deletion (`AllRecorded`). Without `Knows` a cycle could
  take for deleted here what is newer there; with failures just that happens, as the run
  `preset_failed_pull` shows.

`ConfigStoreProofs` (assumption `ConfigAssumption`): from `ConfigInv`, for any handlers,
patches and files found at the start. `ConfigTypeCorrect`, whose content is that an agent that runs has
usable intervals; `DiskFollowsMemoryHolds`, with saves overlapping: `Save`
keeps the read lock, so what is being written is what the memory has (`InHand`);
`SettingsKeptHolds`, when one `save_config` runs at a time: the patch is in
hand, in memory or on disk, according to where the handler has got to (`PatchUp`,
`PatchOnDisk`); and the action properties `RestartKnownHolds` (what the start finds and makes
of it, `Found`) and `SyncedKeptHolds` (`PatchFresh`: what a handler has in
its hands is the memory, patched, unless somebody records in between).

`PresenceLockProofs` (assumption `PresenceAssumption`): from `PresenceInv`, for any machines on one
catalog and any retries. `PresenceTypeCorrect` says that `lightroom_lock.txt` is never
torn; it needs `OwnTmp`: a temporary file has its
line once filled and nobody else opens it, since two writes of one agent under way at once
carry different times. `OfflineLastHolds` needs who writes when (`Orderly`), and
that a heartbeat which gave up has failed as often as it retries (`Retrying`), so that
with fewer faults its own OFFLINE came after its last ONLINE (`SaidOffline`).

Only model-checked: everything under fairness (`CallReturns`, `StaleLockBroken`,
`AcceptedJobsReport`, `SuccessRecorded`, `ShutdownStops`, `PendingRuns`, `Converges`,
`StatusFollowsShare`, `KeepsBeating`), which is beyond the prover, as is `ENABLED`.

## Where code and documents disagree

Each has a violation run with a counterexample.

| Run | Statement | What the code does |
|---|---|---|
| `catalog_skipped` | `.docs/sync-architecture.md:57` rule 2 "already synced" | the time of completion is recorded, so a backup published during a restore is skipped |
| `preset_failed_pull` | `.docs/sync-architecture.md:133` the version with the higher modification time wins | `replaceFile` removes the local file before it renames the new one; if that fails, the push of the same cycle takes the missing file for a deletion and deletes the newer version on the share |

Seen while modelling, part of the models, without a run of their own:

- `sync_worker.go:64` promises to stop processing on pause; one job past the gate still
  starts (`PauseAdmitsOne` states what holds).
- Sync Now writes its job name and a zero progress into the status before the queue is
  tried, over those of a running job, also when the queue is full.
- `SetWarning` after `SetError` hides a critical error (`.docs/task.md:395`).
- Manual restores take no pre-sync copy (`README.md:18`) and are not recorded
  (`.docs/e2e-windows-manual.md:68`). `RecoverableCatalog` is therefore checked
  without them: with one manual restore it fails.
- A live but slow holder's lock can be broken with a long deadline.
- Preset cycles fill the worker's queue beside the syncs (`main.go:202`): while syncing is
  paused every stop of Lightroom adds one.
- The onboarding dialog shows a snapshot that polling does not refresh (`App.ts:564-570`,
  `App.ts:668`): Resume, a sync that is recorded, then "Pull" puts 1970 over the record
  (`App.ts:400`), and the next start syncs the manifest again. `NoRepeatSync` is said of
  records that stand.
- `manifest.go:115` would break the lock of a crashed machine, after 10 s; its only
  caller gives up after 4 s, so an orphaned lock stays.
- Every agent publishes each new zip of the shared folder as its own, so a machine may
  be told to sync a backup it made itself (`README.md:17`).
- `.docs/sync-architecture.md:63` waits until Lightroom closes; the code looks at
  Lightroom before the enqueue only. Line 64 speaks of watching the manifest
  continuously; the agent reads it at start-up only.
- `App.ts:418` "Local catalog is now marked as Master.": a sync queued at first launch
  still runs after the resume.
- `manifest.go:36` says the manifest lives on the network; `main.go:235` passes the
  local catalog path.

Presets:

- `.json` presets are pulled but skipped by the local scan, so the push of the next
  cycle deletes them on the share (`preset_sync.go:638`).
- Of two overlapping cycles the later writes the tombstones it read before the earlier
  wrote its own: a deletion can be lost and the preset come back. `DeletionStays` and
  `Converges` are said of cycles that do not overlap.
- Between `os.Rename` and `os.Chtimes` (`preset_sync.go:718-726`, `780-786`), or when the
  agent stops there, the share's file has the current time, and another machine takes it for
  newer than an edit it has not shared.
- Logo and preset on the share are removed and then renamed from a `.tmp` name all machines
  use (`preset_sync.go:713`, `790-795`): overlapping pushes take the logo away
  from a template that is already there, for a moment, or for good when the renaming
  fails. A logo that is there again only when the template is pushed once more stays away.
- A template saved while it is pushed is overwritten by the rewrite with the text read
  before. `EditKept` presupposes that the user keeps her hands off during a cycle.

Configuration:

- A `SetLastSyncedTimestamp` between the copy and the update of a handler is taken back
  (`main.go:1087`, `main.go:1145`); two overlapping `save_config` take back each
  other's settings, and the status may show the switch of either (`main.go:567`).
- A torn `config.yaml` starts without `last_synced_timestamp`, its last field: the agent pauses
  and asks for the onboarding again, and what was recorded is forgotten.
- After a failed `Save` the memory has the new settings, file and status the old.
- A `config.yaml` that cannot be read leaves the defaults in memory, and the next save
  writes them over it.
- A crash in the `Save` of the migration leaves a target that exists: the legacy file
  is never migrated nor copied (`.docs/task.md:64`).

Share and presence:

- "Network share not ready after resume" stays in the status when the breaker never
  opened, until something else changes it (`.docs/plan.md:22`, `.docs/task.md:98`);
  `StatusFollowsShare` therefore allows it.
- A resume hook that takes longer than the gap triggers itself again; a resume that finds
  the share clears "lost" while the breaker is still open; nobody subscribes to the
  network events.
- Temporary lock files of failed writes and killed agents are never removed. No part
  of the program reads the lock file (`ReadLock`, `IsStale`, `ParseLock` have no caller).

## Not modelled

- *Tray, registry, process and mutex adapters, window handling and rendering*: system
  calls without state of their own.
- *Log stream*: a ring behind one mutex; every operation is atomic, the reader
  only displays what it gets.
- *IPC*: one request per connection, one goroutine per connection. What that does to
  the agent is modelled where it matters: handlers interleave in `SyncWorker`,
  `CatalogSync` and `ConfigStore`.
- *Update checker*: a sequential download started by hand, without state that outlives
  the call.
- *UI polling and in-flight guards*: they only decide what is displayed.

Within modelled components: log texts and layouts; entry names in zips, zip-slip checks
and glob patterns (abstracted to "reads back" or not); a zip seen while it is still
being written; skewed clocks and UTC against local time in rule 2; versions of one
logo; two machines that write into one temporary file at the same moment and mix their
bytes; values of the wrong type in a configuration edited by hand. An
`EvtNewBackupDetected` or `EvtLightroomStopped` lost on a full bus is not in
`CatalogSync` (the drop is in `SyncWorker`). Handlers of one event run in goroutines of
their own; `CatalogSync` lets them run in any order.

## Plan

1. *Done*: lock protocol with abstract mutex, worker with status cache, bus and
   watchdog, catalog synchronisation, preset cycles, configuration, share health,
   presence lock; proofs of every safety property the runs check.
2. An abstract specification of the worker's queue as `CatalogSync` sees it, with the
   refinement from `SyncWorker`, so that the composition rests on a theorem as that of
   the manifest lock does.
3. Conditions of theorems that may be weakened: `OnlySyncs` to "no manual restore
   into this directory", `SettingsKept` to handlers that do not overlap in time.
