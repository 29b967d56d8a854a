----------------------------- MODULE SyncWorker -----------------------------
(***************************************************************************)
(* The agent's single-flight sync worker (internal/coordinator/            *)
(* sync_worker.go) with what it shares with the other goroutines of the    *)
(* agent: the status cache (state.go), the event bus (events.go), the      *)
(* operation watchdog (watchdog.go), the pause switch, and the IPC and     *)
(* tray handlers of cmd/agent/main.go that feed its queue.                 *)
(*                                                                         *)
(* A job is one call of Enqueue.  Kind[j] tells the jobs apart that the    *)
(* agent makes: "network" (orchestrator), "preset", and "manual" (Sync Now *)
(* and Restore backup); jobs of one kind have the same Name.               *)
(***************************************************************************)
EXTENDS AppState, Sequences

CONSTANTS
    Jobs,        \* the jobs that may be submitted, each once
    Kind,        \* Kind[j], also the job's name
    QueueSize,   \* capacity of the job channel (16 in the agent)
    BusSize,     \* capacity of the event channel (64 in the agent)
    NoJob

ASSUME WorkerAssumption ==
    /\ Kind \in [Jobs -> {"network", "preset", "manual"}]
    /\ QueueSize \in Nat \ {0}
    /\ BusSize \in Nat \ {0}
    /\ NoJob \notin Jobs
    /\ JobNames = {"network", "preset", "manual"}

VARIABLES
    queue,      \* the job channel
    wpc,        \* where the worker goroutine is
    cur,        \* the job it has taken from the channel
    err,        \* did cur's Execute return an error
    paused,     \* SyncWorker.paused
    woken,      \* has the resumeCh the worker waits on been closed
    cancelled,  \* is the agent's context cancelled
    app,        \* the status cache
    bus,        \* the event channel
    watch,      \* operation ids with a running watchdog entry
    alert,      \* has the watchdog an alert to deliver
    request     \* the job of the Sync Now request being handled

(* History: what has been promised and done.                               *)
VARIABLES
    accepted,    \* jobs in the order Enqueue took them
    started,     \* jobs in the order they were started
    outcome,     \* outcome[j]: what job j reported
    pauseStarts, \* jobs started since Pause, until Resume
    recorded,    \* network jobs recorded in last_synced_timestamp
    dropped      \* jobs whose report found the bus full

history    == <<accepted, started, outcome, pauseStarts, recorded, dropped>>
vars == <<queue, wpc, cur, err, paused, woken, cancelled, app, bus, watch,
          alert, request, history>>

WorkerPCs == {"select", "gate", "wait", "start", "announce", "validate",
              "execute", "report", "clear", "reset", "stopped"}

(* Sync Now uses one operation id for all its jobs, the others a fresh one. *)
(* Restore backup, which has a fresh one too, is taken together with Sync   *)
(* Now under the shared id, the harder case for the watchdog.               *)
OpID(j) == IF Kind[j] = "manual" THEN "manual_sync_now" ELSE j

OpIDs == Jobs \cup {"manual_sync_now"}

Events == [type : {"requested", "completed", "failed"}, job : Jobs]
            \cup [type : {"lightroom"}, job : {NoJob}]

ChannelsOK ==
    /\ queue \in Seq(Jobs) /\ Len(queue) <= QueueSize
    /\ bus \in Seq(Events) /\ Len(bus) <= BusSize
    /\ accepted \in Seq(Jobs)
    /\ started \in Seq(Jobs)
    /\ pauseStarts \in 0..Len(started)

TypeOK ==
    /\ ChannelsOK
    /\ wpc \in WorkerPCs
    /\ cur \in Jobs \cup {NoJob}
    /\ err \in BOOLEAN /\ paused \in BOOLEAN /\ woken \in BOOLEAN
    /\ cancelled \in BOOLEAN /\ alert \in BOOLEAN
    /\ app \in AppStates
    /\ watch \subseteq OpIDs
    /\ request \in Jobs \cup {NoJob}
    /\ outcome \in [Jobs -> {"none", "ok", "failed"}]
    /\ recorded \subseteq Jobs
    /\ dropped \subseteq Jobs

Init ==
    /\ queue = <<>>
    /\ wpc = "select" /\ cur = NoJob /\ err = FALSE
    \* a first launch (no last_synced_timestamp) pauses before the worker runs
    /\ \/ paused = FALSE /\ app = NewAppState
       \/ paused = TRUE  /\ app = SetWarning(SetSyncPaused(NewAppState, TRUE))
    /\ woken = FALSE
    /\ cancelled = FALSE
    /\ bus = <<>>
    /\ watch = {} /\ alert = FALSE
    /\ request = NoJob
    /\ accepted = <<>> /\ started = <<>> 
    /\ outcome = [j \in Jobs |-> "none"]
    /\ pauseStarts = 0 /\ recorded = {} /\ dropped = {}

-----------------------------------------------------------------------------
(* Channels *)

Submitted == {accepted[i] : i \in DOMAIN accepted}

(* Mutant of Enqueue: one job too many.                                    *)
EnqueueOneMore(j) ==
    IF Len(queue) <= QueueSize
    THEN queue' = Append(queue, j) /\ accepted' = Append(accepted, j)
    ELSE UNCHANGED <<queue, accepted>>

(* Enqueue: a send that does not block; a full channel is an error.        *)
Enqueue(j) ==
    IF Len(queue) < QueueSize
    THEN queue' = Append(queue, j) /\ accepted' = Append(accepted, j)
    ELSE UNCHANGED <<queue, accepted>>

(* Emit: a send that does not block; on a full channel the event is lost.  *)
Emit(type, j) ==
    bus' = IF Len(bus) < BusSize
           THEN Append(bus, [type |-> type, job |-> j])
           ELSE bus

-----------------------------------------------------------------------------
(* The worker goroutine *)

(* Run: one branch of its select takes a job ...                           *)
Dequeue ==
    /\ wpc = "select"
    /\ queue # <<>>
    /\ cur' = Head(queue)
    /\ queue' = Tail(queue)
    /\ wpc' = "gate"
    /\ UNCHANGED <<err, paused, woken, cancelled, app, bus, watch, alert,
                   request, history>>

(* ... the other sees the context cancelled.                               *)
StopIdle ==
    /\ wpc = "select"
    /\ cancelled
    /\ wpc' = "stopped"
    /\ UNCHANGED <<queue, cur, err, paused, woken, cancelled, app, bus, watch,
                   alert, request, history>>

(* Mutant of PassGate: the switch is not looked at.                        *)
PassGateBlindly ==
    /\ wpc = "gate"
    /\ wpc' = "start"
    /\ UNCHANGED <<queue, cur, err, paused, woken, cancelled, app, bus, watch,
                   alert, request, history>>

(* waitUntilResumed reads paused and resumeCh under the read lock.  The    *)
(* lock is released before process begins.                                 *)
PassGate ==
    /\ wpc = "gate"
    /\ ~paused
    /\ wpc' = "start"
    /\ UNCHANGED <<queue, cur, err, paused, woken, cancelled, app, bus, watch,
                   alert, request, history>>

(* Mutant of HeldAtGate: the job is dropped while paused.                  *)
DroppedAtGate ==
    /\ wpc = "gate"
    /\ paused
    /\ wpc' = "select"
    /\ cur' = NoJob
    /\ UNCHANGED <<queue, err, paused, woken, cancelled, app, bus, watch,
                   alert, request, history>>

HeldAtGate ==
    /\ wpc = "gate"
    /\ paused
    /\ wpc' = "wait"
    /\ UNCHANGED <<queue, cur, err, paused, woken, cancelled, app, bus, watch,
                   alert, request, history>>

(* The channel it waits on was closed: it reads paused again.              *)
Wake ==
    /\ wpc = "wait"
    /\ woken
    /\ wpc' = "gate"
    /\ woken' = FALSE
    /\ UNCHANGED <<queue, cur, err, paused, cancelled, app, bus, watch,
                   alert, request, history>>

(* Mutant of StopWaiting: a paused worker does not hear of the shutdown.   *)
StopWaitingResumed ==
    /\ wpc = "wait"
    /\ cancelled /\ ~paused
    /\ wpc' = "stopped"
    /\ UNCHANGED <<queue, cur, err, paused, woken, cancelled, app, bus, watch,
                   alert, request, history>>

(* Cancelled while held: the worker returns, and the job is gone.          *)
StopWaiting ==
    /\ wpc = "wait"
    /\ cancelled
    /\ wpc' = "stopped"
    /\ UNCHANGED <<queue, cur, err, paused, woken, cancelled, app, bus, watch,
                   alert, request, history>>

(* process: the status turns to syncing first ...                          *)
BeginSync ==
    /\ wpc = "start"
    /\ app' = SetSyncing(app, TRUE)
    /\ wpc' = "announce"
    /\ started' = Append(started, cur)
    /\ pauseStarts' = IF paused THEN pauseStarts + 1 ELSE 0
    /\ UNCHANGED <<queue, cur, err, paused, woken, cancelled, bus, watch,
                   alert, request, accepted, outcome, recorded, dropped>>

(* ... then name and progress are published, and the watchdog is started.  *)
Announce ==
    /\ wpc = "announce"
    /\ app' = SetRestoreProgress(SetCurrentJobName(app, Kind[cur]), 0)
    /\ Emit("requested", cur)
    /\ watch' = watch \cup {OpID(cur)}
    /\ wpc' = IF Kind[cur] = "network" THEN "validate" ELSE "execute"
    /\ UNCHANGED <<queue, cur, err, paused, woken, cancelled, alert, request,
                   history>>

(* Mutant of Validate: a corrupt zip returns past the end of process.      *)
ValidateReturns ==
    /\ wpc = "validate"
    /\ \E valid \in BOOLEAN :
         /\ app' = IF valid THEN ClearError(app) ELSE SetError(app)
         /\ err' = FALSE
         /\ cur' = IF valid THEN cur ELSE NoJob
         /\ wpc' = IF valid THEN "execute" ELSE "select"
    /\ UNCHANGED <<queue, paused, woken, cancelled, bus, watch, alert,
                   request, history>>

(* A network job begins with ValidateZipIntegrity.                         *)
Validate ==
    /\ wpc = "validate"
    /\ \E valid \in BOOLEAN :
         /\ app' = IF valid THEN ClearError(app) ELSE SetError(app)
         /\ err' = ~valid
         /\ wpc' = IF valid THEN "execute" ELSE "report"
    /\ UNCHANGED <<queue, cur, paused, woken, cancelled, bus, watch, alert,
                   request, history>>

(* The progress callback of a manual restore.                              *)
Progress ==
    /\ wpc = "execute"
    /\ Kind[cur] = "manual"
    /\ app' = SetRestoreProgress(app, 100)
    /\ UNCHANGED <<queue, wpc, cur, err, paused, woken, cancelled, bus, watch,
                   alert, request, history>>

(* The rest of Execute succeeds or fails, cancelled or not: the context is *)
(* looked at between two files only.                                       *)
Execute ==
    /\ wpc = "execute"
    /\ err' \in BOOLEAN
    /\ wpc' = "report"
    /\ UNCHANGED <<queue, cur, paused, woken, cancelled, app, bus, watch,
                   alert, request, history>>

(* The outcome is reported on the bus before the status is cleared.        *)
Report ==
    /\ wpc = "report"
    /\ Emit(IF err THEN "failed" ELSE "completed", cur)
    /\ dropped' = IF Len(bus) < BusSize THEN dropped ELSE dropped \cup {cur}
    /\ outcome' = [outcome EXCEPT ![cur] = IF err THEN "failed" ELSE "ok"]
    /\ wpc' = "clear"
    /\ UNCHANGED <<queue, cur, err, paused, woken, cancelled, app, watch,
                   alert, request, accepted, started, pauseStarts, recorded>>

ClearSyncing ==
    /\ wpc = "clear"
    /\ app' = SetSyncing(app, FALSE)
    /\ wpc' = "reset"
    /\ UNCHANGED <<queue, cur, err, paused, woken, cancelled, bus, watch,
                   alert, request, history>>

(* Mutant of ResetJob: the watch is not stopped.                           *)
ResetKeepsWatch ==
    /\ wpc = "reset"
    /\ app' = SetCurrentJobName(SetRestoreProgress(app, -1), NoName)
    /\ cur' = NoJob
    /\ err' = FALSE
    /\ wpc' = "select"
    /\ UNCHANGED <<queue, paused, woken, cancelled, bus, watch, alert, request,
                   history>>

(* Progress and name are reset; the deferred stopWatch comes last.         *)
ResetJob ==
    /\ wpc = "reset"
    /\ app' = SetCurrentJobName(SetRestoreProgress(app, -1), NoName)
    /\ watch' = watch \ {OpID(cur)}
    /\ cur' = NoJob
    /\ err' = FALSE
    /\ wpc' = "select"
    /\ UNCHANGED <<queue, paused, woken, cancelled, bus, alert, request,
                   history>>

Work ==
    \/ Dequeue \/ StopIdle
    \/ PassGate \/ HeldAtGate \/ Wake \/ StopWaiting
    \/ BeginSync \/ Announce \/ Validate \/ Execute
    \/ Report \/ ClearSyncing \/ ResetJob

-----------------------------------------------------------------------------
(* The pause switch *)

Pause ==
    /\ ~paused
    /\ paused' = TRUE
    /\ app' = SetSyncPaused(app, TRUE)
    /\ pauseStarts' = 0
    /\ UNCHANGED <<queue, wpc, cur, err, woken, cancelled, bus, watch, alert,
                   request, accepted, started, outcome, recorded, dropped>>

(* Mutant of Resume: the channel is not closed.                            *)
ResumeUnheard ==
    /\ paused
    /\ paused' = FALSE
    /\ app' = SetSyncPaused(app, FALSE)
    /\ pauseStarts' = 0
    /\ UNCHANGED <<queue, wpc, cur, err, woken, cancelled, bus, watch, alert,
                   request, accepted, started, outcome, recorded, dropped>>

(* Resume closes the channel the worker may be waiting on.  A later Pause  *)
(* makes a new channel and leaves the closed one to the waiting worker.    *)
Resume ==
    /\ paused
    /\ paused' = FALSE
    /\ woken' = (wpc = "wait")
    /\ app' = SetSyncPaused(app, FALSE)
    /\ pauseStarts' = 0
    /\ UNCHANGED <<queue, wpc, cur, err, cancelled, bus, watch, alert,
                   request, accepted, started, outcome, recorded, dropped>>

-----------------------------------------------------------------------------
(* The other goroutines *)

(* The orchestrator and the preset trigger put a job in the queue; the     *)
(* orchestrator refreshes the status once it is in.                        *)
EnqueueJob(j) ==
    /\ Kind[j] # "manual"
    /\ j \notin Submitted
    /\ Enqueue(j)
    /\ app' = IF Kind[j] = "network" /\ Len(queue) < QueueSize
              THEN RefreshDerivedStatus(app) ELSE app
    /\ UNCHANGED <<wpc, cur, err, paused, woken, cancelled, bus, watch, alert,
                   request, started, outcome, pauseStarts, recorded, dropped>>

(* Sync Now and Restore backup publish name and progress first ...         *)
RequestSync(j) ==
    /\ Kind[j] = "manual"
    /\ request = NoJob
    /\ j \notin Submitted
    /\ request' = j
    /\ app' = SetRestoreProgress(SetCurrentJobName(app, Kind[j]), 0)
    /\ UNCHANGED <<queue, wpc, cur, err, paused, woken, cancelled, bus, watch,
                   alert, history>>

(* ... and then try the queue.  When it is full the tray shows a warning,  *)
(* the IPC handler only answers with the error.                            *)
EnqueueRequest ==
    /\ request # NoJob
    /\ Enqueue(request)
    /\ request' = NoJob
    /\ app' \in IF Len(queue) < QueueSize THEN {app} ELSE {app, SetWarning(app)}
    /\ UNCHANGED <<wpc, cur, err, paused, woken, cancelled, bus, watch, alert,
                   started, outcome, pauseStarts, recorded, dropped>>

(* The watchdog finds the entry past its deadline and drops it ...         *)
ScanExpired ==
    /\ ~alert
    /\ watch # {}
    /\ watch' = {}
    /\ alert' = TRUE
    /\ UNCHANGED <<queue, wpc, cur, err, paused, woken, cancelled, app, bus,
                   request, history>>

(* ... and calls onAlert outside its lock.                                 *)
OnAlert ==
    /\ alert
    /\ app' = SetWarning(app)
    /\ alert' = FALSE
    /\ UNCHANGED <<queue, wpc, cur, err, paused, woken, cancelled, bus, watch,
                   request, history>>

(* The Lightroom monitor's hooks.                                          *)
LightroomChange ==
    /\ app' = SetLightroomRunning(app, ~app.lightroomRunning)
    /\ Emit("lightroom", NoJob)
    /\ UNCHANGED <<queue, wpc, cur, err, paused, woken, cancelled, watch,
                   alert, request, history>>

(* Mutant of Dispatch: the wrong jobs count as network syncs.              *)
DispatchMisnamed ==
    /\ bus # <<>>
    /\ bus' = Tail(bus)
    /\ recorded' = IF /\ Head(bus).type = "completed"
                      /\ Kind[Head(bus).job] = "preset"
                   THEN recorded \cup {Head(bus).job} ELSE recorded
    /\ UNCHANGED <<queue, wpc, cur, err, paused, woken, cancelled, app, watch,
                   alert, request, accepted, started, outcome, pauseStarts,
                   dropped>>

(* The event loop hands the next event to its handlers.  Of a completed    *)
(* network job, OnSyncCompleted records the time.                          *)
Dispatch ==
    /\ bus # <<>>
    /\ bus' = Tail(bus)
    /\ recorded' = IF /\ Head(bus).type = "completed"
                      /\ Kind[Head(bus).job] = "network"
                   THEN recorded \cup {Head(bus).job} ELSE recorded
    /\ UNCHANGED <<queue, wpc, cur, err, paused, woken, cancelled, app, watch,
                   alert, request, accepted, started, outcome, pauseStarts,
                   dropped>>

(* shutdown_agent, the tray's Exit or a signal cancels the context.        *)
Shutdown ==
    /\ ~cancelled
    /\ cancelled' = TRUE
    /\ UNCHANGED <<queue, wpc, cur, err, paused, woken, app, bus, watch, alert,
                   request, history>>

Next ==
    \/ Work \/ Progress
    \/ Pause \/ Resume
    \/ \E j \in Jobs : EnqueueJob(j) \/ RequestSync(j)
    \/ EnqueueRequest
    \/ ScanExpired \/ OnAlert
    \/ LightroomChange \/ Dispatch \/ Shutdown

Spec == Init /\ [][Next]_vars

(***************************************************************************)
(* The worker goroutine is scheduled, its job's Execute returns (its I/O   *)
(* ends, at the latest when the context is cancelled), and until shutdown  *)
(* the event loop runs.  Nothing is assumed of users, of Lightroom or of   *)
(* the watchdog.                                                           *)
(***************************************************************************)
WorkerFairness ==
    /\ WF_vars(Work)
    /\ WF_vars(Dispatch /\ ~cancelled)

LiveSpec == Spec /\ WorkerFairness

-----------------------------------------------------------------------------
(* Properties *)

Running == {"announce", "validate", "execute", "report", "clear"}

Held == IF wpc \in {"gate", "wait", "start", "stopped"} /\ cur # NoJob
        THEN <<cur>> ELSE <<>>

(***************************************************************************)
(* Every job Enqueue accepted is started once, in the order of acceptance, *)
(* whatever pauses, resumes and shutdown do: it has been started, is held  *)
(* at the pause gate, or is in the channel.                                *)
(***************************************************************************)
AcceptedOrder == accepted = started \o Held \o queue

(***************************************************************************)
(* What Pause really guarantees: of the jobs that had not started when it  *)
(* was called at most one, already past the gate, starts before Resume.    *)
(***************************************************************************)
PauseAdmitsOne == paused => pauseStarts <= 1

(***************************************************************************)
(* A worker parked on a resume channel is never forgotten: unless the      *)
(* switch is on, its channel has been closed, also after quick sequences   *)
(* of Resume and Pause.                                                    *)
(***************************************************************************)
NoLostWakeup == (wpc = "wait" /\ ~paused) => woken

(***************************************************************************)
(* The status cache says "sync in progress" exactly while process runs, on *)
(* the error paths as well.                                                *)
(***************************************************************************)
SyncingWhileRunning == app.syncInProgress <=> wpc \in Running

(***************************************************************************)
(* The watchdog only tracks the job at hand: an idle worker leaves no      *)
(* entry that could expire, and no entry of an earlier Sync Now survives   *)
(* under its shared operation id.                                          *)
(***************************************************************************)
WatchOnlyCurrent ==
    /\ watch \subseteq {OpID(j) : j \in {cur} \ {NoJob}}
    /\ wpc \in {"gate", "wait", "start", "announce"} => watch = {}

(***************************************************************************)
(* The inductive invariant behind the properties above but the first.      *)
(***************************************************************************)
WorkerInv ==
    /\ TypeOK
    /\ wpc \notin {"select", "stopped"} => cur \in Jobs
    /\ SyncingWhileRunning
    /\ NoLostWakeup
    /\ PauseAdmitsOne
    /\ wpc = "start" /\ paused => pauseStarts = 0
    /\ wpc \notin {"validate", "execute", "report", "clear", "reset"}
            => watch = {}
    /\ \A o \in watch : o = OpID(cur)

(***************************************************************************)
(* AcceptedOrder is inductive once an idle worker is known to hold no job. *)
(***************************************************************************)
OrderInv ==
    /\ AcceptedOrder
    /\ wpc = "select" => cur = NoJob

(***************************************************************************)
(* If the switch is off from some point on and the agent keeps running,    *)
(* every accepted job reports an outcome.                                  *)
(***************************************************************************)
AcceptedJobsReport ==
    <>[](~paused /\ ~cancelled) =>
        \A j \in Jobs : j \in Submitted ~> outcome[j] # "none"

(***************************************************************************)
(* A successful network sync reaches OnSyncCompleted, which is what keeps  *)
(* it from being repeated, unless its event met a full bus or shutdown.    *)
(***************************************************************************)
SuccessRecorded ==
    \A j \in Jobs : (outcome[j] = "ok" /\ Kind[j] = "network")
                      ~> (j \in recorded \cup dropped \/ cancelled)

(***************************************************************************)
(* Shutdown ends the worker, also when it is parked at the pause gate, as  *)
(* soon as nobody flips the pause switch any more.                         *)
(***************************************************************************)
ShutdownStops ==
    (<>[]paused \/ <>[](~paused)) => (cancelled ~> wpc = "stopped")

=============================================================================
