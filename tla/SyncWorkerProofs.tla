-------------------------- MODULE SyncWorkerProofs --------------------------
(***************************************************************************)
(* Proofs about SyncWorker, for any jobs and any channel capacities.       *)
(***************************************************************************)
EXTENDS SyncWorker, TLAPS

(***************************************************************************)
(* Recomputing colour and text yields a well-formed status and leaves      *)
(* syncInProgress alone.                                                   *)
(***************************************************************************)
LEMMA RecomputeTyped ==
  ASSUME NEW s \in AppStates
  PROVE  /\ Recompute(s) \in AppStates
         /\ Recompute(s).syncInProgress = s.syncInProgress
<1>1. DerivedText(s) \in Texts /\ ColorOf(DerivedText(s)) \in Colors
  BY DEF DerivedText, ColorOf, Texts, Colors
<1> QED
  BY <1>1 DEF Recompute, AppStates

(***************************************************************************)
(* SetSyncing yields a well-formed status with the given syncInProgress.   *)
(***************************************************************************)
LEMMA SetSyncingTyped ==
  ASSUME NEW s \in AppStates, NEW v \in BOOLEAN
  PROVE  /\ SetSyncing(s, v) \in AppStates
         /\ SetSyncing(s, v).syncInProgress = v
<1>1. [s EXCEPT !.syncInProgress = v] \in AppStates
  BY DEF AppStates
<1>2. [s EXCEPT !.syncInProgress = v].syncInProgress = v
  BY DEF AppStates
<1> QED
  BY <1>1, <1>2, RecomputeTyped DEF SetSyncing

(***************************************************************************)
(* The setters of the pause and Lightroom flags yield a well-formed status *)
(* and leave syncInProgress alone.                                         *)
(***************************************************************************)
LEMMA FlagSettersTyped ==
  ASSUME NEW s \in AppStates, NEW v \in BOOLEAN
  PROVE  /\ SetSyncPaused(s, v) \in AppStates
         /\ SetSyncPaused(s, v).syncInProgress = s.syncInProgress
         /\ SetLightroomRunning(s, v) \in AppStates
         /\ SetLightroomRunning(s, v).syncInProgress = s.syncInProgress
<1>1. /\ [s EXCEPT !.syncPaused = v] \in AppStates
      /\ [s EXCEPT !.syncPaused = v].syncInProgress = s.syncInProgress
  BY DEF AppStates
<1>2. /\ [s EXCEPT !.lightroomRunning = v] \in AppStates
      /\ [s EXCEPT !.lightroomRunning = v].syncInProgress = s.syncInProgress
  BY DEF AppStates
<1> QED
  BY <1>1, <1>2, RecomputeTyped DEF SetSyncPaused, SetLightroomRunning

(***************************************************************************)
(* So do the setters of the critical error and RefreshDerivedStatus.       *)
(***************************************************************************)
LEMMA ErrorSettersTyped ==
  ASSUME NEW s \in AppStates
  PROVE  /\ SetError(s) \in AppStates
         /\ SetError(s).syncInProgress = s.syncInProgress
         /\ ClearError(s) \in AppStates
         /\ ClearError(s).syncInProgress = s.syncInProgress
         /\ RefreshDerivedStatus(s) \in AppStates
         /\ RefreshDerivedStatus(s).syncInProgress = s.syncInProgress
<1>1. /\ [s EXCEPT !.criticalError = TRUE] \in AppStates
      /\ [s EXCEPT !.criticalError = TRUE].syncInProgress = s.syncInProgress
      /\ [s EXCEPT !.criticalError = FALSE] \in AppStates
      /\ [s EXCEPT !.criticalError = FALSE].syncInProgress = s.syncInProgress
  BY DEF AppStates
<1> QED
  BY <1>1, RecomputeTyped DEF SetError, ClearError, RefreshDerivedStatus

(***************************************************************************)
(* So do the setters that recompute nothing: warning, progress and job     *)
(* name.                                                                   *)
(***************************************************************************)
LEMMA PlainSettersTyped ==
  ASSUME NEW s \in AppStates, NEW p \in {-1, 0, 100},
         NEW n \in JobNames \cup {NoName}
  PROVE  /\ SetWarning(s) \in AppStates
         /\ SetWarning(s).syncInProgress = s.syncInProgress
         /\ SetRestoreProgress(s, p) \in AppStates
         /\ SetRestoreProgress(s, p).syncInProgress = s.syncInProgress
         /\ SetCurrentJobName(s, n) \in AppStates
         /\ SetCurrentJobName(s, n).syncInProgress = s.syncInProgress
BY DEF SetWarning, SetRestoreProgress, SetCurrentJobName, AppStates, Colors,
       Texts

(***************************************************************************)
(* The status of a fresh agent is well formed and shows no sync.           *)
(***************************************************************************)
LEMMA NewAppStateTyped ==
  /\ NewAppState \in AppStates
  /\ ~NewAppState.syncInProgress
BY DEF NewAppState, AppStates, Colors, Texts

-----------------------------------------------------------------------------
(***************************************************************************)
(* Receiving from a channel that is not empty.                             *)
(***************************************************************************)
LEMMA ReceiveTyped ==
  ASSUME NEW S, NEW q \in Seq(S), q # <<>>
  PROVE  Head(q) \in S /\ Tail(q) \in Seq(S) /\ Len(Tail(q)) <= Len(q)
OBVIOUS

(***************************************************************************)
(* Appending to a channel that is not full keeps it typed and within its   *)
(* capacity.                                                               *)
(***************************************************************************)
LEMMA SendTyped ==
  ASSUME NEW S, NEW q \in Seq(S), NEW x \in S, NEW n \in Nat, Len(q) <= n
  PROVE  /\ Append(q, x) \in Seq(S)
         /\ Len(q) < n => Len(Append(q, x)) <= n
OBVIOUS

(***************************************************************************)
(* Emit, on a full bus as well, keeps the channels typed and within their  *)
(* bounds.                                                                 *)
(***************************************************************************)
LEMMA EmitTyped ==
  ASSUME ChannelsOK, NEW t, NEW j, [type |-> t, job |-> j] \in Events,
         Emit(t, j)
  PROVE  bus' \in Seq(Events) /\ Len(bus') <= BusSize
<1>1. BusSize \in Nat
  BY WorkerAssumption DEF WorkerAssumption
<1> QED
  BY <1>1, SendTyped DEF ChannelsOK, Emit

(***************************************************************************)
(* Enqueue, on a full queue as well, keeps the channels typed and within   *)
(* their bounds.                                                           *)
(***************************************************************************)
LEMMA EnqueueTyped ==
  ASSUME ChannelsOK, NEW j \in Jobs, Enqueue(j)
  PROVE  /\ queue' \in Seq(Jobs) /\ Len(queue') <= QueueSize
         /\ accepted' \in Seq(Jobs)
<1>1. QueueSize \in Nat
  BY WorkerAssumption DEF WorkerAssumption
<1>2. CASE Len(queue) < QueueSize
  <2>1. queue' = Append(queue, j) /\ accepted' = Append(accepted, j)
    BY <1>2 DEF Enqueue
  <2>2. accepted' \in Seq(Jobs)
    BY <2>1 DEF ChannelsOK
  <2>3. queue' \in Seq(Jobs) /\ Len(queue') <= QueueSize
    BY <1>1, <1>2, <2>1, SendTyped DEF ChannelsOK
  <2> QED
    BY <2>2, <2>3
<1>3. CASE ~(Len(queue) < QueueSize)
  BY <1>3 DEF ChannelsOK, Enqueue
<1> QED
  BY <1>2, <1>3

(***************************************************************************)
(* The initial states, the one of a first launch included, satisfy the     *)
(* inductive invariant.                                                    *)
(***************************************************************************)
LEMMA WorkerInvInit == Init => WorkerInv
<1> SUFFICES ASSUME Init
             PROVE  WorkerInv
  OBVIOUS
<1>1. app \in AppStates /\ ~app.syncInProgress
  <2>1. /\ SetSyncPaused(NewAppState, TRUE) \in AppStates
        /\ ~SetSyncPaused(NewAppState, TRUE).syncInProgress
    BY NewAppStateTyped, FlagSettersTyped
  <2>2. /\ SetWarning(SetSyncPaused(NewAppState, TRUE)) \in AppStates
        /\ ~SetWarning(SetSyncPaused(NewAppState, TRUE)).syncInProgress
    BY <2>1, PlainSettersTyped
  <2>3. app \in {NewAppState, SetWarning(SetSyncPaused(NewAppState, TRUE))}
    BY DEF Init
  <2> QED
    BY <2>2, <2>3, NewAppStateTyped
<1>2. ChannelsOK
  BY WorkerAssumption DEF WorkerAssumption, Init, ChannelsOK
<1>3. TypeOK
  BY <1>1, <1>2 DEF Init, TypeOK, WorkerPCs
<1> QED
  BY <1>1, <1>3 DEF Init, WorkerInv, SyncingWhileRunning, Running,
    NoLostWakeup, PauseAdmitsOne

(***************************************************************************)
(* Every step of the worker and of the goroutines around it preserves the  *)
(* inductive invariant.                                                    *)
(***************************************************************************)
LEMMA WorkerInvStep ==
  ASSUME WorkerInv, [Next]_vars
  PROVE  WorkerInv'
<1> USE DEF WorkerInv, TypeOK
<1>0. /\ JobNames = {"network", "preset", "manual"}
      /\ \A j \in Jobs : Kind[j] \in JobNames
  BY WorkerAssumption DEF WorkerAssumption
<1>1. ASSUME Dequeue
      PROVE  WorkerInv'
  <2>0. cur' \in Jobs
    BY <1>1, ReceiveTyped DEF Dequeue, ChannelsOK
  <2>1. ChannelsOK'
    <3>1. queue' \in Seq(Jobs) /\ Len(queue') <= Len(queue)
      BY <1>1, ReceiveTyped DEF Dequeue, ChannelsOK
    <3>2. QueueSize \in Nat
      BY WorkerAssumption DEF WorkerAssumption
    <3>3. Len(queue') <= QueueSize
      BY <3>1, <3>2 DEF ChannelsOK
    <3> QED
      BY <1>1, <3>1, <3>3 DEF Dequeue, ChannelsOK, history
  <2> QED
    BY <1>1, <2>0, <2>1
    DEF Dequeue, SyncingWhileRunning, Running,
        NoLostWakeup, PauseAdmitsOne, WorkerPCs, history
<1>2. ASSUME StopIdle
      PROVE  WorkerInv'
  <2>1. ChannelsOK'
    BY <1>2 DEF StopIdle, ChannelsOK, history
  <2> QED
    BY <1>2, <2>1
    DEF StopIdle, SyncingWhileRunning, Running,
        NoLostWakeup, PauseAdmitsOne, WorkerPCs, history
<1>3. ASSUME PassGate
      PROVE  WorkerInv'
  <2>1. ChannelsOK'
    BY <1>3 DEF PassGate, ChannelsOK, history
  <2> QED
    BY <1>3, <2>1
    DEF PassGate, SyncingWhileRunning, Running,
        NoLostWakeup, PauseAdmitsOne, WorkerPCs, history
<1>4. ASSUME HeldAtGate
      PROVE  WorkerInv'
  <2>1. ChannelsOK'
    BY <1>4 DEF HeldAtGate, ChannelsOK, history
  <2> QED
    BY <1>4, <2>1
    DEF HeldAtGate, SyncingWhileRunning, Running,
        NoLostWakeup, PauseAdmitsOne, WorkerPCs, history
<1>5. ASSUME Wake
      PROVE  WorkerInv'
  <2>1. ChannelsOK'
    BY <1>5 DEF Wake, ChannelsOK, history
  <2> QED
    BY <1>5, <2>1
    DEF Wake, SyncingWhileRunning, Running,
        NoLostWakeup, PauseAdmitsOne, WorkerPCs, history
<1>6. ASSUME StopWaiting
      PROVE  WorkerInv'
  <2>1. ChannelsOK'
    BY <1>6 DEF StopWaiting, ChannelsOK, history
  <2> QED
    BY <1>6, <2>1
    DEF StopWaiting, SyncingWhileRunning, Running,
        NoLostWakeup, PauseAdmitsOne, WorkerPCs, history
<1>7. ASSUME BeginSync
      PROVE  WorkerInv'
  <2>1. app' \in AppStates /\ app'.syncInProgress
    BY <1>7, SetSyncingTyped DEF BeginSync
  <2>2. ChannelsOK'
    BY <1>7 DEF BeginSync, ChannelsOK, history
  <2>3. PauseAdmitsOne'
    BY <1>7 DEF BeginSync, PauseAdmitsOne
  <2> QED
    BY <1>7, <2>1, <2>2, <2>3
    DEF BeginSync, SyncingWhileRunning, Running, NoLostWakeup, WorkerPCs
<1>8. ASSUME Announce
      PROVE  WorkerInv'
  <2>1. app' \in AppStates /\ app'.syncInProgress = app.syncInProgress
    BY <1>8, PlainSettersTyped, <1>0 DEF Announce
  <2>2. ChannelsOK'
    <3>1. [type |-> "requested", job |-> cur] \in Events
      BY <1>8 DEF Announce, Events
    <3>2. bus' \in Seq(Events) /\ Len(bus') <= BusSize
      BY <1>8, <3>1, EmitTyped DEF Announce
    <3> QED
      BY <1>8, <3>2 DEF Announce, ChannelsOK, history
  <2> QED
    BY <1>8, <2>1, <2>2
    DEF Announce, SyncingWhileRunning, Running,
        NoLostWakeup, PauseAdmitsOne, WorkerPCs, history, OpID, OpIDs
<1>9. ASSUME Validate
      PROVE  WorkerInv'
  <2>1. app' \in AppStates /\ app'.syncInProgress = app.syncInProgress
    BY <1>9, ErrorSettersTyped DEF Validate
  <2>2. ChannelsOK'
    BY <1>9 DEF Validate, ChannelsOK, history
  <2> QED
    BY <1>9, <2>1, <2>2
    DEF Validate, SyncingWhileRunning, Running,
        NoLostWakeup, PauseAdmitsOne, WorkerPCs, history
<1>10. ASSUME Progress
      PROVE  WorkerInv'
  <2>1. app' \in AppStates /\ app'.syncInProgress = app.syncInProgress
    BY <1>10, PlainSettersTyped DEF Progress
  <2>2. ChannelsOK'
    BY <1>10 DEF Progress, ChannelsOK, history
  <2> QED
    BY <1>10, <2>1, <2>2
    DEF Progress, SyncingWhileRunning, Running,
        NoLostWakeup, PauseAdmitsOne, WorkerPCs, history
<1>11. ASSUME Execute
      PROVE  WorkerInv'
  <2>1. ChannelsOK'
    BY <1>11 DEF Execute, ChannelsOK, history
  <2> QED
    BY <1>11, <2>1
    DEF Execute, SyncingWhileRunning, Running,
        NoLostWakeup, PauseAdmitsOne, WorkerPCs, history
<1>12. ASSUME Report
      PROVE  WorkerInv'
  <2>1. ChannelsOK'
    <3>1. \A t \in {"failed", "completed"} : [type |-> t, job |-> cur] \in Events
      BY <1>12 DEF Report, Events
    <3>2. bus' \in Seq(Events) /\ Len(bus') <= BusSize
      BY <1>12, <3>1, EmitTyped DEF Report
    <3> QED
      BY <1>12, <3>2 DEF Report, ChannelsOK, history
  <2> QED
    BY <1>12, <2>1
    DEF Report, SyncingWhileRunning, Running,
        NoLostWakeup, PauseAdmitsOne, WorkerPCs, history
<1>13. ASSUME ClearSyncing
      PROVE  WorkerInv'
  <2>1. app' \in AppStates /\ ~app'.syncInProgress
    BY <1>13, SetSyncingTyped DEF ClearSyncing
  <2>2. ChannelsOK'
    BY <1>13 DEF ClearSyncing, ChannelsOK, history
  <2> QED
    BY <1>13, <2>1, <2>2
    DEF ClearSyncing, SyncingWhileRunning, Running,
        NoLostWakeup, PauseAdmitsOne, WorkerPCs, history
<1>14. ASSUME ResetJob
      PROVE  WorkerInv'
  <2>1. app' \in AppStates /\ app'.syncInProgress = app.syncInProgress
    BY <1>14, PlainSettersTyped, <1>0 DEF ResetJob
  <2>2. ChannelsOK'
    BY <1>14 DEF ResetJob, ChannelsOK, history
  <2> QED
    BY <1>14, <2>1, <2>2
    DEF ResetJob, SyncingWhileRunning, Running,
        NoLostWakeup, PauseAdmitsOne, WorkerPCs, history, OpID, OpIDs
<1>15. ASSUME Pause
      PROVE  WorkerInv'
  <2>1. app' \in AppStates /\ app'.syncInProgress = app.syncInProgress
    BY <1>15, FlagSettersTyped DEF Pause
  <2>2. ChannelsOK'
    BY <1>15 DEF Pause, ChannelsOK, history
  <2>3. PauseAdmitsOne'
    BY <1>15 DEF Pause, PauseAdmitsOne
  <2> QED
    BY <1>15, <2>1, <2>2, <2>3
    DEF Pause, SyncingWhileRunning, Running, NoLostWakeup, WorkerPCs
<1>16. ASSUME Resume
      PROVE  WorkerInv'
  <2>1. app' \in AppStates /\ app'.syncInProgress = app.syncInProgress
    BY <1>16, FlagSettersTyped DEF Resume
  <2>2. ChannelsOK'
    BY <1>16 DEF Resume, ChannelsOK, history
  <2> QED
    BY <1>16, <2>1, <2>2
    DEF Resume, SyncingWhileRunning, Running,
        NoLostWakeup, PauseAdmitsOne, WorkerPCs, history
<1>17. ASSUME NEW j \in Jobs, EnqueueJob(j)
      PROVE  WorkerInv'
  <2>1. app' \in AppStates /\ app'.syncInProgress = app.syncInProgress
    BY <1>17, ErrorSettersTyped DEF EnqueueJob
  <2>2. ChannelsOK'
    BY <1>17, EnqueueTyped DEF EnqueueJob, ChannelsOK, history
  <2> QED
    BY <1>17, <2>1, <2>2
    DEF EnqueueJob, SyncingWhileRunning, Running,
        NoLostWakeup, PauseAdmitsOne, WorkerPCs, history
<1>18. ASSUME NEW j \in Jobs, RequestSync(j)
      PROVE  WorkerInv'
  <2>1. app' \in AppStates /\ app'.syncInProgress = app.syncInProgress
    BY <1>18, PlainSettersTyped, <1>0 DEF RequestSync
  <2>2. ChannelsOK'
    BY <1>18 DEF RequestSync, ChannelsOK, history
  <2> QED
    BY <1>18, <2>1, <2>2
    DEF RequestSync, SyncingWhileRunning, Running,
        NoLostWakeup, PauseAdmitsOne, WorkerPCs, history
<1>19. ASSUME EnqueueRequest
      PROVE  WorkerInv'
  <2>1. app' \in AppStates /\ app'.syncInProgress = app.syncInProgress
    BY <1>19, PlainSettersTyped DEF EnqueueRequest
  <2>2. ChannelsOK'
    BY <1>19, EnqueueTyped DEF EnqueueRequest, ChannelsOK, history
  <2> QED
    BY <1>19, <2>1, <2>2
    DEF EnqueueRequest, SyncingWhileRunning, Running,
        NoLostWakeup, PauseAdmitsOne, WorkerPCs, history
<1>20. ASSUME ScanExpired
      PROVE  WorkerInv'
  <2>1. ChannelsOK'
    BY <1>20 DEF ScanExpired, ChannelsOK, history
  <2> QED
    BY <1>20, <2>1
    DEF ScanExpired, SyncingWhileRunning, Running,
        NoLostWakeup, PauseAdmitsOne, WorkerPCs, history
<1>21. ASSUME OnAlert
      PROVE  WorkerInv'
  <2>1. app' \in AppStates /\ app'.syncInProgress = app.syncInProgress
    BY <1>21, PlainSettersTyped DEF OnAlert
  <2>2. ChannelsOK'
    BY <1>21 DEF OnAlert, ChannelsOK, history
  <2> QED
    BY <1>21, <2>1, <2>2
    DEF OnAlert, SyncingWhileRunning, Running,
        NoLostWakeup, PauseAdmitsOne, WorkerPCs, history
<1>22. ASSUME LightroomChange
      PROVE  WorkerInv'
  <2>1. app' \in AppStates /\ app'.syncInProgress = app.syncInProgress
    BY <1>22, FlagSettersTyped DEF LightroomChange, AppStates
  <2>2. ChannelsOK'
    <3>1. [type |-> "lightroom", job |-> NoJob] \in Events
      BY <1>22 DEF LightroomChange, Events
    <3>2. bus' \in Seq(Events) /\ Len(bus') <= BusSize
      BY <1>22, <3>1, EmitTyped DEF LightroomChange
    <3> QED
      BY <1>22, <3>2 DEF LightroomChange, ChannelsOK, history
  <2> QED
    BY <1>22, <2>1, <2>2
    DEF LightroomChange, SyncingWhileRunning, Running,
        NoLostWakeup, PauseAdmitsOne, WorkerPCs, history
<1>23. ASSUME Dispatch
      PROVE  WorkerInv'
  <2>1. ChannelsOK'
    <3>1. bus' \in Seq(Events) /\ Len(bus') <= Len(bus)
      BY <1>23, ReceiveTyped DEF Dispatch, ChannelsOK
    <3>2. BusSize \in Nat
      BY WorkerAssumption DEF WorkerAssumption
    <3>3. Len(bus') <= BusSize
      BY <3>1, <3>2 DEF ChannelsOK
    <3> QED
      BY <1>23, <3>1, <3>3 DEF Dispatch, ChannelsOK
  <2>2. recorded' \subseteq Jobs
    <3>1. Head(bus) \in Events
      BY <1>23, ReceiveTyped DEF Dispatch, ChannelsOK
    <3>2. Head(bus).type = "completed" => Head(bus).job \in Jobs
      BY <3>1 DEF Events
    <3> QED
      BY <1>23, <3>2 DEF Dispatch
  <2> QED
    BY <1>23, <2>1, <2>2
    DEF Dispatch, SyncingWhileRunning, Running,
        NoLostWakeup, PauseAdmitsOne, WorkerPCs, history
<1>24. ASSUME Shutdown
      PROVE  WorkerInv'
  <2>1. ChannelsOK'
    BY <1>24 DEF Shutdown, ChannelsOK, history
  <2> QED
    BY <1>24, <2>1
    DEF Shutdown, SyncingWhileRunning, Running,
        NoLostWakeup, PauseAdmitsOne, WorkerPCs, history
<1>25. CASE UNCHANGED vars
  <2>1. ChannelsOK'
    BY <1>25 DEF vars, history, ChannelsOK
  <2> QED
    BY <1>25, <2>1 DEF vars, SyncingWhileRunning, Running,
        NoLostWakeup, PauseAdmitsOne, WorkerPCs, history
<1> QED
  BY <1>1, <1>2, <1>3, <1>4, <1>5, <1>6, <1>7, <1>8, <1>9, <1>10, <1>11, <1>12, <1>13, <1>14, <1>15, <1>16, <1>17, <1>18, <1>19, <1>20, <1>21, <1>22, <1>23, <1>24, <1>25 DEF Next, Work

(***************************************************************************)
(* The inductive invariant of the worker holds of every behaviour.         *)
(***************************************************************************)
LEMMA WorkerInvHolds == Spec => []WorkerInv
<1>1. WorkerInv /\ [Next]_vars => WorkerInv'
  BY WorkerInvStep
<1> QED
  BY <1>1, WorkerInvInit, PTL DEF Spec

(***************************************************************************)
(* Type correctness of the agent core: the job and event channels stay     *)
(* within their capacities and the status cache well formed.               *)
(***************************************************************************)
THEOREM WorkerTypeCorrect == Spec => []TypeOK
<1>1. WorkerInv => TypeOK
  BY DEF WorkerInv
<1> QED
  BY <1>1, WorkerInvHolds, PTL

(***************************************************************************)
(* At most one job starts after Pause, the one already past the gate.      *)
(***************************************************************************)
THEOREM PauseSwitchSound == Spec => []PauseAdmitsOne
<1>1. WorkerInv => PauseAdmitsOne
  BY DEF WorkerInv
<1> QED
  BY <1>1, WorkerInvHolds, PTL

(***************************************************************************)
(* A worker that is parked at the gate while syncing is enabled has been   *)
(* woken, whatever Pause and Resume did since.                             *)
(***************************************************************************)
THEOREM WakeupKept == Spec => []NoLostWakeup
<1>1. WorkerInv => NoLostWakeup
  BY DEF WorkerInv
<1> QED
  BY <1>1, WorkerInvHolds, PTL

(***************************************************************************)
(* The status cache shows "sync in progress" exactly while process runs.   *)
(***************************************************************************)
THEOREM StatusHonest == Spec => []SyncingWhileRunning
<1>1. WorkerInv => SyncingWhileRunning
  BY DEF WorkerInv
<1> QED
  BY <1>1, WorkerInvHolds, PTL

(***************************************************************************)
(* The watchdog never holds an entry for a job other than the one at hand. *)
(***************************************************************************)
THEOREM WatchdogTracksCurrent == Spec => []WatchOnlyCurrent
<1>1. WorkerInv => WatchOnlyCurrent
  <2> SUFFICES ASSUME WorkerInv
               PROVE  WatchOnlyCurrent
    OBVIOUS
  <2>1. NoJob \notin Jobs
    BY WorkerAssumption DEF WorkerAssumption
  <2>2. ASSUME NEW o \in watch
        PROVE  cur \in Jobs /\ o = OpID(cur)
    BY <2>2 DEF WorkerInv
  <2>3. watch \subseteq {OpID(j) : j \in {cur} \ {NoJob}}
    BY <2>1, <2>2
  <2> QED
    BY <2>3 DEF WorkerInv, WatchOnlyCurrent
<1> QED
  BY <1>1, WorkerInvHolds, PTL

=============================================================================
