------------------------------ MODULE AppState ------------------------------
(***************************************************************************)
(* internal/coordinator/state.go: the agent's status cache, read by the    *)
(* tray and by every IPC status request.  Each setter runs under the       *)
(* cache's mutex, so each is one operator on the record of its fields; the *)
(* fields that only count or echo (lock owner, last backup, monitor error  *)
(* counters, hints) are left out.  Texts are abstracted to what they are   *)
(* about.                                                                  *)
(***************************************************************************)
EXTENDS Integers

CONSTANTS
    JobNames,   \* values of currentJobName
    NoName      \* its empty string

ASSUME NoNameAssumption == NoName \notin JobNames

Colors == {"green", "blue", "orange", "red"}

Texts ==
    {"ready", "lightroom running", "sync paused", "syncing", "critical", "warning"}

AppStates ==
    [ lightroomRunning : BOOLEAN,
      syncInProgress   : BOOLEAN,
      syncPaused       : BOOLEAN,
      criticalError    : BOOLEAN,           \* criticalError # ""
      currentJobName   : JobNames \cup {NoName},
      restoreProgress  : {-1, 0, 100},      \* 100 stands for 1..100
      trayColor        : Colors,
      statusText       : Texts ]

NewAppState ==
    [ lightroomRunning |-> FALSE,
      syncInProgress   |-> FALSE,
      syncPaused       |-> FALSE,
      criticalError    |-> FALSE,
      currentJobName   |-> NoName,
      restoreProgress  |-> 0,
      trayColor        |-> "green",
      statusText       |-> "ready" ]

(***************************************************************************)
(* recomputeDerivedStatusLocked: colour and text from the flags, by        *)
(* priority.                                                               *)
(***************************************************************************)
DerivedText(s) ==
    IF s.criticalError THEN "critical"
    ELSE IF s.syncInProgress THEN "syncing"
    ELSE IF s.syncPaused THEN "sync paused"
    ELSE IF s.lightroomRunning THEN "lightroom running"
    ELSE "ready"

ColorOf(text) ==
    CASE text \in {"critical", "syncing"}     -> "red"
      [] text \in {"sync paused", "warning"}  -> "orange"
      [] text = "lightroom running"           -> "blue"
      [] text = "ready"                       -> "green"

Recompute(s) ==
    [s EXCEPT !.trayColor  = ColorOf(DerivedText(s)),
              !.statusText = DerivedText(s)]

SetLightroomRunning(s, v) == Recompute([s EXCEPT !.lightroomRunning = v])
SetSyncing(s, v)          == Recompute([s EXCEPT !.syncInProgress = v])
SetSyncPaused(s, v)       == Recompute([s EXCEPT !.syncPaused = v])
SetError(s)               == Recompute([s EXCEPT !.criticalError = TRUE])
ClearError(s)             == Recompute([s EXCEPT !.criticalError = FALSE])
RefreshDerivedStatus(s)   == Recompute(s)

(* These three leave colour and text, or flags, as they are.               *)
SetWarning(s) == [s EXCEPT !.trayColor = "orange", !.statusText = "warning"]
SetRestoreProgress(s, p)  == [s EXCEPT !.restoreProgress = p]
SetCurrentJobName(s, n)   == [s EXCEPT !.currentJobName = n]

=============================================================================
