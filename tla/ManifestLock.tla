---------------------------- MODULE ManifestLock ----------------------------
(***************************************************************************)
(* ManifestManager.WriteManifest (internal/sync/manifest.go): the protocol *)
(* by which the agents of several machines take turns at overwriting       *)
(* sync_manifest.json, with an exclusively created .manifest_lock file as  *)
(* the lock, a caller deadline (ctx, 4s in cmd/agent/main.go), a retry     *)
(* ticker (500ms), and a stale-lock timeout (10s).                         *)
(*                                                                         *)
(* A writer is one goroutine running OnLocalBackupCreated; Host says on    *)
(* which machine it runs, and a crash takes every writer of the machine.   *)
(* One tick of age[w] is one period of the retry ticker.  The manifest a   *)
(* writer writes is identified with the writer.                            *)
(***************************************************************************)
EXTENDS Integers

CONSTANTS
    Writers,       \* goroutines that call WriteManifest
    Machines,      \* hosts of those goroutines
    Host,          \* Host[w]: the machine writer w runs on
    CtxTimeout,    \* ticks until the caller's ctx is done
    StaleTimeout,  \* ticks until the "stale lock" timer fires
    SlowOpen,      \* can an open of the lock file outlast a ticker period?
    MaxFaults,     \* bound on I/O errors and crashes in one behaviour
    NoManifest,    \* sync_manifest.json does not exist
    Torn           \* sync_manifest.json is empty, partial or overlaid

ASSUME ConstantsAssumption ==
    /\ Host \in [Writers -> Machines]
    /\ CtxTimeout \in Nat
    /\ StaleTimeout \in Nat
    /\ SlowOpen \in BOOLEAN
    /\ MaxFaults \in Nat
    /\ NoManifest \notin Writers
    /\ Torn \notin Writers
    /\ NoManifest # Torn

VARIABLES
    pc,         \* pc[w]: where writer w is in WriteManifest
    age,        \* age[w]: ticks since w's call began (timers and ctx)
    ticked,     \* ticked[w]: the ticker's channel holds an unread tick
    lockFile,   \* does .manifest_lock exist
    manifest,   \* content of sync_manifest.json
    faults      \* I/O errors and crashes so far

vars == <<pc, age, ticked, lockFile, manifest, faults>>

PCs == {"idle", "open", "select", "reopen", "truncate", "fill", "unlock"}

(***************************************************************************)
(* The writer believes it owns the lock from the successful open to the    *)
(* deferred os.Remove.                                                     *)
(***************************************************************************)
Holding(w) == pc[w] \in {"truncate", "fill", "unlock"}

(* From the later of the two timers on, ages look the same.                *)
Horizon == IF CtxTimeout < StaleTimeout THEN StaleTimeout ELSE CtxTimeout

TypeOK ==
    /\ pc \in [Writers -> PCs]
    /\ age \in [Writers -> 0..Horizon]
    /\ ticked \in [Writers -> BOOLEAN]
    /\ lockFile \in BOOLEAN
    /\ manifest \in Writers \cup {NoManifest, Torn}
    /\ faults \in 0..MaxFaults

Init ==
    /\ pc = [w \in Writers |-> "idle"]
    /\ age = [w \in Writers |-> 0]
    /\ ticked = [w \in Writers |-> FALSE]
    /\ lockFile = FALSE
    /\ manifest = NoManifest
    /\ faults = 0

(* The environment fails once more: a share error or a machine going down. *)
Fault ==
    /\ faults < MaxFaults
    /\ faults' = faults + 1

-----------------------------------------------------------------------------
(* The call.  A ctx that is already done and a failing MkdirAll return     *)
(* before anything is written, and are a call that never starts.           *)
Begin(w) ==
    /\ pc[w] = "idle"
    /\ pc' = [pc EXCEPT ![w] = "open"]
    /\ age' = [age EXCEPT ![w] = 0]
    /\ ticked' = [ticked EXCEPT ![w] = FALSE]
    /\ UNCHANGED <<lockFile, manifest, faults>>

(* Mutant of OpenLock: without O_EXCL.                                     *)
OpenLockShared(w) ==
    /\ pc[w] = "open"
    /\ lockFile' = TRUE
    /\ pc' = [pc EXCEPT ![w] = "truncate"]
    /\ UNCHANGED <<age, ticked, manifest, faults>>

(* os.OpenFile(lockPath, O_CREATE|O_EXCL|O_WRONLY) succeeds ...            *)
OpenLock(w) ==
    /\ pc[w] = "open"
    /\ ~lockFile
    /\ lockFile' = TRUE
    /\ pc' = [pc EXCEPT ![w] = "truncate"]
    /\ UNCHANGED <<age, ticked, manifest, faults>>

(* ... finds the file there and goes to the select ...                     *)
LockExists(w) ==
    /\ pc[w] = "open"
    /\ lockFile
    /\ pc' = [pc EXCEPT ![w] = "select"]
    /\ UNCHANGED <<age, ticked, lockFile, manifest, faults>>

(* ... or fails otherwise (share unreachable) and the call returns.        *)
OpenError(w) ==
    /\ pc[w] = "open"
    /\ pc' = [pc EXCEPT ![w] = "idle"]
    /\ Fault
    /\ UNCHANGED <<age, ticked, lockFile, manifest>>

(* Mutant of CtxDone: who gives up removes the lock file.                  *)
CtxDoneRemoves(w) ==
    /\ pc[w] = "select"
    /\ age[w] >= CtxTimeout
    /\ lockFile' = FALSE
    /\ pc' = [pc EXCEPT ![w] = "idle"]
    /\ UNCHANGED <<age, ticked, manifest, faults>>

(* Mutant of CtxDone: the deadline itself is missed.                       *)
CtxDoneLate(w) ==
    /\ pc[w] = "select"
    /\ age[w] > CtxTimeout
    /\ pc' = [pc EXCEPT ![w] = "idle"]
    /\ UNCHANGED <<age, ticked, lockFile, manifest, faults>>

(* The three branches of the select.  Go picks any branch that is ready.   *)
CtxDone(w) ==
    /\ pc[w] = "select"
    /\ age[w] >= CtxTimeout
    /\ pc' = [pc EXCEPT ![w] = "idle"]
    /\ UNCHANGED <<age, ticked, lockFile, manifest, faults>>

(* Mutant of StaleTimer: gives up instead of breaking the lock.            *)
StaleTimerGivesUp(w) ==
    /\ pc[w] = "select"
    /\ age[w] >= StaleTimeout
    /\ pc' = [pc EXCEPT ![w] = "idle"]
    /\ UNCHANGED <<age, ticked, lockFile, manifest, faults>>

StaleTimer(w) ==
    /\ pc[w] = "select"
    /\ age[w] >= StaleTimeout
    /\ lockFile' = FALSE
    /\ pc' = [pc EXCEPT ![w] = "reopen"]
    /\ UNCHANGED <<age, ticked, manifest, faults>>

Retry(w) ==
    /\ pc[w] = "select"
    /\ ticked[w]
    /\ ticked' = [ticked EXCEPT ![w] = FALSE]
    /\ pc' = [pc EXCEPT ![w] = "open"]
    /\ UNCHANGED <<age, lockFile, manifest, faults>>

(* The single second attempt after the stale lock was removed: it wins, or *)
(* somebody else's new lock file makes the call return an error.           *)
Reopen(w) ==
    /\ pc[w] = "reopen"
    /\ lockFile' = TRUE
    /\ pc' = [pc EXCEPT ![w] = IF lockFile THEN "idle" ELSE "truncate"]
    /\ UNCHANGED <<age, ticked, manifest, faults>>

(* os.WriteFile opens with O_TRUNC, then writes the bytes.                 *)
Truncate(w) ==
    /\ pc[w] = "truncate"
    /\ manifest' = Torn
    /\ pc' = [pc EXCEPT ![w] = "fill"]
    /\ UNCHANGED <<age, ticked, lockFile, faults>>

(* The bytes land in the file.  Over another writer's bytes they leave     *)
(* either this manifest or a mixture of both.                              *)
Fill(w) ==
    /\ pc[w] = "fill"
    /\ manifest' \in IF manifest = Torn THEN {w} ELSE {w, Torn}
    /\ pc' = [pc EXCEPT ![w] = "unlock"]
    /\ UNCHANGED <<age, ticked, lockFile, faults>>

(* os.WriteFile fails before or after truncating (share lost, disk full):  *)
(* the error is returned, and the deferred os.Remove runs all the same.    *)
WriteError(w) ==
    /\ pc[w] \in {"truncate", "fill"}
    /\ lockFile' = FALSE
    /\ pc' = [pc EXCEPT ![w] = "idle"]
    /\ Fault
    /\ UNCHANGED <<age, ticked, manifest>>

(* defer os.Remove(lockPath), whoever created the file that is there now.  *)
Unlock(w) ==
    /\ pc[w] = "unlock"
    /\ lockFile' = FALSE
    /\ pc' = [pc EXCEPT ![w] = "idle"]
    /\ UNCHANGED <<age, ticked, manifest, faults>>

-----------------------------------------------------------------------------
(* Mutant of Tick: the wait outlives both timers.                          *)
TickOn(w) ==
    /\ pc[w] = "select"
    /\ age' = [age EXCEPT ![w] = age[w] + 1]
    /\ ticked' = [ticked EXCEPT ![w] = TRUE]
    /\ UNCHANGED <<pc, lockFile, manifest, faults>>

(***************************************************************************)
(* A ticker period passes for w.  A goroutine in the select whose ctx is   *)
(* done does not let time pass: it is woken.  One inside os.OpenFile does  *)
(* only when the share is slow, and may come back with both timers fired.  *)
(***************************************************************************)
Tick(w) ==
    /\ \/ pc[w] = "select" /\ age[w] < CtxTimeout
       \/ pc[w] = "open" /\ SlowOpen
    /\ age[w] < Horizon
    /\ age' = [age EXCEPT ![w] = age[w] + 1]
    /\ ticked' = [ticked EXCEPT ![w] = TRUE]
    /\ UNCHANGED <<pc, lockFile, manifest, faults>>

(* Machine m goes down and comes back: its goroutines are gone, the lock   *)
(* file and whatever was written of the manifest stay on disk.             *)
Crash(m) ==
    /\ \E w \in Writers : Host[w] = m /\ pc[w] # "idle"
    /\ pc' = [w \in Writers |-> IF Host[w] = m THEN "idle" ELSE pc[w]]
    /\ Fault
    /\ UNCHANGED <<age, ticked, lockFile, manifest>>

Step(w) ==
    \/ OpenLock(w) \/ LockExists(w) \/ OpenError(w)
    \/ CtxDone(w) \/ StaleTimer(w) \/ Retry(w) \/ Reopen(w)
    \/ Truncate(w) \/ Fill(w) \/ WriteError(w) \/ Unlock(w)

Next ==
    \/ \E w \in Writers : Begin(w) \/ Step(w) \/ Tick(w)
    \/ \E m \in Machines : Crash(m)

Spec == Init /\ [][Next]_vars

(***************************************************************************)
(* A started call runs: the goroutine is scheduled, its system calls       *)
(* return, time passes.                                                    *)
(***************************************************************************)
CallFairness ==
    \A w \in Writers : WF_vars(Step(w)) /\ WF_vars(Tick(w))

LiveSpec == Spec /\ CallFairness

(***************************************************************************)
(* In addition every machine goes on making backups, and a select does not *)
(* pass over the stale timer for ever: of several ready branches Go picks  *)
(* one at random.  A single call may still leave by its ctx.               *)
(***************************************************************************)
BackupFairness ==
    /\ CallFairness
    /\ \A w \in Writers : WF_vars(Begin(w)) /\ SF_vars(StaleTimer(w))

LiveBackupSpec == Spec /\ BackupFairness

-----------------------------------------------------------------------------
(* Properties *)

(***************************************************************************)
(* At most one writer is between a successful lock-file open and its       *)
(* deferred remove.                                                        *)
(***************************************************************************)
MutualExclusion ==
    \A v, w \in Writers : Holding(v) /\ Holding(w) => v = w

(***************************************************************************)
(* Nobody removes the lock file of a writer that is still writing: neither *)
(* a contender that gives up, nor a failing one, nor a restarted machine.  *)
(***************************************************************************)
HolderKeepsLockFile ==
    \A w \in Writers : Holding(w) => lockFile

(***************************************************************************)
(* When os.WriteFile has succeeded the file holds exactly that writer's    *)
(* manifest until the writer lets go of the lock: no other machine's write *)
(* is mixed into it.                                                       *)
(***************************************************************************)
WrittenIntact ==
    \A w \in Writers : pc[w] = "unlock" => manifest = w

(***************************************************************************)
(* The manifest is replaced, or torn, only by a writer that holds the lock *)
(* file; and what a reader may see change is never another holder's work.  *)
(***************************************************************************)
OnlyHolderWrites ==
    [][ manifest' # manifest =>
          /\ lockFile
          /\ \E w \in Writers : /\ Holding(w)
                                /\ \A v \in Writers \ {w} : ~Holding(v)
                                /\ manifest' \in {w, Torn} ]_vars

(***************************************************************************)
(* WriteManifest always returns, whatever the other machines do: a lock    *)
(* that is never released costs the caller its deadline and no more.       *)
(***************************************************************************)
CallReturns ==
    \A w \in Writers : pc[w] # "idle" ~> pc[w] = "idle"

(***************************************************************************)
(* manifest.go:115, "Assume stale lock if someone crashed, remove and try  *)
(* to acquire once more": a lock file that no live writer owns does not    *)
(* stay for ever while machines go on making backups, if their calls may   *)
(* last as long as StaleTimeout.                                           *)
(***************************************************************************)
StaleLockBroken ==
    (lockFile /\ \A w \in Writers : ~Holding(w))
        ~> (~lockFile \/ \E w \in Writers : Holding(w))

(***************************************************************************)
(* The inductive invariant behind the safety properties.  It needs that    *)
(* the stale-lock branch is out of reach: a writer in the select never     *)
(* gets older than CtxTimeout, so its stale timer cannot have fired.       *)
(***************************************************************************)
StaleBreakUnreachable == ~SlowOpen /\ CtxTimeout < StaleTimeout

LockInv ==
    /\ TypeOK
    /\ \A w \in Writers : age[w] <= CtxTimeout
    /\ \A w \in Writers : pc[w] # "reopen"
    /\ \A w \in Writers : pc[w] = "fill" => manifest = Torn
    /\ MutualExclusion
    /\ HolderKeepsLockFile
    /\ WrittenIntact

-----------------------------------------------------------------------------
(***************************************************************************)
(* The protocol implements the mutex of ManifestMutex.  The abstract       *)
(* holder is the writer between open and remove; a lock file without one   *)
(* was orphaned by a crash.                                                *)
(***************************************************************************)
LockHolder ==
    IF \E w \in Writers : Holding(w) THEN CHOOSE w \in Writers : Holding(w)
    ELSE IF lockFile THEN "orphaned" ELSE "free"

Mutex == INSTANCE ManifestMutex WITH holder <- LockHolder, content <- manifest

(***************************************************************************)
(* Every step of the lock-file protocol is a step of the one-holder mutex, *)
(* or leaves it alone; an orphaned lock is not granted to a second writer. *)
(***************************************************************************)
ImplementsMutex == Mutex!MSpec

=============================================================================
