---------------------------- MODULE PresenceLock ----------------------------
(***************************************************************************)
(* lightroom_lock.txt beside a catalog that machines share, as the agents  *)
(* write it (internal/monitor/lock.go): ONLINE by the heartbeat of each    *)
(* (internal/monitor/heartbeat.go), OFFLINE by the heartbeat when its      *)
(* context is cancelled and, at the same time, by main on its way out.     *)
(* A write fills a temporary file and renames it.                          *)
(*                                                                         *)
(* Covered: writers of several machines and the two of one agent at once,  *)
(* files that cannot be written or renamed, a share so slow that the time  *)
(* limits of the shutdown run out, agents that are killed and started      *)
(* again, a restore that deletes the lock file.  Not covered: the lock in  *)
(* the status.  No part of the code reads the lock file.                   *)
(***************************************************************************)
EXTENDS Integers

CONSTANTS
    Machines,
    MaxRenames,   \* attempts of renameWithRetry
    MaxRetries,   \* attempts of writeWithRetry
    Upsets,       \* sets of what may happen in a behaviour
    MaxFaults,    \* bound on failures
    MaxStarts,    \* MaxStarts[m]: bound on starts of m's agent
    NoLock, Torn

Writers == {"beat", "main"}

Lines == [machine : Machines, status : {"ONLINE", "OFFLINE"}]

ASSUME PresenceAssumption ==
    /\ MaxRenames \in Nat \ {0} /\ MaxRetries \in Nat \ {0}
    /\ Upsets \subseteq SUBSET {"fault", "stall", "kill", "restore"}
    /\ MaxFaults \in Nat /\ MaxStarts \in [Machines -> Nat]
    /\ NoLock # Torn /\ {NoLock, Torn} \cap Lines = {}

VARIABLES
    lock,     \* lightroom_lock.txt
    tmp,      \* the temporary files, by name
    agent,    \* agent[m]: "up", "stopping" while main writes, "waiting" for
              \* the heartbeat, "off", or "dead"
    writer,   \* writer[m][w]: the WriteLock of the heartbeat and of main
    tries,    \* tries[m] of writeWithRetry
    upsets, faults, starts

files == <<lock, tmp>>
bounds == <<upsets, faults, starts>>
vars == <<files, agent, writer, tries, bounds>>

(* The session of a LockManager stands for its machine: those before are   *)
(* gone.  The epoch counts the writes of a session; all that matters is    *)
(* that the two writes an agent has in progress differ in it.              *)
Epochs == {0, 1}
Names == Machines \X Epochs

\* The name without the session.
NameOfEpoch(m, e) == <<CHOOSE n \in Machines : TRUE, e>>

Name(m, e) == <<m, e>>

(* A writer is idle; has opened, then filled its temporary file; is past   *)
(* the look at its context, in the rename; waits for its next attempt; and *)
(* has ended, with its OFFLINE.                                            *)
Steps == {"idle", "opened", "filled", "rename", "failed", "ended"}
NoWrite == [at |-> "idle", status |-> "ONLINE", epoch |-> 0, renames |-> 0]

TypeOK ==
    \* Whoever writes at once: the lock file is a whole line of a machine.
    /\ lock \in Lines \cup {NoLock}
    /\ tmp \in [Names -> Lines \cup {NoLock, Torn}]
    /\ agent \in [Machines -> {"up", "stopping", "waiting", "off", "dead"}]
    /\ writer \in [Machines -> [Writers ->
                    [at : Steps, status : {"ONLINE", "OFFLINE"},
                     epoch : Epochs, renames : 0..MaxRenames]]]
    /\ tries \in [Machines -> 0..MaxRetries]
    /\ upsets \in Upsets
    /\ faults \in 0..MaxFaults /\ starts \in [Machines -> Nat]

Init ==
    /\ lock = NoLock
    /\ tmp = [n \in Names |-> NoLock]
    /\ agent = [m \in Machines |-> "off"]
    /\ writer = [m \in Machines |-> [w \in Writers |-> NoWrite]]
    /\ tries = [m \in Machines |-> 0]
    /\ upsets \in Upsets
    /\ faults = 0 /\ starts = [m \in Machines |-> 0]

Allowed(what) == what \in upsets

Fault(what) ==
    /\ Allowed(what) /\ faults < MaxFaults
    /\ faults' = faults + 1
    /\ UNCHANGED <<upsets, starts>>

-----------------------------------------------------------------------------
(* WriteLock.                                                              *)

At(m, w, step) == writer[m][w].at = step
Move(m, w, step) == writer' = [writer EXCEPT ![m][w].at = step]
TmpOf(m, w) == Name(m, writer[m][w].epoch)
Line(m, w) == [machine |-> m, status |-> writer[m][w].status]

(* ONLINE goes with the context of the agent, OFFLINE with one of its own, *)
(* whose two seconds are over only if the share is slow.                   *)
MayGoOn(m, w) == writer[m][w].status = "OFFLINE" \/ agent[m] = "up"
MayCancel(m, w) ==
    IF writer[m][w].status = "OFFLINE" THEN Allowed("stall")
    ELSE agent[m] # "up"

(* A new epoch, and the temporary file is created.                         *)
Open(m, w, status) ==
    \E e \in Epochs :
        /\ e # writer[m][CHOOSE o \in Writers : o # w].epoch
        /\ writer' = [writer EXCEPT ![m][w] =
                        [at |-> "opened", status |-> status, epoch |-> e,
                         renames |-> 0]]
        /\ tmp' = [tmp EXCEPT ![Name(m, e)] = Torn]

(* Where a writer is when its write is over, written or cancelled: the     *)
(* heartbeat at its select, or everything has been said.                   *)
Return(m, w) ==
    /\ writer' = [writer EXCEPT ![m][w] =
                    [NoWrite EXCEPT !.at = IF writer[m][w].status = "OFFLINE"
                                           THEN "ended" ELSE "idle"]]
    /\ tries' = [tries EXCEPT ![m] = IF w = "beat" THEN 0 ELSE @]

\* A heartbeat that could not be written is the last one.
LeaveLoop(m, w) ==
    /\ Move(m, w, "ended")
    /\ UNCHANGED tries

(* main does not care; the heartbeat logs it and goes on.                  *)
GiveUp(m, w) == Return(m, w)

Fail(m, w) ==
    IF w = "main" \/ tries[m] + 1 = MaxRetries THEN GiveUp(m, w)
    ELSE /\ Move(m, w, "failed")
         /\ tries' = [tries EXCEPT ![m] = @ + 1]

Remove(m, w) == tmp' = [tmp EXCEPT ![TmpOf(m, w)] = NoLock]

(* A write that fails leaves its file.                                     *)
FillTmp(m, w) ==
    /\ At(m, w, "opened")
    /\ \/ /\ tmp' = [tmp EXCEPT ![TmpOf(m, w)] = Line(m, w)]
          /\ Move(m, w, "filled")
          /\ UNCHANGED <<tries, bounds>>
       \/ Fault("fault") /\ Fail(m, w) /\ UNCHANGED tmp
    /\ UNCHANGED <<lock, agent>>

(* renameWithRetry looks at its context before every attempt.              *)
LookBeforeRename(m, w) ==
    /\ At(m, w, "filled")
    /\ \/ MayGoOn(m, w) /\ Move(m, w, "rename") /\ UNCHANGED <<tmp, tries>>
       \/ MayCancel(m, w) /\ Remove(m, w) /\ Return(m, w)
    /\ UNCHANGED <<lock, agent, bounds>>

RenameFiles(m, w) ==
    IF tmp[TmpOf(m, w)] = NoLock THEN UNCHANGED files
    ELSE lock' = tmp[TmpOf(m, w)] /\ Remove(m, w)

(* The rename, which may take its time, or another of its attempts.        *)
Rename(m, w) ==
    /\ At(m, w, "rename")
    /\ \/ RenameFiles(m, w) /\ Return(m, w) /\ UNCHANGED bounds
       \/ /\ Fault("fault")
          /\ writer[m][w].renames + 1 < MaxRenames
          /\ writer' = [writer EXCEPT ![m][w].renames = @ + 1,
                                      ![m][w].at = "filled"]
          /\ UNCHANGED <<files, tries>>
       \/ /\ Fault("fault")
          /\ writer[m][w].renames + 1 = MaxRenames
          /\ Remove(m, w) /\ Fail(m, w)
          /\ UNCHANGED lock
    /\ UNCHANGED agent

WriteStep(m, w) == FillTmp(m, w) \/ LookBeforeRename(m, w) \/ Rename(m, w)

-----------------------------------------------------------------------------
(* The heartbeat.                                                          *)

\* The loop ends with its context, and main has said OFFLINE.
BeatWhileUp(m) ==
    /\ At(m, "beat", "idle")
    /\ \/ agent[m] = "up" /\ Open(m, "beat", "ONLINE")
       \/ /\ agent[m] \in {"stopping", "waiting"}
          /\ Move(m, "beat", "ended")
          /\ UNCHANGED tmp
    /\ UNCHANGED <<lock, agent, tries, bounds>>

(* A tick, or the end of the context; on a slow share the OFFLINE may not  *)
(* even begin.                                                             *)
Beat(m) ==
    /\ At(m, "beat", "idle")
    /\ \/ agent[m] = "up" /\ Open(m, "beat", "ONLINE")
       \/ /\ agent[m] \in {"stopping", "waiting"}
          /\ \/ Open(m, "beat", "OFFLINE")
             \/ Allowed("stall") /\ Move(m, "beat", "ended") /\ UNCHANGED tmp
    /\ UNCHANGED <<lock, agent, tries, bounds>>

(* The delay before the next attempt ends with the context.                *)
Retry(m) ==
    /\ At(m, "beat", "failed")
    /\ \/ /\ MayGoOn(m, "beat")
          /\ Open(m, "beat", writer[m]["beat"].status)
          /\ UNCHANGED tries
       \/ MayCancel(m, "beat") /\ Return(m, "beat") /\ UNCHANGED tmp
    /\ UNCHANGED <<lock, agent, bounds>>

Heartbeat(m) ==
    Beat(m) \/ Retry(m) \/ WriteStep(m, "beat")

-----------------------------------------------------------------------------
(* The agent.                                                              *)

Start(m) ==
    /\ agent[m] \in {"off", "dead"}
    /\ starts[m] < MaxStarts[m]
    /\ starts' = [starts EXCEPT ![m] = @ + 1]
    /\ agent' = [agent EXCEPT ![m] = "up"]
    /\ UNCHANGED <<files, writer, tries, upsets, faults>>

(* cancel, and main begins its own OFFLINE.                                *)
Stop(m) ==
    /\ agent[m] = "up"
    /\ agent' = [agent EXCEPT ![m] = "stopping"]
    /\ Open(m, "main", "OFFLINE")
    /\ UNCHANGED <<lock, tries, bounds>>

Wait(m) ==
    /\ agent[m] = "stopping"
    /\ At(m, "main", "ended")
    /\ agent' = [agent EXCEPT ![m] = "waiting"]
    /\ UNCHANGED <<files, writer, tries, bounds>>

(* With the process go its writes; a rename on its way may still happen.   *)
Gone(m, how) ==
    /\ agent' = [agent EXCEPT ![m] = how]
    /\ writer' = [writer EXCEPT ![m] = [w \in Writers |-> NoWrite]]
    /\ tries' = [tries EXCEPT ![m] = 0]
    /\ \/ UNCHANGED files
       \/ \E w \in Writers : At(m, w, "rename") /\ RenameFiles(m, w)

(* waitGroupWithTimeout: the heartbeat is over, or five seconds are.       *)
Exit(m) ==
    /\ agent[m] = "waiting"
    /\ At(m, "beat", "ended") \/ Allowed("stall")
    /\ Gone(m, "off")
    /\ UNCHANGED bounds

Main(m) == WriteStep(m, "main") \/ Wait(m) \/ Exit(m)

Kill(m) ==
    /\ agent[m] \in {"up", "stopping", "waiting"}
    /\ Fault("kill")
    /\ Gone(m, "dead")

(* A restore cleans lightroom_lock.txt away with the old catalog.          *)
CleanedUp ==
    /\ lock # NoLock
    /\ Fault("restore")
    /\ lock' = NoLock
    /\ UNCHANGED <<tmp, agent, writer, tries>>

Next ==
    \/ \E m \in Machines :
         Heartbeat(m) \/ Start(m) \/ Stop(m) \/ Main(m) \/ Kill(m)
    \/ CleanedUp

Spec == Init /\ [][Next]_vars

(* System calls come back and the scheduler runs both writers; nobody has  *)
(* to start or stop an agent.                                              *)
LiveSpec ==
    /\ Spec
    /\ \A m \in Machines : WF_vars(Heartbeat(m)) /\ WF_vars(Main(m))

-----------------------------------------------------------------------------
(* Properties.                                                             *)

(* An agent that ends in order is not left ONLINE: an ONLINE whose rename  *)
(* is on its way when the context is cancelled may come after the OFFLINE  *)
(* of main, but never after that of the heartbeat (heartbeat.go:75,        *)
(* main.go:1011).  Holds while the share is not so slow that the limits    *)
(* of the shutdown run out, for fewer failures than the heartbeat retries. *)
OfflineLast ==
    ~Allowed("stall") /\ faults < MaxRetries =>
        \A m \in Machines :
            agent[m] = "off" => lock # [machine |-> m, status |-> "ONLINE"]

(* Whatever fails meanwhile, an agent that stays up writes its ONLINE      *)
(* again and again, and one that is asked to stop ends (Run,               *)
(* waitGroupWithTimeout).                                                  *)
KeepsBeating ==
    \A m \in Machines :
        []<>(\/ agent[m] \in {"off", "dead"}
             \/ /\ agent[m] = "up"
                /\ lock = [machine |-> m, status |-> "ONLINE"])
=============================================================================
