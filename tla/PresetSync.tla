----------------------------- MODULE PresetSync -----------------------------
(***************************************************************************)
(* Two-way synchronisation of Lightroom presets between the machines and   *)
(* the Presets folder of the share (internal/sync/preset_sync.go), as the  *)
(* preset job of the agent runs it: one cycle at a time on a machine, the  *)
(* cycles of the machines without any lock between them.                   *)
(*                                                                         *)
(* A file is its text, its modification time and, for a watermark          *)
(* template, the place its imagePath points to.  No two edits are made at  *)
(* the same time, so the time of the edit stands for the text; a file that *)
(* has just been renamed into place has the current time until os.Chtimes  *)
(* gives it the time of the edit.                                          *)
(*                                                                         *)
(* Covered: users who save and delete presets at any moment; cycles that   *)
(* overlap, each between any two calls of another on the share, with the   *)
(* temporary files they share; files that cannot be copied, removed, read  *)
(* or given their time; an agent that stops anywhere; state and tombstone  *)
(* files torn or unreadable.  Not covered: skewed clocks, versions of one  *)
(* logo and its time, logos that are moved away, .json files (the local    *)
(* scan skips them), two machines that write into one temporary file at    *)
(* the same moment and mix or tear their texts.                            *)
(***************************************************************************)
EXTENDS Integers, FiniteSets

CONSTANTS
    Machines,
    Presets,     \* relative paths below the preset folders
    Watermarks,  \* the presets that are watermark templates
    Tolerance,   \* MTimeTolerance
    Share,       \* the share as a place of a logo
    Nowhere,     \* imagePath of a file that is no watermark template
    NoPreset,
    MaxNow,      \* bound on the clock, hence on what the users do
    Upsets,      \* the sets of things that may upset the cycles, see below
    MaxFaults,   \* bound on failures and crashes
    MaxOverlaps, \* bound on cycles that start while another runs
    MaxSelects   \* bound on changes of the selected categories

ASSUME PresetAssumption ==
    /\ Machines # {}
    /\ Watermarks \subseteq Presets
    /\ Tolerance \in Nat
    /\ Share \notin Machines
    /\ Nowhere \notin Machines \cup {Share}
    /\ NoPreset \notin Presets
    /\ Upsets \subseteq SUBSET {"fault", "overlap", "edit", "select"}
    /\ MaxNow \in Nat /\ MaxFaults \in Nat
    /\ MaxOverlaps \in Nat /\ MaxSelects \in Nat

VARIABLES
    net,        \* net[p]: the preset on the share
    loc,        \* loc[m][p]: the preset on machine m
    tmp,        \* tmp[p]: the file on the share that is to replace p
    logos,      \* logos[p]: the places that have the logo of p
    logoTmp,    \* the presets whose logo on the share has such a file
    stateFile,  \* stateFile[m][p]: preset_state.json of m
    tombFile,   \* .sync_deleted.json on the share
    selected,   \* selected[m]: the presets in the categories m synchronises
    cycle,      \* cycle[m]: the cycle m runs
    now         \* the clock

(* History and bounds.                                                     *)
VARIABLES
    shared,     \* shared[p]: texts of p that have been on the share
    missing,    \* the presets whose logo a replacement has removed from
                \* the share and not put back
    buried,     \* buried[p]: the latest time a deletion of p was recorded
    upsets,     \* what may happen in this behaviour, see Upsets
    faults, overlaps, selects

bounds == <<faults, overlaps, selects>>
share == <<net, tmp, logos, logoTmp, missing, shared>>
records == <<stateFile, tombFile, selected, buried, upsets>>
vars == <<share, loc, records, cycle, now, bounds>>

Places == Machines \cup {Share, Nowhere}

(* What can upset a cycle: a failure or a crash ("fault"), the cycle of    *)
(* another machine ("overlap"), a user who saves or deletes presets while  *)
(* a cycle runs on her machine ("edit") or selects other categories        *)
(* ("select").  What a behaviour allows of them is chosen in the beginning.*)
Allowed(what) == what \in upsets

(* Time 0 stands for "not there", in files, state and tombstones alike.    *)
Files == [text : Nat, time : Nat, logo : Places]
NoFile == [text |-> 0, time |-> 0, logo |-> Nowhere]
Here(f) == f.time # 0
NoTimes == [p \in Presets |-> 0]

PCs == {"idle", "tombstones", "pullA", "pullB", "fetched", "placed", "pulled",
        "pushA", "pushB", "logo", "logoWritten", "logoRemoved", "copy",
        "written", "removed", "renamed", "rewrite", "rewritten", "pushed",
        "commit", "bury"}

Cycles ==
    [pc : PCs,
     todo : SUBSET Presets,            \* what the loop has still to visit
     at : Presets \cup {NoPreset},     \* the preset being copied
     hand : Files,                     \* what was read of it
     seen : [Presets -> Nat],          \* networkFiles, then localFiles
     newState : [Presets -> Nat],
     tomb : [Presets -> Nat],          \* tombstone
     dirty : BOOLEAN,                  \* tombstoneModified
     failed : BOOLEAN]                 \* cycleErr # nil

NoCycle ==
    [pc |-> "idle", todo |-> {}, at |-> NoPreset, hand |-> NoFile,
     seen |-> NoTimes, newState |-> NoTimes, tomb |-> NoTimes,
     dirty |-> FALSE, failed |-> FALSE]

TypeOK ==
    /\ net \in [Presets -> Files] /\ tmp \in [Presets -> Files]
    /\ loc \in [Machines -> [Presets -> Files]]
    /\ logos \in [Presets -> SUBSET (Machines \cup {Share})]
    /\ logoTmp \subseteq Presets /\ missing \subseteq Presets
    /\ stateFile \in [Machines -> [Presets -> Nat]]
    /\ tombFile \in [Presets -> Nat]
    /\ selected \in [Machines -> SUBSET Presets]
    /\ cycle \in [Machines -> Cycles]
    /\ now \in 0..MaxNow
    /\ shared \in [Presets -> SUBSET Nat]
    /\ buried \in [Presets -> Nat]
    /\ upsets \in Upsets
    /\ faults \in 0..MaxFaults /\ overlaps \in 0..MaxOverlaps
    /\ selects \in 0..MaxSelects

Init ==
    /\ net = [p \in Presets |-> NoFile] /\ tmp = net
    /\ loc = [m \in Machines |-> [p \in Presets |-> NoFile]]
    /\ logos = [p \in Presets |-> {}] /\ logoTmp = {} /\ missing = {}
    /\ stateFile = [m \in Machines |-> NoTimes]
    /\ tombFile = NoTimes
    /\ selected = [m \in Machines |-> Presets]
    /\ cycle = [m \in Machines |-> NoCycle]
    /\ now = 0
    /\ shared = [p \in Presets |-> {}]
    /\ buried = NoTimes
    /\ upsets \in Upsets
    /\ faults = 0 /\ overlaps = 0 /\ selects = 0

-----------------------------------------------------------------------------
(* Users.  A save takes the clock further, by a time that is within the    *)
(* tolerance or beyond it; so does time itself.                            *)

AtWork(m) == cycle[m].pc # "idle"

Later == \E d \in {1, Tolerance + 1} : now' = now + d /\ now' <= MaxNow

TimePasses == Later /\ UNCHANGED <<share, loc, records, cycle, bounds>>

UserAct(m) ==
    /\ AtWork(m) => Allowed("edit")
    /\ UNCHANGED <<net, tmp, logoTmp, missing, shared, records, cycle, bounds>>

(* Lightroom saves a preset; a new watermark template names a logo on this *)
(* machine.                                                                *)
SavePreset(m, p) ==
    /\ UserAct(m)
    /\ Later
    /\ LET logo == IF p \notin Watermarks THEN Nowhere
                   ELSE IF Here(loc[m][p]) THEN loc[m][p].logo ELSE m
       IN  /\ loc' = [loc EXCEPT ![m][p] =
                         [text |-> now', time |-> now', logo |-> logo]]
           /\ logos' = IF logo = m THEN [logos EXCEPT ![p] = @ \cup {m}]
                                  ELSE logos

DeletePreset(m, p) ==
    /\ UserAct(m)
    /\ Here(loc[m][p])
    /\ loc' = [loc EXCEPT ![m][p] = NoFile]
    /\ UNCHANGED <<logos, now>>

(* DiscoverPresetCategories, ResolvePresetCategories: which categories a   *)
(* cycle visits follows the folders found and the configuration.           *)
SelectCategories(m) ==
    /\ ~AtWork(m)
    /\ Allowed("select")
    /\ selects < MaxSelects
    /\ selects' = selects + 1
    /\ \E S \in SUBSET Presets : selected' = [selected EXCEPT ![m] = S]
    /\ UNCHANGED <<share, loc, stateFile, tombFile, buried, upsets, cycle, now,
                   faults, overlaps>>

-----------------------------------------------------------------------------
(* A cycle of machine m: PresetSyncManager.Sync                            *)

Times(files, S) == [p \in Presets |-> IF p \in S THEN files[p].time ELSE 0]

In(S, times) == {p \in S : times[p] # 0}

Abs(d) == IF d < 0 THEN -d ELSE d

Fault == /\ Allowed("fault") /\ faults < MaxFaults /\ faults' = faults + 1
         /\ UNCHANGED overlaps
NoFault == UNCHANGED <<faults, overlaps>>
Overlap == /\ Allowed("overlap") /\ overlaps < MaxOverlaps
           /\ overlaps' = overlaps + 1

At(m, pc) == cycle[m].pc = pc

Continues(m, c) == cycle' = [cycle EXCEPT ![m] = c]
Quits(m) == Continues(m, NoCycle)

(* The state is read, then the share is scanned.  A state that cannot be   *)
(* read counts as empty.                                                   *)
Start(m) ==
    /\ At(m, "idle")
    /\ IF \E o \in Machines : AtWork(o) THEN Overlap ELSE UNCHANGED overlaps
    /\ \E state \in {stateFile[m], NoTimes} :
         /\ Continues(m, [NoCycle EXCEPT !.pc = "tombstones",
                                         !.newState = state,
                                         !.seen = Times(net, selected[m])])
         /\ IF state = stateFile[m] THEN UNCHANGED faults
            ELSE Allowed("fault") /\ faults < MaxFaults /\ faults' = faults + 1
    /\ UNCHANGED <<share, loc, records, now, selects>>

(* The tombstones, read once, likewise.                                    *)
ReadTombstones(m) ==
    /\ At(m, "tombstones")
    /\ \E tomb \in {tombFile, NoTimes} :
         /\ Continues(m, [cycle[m] EXCEPT
               !.pc = "pullA",
               !.tomb = tomb,
               !.todo = {p \in In(selected[m], cycle[m].newState) :
                            cycle[m].seen[p] = 0}])
         /\ IF tomb = tombFile THEN NoFault ELSE Fault
    /\ UNCHANGED <<share, loc, records, now, selects>>

(* Pull A: a preset that is gone from the share is deleted here unless it  *)
(* has been edited since; either way it is no longer tracked.  Of a preset *)
(* a pull loop has still to visit, newState says what the state did.       *)
UnchangedAtAnyTime(m, p) ==  \* mutant: edits are not looked for
    Here(loc[m][p])

Unchanged(m, p) ==
    /\ Here(loc[m][p])
    /\ Abs(loc[m][p].time - cycle[m].newState[p]) < Tolerance

PullDeletion(m, p) ==
    /\ At(m, "pullA") /\ p \in cycle[m].todo
    /\ \E ok \in BOOLEAN :
         /\ ok \/ Unchanged(m, p)
         /\ loc' = IF ok /\ Unchanged(m, p)
                   THEN [loc EXCEPT ![m][p] = NoFile] ELSE loc
         /\ Continues(m, [cycle[m] EXCEPT !.todo = @ \ {p},
                                          !.newState[p] = 0,
                                          !.failed = @ \/ ~ok])
         /\ IF ok THEN NoFault ELSE Fault
    /\ UNCHANGED <<share, records, now, selects>>

(* Pull B: a preset the share has newer, or anew, is copied here.          *)
NeedsPullUntracked(m, p) ==  \* mutant: what was deleted here is not pulled
    IF Here(loc[m][p])
    THEN cycle[m].seen[p] > loc[m][p].time + Tolerance
    ELSE cycle[m].newState[p] = 0

NeedsPull(m, p) ==
    LET last == cycle[m].newState[p] IN
    IF Here(loc[m][p])
    THEN cycle[m].seen[p] > loc[m][p].time + Tolerance
    ELSE last # 0 => cycle[m].seen[p] > last + Tolerance

PullNothing(m, p) ==
    /\ At(m, "pullB") /\ p \in cycle[m].todo
    /\ ~NeedsPull(m, p)
    /\ Continues(m, [cycle[m] EXCEPT !.todo = @ \ {p}])
    /\ UNCHANGED <<share, loc, records, now, bounds>>

(* pullWatermark: the logo is copied first, if the share has it, and the   *)
(* template made to point to the copy.                                     *)
Pulled(m, p) ==
    IF p \notin Watermarks THEN net[p]
    ELSE [net[p] EXCEPT !.logo = IF Share \in logos[p] THEN m ELSE Share]

Pull(m, p) ==
    /\ At(m, "pullB") /\ p \in cycle[m].todo
    /\ NeedsPull(m, p) /\ Here(net[p])
    /\ logos' = IF p \in Watermarks /\ Share \in logos[p]
                THEN [logos EXCEPT ![p] = @ \cup {m}] ELSE logos
    /\ Continues(m, [cycle[m] EXCEPT !.pc = "fetched", !.at = p,
                                     !.hand = Pulled(m, p), !.todo = @ \ {p}])
    /\ UNCHANGED <<net, tmp, logoTmp, missing, shared, loc, records, now,
                   bounds>>

(* The local file is replaced.  The text of a watermark template is read   *)
(* before the time of the file, of any other preset after it.              *)
PullPlace(m) ==
    LET p == cycle[m].at
        hand == cycle[m].hand
        file == IF p \in Watermarks THEN [hand EXCEPT !.time = net[p].time]
                                    ELSE [net[p] EXCEPT !.time = hand.time]
    IN  /\ At(m, "fetched") /\ Here(net[p])
        /\ loc' = [loc EXCEPT ![m][p] = [file EXCEPT !.time = now]]
        /\ Continues(m, [cycle[m] EXCEPT !.pc = "placed", !.hand = file])
        /\ UNCHANGED <<share, records, now, bounds>>

(* os.Chtimes on a local file, after a pull and after a push that has      *)
(* rewritten a template.                                                   *)
SetTimeHere(m) ==
    LET p == cycle[m].at IN
    /\ cycle[m].pc \in {"placed", "rewritten"} /\ Here(loc[m][p])
    /\ loc' = [loc EXCEPT ![m][p].time = cycle[m].hand.time]
    /\ Continues(m, [cycle[m] EXCEPT
          !.pc = IF At(m, "placed") THEN "pulled" ELSE "pushed",
          !.hand = NoFile])
    /\ UNCHANGED <<share, records, now, bounds>>

(* After a copy, in either direction, the time of the local file, read     *)
(* once more, is what the state records.                                   *)
RecordMissing(m, back) ==    \* mutant: a file that is gone is recorded as -1
    LET p == cycle[m].at IN
    Continues(m, [cycle[m] EXCEPT
        !.pc = back,
        !.at = NoPreset,
        !.newState[p] = IF Here(loc[m][p]) THEN loc[m][p].time ELSE -1,
        !.failed = @ \/ ~Here(loc[m][p])])

RecordAs(m, back) ==
    LET p == cycle[m].at IN
    Continues(m, [cycle[m] EXCEPT
        !.pc = back,
        !.at = NoPreset,
        !.newState[p] = IF Here(loc[m][p]) THEN loc[m][p].time ELSE @,
        !.failed = @ \/ ~Here(loc[m][p])])

Record(m) ==
    /\ \/ At(m, "pulled") /\ RecordAs(m, "pullB")
       \/ At(m, "pushed") /\ RecordAs(m, "pushB")
    /\ UNCHANGED <<share, loc, records, now, bounds>>

(* Push A: a tracked preset that is gone here is deleted on the share, and *)
(* buried, whatever version the share has.                                 *)
PushDeletion(m, p) ==
    /\ At(m, "pushA") /\ p \in cycle[m].todo
    /\ \E ok \in BOOLEAN :
         LET removed == ok /\ Here(net[p]) IN
         /\ ok \/ Here(net[p])
         /\ net' = IF removed THEN [net EXCEPT ![p] = NoFile] ELSE net
         /\ Continues(m, [cycle[m] EXCEPT
               !.todo = @ \ {p},
               !.newState[p] = 0,
               !.tomb[p] = IF removed THEN now ELSE @,
               !.dirty = @ \/ removed,
               !.failed = @ \/ ~ok])
         /\ buried' = IF removed THEN [buried EXCEPT ![p] = now] ELSE buried
         /\ IF ok THEN NoFault ELSE Fault
    /\ UNCHANGED <<tmp, logos, logoTmp, missing, shared, loc, stateFile,
                   tombFile, selected, upsets, now, selects>>

(* Push B: a local edit goes to the share if the share has none or an      *)
(* older one.  The scanned time decides.                                   *)
NeedsPushTracked(m, p) ==    \* mutant: no push over an unknown version
    LET time == cycle[m].seen[p]
        last == cycle[m].newState[p]
    IN  Here(net[p]) => /\ last # 0 /\ time > last + Tolerance
                        /\ time > net[p].time

NeedsPush(m, p) ==
    LET time == cycle[m].seen[p]
        last == cycle[m].newState[p]
    IN  Here(net[p]) => /\ last = 0 \/ time > last + Tolerance
                        /\ time > net[p].time

ZombieExact(m, p) ==         \* mutant: no tolerance
    /\ cycle[m].tomb[p] # 0
    /\ cycle[m].seen[p] <= cycle[m].tomb[p]

Zombie(m, p) ==
    /\ cycle[m].tomb[p] # 0
    /\ cycle[m].seen[p] <= cycle[m].tomb[p] + Tolerance

PushNothing(m, p) ==
    /\ At(m, "pushB") /\ p \in cycle[m].todo
    /\ ~NeedsPush(m, p)
    /\ Continues(m, [cycle[m] EXCEPT !.todo = @ \ {p}])
    /\ UNCHANGED <<share, loc, records, now, bounds>>

(* A version older than the tombstone is not pushed but deleted here.      *)
DeleteZombie(m, p) ==
    /\ At(m, "pushB") /\ p \in cycle[m].todo
    /\ NeedsPush(m, p) /\ Zombie(m, p)
    /\ \/ NoFault /\ loc' = [loc EXCEPT ![m][p] = NoFile]
          /\ Continues(m, [cycle[m] EXCEPT !.todo = @ \ {p}])
       \/ Fault /\ UNCHANGED loc
          /\ Continues(m, [cycle[m] EXCEPT !.todo = @ \ {p}, !.failed = TRUE])
    /\ UNCHANGED <<share, records, now, selects>>

(* Otherwise the tombstone goes, and the local file is read.               *)
BeginPush(m, p) ==
    /\ At(m, "pushB") /\ p \in cycle[m].todo
    /\ NeedsPush(m, p) /\ ~Zombie(m, p)
    /\ Continues(m, [cycle[m] EXCEPT
          !.pc = IF ~Here(loc[m][p]) THEN "pushB"
                ELSE IF p \in Watermarks THEN "logo" ELSE "copy",
          !.at = IF Here(loc[m][p]) THEN p ELSE NoPreset,
          !.hand = loc[m][p],
          !.todo = @ \ {p},
          !.dirty = @ \/ cycle[m].tomb[p] # 0,
          !.tomb[p] = 0,
          !.failed = @ \/ ~Here(loc[m][p])])
    /\ UNCHANGED <<share, loc, records, now, bounds>>

(* pushWatermark: if the logo the template points to can be found, it is   *)
(* copied to the share, unless what is there will do (copyIfSizeDiff), and *)
(* the template in hand made to point there.  The time of the template is  *)
(* read after its text.                                                    *)
PushNoLogo(m) ==             \* mutant: the logo is not copied
    /\ At(m, "logo") /\ Here(loc[m][cycle[m].at])
    /\ Continues(m, [cycle[m] EXCEPT !.pc = "copy", !.hand.logo = Share])
    /\ UNCHANGED <<share, loc, records, now, bounds>>

PushLogo(m) ==
    LET p == cycle[m].at
        own == cycle[m].hand.logo
        file == [cycle[m].hand EXCEPT !.time = loc[m][p].time]
        onShare == [file EXCEPT !.logo = Share]
    IN  /\ At(m, "logo") /\ Here(loc[m][p])
        /\ \/ /\ own \notin logos[p]
              /\ Continues(m, [cycle[m] EXCEPT !.pc = "copy", !.hand = file])
              /\ UNCHANGED logoTmp
           \/ /\ own \in logos[p] /\ Share \in logos[p]
              /\ Continues(m, [cycle[m] EXCEPT !.pc = "copy",
                                               !.hand = onShare])
              /\ UNCHANGED logoTmp
           \/ /\ own \in logos[p] /\ own # Share
              /\ Continues(m, [cycle[m] EXCEPT !.pc = "logoWritten",
                                               !.hand = onShare])
              /\ logoTmp' = logoTmp \cup {p}
        /\ UNCHANGED <<net, tmp, logos, missing, shared, loc, records, now,
                       bounds>>

(* replaceFile on the share is a removal and a renaming, of a temporary    *)
(* file whose name all machines use.                                       *)
LogoRemove(m) ==
    LET p == cycle[m].at IN
    /\ At(m, "logoWritten")
    /\ logos' = [logos EXCEPT ![p] = @ \ {Share}]
    /\ missing' = IF Share \in logos[p] THEN missing \cup {p} ELSE missing
    /\ Continues(m, [cycle[m] EXCEPT !.pc = "logoRemoved"])
    /\ UNCHANGED <<net, tmp, logoTmp, shared, loc, records, now, bounds>>

LogoRename(m) ==
    LET p == cycle[m].at IN
    /\ At(m, "logoRemoved") /\ p \in logoTmp
    /\ logos' = [logos EXCEPT ![p] = @ \cup {Share}]
    /\ logoTmp' = logoTmp \ {p}
    /\ missing' = missing \ {p}
    /\ Continues(m, [cycle[m] EXCEPT !.pc = "copy"])
    /\ UNCHANGED <<net, tmp, shared, loc, records, now, bounds>>

(* The preset gets to the share as it was read: a watermark template in    *)
(* BeginPush, the text of any other preset only now.                       *)
PushWrite(m) ==
    LET p == cycle[m].at
        hand == cycle[m].hand
        file == IF p \in Watermarks THEN hand
                ELSE [loc[m][p] EXCEPT !.time = hand.time]
    IN  /\ At(m, "copy")
        /\ p \notin Watermarks => Here(loc[m][p])
        /\ tmp' = [tmp EXCEPT ![p] = file]
        /\ Continues(m, [cycle[m] EXCEPT !.pc = "written"])
        /\ UNCHANGED <<net, logos, logoTmp, missing, shared, loc, records, now,
                       bounds>>

PushRemove(m) ==
    /\ At(m, "written")
    /\ net' = [net EXCEPT ![cycle[m].at] = NoFile]
    /\ Continues(m, [cycle[m] EXCEPT !.pc = "removed"])
    /\ UNCHANGED <<tmp, logos, logoTmp, missing, shared, loc, records, now,
                   bounds>>

PushRename(m) ==
    LET p == cycle[m].at IN
    /\ At(m, "removed") /\ Here(tmp[p])
    /\ net' = [net EXCEPT ![p] = [tmp[p] EXCEPT !.time = now]]
    /\ tmp' = [tmp EXCEPT ![p] = NoFile]
    /\ shared' = [shared EXCEPT ![p] = @ \cup {tmp[p].text}]
    /\ Continues(m, [cycle[m] EXCEPT !.pc = "renamed"])
    /\ UNCHANGED <<logos, logoTmp, missing, loc, records, now, bounds>>

(* os.Chtimes on the share.  A template that has been changed is then      *)
(* written here too, with the text and the time read.                      *)
SetTimeThere(m) ==
    LET p == cycle[m].at
        changed == p \in Watermarks /\ cycle[m].hand.logo # loc[m][p].logo
    IN  /\ At(m, "renamed") /\ Here(net[p])
        /\ net' = [net EXCEPT ![p].time = cycle[m].hand.time]
        /\ Continues(m, [cycle[m] EXCEPT
              !.pc = IF changed THEN "rewrite" ELSE "pushed",
              !.hand = IF changed THEN @ ELSE NoFile])
        /\ UNCHANGED <<tmp, logos, logoTmp, missing, shared, loc, records, now,
                   bounds>>

RewriteTemplate(m) ==
    /\ At(m, "rewrite")
    /\ loc' = [loc EXCEPT ![m][cycle[m].at] =
                  [cycle[m].hand EXCEPT !.time = now]]
    /\ Continues(m, [cycle[m] EXCEPT !.pc = "rewritten"])
    /\ UNCHANGED <<share, records, now, bounds>>

(* What fails, or stops, may leave half of a replacement: a local file or  *)
(* logo removed, the logo of the share removed, a temporary file.  What    *)
(* has been renamed keeps the current time.                                *)
HalfDone(m) ==
    LET pc == cycle[m].pc
        p == cycle[m].at
    IN  /\ loc' \in {loc} \cup IF pc \in {"fetched", "rewrite"}
                               THEN {[loc EXCEPT ![m][p] = NoFile]} ELSE {}
        /\ tmp' \in {tmp} \cup IF pc \in {"copy", "written", "removed"}
                               THEN {[tmp EXCEPT ![p] = NoFile]} ELSE {}
        /\ logoTmp' \in {logoTmp} \cup
                        IF pc \in {"logo", "logoWritten", "logoRemoved"}
                        THEN {logoTmp \ {p}} ELSE {}

HalfPulled(m, p) ==
    {logos} \cup IF p \in Watermarks /\ Share \in logos[p]
                 THEN {[logos EXCEPT ![p] = @ \cup {m}],
                       [logos EXCEPT ![p] = @ \ {m}]} ELSE {}

(* Two machines at the same file of the share may get in each other's way: *)
(* Windows neither removes nor renames a file that another has open.       *)
OnShare == {"fetched", "logo", "logoWritten", "logoRemoved", "copy", "written",
            "removed", "renamed"}

Disturbed(m, p) ==
    \E o \in Machines \ {m} : cycle[o].pc \in OnShare /\ cycle[o].at = p

(* A file the next call needs is not there any more.                       *)
Gone(m) ==
    LET pc == cycle[m].pc
        p == cycle[m].at
    IN  \/ pc \in {"fetched", "renamed"} /\ ~Here(net[p])
        \/ pc \in {"logo", "placed", "rewritten"} /\ ~Here(loc[m][p])
        \/ pc = "copy" /\ p \notin Watermarks /\ ~Here(loc[m][p])
        \/ pc = "removed" /\ ~Here(tmp[p])
        \/ pc = "logoRemoved" /\ p \notin logoTmp

(* A copy that fails leaves the loop to go on and the cycle failed.        *)
PullFails(m, p) ==
    /\ At(m, "pullB") /\ p \in cycle[m].todo
    /\ NeedsPull(m, p)
    /\ \/ (~Here(net[p]) \/ Disturbed(m, p)) /\ NoFault /\ UNCHANGED logos
       \/ Here(net[p]) /\ Fault /\ logos' \in HalfPulled(m, p)
    /\ Continues(m, [cycle[m] EXCEPT !.todo = @ \ {p}, !.failed = TRUE])
    /\ UNCHANGED <<net, tmp, logoTmp, missing, shared, loc, records, now,
                   selects>>

CopyFails(m) ==
    /\ cycle[m].pc \in OnShare \cup {"placed", "rewrite", "rewritten"}
    /\ \/ Gone(m) /\ NoFault /\ UNCHANGED loc
       \/ /\ cycle[m].pc \in OnShare /\ Disturbed(m, cycle[m].at)
          /\ NoFault /\ UNCHANGED loc
       \/ Fault
    /\ HalfDone(m)
    /\ Continues(m, [cycle[m] EXCEPT
          !.pc = IF @ \in {"fetched", "placed"} THEN "pullB" ELSE "pushB",
          !.at = NoPreset, !.hand = NoFile, !.failed = TRUE])
    /\ UNCHANGED <<net, logos, missing, shared, records, now, selects>>

(* From one loop to the next; the local files are scanned after the pulls. *)
NextLoop(m) ==
    LET c == cycle[m]
        scan == Times(loc[m], selected[m])
    IN  /\ c.todo = {}
        /\ \/ /\ c.pc = "pullA"
              /\ Continues(m, [c EXCEPT !.pc = "pullB",
                                        !.todo = In(Presets, c.seen)])
           \/ /\ c.pc = "pullB"
              /\ Continues(m, [c EXCEPT !.pc = "pushA", !.seen = scan,
                                !.todo = {p \in In(selected[m], c.newState) :
                                             scan[p] = 0}])
           \/ /\ c.pc = "pushA"
              /\ Continues(m, [c EXCEPT !.pc = "pushB",
                                        !.todo = In(Presets, c.seen)])
           \/ /\ c.pc = "pushB" /\ ~c.failed
              /\ Continues(m, [c EXCEPT !.pc = "commit", !.seen = NoTimes])
           \* a cycle with an error keeps the old state and writes no tombstone
           \/ c.pc = "pushB" /\ c.failed /\ Quits(m)
        /\ UNCHANGED <<share, loc, records, now, bounds>>

(* The state is written over the old one, in place; then the tombstones,   *)
(* all of them, as read at the beginning and changed since.  A file that   *)
(* could not be written whole reads as empty.                              *)
Commit(m) ==
    /\ At(m, "commit")
    /\ \/ /\ NoFault
          /\ stateFile' = [stateFile EXCEPT ![m] = cycle[m].newState]
          /\ IF cycle[m].dirty
             THEN Continues(m, [cycle[m] EXCEPT !.pc = "bury"]) ELSE Quits(m)
       \/ /\ Fault
          /\ stateFile' = [stateFile EXCEPT ![m] = NoTimes]
          /\ Quits(m)
    /\ UNCHANGED <<share, loc, tombFile, selected, buried, upsets, now,
                   selects>>

Bury(m) ==
    /\ At(m, "bury")
    /\ \/ NoFault /\ tombFile' = cycle[m].tomb
       \/ Fault /\ tombFile' = NoTimes
    /\ Quits(m)
    /\ UNCHANGED <<share, loc, stateFile, selected, buried, upsets, now,
                   selects>>

(* The cycle ends early: the agent stops, the context is cancelled, a scan *)
(* or a write fails at once.                                               *)
Break(m) ==
    /\ AtWork(m)
    /\ Fault
    /\ HalfDone(m)
    /\ \/ UNCHANGED logos
       \/ /\ At(m, "pullB")
          /\ \E p \in cycle[m].todo :
                NeedsPull(m, p) /\ logos' \in HalfPulled(m, p)
    /\ Quits(m)
    /\ UNCHANGED <<net, missing, shared, records, now, selects>>

-----------------------------------------------------------------------------
CycleStep(m) ==
    \/ Start(m) \/ ReadTombstones(m) \/ NextLoop(m) \/ Record(m)
    \/ PullPlace(m) \/ SetTimeHere(m)
    \/ PushLogo(m) \/ LogoRemove(m) \/ LogoRename(m)
    \/ PushWrite(m) \/ PushRemove(m) \/ PushRename(m) \/ SetTimeThere(m)
    \/ RewriteTemplate(m) \/ CopyFails(m) \/ Commit(m) \/ Bury(m)
    \/ \E p \in Presets :
         \/ PullDeletion(m, p) \/ PullNothing(m, p) \/ Pull(m, p)
         \/ PullFails(m, p) \/ PushDeletion(m, p) \/ PushNothing(m, p)
         \/ DeleteZombie(m, p) \/ BeginPush(m, p)

UserStep(m) ==
    \/ SelectCategories(m)
    \/ \E p \in Presets :
         SavePreset(m, p) \/ DeletePreset(m, p)

Next ==
    \/ TimePasses
    \/ \E m \in Machines : CycleStep(m) \/ UserStep(m) \/ Break(m)

Spec == Init /\ [][Next]_vars

(* Cycles go on: what starts one on a machine (its agent starts, Lightroom *)
(* stops, a catalog was synchronised) happens again and again, also at     *)
(* times when no other machine runs one.                                   *)
LiveSpec ==
    /\ Spec
    /\ \A m \in Machines : WF_vars(CycleStep(m)) /\ SF_vars(Start(m))

-----------------------------------------------------------------------------
(* Properties                                                              *)

(* sync-architecture.md 5.3: what was deleted does not come back.  As long *)
(* as nothing goes wrong and cycles do not overlap, a preset on the share  *)
(* is younger than every deletion of it that reached the share.            *)
DeletionStays ==
    upsets \subseteq {"select"} =>
        \A p \in Presets : Here(net[p]) /\ buried[p] # 0
                             => net[p].time > buried[p] + Tolerance

(* sync-architecture.md 5.4, the newest version wins: a machine does not   *)
(* delete on the share a version newer than the one it had itself.  With   *)
(* failures it does, see NewestNotRemoved.                                 *)
RemovesOnlyKnown ==
    [][\A m \in Machines, p \in Presets :
         (/\ upsets \subseteq {"select"}
          /\ At(m, "pushA") /\ Here(net[p]) /\ ~Here(net'[p]))
            => net[p].time <= cycle[m].newState[p] + Tolerance]_vars

(* The same said of every behaviour, failures included.                    *)
NewestNotRemoved ==
    [][\A m \in Machines, p \in Presets :
         (At(m, "pushA") /\ Here(net[p]) /\ ~Here(net'[p]))
            => net[p].time <= cycle[m].newState[p] + Tolerance]_vars

(* The logo gets to the share before a template that points there, and is  *)
(* found there unless a replacement has removed it and not put it back; as *)
(* long as nothing goes wrong and cycles do not overlap, only between the  *)
(* two calls of a replacement under way.                                   *)
Replaces(m, p) == At(m, "logoRemoved") /\ cycle[m].at = p

SharedLogoExists ==
    \A p \in Presets :
        net[p].logo = Share =>
            \/ Share \in logos[p]
            \/ /\ p \in missing
               /\ upsets \subseteq {"select"} =>
                      \E m \in Machines : Replaces(m, p)

(* An edit that has never been on the share is not deleted or overwritten  *)
(* by a cycle, with failures or with overlaps, unless a newer version has  *)
(* been shared, a tombstone covers it, it is not newer, to the tolerance,  *)
(* than what was in step with the share, or the share showed a version     *)
(* with a time that is not its own: that of a moment between renaming and  *)
(* os.Chtimes, or of a cycle that stopped there.  It presupposes that the  *)
(* user keeps her hands off while a cycle runs.                            *)
Mistimed(m, p) ==
    At(m, "fetched") /\ cycle[m].at = p /\ cycle[m].seen[p] \notin shared[p]

EditKept ==
    [][\A m \in Machines, p \in Presets :
         LET f == loc[m][p] IN
         (/\ "edit" \notin upsets /\ ~({"fault", "overlap"} \subseteq upsets)
          /\ AtWork(m) /\ f.text \notin shared[p] \cup {0}
          /\ loc'[m][p].text # f.text)
         => \/ \E u \in shared[p] : u > f.time + Tolerance
            \/ Mistimed(m, p)
            \/ cycle[m].tomb[p] # 0 /\ f.time <= cycle[m].tomb[p] + Tolerance
            \/ Abs(f.time - cycle[m].newState[p]) < Tolerance]_vars

(* All machines have what the share has, to the tolerance ...              *)
Agreed ==
    \A m \in Machines : \A p \in selected[m] :
        /\ Here(loc[m][p]) = Here(net[p])
        /\ Abs(loc[m][p].time - net[p].time) <= Tolerance

(* ... in the end, once the users rest and if nothing has gone wrong.      *)
Converges == upsets \subseteq {"select"} => <>[]Agreed
=============================================================================
