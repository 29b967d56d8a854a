-------------------------- MODULE ConfigStoreProofs --------------------------
(***************************************************************************)
(* Proofs about ConfigStore, for any connections of the UI, configurations *)
(* and patches: the agent runs with usable intervals, config.yaml follows  *)
(* the memory, settings that were saved stay, a restart finds what was     *)
(* saved or is paused, and a save does not take back what was synced.      *)
(***************************************************************************)
EXTENDS ConfigStore, TLAPS

Positive(c) == c.interval > 0

(* Who can be where, and that nobody but the start runs before it is over. *)
Places ==
    /\ pc[Startup] \in {"idle", "load", "migrate", "lock", "open", "write",
                        "backup", "show"}
    /\ pc[Worker] \in {"idle", "lock", "open", "write"}
    /\ \A h \in Handlers :
          pc[h] \in {"idle", "update", "lock", "open", "write", "get", "show"}
    /\ agent = "starting" <=> pc[Startup] # "idle"
    /\ agent # "up" => \A a \in Actors : a # Startup => pc[a] = "idle"

(* The read lock: what is being written is what the memory has.            *)
InHand ==
    /\ \A a \in Actors : pc[a] \in {"open", "write"} => hand[a] = cfg
    /\ \A h \in Handlers : pc[h] = "update" => Positive(hand[h])
    /\ Positive(cfg)

DiskSame ==
    agent # "down" /\ pc[Startup] # "load" /\ ~Saving /\ ~unsaved =>
        file = [state |-> "whole", cfg |-> cfg]

(* What the start finds, and what it makes of it.                          *)
Found ==
    /\ file.state = "whole" => file.cfg = saved
    /\ pc[Startup] = "migrate" => cfg.synced = 0 \/ cfg = Usable(saved)
    /\ pc[Startup] \in {"lock", "open", "write", "backup"} =>
          legacy # NoConfig /\ cfg = Usable(legacy)
    /\ pc[Startup] \in {"lock", "open"} => ~HasTarget
    /\ pc[Startup] = "show" =>
          \/ cfg.synced = 0 \/ cfg = Usable(saved)
          \/ legacy # NoConfig /\ cfg = Usable(legacy)

(* One save_config at a time, and where the last patch has got to.         *)
Alone ==
    ~Allowed("overlap") =>
        \A g, h \in Handlers : pc[g] # "idle" /\ pc[h] # "idle" => g = h

Same(c) == Settings(c) = Settings(asked)

PatchUp ==
    ~Allowed("overlap") /\ asked # NoConfig /\ agent = "up" =>
        /\ \A h \in Handlers : pc[h] = "update" => Same(hand[h])
        /\ (\A h \in Handlers : pc[h] # "update") => Same(cfg)
        /\ \A h \in Handlers : pc[h] = "show" => hand[h].auto = asked.auto
        /\ (\A h \in Handlers : pc[h] = "idle") => shown = asked.auto

PatchOnDisk ==
    ~Allowed("overlap") /\ asked # NoConfig /\ agent # "up" =>
        /\ file.state = "whole" /\ Positive(file.cfg) /\ Same(file.cfg)
        /\ pc[Startup] \in {"idle", "load", "migrate", "show"}
        /\ pc[Startup] \in {"migrate", "show"} => Same(cfg)

(* What a handler has in its hands is still what the memory has, patched.  *)
PatchFresh ==
    upsets \cap {"overlap", "meanwhile"} = {} =>
        \A h \in Handlers : pc[h] = "update" => hand[h] = Patched(cfg, asked)

ConfigInv ==
    /\ TypeOK /\ Places /\ InHand /\ DiskSame /\ Found
    /\ Alone /\ PatchUp /\ PatchOnDisk /\ PatchFresh

-----------------------------------------------------------------------------
(***************************************************************************)
(* The actors, and the operators on configurations.                        *)
(***************************************************************************)
LEMMA ActorFacts ==
  /\ Startup \in Actors /\ Worker \in Actors /\ Worker # Startup
  /\ \A h \in Handlers : h \in Actors /\ h # Startup /\ h # Worker
  /\ \A a \in Actors : a \in Handlers \/ a = Worker \/ a = Startup
BY ConfigAssumption DEF ConfigAssumption, Actors

LEMMA ConfigParts ==
  /\ Default \in Configs /\ Default.synced = 0 /\ Positive(Default)
  /\ \A c \in Configs : /\ c.interval \in Int /\ c.synced \in Nat
                         /\ c.auto \in BOOLEAN
BY DEF Default, Configs, Positive

LEMMA UsableIs ==
  ASSUME NEW c \in Configs
  PROVE  /\ Usable(c) \in Configs /\ Positive(Usable(c))
         /\ Usable(c).synced = c.synced
         /\ Positive(c) => Usable(c) = c
<1>1. CASE c.interval <= 0
  <2>1. Usable(c) = [c EXCEPT !.interval = 1]
    BY <1>1 DEF Usable, Default
  <2>2. c.interval \in Int
    BY ConfigParts
  <2>3. Usable(c).interval = 1 /\ Usable(c).synced = c.synced
    BY <2>1 DEF Configs
  <2>4. Usable(c) \in Configs
    BY <2>1 DEF Configs
  <2> QED
    BY <1>1, <2>2, <2>3, <2>4 DEF Positive
<1>2. CASE ~(c.interval <= 0)
  <2>1. Usable(c) = c
    BY <1>2 DEF Usable
  <2>2. c.interval \in Int
    BY ConfigParts
  <2> QED
    BY <1>2, <2>1, <2>2 DEF Positive
<1> QED
  BY <1>1, <1>2

LEMMA LoadedIs ==
  ASSUME NEW f \in [state : {"absent", "torn", "whole"}, cfg : Configs],
         NEW c \in Loaded(f)
  PROVE  /\ c \in Configs /\ Positive(c)
         /\ f.state = "whole" => c = Usable(f.cfg)
         /\ f.state # "whole" => c.synced = 0
<1>1. CASE f.state = "absent"
  <2>1. c = Default
    BY <1>1 DEF Loaded
  <2> QED
    BY <1>1, <2>1, ConfigParts
<1>2. CASE f.state = "whole"
  <2>1. c = Usable(f.cfg)
    BY <1>2 DEF Loaded
  <2> QED
    BY <1>2, <2>1, UsableIs
<1>3. CASE f.state = "torn"
  <2>1. PICK n \in 0..3 : c = Usable(FieldsRead(f.cfg, n))
    BY <1>3 DEF Loaded
  <2>2. FieldsRead(f.cfg, n) \in Configs /\ FieldsRead(f.cfg, n).synced = 0
    <3>1. f.cfg \in Configs /\ Default \in Configs
      BY ConfigParts
    <3>2. \A k : /\ (IF n >= k THEN f.cfg.paths ELSE Default.paths)
                       \in {"none", "old", "new"}
                /\ (IF n >= k THEN f.cfg.auto ELSE Default.auto) \in BOOLEAN
                /\ (IF n >= k THEN f.cfg.interval ELSE Default.interval) \in Int
      BY <3>1, Zenon DEF Configs
    <3>3. Default.synced \in Nat /\ Default.synced = 0
      BY DEF Default
    <3> QED
      BY <3>2, <3>3 DEF FieldsRead, Configs
  <2> QED
    BY <1>3, <2>1, <2>2, UsableIs
<1> QED
  BY <1>1, <1>2, <1>3

LEMMA PatchedIs ==
  ASSUME NEW c \in Configs, NEW patch \in Patches
  PROVE  /\ Patched(c, patch) \in Configs
         /\ Valid(patch) => Positive(Patched(c, patch))
         /\ Settings(Patched(c, patch)) = Settings(patch)
         /\ patch.synced = Kept => Patched(c, patch).synced = c.synced
<1> DEFINE s == IF patch.synced = Kept THEN c.synced ELSE patch.synced
<1>1. patch \in [paths : {"none", "old", "new"}, auto : BOOLEAN,
                 interval : Int, synced : Nat \cup {Kept}]
  BY ConfigAssumption DEF ConfigAssumption
<1>2. s \in Nat /\ (patch.synced = Kept => s = c.synced)
  BY <1>1, ConfigParts
<1>3. Patched(c, patch) = [patch EXCEPT !.synced = s]
  BY <1>1 DEF Patched
<1> HIDE DEF s
<1>4. /\ Patched(c, patch).paths = patch.paths
      /\ Patched(c, patch).auto = patch.auto
      /\ Patched(c, patch).interval = patch.interval
      /\ Patched(c, patch).synced = s
  BY <1>1, <1>3
<1>5. Patched(c, patch) \in Configs
  BY <1>1, <1>2, <1>3 DEF Configs
<1> QED
  BY <1>2, <1>4, <1>5 DEF Valid, Positive, Settings

(***************************************************************************)
(* One actor goes on, with c in its hands; all others stay where they are. *)
(***************************************************************************)
Moves(a, label, c) ==
    /\ pc' = [pc EXCEPT ![a] = label]
    /\ hand' = [hand EXCEPT ![a] = c]

LEMMA Moved ==
  ASSUME TypeOK, NEW a \in Actors, NEW label \in PCs, NEW c \in Configs,
         Moves(a, label, c)
  PROVE  /\ pc' \in [Actors -> PCs] /\ hand' \in [Actors -> Configs]
         /\ pc'[a] = label /\ hand'[a] = c
         /\ \A b \in Actors : b # a => pc'[b] = pc[b] /\ hand'[b] = hand[b]
BY DEF TypeOK, Moves

LEMMA MovesIs ==
  ASSUME TypeOK, NEW a \in Actors, NEW label, Goto(a, label)
  PROVE  /\ hand' = hand => Moves(a, label, hand[a])
         /\ Rest(a) => Moves(a, label, Default)
         /\ \A c : Keep(a, c) => Moves(a, label, c)
BY DEF TypeOK, Moves, Goto, Rest, Keep

-----------------------------------------------------------------------------
(***************************************************************************)
(* The start, one step after the other, while nobody else runs.            *)
(***************************************************************************)
LEMMA StartKeeps ==
  ASSUME ConfigInv, Start
  PROVE  ConfigInv'
<1>1. /\ agent = "down" /\ agent' = "starting" /\ Goto(Startup, "load")
      /\ UNCHANGED <<cfg, file, legacy, backup, hand, shown, paused,
                    saved, unsaved, asked, upsets, patches, faults>>
  BY DEF Start, store, history, bounds
<1>2. /\ pc' \in [Actors -> PCs]
      /\ pc'[Startup] = "load" /\ pc[Startup] = "idle"
      /\ \A a \in Actors : a # Startup => pc'[a] = "idle" /\ pc[a] = "idle"
  BY <1>1, ActorFacts DEF ConfigInv, TypeOK, Places, Goto, PCs
<1>3. TypeOK'
  BY <1>1, <1>2 DEF ConfigInv, TypeOK
<1>4. Places'
  BY <1>1, <1>2, ActorFacts DEF ConfigInv, Places
<1>5. InHand'
  BY <1>1, <1>2, ActorFacts DEF ConfigInv, InHand, Positive
<1>6. DiskSame'
  BY <1>2 DEF DiskSame
<1>7. Found'
  BY <1>1, <1>2 DEF ConfigInv, Found
<1>8. Alone' /\ PatchFresh' /\ PatchUp'
  BY <1>1, <1>2, ActorFacts DEF Alone, PatchFresh, PatchUp
<1>9. PatchOnDisk'
  BY <1>1, <1>2 DEF ConfigInv, PatchOnDisk, Allowed, Same, Positive
<1> QED
  BY <1>3, <1>4, <1>5, <1>6, <1>7, <1>8, <1>9 DEF ConfigInv

LEMMA LoadKeeps ==
  ASSUME ConfigInv, Load
  PROVE  ConfigInv'
<1>1. /\ pc[Startup] = "load" /\ Goto(Startup, "migrate")
      /\ UNCHANGED <<file, legacy, backup, agent, hand, shown, paused, saved,
                    upsets, patches>>
      /\ unsaved' = ~(file.state = "whole" /\ file.cfg = cfg')
      /\ \/ cfg' \in Loaded(file) /\ UNCHANGED <<asked, faults>>
         \/ cfg' = Default /\ asked' = NoConfig /\ Fault
  BY DEF Load, bounds, Fault
<1>2. /\ pc' \in [Actors -> PCs]
      /\ pc'[Startup] = "migrate" /\ agent = "starting"
      /\ \A a \in Actors : a # Startup => pc'[a] = "idle" /\ pc[a] = "idle"
  BY <1>1, ActorFacts DEF ConfigInv, TypeOK, Places, Goto, PCs
<1>3. file \in [state : {"absent", "torn", "whole"}, cfg : Configs]
  BY DEF ConfigInv, TypeOK
<1>4. /\ cfg' \in Configs /\ Positive(cfg')
      /\ cfg'.synced = 0 \/ (file.state = "whole" /\ cfg' = Usable(file.cfg))
      /\ asked' # NoConfig => /\ asked' = asked
                              /\ file.state = "whole" => cfg' = Usable(file.cfg)
  BY <1>1, <1>3, ConfigParts, LoadedIs
<1>5. TypeOK'
  <2>1. faults' \in 0..MaxFaults
    BY <1>1, ConfigAssumption DEF ConfigInv, TypeOK, Fault, ConfigAssumption
  <2>2. unsaved' \in BOOLEAN /\ asked' \in Patches \cup {NoConfig}
    BY <1>1, Zenon DEF ConfigInv, TypeOK
  <2> QED
    BY <1>1, <1>2, <1>4, <2>1, <2>2 DEF ConfigInv, TypeOK
<1>6. Places'
  BY <1>1, <1>2, ActorFacts DEF ConfigInv, Places
<1>7. InHand'
  BY <1>1, <1>2, <1>4, ActorFacts DEF InHand, Positive
<1>8. DiskSame'
  BY <1>1, <1>3 DEF DiskSame
<1>9. Found'
  BY <1>1, <1>2, <1>4 DEF ConfigInv, Found
<1>10. Alone' /\ PatchFresh' /\ PatchUp'
  BY <1>1, <1>2, ActorFacts DEF Alone, PatchFresh, PatchUp
<1>11. PatchOnDisk'
  <2>1. SUFFICES ASSUME ~Allowed("overlap"), asked' # NoConfig
                 PROVE  PatchOnDisk'
    BY <1>1 DEF PatchOnDisk, Allowed
  <2>2. /\ asked' = asked /\ agent # "up"
        /\ file.state = "whole" => cfg' = Usable(file.cfg)
    BY <1>2, <1>4, <2>1
  <2>3. file.state = "whole" /\ Positive(file.cfg) /\ Same(file.cfg)
    BY <2>1, <2>2 DEF ConfigInv, PatchOnDisk
  <2>4. cfg' = file.cfg
    BY <1>3, <2>2, <2>3, UsableIs
  <2> QED
    BY <1>1, <1>2, <2>2, <2>3, <2>4 DEF PatchOnDisk, Same, Positive
<1> QED
  BY <1>5, <1>6, <1>7, <1>8, <1>9, <1>10, <1>11 DEF ConfigInv

LEMMA MigrateKeeps ==
  ASSUME ConfigInv, Migrate
  PROVE  ConfigInv'
<1>1. /\ pc[Startup] = "migrate"
      /\ UNCHANGED <<file, legacy, backup, agent, hand, shown, paused,
                    saved, unsaved, asked, upsets, patches>>
  BY DEF Migrate, history, bounds, Fault
<1>2. PICK label \in {"lock", "show"} :
        /\ Goto(Startup, label)
        /\ label = "lock" => /\ ~HasTarget /\ legacy # NoConfig
                             /\ cfg' = Usable(legacy)
        /\ label = "show" => cfg' = cfg
        /\ faults' = faults \/ Fault
  BY DEF Migrate, bounds
<1>3. /\ pc' \in [Actors -> PCs]
      /\ pc'[Startup] = label /\ agent = "starting"
      /\ \A a \in Actors : a # Startup => pc'[a] = "idle" /\ pc[a] = "idle"
  BY <1>1, <1>2, ActorFacts DEF ConfigInv, TypeOK, Places, Goto, PCs
<1>4. cfg' \in Configs /\ Positive(cfg')
  <2>1. legacy # NoConfig => legacy \in Configs
    BY ConfigAssumption DEF ConfigInv, TypeOK, ConfigAssumption
  <2>2. cfg \in Configs /\ Positive(cfg)
    BY DEF ConfigInv, TypeOK, InHand
  <2> QED
    BY <1>2, <2>1, <2>2, UsableIs
<1>5. TypeOK'
  <2>1. faults' \in 0..MaxFaults
    BY <1>2, ConfigAssumption DEF ConfigInv, TypeOK, Fault, ConfigAssumption
  <2> QED
    BY <1>1, <1>3, <1>4, <2>1 DEF ConfigInv, TypeOK
<1>6. Places'
  BY <1>1, <1>3, ActorFacts DEF ConfigInv, Places
<1>7. InHand'
  BY <1>1, <1>3, <1>4, ActorFacts DEF InHand, Positive
<1>8. DiskSame'
  BY <1>1, <1>2, <1>3, ActorFacts DEF ConfigInv, DiskSame, Saving
<1>9. Found'
  BY <1>1, <1>2, <1>3 DEF ConfigInv, Found, HasTarget
<1>10. Alone' /\ PatchFresh' /\ PatchUp'
  BY <1>1, <1>3, ActorFacts DEF Alone, PatchFresh, PatchUp
<1>11. PatchOnDisk'
  BY <1>1, <1>2, <1>3 DEF ConfigInv, PatchOnDisk, Allowed, Same, Positive, HasTarget
<1> QED
  BY <1>5, <1>6, <1>7, <1>8, <1>9, <1>10, <1>11 DEF ConfigInv

LEMMA BackupKeeps ==
  ASSUME ConfigInv, BackupLegacy
  PROVE  ConfigInv'
<1>1. /\ pc[Startup] = "backup" /\ Goto(Startup, "show")
      /\ UNCHANGED <<cfg, file, legacy, agent, hand, shown, paused,
                    saved, unsaved, asked, upsets, patches>>
      /\ backup' = TRUE \/ backup' = backup
      /\ faults' = faults \/ Fault
  BY DEF BackupLegacy, history, bounds, Fault
<1>2. /\ pc' \in [Actors -> PCs]
      /\ pc'[Startup] = "show" /\ agent = "starting"
      /\ \A a \in Actors : a # Startup => pc'[a] = "idle" /\ pc[a] = "idle"
  BY <1>1, ActorFacts DEF ConfigInv, TypeOK, Places, Goto, PCs
<1>3. TypeOK'
  <2>1. backup' \in BOOLEAN
    BY <1>1, Zenon DEF ConfigInv, TypeOK
  <2>2. faults' \in 0..MaxFaults
    BY <1>1, ConfigAssumption DEF ConfigInv, TypeOK, Fault, ConfigAssumption
  <2> QED
    BY <1>1, <1>2, <2>1, <2>2 DEF ConfigInv, TypeOK
<1>4. Places'
  BY <1>1, <1>2, ActorFacts DEF ConfigInv, Places
<1>5. InHand'
  BY <1>1, <1>2, ActorFacts DEF ConfigInv, InHand, Positive
<1>6. DiskSame'
  BY <1>1, <1>2 DEF ConfigInv, DiskSame, Saving
<1>7. Found'
  BY <1>1, <1>2 DEF ConfigInv, Found
<1>8. Alone' /\ PatchFresh' /\ PatchUp'
  BY <1>1, <1>2, ActorFacts DEF Alone, PatchFresh, PatchUp
<1>9. PatchOnDisk'
  BY <1>1, <1>2 DEF ConfigInv, PatchOnDisk, Allowed, Same, Positive
<1> QED
  BY <1>3, <1>4, <1>5, <1>6, <1>7, <1>8, <1>9 DEF ConfigInv

LEMMA UpKeeps ==
  ASSUME ConfigInv, Up
  PROVE  ConfigInv'
<1>1. /\ pc[Startup] = "show" /\ Goto(Startup, "idle") /\ agent' = "up"
      /\ shown' = cfg.auto /\ paused' = (cfg.synced = 0)
      /\ UNCHANGED <<cfg, file, legacy, backup, hand,
                    saved, unsaved, asked, upsets, patches, faults>>
  BY DEF Up, store, history, bounds
<1>2. /\ pc' \in [Actors -> PCs]
      /\ pc'[Startup] = "idle" /\ agent = "starting"
      /\ \A a \in Actors : pc'[a] = "idle" /\ (a # Startup => pc[a] = "idle")
  BY <1>1, ActorFacts DEF ConfigInv, TypeOK, Places, Goto, PCs
<1>3. TypeOK'
  <2>1. shown' \in BOOLEAN
    BY <1>1, ConfigParts, Zenon DEF ConfigInv, TypeOK
  <2>2. paused' \in BOOLEAN
    BY <1>1, Zenon
  <2>3. Positive(cfg)
    BY DEF ConfigInv, InHand
  <2> QED
    BY <1>1, <1>2, <2>1, <2>2, <2>3 DEF ConfigInv, TypeOK, Positive
<1>4. Places'
  BY <1>1, <1>2, ActorFacts DEF ConfigInv, Places
<1>5. InHand'
  BY <1>1, <1>2, ActorFacts DEF ConfigInv, InHand, Positive
<1>6. DiskSame'
  BY <1>1, <1>2 DEF ConfigInv, DiskSame, Saving
<1>7. Found'
  BY <1>1, <1>2 DEF ConfigInv, Found
<1>8. Alone' /\ PatchFresh' /\ PatchOnDisk'
  BY <1>1, <1>2, ActorFacts DEF Alone, PatchFresh, PatchOnDisk
<1>9. PatchUp'
  <2>1. SUFFICES ASSUME ~Allowed("overlap"), asked # NoConfig
                 PROVE  PatchUp'
    BY <1>1 DEF PatchUp, Allowed
  <2>2. Same(cfg)
    BY <1>1, <1>2, <2>1 DEF ConfigInv, PatchOnDisk
  <2>3. cfg.auto = asked.auto
    BY <2>2 DEF Same, Settings
  <2> QED
    BY <1>1, <1>2, <2>2, <2>3, ActorFacts DEF PatchUp, Same
<1> QED
  BY <1>3, <1>4, <1>5, <1>6, <1>7, <1>8, <1>9 DEF ConfigInv

LEMMA StopKeeps ==
  ASSUME ConfigInv, Stop
  PROVE  ConfigInv'
<1>1. /\ agent # "down" /\ agent' = "down" /\ cfg' = Default
      /\ pc' = [a \in Actors |-> "idle"]
      /\ hand' = [a \in Actors |-> Default]
      /\ shown' = FALSE /\ paused' = FALSE /\ unsaved' = TRUE
      /\ asked' = IF Quiet /\ ~unsaved THEN asked ELSE NoConfig
      /\ UNCHANGED <<file, legacy, backup, saved, upsets, patches>>
      /\ faults' \in 0..MaxFaults
  BY ConfigAssumption DEF Stop, Fault, ConfigInv, TypeOK, ConfigAssumption
<1>2. \A a \in Actors : pc'[a] = "idle"
  BY <1>1
<1>3. TypeOK'
  <2>1. asked' \in Patches \cup {NoConfig}
    BY <1>1, Zenon DEF ConfigInv, TypeOK
  <2>2. pc' \in [Actors -> PCs] /\ hand' \in [Actors -> Configs]
    BY <1>1, ConfigParts DEF PCs
  <2> QED
    BY <1>1, <2>1, <2>2, ConfigParts DEF ConfigInv, TypeOK
<1>4. Places'
  BY <1>1, <1>2, ActorFacts DEF Places
<1>5. InHand'
  BY <1>1, <1>2, ActorFacts, ConfigParts DEF InHand, Positive
<1>6. DiskSame' /\ Alone' /\ PatchFresh' /\ PatchUp'
  BY <1>1, <1>2, ActorFacts DEF DiskSame, Alone, PatchFresh, PatchUp
<1>7. Found'
  BY <1>1, <1>2, ActorFacts DEF ConfigInv, Found
<1>8. PatchOnDisk'
  <2>1. SUFFICES ASSUME ~Allowed("overlap"), asked' # NoConfig
                 PROVE  PatchOnDisk'
    BY <1>1 DEF PatchOnDisk, Allowed
  <2>2. Quiet /\ ~unsaved /\ asked' = asked
    BY <1>1, <2>1
  <2>3. /\ \A a \in Actors : pc[a] = "idle"
        /\ agent = "up"
    BY <1>1, <2>2, ActorFacts DEF Quiet, ConfigInv, Places, TypeOK
  <2>4. file = [state |-> "whole", cfg |-> cfg]
    BY <2>2, <2>3, ActorFacts DEF ConfigInv, DiskSame, Saving
  <2>5. Same(cfg) /\ Positive(cfg)
    BY <2>1, <2>2, <2>3, ActorFacts DEF ConfigInv, PatchUp, InHand
  <2>6. file.state = "whole" /\ file.cfg = cfg
    BY <2>4
  <2> QED
    BY <1>1, <1>2, <2>2, <2>5, <2>6, ActorFacts DEF PatchOnDisk, Same, Positive
<1> QED
  BY <1>3, <1>4, <1>5, <1>6, <1>7, <1>8 DEF ConfigInv

-----------------------------------------------------------------------------
(***************************************************************************)
(* Save, by whichever actor.                                               *)
(***************************************************************************)
LEMMA Running ==
  ASSUME ConfigInv, NEW a \in Actors, pc[a] # "idle"
  PROVE  /\ a = Startup => /\ agent = "starting"
                           /\ \A b \in Actors : b # Startup => pc[b] = "idle"
         /\ a # Startup => agent = "up" /\ pc[Startup] = "idle"
BY ActorFacts DEF ConfigInv, TypeOK, Places

LEMMA AfterSaveIs ==
  ASSUME NEW a \in Actors
  PROVE  /\ AfterSave(a) \in PCs
         /\ a \in Handlers => AfterSave(a) = "get"
         /\ a = Startup => AfterSave(a) = "backup"
         /\ a = Worker => AfterSave(a) = "idle"
BY ActorFacts DEF AfterSave, PCs

(* The handlers and their patches where an actor goes on in a save.        *)
LEMMA SaverKeeps ==
  ASSUME ConfigInv, NEW a \in Actors, NEW label \in PCs, NEW c \in Configs,
         Moves(a, label, c),
         a \in Handlers => /\ pc[a] \notin {"idle", "update"}
                           /\ label \notin {"idle", "update", "show"},
         UNCHANGED <<cfg, agent, shown, asked, upsets>>
  PROVE  Alone' /\ PatchUp' /\ PatchFresh'
<1>1. \A h \in Handlers :
        /\ pc[h] = "idle" <=> pc'[h] = "idle"
        /\ pc[h] = "update" <=> pc'[h] = "update"
        /\ pc'[h] \in {"update", "show"} => pc'[h] = pc[h] /\ hand'[h] = hand[h]
  BY Moved, ActorFacts DEF ConfigInv
<1>2. Alone'
  BY <1>1 DEF ConfigInv, Alone, Allowed
<1>3. PatchUp'
  BY <1>1 DEF ConfigInv, PatchUp, Allowed, Same
<1>4. PatchFresh'
  BY <1>1 DEF ConfigInv, PatchFresh
<1> QED
  BY <1>2, <1>3, <1>4

LEMMA SaveLockKeeps ==
  ASSUME ConfigInv, NEW a \in Actors, SaveLock(a)
  PROVE  ConfigInv'
<1>1. /\ pc[a] = "lock" /\ Moves(a, "open", cfg)
      /\ UNCHANGED <<cfg, file, legacy, backup, agent, shown, paused,
                    saved, unsaved, asked, upsets, patches, faults>>
  BY MovesIs DEF SaveLock, store, history, bounds, ConfigInv
<1>2. cfg \in Configs /\ "open" \in PCs
  BY DEF ConfigInv, TypeOK, PCs
<1>3. /\ pc' \in [Actors -> PCs] /\ hand' \in [Actors -> Configs]
      /\ pc'[a] = "open" /\ hand'[a] = cfg
      /\ \A b \in Actors : b # a => pc'[b] = pc[b] /\ hand'[b] = hand[b]
  BY <1>1, <1>2, Moved DEF ConfigInv
<1>4. TypeOK'
  BY <1>1, <1>3 DEF ConfigInv, TypeOK
<1>5. Places'
  BY <1>1, <1>3, Running, ActorFacts DEF ConfigInv, Places
<1>6. InHand'
  BY <1>1, <1>3, ActorFacts DEF ConfigInv, InHand, Positive
<1>7. DiskSame'
  BY <1>3 DEF DiskSame, Saving
<1>8. Found'
  BY <1>1, <1>3, ActorFacts DEF ConfigInv, Found, HasTarget
<1>9. Alone' /\ PatchUp' /\ PatchFresh'
  BY <1>1, <1>2, SaverKeeps
<1>10. PatchOnDisk'
  BY <1>1, <1>3, Running DEF ConfigInv, PatchOnDisk, Allowed
<1> QED
  BY <1>4, <1>5, <1>6, <1>7, <1>8, <1>9, <1>10 DEF ConfigInv

LEMMA SaveOpenKeeps ==
  ASSUME ConfigInv, NEW a \in Actors, SaveOpen(a)
  PROVE  ConfigInv'
<1>1. /\ pc[a] = "open" /\ Moves(a, "write", hand[a])
      /\ file' = [state |-> "torn", cfg |-> hand[a]]
      /\ UNCHANGED <<cfg, legacy, backup, agent, shown, paused,
                    saved, unsaved, asked, upsets, patches, faults>>
  BY MovesIs DEF SaveOpen, history, bounds, ConfigInv
<1>2. hand[a] = cfg /\ cfg \in Configs /\ "write" \in PCs
  BY <1>1 DEF ConfigInv, TypeOK, InHand, PCs
<1>3. /\ pc' \in [Actors -> PCs] /\ hand' \in [Actors -> Configs]
      /\ pc'[a] = "write" /\ hand'[a] = cfg
      /\ \A b \in Actors : b # a => pc'[b] = pc[b] /\ hand'[b] = hand[b]
  BY <1>1, <1>2, Moved DEF ConfigInv
<1>4. TypeOK'
  BY <1>1, <1>2, <1>3 DEF ConfigInv, TypeOK
<1>5. Places'
  BY <1>1, <1>3, Running, ActorFacts DEF ConfigInv, Places
<1>6. InHand'
  BY <1>1, <1>3, ActorFacts DEF ConfigInv, InHand, Positive
<1>7. DiskSame'
  BY <1>3 DEF DiskSame, Saving
<1>8. Found'
  BY <1>1, <1>3, Running, ActorFacts DEF ConfigInv, Found, HasTarget
<1>9. Alone' /\ PatchUp' /\ PatchFresh'
  BY <1>1, <1>2, SaverKeeps
<1>10. PatchOnDisk'
  BY <1>1, <1>3, Running DEF ConfigInv, PatchOnDisk, Allowed
<1> QED
  BY <1>4, <1>5, <1>6, <1>7, <1>8, <1>9, <1>10 DEF ConfigInv

LEMMA SaveWriteKeeps ==
  ASSUME ConfigInv, NEW a \in Actors, SaveWrite(a)
  PROVE  ConfigInv'
<1>1. /\ pc[a] = "write" /\ Moves(a, AfterSave(a), Default)
      /\ file' = [state |-> "whole", cfg |-> hand[a]]
      /\ saved' = hand[a] /\ unsaved' = FALSE
      /\ UNCHANGED <<cfg, legacy, backup, agent, shown, paused,
                    asked, upsets, patches, faults>>
  BY MovesIs DEF SaveWrite, bounds, ConfigInv
<1>2. hand[a] = cfg /\ cfg \in Configs
  BY <1>1 DEF ConfigInv, TypeOK, InHand
<1>3. /\ AfterSave(a) \in PCs
      /\ a \in Handlers => AfterSave(a) = "get"
      /\ a = Startup => AfterSave(a) = "backup"
      /\ a = Worker => AfterSave(a) = "idle"
      /\ AfterSave(a) \notin {"update", "show", "load", "lock", "open", "write"}
  BY AfterSaveIs, ActorFacts
<1>4. /\ pc' \in [Actors -> PCs] /\ hand' \in [Actors -> Configs]
      /\ pc'[a] = AfterSave(a)
      /\ \A b \in Actors : b # a => pc'[b] = pc[b] /\ hand'[b] = hand[b]
  BY <1>1, <1>3, ConfigParts, Moved DEF ConfigInv
<1>5. TypeOK'
  <2>1. unsaved' \in BOOLEAN
    BY <1>1
  <2> QED
    BY <1>1, <1>2, <1>4, <2>1 DEF ConfigInv, TypeOK
<1>6. Places'
  BY <1>1, <1>3, <1>4, Running, ActorFacts DEF ConfigInv, Places
<1>7. InHand'
  BY <1>1, <1>3, <1>4, ActorFacts DEF ConfigInv, InHand, Positive
<1>8. DiskSame'
  BY <1>1, <1>2 DEF DiskSame
<1>9. Found'
  BY <1>1, <1>2, <1>3, <1>4, Running, ActorFacts DEF ConfigInv, Found, HasTarget
<1>10. Alone' /\ PatchUp' /\ PatchFresh'
  BY <1>1, <1>3, ConfigParts, SaverKeeps
<1>11. PatchOnDisk'
  BY <1>1, <1>4, Running DEF ConfigInv, PatchOnDisk, Allowed
<1> QED
  BY <1>5, <1>6, <1>7, <1>8, <1>9, <1>10, <1>11 DEF ConfigInv

LEMMA SaveFailsKeeps ==
  ASSUME ConfigInv, NEW a \in Actors, SaveFails(a)
  PROVE  ConfigInv'
<1> DEFINE label == IF a = Startup THEN "show" ELSE "idle"
<1>1. /\ pc[a] \in {"open", "write"} /\ Moves(a, label, Default)
      /\ unsaved' = TRUE
      /\ asked' = IF a \in Handlers THEN NoConfig ELSE asked
      /\ UNCHANGED <<cfg, file, legacy, backup, agent, shown, paused,
                    saved, upsets, patches>>
      /\ Fault
  BY MovesIs DEF SaveFails, store, Fault, ConfigInv
<1>2. label \in PCs
  BY DEF PCs
<1>3. /\ pc' \in [Actors -> PCs] /\ hand' \in [Actors -> Configs]
      /\ pc'[a] = label
      /\ \A b \in Actors : b # a => pc'[b] = pc[b] /\ hand'[b] = hand[b]
  BY <1>1, <1>2, ConfigParts, Moved DEF ConfigInv
<1>4. /\ a = Startup => pc'[a] = "show"
      /\ a # Startup => pc'[a] = "idle"
  BY <1>3
<1>5. TypeOK'
  <2>1. faults' \in 0..MaxFaults
    BY <1>1, ConfigAssumption DEF ConfigInv, TypeOK, Fault, ConfigAssumption
  <2>2. unsaved' \in BOOLEAN /\ asked' \in Patches \cup {NoConfig}
    BY <1>1, Zenon DEF ConfigInv, TypeOK
  <2> QED
    BY <1>1, <1>3, <2>1, <2>2 DEF ConfigInv, TypeOK
<1>6. Places'
  BY <1>1, <1>3, <1>4, Running, ActorFacts DEF ConfigInv, Places
<1>7. InHand'
  BY <1>1, <1>3, <1>4, ActorFacts DEF ConfigInv, InHand, Positive
<1>8. DiskSame'
  BY <1>1 DEF DiskSame
<1>9. Found'
  BY <1>1, <1>3, <1>4, Running, ActorFacts DEF ConfigInv, Found, HasTarget
<1>10. Alone' /\ PatchUp' /\ PatchFresh'
  <2>1. CASE a \notin Handlers
    BY <1>1, <1>2, <2>1, ConfigParts, SaverKeeps
  <2>2. CASE a \in Handlers
    <3>1. Alone'
      BY <1>1, <1>3, <1>4, <2>2, ActorFacts DEF ConfigInv, Alone, Allowed
    <3>2. PatchUp'
      BY <1>1, <2>2 DEF PatchUp
    <3>3. PatchFresh'
      <4>1. SUFFICES ASSUME upsets \cap {"overlap", "meanwhile"} = {},
                            NEW h \in Handlers, pc'[h] = "update"
                     PROVE  FALSE
        BY <1>1 DEF PatchFresh
      <4>2. h # a /\ pc[h] = "update"
        BY <1>3, <1>4, <2>2, <4>1, ActorFacts
      <4>3. ~Allowed("overlap")
        BY <4>1 DEF Allowed
      <4> QED
        BY <1>1, <2>2, <4>2, <4>3 DEF ConfigInv, Alone
    <3> QED
      BY <3>1, <3>2, <3>3
  <2> QED
    BY <2>1, <2>2
<1>11. PatchOnDisk'
  BY <1>1, <1>3, Running DEF ConfigInv, PatchOnDisk, Allowed
<1> QED
  BY <1>5, <1>6, <1>7, <1>8, <1>9, <1>10, <1>11 DEF ConfigInv

-----------------------------------------------------------------------------
(***************************************************************************)
(* The handlers and the worker.                                            *)
(***************************************************************************)
LEMMA BeginPatchKeeps ==
  ASSUME ConfigInv, NEW h \in Handlers, BeginPatch(h)
  PROVE  ConfigInv'
<1>1. PICK patch \in Patches :
        /\ Valid(patch) /\ Keep(h, Patched(cfg, patch)) /\ asked' = patch
  BY DEF BeginPatch
<1>2. /\ agent = "up" /\ pc[h] = "idle" /\ Moves(h, "update", Patched(cfg, patch))
      /\ UNCHANGED <<cfg, file, legacy, backup, agent, shown, paused,
                    saved, unsaved, upsets, faults>>
  BY <1>1, MovesIs, ActorFacts DEF BeginPatch, store, ConfigInv
<1>3. Allowed("overlap") \/ \A g \in Handlers : pc[g] = "idle"
  BY DEF BeginPatch
<1>4. /\ Patched(cfg, patch) \in Configs /\ Positive(Patched(cfg, patch))
      /\ Settings(Patched(cfg, patch)) = Settings(patch)
  BY <1>1, PatchedIs DEF ConfigInv, TypeOK
<1>5. /\ pc' \in [Actors -> PCs] /\ hand' \in [Actors -> Configs]
      /\ pc'[h] = "update" /\ hand'[h] = Patched(cfg, patch)
      /\ \A b \in Actors : b # h => pc'[b] = pc[b] /\ hand'[b] = hand[b]
  BY <1>2, <1>4, Moved, ActorFacts DEF ConfigInv, PCs
<1>6. TypeOK'
  <2>1. patches' \in 0..MaxPatches
    BY ConfigAssumption DEF BeginPatch, ConfigInv, TypeOK, ConfigAssumption
  <2> QED
    BY <1>1, <1>2, <1>5, <2>1 DEF ConfigInv, TypeOK
<1>7. Places'
  BY <1>2, <1>5, ActorFacts DEF ConfigInv, Places
<1>8. InHand'
  BY <1>2, <1>4, <1>5, ActorFacts DEF ConfigInv, InHand, Positive
<1>9. DiskSame'
  BY <1>2, <1>5, ActorFacts DEF ConfigInv, DiskSame, Saving
<1>10. Found'
  BY <1>2, <1>5, ActorFacts DEF ConfigInv, Found, HasTarget
<1>11. Alone'
  BY <1>2, <1>3, <1>5, ActorFacts DEF Alone, Allowed
<1>12. PatchUp'
  <2>1. SUFFICES ASSUME ~Allowed("overlap")
                 PROVE  PatchUp'
    BY <1>2 DEF PatchUp, Allowed
  <2>2. \A g \in Handlers : g # h => pc'[g] = "idle"
    BY <1>3, <1>5, <2>1, ActorFacts
  <2>3. Same(hand[h])'
    BY <1>1, <1>4, <1>5 DEF Same
  <2> QED
    BY <1>5, <2>2, <2>3 DEF PatchUp
<1>13. PatchOnDisk'
  BY <1>2 DEF PatchOnDisk
<1>14. PatchFresh'
  <2>1. SUFFICES ASSUME upsets \cap {"overlap", "meanwhile"} = {}
                 PROVE  PatchFresh'
    BY <1>2 DEF PatchFresh
  <2>2. \A g \in Handlers : g # h => pc'[g] = "idle"
    BY <1>3, <1>5, <2>1, ActorFacts DEF Allowed
  <2> QED
    BY <1>1, <1>2, <1>5, <2>2 DEF PatchFresh
<1> QED
  BY <1>6, <1>7, <1>8, <1>9, <1>10, <1>11, <1>12, <1>13, <1>14 DEF ConfigInv

LEMMA UpdateKeeps ==
  ASSUME ConfigInv, NEW h \in Handlers, Update(h)
  PROVE  ConfigInv'
<1>1. /\ pc[h] = "update" /\ MayWriteLock /\ cfg' = hand[h]
      /\ Moves(h, "lock", Default)
      /\ UNCHANGED <<file, legacy, backup, agent, shown, paused,
                    saved, unsaved, asked, upsets, patches, faults>>
  BY MovesIs, ActorFacts DEF Update, history, bounds, ConfigInv
<1>2. agent = "up" /\ pc[Startup] = "idle"
  BY <1>1, Running, ActorFacts
<1>3. hand[h] \in Configs /\ Positive(hand[h])
  BY <1>1, ActorFacts DEF ConfigInv, TypeOK, InHand
<1>4. /\ pc' \in [Actors -> PCs] /\ hand' \in [Actors -> Configs]
      /\ pc'[h] = "lock"
      /\ \A b \in Actors : b # h => pc'[b] = pc[b] /\ hand'[b] = hand[b]
  BY <1>1, ConfigParts, Moved, ActorFacts DEF ConfigInv, PCs
<1>5. TypeOK'
  BY <1>1, <1>3, <1>4 DEF ConfigInv, TypeOK, Positive
<1>6. Places'
  BY <1>1, <1>2, <1>4, ActorFacts DEF ConfigInv, Places
<1>7. InHand'
  BY <1>1, <1>3, <1>4, ActorFacts DEF ConfigInv, InHand, MayWriteLock, Positive
<1>8. DiskSame'
  BY <1>4, ActorFacts DEF DiskSame, Saving
<1>9. Found'
  BY <1>1, <1>2, <1>4, ActorFacts DEF ConfigInv, Found
<1>10. Alone'
  BY <1>1, <1>4, ActorFacts DEF ConfigInv, Alone, Allowed
<1>11. ~Allowed("overlap") => \A g \in Handlers : g # h => pc'[g] = "idle"
  BY <1>1, <1>4, ActorFacts DEF ConfigInv, Alone
<1>12. PatchUp'
  <2>1. SUFFICES ASSUME ~Allowed("overlap"), asked # NoConfig
                 PROVE  PatchUp'
    BY <1>1 DEF PatchUp, Allowed
  <2>2. Same(cfg)'
    BY <1>1, <1>2, <2>1 DEF ConfigInv, PatchUp, Same
  <2> QED
    BY <1>4, <1>11, <2>1, <2>2 DEF PatchUp
<1>13. PatchOnDisk'
  BY <1>1, <1>2 DEF PatchOnDisk
<1>14. PatchFresh'
  BY <1>1, <1>4, <1>11 DEF PatchFresh, Allowed
<1> QED
  BY <1>5, <1>6, <1>7, <1>8, <1>9, <1>10, <1>12, <1>13, <1>14 DEF ConfigInv

LEMMA RereadKeeps ==
  ASSUME ConfigInv, NEW h \in Handlers, Reread(h)
  PROVE  ConfigInv'
<1>1. /\ pc[h] = "get" /\ Moves(h, "show", cfg)
      /\ UNCHANGED <<cfg, file, legacy, backup, agent, shown, paused,
                    saved, unsaved, asked, upsets, patches, faults>>
  BY MovesIs, ActorFacts DEF Reread, store, history, bounds, ConfigInv
<1>2. agent = "up" /\ pc[Startup] = "idle"
  BY <1>1, Running, ActorFacts
<1>3. /\ pc' \in [Actors -> PCs] /\ hand' \in [Actors -> Configs]
      /\ pc'[h] = "show" /\ hand'[h] = cfg
      /\ \A b \in Actors : b # h => pc'[b] = pc[b] /\ hand'[b] = hand[b]
  <2>1. cfg \in Configs /\ "show" \in PCs
    BY DEF ConfigInv, TypeOK, PCs
  <2> QED
    BY <1>1, <2>1, Moved, ActorFacts DEF ConfigInv
<1>4. TypeOK'
  BY <1>1, <1>3 DEF ConfigInv, TypeOK
<1>5. Places'
  BY <1>1, <1>2, <1>3, ActorFacts DEF ConfigInv, Places
<1>6. InHand'
  BY <1>1, <1>3, ActorFacts DEF ConfigInv, InHand, Positive
<1>7. DiskSame'
  BY <1>1, <1>3, ActorFacts DEF ConfigInv, DiskSame, Saving
<1>8. Found'
  BY <1>1, <1>3, ActorFacts DEF ConfigInv, Found, HasTarget
<1>9. Alone' /\ PatchOnDisk'
  BY <1>1, <1>2, <1>3, ActorFacts DEF ConfigInv, Alone, PatchOnDisk, Allowed
<1>10. PatchUp'
  <2>1. SUFFICES ASSUME ~Allowed("overlap"), asked # NoConfig
                 PROVE  PatchUp'
    BY <1>1 DEF PatchUp, Allowed
  <2>2. \A g \in Handlers : g # h => pc[g] = "idle" /\ pc'[g] = "idle"
    BY <1>1, <1>3, <2>1, ActorFacts DEF ConfigInv, Alone
  <2>3. Same(cfg)
    BY <1>1, <1>2, <2>1, <2>2 DEF ConfigInv, PatchUp
  <2>4. cfg.auto = asked.auto
    BY <2>3 DEF Same, Settings
  <2> QED
    BY <1>1, <1>3, <2>2, <2>3, <2>4 DEF PatchUp, Same
<1>11. PatchFresh'
  BY <1>1, <1>3, ActorFacts DEF ConfigInv, PatchFresh
<1> QED
  BY <1>4, <1>5, <1>6, <1>7, <1>8, <1>9, <1>10, <1>11 DEF ConfigInv

LEMMA AnswerKeeps ==
  ASSUME ConfigInv, NEW h \in Handlers, Answer(h)
  PROVE  ConfigInv'
<1>1. /\ pc[h] = "show" /\ Moves(h, "idle", Default)
      /\ shown' = hand[h].auto
      /\ UNCHANGED <<cfg, file, legacy, backup, agent, paused,
                    saved, unsaved, asked, upsets, patches, faults>>
  BY MovesIs, ActorFacts DEF Answer, store, history, bounds, ConfigInv
<1>2. agent = "up" /\ pc[Startup] = "idle"
  BY <1>1, Running, ActorFacts
<1>3. /\ pc' \in [Actors -> PCs] /\ hand' \in [Actors -> Configs]
      /\ pc'[h] = "idle"
      /\ \A b \in Actors : b # h => pc'[b] = pc[b] /\ hand'[b] = hand[b]
  BY <1>1, ConfigParts, Moved, ActorFacts DEF ConfigInv, PCs
<1>4. TypeOK'
  <2>1. hand[h] \in Configs
    BY ActorFacts DEF ConfigInv, TypeOK
  <2>2. shown' \in BOOLEAN
    BY <1>1, <2>1, ConfigParts, Zenon
  <2> QED
    BY <1>1, <1>3, <2>2 DEF ConfigInv, TypeOK
<1>5. Places'
  BY <1>1, <1>2, <1>3, ActorFacts DEF ConfigInv, Places
<1>6. InHand'
  BY <1>1, <1>3, ActorFacts DEF ConfigInv, InHand, Positive
<1>7. DiskSame'
  BY <1>1, <1>3, ActorFacts DEF ConfigInv, DiskSame, Saving
<1>8. Found'
  BY <1>1, <1>3, ActorFacts DEF ConfigInv, Found, HasTarget
<1>9. Alone' /\ PatchOnDisk'
  BY <1>1, <1>2, <1>3, ActorFacts DEF ConfigInv, Alone, PatchOnDisk, Allowed
<1>10. PatchUp'
  <2>1. SUFFICES ASSUME ~Allowed("overlap"), asked # NoConfig
                 PROVE  PatchUp'
    BY <1>1 DEF PatchUp, Allowed
  <2>2. \A g \in Handlers : g # h => pc[g] = "idle"
    BY <1>1, <2>1, ActorFacts DEF ConfigInv, Alone
  <2>3. Same(cfg) /\ hand[h].auto = asked.auto
    BY <1>1, <1>2, <2>1, <2>2 DEF ConfigInv, PatchUp
  <2>4. Same(cfg)' /\ shown' = asked'.auto
    BY <1>1, <2>3 DEF Same
  <2>5. \A g \in Handlers : pc'[g] = "idle"
    BY <1>3, <2>2, ActorFacts
  <2> QED
    BY <2>4, <2>5 DEF PatchUp
<1>11. PatchFresh'
  BY <1>1, <1>3, ActorFacts DEF ConfigInv, PatchFresh
<1> QED
  BY <1>4, <1>5, <1>6, <1>7, <1>8, <1>9, <1>10, <1>11 DEF ConfigInv

LEMMA RecordKeeps ==
  ASSUME ConfigInv, NEW stamp \in Stamps, RecordSynced(stamp)
  PROVE  ConfigInv'
<1>1. /\ agent = "up" /\ pc[Worker] = "idle" /\ MayWriteLock
      /\ cfg' = [cfg EXCEPT !.synced = stamp]
      /\ Moves(Worker, "lock", hand[Worker])
      /\ UNCHANGED <<file, legacy, backup, agent, shown, paused,
                    saved, unsaved, asked, upsets, patches, faults>>
  BY MovesIs, ActorFacts DEF RecordSynced, RecordGuard, history, bounds, ConfigInv
<1>2. Allowed("meanwhile") \/ \A h \in Handlers : pc[h] # "update"
  BY DEF RecordSynced, RecordGuard
<1>3. /\ cfg' \in Configs /\ Settings(cfg') = Settings(cfg)
      /\ cfg'.interval = cfg.interval
  <2>1. stamp \in Nat
    BY ConfigAssumption DEF ConfigAssumption
  <2>2. cfg \in Configs
    BY DEF ConfigInv, TypeOK
  <2>3. /\ cfg'.paths = cfg.paths /\ cfg'.auto = cfg.auto
        /\ cfg'.interval = cfg.interval
    BY <1>1, <2>2 DEF Configs
  <2>4. cfg' \in Configs
    BY <1>1, <2>1, <2>2 DEF Configs
  <2> QED
    BY <2>3, <2>4 DEF Settings
<1>4. /\ pc' \in [Actors -> PCs] /\ hand' \in [Actors -> Configs]
      /\ pc'[Worker] = "lock"
      /\ \A b \in Actors : b # Worker => pc'[b] = pc[b] /\ hand'[b] = hand[b]
  <2>1. hand[Worker] \in Configs /\ "lock" \in PCs
    BY ActorFacts DEF ConfigInv, TypeOK, PCs
  <2> QED
    BY <1>1, <2>1, Moved, ActorFacts DEF ConfigInv
<1>5. Positive(cfg) /\ Positive(cfg')
  BY <1>3 DEF ConfigInv, InHand, Positive
<1>6. TypeOK'
  BY <1>1, <1>3, <1>4, <1>5 DEF ConfigInv, TypeOK, Positive
<1>7. Places'
  BY <1>1, <1>4, ActorFacts DEF ConfigInv, Places
<1>8. InHand'
  BY <1>1, <1>4, <1>5, ActorFacts DEF ConfigInv, InHand, MayWriteLock, Positive
<1>9. DiskSame'
  BY <1>4, ActorFacts DEF DiskSame, Saving
<1>10. Found'
  <2>1. pc[Startup] = "idle" /\ pc'[Startup] = "idle"
    BY <1>1, <1>4, ActorFacts DEF ConfigInv, Places, TypeOK
  <2> QED
    BY <1>1, <2>1 DEF ConfigInv, Found
<1>11. Alone'
  BY <1>1, <1>4, ActorFacts DEF ConfigInv, Alone, Allowed
<1>12. PatchUp'
  <2>1. \A h \in Handlers : pc'[h] = pc[h] /\ hand'[h] = hand[h]
    BY <1>4, ActorFacts
  <2> QED
    BY <1>1, <1>3, <2>1 DEF ConfigInv, PatchUp, Allowed, Same
<1>13. PatchOnDisk'
  BY <1>1 DEF PatchOnDisk
<1>14. PatchFresh'
  BY <1>1, <1>2, <1>4, ActorFacts DEF PatchFresh, Allowed
<1> QED
  BY <1>6, <1>7, <1>8, <1>9, <1>10, <1>11, <1>12, <1>13, <1>14 DEF ConfigInv

-----------------------------------------------------------------------------
LEMMA InvInit ==
  ASSUME Init
  PROVE  ConfigInv
<1>1. PICK own \in OwnFiles :
        file = IF own = NoConfig THEN [state |-> "absent", cfg |-> Default]
               ELSE [state |-> "whole", cfg |-> own]
  BY DEF Init
<1>2. file \in [state : {"absent", "torn", "whole"}, cfg : Configs]
  <2>1. own # NoConfig => own \in Configs
    BY ConfigAssumption DEF ConfigAssumption
  <2> QED
    BY <1>1, <2>1, ConfigParts
<1>3. /\ pc \in [Actors -> PCs] /\ hand \in [Actors -> Configs]
      /\ \A a \in Actors : pc[a] = "idle"
  BY ConfigParts DEF Init, PCs
<1>4. TypeOK
  <2>1. /\ cfg \in Configs /\ saved \in Configs /\ asked \in Patches \cup {NoConfig}
        /\ legacy \in LegacyFiles /\ upsets \in Upsets /\ agent = "down"
    BY <1>2, ConfigParts DEF Init
  <2>2. /\ backup \in BOOLEAN /\ shown \in BOOLEAN /\ paused \in BOOLEAN
        /\ unsaved \in BOOLEAN
    BY DEF Init
  <2>3. patches \in 0..MaxPatches /\ faults \in 0..MaxFaults
    BY ConfigAssumption DEF Init, ConfigAssumption
  <2> QED
    BY <1>2, <1>3, <2>1, <2>2, <2>3 DEF TypeOK
<1>5. Places
  BY <1>3, ActorFacts DEF Init, Places
<1>6. InHand
  BY <1>3, ActorFacts, ConfigParts DEF Init, InHand
<1>7. DiskSame /\ Found
  BY <1>3, ActorFacts DEF Init, DiskSame, Found
<1>8. Alone /\ PatchUp /\ PatchOnDisk /\ PatchFresh
  BY <1>3, ActorFacts DEF Init, Alone, PatchUp, PatchOnDisk, PatchFresh
<1> QED
  BY <1>4, <1>5, <1>6, <1>7, <1>8 DEF ConfigInv

LEMMA InvStep ==
  ASSUME ConfigInv, [Next]_vars
  PROVE  ConfigInv'
<1>1. CASE Start \/ Load \/ Migrate \/ BackupLegacy \/ Up \/ Stop
  BY <1>1, StartKeeps, LoadKeeps, MigrateKeeps, BackupKeeps, UpKeeps, StopKeeps
<1>2. ASSUME NEW a \in Actors, SaveStep(a) \/ SaveFails(a)
      PROVE  ConfigInv'
  BY <1>2, SaveLockKeeps, SaveOpenKeeps, SaveWriteKeeps, SaveFailsKeeps DEF SaveStep
<1>3. ASSUME NEW h \in Handlers, BeginPatch(h) \/ HandlerStep(h)
      PROVE  ConfigInv'
  BY <1>3, BeginPatchKeeps, UpdateKeeps, RereadKeeps, AnswerKeeps DEF HandlerStep
<1>4. ASSUME NEW stamp \in Stamps, RecordSynced(stamp)
      PROVE  ConfigInv'
  BY <1>4, RecordKeeps
<1>5. CASE UNCHANGED vars
  BY <1>5 DEF vars, store, history, bounds, ConfigInv, TypeOK, Places, InHand,
              DiskSame, Saving, Found, HasTarget, Alone, Allowed, PatchUp,
              PatchOnDisk, PatchFresh, Same, Positive
<1> QED
  BY <1>1, <1>2, <1>3, <1>4, <1>5 DEF Next

LEMMA ConfigInvHolds == Spec => []ConfigInv
<1>1. Init => ConfigInv
  BY InvInit
<1>2. ConfigInv /\ [Next]_vars => ConfigInv'
  BY InvStep
<1> QED
  BY <1>1, <1>2, PTL DEF Spec

-----------------------------------------------------------------------------
(* Whatever config.yaml, the legacy files and the UI say, whatever fails   *)
(* and wherever the agent stops: every configuration in memory, in hand    *)
(* and on disk is one, and an agent that runs has usable intervals         *)
(* (applyDefaults, validateConfigPatch).                                   *)
THEOREM ConfigTypeCorrect == Spec => []TypeOK
<1>1. ConfigInv => TypeOK
  BY DEF ConfigInv
<1> QED
  BY <1>1, ConfigInvHolds, PTL

(* With any number of connections whose saves overlap with each other and  *)
(* with those of the worker: once nobody is saving, config.yaml has what   *)
(* the agent works with (Save keeps the read lock, config.go:97).          *)
THEOREM DiskFollowsMemoryHolds == Spec => []DiskFollowsMemory
<1>1. ConfigInv => DiskFollowsMemory
  BY ActorFacts DEF ConfigInv, Places, DiskSame, DiskFollowsMemory
<1> QED
  BY <1>1, ConfigInvHolds, PTL

(* Settings that were saved stay over restarts and whatever the worker     *)
(* records, if the UI saves one at a time.                                 *)
THEOREM SettingsKeptHolds == Spec => []SettingsKept
<1>1. ConfigInv => SettingsKept
  BY DEF ConfigInv, PatchUp, SettingsKept, Same
<1> QED
  BY <1>1, ConfigInvHolds, PTL

(* An agent that stopped anywhere comes up with what was saved before,     *)
(* with the configuration of the Python version, or paused; and the start  *)
(* never writes over a config.yaml (MigrateFromLegacyPaths).               *)
THEOREM RestartKnownHolds == Spec => RestartKnown
<1> DEFINE Known == /\ Up => \/ paused'
                             \/ cfg' = Usable(saved)
                             \/ legacy # NoConfig /\ cfg' = Usable(legacy)
                    /\ SaveOpen(Startup) => ~HasTarget
<1>1. ASSUME ConfigInv, Up
      PROVE  paused' \/ cfg' = Usable(saved) \/ (legacy # NoConfig /\ cfg' = Usable(legacy))
  <2>1. pc[Startup] = "show" /\ paused' = (cfg.synced = 0) /\ cfg' = cfg
    BY <1>1 DEF Up, store
  <2>2. cfg.synced = 0 \/ cfg = Usable(saved) \/ (legacy # NoConfig /\ cfg = Usable(legacy))
    BY <1>1, <2>1 DEF ConfigInv, Found
  <2> QED
    BY <2>1, <2>2, Zenon
<1>2. ASSUME ConfigInv, SaveOpen(Startup)
      PROVE  ~HasTarget
  BY <1>2 DEF SaveOpen, ConfigInv, Found
<1>3. ConfigInv => [Known]_vars
  BY <1>1, <1>2
<1> QED
  BY <1>3, ConfigInvHolds, PTL DEF RestartKnown

(* Saving settings does not take back what was recorded as synced, unless  *)
(* the worker records it between the copy and the update of a handler.     *)
THEOREM SyncedKeptHolds == Spec => SyncedKept
<1> DEFINE Kept1 == /\ agent = "up" /\ agent' = "up"
                    /\ upsets \cap {"overlap", "meanwhile"} = {}
                    /\ cfg'.synced < cfg.synced
                    => asked.synced # Kept
<1>1. ASSUME ConfigInv, Next, agent = "up", agent' = "up",
             upsets \cap {"overlap", "meanwhile"} = {},
             cfg'.synced < cfg.synced, asked.synced = Kept
      PROVE  FALSE
  <2>1. cfg \in Configs /\ cfg.synced \in Nat /\ ~(cfg.synced < cfg.synced)
    BY <1>1, ConfigParts DEF ConfigInv, TypeOK
  <2>2. pc[Startup] = "idle"
    BY <1>1 DEF ConfigInv, Places
  <2>3. cfg' # cfg
    BY <1>1, <2>1
  <2>4. ASSUME NEW stamp \in Stamps, RecordSynced(stamp)
        PROVE  FALSE
    <3>1. stamp > cfg.synced /\ cfg' = [cfg EXCEPT !.synced = stamp]
      BY <2>4 DEF RecordSynced, RecordGuard
    <3>2. cfg'.synced = stamp /\ stamp \in Nat
      BY <2>1, <3>1, ConfigAssumption DEF Configs, ConfigAssumption
    <3> QED
      BY <1>1, <2>1, <3>1, <3>2
  <2>5. ASSUME NEW h \in Handlers, Update(h)
        PROVE  FALSE
    <3>1. cfg' = Patched(cfg, asked)
      BY <1>1, <2>5 DEF Update, ConfigInv, PatchFresh
    <3>2. cfg'.synced = cfg.synced
      BY <1>1, <3>1 DEF Patched
    <3> QED
      BY <1>1, <2>1, <3>2
  <2>6. ASSUME NEW a \in Actors, SaveStep(a) \/ SaveFails(a)
        PROVE  cfg' = cfg
    BY <2>6 DEF SaveStep, SaveLock, SaveOpen, SaveWrite, SaveFails, store
  <2>7. ASSUME NEW h \in Handlers, BeginPatch(h) \/ Reread(h) \/ Answer(h)
        PROVE  cfg' = cfg
    BY <2>7 DEF BeginPatch, Reread, Answer, store
  <2>8. ~(Start \/ Load \/ Migrate \/ BackupLegacy \/ Up \/ Stop)
    BY <1>1, <2>2 DEF Start, Load, Migrate, BackupLegacy, Up, Stop
  <2> QED
    BY <1>1, <2>3, <2>4, <2>5, <2>6, <2>7, <2>8 DEF Next, HandlerStep
<1>2. ConfigInv /\ [Next]_vars => [Kept1]_vars
  BY <1>1
<1> QED
  BY <1>2, ConfigInvHolds, PTL DEF SyncedKept, Spec

=============================================================================
