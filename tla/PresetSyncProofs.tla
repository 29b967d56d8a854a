-------------------------- MODULE PresetSyncProofs --------------------------
(***************************************************************************)
(* Proofs about PresetSync, for any machines, presets and tolerance: a     *)
(* template on the share finds its logo there unless a replacement has     *)
(* removed it, cycles keep edits that were never shared, and, as long as   *)
(* nothing goes wrong, a machine deletes on the share only what it knows,  *)
(* and what was deleted stays deleted.                                     *)
(***************************************************************************)
EXTENDS PresetSync, TLAPS

Pulling == {"tombstones", "pullA", "pullB", "fetched", "placed", "pulled"}
LogoPush == {"logo", "logoWritten", "logoRemoved"}
SharePush == {"copy", "written", "removed", "renamed"}
HomePush == {"rewrite", "rewritten"}
Held == {"fetched", "placed"} \cup LogoPush \cup SharePush \cup HomePush
Pushing == {"pushB", "pushed"} \cup LogoPush \cup SharePush \cup HomePush
Copying == {"pulled", "pushed"} \cup Held
OnWay == LogoPush \cup {"copy", "written", "removed"}

(* A logo that has come to the share is there, or a replacement has        *)
(* removed it.  This never ends.                                           *)
Given(p) == Share \in logos[p] \/ p \in missing

(* A template on a machine names a logo that is there, or that the share   *)
(* was given; the logo of one that is on the share, or on its way from or  *)
(* to it, the share was given.                                             *)
Fits(f, p) ==
    /\ ~Here(f) => f = NoFile
    /\ Here(f) /\ p \in Watermarks => f.logo \in logos[p] \/ Given(p)
    /\ p \notin Watermarks => f.logo = Nowhere

NetFits(f, p) ==
    /\ ~Here(f) => f = NoFile
    /\ Here(f) /\ p \in Watermarks => Given(p)
    /\ p \notin Watermarks => f.logo = Nowhere

(* Which preset is being copied, and what is left to a loop.               *)
Shape(c) ==
    /\ c.pc \in Copying => c.at \in Presets /\ c.at \notin c.todo
    /\ c.pc \in LogoPush \cup HomePush => c.at \in Watermarks
    /\ c.pc \in {"pullB", "fetched", "placed", "pulled"} \cup Pushing =>
          \A p \in c.todo : c.seen[p] # 0
    /\ c.pc = "fetched" => c.seen[c.at] # 0
    /\ c.pc = "pullA" => \A p \in c.todo : c.seen[p] = 0

HandFits(c) ==
    /\ c.hand.time <= now
    /\ c.pc \in Held => Here(c.hand)
    /\ c.pc = "logo" => Fits(c.hand, c.at)
    /\ c.pc \in Held \ LogoPush => NetFits(c.hand, c.at)

FilesFit(f) == \A p \in Presets : Fits(f[p], p) /\ f[p].time <= now

(* If users keep their hands off: what the cycle c has scanned of the      *)
(* files f, and what it has read, is still so.                             *)
Fresh(c, f) ==
    /\ c.pc = "pushA" => \A p \in Presets : c.seen[p] # 0 => f[p].time = c.seen[p]
    /\ c.pc \in Pushing => \A p \in c.todo : f[p].time = c.seen[p]
    /\ c.pc = "fetched" /\ Here(f[c.at]) =>
          c.seen[c.at] > f[c.at].time + Tolerance
    /\ c.pc \in Copying \ {"fetched"} => Here(f[c.at])
    /\ c.pc \in LogoPush \cup SharePush \cup HomePush =>
          c.hand.text = f[c.at].text
    /\ c.pc = "logo" => c.hand.time = f[c.at].time

OwnInv(c, f) ==
    /\ Shape(c) /\ HandFits(c) /\ FilesFit(f)
    /\ "edit" \notin upsets => Fresh(c, f)

ShareInv(p) ==
    /\ NetFits(net[p], p) /\ net[p].time <= now
    /\ NetFits(tmp[p], p)

(* If cycles do not overlap: a template is pushed as it was read.          *)
Sent(c) ==
    /\ /\ c.pc \in {"written", "removed"}
       /\ c.at \in Watermarks /\ Here(tmp[c.at])
       => tmp[c.at].text = c.hand.text
    /\ c.pc \in {"renamed", "rewrite"} /\ c.at \in Watermarks =>
          c.hand.text \in shared[c.at]

Alone(m) == \A o \in Machines : o # m => ~AtWork(o)

Solo ==
    "overlap" \notin upsets =>
        \A m \in Machines : AtWork(m) => Alone(m) /\ Sent(cycle[m])

(* Without failures, edits and overlaps: what the cycle c of m, with the   *)
(* local files f, knows of the share is true, it has the latest deletions, *)
(* pushes only what is younger, and finds what it has written.             *)
Knows(m, c, f) ==
    /\ c.pc \in Pulling =>
          \A p \in Presets :
             c.seen[p] = IF p \in selected[m] THEN net[p].time ELSE 0
    /\ c.pc \in {"pullB", "fetched", "placed", "pulled"} =>
          \A p \in Presets \ c.todo :
             /\ c.seen[p] # 0 /\ ~Here(f[p])
             /\ c.pc = "fetched" => p # c.at
             => c.seen[p] <= c.newState[p] + Tolerance
    /\ c.pc = "pushA" =>
          \A p \in c.todo :
             Here(net[p]) => net[p].time <= c.newState[p] + Tolerance

Mourns(c) ==
    /\ c.pc \notin {"idle", "tombstones"} =>
          /\ \A p \in Presets :
                ~Here(net[p]) /\ ~(c.pc \in OnWay /\ c.at = p)
                   => c.tomb[p] = buried[p]
          /\ ~c.dirty => c.tomb = tombFile
    /\ c.pc \in OnWay \cup {"renamed"} /\ buried[c.at] # 0 =>
          c.hand.time > buried[c.at] + Tolerance

Steady(c) ==
    /\ c.pc \in {"written", "removed"} => Here(tmp[c.at])
    /\ c.pc = "renamed" => Here(net[c.at])
    /\ c.pc \in {"logoWritten", "logoRemoved"} => c.at \in logoTmp
    /\ missing \subseteq IF c.pc = "logoRemoved" THEN {c.at} ELSE {}

Younger(p) ==
    Here(net[p]) /\ buried[p] # 0 => net[p].time > buried[p] + Tolerance

AllRecorded == \A p \in Presets : ~Here(net[p]) => tombFile[p] = buried[p]

CalmAt(m, c, f) ==
    /\ c.pc # "idle" => ~c.failed
    /\ Knows(m, c, f) /\ Mourns(c) /\ Steady(c)
    /\ c.pc \in {"idle", "tombstones"} => AllRecorded
    /\ \A p \in Presets : Younger(p)

Calm ==
    upsets \subseteq {"select"} =>
        \A m \in Machines : Alone(m) => CalmAt(m, cycle[m], loc[m])

PresetInv ==
    /\ TypeOK
    /\ \A m \in Machines : OwnInv(cycle[m], loc[m])
    /\ \A p \in Presets : ShareInv(p)
    /\ Solo /\ Calm

-----------------------------------------------------------------------------
(***************************************************************************)
(* The constants, and cycles that do not run.                              *)
(***************************************************************************)
USE DEF share, records, bounds

LEMMA ConstantFacts ==
  /\ Tolerance \in Nat /\ MaxNow \in Nat /\ MaxFaults \in Nat
  /\ MaxOverlaps \in Nat /\ MaxSelects \in Nat
  /\ Watermarks \subseteq Presets /\ NoPreset \notin Presets
  /\ Share # Nowhere /\ Share \notin Machines /\ Nowhere \notin Machines
  /\ Machines # {}
BY PresetAssumption DEF PresetAssumption

LEMMA NothingTyped ==
  /\ NoFile \in Files /\ ~Here(NoFile) /\ NoFile.logo = Nowhere
  /\ NoFile.time = 0 /\ NoFile.text = 0
  /\ NoTimes \in [Presets -> Nat] /\ \A p \in Presets : NoTimes[p] = 0
  /\ NoCycle \in Cycles /\ NoCycle.pc = "idle" /\ NoCycle.failed = FALSE
  /\ NoCycle.hand = NoFile
BY DEF NoFile, Files, Places, Here, NoTimes, NoCycle, Cycles, PCs

LEMMA CycleParts ==
  ASSUME NEW c \in Cycles
  PROVE  /\ c.pc \in PCs /\ c.todo \in SUBSET Presets
         /\ c.at \in Presets \cup {NoPreset} /\ c.hand \in Files
         /\ c.seen \in [Presets -> Nat] /\ c.newState \in [Presets -> Nat]
         /\ c.tomb \in [Presets -> Nat]
         /\ c.dirty \in BOOLEAN /\ c.failed \in BOOLEAN
BY DEF Cycles

LEMMA FileParts ==
  ASSUME NEW f \in Files
  PROVE  f.text \in Nat /\ f.time \in Nat /\ f.logo \in Places
BY DEF Files

LEMMA Parts ==
  ASSUME TypeOK
  PROVE  /\ \A m \in Machines :
               /\ cycle[m] \in Cycles /\ loc[m] \in [Presets -> Files]
               /\ stateFile[m] \in [Presets -> Nat] /\ selected[m] \subseteq Presets
         /\ \A p \in Presets : net[p] \in Files /\ tmp[p] \in Files
         /\ now \in 0..MaxNow /\ now \in Nat
BY ConstantFacts DEF TypeOK

LEMMA FaultTyped ==
  ASSUME TypeOK, Fault \/ NoFault
  PROVE  faults' \in 0..MaxFaults /\ overlaps' \in 0..MaxOverlaps
BY ConstantFacts DEF TypeOK, Fault, NoFault

LEMMA NoFileFits ==
  ASSUME NEW p PROVE Fits(NoFile, p) /\ NetFits(NoFile, p)
BY NothingTyped DEF Fits, NetFits

(***************************************************************************)
(* A step of m, as the others see it: their own is theirs, a logo goes     *)
(* only from a place that does not need it, and time does not go back.     *)
(***************************************************************************)
StepOf(m, d, g) ==
    /\ cycle' = [cycle EXCEPT ![m] = d]
    /\ loc' = [loc EXCEPT ![m] = g]
    /\ \A o \in Machines : o # m =>
          stateFile'[o] = stateFile[o] /\ selected'[o] = selected[o]
    /\ upsets' = upsets

LogosKept ==
    \A p \in Presets : /\ Given(p) => Given(p)'
                       /\ logos[p] \subseteq logos'[p] \/ Given(p)'

(* An idle cycle has no part in the invariant.                             *)
LEMMA Idle ==
  ASSUME TypeOK, NEW c \in Cycles, NEW f, NEW m, c.pc = "idle"
  PROVE  /\ Shape(c) /\ Fresh(c, f) /\ Sent(c)
         /\ c.hand.time <= now => HandFits(c)
         /\ Knows(m, c, f) /\ Mourns(c)
BY DEF Shape, HandFits, Fresh, Sent, Knows, Mourns, Pulling, Pushing, Copying,
       Held, LogoPush, SharePush, HomePush, OnWay

LEMMA Quit ==
  ASSUME TypeOK, NEW f, FilesFit(f), NEW m
  PROVE  OwnInv(NoCycle, f) /\ Sent(NoCycle)
         /\ (missing = {} /\ AllRecorded /\ (\A p \in Presets : Younger(p))
               => CalmAt(m, NoCycle, f))
<1>1. NoCycle.hand.time <= now
  BY Parts, NothingTyped, ConstantFacts
<1>2. Shape(NoCycle) /\ Fresh(NoCycle, f) /\ Sent(NoCycle)
  BY NothingTyped, Idle
<1>3. HandFits(NoCycle)
  BY <1>1, NothingTyped, Idle
<1>4. Knows(m, NoCycle, f) /\ Mourns(NoCycle)
  BY NothingTyped DEF Knows, Mourns, Pulling, OnWay, LogoPush
<1>5. missing = {} => Steady(NoCycle)
  BY NothingTyped DEF Steady
<1> QED
  BY <1>2, <1>3, <1>4, <1>5, NothingTyped DEF OwnInv, CalmAt

LEMMA FitsKept ==
  ASSUME LogosKept, NEW p \in Presets, NEW f
  PROVE  /\ Fits(f, p) => Fits(f, p)'
         /\ NetFits(f, p) => NetFits(f, p)'
BY DEF LogosKept, Fits, NetFits

(* What belongs to a machine stays as it is in a step of another.          *)
LEMMA OwnKept ==
  ASSUME TypeOK, LogosKept, upsets' = upsets, now' \in Nat, now <= now',
         NEW c \in Cycles, NEW f \in [Presets -> Files], OwnInv(c, f)
  PROVE  OwnInv(c, f)'
<1>1. c' = c /\ f' = f
  OBVIOUS
<1>2. Shape(c)'
  BY DEF OwnInv, Shape
<1>3. HandFits(c)'
  <2>1. c.hand.time \in Nat /\ now \in Nat /\ HandFits(c)
    BY CycleParts, FileParts, Parts DEF OwnInv
  <2>2. c.hand.time <= now'
    BY <2>1 DEF HandFits
  <2>3. c.pc \in Held => c.at \in Presets
    BY DEF OwnInv, Shape, Copying
  <2>4. LogoPush \subseteq Held /\ "logo" \in LogoPush
    BY DEF LogoPush, Held
  <2> QED
    BY <2>1, <2>2, <2>3, <2>4, FitsKept DEF HandFits
<1>4. FilesFit(f)'
  <2>1. SUFFICES ASSUME NEW p \in Presets
                 PROVE  Fits(f[p], p)' /\ f[p].time <= now'
    BY DEF FilesFit
  <2>2. f[p].time \in Nat /\ now \in Nat /\ Fits(f[p], p) /\ f[p].time <= now
    BY FileParts, Parts DEF OwnInv, FilesFit
  <2> QED
    BY <2>2, FitsKept
<1>5. "edit" \notin upsets' => Fresh(c, f)'
  BY DEF OwnInv, Fresh
<1> QED
  BY <1>2, <1>3, <1>4, <1>5 DEF OwnInv

(***************************************************************************)
(* The parts of the invariant at a machine; who is at work is alone unless *)
(* cycles overlap.                                                         *)
(***************************************************************************)
LEMMA InvParts ==
  ASSUME PresetInv, NEW m \in Machines
  PROVE  /\ TypeOK /\ cycle[m] \in Cycles /\ loc[m] \in [Presets -> Files]
         /\ OwnInv(cycle[m], loc[m])
         /\ Shape(cycle[m]) /\ HandFits(cycle[m]) /\ FilesFit(loc[m])
         /\ "edit" \notin upsets => Fresh(cycle[m], loc[m])
         /\ \A p \in Presets : ShareInv(p)
BY Parts DEF PresetInv, OwnInv

LEMMA SoloAlone ==
  ASSUME PresetInv, NEW m \in Machines, AtWork(m), "overlap" \notin upsets
  PROVE  Alone(m) /\ Sent(cycle[m])
BY DEF PresetInv, Solo

LEMMA CalmAlone ==
  ASSUME PresetInv, NEW m \in Machines, AtWork(m), upsets \subseteq {"select"}
  PROVE  /\ Alone(m) /\ "edit" \notin upsets /\ "overlap" \notin upsets
         /\ ~Allowed("fault")
         /\ ~cycle[m].failed /\ Knows(m, cycle[m], loc[m]) /\ Mourns(cycle[m])
         /\ Steady(cycle[m])
         /\ cycle[m].pc = "tombstones" => AllRecorded
         /\ \A p \in Presets : Younger(p)
         /\ Fresh(cycle[m], loc[m]) /\ Sent(cycle[m])
<1>1. "edit" \notin upsets /\ "overlap" \notin upsets /\ ~Allowed("fault")
  BY DEF Allowed
<1>2. Alone(m) /\ Sent(cycle[m])
  BY <1>1, SoloAlone
<1>3. CalmAt(m, cycle[m], loc[m])
  BY <1>2 DEF PresetInv, Calm
<1> QED
  BY <1>1, <1>2, <1>3, InvParts DEF CalmAt, AtWork

(***************************************************************************)
(* The cycle of m goes from what it is to d and its files to g.            *)
(***************************************************************************)
ShareTyped ==
    /\ net \in [Presets -> Files] /\ tmp \in [Presets -> Files]
    /\ logos \in [Presets -> SUBSET (Machines \cup {Share})]
    /\ logoTmp \subseteq Presets /\ missing \subseteq Presets
    /\ shared \in [Presets -> SUBSET Nat]

RecordsTyped ==
    /\ stateFile \in [Machines -> [Presets -> Nat]]
    /\ tombFile \in [Presets -> Nat]
    /\ selected \in [Machines -> SUBSET Presets]
    /\ buried \in [Presets -> Nat]

BoundsTyped ==
    /\ faults \in 0..MaxFaults /\ overlaps \in 0..MaxOverlaps
    /\ selects \in 0..MaxSelects

LEMMA Moved ==
  ASSUME PresetInv, NEW m \in Machines,
         NEW d \in Cycles, NEW g \in [Presets -> Files], StepOf(m, d, g),
         ShareTyped', RecordsTyped', BoundsTyped', now' = now, LogosKept,
         OwnInv(d, g)', \A p \in Presets : ShareInv(p)',
         "overlap" \notin upsets => Alone(m) /\ Sent(d)',
         upsets \subseteq {"select"} => CalmAt(m, d, g)'
  PROVE  PresetInv'
<1>1. /\ cycle' \in [Machines -> Cycles] /\ cycle'[m] = d
      /\ loc' \in [Machines -> [Presets -> Files]] /\ loc'[m] = g
      /\ \A o \in Machines : o # m => cycle'[o] = cycle[o] /\ loc'[o] = loc[o]
  BY DEF PresetInv, TypeOK, StepOf
<1>2. TypeOK'
  BY <1>1 DEF PresetInv, TypeOK, StepOf, ShareTyped, RecordsTyped, BoundsTyped
<1>3. ASSUME NEW o \in Machines
      PROVE  OwnInv(cycle[o], loc[o])'
  <2>1. CASE o = m
    BY <1>1, <2>1 DEF OwnInv, Shape, HandFits, FilesFit, Fits, NetFits, Given, Fresh
  <2>2. CASE o # m
    <3>1. /\ OwnInv(cycle[o], loc[o]) /\ TypeOK
          /\ cycle[o] \in Cycles /\ loc[o] \in [Presets -> Files]
      BY InvParts
    <3>2. upsets' = upsets /\ now' \in Nat /\ now <= now'
      BY <3>1, Parts DEF StepOf
    <3>3. PICK c \in Cycles, f \in [Presets -> Files] : c = cycle[o] /\ f = loc[o]
      BY <3>1
    <3>4. OwnInv(c, f)'
      BY <3>1, <3>2, <3>3, OwnKept
    <3> QED
      BY <1>1, <2>2, <3>3, <3>4
         DEF OwnInv, Shape, HandFits, FilesFit, Fits, NetFits, Given, Fresh
  <2> QED
    BY <2>1, <2>2
<1>4. Solo'
  <2>1. SUFFICES ASSUME "overlap" \notin upsets, NEW o \in Machines, AtWork(o)'
                 PROVE  Alone(o)' /\ Sent(cycle[o])'
    BY DEF Solo, StepOf
  <2>2. \A n \in Machines : n # m => ~AtWork(n)'
    BY <1>1, <2>1 DEF Alone, AtWork
  <2>3. o = m
    BY <2>1, <2>2
  <2> QED
    BY <1>1, <2>1, <2>2, <2>3 DEF Alone, Sent
<1>5. Calm'
  <2>1. SUFFICES ASSUME upsets \subseteq {"select"}, NEW o \in Machines, Alone(o)'
                 PROVE  CalmAt(o, cycle[o], loc[o])'
    BY DEF Calm, StepOf
  <2>2. CalmAt(m, d, g)'
    BY <2>1
  <2>3. CASE o = m
    BY <1>1, <2>2, <2>3 DEF CalmAt, Knows, Mourns, Steady
  <2>4. CASE o # m
    <3>1. d.pc = "idle"
      BY <1>1, <2>1, <2>4 DEF Alone, AtWork
    <3>2. cycle'[o].pc = "idle"
      BY <1>1, <2>1, <2>4 DEF Alone, AtWork
    <3>3. /\ AllRecorded' /\ \A p \in Presets : Younger(p)'
          /\ missing' \subseteq {}
      BY <2>2, <3>1 DEF CalmAt, Steady
    <3>4. Knows(o, cycle[o], loc[o])' /\ Mourns(cycle[o])' /\ Steady(cycle[o])'
      BY <3>2, <3>3 DEF Knows, Mourns, Steady, Pulling, OnWay, LogoPush
    <3> QED
      BY <3>2, <3>3, <3>4 DEF CalmAt
  <2> QED
    BY <2>3, <2>4
<1> QED
  BY <1>2, <1>3, <1>4, <1>5 DEF PresetInv

(* Most steps change nothing but the cycle and the files of its machine.   *)
Turn(m, d, g) ==
    /\ cycle' = [cycle EXCEPT ![m] = d]
    /\ loc' = [loc EXCEPT ![m] = g]
    /\ UNCHANGED <<share, records, now, selects>>
    /\ faults' \in 0..MaxFaults /\ overlaps' \in 0..MaxOverlaps

LEMMA Turned ==
  ASSUME PresetInv, NEW m \in Machines,
         NEW d \in Cycles, NEW g \in [Presets -> Files], Turn(m, d, g),
         OwnInv(d, g),
         "overlap" \notin upsets => Alone(m) /\ Sent(d),
         upsets \subseteq {"select"} => CalmAt(m, d, g)
  PROVE  PresetInv'
<1>1. /\ TypeOK /\ UNCHANGED <<net, tmp, logos, logoTmp, missing, shared>>
      /\ UNCHANGED <<stateFile, tombFile, selected, buried, upsets>>
      /\ now' = now /\ selects' = selects
  BY DEF PresetInv, Turn
<1>2. ShareTyped' /\ RecordsTyped' /\ BoundsTyped'
  BY <1>1 DEF TypeOK, ShareTyped, RecordsTyped, BoundsTyped, Turn
<1>3. LogosKept
  BY <1>1 DEF LogosKept, Given
<1>4. StepOf(m, d, g)
  BY <1>1 DEF Turn, StepOf
<1>5. OwnInv(d, g)'
  BY <1>1 DEF OwnInv, Shape, HandFits, FilesFit, Fits, NetFits, Given, Fresh
<1>6. \A p \in Presets : ShareInv(p)'
  BY <1>1 DEF PresetInv, ShareInv, NetFits, Given
<1>7. "overlap" \notin upsets => Alone(m) /\ Sent(d)'
  BY <1>1 DEF Sent
<1>8. upsets \subseteq {"select"} => CalmAt(m, d, g)'
  <2>1. d.todo \subseteq Presets
    BY CycleParts
  <2>2. SUFFICES ASSUME CalmAt(m, d, g)
                 PROVE  CalmAt(m, d, g)'
    OBVIOUS
  <2>3. Knows(m, d, g)'
    BY <1>1, <2>1, <2>2 DEF CalmAt, Knows
  <2>4. Mourns(d)' /\ Steady(d)'
    BY <1>1, <2>2 DEF CalmAt, Mourns, Steady
  <2> QED
    BY <1>1, <2>2, <2>3, <2>4 DEF CalmAt, AllRecorded, Younger
<1> QED
  BY <1>1, <1>2, <1>3, <1>4, <1>5, <1>6, <1>7, <1>8, Moved

(* Between the loops and in them, nothing is in hand.                      *)
Looping == {"tombstones", "pullA", "pullB", "pushA", "pushB", "pulled",
            "pushed", "commit", "bury"}

LEMMA InLoop ==
  ASSUME NEW d \in Cycles, d.pc \in Looping
  PROVE  /\ d.hand.time <= now => HandFits(d)
         /\ Sent(d) /\ (missing = {} => Steady(d))
BY DEF Looping, HandFits, Sent, Steady, Held, LogoPush, SharePush, HomePush

LEMMA HandTime ==
  ASSUME PresetInv, NEW m \in Machines
  PROVE  cycle[m].hand.time <= now /\ NoFile.time <= now
BY InvParts, Parts, NothingTyped DEF HandFits

LEMMA OneFile ==
  ASSUME TypeOK, NEW m \in Machines, NEW p \in Presets, NEW f \in Files,
         loc' = [loc EXCEPT ![m][p] = f]
  PROVE  /\ loc' = [loc EXCEPT ![m] = [loc[m] EXCEPT ![p] = f]]
         /\ [loc[m] EXCEPT ![p] = f] \in [Presets -> Files]
BY DEF TypeOK

(* A file of m may go.                                                     *)
LEMMA FileMayGo ==
  ASSUME TypeOK, NEW m \in Machines, NEW p \in Presets, FilesFit(loc[m]),
         loc' = loc \/ loc' = [loc EXCEPT ![m][p] = NoFile]
  PROVE  \E h \in [Presets -> Files] :
            /\ loc' = [loc EXCEPT ![m] = h]
            /\ h[p] = loc[m][p] \/ h[p] = NoFile
            /\ \A q \in Presets : q # p => h[q] = loc[m][q]
            /\ FilesFit(h)
<1>1. CASE loc' = loc
  BY <1>1 DEF TypeOK
<1>2. CASE loc' = [loc EXCEPT ![m][p] = NoFile]
  <2>1. PICK h : h = [loc[m] EXCEPT ![p] = NoFile]
    OBVIOUS
  <2>2. h \in [Presets -> Files] /\ loc' = [loc EXCEPT ![m] = h]
    BY <1>2, <2>1, NothingTyped, OneFile
  <2>3. h[p] = NoFile /\ \A q \in Presets : q # p => h[q] = loc[m][q]
    BY <2>1, Parts
  <2>4. NoFile.time <= now
    BY Parts, NothingTyped
  <2>5. FilesFit(h)
    BY <2>3, <2>4, NoFileFits DEF FilesFit
  <2> QED
    BY <2>2, <2>3, <2>5
<1> QED
  BY <1>1, <1>2

-----------------------------------------------------------------------------
(***************************************************************************)
(* The start of a cycle, and the pull.                                     *)
(***************************************************************************)
LEMMA StartKeeps ==
  ASSUME PresetInv, NEW m \in Machines, Start(m)
  PROVE  PresetInv'
<1>1. /\ TypeOK /\ cycle[m].pc = "idle" /\ loc[m] \in [Presets -> Files]
      /\ FilesFit(loc[m])
      /\ UNCHANGED <<share, loc, records, now, selects>>
  BY InvParts DEF Start, At
<1>2. /\ (\E o \in Machines : AtWork(o)) => Allowed("overlap")
      /\ overlaps' \in 0..MaxOverlaps
  BY <1>1, ConstantFacts DEF Start, Overlap, TypeOK
<1>3. PICK state \in {stateFile[m], NoTimes} :
        /\ Continues(m, [NoCycle EXCEPT !.pc = "tombstones", !.newState = state,
                                        !.seen = Times(net, selected[m])])
        /\ IF state = stateFile[m] THEN UNCHANGED faults
           ELSE Allowed("fault") /\ faults < MaxFaults /\ faults' = faults + 1
  BY Zenon DEF Start
<1>4. faults' \in 0..MaxFaults
  BY <1>1, <1>3, ConstantFacts DEF TypeOK
<1>5. PICK d : /\ d = [NoCycle EXCEPT !.pc = "tombstones", !.newState = state,
                                     !.seen = Times(net, selected[m])]
               /\ Continues(m, d)
  BY <1>3
<1>6. Times(net, selected[m]) \in [Presets -> Nat] /\ state \in [Presets -> Nat]
  BY <1>1, Parts, FileParts, NothingTyped DEF Times
<1>7. d \in Cycles
  BY <1>5, <1>6, NothingTyped DEF Cycles, PCs
<1>8. /\ d.pc = "tombstones" /\ d.seen = Times(net, selected[m]) /\ ~d.failed
      /\ d.hand = NoFile
  BY <1>5, NothingTyped DEF Cycles
<1>9. \A p \in Presets : d.seen[p] = IF p \in selected[m] THEN net[p].time ELSE 0
  BY <1>8 DEF Times
<1>10. Shape(d) /\ Fresh(d, loc[m])
  BY <1>8 DEF Shape, Fresh, Pushing, Copying, Held, LogoPush, SharePush, HomePush
<1>11. HandFits(d) /\ Sent(d) /\ (missing = {} => Steady(d))
  BY <1>7, <1>8, InLoop, HandTime DEF Looping
<1>12. OwnInv(d, loc[m])
  BY <1>1, <1>10, <1>11 DEF OwnInv
<1>13. ASSUME "overlap" \notin upsets
       PROVE  Alone(m)
  BY <1>2, <1>13 DEF Alone, Allowed
<1>14. ASSUME upsets \subseteq {"select"}
       PROVE  CalmAt(m, d, loc[m])
  <2>1. CalmAt(m, cycle[m], loc[m])
    BY <1>13, <1>14 DEF PresetInv, Calm
  <2>2. missing = {} /\ AllRecorded /\ \A p \in Presets : Younger(p)
    BY <1>1, <2>1 DEF CalmAt, Steady
  <2>3. Knows(m, d, loc[m]) /\ Mourns(d)
    BY <1>8, <1>9 DEF Knows, Mourns, OnWay, LogoPush
  <2> QED
    BY <1>8, <1>11, <2>2, <2>3 DEF CalmAt
<1>15. Turn(m, d, loc[m])
  BY <1>1, <1>2, <1>4, <1>5 DEF Turn, Continues, TypeOK
<1> QED
  BY <1>1, <1>7, <1>11, <1>12, <1>13, <1>14, <1>15, Turned

LEMMA ReadTombstonesKeeps ==
  ASSUME PresetInv, NEW m \in Machines, ReadTombstones(m)
  PROVE  PresetInv'
<1> DEFINE c == cycle[m]
           todo == {p \in In(selected[m], c.newState) : c.seen[p] = 0}
<1>1. /\ TypeOK /\ c \in Cycles /\ FilesFit(loc[m]) /\ c.pc = "tombstones"
      /\ loc[m] \in [Presets -> Files]
      /\ UNCHANGED <<share, loc, records, now, selects>>
  BY InvParts DEF ReadTombstones, At
<1>2. PICK tomb \in {tombFile, NoTimes} :
        /\ Continues(m, [c EXCEPT !.pc = "pullA", !.tomb = tomb, !.todo = todo])
        /\ IF tomb = tombFile THEN NoFault ELSE Fault
  BY Zenon DEF ReadTombstones
<1>3. PICK d : /\ d = [c EXCEPT !.pc = "pullA", !.tomb = tomb, !.todo = todo]
               /\ Continues(m, d)
  BY <1>2
<1>4. tomb \in [Presets -> Nat]
  BY <1>1, NothingTyped DEF TypeOK
<1>5. todo \subseteq Presets
  BY <1>1, Parts DEF In
<1>6. d \in Cycles
  BY <1>1, <1>3, <1>4, <1>5 DEF Cycles, PCs
<1>7. /\ d.pc = "pullA" /\ d.tomb = tomb /\ d.todo = todo /\ d.seen = c.seen
      /\ d.newState = c.newState /\ d.failed = c.failed /\ d.hand = c.hand
  BY <1>1, <1>3 DEF Cycles
<1>8. Shape(d) /\ Fresh(d, loc[m])
  BY <1>7 DEF Shape, Fresh, Pushing, Copying, Held, LogoPush, SharePush, HomePush
<1>9. HandFits(d) /\ Sent(d) /\ (missing = {} => Steady(d))
  BY <1>6, <1>7, InLoop, HandTime DEF Looping
<1>10. OwnInv(d, loc[m])
  BY <1>1, <1>8, <1>9 DEF OwnInv
<1>11. "overlap" \notin upsets => Alone(m)
  BY <1>1, SoloAlone DEF AtWork
<1>12. ASSUME upsets \subseteq {"select"}
       PROVE  CalmAt(m, d, loc[m])
  <2>1. /\ ~c.failed /\ Knows(m, c, loc[m]) /\ AllRecorded /\ ~Allowed("fault")
        /\ Steady(c) /\ \A p \in Presets : Younger(p)
    BY <1>1, <1>12, CalmAlone DEF AtWork
  <2>2. tomb = tombFile
    BY <1>2, <2>1 DEF Fault
  <2>3. missing = {}
    BY <1>1, <2>1 DEF Steady
  <2>4. Knows(m, d, loc[m])
    BY <1>1, <1>7, <2>1 DEF Knows, Pulling
  <2>5. Mourns(d)
    BY <1>7, <2>1, <2>2 DEF Mourns, AllRecorded, OnWay, LogoPush
  <2> QED
    BY <1>7, <1>9, <2>1, <2>3, <2>4, <2>5 DEF CalmAt
<1>13. Turn(m, d, loc[m])
  <2>1. Fault \/ NoFault
    BY <1>2
  <2> QED
    BY <1>1, <1>3, <2>1, FaultTyped DEF Turn, Continues, TypeOK
<1> QED
  BY <1>1, <1>6, <1>9, <1>10, <1>11, <1>12, <1>13, Turned

LEMMA PullDeletionKeeps ==
  ASSUME PresetInv, NEW m \in Machines, NEW p \in Presets, PullDeletion(m, p)
  PROVE  PresetInv'
<1> DEFINE c == cycle[m]
<1>1. /\ TypeOK /\ c \in Cycles /\ Shape(c) /\ FilesFit(loc[m])
      /\ c.pc = "pullA" /\ p \in c.todo
      /\ UNCHANGED <<share, records, now, selects>>
  BY InvParts DEF PullDeletion, At
<1>2. PICK ok \in BOOLEAN :
        /\ loc' = IF ok /\ Unchanged(m, p)
                  THEN [loc EXCEPT ![m][p] = NoFile] ELSE loc
        /\ Continues(m, [c EXCEPT !.todo = @ \ {p}, !.newState[p] = 0,
                                  !.failed = @ \/ ~ok])
        /\ IF ok THEN NoFault ELSE Fault
  BY Zenon DEF PullDeletion
<1>3. PICK failed : failed = (c.failed \/ ~ok)
  OBVIOUS
<1>4. failed \in BOOLEAN
  BY <1>3, Zenon
<1>5. Continues(m, [c EXCEPT !.todo = @ \ {p}, !.newState[p] = 0, !.failed = failed])
  BY <1>2, <1>3, Zenon
<1>6. PICK d : /\ d = [c EXCEPT !.todo = @ \ {p}, !.newState[p] = 0,
                               !.failed = failed]
               /\ Continues(m, d)
  BY <1>5
<1>7. d \in Cycles
  BY <1>1, <1>4, <1>6 DEF Cycles
<1>8. /\ d.pc = "pullA" /\ d.todo = c.todo \ {p} /\ d.seen = c.seen
      /\ d.newState = [c.newState EXCEPT ![p] = 0] /\ d.hand = c.hand
      /\ d.tomb = c.tomb /\ d.dirty = c.dirty /\ d.failed = failed
  BY <1>1, <1>6 DEF Cycles
<1>9. loc' = loc \/ loc' = [loc EXCEPT ![m][p] = NoFile]
  BY <1>2, Zenon
<1>10. PICK h \in [Presets -> Files] :
         loc' = [loc EXCEPT ![m] = h] /\ FilesFit(h)
  BY <1>1, <1>9, FileMayGo, Zenon
<1>11. Shape(d) /\ Fresh(d, h)
  BY <1>1, <1>8
     DEF Shape, Fresh, Pushing, Copying, Held, LogoPush, SharePush, HomePush
<1>12. HandFits(d) /\ Sent(d) /\ (missing = {} => Steady(d))
  BY <1>7, <1>8, InLoop, HandTime DEF Looping
<1>13. OwnInv(d, h)
  BY <1>10, <1>11, <1>12 DEF OwnInv
<1>14. "overlap" \notin upsets => Alone(m)
  BY <1>1, SoloAlone DEF AtWork
<1>15. ASSUME upsets \subseteq {"select"}
       PROVE  CalmAt(m, d, h)
  <2>1. /\ ~c.failed /\ Knows(m, c, loc[m]) /\ Mourns(c) /\ ~Allowed("fault")
        /\ Steady(c) /\ \A q \in Presets : Younger(q)
    BY <1>1, <1>15, CalmAlone DEF AtWork
  <2>2. ok
    BY <1>2, <2>1, Zenon DEF Fault
  <2>3. ~d.failed
    BY <1>3, <1>8, <2>1, <2>2
  <2>4. missing = {}
    BY <1>1, <2>1 DEF Steady
  <2>5. Knows(m, d, h)
    BY <1>1, <1>8, <2>1 DEF Knows, Pulling
  <2>6. Mourns(d)
    BY <1>1, <1>8, <2>1 DEF Mourns, OnWay, LogoPush
  <2> QED
    BY <1>8, <1>12, <2>1, <2>3, <2>4, <2>5, <2>6 DEF CalmAt
<1>16. Turn(m, d, h)
  <2>1. Fault \/ NoFault
    BY <1>2, Zenon
  <2> QED
    BY <1>1, <1>6, <1>10, <2>1, FaultTyped DEF Turn, Continues
<1> QED
  BY <1>7, <1>10, <1>12, <1>13, <1>14, <1>15, <1>16, Turned

LEMMA PullNothingKeeps ==
  ASSUME PresetInv, NEW m \in Machines, NEW p \in Presets, PullNothing(m, p)
  PROVE  PresetInv'
<1> DEFINE c == cycle[m]
<1>1. /\ TypeOK /\ c \in Cycles /\ Shape(c) /\ FilesFit(loc[m])
      /\ loc[m] \in [Presets -> Files]
      /\ c.pc = "pullB" /\ p \in c.todo /\ ~NeedsPull(m, p)
      /\ UNCHANGED <<share, loc, records, now, bounds>>
  BY InvParts DEF PullNothing, At
<1>2. PICK d : /\ d = [c EXCEPT !.todo = @ \ {p}]
               /\ Continues(m, d)
  BY DEF PullNothing
<1>3. d \in Cycles
  BY <1>1, <1>2 DEF Cycles
<1>4. /\ d.pc = "pullB" /\ d.todo = c.todo \ {p} /\ d.seen = c.seen
      /\ d.newState = c.newState /\ d.hand = c.hand
      /\ d.tomb = c.tomb /\ d.dirty = c.dirty /\ d.failed = c.failed
  BY <1>1, <1>2 DEF Cycles
<1>5. Shape(d) /\ Fresh(d, loc[m])
  BY <1>1, <1>4
     DEF Shape, Fresh, Pushing, Copying, Held, LogoPush, SharePush, HomePush
<1>6. HandFits(d) /\ Sent(d) /\ (missing = {} => Steady(d))
  BY <1>3, <1>4, InLoop, HandTime DEF Looping
<1>7. OwnInv(d, loc[m])
  BY <1>1, <1>5, <1>6 DEF OwnInv
<1>8. "overlap" \notin upsets => Alone(m)
  BY <1>1, SoloAlone DEF AtWork
<1>9. ASSUME upsets \subseteq {"select"}
      PROVE  CalmAt(m, d, loc[m])
  <2>1. /\ ~c.failed /\ Knows(m, c, loc[m]) /\ Mourns(c) /\ Steady(c)
        /\ \A q \in Presets : Younger(q)
    BY <1>1, <1>9, CalmAlone DEF AtWork
  <2>2. missing = {}
    BY <1>1, <2>1 DEF Steady
  <2>3. ~Here(loc[m][p]) => c.seen[p] <= c.newState[p] + Tolerance
    <3>1. c.seen[p] \in Nat /\ c.newState[p] \in Nat /\ Tolerance \in Nat
      BY <1>1, CycleParts, ConstantFacts
    <3>2. ~Here(loc[m][p]) => ~(c.seen[p] > c.newState[p] + Tolerance)
      BY <1>1 DEF NeedsPull
    <3> QED
      BY <3>1, <3>2
  <2>4. Knows(m, d, loc[m])
    BY <1>1, <1>4, <2>1, <2>3 DEF Knows, Pulling
  <2>5. Mourns(d)
    BY <1>1, <1>4, <2>1 DEF Mourns, OnWay, LogoPush
  <2> QED
    BY <1>4, <1>6, <2>1, <2>2, <2>4, <2>5 DEF CalmAt
<1>10. Turn(m, d, loc[m])
  BY <1>1, <1>2 DEF Turn, Continues, TypeOK
<1> QED
  BY <1>1, <1>3, <1>6, <1>7, <1>8, <1>9, <1>10, Turned

(* What a pull does to the logos of its machine.                           *)
LEMMA HalfPulledKept ==
  ASSUME TypeOK, NEW m \in Machines, NEW p \in Presets,
         logos' \in HalfPulled(m, p), missing' = missing
  PROVE  /\ LogosKept
         /\ logos' \in [Presets -> SUBSET (Machines \cup {Share})]
         /\ \A q \in Presets : Share \in logos[q] => Share \in logos'[q]
<1>1. logos \in [Presets -> SUBSET (Machines \cup {Share})]
  BY DEF TypeOK
<1>2. CASE logos' = logos
  BY <1>1, <1>2 DEF LogosKept, Given
<1>3. CASE Share \in logos[p] /\ logos' = [logos EXCEPT ![p] = @ \cup {m}]
  BY <1>1, <1>3 DEF LogosKept, Given
<1>4. CASE Share \in logos[p] /\ logos' = [logos EXCEPT ![p] = @ \ {m}]
  BY <1>1, <1>4, ConstantFacts DEF LogosKept, Given
<1> QED
  BY <1>2, <1>3, <1>4 DEF HalfPulled

LEMMA ShareKept ==
  ASSUME PresetInv, LogosKept, net' = net, tmp' = tmp, now' = now,
         NEW p \in Presets
  PROVE  ShareInv(p)'
<1>1. NetFits(net[p], p) /\ NetFits(tmp[p], p) /\ net[p].time <= now
  BY DEF PresetInv, ShareInv
<1>2. NetFits(net[p], p)' /\ NetFits(tmp[p], p)'
  BY <1>1 DEF NetFits, LogosKept
<1> QED
  BY <1>1, <1>2 DEF ShareInv

LEMMA PullKeeps ==
  ASSUME PresetInv, NEW m \in Machines, NEW p \in Presets, Pull(m, p)
  PROVE  PresetInv'
<1> DEFINE c == cycle[m]
<1>0. PICK f \in [Presets -> Files] : f = loc[m]
  BY InvParts
<1>1. /\ TypeOK /\ c \in Cycles /\ Shape(c) /\ FilesFit(f) /\ ShareInv(p)
      /\ c.pc = "pullB" /\ p \in c.todo /\ NeedsPull(m, p) /\ Here(net[p])
      /\ UNCHANGED <<net, tmp, logoTmp, missing, shared, loc, records, now, bounds>>
  BY <1>0, InvParts DEF Pull, At
<1>2. logos' \in HalfPulled(m, p)
  BY DEF Pull, HalfPulled
<1>3. PICK hand : /\ hand = Pulled(m, p)
                  /\ Continues(m, [c EXCEPT !.pc = "fetched", !.at = p,
                                            !.hand = hand, !.todo = @ \ {p}])
  BY DEF Pull
<1>4. hand \in Files /\ hand.time = net[p].time
      /\ (p \notin Watermarks => hand = net[p])
  <2>1. net[p] \in Files
    BY <1>1, Parts
  <2>2. CASE p \notin Watermarks
    BY <1>3, <2>1, <2>2 DEF Pulled
  <2>3. CASE p \in Watermarks
    <3>1. PICK logo \in Places : hand = [net[p] EXCEPT !.logo = logo]
      BY <1>3, <2>3 DEF Pulled, Places
    <3> QED
      BY <2>1, <2>3, <3>1 DEF Files
  <2> QED
    BY <2>2, <2>3
<1>5. PICK d : /\ d = [c EXCEPT !.pc = "fetched", !.at = p, !.hand = hand,
                               !.todo = @ \ {p}]
               /\ Continues(m, d)
  BY <1>3
<1>6. d \in Cycles
  BY <1>1, <1>4, <1>5 DEF Cycles, PCs
<1>7. /\ d.pc = "fetched" /\ d.at = p /\ d.hand = hand /\ d.todo = c.todo \ {p}
      /\ d.seen = c.seen /\ d.newState = c.newState
      /\ d.tomb = c.tomb /\ d.dirty = c.dirty /\ d.failed = c.failed
  BY <1>1, <1>5 DEF Cycles
<1>8. /\ LogosKept /\ logos' \in [Presets -> SUBSET (Machines \cup {Share})]
  BY <1>1, <1>2, HalfPulledKept
<1>10. Shape(d)
  BY <1>1, <1>7 DEF Shape, Pushing, Copying, Held, LogoPush, SharePush, HomePush
<1>11. HandFits(d)
  <2>1. hand.time <= now /\ Here(hand)
    BY <1>1, <1>4 DEF ShareInv, Here
  <2>2. NetFits(hand, p)
    BY <1>1, <1>4, <2>1 DEF ShareInv, NetFits
  <2> QED
    BY <1>7, <2>1, <2>2 DEF HandFits, Held, LogoPush
<1>12. ASSUME "edit" \notin upsets
       PROVE  Fresh(d, f)
  <2>1. Here(f[p]) => c.seen[p] > f[p].time + Tolerance
    BY <1>0, <1>1 DEF NeedsPull
  <2> QED
    BY <1>7, <2>1 DEF Fresh, Pushing, Copying, Held, LogoPush, SharePush, HomePush
<1>13. OwnInv(d, f)'
  <2>1. OwnInv(d, f)
    BY <1>1, <1>10, <1>11, <1>12 DEF OwnInv
  <2> QED
    BY <1>1, <1>6, <1>8, <2>1, Parts, OwnKept
<1>14. "overlap" \notin upsets => Alone(m) /\ Sent(d)'
  BY <1>1, <1>7, SoloAlone DEF AtWork, Sent
<1>15. ASSUME upsets \subseteq {"select"}
       PROVE  CalmAt(m, d, f)'
  <2>1. /\ ~c.failed /\ Knows(m, c, f) /\ Mourns(c) /\ Steady(c)
        /\ \A q \in Presets : Younger(q)
    BY <1>0, <1>1, <1>15, CalmAlone DEF AtWork
  <2>2. Steady(d)'
    BY <1>1, <1>7, <2>1 DEF Steady
  <2>3. Knows(m, d, f)'
    BY <1>1, <1>7, <2>1 DEF Knows, Pulling
  <2>4. Mourns(d)'
    BY <1>1, <1>7, <2>1 DEF Mourns, OnWay, LogoPush
  <2> QED
    BY <1>1, <1>7, <2>1, <2>2, <2>3, <2>4 DEF CalmAt, Younger
<1>16. StepOf(m, d, f)
  BY <1>0, <1>1, <1>5 DEF StepOf, Continues, TypeOK
<1>17. ShareTyped' /\ RecordsTyped' /\ BoundsTyped'
  BY <1>1, <1>8 DEF TypeOK, ShareTyped, RecordsTyped, BoundsTyped
<1>18. \A q \in Presets : ShareInv(q)'
  BY <1>1, <1>8, ShareKept
<1> QED
  BY <1>1, <1>6, <1>8, <1>13, <1>14, <1>15, <1>16, <1>17, <1>18, Moved

LEMMA PullFailsKeeps ==
  ASSUME PresetInv, NEW m \in Machines, NEW p \in Presets, PullFails(m, p)
  PROVE  PresetInv'
<1> DEFINE c == cycle[m]
<1>0. PICK f \in [Presets -> Files] : f = loc[m]
  BY InvParts
<1>1. /\ TypeOK /\ c \in Cycles /\ Shape(c) /\ FilesFit(f)
      /\ c.pc = "pullB" /\ p \in c.todo
      /\ UNCHANGED <<net, tmp, logoTmp, missing, shared, loc, records, now, selects>>
  BY <1>0, InvParts DEF PullFails, At
<1>2. \/ (~Here(net[p]) \/ Disturbed(m, p)) /\ NoFault /\ UNCHANGED logos
      \/ Here(net[p]) /\ Fault /\ logos' \in HalfPulled(m, p)
  BY DEF PullFails
<1>3. PICK d : /\ d = [c EXCEPT !.todo = @ \ {p}, !.failed = TRUE]
               /\ Continues(m, d)
  BY DEF PullFails
<1>4. d \in Cycles
  BY <1>1, <1>3 DEF Cycles
<1>5. d.pc = "pullB" /\ d.todo = c.todo \ {p} /\ d.seen = c.seen /\ d.hand = c.hand
  BY <1>1, <1>3 DEF Cycles
<1>6. logos' \in HalfPulled(m, p)
  BY <1>2 DEF HalfPulled
<1>7. /\ LogosKept /\ logos' \in [Presets -> SUBSET (Machines \cup {Share})]
  BY <1>1, <1>6, HalfPulledKept
<1>8. Shape(d) /\ Fresh(d, f)
  BY <1>1, <1>5
     DEF Shape, Fresh, Pushing, Copying, Held, LogoPush, SharePush, HomePush
<1>9. HandFits(d)
  BY <1>4, <1>5, InLoop, HandTime DEF Looping
<1>11. OwnInv(d, f)'
  <2>1. OwnInv(d, f)
    BY <1>1, <1>8, <1>9 DEF OwnInv
  <2> QED
    BY <1>1, <1>4, <1>7, <2>1, Parts, OwnKept
<1>12. "overlap" \notin upsets => Alone(m) /\ Sent(d)'
  BY <1>1, <1>5, SoloAlone DEF AtWork, Sent
<1>13. ASSUME upsets \subseteq {"select"}
       PROVE  FALSE
  <2>1. ~Allowed("fault") /\ Knows(m, c, f) /\ Alone(m)
    BY <1>0, <1>1, <1>13, CalmAlone DEF AtWork
  <2>2. c.seen[p] # 0 /\ c.seen[p] = IF p \in selected[m] THEN net[p].time ELSE 0
    BY <1>1, <2>1 DEF Knows, Shape, Pulling
  <2>3. ~Disturbed(m, p)
    BY <2>1 DEF Disturbed, Alone, AtWork, OnShare
  <2> QED
    BY <1>2, <2>1, <2>2, <2>3 DEF Fault, Here
<1>14. StepOf(m, d, f)
  BY <1>0, <1>1, <1>3 DEF StepOf, Continues, TypeOK
<1>15. ShareTyped' /\ RecordsTyped' /\ BoundsTyped'
  BY <1>1, <1>2, <1>7, FaultTyped
     DEF TypeOK, ShareTyped, RecordsTyped, BoundsTyped
<1>16. \A q \in Presets : ShareInv(q)'
  BY <1>1, <1>7, ShareKept
<1> QED
  BY <1>1, <1>4, <1>7, <1>11, <1>12, <1>13, <1>14, <1>15, <1>16, Moved

LEMMA PlacedFile ==
  ASSUME TypeOK, NEW m \in Machines, NEW p \in Presets, NEW f \in Files,
         FilesFit(loc[m]), Fits(f, p), f.time <= now,
         NEW g, g = [loc[m] EXCEPT ![p] = f]
  PROVE  /\ g \in [Presets -> Files] /\ FilesFit(g) /\ g[p] = f
         /\ \A q \in Presets : q # p => g[q] = loc[m][q]
<1>1. /\ g \in [Presets -> Files] /\ g[p] = f
      /\ \A q \in Presets : q # p => g[q] = loc[m][q]
  BY Parts
<1>2. FilesFit(g)
  BY <1>1 DEF FilesFit
<1> QED
  BY <1>1, <1>2

LEMMA PullPlaceKeeps ==
  ASSUME PresetInv, NEW m \in Machines, PullPlace(m)
  PROVE  PresetInv'
<1> DEFINE c == cycle[m]
           p == c.at
<1>1. /\ TypeOK /\ c \in Cycles /\ Shape(c) /\ FilesFit(loc[m]) /\ HandFits(c)
      /\ c.pc = "fetched" /\ Here(net[p])
      /\ UNCHANGED <<share, records, now, bounds>>
  BY InvParts DEF PullPlace, At
<1>2. p \in Presets /\ p \notin c.todo
  BY <1>1 DEF Shape, Copying, Held
<1>3. /\ c.hand \in Files /\ net[p] \in Files /\ NetFits(net[p], p)
      /\ NetFits(c.hand, p) /\ Here(c.hand) /\ c.hand.time <= now
      /\ net[p].time <= now /\ now \in Nat
  BY <1>1, <1>2, CycleParts, Parts, InvParts
     DEF HandFits, Held, LogoPush, ShareInv
<1>4. PICK file :
        /\ file = IF p \in Watermarks THEN [c.hand EXCEPT !.time = net[p].time]
                                      ELSE [net[p] EXCEPT !.time = c.hand.time]
        /\ loc' = [loc EXCEPT ![m][p] = [file EXCEPT !.time = now]]
        /\ Continues(m, [c EXCEPT !.pc = "placed", !.hand = file])
  BY DEF PullPlace
<1>5. /\ file \in Files /\ NetFits(file, p) /\ Here(file) /\ file.time <= now
  <2>1. CASE p \in Watermarks
    BY <1>1, <1>3, <1>4, <2>1 DEF Files, NetFits, Here
  <2>2. CASE p \notin Watermarks
    BY <1>1, <1>3, <1>4, <2>2 DEF Files, NetFits, Here
  <2> QED
    BY <2>1, <2>2
<1>6. PICK there : there = [file EXCEPT !.time = now]
  OBVIOUS
<1>7. /\ there \in Files /\ Fits(there, p) /\ there.time <= now /\ Here(there)
      /\ loc' = [loc EXCEPT ![m][p] = there]
  <2>1. there \in Files /\ there.time = now /\ there.logo = file.logo
    BY <1>3, <1>5, <1>6 DEF Files
  <2>2. Here(there)
    BY <1>3, <1>5, <2>1, FileParts DEF Here
  <2>3. Fits(there, p)
    BY <1>3, <1>5, <2>1, <2>2 DEF Fits, NetFits
  <2>4. there.time <= now
    BY <1>3, <2>1
  <2>5. loc' = [loc EXCEPT ![m][p] = there]
    BY <1>4, <1>6
  <2> QED
    BY <2>1, <2>2, <2>3, <2>4, <2>5
<1>8a. PICK g : g = [loc[m] EXCEPT ![p] = there]
  OBVIOUS
<1>8. /\ loc' = [loc EXCEPT ![m] = g]
      /\ g \in [Presets -> Files] /\ FilesFit(g) /\ g[p] = there
      /\ \A q \in Presets : q # p => g[q] = loc[m][q]
  <2>1. loc' = [loc EXCEPT ![m] = g]
    BY <1>1, <1>2, <1>7, <1>8a DEF TypeOK
  <2>2. TypeOK /\ FilesFit(loc[m]) /\ p \in Presets
    BY <1>1, <1>2
  <2>3. there \in Files /\ Fits(there, p) /\ there.time <= now
    BY <1>7
  <2>4. g \in [Presets -> Files]
    BY <1>8a, <2>2, <2>3, Parts
  <2>5. FilesFit(g) /\ g[p] = there /\ \A q \in Presets : q # p => g[q] = loc[m][q]
    BY <1>8a, <2>2, <2>3, PlacedFile
  <2> QED
    BY <2>1, <2>4, <2>5
<1>9. PICK d : d = [c EXCEPT !.pc = "placed", !.hand = file] /\ Continues(m, d)
  BY <1>4
<1>10. d \in Cycles
  BY <1>1, <1>5, <1>9 DEF Cycles, PCs
<1>11. /\ d.pc = "placed" /\ d.at = p /\ d.hand = file /\ d.todo = c.todo
       /\ d.seen = c.seen /\ d.newState = c.newState
       /\ d.tomb = c.tomb /\ d.dirty = c.dirty /\ d.failed = c.failed
  BY <1>1, <1>9 DEF Cycles
<1>12. Shape(d)
  BY <1>1, <1>2, <1>11
     DEF Shape, Pushing, Copying, Held, LogoPush, SharePush, HomePush
<1>13. HandFits(d)
  BY <1>5, <1>11 DEF HandFits, Held, LogoPush
<1>14. Fresh(d, g)
  BY <1>7, <1>8, <1>11
     DEF Fresh, Pushing, Copying, Held, LogoPush, SharePush, HomePush
<1>15. OwnInv(d, g)
  BY <1>8, <1>12, <1>13, <1>14 DEF OwnInv
<1>16. "overlap" \notin upsets => Alone(m) /\ Sent(d)
  BY <1>1, <1>11, SoloAlone DEF AtWork, Sent
<1>17. ASSUME upsets \subseteq {"select"}
       PROVE  CalmAt(m, d, g)
  <2>1. /\ ~c.failed /\ Knows(m, c, loc[m]) /\ Mourns(c) /\ Steady(c)
        /\ \A q \in Presets : Younger(q)
    BY <1>1, <1>17, CalmAlone DEF AtWork
  <2>2. Steady(d)
    BY <1>1, <1>11, <2>1 DEF Steady
  <2>3. Knows(m, d, g)
    BY <1>1, <1>2, <1>7, <1>8, <1>11, <2>1 DEF Knows, Pulling
  <2>4. Mourns(d)
    BY <1>1, <1>11, <2>1 DEF Mourns, OnWay, LogoPush
  <2> QED
    BY <1>11, <2>1, <2>2, <2>3, <2>4 DEF CalmAt
<1>18. Turn(m, d, g)
  BY <1>1, <1>8, <1>9 DEF Turn, Continues, TypeOK
<1> QED
  BY <1>8, <1>10, <1>15, <1>16, <1>17, <1>18, Turned

LEMMA SetTimeHereKeeps ==
  ASSUME PresetInv, NEW m \in Machines, SetTimeHere(m)
  PROVE  PresetInv'
<1> DEFINE c == cycle[m]
           p == c.at
<1>1. /\ TypeOK /\ c \in Cycles /\ Shape(c) /\ FilesFit(loc[m]) /\ HandFits(c)
      /\ loc[m] \in [Presets -> Files]
      /\ "edit" \notin upsets => Fresh(c, loc[m])
      /\ c.pc \in {"placed", "rewritten"} /\ Here(loc[m][p])
      /\ UNCHANGED <<share, records, now, bounds>>
  BY InvParts DEF SetTimeHere
<1>2. p \in Presets /\ p \notin c.todo
  BY <1>1 DEF Shape, Copying, Held, HomePush
<1>3. /\ c.hand \in Files /\ Here(c.hand) /\ c.hand.time <= now
      /\ loc[m][p] \in Files /\ Fits(loc[m][p], p)
  BY <1>1, <1>2, CycleParts DEF HandFits, Held, HomePush, FilesFit
<1>4. PICK there : there = [loc[m][p] EXCEPT !.time = c.hand.time]
  OBVIOUS
<1>5. /\ there \in Files /\ Here(there) /\ there.time <= now /\ Fits(there, p)
  <2>1. there \in Files /\ there.time = c.hand.time /\ there.logo = loc[m][p].logo
    BY <1>3, <1>4, FileParts DEF Files
  <2> QED
    BY <1>1, <1>3, <2>1 DEF Fits, Here
<1>6. loc' = [loc EXCEPT ![m][p] = there]
  <2>1. loc' = [loc EXCEPT ![m][p].time = c.hand.time]
    BY DEF SetTimeHere
  <2> QED
    BY <1>1, <1>2, <1>4, <2>1 DEF TypeOK
<1>7a. PICK g : g = [loc[m] EXCEPT ![p] = there]
  OBVIOUS
<1>7. /\ loc' = [loc EXCEPT ![m] = g]
      /\ g \in [Presets -> Files] /\ FilesFit(g) /\ g[p] = there
      /\ \A q \in Presets : q # p => g[q] = loc[m][q]
  <2>1. loc' = [loc EXCEPT ![m] = g]
    BY <1>1, <1>2, <1>6, <1>7a DEF TypeOK
  <2>2. TypeOK /\ FilesFit(loc[m]) /\ p \in Presets
    BY <1>1, <1>2
  <2>3. there \in Files /\ Fits(there, p) /\ there.time <= now
    BY <1>5
  <2>4. g \in [Presets -> Files]
    BY <1>7a, <2>2, <2>3, Parts
  <2>5. FilesFit(g) /\ g[p] = there /\ \A q \in Presets : q # p => g[q] = loc[m][q]
    BY <1>7a, <2>2, <2>3, PlacedFile
  <2> QED
    BY <2>1, <2>4, <2>5
<1>8. PICK pc :
        /\ pc = IF c.pc = "placed" THEN "pulled" ELSE "pushed"
        /\ Continues(m, [c EXCEPT !.pc = pc, !.hand = NoFile])
  BY DEF SetTimeHere, At
<1>9. PICK d : d = [c EXCEPT !.pc = pc, !.hand = NoFile] /\ Continues(m, d)
  BY <1>8
<1>10. d \in Cycles
  BY <1>1, <1>8, <1>9, NothingTyped DEF Cycles, PCs
<1>11. /\ d.pc = pc /\ d.at = p /\ d.hand = NoFile /\ d.todo = c.todo
       /\ d.seen = c.seen /\ d.newState = c.newState
       /\ d.tomb = c.tomb /\ d.dirty = c.dirty /\ d.failed = c.failed
  BY <1>1, <1>9 DEF Cycles
<1>12. /\ pc \in {"pulled", "pushed"}
       /\ c.pc = "placed" => pc = "pulled"
       /\ c.pc = "rewritten" => pc = "pushed"
  BY <1>1, <1>8
<1>13. Shape(d)
  BY <1>1, <1>2, <1>11, <1>12
     DEF Shape, Pushing, Copying, Held, LogoPush, SharePush, HomePush
<1>14. HandFits(d) /\ Sent(d) /\ (missing = {} => Steady(d))
  BY <1>10, <1>11, <1>12, InLoop, HandTime DEF Looping
<1>15. ASSUME "edit" \notin upsets
       PROVE  Fresh(d, g)
  <2>1. \A q \in c.todo : g[q] = loc[m][q]
    BY <1>1, <1>2, <1>7, CycleParts
  <2> QED
    BY <1>1, <1>5, <1>7, <1>11, <1>12, <1>15, <2>1
       DEF Fresh, Pushing, Copying, Held, LogoPush, SharePush, HomePush
<1>16. OwnInv(d, g)
  BY <1>7, <1>13, <1>14, <1>15 DEF OwnInv
<1>17. "overlap" \notin upsets => Alone(m)
  BY <1>1, SoloAlone DEF AtWork
<1>18. ASSUME upsets \subseteq {"select"}
       PROVE  CalmAt(m, d, g)
  <2>1. /\ ~c.failed /\ Knows(m, c, loc[m]) /\ Mourns(c) /\ Steady(c)
        /\ \A q \in Presets : Younger(q)
    BY <1>1, <1>18, CalmAlone DEF AtWork
  <2>2. missing = {}
    BY <1>1, <2>1 DEF Steady
  <2>3. Knows(m, d, g)
    BY <1>1, <1>2, <1>5, <1>7, <1>11, <1>12, <2>1 DEF Knows, Pulling
  <2>4. Mourns(d)
    BY <1>1, <1>11, <1>12, <2>1 DEF Mourns, OnWay, LogoPush
  <2> QED
    BY <1>11, <1>12, <1>14, <2>1, <2>2, <2>3, <2>4 DEF CalmAt
<1>19. Turn(m, d, g)
  BY <1>1, <1>7, <1>9 DEF Turn, Continues, TypeOK
<1> QED
  BY <1>7, <1>10, <1>14, <1>16, <1>17, <1>18, <1>19, Turned

LEMMA RecordKeeps ==
  ASSUME PresetInv, NEW m \in Machines, Record(m)
  PROVE  PresetInv'
<1> DEFINE c == cycle[m]
           p == c.at
           f == loc[m]
<1>1. /\ TypeOK /\ c \in Cycles /\ Shape(c) /\ FilesFit(f)
      /\ f \in [Presets -> Files]
      /\ "edit" \notin upsets => Fresh(c, f)
      /\ c.pc \in {"pulled", "pushed"}
      /\ UNCHANGED <<share, loc, records, now, bounds>>
  BY InvParts DEF Record, At
<1>2. /\ p \in Presets /\ p \notin c.todo
      /\ f[p].time \in Nat /\ c.newState[p] \in Nat
  BY <1>1, CycleParts, FileParts DEF Shape, Copying
<1>3. PICK back \in {"pullB", "pushB"} :
        /\ RecordAs(m, back)
        /\ back = "pullB" => c.pc = "pulled"
        /\ back = "pushB" => c.pc = "pushed"
  BY DEF Record, At
<1>4. PICK t, failed :
        /\ t = IF Here(f[p]) THEN f[p].time ELSE c.newState[p]
        /\ failed = (c.failed \/ ~Here(f[p]))
        /\ Continues(m, [c EXCEPT !.pc = back, !.at = NoPreset,
                                  !.newState[p] = t, !.failed = failed])
  BY <1>3, Zenon DEF RecordAs
<1>5. t \in Nat
  BY <1>2, <1>4
<1>6. failed \in BOOLEAN
  BY <1>4, Zenon
<1>7. PICK d : /\ d = [c EXCEPT !.pc = back, !.at = NoPreset,
                               !.newState[p] = t, !.failed = failed]
               /\ Continues(m, d)
  BY <1>4
<1>8. d \in Cycles
  BY <1>1, <1>2, <1>5, <1>6, <1>7 DEF Cycles, PCs
<1>9. /\ d.pc = back /\ d.todo = c.todo /\ d.seen = c.seen /\ d.hand = c.hand
      /\ d.newState = [c.newState EXCEPT ![p] = t]
      /\ d.tomb = c.tomb /\ d.dirty = c.dirty /\ d.failed = failed
  BY <1>1, <1>7 DEF Cycles
<1>10. Shape(d)
  BY <1>1, <1>3, <1>9
     DEF Shape, Pushing, Copying, Held, LogoPush, SharePush, HomePush
<1>11. HandFits(d) /\ Sent(d) /\ (missing = {} => Steady(d))
  BY <1>8, <1>9, InLoop, HandTime DEF Looping
<1>12. ASSUME "edit" \notin upsets
       PROVE  Fresh(d, f)
  BY <1>1, <1>3, <1>9, <1>12
     DEF Fresh, Pushing, Copying, Held, LogoPush, SharePush, HomePush
<1>13. OwnInv(d, f)
  BY <1>1, <1>10, <1>11, <1>12 DEF OwnInv
<1>14. "overlap" \notin upsets => Alone(m)
  BY <1>1, SoloAlone DEF AtWork
<1>15. ASSUME upsets \subseteq {"select"}
       PROVE  CalmAt(m, d, f)
  <2>1. /\ ~c.failed /\ Knows(m, c, f) /\ Mourns(c) /\ Steady(c)
        /\ \A q \in Presets : Younger(q)
        /\ Fresh(c, f)
    BY <1>1, <1>15, CalmAlone DEF AtWork
  <2>2. Here(f[p])
    BY <1>1, <2>1 DEF Fresh, Copying
  <2>3. ~d.failed
    BY <1>4, <1>9, <2>1, <2>2
  <2>4. missing = {}
    BY <1>1, <2>1 DEF Steady
  <2>5. \A q \in Presets : q # p => d.newState[q] = c.newState[q]
    BY <1>1, <1>9, CycleParts
  <2>6. Knows(m, d, f)
    BY <1>1, <1>3, <1>9, <2>1, <2>2, <2>5 DEF Knows, Pulling
  <2>7. Mourns(d)
    BY <1>1, <1>3, <1>9, <2>1 DEF Mourns, OnWay, LogoPush
  <2> QED
    BY <1>9, <1>11, <2>1, <2>3, <2>4, <2>6, <2>7 DEF CalmAt
<1>16. Turn(m, d, f)
  BY <1>1, <1>7 DEF Turn, Continues, TypeOK
<1> QED
  BY <1>1, <1>8, <1>11, <1>13, <1>14, <1>15, <1>16, Turned

-----------------------------------------------------------------------------
(***************************************************************************)
(* The push: what it begins, what it does not push, and what it does to    *)
(* the local files.                                                        *)
(***************************************************************************)
LEMMA PushNothingKeeps ==
  ASSUME PresetInv, NEW m \in Machines, NEW p \in Presets, PushNothing(m, p)
  PROVE  PresetInv'
<1> DEFINE c == cycle[m]
<1>1. /\ TypeOK /\ c \in Cycles /\ Shape(c) /\ FilesFit(loc[m])
      /\ loc[m] \in [Presets -> Files]
      /\ "edit" \notin upsets => Fresh(c, loc[m])
      /\ c.pc = "pushB"
      /\ UNCHANGED <<share, loc, records, now, bounds>>
  BY InvParts DEF PushNothing, At
<1>2. PICK d : d = [c EXCEPT !.todo = @ \ {p}] /\ Continues(m, d)
  BY DEF PushNothing
<1>3. d \in Cycles
  BY <1>1, <1>2 DEF Cycles
<1>4. /\ d.pc = "pushB" /\ d.todo = c.todo \ {p} /\ d.seen = c.seen
      /\ d.hand = c.hand
      /\ d.tomb = c.tomb /\ d.dirty = c.dirty /\ d.failed = c.failed
  BY <1>1, <1>2 DEF Cycles
<1>5. Shape(d)
  BY <1>1, <1>4
     DEF Shape, Pushing, Copying, Held, LogoPush, SharePush, HomePush
<1>6. HandFits(d) /\ Sent(d) /\ (missing = {} => Steady(d))
  BY <1>3, <1>4, InLoop, HandTime DEF Looping
<1>7. ASSUME "edit" \notin upsets
      PROVE  Fresh(d, loc[m])
  BY <1>1, <1>4, <1>7
     DEF Fresh, Pushing, Copying, Held, LogoPush, SharePush, HomePush
<1>8. OwnInv(d, loc[m])
  BY <1>1, <1>5, <1>6, <1>7 DEF OwnInv
<1>9. "overlap" \notin upsets => Alone(m)
  BY <1>1, SoloAlone DEF AtWork
<1>10. ASSUME upsets \subseteq {"select"}
       PROVE  CalmAt(m, d, loc[m])
  <2>1. /\ ~c.failed /\ Mourns(c) /\ Steady(c) /\ \A q \in Presets : Younger(q)
    BY <1>1, <1>10, CalmAlone DEF AtWork
  <2>2. missing = {}
    BY <1>1, <2>1 DEF Steady
  <2>3. Knows(m, d, loc[m]) /\ Mourns(d)
    BY <1>1, <1>4, <2>1 DEF Knows, Mourns, Pulling, OnWay, LogoPush
  <2> QED
    BY <1>4, <1>6, <2>1, <2>2, <2>3 DEF CalmAt
<1>11. Turn(m, d, loc[m])
  BY <1>1, <1>2 DEF Turn, Continues, TypeOK
<1> QED
  BY <1>1, <1>3, <1>6, <1>8, <1>9, <1>10, <1>11, Turned

LEMMA DeleteZombieKeeps ==
  ASSUME PresetInv, NEW m \in Machines, NEW p \in Presets, DeleteZombie(m, p)
  PROVE  PresetInv'
<1> DEFINE c == cycle[m]
<1>1. /\ TypeOK /\ c \in Cycles /\ Shape(c) /\ FilesFit(loc[m])
      /\ "edit" \notin upsets => Fresh(c, loc[m])
      /\ c.pc = "pushB"
      /\ UNCHANGED <<share, records, now, selects>>
  BY InvParts DEF DeleteZombie, At
<1>2. PICK failed \in {c.failed, TRUE} :
        /\ Continues(m, [c EXCEPT !.todo = @ \ {p}, !.failed = failed])
        /\ Fault \/ (NoFault /\ failed = c.failed)
        /\ loc' = loc \/ loc' = [loc EXCEPT ![m][p] = NoFile]
  <2>1. CASE /\ NoFault /\ loc' = [loc EXCEPT ![m][p] = NoFile]
             /\ Continues(m, [c EXCEPT !.todo = @ \ {p}])
    <3>1. [c EXCEPT !.todo = @ \ {p}] = [c EXCEPT !.todo = @ \ {p}, !.failed = c.failed]
      BY <1>1 DEF Cycles
    <3> QED
      BY <2>1, <3>1
  <2>2. CASE /\ Fault /\ UNCHANGED loc
             /\ Continues(m, [c EXCEPT !.todo = @ \ {p}, !.failed = TRUE])
    BY <2>2
  <2> QED
    BY <2>1, <2>2 DEF DeleteZombie
<1>3. PICK d : /\ d = [c EXCEPT !.todo = @ \ {p}, !.failed = failed]
               /\ Continues(m, d)
  BY <1>2
<1>4. d \in Cycles
  BY <1>1, <1>2, <1>3 DEF Cycles
<1>5. /\ d.pc = "pushB" /\ d.todo = c.todo \ {p} /\ d.seen = c.seen
      /\ d.hand = c.hand
      /\ d.tomb = c.tomb /\ d.dirty = c.dirty /\ d.failed = failed
  BY <1>1, <1>3 DEF Cycles
<1>6. PICK h \in [Presets -> Files] :
        /\ loc' = [loc EXCEPT ![m] = h] /\ FilesFit(h)
        /\ \A q \in Presets : q # p => h[q] = loc[m][q]
  <2>1. loc' = loc \/ loc' = [loc EXCEPT ![m][p] = NoFile]
    BY <1>2
  <2> QED
    BY <1>1, <2>1, FileMayGo
<1>7. Shape(d)
  BY <1>1, <1>5
     DEF Shape, Pushing, Copying, Held, LogoPush, SharePush, HomePush
<1>8. HandFits(d) /\ Sent(d) /\ (missing = {} => Steady(d))
  BY <1>4, <1>5, InLoop, HandTime DEF Looping
<1>9. ASSUME "edit" \notin upsets
      PROVE  Fresh(d, h)
  BY <1>1, <1>5, <1>6, <1>9, CycleParts
     DEF Fresh, Pushing, Copying, Held, LogoPush, SharePush, HomePush
<1>10. OwnInv(d, h)
  BY <1>6, <1>7, <1>8, <1>9 DEF OwnInv
<1>11. "overlap" \notin upsets => Alone(m)
  BY <1>1, SoloAlone DEF AtWork
<1>12. ASSUME upsets \subseteq {"select"}
       PROVE  CalmAt(m, d, h)
  <2>1. /\ ~c.failed /\ Mourns(c) /\ Steady(c) /\ ~Allowed("fault")
        /\ \A q \in Presets : Younger(q)
    BY <1>1, <1>12, CalmAlone DEF AtWork
  <2>2. missing = {}
    BY <1>1, <2>1 DEF Steady
  <2>3. ~d.failed
    BY <1>2, <1>5, <2>1 DEF Fault
  <2>4. Knows(m, d, h) /\ Mourns(d)
    BY <1>1, <1>5, <2>1 DEF Knows, Mourns, Pulling, OnWay, LogoPush
  <2> QED
    BY <1>5, <1>8, <2>1, <2>2, <2>3, <2>4 DEF CalmAt
<1>13. Turn(m, d, h)
  <2>1. Fault \/ NoFault
    BY <1>2
  <2> QED
    BY <1>1, <1>3, <1>6, <2>1, FaultTyped DEF Turn, Continues
<1> QED
  BY <1>4, <1>6, <1>8, <1>10, <1>11, <1>12, <1>13, Turned

LEMMA BeginPushKeeps ==
  ASSUME PresetInv, NEW m \in Machines, NEW p \in Presets, BeginPush(m, p)
  PROVE  PresetInv'
<1> DEFINE c == cycle[m]
           f == loc[m][p]
<1>0. /\ TypeOK /\ c \in Cycles /\ loc[m] \in [Presets -> Files]
      /\ Shape(c) /\ FilesFit(loc[m])
      /\ "edit" \notin upsets => Fresh(c, loc[m])
      /\ f \in Files /\ c.todo \subseteq Presets
  BY InvParts, CycleParts
<1>1. /\ c.pc = "pushB" /\ p \in c.todo /\ NeedsPush(m, p) /\ ~Zombie(m, p)
      /\ UNCHANGED <<share, loc, records, now, bounds>>
  BY DEF BeginPush, At
<1>2. PICK pc, at, dirty, failed :
        /\ pc = IF ~Here(f) THEN "pushB"
                ELSE IF p \in Watermarks THEN "logo" ELSE "copy"
        /\ at = IF Here(f) THEN p ELSE NoPreset
        /\ dirty = (c.dirty \/ c.tomb[p] # 0) /\ failed = (c.failed \/ ~Here(f))
        /\ Continues(m, [c EXCEPT !.pc = pc, !.at = at, !.hand = f,
                                  !.todo = @ \ {p}, !.dirty = dirty,
                                  !.tomb[p] = 0, !.failed = failed])
  BY Zenon DEF BeginPush
<1>3. /\ pc \in {"pushB", "logo", "copy"} /\ at \in {p, NoPreset}
  BY <1>2
<1>4. dirty \in BOOLEAN /\ failed \in BOOLEAN
  BY <1>2, Zenon
<1>5. PICK d : /\ d = [c EXCEPT !.pc = pc, !.at = at, !.hand = f,
                               !.todo = @ \ {p}, !.dirty = dirty,
                               !.tomb[p] = 0, !.failed = failed]
               /\ Continues(m, d)
  BY <1>2
<1>6. d \in Cycles
  BY <1>0, <1>3, <1>4, <1>5 DEF Cycles, PCs
<1>7. /\ d.pc = pc /\ d.at = at /\ d.hand = f /\ d.todo = c.todo \ {p}
      /\ d.seen = c.seen /\ d.tomb = [c.tomb EXCEPT ![p] = 0]
      /\ d.dirty = dirty /\ d.failed = failed
  BY <1>0, <1>5 DEF Cycles
<1>8. d.pc \in {"logo", "copy"} => Here(f) /\ d.at = p
  BY <1>2, <1>7
<1>9. Shape(d)
  BY <1>0, <1>1, <1>2, <1>3, <1>7, <1>8
     DEF Shape, Pushing, Copying, Held, LogoPush, SharePush, HomePush
<1>10. HandFits(d)
  <2>1. Fits(f, p) /\ f.time <= now
    BY <1>0 DEF FilesFit
  <2>2. d.pc = "copy" => NetFits(f, p)
    BY <1>2, <1>7, <2>1 DEF Fits, NetFits
  <2> QED
    BY <1>3, <1>7, <1>8, <2>1, <2>2
       DEF HandFits, Held, LogoPush, SharePush, HomePush
<1>11. Sent(d) /\ (missing = {} => Steady(d))
  BY <1>3, <1>7 DEF Sent, Steady
<1>12. ASSUME "edit" \notin upsets
       PROVE  Fresh(d, loc[m])
  BY <1>0, <1>1, <1>3, <1>7, <1>8, <1>12
     DEF Fresh, Pushing, Copying, Held, LogoPush, SharePush, HomePush
<1>13. OwnInv(d, loc[m])
  BY <1>0, <1>9, <1>10, <1>12 DEF OwnInv
<1>14. "overlap" \notin upsets => Alone(m)
  BY <1>1, SoloAlone DEF AtWork
<1>15. ASSUME upsets \subseteq {"select"}
       PROVE  CalmAt(m, d, loc[m])
  <2>1. /\ ~c.failed /\ Mourns(c) /\ Fresh(c, loc[m]) /\ Steady(c)
        /\ \A q \in Presets : Younger(q)
    BY <1>1, <1>15, CalmAlone DEF AtWork
  <2>2. f.time = c.seen[p] /\ Here(f)
    BY <1>0, <1>1, <2>1
       DEF Fresh, Shape, Pushing, LogoPush, SharePush, HomePush, Here
  <2>3. ~d.failed /\ d.pc \in {"logo", "copy"} /\ d.at = p
    BY <1>2, <1>7, <2>1, <2>2
  <2>4. Knows(m, d, loc[m])
    BY <2>3 DEF Knows, Pulling
  <2>5. \A q \in Presets : q # p /\ ~Here(net[q]) => d.tomb[q] = buried[q]
    BY <1>0, <1>1, <1>7, <2>1, CycleParts DEF Mourns, OnWay, LogoPush
  <2>6. ~d.dirty => d.tomb = tombFile
    <3>1. ASSUME ~d.dirty
          PROVE  d.tomb = c.tomb /\ ~c.dirty
      <4>1. ~c.dirty /\ c.tomb[p] = 0
        BY <1>2, <1>7, <3>1, Zenon
      <4> QED
        BY <1>0, <1>7, <4>1, CycleParts
    <3> QED
      BY <1>1, <2>1, <3>1 DEF Mourns
  <2>7. ASSUME buried[p] # 0
        PROVE  c.seen[p] > buried[p] + Tolerance
    <3>1. /\ c.seen[p] \in Nat /\ net[p].time \in Nat /\ buried[p] \in Nat
          /\ Tolerance \in Nat /\ c.tomb[p] \in Nat
      BY <1>0, Parts, FileParts, CycleParts, ConstantFacts DEF TypeOK
    <3>2. CASE Here(net[p])
      <4>1. c.seen[p] > net[p].time /\ net[p].time > buried[p] + Tolerance
        BY <1>1, <2>1, <2>7, <3>2 DEF NeedsPush, Younger
      <4> QED
        BY <3>1, <4>1
    <3>3. CASE ~Here(net[p])
      <4>1. c.tomb[p] = buried[p]
        BY <1>1, <2>1, <3>3 DEF Mourns, OnWay, LogoPush
      <4>2. ~(c.seen[p] <= c.tomb[p] + Tolerance)
        BY <1>1, <2>7, <4>1 DEF Zombie
      <4> QED
        BY <3>1, <4>1, <4>2
    <3> QED
      BY <3>2, <3>3
  <2>8. Mourns(d)
    BY <1>7, <2>2, <2>3, <2>5, <2>6, <2>7 DEF Mourns, OnWay, LogoPush
  <2>9. missing = {}
    BY <1>1, <2>1 DEF Steady
  <2> QED
    BY <1>11, <2>1, <2>3, <2>4, <2>8, <2>9 DEF CalmAt
<1>16. Turn(m, d, loc[m])
  BY <1>0, <1>1, <1>5 DEF Turn, Continues, TypeOK
<1> QED
  BY <1>0, <1>6, <1>11, <1>13, <1>14, <1>15, <1>16, Turned

LEMMA RewriteTemplateKeeps ==
  ASSUME PresetInv, NEW m \in Machines, RewriteTemplate(m)
  PROVE  PresetInv'
<1> DEFINE c == cycle[m]
           p == c.at
<1>1. /\ TypeOK /\ c \in Cycles /\ Shape(c) /\ HandFits(c) /\ FilesFit(loc[m])
      /\ "edit" \notin upsets => Fresh(c, loc[m])
      /\ c.pc = "rewrite"
      /\ loc' = [loc EXCEPT ![m][p] = [c.hand EXCEPT !.time = now]]
      /\ UNCHANGED <<share, records, now, bounds>>
  BY InvParts DEF RewriteTemplate, At
<1>2. /\ p \in Presets /\ p \notin c.todo /\ c.hand \in Files
      /\ Here(c.hand) /\ NetFits(c.hand, p) /\ c.hand.time <= now /\ now \in Nat
  BY <1>1, CycleParts, Parts
     DEF Shape, Copying, HandFits, Held, HomePush, LogoPush
<1>3. PICK there : there = [c.hand EXCEPT !.time = now]
  OBVIOUS
<1>4. /\ there \in Files /\ there.time <= now /\ Here(there) /\ Fits(there, p)
      /\ there.text = c.hand.text
  <2>1. /\ there \in Files /\ there.time = now /\ there.logo = c.hand.logo
        /\ there.text = c.hand.text
    BY <1>2, <1>3 DEF Files
  <2>2. Here(there)
    BY <1>2, <2>1, FileParts DEF Here
  <2>3. Fits(there, p)
    BY <1>2, <2>1, <2>2 DEF Fits, NetFits
  <2>4. there.time <= now
    BY <1>2, <2>1
  <2> QED
    BY <2>1, <2>2, <2>3, <2>4
<1>5. PICK g : g = [loc[m] EXCEPT ![p] = there]
  OBVIOUS
<1>6. /\ loc' = [loc EXCEPT ![m] = g]
      /\ g \in [Presets -> Files] /\ FilesFit(g) /\ g[p] = there
      /\ \A q \in Presets : q # p => g[q] = loc[m][q]
  <2>1. loc' = [loc EXCEPT ![m] = g]
    BY <1>1, <1>2, <1>3, <1>5 DEF TypeOK
  <2>2. TypeOK /\ FilesFit(loc[m]) /\ p \in Presets
    BY <1>1, <1>2
  <2>3. there \in Files /\ Fits(there, p) /\ there.time <= now
    BY <1>4
  <2>4. g \in [Presets -> Files]
    BY <1>5, <2>2, <2>3, Parts
  <2>5. FilesFit(g) /\ g[p] = there /\ \A q \in Presets : q # p => g[q] = loc[m][q]
    BY <1>5, <2>2, <2>3, PlacedFile
  <2> QED
    BY <2>1, <2>4, <2>5
<1>7. PICK d : d = [c EXCEPT !.pc = "rewritten"] /\ Continues(m, d)
  BY DEF RewriteTemplate
<1>8. d \in Cycles
  BY <1>1, <1>7 DEF Cycles, PCs
<1>9. /\ d.pc = "rewritten" /\ d.todo = c.todo /\ d.seen = c.seen /\ d.at = p
      /\ d.hand = c.hand
      /\ d.tomb = c.tomb /\ d.dirty = c.dirty /\ d.failed = c.failed
  BY <1>1, <1>7 DEF Cycles
<1>10. Shape(d)
  BY <1>1, <1>2, <1>9
     DEF Shape, Pushing, Copying, Held, LogoPush, SharePush, HomePush
<1>11. HandFits(d)
  BY <1>2, <1>9 DEF HandFits, Held, LogoPush, HomePush
<1>12. ASSUME "edit" \notin upsets
       PROVE  Fresh(d, g)
  BY <1>1, <1>2, <1>4, <1>6, <1>9, <1>12, CycleParts
     DEF Fresh, Pushing, Copying, Held, LogoPush, SharePush, HomePush
<1>13. OwnInv(d, g)
  BY <1>6, <1>10, <1>11, <1>12 DEF OwnInv
<1>14. "overlap" \notin upsets => Alone(m) /\ Sent(d)
  BY <1>1, <1>9, SoloAlone DEF AtWork, Sent
<1>15. ASSUME upsets \subseteq {"select"}
       PROVE  CalmAt(m, d, g)
  <2>1. /\ ~c.failed /\ Mourns(c) /\ Steady(c) /\ \A q \in Presets : Younger(q)
    BY <1>1, <1>15, CalmAlone DEF AtWork
  <2>2. Steady(d)
    BY <1>1, <1>9, <2>1 DEF Steady
  <2>3. Knows(m, d, g) /\ Mourns(d)
    BY <1>1, <1>9, <2>1 DEF Knows, Mourns, Pulling, OnWay, LogoPush
  <2> QED
    BY <1>9, <2>1, <2>2, <2>3 DEF CalmAt
<1>16. Turn(m, d, g)
  BY <1>1, <1>6, <1>7 DEF Turn, Continues, TypeOK
<1> QED
  BY <1>6, <1>8, <1>13, <1>14, <1>15, <1>16, Turned

(* From one loop to the next.                                              *)
LEMMA NextLoopKeeps ==
  ASSUME PresetInv, NEW m \in Machines, NextLoop(m)
  PROVE  PresetInv'
<1> DEFINE c == cycle[m]
           f == loc[m]
           scan == Times(f, selected[m])
           gone == {p \in In(selected[m], c.newState) : scan[p] = 0}
<1>1. /\ TypeOK /\ c \in Cycles /\ Shape(c) /\ c.todo = {}
      /\ f \in [Presets -> Files] /\ FilesFit(f)
      /\ "edit" \notin upsets => Fresh(c, f)
      /\ selected[m] \subseteq Presets /\ c.seen \in [Presets -> Nat]
      /\ UNCHANGED <<share, loc, records, now, bounds>>
  BY InvParts, Parts, CycleParts DEF NextLoop
<1>2. \A d : Continues(m, d) => Turn(m, d, f)
  BY <1>1 DEF Turn, Continues, TypeOK
<1>3. scan \in [Presets -> Nat]
  BY <1>1, FileParts DEF Times
<1>4. gone \subseteq Presets /\ In(Presets, c.seen) \subseteq Presets
  BY <1>1 DEF In
<1>5. c.pc \in {"pullA", "pullB", "pushA", "pushB"}
  BY DEF NextLoop
<1>6. "overlap" \notin upsets => Alone(m)
  BY <1>5, SoloAlone DEF AtWork
<1>7. ASSUME upsets \subseteq {"select"}
      PROVE  /\ ~c.failed /\ Knows(m, c, f) /\ Mourns(c) /\ missing = {}
             /\ \A p \in Presets : Younger(p)
  BY <1>5, <1>7, CalmAlone DEF AtWork, Steady
<1>8. CASE c.pc = "pullA" /\ Continues(m, [c EXCEPT !.pc = "pullB",
                                                    !.todo = In(Presets, c.seen)])
  <2>1. PICK d : /\ d = [c EXCEPT !.pc = "pullB", !.todo = In(Presets, c.seen)]
                 /\ Continues(m, d)
    BY <1>8
  <2>2. d \in Cycles
    BY <1>1, <1>4, <2>1 DEF Cycles, PCs
  <2>3. /\ d.pc = "pullB" /\ d.todo = In(Presets, c.seen) /\ d.seen = c.seen
        /\ d.newState = c.newState /\ d.tomb = c.tomb /\ d.dirty = c.dirty
        /\ d.failed = c.failed /\ d.hand = c.hand
    BY <1>1, <2>1 DEF Cycles
  <2>4. Shape(d) /\ Fresh(d, f)
    BY <2>3 DEF Shape, Fresh, Pushing, Copying, Held, LogoPush, SharePush,
                HomePush, In
  <2>5. HandFits(d) /\ Sent(d) /\ (missing = {} => Steady(d))
    BY <2>2, <2>3, InLoop, HandTime DEF Looping
  <2>6. OwnInv(d, f)
    BY <1>1, <2>4, <2>5 DEF OwnInv
  <2>7. ASSUME upsets \subseteq {"select"}
        PROVE  CalmAt(m, d, f)
    <3>1. Knows(m, d, f)
      BY <1>7, <1>8, <2>3, <2>7 DEF Knows, Pulling, In
    <3>2. Mourns(d)
      BY <1>7, <1>8, <2>3, <2>7 DEF Mourns, OnWay, LogoPush
    <3> QED
      BY <1>7, <2>3, <2>5, <2>7, <3>1, <3>2 DEF CalmAt
  <2> QED
    BY <1>1, <1>2, <1>6, <2>1, <2>2, <2>5, <2>6, <2>7, Turned
<1>9. CASE c.pc = "pullB" /\ Continues(m, [c EXCEPT !.pc = "pushA", !.seen = scan,
                                                    !.todo = gone])
  <2>1. PICK d : /\ d = [c EXCEPT !.pc = "pushA", !.seen = scan, !.todo = gone]
                 /\ Continues(m, d)
    BY <1>9
  <2>2. d \in Cycles
    BY <1>1, <1>3, <1>4, <2>1 DEF Cycles, PCs
  <2>3. /\ d.pc = "pushA" /\ d.todo = gone /\ d.seen = scan
        /\ d.newState = c.newState /\ d.tomb = c.tomb /\ d.dirty = c.dirty
        /\ d.failed = c.failed /\ d.hand = c.hand
    BY <1>1, <2>1 DEF Cycles
  <2>4. Shape(d)
    BY <2>3 DEF Shape, Pushing, Copying, Held, LogoPush, SharePush, HomePush
  <2>5. Fresh(d, f)
    BY <2>3 DEF Fresh, Pushing, Copying, Held, LogoPush, SharePush, HomePush, Times
  <2>6. HandFits(d) /\ Sent(d) /\ (missing = {} => Steady(d))
    BY <2>2, <2>3, InLoop, HandTime DEF Looping
  <2>7. OwnInv(d, f)
    BY <1>1, <2>4, <2>5, <2>6 DEF OwnInv
  <2>8. ASSUME upsets \subseteq {"select"}
        PROVE  CalmAt(m, d, f)
    <3>1. ASSUME NEW p \in gone, Here(net[p])
          PROVE  net[p].time <= c.newState[p] + Tolerance
      <4>1. p \in selected[m] /\ p \in Presets /\ ~Here(f[p])
        BY <1>1, <3>1 DEF In, Times, Here
      <4>2. c.seen[p] = net[p].time /\ c.seen[p] # 0
        BY <1>7, <1>9, <2>8, <3>1, <4>1 DEF Knows, Pulling, Here
      <4>3. c.seen[p] <= c.newState[p] + Tolerance
        BY <1>1, <1>7, <1>9, <2>8, <4>1, <4>2 DEF Knows
      <4> QED
        BY <4>2, <4>3
    <3>2. Knows(m, d, f)
      BY <2>3, <3>1 DEF Knows, Pulling
    <3>3. Mourns(d)
      BY <1>7, <1>9, <2>3, <2>8 DEF Mourns, OnWay, LogoPush
    <3> QED
      BY <1>7, <2>3, <2>6, <2>8, <3>2, <3>3 DEF CalmAt
  <2> QED
    BY <1>1, <1>2, <1>6, <2>1, <2>2, <2>6, <2>7, <2>8, Turned
<1>10. CASE c.pc = "pushA" /\ Continues(m, [c EXCEPT !.pc = "pushB",
                                                     !.todo = In(Presets, c.seen)])
  <2>1. PICK d : /\ d = [c EXCEPT !.pc = "pushB", !.todo = In(Presets, c.seen)]
                 /\ Continues(m, d)
    BY <1>10
  <2>2. d \in Cycles
    BY <1>1, <1>4, <2>1 DEF Cycles, PCs
  <2>3. /\ d.pc = "pushB" /\ d.todo = In(Presets, c.seen) /\ d.seen = c.seen
        /\ d.tomb = c.tomb /\ d.dirty = c.dirty /\ d.failed = c.failed
        /\ d.hand = c.hand
    BY <1>1, <2>1 DEF Cycles
  <2>4. Shape(d)
    BY <2>3 DEF Shape, Pushing, Copying, Held, LogoPush, SharePush, HomePush, In
  <2>5. ASSUME "edit" \notin upsets
        PROVE  Fresh(d, f)
    BY <1>1, <1>10, <2>3, <2>5
       DEF Fresh, Pushing, Copying, Held, LogoPush, SharePush, HomePush, In
  <2>6. HandFits(d) /\ Sent(d) /\ (missing = {} => Steady(d))
    BY <2>2, <2>3, InLoop, HandTime DEF Looping
  <2>7. OwnInv(d, f)
    BY <1>1, <2>4, <2>5, <2>6 DEF OwnInv
  <2>8. ASSUME upsets \subseteq {"select"}
        PROVE  CalmAt(m, d, f)
    <3>1. Knows(m, d, f) /\ Mourns(d)
      BY <1>7, <1>10, <2>3, <2>8 DEF Knows, Mourns, Pulling, OnWay, LogoPush
    <3> QED
      BY <1>7, <2>3, <2>6, <2>8, <3>1 DEF CalmAt
  <2> QED
    BY <1>1, <1>2, <1>6, <2>1, <2>2, <2>6, <2>7, <2>8, Turned
<1>11. CASE /\ c.pc = "pushB" /\ ~c.failed
            /\ Continues(m, [c EXCEPT !.pc = "commit", !.seen = NoTimes])
  <2>1. PICK d : d = [c EXCEPT !.pc = "commit", !.seen = NoTimes] /\ Continues(m, d)
    BY <1>11
  <2>2. d \in Cycles
    BY <1>1, <2>1, NothingTyped DEF Cycles, PCs
  <2>3. /\ d.pc = "commit" /\ d.tomb = c.tomb /\ d.dirty = c.dirty
        /\ d.failed = c.failed /\ d.hand = c.hand
    BY <1>1, <2>1 DEF Cycles
  <2>4. Shape(d) /\ Fresh(d, f)
    BY <2>3 DEF Shape, Fresh, Pushing, Copying, Held, LogoPush, SharePush, HomePush
  <2>5. HandFits(d) /\ Sent(d) /\ (missing = {} => Steady(d))
    BY <2>2, <2>3, InLoop, HandTime DEF Looping
  <2>6. OwnInv(d, f)
    BY <1>1, <2>4, <2>5 DEF OwnInv
  <2>7. ASSUME upsets \subseteq {"select"}
        PROVE  CalmAt(m, d, f)
    <3>1. Knows(m, d, f) /\ Mourns(d)
      BY <1>7, <1>11, <2>3, <2>7 DEF Knows, Mourns, Pulling, OnWay, LogoPush
    <3> QED
      BY <1>7, <2>3, <2>5, <2>7, <3>1 DEF CalmAt
  <2> QED
    BY <1>1, <1>2, <1>6, <2>1, <2>2, <2>5, <2>6, <2>7, Turned
<1>12. CASE c.pc = "pushB" /\ c.failed /\ Quits(m)
  <2>1. ~(upsets \subseteq {"select"})
    BY <1>7, <1>12
  <2>2. Turn(m, NoCycle, f)
    BY <1>2, <1>12 DEF Quits
  <2>3. OwnInv(NoCycle, f) /\ Sent(NoCycle)
    BY <1>1, Quit
  <2> QED
    BY <1>1, <1>6, <2>1, <2>2, <2>3, NothingTyped, Turned
<1> QED
  BY <1>8, <1>9, <1>10, <1>11, <1>12 DEF NextLoop

-----------------------------------------------------------------------------
(***************************************************************************)
(* The records at the end of a cycle.                                      *)
(***************************************************************************)
LEMMA ShareUntouched ==
  ASSUME PresetInv, UNCHANGED share, now' = now
  PROVE  /\ LogosKept /\ ShareTyped' /\ \A p \in Presets : ShareInv(p)'
         /\ (\A p \in Presets : Younger(p)) /\ buried' = buried =>
               \A p \in Presets : Younger(p)'
<1>1. UNCHANGED <<net, tmp, logos, logoTmp, missing, shared>> /\ TypeOK
  BY DEF PresetInv
<1>2. LogosKept /\ ShareTyped'
  BY <1>1 DEF LogosKept, Given, ShareTyped, TypeOK
<1>3. \A p \in Presets : ShareInv(p)'
  BY <1>1 DEF PresetInv, ShareInv, NetFits, Given
<1> QED
  BY <1>1, <1>2, <1>3 DEF Younger

LEMMA CommitKeeps ==
  ASSUME PresetInv, NEW m \in Machines, Commit(m)
  PROVE  PresetInv'
<1> DEFINE c == cycle[m]
<1>0. PICK f \in [Presets -> Files] : f = loc[m]
  BY InvParts
<1>1. /\ TypeOK /\ c \in Cycles /\ FilesFit(f) /\ c.hand.time <= now
      /\ c.pc = "commit" /\ c.newState \in [Presets -> Nat]
      /\ UNCHANGED <<share, loc, tombFile, selected, buried, upsets, now,
                     selects>>
  BY <1>0, InvParts, CycleParts, HandTime DEF Commit, At
<1>2. PICK s \in [Presets -> Nat], d \in {[c EXCEPT !.pc = "bury"], NoCycle} :
        /\ stateFile' = [stateFile EXCEPT ![m] = s] /\ Continues(m, d)
        /\ Fault \/ (NoFault /\ (d = NoCycle => ~c.dirty))
  <2>1. CASE /\ NoFault
             /\ stateFile' = [stateFile EXCEPT ![m] = c.newState]
             /\ IF c.dirty THEN Continues(m, [c EXCEPT !.pc = "bury"])
                           ELSE Quits(m)
    <3>1. CASE c.dirty
      <4>1. [c EXCEPT !.pc = "bury"] # NoCycle
        BY <1>1, NothingTyped DEF Cycles
      <4> QED
        BY <1>1, <2>1, <3>1, <4>1, Zenon
    <3>2. CASE ~c.dirty
      BY <1>1, <2>1, <3>2, Zenon DEF Quits
    <3> QED
      BY <3>1, <3>2
  <2>2. CASE /\ Fault /\ stateFile' = [stateFile EXCEPT ![m] = NoTimes] /\ Quits(m)
    BY <2>2, NothingTyped, Zenon DEF Quits
  <2> QED
    BY <2>1, <2>2 DEF Commit
<1>3. /\ d \in Cycles /\ d.pc \in {"bury", "idle"}
      /\ d = NoCycle \/ (/\ d.pc = "bury" /\ d.tomb = c.tomb /\ d.hand = c.hand
                         /\ d.dirty = c.dirty /\ d.failed = c.failed)
  BY <1>1, <1>2, NothingTyped DEF Cycles, PCs
<1>4. Shape(d) /\ Fresh(d, f) /\ Sent(d)
  BY <1>3 DEF Shape, Fresh, Sent, Pushing, Copying, Held, LogoPush, SharePush,
              HomePush
<1>5. HandFits(d)
  <2>1. d.hand.time <= now
    BY <1>1, <1>3, HandTime, NothingTyped
  <2> QED
    BY <1>3, <2>1 DEF HandFits, Held, LogoPush, SharePush, HomePush
<1>6. LogosKept /\ ShareTyped' /\ \A p \in Presets : ShareInv(p)'
  BY <1>1, ShareUntouched
<1>7. OwnInv(d, f)'
  <2>1. OwnInv(d, f)
    BY <1>1, <1>4, <1>5 DEF OwnInv
  <2> QED
    BY <1>1, <1>3, <1>6, <2>1, Parts, OwnKept
<1>8. "overlap" \notin upsets => Alone(m) /\ Sent(d)'
  BY <1>1, <1>3, SoloAlone DEF AtWork, Sent
<1>9. ASSUME upsets \subseteq {"select"}
      PROVE  CalmAt(m, d, f)'
  <2>1. /\ ~c.failed /\ Mourns(c) /\ Steady(c) /\ ~Allowed("fault")
        /\ \A q \in Presets : Younger(q)
    BY <1>1, <1>9, CalmAlone DEF AtWork
  <2>2. ~d.failed /\ Knows(m, d, f)'
    BY <1>3, <2>1, NothingTyped DEF Knows, Pulling
  <2>3. Mourns(d)'
    BY <1>1, <1>3, <2>1, NothingTyped DEF Mourns, OnWay, LogoPush
  <2>4. Steady(d)' /\ \A q \in Presets : Younger(q)'
    BY <1>1, <1>3, <2>1, ShareUntouched DEF Steady
  <2>5. ASSUME d.pc = "idle"
        PROVE  AllRecorded'
    <3>1. ~c.dirty
      BY <1>2, <1>3, <2>1, <2>5 DEF Fault
    <3>2. c.tomb = tombFile /\ \A q \in Presets : ~Here(net[q]) => c.tomb[q] = buried[q]
      BY <1>1, <2>1, <3>1 DEF Mourns, OnWay, LogoPush
    <3> QED
      BY <1>1, <3>2 DEF AllRecorded
  <2> QED
    BY <1>3, <2>2, <2>3, <2>4, <2>5 DEF CalmAt
<1>10. /\ stateFile' \in [Machines -> [Presets -> Nat]]
       /\ \A o \in Machines : o # m => stateFile'[o] = stateFile[o]
  BY <1>1, <1>2 DEF TypeOK
<1>11. StepOf(m, d, f)
  BY <1>0, <1>1, <1>2, <1>10 DEF StepOf, Continues, TypeOK
<1>12. RecordsTyped' /\ BoundsTyped'
  <2>1. Fault \/ NoFault
    BY <1>2
  <2> QED
    BY <1>1, <1>10, <2>1, FaultTyped DEF TypeOK, RecordsTyped, BoundsTyped
<1> QED
  BY <1>1, <1>3, <1>6, <1>7, <1>8, <1>9, <1>11, <1>12, Moved

LEMMA BuryKeeps ==
  ASSUME PresetInv, NEW m \in Machines, Bury(m)
  PROVE  PresetInv'
<1> DEFINE c == cycle[m]
<1>0. PICK f \in [Presets -> Files] : f = loc[m]
  BY InvParts
<1>1. /\ TypeOK /\ c \in Cycles /\ FilesFit(f)
      /\ c.pc = "bury" /\ c.tomb \in [Presets -> Nat] /\ Quits(m)
      /\ (NoFault /\ tombFile' = c.tomb) \/ (Fault /\ tombFile' = NoTimes)
      /\ UNCHANGED <<share, loc, stateFile, selected, buried, upsets, now,
                     selects>>
  BY <1>0, InvParts, CycleParts DEF Bury, At
<1>2. PICK d \in Cycles : d = NoCycle /\ Continues(m, d)
  BY <1>1, NothingTyped DEF Quits
<1>3. LogosKept /\ ShareTyped' /\ \A p \in Presets : ShareInv(p)'
  BY <1>1, ShareUntouched
<1>4. OwnInv(d, f)'
  <2>1. OwnInv(d, f)
    BY <1>1, <1>2, Quit
  <2> QED
    BY <1>1, <1>3, <2>1, Parts, OwnKept
<1>5. "overlap" \notin upsets => Alone(m) /\ Sent(d)'
  BY <1>1, <1>2, NothingTyped, SoloAlone DEF AtWork, Sent
<1>6. ASSUME upsets \subseteq {"select"}
      PROVE  CalmAt(m, d, f)'
  <2>1. /\ Mourns(c) /\ Steady(c) /\ ~Allowed("fault")
        /\ \A q \in Presets : Younger(q)
    BY <1>1, <1>6, CalmAlone DEF AtWork
  <2>2. tombFile' = c.tomb
    BY <1>1, <2>1 DEF Fault
  <2>3. AllRecorded'
    BY <1>1, <2>1, <2>2 DEF AllRecorded, Mourns, OnWay, LogoPush
  <2>4. Steady(d)' /\ \A q \in Presets : Younger(q)'
    BY <1>1, <1>2, <2>1, NothingTyped, ShareUntouched DEF Steady
  <2>5. Knows(m, d, f)' /\ Mourns(d)'
    BY <1>2, NothingTyped DEF Knows, Mourns, Pulling, OnWay, LogoPush
  <2> QED
    BY <1>2, <2>3, <2>4, <2>5, NothingTyped DEF CalmAt
<1>7. tombFile' \in [Presets -> Nat]
  BY <1>1, NothingTyped
<1>8. StepOf(m, d, f)
  BY <1>0, <1>1, <1>2 DEF StepOf, Continues, TypeOK
<1>9. RecordsTyped' /\ BoundsTyped'
  BY <1>1, <1>7, FaultTyped DEF TypeOK, RecordsTyped, BoundsTyped
<1> QED
  BY <1>1, <1>2, <1>3, <1>4, <1>5, <1>6, <1>8, <1>9, Moved

-----------------------------------------------------------------------------
(***************************************************************************)
(* The push: what it does on the share.                                    *)
(***************************************************************************)
LEMMA PushDeletionKeeps ==
  ASSUME PresetInv, NEW m \in Machines, NEW p \in Presets, PushDeletion(m, p)
  PROVE  PresetInv'
<1> DEFINE c == cycle[m]
<1>0. PICK f \in [Presets -> Files] : f = loc[m]
  BY InvParts
<1>1. /\ TypeOK /\ c \in Cycles /\ Shape(c) /\ FilesFit(f)
      /\ "edit" \notin upsets => Fresh(c, f)
      /\ c.pc = "pushA" /\ p \in c.todo /\ now \in Nat /\ c.tomb[p] \in Nat
      /\ UNCHANGED <<tmp, logos, logoTmp, missing, shared, loc, stateFile,
                     tombFile, selected, upsets, now, selects>>
  BY <1>0, InvParts, CycleParts, Parts DEF PushDeletion, At
<1>2. PICK ok \in BOOLEAN, removed \in BOOLEAN, failed \in BOOLEAN,
           dirty \in BOOLEAN, t \in {now, c.tomb[p]} :
        /\ removed = (ok /\ Here(net[p])) /\ failed = (c.failed \/ ~ok)
        /\ dirty = (c.dirty \/ removed) /\ t = IF removed THEN now ELSE c.tomb[p]
        /\ ok \/ Here(net[p])
        /\ net' = IF removed THEN [net EXCEPT ![p] = NoFile] ELSE net
        /\ buried' = IF removed THEN [buried EXCEPT ![p] = now] ELSE buried
        /\ Continues(m, [c EXCEPT !.todo = @ \ {p}, !.newState[p] = 0,
                                  !.tomb[p] = t, !.dirty = dirty,
                                  !.failed = failed])
        /\ IF ok THEN NoFault ELSE Fault
  BY Zenon DEF PushDeletion
<1>3. t \in Nat
  BY <1>1, <1>2
<1>4. PICK d : /\ d = [c EXCEPT !.todo = @ \ {p}, !.newState[p] = 0,
                               !.tomb[p] = t, !.dirty = dirty, !.failed = failed]
               /\ Continues(m, d)
  BY <1>2
<1>5. d \in Cycles
  BY <1>1, <1>2, <1>3, <1>4 DEF Cycles
<1>6. /\ d.pc = "pushA" /\ d.todo = c.todo \ {p} /\ d.seen = c.seen
      /\ d.newState = [c.newState EXCEPT ![p] = 0] /\ d.hand = c.hand
      /\ d.tomb = [c.tomb EXCEPT ![p] = t] /\ d.dirty = dirty /\ d.failed = failed
  BY <1>1, <1>4 DEF Cycles
<1>7. /\ net' \in [Presets -> Files]
      /\ net'[p] = IF removed THEN NoFile ELSE net[p]
      /\ \A q \in Presets : q # p => net'[q] = net[q]
  BY <1>1, <1>2, NothingTyped DEF TypeOK
<1>8. /\ buried' \in [Presets -> Nat]
      /\ buried'[p] = IF removed THEN now ELSE buried[p]
      /\ \A q \in Presets : q # p => buried'[q] = buried[q]
  BY <1>1, <1>2 DEF TypeOK
<1>9. LogosKept
  BY <1>1 DEF LogosKept, Given
<1>10. Shape(d) /\ (missing = {} => Steady(d)) /\ Sent(d)
  <2>1. d.pc \in Looping
    BY <1>6 DEF Looping
  <2>2. Shape(d)
    BY <1>6 DEF Shape, Pushing, Copying, Held, LogoPush, SharePush, HomePush
  <2> QED
    BY <1>5, <2>1, <2>2, InLoop
<1>11. HandFits(d)
  BY <1>5, <1>6, InLoop, HandTime DEF Looping
<1>12. ASSUME "edit" \notin upsets
       PROVE  Fresh(d, f)
  BY <1>1, <1>6, <1>12
     DEF Fresh, Pushing, Copying, Held, LogoPush, SharePush, HomePush
<1>13. OwnInv(d, f)'
  <2>1. OwnInv(d, f)
    BY <1>1, <1>10, <1>11, <1>12 DEF OwnInv
  <2> QED
    BY <1>1, <1>5, <1>9, <2>1, Parts, OwnKept
<1>14. \A q \in Presets : ShareInv(q)'
  <2>1. SUFFICES ASSUME NEW q \in Presets PROVE ShareInv(q)'
    OBVIOUS
  <2>2. /\ NetFits(net[q], q) /\ net[q].time <= now /\ NetFits(tmp[q], q)
        /\ NoFile.time <= now
    BY HandTime DEF PresetInv, ShareInv
  <2>3. net'[q] = net[q] \/ net'[q] = NoFile
    BY <1>7
  <2> QED
    BY <1>1, <2>2, <2>3, NothingTyped DEF ShareInv, NetFits, Given
<1>15. "overlap" \notin upsets => Alone(m) /\ Sent(d)'
  BY <1>1, <1>6, SoloAlone DEF AtWork, Sent
<1>16. ASSUME upsets \subseteq {"select"}
       PROVE  CalmAt(m, d, f)'
  <2>1. /\ ~c.failed /\ Knows(m, c, f) /\ Mourns(c) /\ ~Allowed("fault")
        /\ Steady(c) /\ \A q \in Presets : Younger(q)
    BY <1>0, <1>1, <1>16, CalmAlone DEF AtWork
  <2>2. ok
    BY <1>2, <2>1, Zenon DEF Fault
  <2>3. ~d.failed
    BY <1>2, <1>6, <2>1, <2>2
  <2>4. /\ ~Here(net'[p])
        /\ \A q \in Presets : q # p => /\ d.newState[q] = c.newState[q]
                                       /\ d.tomb[q] = c.tomb[q]
    <3>1. ~Here(net'[p])
      BY <1>2, <1>7, <2>2, NothingTyped
    <3> QED
      BY <1>1, <1>6, <3>1, CycleParts
  <2>5. c.todo \subseteq Presets
    BY <1>1, CycleParts
  <2>6. Knows(m, d, f)'
    BY <1>1, <1>6, <1>7, <2>1, <2>4, <2>5 DEF Knows, Pulling
  <2>7. \A q \in Presets : ~Here(net'[q]) => d.tomb[q] = buried'[q]
    <3>1. d.tomb[p] = buried'[p]
      <4>1. d.tomb[p] = t
        BY <1>1, <1>6, CycleParts
      <4>2. CASE removed
        BY <1>2, <1>8, <4>1, <4>2
      <4>3. CASE ~removed
        <5>1. ~Here(net[p])
          BY <1>2, <2>2, <4>3
        <5>2. c.tomb[p] = buried[p]
          BY <1>1, <2>1, <5>1 DEF Mourns, OnWay, LogoPush
        <5> QED
          BY <1>2, <1>8, <4>1, <4>3, <5>2
      <4> QED
        BY <4>2, <4>3
    <3> QED
      BY <1>1, <1>7, <1>8, <2>1, <2>4, <3>1 DEF Mourns, OnWay, LogoPush
  <2>8. ~d.dirty => d.tomb = tombFile
    <3>1. ASSUME ~d.dirty
          PROVE  ~c.dirty /\ t = c.tomb[p]
      BY <1>2, <1>6, <3>1
    <3>2. ASSUME ~d.dirty
          PROVE  d.tomb = c.tomb
      BY <1>1, <1>6, <3>1, <3>2, CycleParts
    <3> QED
      BY <1>1, <2>1, <3>1, <3>2 DEF Mourns
  <2>9. Mourns(d)'
    BY <1>1, <1>6, <2>7, <2>8 DEF Mourns, OnWay, LogoPush
  <2>10. \A q \in Presets : Younger(q)'
    BY <1>7, <1>8, <2>1, <2>4 DEF Younger
  <2>11. Steady(d)'
    BY <1>1, <1>6, <2>1 DEF Steady
  <2> QED
    BY <1>6, <2>3, <2>6, <2>9, <2>10, <2>11 DEF CalmAt
<1>17. StepOf(m, d, f)
  BY <1>0, <1>1, <1>4 DEF StepOf, Continues, TypeOK
<1>18. ShareTyped' /\ RecordsTyped' /\ BoundsTyped'
  <2>1. Fault \/ NoFault
    BY <1>2, Zenon
  <2>2. ShareTyped' /\ RecordsTyped'
    BY <1>1, <1>7, <1>8 DEF TypeOK, ShareTyped, RecordsTyped
  <2> QED
    BY <1>1, <2>1, <2>2, FaultTyped DEF TypeOK, BoundsTyped
<1> QED
  BY <1>1, <1>5, <1>9, <1>13, <1>14, <1>15, <1>16, <1>17, <1>18, Moved

(* m goes on with the copy it has begun: only the step and what it has in  *)
(* hand change in its cycle.                                               *)
Copies(m, d) ==
    /\ Continues(m, d)
    /\ d.at = cycle[m].at /\ d.todo = cycle[m].todo /\ d.seen = cycle[m].seen
    /\ d.tomb = cycle[m].tomb /\ d.dirty = cycle[m].dirty
    /\ d.failed = cycle[m].failed
    /\ UNCHANGED <<loc, records, now, bounds>>

LEMMA CopyGoesOn ==
  ASSUME PresetInv, NEW m \in Machines, NEW d \in Cycles, Copies(m, d),
         cycle[m].pc \in LogoPush \cup SharePush,
         d.pc \in {"logoWritten", "logoRemoved", "rewrite", "pushed"}
                    \cup SharePush,
         d.pc \notin {"pushed"} \cup SharePush => d.at \in Watermarks,
         d.pc # "pushed" => d.hand.text = cycle[m].hand.text,
         ShareTyped', LogosKept, \A p \in Presets : ShareInv(p)',
         HandFits(d)', "overlap" \notin upsets => Sent(d)',
         upsets \subseteq {"select"} =>
             Mourns(d)' /\ Steady(d)' /\ \A p \in Presets : Younger(p)'
  PROVE  PresetInv'
<1> DEFINE c == cycle[m]
<1>0. PICK f \in [Presets -> Files] : f = loc[m]
  BY InvParts
<1>1. /\ TypeOK /\ c \in Cycles /\ Shape(c) /\ FilesFit(f)
      /\ "edit" \notin upsets => Fresh(c, f)
      /\ Continues(m, d)
      /\ d.at = c.at /\ d.todo = c.todo /\ d.seen = c.seen
      /\ d.failed = c.failed
      /\ UNCHANGED <<loc, records, now, bounds>>
  BY <1>0, InvParts DEF Copies
<1>2. d.at \in Presets /\ d.at \notin d.todo /\ \A q \in d.todo : d.seen[q] # 0
  BY <1>1 DEF Shape, Pushing, Copying, Held
<1>3. Shape(d)
  BY <1>1, <1>2
     DEF Shape, Pushing, Copying, Held, LogoPush, SharePush, HomePush
<1>4. ASSUME "edit" \notin upsets
      PROVE  Fresh(d, f)
  BY <1>1, <1>4
     DEF Fresh, Pushing, Copying, Held, LogoPush, SharePush, HomePush
<1>5. OwnInv(d, f)'
  <2>1. Shape(d)' /\ ("edit" \notin upsets' => Fresh(d, f)')
    BY <1>1, <1>3, <1>4 DEF Shape, Fresh
  <2>2. FilesFit(f)'
    <3>1. SUFFICES ASSUME NEW q \in Presets
                   PROVE  Fits(f[q], q)' /\ f[q].time <= now'
      BY DEF FilesFit
    <3>2. Fits(f[q], q) /\ f[q].time <= now
      BY <1>1 DEF FilesFit
    <3> QED
      BY <1>1, <3>2, FitsKept
  <2> QED
    BY <2>1, <2>2 DEF OwnInv
<1>6. "overlap" \notin upsets => Alone(m) /\ Sent(d)'
  BY SoloAlone DEF AtWork, LogoPush, SharePush
<1>7. ASSUME upsets \subseteq {"select"}
      PROVE  CalmAt(m, d, f)'
  <2>1. ~c.failed
    BY <1>7, CalmAlone DEF AtWork, LogoPush, SharePush
  <2>2. Knows(m, d, f)'
    BY DEF Knows, Pulling, SharePush
  <2>3. d.pc \notin {"idle", "tombstones"}
    BY DEF SharePush
  <2> QED
    BY <1>1, <1>7, <2>1, <2>2, <2>3 DEF CalmAt
<1>8. StepOf(m, d, f)
  BY <1>0, <1>1 DEF StepOf, Continues, TypeOK
<1>9. RecordsTyped' /\ BoundsTyped'
  BY <1>1 DEF TypeOK, RecordsTyped, BoundsTyped
<1> QED
  BY <1>1, <1>5, <1>6, <1>7, <1>8, <1>9, Moved

LEMMA PushLogoKeeps ==
  ASSUME PresetInv, NEW m \in Machines, PushLogo(m)
  PROVE  PresetInv'
<1> DEFINE c == cycle[m]
           p == c.at
           own == c.hand.logo
<1>1. /\ TypeOK /\ c \in Cycles /\ Shape(c) /\ HandFits(c)
      /\ "edit" \notin upsets => Fresh(c, loc[m])
      /\ c.pc = "logo" /\ Here(loc[m][p])
      /\ UNCHANGED <<net, tmp, logos, missing, shared, loc, records, now,
                     bounds>>
  BY InvParts DEF PushLogo, At
<1>2. /\ p \in Watermarks /\ p \in Presets /\ c.hand \in Files
      /\ loc[m][p] \in Files /\ loc[m][p].time <= now
      /\ Here(c.hand) /\ Fits(c.hand, p)
  BY <1>1, ConstantFacts, CycleParts, InvParts
     DEF Shape, HandFits, FilesFit, Held, LogoPush
<1>3. PICK file, onShare :
        /\ file = [c.hand EXCEPT !.time = loc[m][p].time]
        /\ onShare = [file EXCEPT !.logo = Share]
        /\ \/ /\ own \notin logos[p]
              /\ Continues(m, [c EXCEPT !.pc = "copy", !.hand = file])
              /\ UNCHANGED logoTmp
           \/ /\ own \in logos[p] /\ Share \in logos[p]
              /\ Continues(m, [c EXCEPT !.pc = "copy", !.hand = onShare])
              /\ UNCHANGED logoTmp
           \/ /\ own \in logos[p] /\ own # Share
              /\ Continues(m, [c EXCEPT !.pc = "logoWritten", !.hand = onShare])
              /\ logoTmp' = logoTmp \cup {p}
  BY DEF PushLogo
<1>4. /\ file \in Files /\ onShare \in Files
      /\ file.time = loc[m][p].time /\ onShare.time = loc[m][p].time
      /\ file.text = c.hand.text /\ onShare.text = c.hand.text
      /\ file.logo = own
  BY <1>2, <1>3, FileParts DEF Files, Places
<1>5. PICK pc \in {"copy", "logoWritten"}, hand \in {file, onShare} :
        /\ Continues(m, [c EXCEPT !.pc = pc, !.hand = hand])
        /\ logoTmp \subseteq logoTmp' /\ logoTmp' \subseteq Presets
        /\ pc = "logoWritten" => p \in logoTmp'
        /\ pc = "copy" => Given(p)
  <2>1. logoTmp \subseteq Presets
    BY <1>1 DEF TypeOK
  <2>2. CASE /\ own \notin logos[p]
             /\ Continues(m, [c EXCEPT !.pc = "copy", !.hand = file])
             /\ UNCHANGED logoTmp
    BY <1>2, <2>1, <2>2 DEF Fits
  <2>3. CASE /\ own \in logos[p] /\ Share \in logos[p]
             /\ Continues(m, [c EXCEPT !.pc = "copy", !.hand = onShare])
             /\ UNCHANGED logoTmp
    BY <2>1, <2>3 DEF Given
  <2>4. CASE /\ own \in logos[p] /\ own # Share
             /\ Continues(m, [c EXCEPT !.pc = "logoWritten", !.hand = onShare])
             /\ logoTmp' = logoTmp \cup {p}
    BY <1>2, <2>1, <2>4
  <2> QED
    BY <1>3, <2>2, <2>3, <2>4
<1>6. /\ hand \in Files /\ hand.time = loc[m][p].time /\ hand.text = c.hand.text
  BY <1>4
<1>7. PICK d : d = [c EXCEPT !.pc = pc, !.hand = hand] /\ Continues(m, d)
  BY <1>5
<1>8. d \in Cycles
  BY <1>1, <1>5, <1>6, <1>7 DEF Cycles, PCs
<1>9. /\ Copies(m, d) /\ d.pc = pc /\ d.hand = hand /\ d.at = p
  BY <1>1, <1>7 DEF Cycles, Copies
<1>10. LogosKept /\ ShareTyped' /\ \A q \in Presets : ShareInv(q)'
  <2>1. LogosKept /\ ShareTyped'
    BY <1>1, <1>5 DEF LogosKept, Given, ShareTyped, TypeOK
  <2> QED
    BY <1>1, <2>1, ShareKept
<1>11. HandFits(d)'
  <2>1. Here(hand) /\ hand.time <= now
    BY <1>1, <1>2, <1>6 DEF Here
  <2>2. pc = "copy" => NetFits(d.hand, d.at)'
    BY <1>1, <1>2, <1>5, <1>9, <2>1 DEF NetFits, Given
  <2> QED
    BY <1>1, <1>5, <1>9, <2>1, <2>2 DEF HandFits, LogoPush
<1>12. Sent(d)'
  BY <1>5, <1>9 DEF Sent
<1>13. ASSUME upsets \subseteq {"select"}
       PROVE  Mourns(d)' /\ Steady(d)' /\ \A q \in Presets : Younger(q)'
  <2>1. /\ Mourns(c) /\ Steady(c) /\ Fresh(c, loc[m])
        /\ \A q \in Presets : Younger(q)
    BY <1>1, <1>13, CalmAlone DEF AtWork
  <2>2. hand.time = c.hand.time
    BY <1>1, <1>6, <2>1 DEF Fresh
  <2>3. Mourns(d)'
    BY <1>1, <1>5, <1>9, <2>1, <2>2 DEF Mourns, OnWay, LogoPush, Copies
  <2>4. Steady(d)'
    BY <1>1, <1>5, <1>9, <2>1 DEF Steady
  <2>5. \A q \in Presets : Younger(q)'
    BY <1>1, <2>1 DEF Younger
  <2> QED
    BY <2>3, <2>4, <2>5
<1> QED
  BY <1>1, <1>2, <1>5, <1>6, <1>8, <1>9, <1>10, <1>11, <1>12, <1>13, CopyGoesOn
     DEF LogoPush, SharePush

LEMMA LogoRemoveKeeps ==
  ASSUME PresetInv, NEW m \in Machines, LogoRemove(m)
  PROVE  PresetInv'
<1> DEFINE c == cycle[m]
           p == c.at
<1>1. /\ TypeOK /\ c \in Cycles /\ Shape(c) /\ HandFits(c)
      /\ c.pc = "logoWritten"
      /\ logos' = [logos EXCEPT ![p] = @ \ {Share}]
      /\ missing' = IF Share \in logos[p] THEN missing \cup {p} ELSE missing
      /\ UNCHANGED <<net, tmp, logoTmp, shared, loc, records, now, bounds>>
  BY InvParts DEF LogoRemove, At
<1>2. p \in Watermarks /\ p \in Presets
  BY <1>1, ConstantFacts DEF Shape, LogoPush
<1>3. PICK d : d = [c EXCEPT !.pc = "logoRemoved"] /\ Continues(m, d)
  BY DEF LogoRemove
<1>4. d \in Cycles
  BY <1>1, <1>3 DEF Cycles, PCs
<1>5. /\ Copies(m, d) /\ d.pc = "logoRemoved" /\ d.hand = c.hand /\ d.at = p
  BY <1>1, <1>3 DEF Cycles, Copies
<1>6. /\ logos' \in [Presets -> SUBSET (Machines \cup {Share})]
      /\ logos'[p] = logos[p] \ {Share}
      /\ \A q \in Presets : q # p => logos'[q] = logos[q]
      /\ missing \subseteq missing' /\ missing' \subseteq missing \cup {p}
      /\ Share \in logos[p] => p \in missing'
  BY <1>1, <1>2 DEF TypeOK
<1>7. LogosKept /\ ShareTyped'
  <2>1. LogosKept
    BY <1>6 DEF LogosKept, Given
  <2>2. ShareTyped'
    BY <1>1, <1>2, <1>6 DEF ShareTyped, TypeOK
  <2> QED
    BY <2>1, <2>2
<1>8. \A q \in Presets : ShareInv(q)'
  BY <1>1, <1>7, ShareKept
<1>9. HandFits(d)'
  BY <1>1, <1>5 DEF HandFits, Held, LogoPush
<1>10. Sent(d)'
  BY <1>5 DEF Sent
<1>11. ASSUME upsets \subseteq {"select"}
       PROVE  Mourns(d)' /\ Steady(d)' /\ \A q \in Presets : Younger(q)'
  <2>1. Mourns(c) /\ Steady(c) /\ \A q \in Presets : Younger(q)
    BY <1>1, <1>11, CalmAlone DEF AtWork
  <2>2. Mourns(d)'
    BY <1>1, <1>5, <2>1 DEF Mourns, OnWay, LogoPush, Copies
  <2>3. Steady(d)'
    BY <1>1, <1>5, <1>6, <2>1 DEF Steady
  <2>4. \A q \in Presets : Younger(q)'
    BY <1>1, <2>1 DEF Younger
  <2> QED
    BY <2>2, <2>3, <2>4
<1> QED
  BY <1>1, <1>2, <1>4, <1>5, <1>7, <1>8, <1>9, <1>10, <1>11, CopyGoesOn
     DEF LogoPush

LEMMA LogoRenameKeeps ==
  ASSUME PresetInv, NEW m \in Machines, LogoRename(m)
  PROVE  PresetInv'
<1> DEFINE c == cycle[m]
           p == c.at
<1>1. /\ TypeOK /\ c \in Cycles /\ Shape(c) /\ HandFits(c)
      /\ c.pc = "logoRemoved" /\ p \in logoTmp
      /\ logos' = [logos EXCEPT ![p] = @ \cup {Share}]
      /\ logoTmp' = logoTmp \ {p} /\ missing' = missing \ {p}
      /\ UNCHANGED <<net, tmp, shared, loc, records, now, bounds>>
  BY InvParts DEF LogoRename, At
<1>2. p \in Watermarks /\ p \in Presets
  BY <1>1, ConstantFacts DEF Shape, LogoPush
<1>3. PICK d : d = [c EXCEPT !.pc = "copy"] /\ Continues(m, d)
  BY DEF LogoRename
<1>4. d \in Cycles
  BY <1>1, <1>3 DEF Cycles, PCs
<1>5. /\ Copies(m, d) /\ d.pc = "copy" /\ d.hand = c.hand /\ d.at = p
  BY <1>1, <1>3 DEF Cycles, Copies
<1>6. /\ logos' \in [Presets -> SUBSET (Machines \cup {Share})]
      /\ logos'[p] = logos[p] \cup {Share}
      /\ \A q \in Presets : q # p => logos'[q] = logos[q]
  BY <1>1, <1>2 DEF TypeOK
<1>7. LogosKept /\ ShareTyped' /\ Share \in logos'[p]
  <2>1. LogosKept /\ Share \in logos'[p]
    BY <1>1, <1>2, <1>6 DEF LogosKept, Given
  <2>2. ShareTyped'
    BY <1>1, <1>6 DEF ShareTyped, TypeOK
  <2> QED
    BY <2>1, <2>2
<1>8. \A q \in Presets : ShareInv(q)'
  BY <1>1, <1>7, ShareKept
<1>9. HandFits(d)'
  <2>1. Here(c.hand) /\ c.hand.time <= now
    BY <1>1 DEF HandFits, Held, LogoPush
  <2>2. NetFits(d.hand, d.at)'
    BY <1>2, <1>5, <1>7, <2>1 DEF NetFits, Given
  <2> QED
    BY <1>1, <1>5, <2>1, <2>2 DEF HandFits
<1>10. Sent(d)'
  BY <1>5 DEF Sent
<1>11. ASSUME upsets \subseteq {"select"}
       PROVE  Mourns(d)' /\ Steady(d)' /\ \A q \in Presets : Younger(q)'
  <2>1. Mourns(c) /\ Steady(c) /\ \A q \in Presets : Younger(q)
    BY <1>1, <1>11, CalmAlone DEF AtWork
  <2>2. Mourns(d)'
    BY <1>1, <1>5, <2>1 DEF Mourns, OnWay, LogoPush, Copies
  <2>3. Steady(d)'
    BY <1>1, <1>5, <2>1 DEF Steady
  <2>4. \A q \in Presets : Younger(q)'
    BY <1>1, <2>1 DEF Younger
  <2> QED
    BY <2>2, <2>3, <2>4
<1> QED
  BY <1>1, <1>2, <1>4, <1>5, <1>7, <1>8, <1>9, <1>10, <1>11, CopyGoesOn
     DEF LogoPush, SharePush

LEMMA PushWriteKeeps ==
  ASSUME PresetInv, NEW m \in Machines, PushWrite(m)
  PROVE  PresetInv'
<1> DEFINE c == cycle[m]
           p == c.at
<1>1. /\ TypeOK /\ c \in Cycles /\ Shape(c) /\ HandFits(c) /\ FilesFit(loc[m])
      /\ c.pc = "copy" /\ (p \notin Watermarks => Here(loc[m][p]))
      /\ UNCHANGED <<net, logos, logoTmp, missing, shared, loc, records, now,
                     bounds>>
  BY InvParts DEF PushWrite, At
<1>2. /\ p \in Presets /\ c.hand \in Files /\ loc[m][p] \in Files
      /\ Here(c.hand) /\ NetFits(c.hand, p) /\ c.hand.time <= now
      /\ Fits(loc[m][p], p)
  BY <1>1, CycleParts, InvParts
     DEF Shape, HandFits, FilesFit, Copying, Held, LogoPush, SharePush
<1>3. PICK file : /\ file = IF p \in Watermarks THEN c.hand
                            ELSE [loc[m][p] EXCEPT !.time = c.hand.time]
                  /\ tmp' = [tmp EXCEPT ![p] = file]
  BY DEF PushWrite
<1>4. /\ file \in Files /\ Here(file) /\ NetFits(file, p)
      /\ p \in Watermarks => file.text = c.hand.text
  <2>1. CASE p \in Watermarks
    BY <1>2, <1>3, <2>1
  <2>2. CASE p \notin Watermarks
    BY <1>2, <1>3, <2>2, FileParts DEF Files, Here, NetFits, Fits
  <2> QED
    BY <2>1, <2>2
<1>5. PICK d : d = [c EXCEPT !.pc = "written"] /\ Continues(m, d)
  BY DEF PushWrite
<1>6. d \in Cycles
  BY <1>1, <1>5 DEF Cycles, PCs
<1>7. /\ Copies(m, d) /\ d.pc = "written" /\ d.hand = c.hand /\ d.at = p
  BY <1>1, <1>5 DEF Cycles, Copies
<1>8. /\ tmp' \in [Presets -> Files] /\ tmp'[p] = file
      /\ \A q \in Presets : q # p => tmp'[q] = tmp[q]
  BY <1>1, <1>2, <1>3, <1>4 DEF TypeOK
<1>9. LogosKept /\ ShareTyped'
  BY <1>1, <1>8 DEF LogosKept, Given, ShareTyped, TypeOK
<1>10. ASSUME NEW q \in Presets
       PROVE  ShareInv(q)'
  <2>1. NetFits(net[q], q) /\ net[q].time <= now /\ NetFits(tmp[q], q)
    BY DEF PresetInv, ShareInv
  <2>2. NetFits(tmp[q], q)'
    BY <1>1, <1>4, <1>8, <2>1 DEF NetFits, Given
  <2> QED
    BY <1>1, <2>1, <2>2 DEF ShareInv, NetFits, Given
<1>11. HandFits(d)'
  BY <1>1, <1>2, <1>7 DEF HandFits, NetFits, Given
<1>12. Sent(d)'
  BY <1>4, <1>7, <1>8 DEF Sent
<1>13. ASSUME upsets \subseteq {"select"}
       PROVE  Mourns(d)' /\ Steady(d)' /\ \A q \in Presets : Younger(q)'
  <2>1. Mourns(c) /\ Steady(c) /\ \A q \in Presets : Younger(q)
    BY <1>1, <1>13, CalmAlone DEF AtWork
  <2>2. Mourns(d)'
    BY <1>1, <1>7, <2>1 DEF Mourns, OnWay, LogoPush, Copies
  <2>3. Steady(d)'
    BY <1>1, <1>4, <1>7, <1>8, <2>1 DEF Steady
  <2>4. \A q \in Presets : Younger(q)'
    BY <1>1, <2>1 DEF Younger
  <2> QED
    BY <2>2, <2>3, <2>4
<1> QED
  BY <1>1, <1>6, <1>7, <1>9, <1>10, <1>11, <1>12, <1>13, CopyGoesOn
     DEF SharePush

LEMMA PushRemoveKeeps ==
  ASSUME PresetInv, NEW m \in Machines, PushRemove(m)
  PROVE  PresetInv'
<1> DEFINE c == cycle[m]
           p == c.at
<1>1. /\ TypeOK /\ c \in Cycles /\ Shape(c) /\ HandFits(c)
      /\ c.pc = "written"
      /\ net' = [net EXCEPT ![p] = NoFile]
      /\ UNCHANGED <<tmp, logos, logoTmp, missing, shared, loc, records, now,
                     bounds>>
  BY InvParts DEF PushRemove, At
<1>2. /\ p \in Presets /\ c.hand.time <= now
      /\ Here(c.hand) /\ NetFits(c.hand, p)
  BY <1>1 DEF Shape, HandFits, Copying, Held, LogoPush, SharePush
<1>3. PICK d : d = [c EXCEPT !.pc = "removed"] /\ Continues(m, d)
  BY DEF PushRemove
<1>4. d \in Cycles
  BY <1>1, <1>3 DEF Cycles, PCs
<1>5. /\ Copies(m, d) /\ d.pc = "removed" /\ d.hand = c.hand /\ d.at = p
  BY <1>1, <1>3 DEF Cycles, Copies
<1>6. /\ net' \in [Presets -> Files] /\ net'[p] = NoFile
      /\ \A q \in Presets : q # p => net'[q] = net[q]
  BY <1>1, <1>2, NothingTyped DEF TypeOK
<1>7. LogosKept /\ ShareTyped'
  BY <1>1, <1>6 DEF LogosKept, Given, ShareTyped, TypeOK
<1>8. ASSUME NEW q \in Presets
      PROVE  ShareInv(q)'
  <2>1. /\ NetFits(net[q], q) /\ net[q].time <= now /\ NetFits(tmp[q], q)
        /\ NoFile.time <= now
    BY HandTime DEF PresetInv, ShareInv
  <2>2. net'[q] = net[q] \/ net'[q] = NoFile
    BY <1>6
  <2> QED
    BY <1>1, <2>1, <2>2, NothingTyped DEF ShareInv, NetFits, Given
<1>9. HandFits(d)'
  BY <1>1, <1>2, <1>5 DEF HandFits, NetFits, Given
<1>10. ASSUME "overlap" \notin upsets
       PROVE  Sent(d)'
  <2>1. Sent(c)
    BY <1>1, <1>10, SoloAlone DEF AtWork
  <2> QED
    BY <1>1, <1>5, <2>1 DEF Sent
<1>11. ASSUME upsets \subseteq {"select"}
       PROVE  Mourns(d)' /\ Steady(d)' /\ \A q \in Presets : Younger(q)'
  <2>1. Mourns(c) /\ Steady(c) /\ \A q \in Presets : Younger(q)
    BY <1>1, <1>11, CalmAlone DEF AtWork
  <2>2. Mourns(d)'
    BY <1>1, <1>5, <1>6, <2>1 DEF Mourns, OnWay, LogoPush, Copies
  <2>3. Steady(d)'
    BY <1>1, <1>5, <2>1 DEF Steady
  <2>4. \A q \in Presets : Younger(q)'
    BY <1>1, <1>6, <2>1, NothingTyped DEF Younger
  <2> QED
    BY <2>2, <2>3, <2>4
<1> QED
  BY <1>1, <1>4, <1>5, <1>7, <1>8, <1>9, <1>10, <1>11, CopyGoesOn
     DEF SharePush

LEMMA PushRenameKeeps ==
  ASSUME PresetInv, NEW m \in Machines, PushRename(m)
  PROVE  PresetInv'
<1> DEFINE c == cycle[m]
           p == c.at
<1>1. /\ TypeOK /\ c \in Cycles /\ Shape(c) /\ HandFits(c)
      /\ c.pc = "removed" /\ Here(tmp[p])
      /\ net' = [net EXCEPT ![p] = [tmp[p] EXCEPT !.time = now]]
      /\ tmp' = [tmp EXCEPT ![p] = NoFile]
      /\ shared' = [shared EXCEPT ![p] = @ \cup {tmp[p].text}]
      /\ UNCHANGED <<logos, logoTmp, missing, loc, records, now, bounds>>
  BY InvParts DEF PushRename, At
<1>2. /\ p \in Presets /\ c.hand.time <= now
      /\ Here(c.hand) /\ NetFits(c.hand, p) /\ NetFits(tmp[p], p)
      /\ tmp[p] \in Files /\ now \in Nat /\ c.hand \in Files
      /\ c.hand.time \in Nat
  <2>1. p \in Presets /\ c.hand.time <= now /\ Here(c.hand) /\ NetFits(c.hand, p)
    BY <1>1 DEF Shape, HandFits, Copying, Held, LogoPush, SharePush
  <2>2. NetFits(tmp[p], p) /\ tmp[p] \in Files
    BY <1>1, <2>1, Parts DEF PresetInv, ShareInv
  <2> QED
    BY <1>1, <2>1, <2>2, Parts, CycleParts, FileParts
<1>3. PICK file : /\ file = [tmp[p] EXCEPT !.time = now]
                  /\ net' = [net EXCEPT ![p] = file]
  BY <1>1
<1>4. /\ file \in Files /\ file.time = now /\ Here(file) /\ NetFits(file, p)
  <2>1. file \in Files /\ file.time = now /\ file.logo = tmp[p].logo
    BY <1>2, <1>3 DEF Files
  <2>2. Here(file)
    BY <1>2, <2>1 DEF Here
  <2> QED
    BY <1>1, <1>2, <2>1, <2>2 DEF NetFits
<1>5. PICK d : d = [c EXCEPT !.pc = "renamed"] /\ Continues(m, d)
  BY DEF PushRename
<1>6. d \in Cycles
  BY <1>1, <1>5 DEF Cycles, PCs
<1>7. /\ Copies(m, d) /\ d.pc = "renamed" /\ d.hand = c.hand /\ d.at = p
  BY <1>1, <1>5 DEF Cycles, Copies
<1>8. /\ net' \in [Presets -> Files] /\ net'[p] = file
      /\ \A q \in Presets : q # p => net'[q] = net[q]
  <2>1. net \in [Presets -> Files]
    BY <1>1 DEF TypeOK
  <2> QED
    BY <1>2, <1>3, <1>4, <2>1
<1>9. /\ tmp' \in [Presets -> Files] /\ tmp'[p] = NoFile
      /\ \A q \in Presets : q # p => tmp'[q] = tmp[q]
  BY <1>1, <1>2, NothingTyped DEF TypeOK
<1>10. /\ shared' \in [Presets -> SUBSET Nat]
       /\ tmp[p].text \in shared'[p]
  BY <1>1, <1>2, FileParts DEF TypeOK
<1>11. LogosKept /\ ShareTyped'
  BY <1>1, <1>8, <1>9, <1>10 DEF LogosKept, Given, ShareTyped, TypeOK
<1>12. ASSUME NEW q \in Presets
       PROVE  ShareInv(q)'
  <2>1. NetFits(net[q], q) /\ net[q].time <= now /\ NetFits(tmp[q], q)
    BY DEF PresetInv, ShareInv
  <2>2. NetFits(net[q], q)' /\ net'[q].time <= now
    BY <1>1, <1>2, <1>4, <1>8, <2>1 DEF NetFits, Given
  <2>3. NetFits(tmp[q], q)'
    BY <1>1, <1>9, <2>1, NothingTyped DEF NetFits, Given
  <2> QED
    BY <1>1, <2>2, <2>3 DEF ShareInv
<1>13. HandFits(d)'
  BY <1>1, <1>2, <1>7 DEF HandFits, NetFits, Given
<1>14. ASSUME "overlap" \notin upsets
       PROVE  Sent(d)'
  <2>1. Sent(c)
    BY <1>1, <1>14, SoloAlone DEF AtWork
  <2>2. p \in Watermarks => tmp[p].text = c.hand.text
    BY <1>1, <2>1 DEF Sent
  <2> QED
    BY <1>7, <1>10, <2>2 DEF Sent
<1>15. ASSUME upsets \subseteq {"select"}
       PROVE  Mourns(d)' /\ Steady(d)' /\ \A q \in Presets : Younger(q)'
  <2>1. Mourns(c) /\ Steady(c) /\ \A q \in Presets : Younger(q)
    BY <1>1, <1>15, CalmAlone DEF AtWork
  <2>2. \A q \in Presets : ~Here(net'[q]) => ~Here(net[q]) /\ q # p
    BY <1>4, <1>8
  <2>3. Mourns(d)'
    BY <1>1, <1>7, <2>1, <2>2 DEF Mourns, OnWay, LogoPush, Copies
  <2>4. Steady(d)'
    BY <1>1, <1>4, <1>7, <1>8, <2>1 DEF Steady
  <2>5. ASSUME NEW q \in Presets
        PROVE  Younger(q)'
    <3>1. CASE q # p
      BY <1>1, <1>8, <2>1, <3>1 DEF Younger
    <3>2. CASE q = p
      <4>1. buried[p] \in Nat /\ Tolerance \in Nat
        BY <1>1, <1>2, ConstantFacts DEF TypeOK
      <4>2. buried[p] # 0 => c.hand.time > buried[p] + Tolerance
        BY <1>1, <2>1 DEF Mourns, OnWay
      <4>3. buried[p] # 0 => now > buried[p] + Tolerance
        BY <1>2, <4>1, <4>2
      <4> QED
        BY <1>1, <1>4, <1>8, <3>2, <4>3 DEF Younger
    <3> QED
      BY <3>1, <3>2
  <2> QED
    BY <2>3, <2>4, <2>5
<1> QED
  BY <1>1, <1>6, <1>7, <1>11, <1>12, <1>13, <1>14, <1>15, CopyGoesOn
     DEF SharePush

LEMMA SetTimeThereKeeps ==
  ASSUME PresetInv, NEW m \in Machines, SetTimeThere(m)
  PROVE  PresetInv'
<1> DEFINE c == cycle[m]
           p == c.at
           changed == p \in Watermarks /\ c.hand.logo # loc[m][p].logo
<1>1. /\ TypeOK /\ c \in Cycles /\ Shape(c) /\ HandFits(c)
      /\ c.pc = "renamed" /\ Here(net[p])
      /\ UNCHANGED <<tmp, logos, logoTmp, missing, shared, loc, records, now,
                     bounds>>
  BY InvParts DEF SetTimeThere, At
<1>2. /\ p \in Presets /\ c.hand.time <= now /\ c.hand \in Files
      /\ Here(c.hand) /\ NetFits(c.hand, p)
  BY <1>1, CycleParts DEF Shape, HandFits, Copying, Held, LogoPush, SharePush
<1>3. net[p] \in Files /\ NetFits(net[p], p)
  BY <1>1, <1>2, Parts DEF PresetInv, ShareInv
<1>4. PICK file : file = [net[p] EXCEPT !.time = c.hand.time]
  OBVIOUS
<1>5. /\ file \in Files /\ file.time = c.hand.time /\ Here(file)
      /\ NetFits(file, p)
  <2>1. file \in Files /\ file.time = c.hand.time /\ file.logo = net[p].logo
    BY <1>2, <1>3, <1>4, FileParts DEF Files
  <2> QED
    BY <1>1, <1>2, <1>3, <2>1 DEF NetFits, Here
<1>6. /\ net' \in [Presets -> Files] /\ net'[p] = file
      /\ \A q \in Presets : q # p => net'[q] = net[q]
  <2>1. net' = [net EXCEPT ![p].time = c.hand.time]
    BY DEF SetTimeThere
  <2>2. net' = [net EXCEPT ![p] = file]
    BY <1>1, <1>2, <1>4, <2>1 DEF TypeOK
  <2> QED
    BY <1>1, <1>2, <1>5, <2>2 DEF TypeOK
<1>7. PICK pc \in {"rewrite", "pushed"}, hand \in {c.hand, NoFile} :
        /\ Continues(m, [c EXCEPT !.pc = pc, !.hand = hand])
        /\ pc = "rewrite" => p \in Watermarks /\ hand = c.hand
  <2>1. Continues(m, [c EXCEPT !.pc = IF changed THEN "rewrite" ELSE "pushed",
                               !.hand = IF changed THEN @ ELSE NoFile])
    BY DEF SetTimeThere
  <2>2. CASE changed
    BY <2>1, <2>2
  <2>3. CASE ~changed
    BY <2>1, <2>3
  <2> QED
    BY <2>2, <2>3
<1>8. PICK d : d = [c EXCEPT !.pc = pc, !.hand = hand] /\ Continues(m, d)
  BY <1>7
<1>9. d \in Cycles
  BY <1>1, <1>2, <1>7, <1>8, NothingTyped DEF Cycles, PCs
<1>10. /\ Copies(m, d) /\ d.pc = pc /\ d.hand = hand /\ d.at = p
  BY <1>1, <1>8 DEF Cycles, Copies
<1>11. LogosKept /\ ShareTyped'
  BY <1>1, <1>6 DEF LogosKept, Given, ShareTyped, TypeOK
<1>12. ASSUME NEW q \in Presets
       PROVE  ShareInv(q)'
  <2>1. NetFits(net[q], q) /\ net[q].time <= now /\ NetFits(tmp[q], q)
    BY DEF PresetInv, ShareInv
  <2>2. NetFits(net[q], q)' /\ net'[q].time <= now
    BY <1>1, <1>2, <1>5, <1>6, <2>1 DEF NetFits, Given
  <2> QED
    BY <1>1, <2>1, <2>2 DEF ShareInv, NetFits, Given
<1>13. HandFits(d)'
  <2>1. hand.time <= now
    BY <1>2, <1>7, HandTime
  <2>2. CASE pc = "rewrite"
    BY <1>1, <1>2, <1>7, <1>10, <2>2 DEF HandFits, NetFits, Given
  <2>3. CASE pc = "pushed"
    BY <1>1, <1>10, <2>1, <2>3
       DEF HandFits, Held, LogoPush, SharePush, HomePush
  <2> QED
    BY <1>7, <2>2, <2>3
<1>14. ASSUME "overlap" \notin upsets
       PROVE  Sent(d)'
  <2>1. Sent(c)
    BY <1>1, <1>14, SoloAlone DEF AtWork
  <2> QED
    BY <1>1, <1>7, <1>10, <2>1 DEF Sent
<1>15. ASSUME upsets \subseteq {"select"}
       PROVE  Mourns(d)' /\ Steady(d)' /\ \A q \in Presets : Younger(q)'
  <2>1. Mourns(c) /\ Steady(c) /\ \A q \in Presets : Younger(q)
    BY <1>1, <1>15, CalmAlone DEF AtWork
  <2>2. \A q \in Presets : ~Here(net'[q]) => ~Here(net[q])
    BY <1>5, <1>6
  <2>3. Mourns(d)'
    BY <1>1, <1>7, <1>10, <2>1, <2>2 DEF Mourns, OnWay, LogoPush, Copies
  <2>4. Steady(d)'
    BY <1>1, <1>7, <1>10, <2>1 DEF Steady
  <2>5. \A q \in Presets : Younger(q)'
    BY <1>1, <1>5, <1>6, <2>1 DEF Younger, Mourns, OnWay
  <2> QED
    BY <2>3, <2>4, <2>5
<1> QED
  BY <1>1, <1>7, <1>9, <1>10, <1>11, <1>12, <1>13, <1>14, <1>15, CopyGoesOn
     DEF SharePush

-----------------------------------------------------------------------------
(***************************************************************************)
(* What fails.  If nothing goes wrong, no file a cycle needs is gone.      *)
(***************************************************************************)
LEMMA HalfDoneKept ==
  ASSUME PresetInv, NEW m \in Machines, HalfDone(m)
  PROVE  /\ tmp' \in [Presets -> Files] /\ logoTmp' \subseteq Presets
         /\ \A q \in Presets : tmp'[q] = tmp[q] \/ tmp'[q] = NoFile
         /\ \E h \in [Presets -> Files] :
               /\ loc' = [loc EXCEPT ![m] = h] /\ FilesFit(h)
               /\ \A q \in Presets : q # cycle[m].at => h[q] = loc[m][q]
<1> DEFINE c == cycle[m]
<1>1. /\ TypeOK /\ Shape(c) /\ FilesFit(loc[m]) /\ loc[m] \in [Presets -> Files]
  BY InvParts
<1>2. c.pc \in Copying => c.at \in Presets
  BY <1>1 DEF Shape
<1>3. tmp' = tmp \/ (c.at \in Presets /\ tmp' = [tmp EXCEPT ![c.at] = NoFile])
  BY <1>2 DEF HalfDone, Copying, Held, SharePush
<1>4. /\ tmp' \in [Presets -> Files]
      /\ \A q \in Presets : tmp'[q] = tmp[q] \/ tmp'[q] = NoFile
  BY <1>1, <1>3, NothingTyped DEF TypeOK
<1>5. logoTmp' \subseteq Presets
  BY <1>1 DEF HalfDone, TypeOK
<1>6. \/ loc' = loc
      \/ c.at \in Presets /\ loc' = [loc EXCEPT ![m][c.at] = NoFile]
  BY <1>2 DEF HalfDone, Copying, Held, HomePush
<1>7. \E h \in [Presets -> Files] :
         /\ loc' = [loc EXCEPT ![m] = h] /\ FilesFit(h)
         /\ \A q \in Presets : q # c.at => h[q] = loc[m][q]
  <2>1. CASE loc' = loc
    BY <1>1, <2>1 DEF TypeOK
  <2>2. CASE c.at \in Presets /\ loc' = [loc EXCEPT ![m][c.at] = NoFile]
    <3>1. PICK p \in Presets : p = c.at /\ loc' = [loc EXCEPT ![m][p] = NoFile]
      BY <2>2
    <3>2. \E h \in [Presets -> Files] :
             /\ loc' = [loc EXCEPT ![m] = h]
             /\ h[p] = loc[m][p] \/ h[p] = NoFile
             /\ \A q \in Presets : q # p => h[q] = loc[m][q]
             /\ FilesFit(h)
      BY <1>1, <3>1, FileMayGo, Zenon
    <3> QED
      BY <3>1, <3>2
  <2> QED
    BY <1>6, <2>1, <2>2
<1> QED
  BY <1>4, <1>5, <1>7

(* The share after a failure.                                              *)
LEMMA ShareLeft ==
  ASSUME PresetInv, LogosKept, net' = net, now' = now,
         \A q \in Presets : tmp'[q] = tmp[q] \/ tmp'[q] = NoFile,
         NEW p \in Presets
  PROVE  ShareInv(p)'
<1>1. NetFits(net[p], p) /\ NetFits(tmp[p], p) /\ net[p].time <= now
  BY DEF PresetInv, ShareInv
<1>2. NetFits(net[p], p)' /\ NetFits(tmp[p], p)'
  BY <1>1, NothingTyped DEF NetFits, LogosKept
<1> QED
  BY <1>1, <1>2 DEF ShareInv

LEMMA NothingGone ==
  ASSUME PresetInv, NEW m \in Machines, upsets \subseteq {"select"},
         cycle[m].pc \in Held
  PROVE  /\ ~Gone(m) /\ ~Disturbed(m, cycle[m].at)
         /\ ~Allowed("fault")
<1> DEFINE c == cycle[m]
           p == c.at
<1>1. /\ Knows(m, c, loc[m]) /\ Steady(c) /\ Fresh(c, loc[m]) /\ Shape(c)
      /\ Alone(m) /\ ~Allowed("fault")
  BY CalmAlone, InvParts DEF AtWork, Held, LogoPush, SharePush, HomePush
<1>2. p \in Presets
  BY <1>1 DEF Shape, Copying
<1>3. ~Disturbed(m, p)
  BY <1>1 DEF Disturbed, Alone, AtWork, OnShare
<1>4. c.pc = "fetched" => Here(net[p])
  BY <1>1, <1>2 DEF Knows, Shape, Pulling, Here
<1>5. c.pc \in {"logo", "placed", "rewritten", "copy"} => Here(loc[m][p])
  BY <1>1 DEF Fresh, Copying, Held, LogoPush, SharePush, HomePush
<1>6. /\ c.pc = "renamed" => Here(net[p])
      /\ c.pc = "removed" => Here(tmp[p])
      /\ c.pc = "logoRemoved" => p \in logoTmp
  BY <1>1 DEF Steady
<1> QED
  BY <1>1, <1>3, <1>4, <1>5, <1>6 DEF Gone

LEMMA CopyFailsKeeps ==
  ASSUME PresetInv, NEW m \in Machines, CopyFails(m)
  PROVE  PresetInv'
<1> DEFINE c == cycle[m]
<1>0. PICK f \in [Presets -> Files] : f = loc[m]
  BY InvParts
<1>1. /\ TypeOK /\ c \in Cycles /\ Shape(c)
      /\ "edit" \notin upsets => Fresh(c, f)
      /\ c.pc \in OnShare \cup {"placed", "rewrite", "rewritten"}
      /\ HalfDone(m)
      /\ UNCHANGED <<net, logos, missing, shared, records, now, selects>>
  BY <1>0, InvParts DEF CopyFails
<1>2. Fault \/ (NoFault /\ (Gone(m) \/ Disturbed(m, c.at)))
  BY DEF CopyFails
<1>3. c.pc \in Held
  BY <1>1 DEF OnShare, Held, LogoPush, SharePush, HomePush
<1>4. PICK h \in [Presets -> Files] :
        /\ loc' = [loc EXCEPT ![m] = h] /\ FilesFit(h)
        /\ \A q \in Presets : q # c.at => h[q] = f[q]
  BY <1>0, <1>1, HalfDoneKept
<1>5. PICK pc : /\ pc = IF c.pc \in {"fetched", "placed"} THEN "pullB" ELSE "pushB"
                /\ Continues(m, [c EXCEPT !.pc = pc, !.at = NoPreset,
                                          !.hand = NoFile, !.failed = TRUE])
  BY DEF CopyFails
<1>6. PICK d : /\ d = [c EXCEPT !.pc = pc, !.at = NoPreset, !.hand = NoFile,
                               !.failed = TRUE]
               /\ Continues(m, d)
  BY <1>5
<1>7. d \in Cycles
  BY <1>1, <1>5, <1>6, NothingTyped DEF Cycles, PCs
<1>8. d.pc = pc /\ d.todo = c.todo /\ d.seen = c.seen /\ d.hand = NoFile
  BY <1>1, <1>6 DEF Cycles
<1>9. /\ pc \in {"pullB", "pushB"} /\ c.at \notin c.todo /\ c.todo \subseteq Presets
      /\ \A q \in c.todo : c.seen[q] # 0
      /\ pc = "pushB" => c.pc \in Pushing
  <2>1. pc = "pushB" => c.pc \in Pushing
    BY <1>1, <1>5 DEF OnShare, Pushing, LogoPush, SharePush, HomePush
  <2>2. c.pc \in {"fetched", "placed"} \cup Pushing
    BY <1>3, <1>5 DEF Held, Pushing
  <2> QED
    BY <1>1, <1>3, <1>5, <2>1, <2>2, CycleParts DEF Shape, Copying
<1>10. Shape(d)
  BY <1>8, <1>9
     DEF Shape, Pushing, Copying, Held, LogoPush, SharePush, HomePush
<1>11. HandFits(d)
  BY <1>7, <1>8, <1>9, InLoop, HandTime DEF Looping
<1>12. ASSUME "edit" \notin upsets
       PROVE  Fresh(d, h)
  <2>1. pc = "pushB" => \A q \in c.todo : h[q].time = c.seen[q]
    BY <1>1, <1>4, <1>9, <1>12 DEF Fresh
  <2> QED
    BY <1>8, <1>9, <2>1
       DEF Fresh, Pushing, Copying, Held, LogoPush, SharePush, HomePush
<1>13. LogosKept
  BY <1>1 DEF LogosKept, Given
<1>14. OwnInv(d, h)'
  <2>1. OwnInv(d, h)
    BY <1>4, <1>10, <1>11, <1>12 DEF OwnInv
  <2> QED
    BY <1>1, <1>7, <1>13, <2>1, Parts, OwnKept
<1>15. "overlap" \notin upsets => Alone(m) /\ Sent(d)'
  BY <1>3, <1>8, <1>9, SoloAlone
     DEF AtWork, Sent, Held, LogoPush, SharePush, HomePush
<1>16. ASSUME upsets \subseteq {"select"}
       PROVE  FALSE
  BY <1>2, <1>3, <1>16, NothingGone DEF Fault
<1>17. StepOf(m, d, h)
  BY <1>1, <1>4, <1>6 DEF StepOf, Continues
<1>18. ShareTyped' /\ RecordsTyped' /\ BoundsTyped'
  <2>1. Fault \/ NoFault
    BY <1>2
  <2>2. ShareTyped' /\ RecordsTyped'
    BY <1>1, HalfDoneKept DEF TypeOK, ShareTyped, RecordsTyped
  <2> QED
    BY <1>1, <2>1, <2>2, FaultTyped DEF TypeOK, BoundsTyped
<1>19. \A q \in Presets : ShareInv(q)'
  BY <1>1, <1>13, HalfDoneKept, ShareLeft
<1> QED
  BY <1>7, <1>1, <1>13, <1>14, <1>15, <1>16, <1>17, <1>18, <1>19, Moved

LEMMA BreakKeeps ==
  ASSUME PresetInv, NEW m \in Machines, Break(m)
  PROVE  PresetInv'
<1>1. /\ TypeOK /\ AtWork(m) /\ Fault /\ HalfDone(m) /\ Quits(m)
      /\ UNCHANGED <<net, missing, shared, records, now, selects>>
  BY InvParts DEF Break
<1>2. PICK h \in [Presets -> Files] :
        loc' = [loc EXCEPT ![m] = h] /\ FilesFit(h)
  BY <1>1, HalfDoneKept
<1>3. PICK d \in Cycles : d = NoCycle /\ Continues(m, d)
  BY <1>1, NothingTyped DEF Quits
<1>4. /\ LogosKept /\ logos' \in [Presets -> SUBSET (Machines \cup {Share})]
  <2>1. CASE UNCHANGED logos
    BY <1>1, <2>1 DEF LogosKept, Given, TypeOK
  <2>2. CASE \E p \in cycle[m].todo : logos' \in HalfPulled(m, p)
    <3>1. PICK p \in Presets : logos' \in HalfPulled(m, p)
      BY <2>2, InvParts, CycleParts
    <3> QED
      BY <1>1, <3>1, HalfPulledKept
  <2> QED
    BY <2>1, <2>2 DEF Break
<1>5. OwnInv(d, h)'
  <2>1. OwnInv(d, h)
    BY <1>1, <1>2, <1>3, Quit
  <2> QED
    BY <1>1, <1>3, <1>4, <2>1, Parts, OwnKept
<1>6. "overlap" \notin upsets => Alone(m) /\ Sent(d)'
  BY <1>1, <1>3, NothingTyped, SoloAlone DEF Sent
<1>7. ~(upsets \subseteq {"select"})
  BY <1>1 DEF Fault, Allowed
<1>8. StepOf(m, d, h)
  BY <1>1, <1>2, <1>3 DEF StepOf, Continues
<1>9. ShareTyped' /\ RecordsTyped' /\ BoundsTyped'
  <2>1. ShareTyped' /\ RecordsTyped'
    BY <1>1, <1>4, HalfDoneKept DEF TypeOK, ShareTyped, RecordsTyped
  <2> QED
    BY <1>1, <2>1, FaultTyped DEF TypeOK, BoundsTyped
<1>10. \A q \in Presets : ShareInv(q)'
  BY <1>1, <1>4, HalfDoneKept, ShareLeft
<1> QED
  BY <1>1, <1>4, <1>5, <1>6, <1>7, <1>8, <1>9, <1>10, Moved

-----------------------------------------------------------------------------
(***************************************************************************)
(* Users and time: the machines in M may be touched, and are not at work   *)
(* if users keep their hands off.                                          *)
(***************************************************************************)
LEMMA UserKeeps ==
  ASSUME PresetInv, TypeOK', now <= now', NEW M \in SUBSET Machines,
         UNCHANGED <<net, tmp, logoTmp, missing, shared, stateFile, tombFile,
                     buried, upsets, cycle>>,
         \A p \in Presets : logos[p] \subseteq logos'[p],
         \A o \in Machines \ M : loc'[o] = loc[o] /\ selected'[o] = selected[o],
         \A o \in M : FilesFit(loc[o])',
         "edit" \notin upsets => \A o \in M : ~AtWork(o)
  PROVE  PresetInv'
<1>1. LogosKept
  BY DEF LogosKept, Given
<1>2. TypeOK /\ upsets' = upsets /\ now' \in Nat /\ now \in Nat
  <2>1. TypeOK
    BY DEF PresetInv
  <2> QED
    BY <2>1, ConstantFacts DEF TypeOK
<1>3. ASSUME NEW o \in Machines
      PROVE  OwnInv(cycle[o], loc[o])'
  <2>1. PICK c \in Cycles, f \in [Presets -> Files] :
          c = cycle[o] /\ f = loc[o] /\ OwnInv(c, f)
    BY InvParts
  <2>2. OwnInv(c, f)'
    BY <1>1, <1>2, <2>1, OwnKept
  <2>3. CASE o \notin M
    <3>1. cycle'[o] = c /\ loc'[o] = f
      BY <2>1, <2>3
    <3> QED
      BY <2>2, <3>1
         DEF OwnInv, Shape, HandFits, FilesFit, Fits, NetFits, Given, Fresh
  <2>4. CASE o \in M
    <3>1. cycle'[o] = c /\ FilesFit(loc[o])'
      BY <2>1, <2>4
    <3>2. Shape(cycle[o])' /\ HandFits(cycle[o])'
      BY <2>2, <3>1 DEF OwnInv, Shape, HandFits, Fits, NetFits, Given
    <3>3. "edit" \notin upsets' => Fresh(cycle[o], loc[o])'
      BY <1>2, <2>1, <2>4, <3>1
         DEF AtWork, Fresh, Pushing, Copying, Held, LogoPush, SharePush, HomePush
    <3> QED
      BY <3>1, <3>2, <3>3 DEF OwnInv
  <2> QED
    BY <2>3, <2>4
<1>4. ASSUME NEW p \in Presets
      PROVE  ShareInv(p)'
  <2>1. NetFits(net[p], p) /\ net[p].time <= now /\ NetFits(tmp[p], p)
    BY DEF PresetInv, ShareInv
  <2>2. net[p].time <= now'
    BY <1>2, <2>1, Parts, FileParts
  <2> QED
    BY <1>1, <2>1, <2>2 DEF ShareInv, NetFits, LogosKept
<1>5. Solo'
  BY <1>2 DEF PresetInv, Solo, Alone, AtWork, Sent
<1>6. Calm'
  <2>1. SUFFICES ASSUME upsets \subseteq {"select"}, NEW o \in Machines, Alone(o)
                 PROVE  CalmAt(o, cycle[o], loc[o])'
    BY <1>2 DEF Calm, Alone, AtWork
  <2>2. CalmAt(o, cycle[o], loc[o])
    BY <2>1 DEF PresetInv, Calm
  <2>3. AllRecorded' = AllRecorded /\ \A p \in Presets : Younger(p)' = Younger(p)
    BY DEF AllRecorded, Younger
  <2>4. Mourns(cycle[o])' /\ Steady(cycle[o])'
    BY <2>2 DEF CalmAt, Mourns, Steady
  <2>5. Knows(o, cycle[o], loc[o])'
    <3>1. CASE o \notin M
      <4>1. loc'[o] = loc[o] /\ selected'[o] = selected[o] /\ cycle' = cycle
        BY <3>1
      <4>2. cycle[o].todo \subseteq Presets
        BY InvParts, CycleParts
      <4> QED
        BY <2>2, <4>1, <4>2 DEF CalmAt, Knows
    <3>2. CASE o \in M
      <4>1. cycle'[o].pc = "idle"
        BY <2>1, <3>2 DEF AtWork
      <4> QED
        BY <4>1 DEF Knows, Pulling
    <3> QED
      BY <3>1, <3>2
  <2> QED
    BY <2>2, <2>3, <2>4, <2>5 DEF CalmAt
<1> QED
  BY <1>3, <1>4, <1>5, <1>6 DEF PresetInv

LEMMA LaterTyped ==
  ASSUME TypeOK, Later
  PROVE  now' \in 0..MaxNow /\ now <= now' /\ now' # 0
BY ConstantFacts, Parts DEF Later

LEMMA TimePassesKeeps ==
  ASSUME PresetInv, TimePasses
  PROVE  PresetInv'
<1>1. /\ TypeOK /\ Later
      /\ UNCHANGED <<net, tmp, logos, logoTmp, missing, shared, loc>>
      /\ UNCHANGED <<stateFile, tombFile, selected, buried, upsets, cycle>>
      /\ UNCHANGED <<faults, overlaps, selects>>
  BY DEF PresetInv, TimePasses
<1>2. now' \in 0..MaxNow /\ now <= now'
  BY <1>1, LaterTyped
<1>3. TypeOK'
  BY <1>1, <1>2 DEF TypeOK
<1>4. PICK M \in SUBSET Machines : M = {}
  OBVIOUS
<1> QED
  BY <1>1, <1>2, <1>3, <1>4, UserKeeps

(* The files of m, one of them new.                                        *)
LEMMA NewFile ==
  ASSUME TypeOK, LogosKept, NEW m \in Machines, NEW p \in Presets,
         FilesFit(loc[m]), NEW f \in Files, loc' = [loc EXCEPT ![m][p] = f],
         Fits(f, p)', f.time <= now', now' \in Nat, now <= now'
  PROVE  /\ loc' \in [Machines -> [Presets -> Files]] /\ FilesFit(loc[m])'
         /\ \A o \in Machines \ {m} : loc'[o] = loc[o]
<1>1. /\ loc' \in [Machines -> [Presets -> Files]] /\ loc'[m][p] = f
      /\ \A q \in Presets : q # p => loc'[m][q] = loc[m][q]
      /\ \A o \in Machines \ {m} : loc'[o] = loc[o]
  BY DEF TypeOK
<1>2. ASSUME NEW q \in Presets
      PROVE  Fits(loc[m][q], q)' /\ loc'[m][q].time <= now'
  <2>1. CASE q = p
    BY <1>1, <2>1 DEF Fits, Given
  <2>2. CASE q # p
    <3>1. PICK g \in Files : g = loc[m][q] /\ Fits(g, q) /\ g.time <= now
      BY Parts DEF FilesFit
    <3>2. Fits(g, q)' /\ g.time <= now'
      BY <3>1, FitsKept, Parts, FileParts
    <3> QED
      BY <1>1, <2>2, <3>1, <3>2 DEF Fits, Given
  <2> QED
    BY <2>1, <2>2
<1> QED
  BY <1>1, <1>2 DEF FilesFit

LEMMA SavePresetKeeps ==
  ASSUME PresetInv, NEW m \in Machines, NEW p \in Presets, SavePreset(m, p)
  PROVE  PresetInv'
<1>1. /\ TypeOK /\ Later /\ FilesFit(loc[m])
      /\ AtWork(m) => "edit" \in upsets
      /\ UNCHANGED <<net, tmp, logoTmp, missing, shared>>
      /\ UNCHANGED <<stateFile, tombFile, selected, buried, upsets, cycle>>
      /\ UNCHANGED <<faults, overlaps, selects>>
  BY InvParts DEF SavePreset, UserAct, Allowed
<1>2. now' \in 0..MaxNow /\ now <= now' /\ now' # 0 /\ now' \in Nat
  BY <1>1, LaterTyped, ConstantFacts
<1>3. PICK logo, f :
        /\ logo = IF p \notin Watermarks THEN Nowhere
                  ELSE IF Here(loc[m][p]) THEN loc[m][p].logo ELSE m
        /\ f = [text |-> now', time |-> now', logo |-> logo]
        /\ loc' = [loc EXCEPT ![m][p] = f]
        /\ logos' = IF logo = m THEN [logos EXCEPT ![p] = @ \cup {m}] ELSE logos
  BY DEF SavePreset
<1>4. loc[m][p] \in Files /\ Fits(loc[m][p], p)
  BY <1>1, Parts DEF FilesFit
<1>5. logo \in Places /\ f \in Files /\ f.time = now' /\ f.logo = logo /\ Here(f)
  <2>1. logo \in Places
    BY <1>3, <1>4, FileParts DEF Places
  <2> QED
    BY <1>2, <1>3, <2>1 DEF Files, Here
<1>6. /\ logos' \in [Presets -> SUBSET (Machines \cup {Share})]
      /\ \A q \in Presets : logos[q] \subseteq logos'[q]
      /\ logo = m => m \in logos'[p]
  BY <1>1, <1>3 DEF TypeOK
<1>7. LogosKept
  BY <1>1, <1>6 DEF LogosKept, Given
<1>8. Fits(f, p)'
  <2>1. p \notin Watermarks => logo = Nowhere
    BY <1>3
  <2>2. p \in Watermarks => logo \in logos'[p] \/ Given(p)'
    <3>1. CASE p \in Watermarks /\ Here(loc[m][p])
      BY <1>3, <1>4, <1>7, <3>1 DEF Fits, LogosKept
    <3>2. CASE p \in Watermarks /\ ~Here(loc[m][p])
      BY <1>3, <1>6, <3>2
    <3> QED
      BY <3>1, <3>2
  <2> QED
    BY <1>5, <2>1, <2>2 DEF Fits
<1>9. /\ loc' \in [Machines -> [Presets -> Files]] /\ FilesFit(loc[m])'
      /\ \A o \in Machines \ {m} : loc'[o] = loc[o]
  <2>1. f.time <= now'
    BY <1>2, <1>5
  <2> QED
    BY <1>1, <1>2, <1>3, <1>5, <1>7, <1>8, <2>1, NewFile
<1>10. TypeOK'
  BY <1>1, <1>2, <1>6, <1>9 DEF TypeOK
<1>11. PICK M \in SUBSET Machines : M = {m}
  OBVIOUS
<1> QED
  BY <1>1, <1>2, <1>6, <1>9, <1>10, <1>11, UserKeeps

LEMMA DeletePresetKeeps ==
  ASSUME PresetInv, NEW m \in Machines, NEW p \in Presets, DeletePreset(m, p)
  PROVE  PresetInv'
<1>1. /\ TypeOK /\ FilesFit(loc[m])
      /\ AtWork(m) => "edit" \in upsets
      /\ UNCHANGED <<net, tmp, logos, logoTmp, missing, shared>>
      /\ UNCHANGED <<stateFile, tombFile, selected, buried, upsets, cycle, now>>
      /\ UNCHANGED <<faults, overlaps, selects>>
      /\ loc' = [loc EXCEPT ![m][p] = NoFile]
  BY InvParts DEF DeletePreset, UserAct, Allowed
<1>2. LogosKept /\ now' \in Nat /\ now <= now' /\ NoFile.time <= now'
  BY <1>1, Parts, HandTime DEF LogosKept, Given
<1>3. PICK f \in Files : f = NoFile
  BY NothingTyped
<1>4. Fits(f, p)'
  BY <1>3, NothingTyped DEF Fits
<1>5. /\ loc' \in [Machines -> [Presets -> Files]] /\ FilesFit(loc[m])'
      /\ \A o \in Machines \ {m} : loc'[o] = loc[o]
  BY <1>1, <1>2, <1>3, <1>4, NewFile
<1>6. TypeOK'
  BY <1>1, <1>5 DEF TypeOK
<1>7. PICK M \in SUBSET Machines : M = {m}
  OBVIOUS
<1> QED
  BY <1>1, <1>2, <1>5, <1>6, <1>7, UserKeeps

LEMMA SelectCategoriesKeeps ==
  ASSUME PresetInv, NEW m \in Machines, SelectCategories(m)
  PROVE  PresetInv'
<1>1. /\ TypeOK /\ FilesFit(loc[m]) /\ ~AtWork(m)
      /\ UNCHANGED <<net, tmp, logos, logoTmp, missing, shared, loc>>
      /\ UNCHANGED <<stateFile, tombFile, buried, upsets, cycle, now>>
      /\ UNCHANGED <<faults, overlaps>>
      /\ selects < MaxSelects /\ selects' = selects + 1
  BY InvParts DEF SelectCategories
<1>2. PICK S \in SUBSET Presets : selected' = [selected EXCEPT ![m] = S]
  BY DEF SelectCategories
<1>3. /\ selected' \in [Machines -> SUBSET Presets]
      /\ \A o \in Machines \ {m} : selected'[o] = selected[o]
  BY <1>1, <1>2 DEF TypeOK
<1>4. selects' \in 0..MaxSelects
  BY <1>1, ConstantFacts DEF TypeOK
<1>5. TypeOK'
  BY <1>1, <1>3, <1>4 DEF TypeOK
<1>6. FilesFit(loc[m])' /\ now' \in Nat /\ now <= now'
  BY <1>1, Parts DEF FilesFit, Fits, Given
<1>7. PICK M \in SUBSET Machines : M = {m}
  OBVIOUS
<1> QED
  BY <1>1, <1>3, <1>5, <1>6, <1>7, UserKeeps

-----------------------------------------------------------------------------
(***************************************************************************)
(* The invariant.                                                          *)
(***************************************************************************)
LEMMA InvInit == Init => PresetInv
<1> SUFFICES ASSUME Init PROVE PresetInv
  OBVIOUS
<1>1. TypeOK
  BY NothingTyped, ConstantFacts DEF Init, TypeOK
<1>2. /\ \A m \in Machines : /\ cycle[m] = NoCycle
                             /\ \A p \in Presets : loc[m][p] = NoFile
      /\ \A p \in Presets : /\ net[p] = NoFile /\ tmp[p] = NoFile
                            /\ tombFile[p] = 0 /\ buried[p] = 0
      /\ missing = {} /\ now = 0
  BY NothingTyped DEF Init
<1>3. AllRecorded /\ \A p \in Presets : Younger(p)
  BY <1>2 DEF AllRecorded, Younger
<1>4. ASSUME NEW m \in Machines
      PROVE  /\ OwnInv(cycle[m], loc[m]) /\ ~AtWork(m)
             /\ CalmAt(m, cycle[m], loc[m])
  <2>1. FilesFit(loc[m])
    BY <1>2, NothingTyped, NoFileFits DEF FilesFit
  <2>2. OwnInv(NoCycle, loc[m]) /\ CalmAt(m, NoCycle, loc[m])
    BY <1>1, <1>2, <1>3, <2>1, Quit
  <2> QED
    BY <1>2, <2>2, NothingTyped DEF AtWork
<1>5. \A p \in Presets : ShareInv(p)
  BY <1>2, NothingTyped, NoFileFits DEF ShareInv
<1>6. Solo /\ Calm
  BY <1>4 DEF Solo, Calm
<1> QED
  BY <1>1, <1>4, <1>5, <1>6 DEF PresetInv

LEMMA InvStutter ==
  ASSUME PresetInv, UNCHANGED vars
  PROVE  PresetInv'
<1>1. /\ UNCHANGED <<net, tmp, logos, logoTmp, missing, shared, loc>>
      /\ UNCHANGED <<stateFile, tombFile, selected, buried, upsets, cycle, now>>
      /\ UNCHANGED <<faults, overlaps, selects>> /\ TypeOK
  BY DEF vars, PresetInv
<1>2. TypeOK'
  BY <1>1 DEF TypeOK
<1>3. PICK M \in SUBSET Machines : M = {}
  OBVIOUS
<1>4. now <= now'
  BY <1>1, Parts
<1> QED
  BY <1>1, <1>2, <1>3, <1>4, UserKeeps

LEMMA InvStep == PresetInv /\ [Next]_vars => PresetInv'
<1> SUFFICES ASSUME PresetInv, [Next]_vars PROVE PresetInv'
  OBVIOUS
<1>1. ASSUME NEW m \in Machines, CycleStep(m)
      PROVE  PresetInv'
  BY <1>1, StartKeeps, ReadTombstonesKeeps, NextLoopKeeps, RecordKeeps,
     PullPlaceKeeps, SetTimeHereKeeps, PushLogoKeeps, LogoRemoveKeeps,
     LogoRenameKeeps, PushWriteKeeps, PushRemoveKeeps, PushRenameKeeps,
     SetTimeThereKeeps, RewriteTemplateKeeps, CopyFailsKeeps,
     CommitKeeps, BuryKeeps, PullDeletionKeeps, PullNothingKeeps, PullKeeps,
     PullFailsKeeps, PushDeletionKeeps, PushNothingKeeps, DeleteZombieKeeps,
     BeginPushKeeps DEF CycleStep
<1>2. ASSUME NEW m \in Machines, UserStep(m)
      PROVE  PresetInv'
  BY <1>2, SavePresetKeeps, DeletePresetKeeps, SelectCategoriesKeeps DEF UserStep
<1>3. ASSUME NEW m \in Machines, Break(m)
      PROVE  PresetInv'
  BY <1>3, BreakKeeps
<1>4. CASE Next
  BY <1>1, <1>2, <1>3, <1>4, TimePassesKeeps DEF Next
<1>5. CASE UNCHANGED vars
  BY <1>5, InvStutter
<1> QED
  BY <1>4, <1>5

LEMMA PresetInvHolds == Spec => []PresetInv
BY InvInit, InvStep, PTL DEF Spec

-----------------------------------------------------------------------------
(***************************************************************************)
(* What the steps do to the share, and to the files of a machine.          *)
(***************************************************************************)
LEMMA ShareChanges ==
  ASSUME PresetInv, Next, NEW p \in Presets, net'[p] # net[p]
  PROVE  \E m \in Machines :
            \/ PushDeletion(m, p)
            \/ cycle[m].pc \in {"written", "removed", "renamed"}
<1>1. TypeOK /\ net' # net
  BY DEF PresetInv
<1>2. PICK m \in Machines : CycleStep(m) \/ UserStep(m) \/ Break(m)
  <2>1. ~TimePasses
    BY <1>1 DEF TimePasses
  <2> QED
    BY <2>1 DEF Next
<1>3. CASE PushRemove(m) \/ PushRename(m) \/ SetTimeThere(m)
  BY <1>3 DEF PushRemove, PushRename, SetTimeThere, At
<1>4. CASE \E q \in Presets : PushDeletion(m, q)
  <2>1. PICK q \in Presets : PushDeletion(m, q)
    BY <1>4
  <2>2. net' = net \/ net' = [net EXCEPT ![q] = NoFile]
    BY <2>1, Zenon DEF PushDeletion
  <2>3. q = p
    BY <1>1, <2>2 DEF TypeOK
  <2> QED
    BY <2>1, <2>3
<1>5. CASE UserStep(m) \/ Break(m)
  BY <1>1, <1>5
     DEF UserStep, SelectCategories, SavePreset, DeletePreset, UserAct, Break
<1>6. CASE \/ Start(m) \/ ReadTombstones(m) \/ NextLoop(m) \/ Record(m)
           \/ PullPlace(m) \/ SetTimeHere(m) \/ RewriteTemplate(m)
           \/ Commit(m) \/ Bury(m)
  BY <1>1, <1>6
     DEF Start, ReadTombstones, NextLoop, Record, PullPlace, SetTimeHere,
         RewriteTemplate, Commit, Bury
<1>7. CASE \/ PushLogo(m) \/ LogoRemove(m) \/ LogoRename(m) \/ PushWrite(m)
           \/ CopyFails(m)
  BY <1>1, <1>7 DEF PushLogo, LogoRemove, LogoRename, PushWrite, CopyFails
<1>8. CASE \E q \in Presets :
             \/ PullDeletion(m, q) \/ PullNothing(m, q) \/ Pull(m, q)
             \/ PullFails(m, q) \/ PushNothing(m, q)
             \/ DeleteZombie(m, q) \/ BeginPush(m, q)
  BY <1>1, <1>8
     DEF PullDeletion, PullNothing, Pull, PullFails, PushNothing,
         DeleteZombie, BeginPush
<1> QED
  BY <1>2, <1>3, <1>4, <1>5, <1>6, <1>7, <1>8 DEF CycleStep

LEMMA FilesChange ==
  ASSUME PresetInv, Next, NEW m \in Machines, NEW p \in Presets,
         "edit" \notin upsets, AtWork(m), loc'[m][p].text # loc[m][p].text
  PROVE  \/ PullDeletion(m, p) /\ Unchanged(m, p)
         \/ DeleteZombie(m, p)
         \/ /\ cycle[m].at = p
            /\ \/ At(m, "fetched") \/ RewriteTemplate(m)
               \/ At(m, "rewrite") /\ Allowed("fault")
<1>1. TypeOK /\ loc' # loc /\ loc'[m][p] # loc[m][p]
  BY DEF PresetInv
<1>2. PICK o \in Machines : CycleStep(o) \/ UserStep(o) \/ Break(o)
  <2>1. ~TimePasses
    BY <1>1 DEF TimePasses
  <2> QED
    BY <2>1 DEF Next
<1>3. \A f, q : loc' = [loc EXCEPT ![o][q] = f] => o = m /\ q = p
  BY <1>1 DEF TypeOK
<1>4. CASE \E q \in Presets : PullDeletion(o, q)
  <2>1. PICK q \in Presets : PullDeletion(o, q)
    BY <1>4
  <2>2. loc' = [loc EXCEPT ![o][q] = NoFile] /\ Unchanged(o, q)
    BY <1>1, <2>1, Zenon DEF PullDeletion
  <2> QED
    BY <1>3, <2>1, <2>2
<1>5. CASE \E q \in Presets : DeleteZombie(o, q)
  <2>1. PICK q \in Presets : DeleteZombie(o, q)
    BY <1>5
  <2>2. loc' = [loc EXCEPT ![o][q] = NoFile]
    BY <1>1, <2>1 DEF DeleteZombie
  <2> QED
    BY <1>3, <2>1, <2>2
<1>6. CASE RewriteTemplate(o)
  <2>1. \E f : loc' = [loc EXCEPT ![o][cycle[o].at] = f]
    BY <1>6 DEF RewriteTemplate
  <2>2. o = m /\ cycle[o].at = p
    BY <1>3, <2>1
  <2> QED
    BY <1>6, <2>2
<1>7. CASE PullPlace(o)
  <2>1. (\E f : loc' = [loc EXCEPT ![o][cycle[o].at] = f]) /\ At(o, "fetched")
    BY <1>7 DEF PullPlace
  <2>2. o = m /\ cycle[o].at = p
    BY <1>3, <2>1
  <2> QED
    BY <2>1, <2>2
<1>8. CASE SetTimeHere(o)
  <2>1. loc' = [loc EXCEPT ![o][cycle[o].at].time = cycle[o].hand.time]
    BY <1>8 DEF SetTimeHere
  <2>2. loc'[m][p].text = loc[m][p].text
    BY <1>1, <2>1, Parts DEF TypeOK, Files
  <2> QED
    BY <2>2
<1>9. CASE CopyFails(o) \/ Break(o)
  <2>1. /\ loc' = [loc EXCEPT ![o][cycle[o].at] = NoFile]
        /\ cycle[o].pc \in {"fetched", "rewrite"}
    BY <1>1, <1>9 DEF CopyFails, Break, HalfDone
  <2>2. o = m /\ cycle[o].at = p
    BY <1>3, <2>1
  <2>3. Allowed("fault")
    BY <1>1, <1>9 DEF CopyFails, Break, Fault
  <2> QED
    BY <2>1, <2>2, <2>3 DEF At
<1>10. CASE UserStep(o)
  <2>1. CASE SelectCategories(o)
    BY <1>1, <2>1 DEF SelectCategories
  <2>2. CASE \E q \in Presets : SavePreset(o, q) \/ DeletePreset(o, q)
    <3>1. o # m
      BY <2>2 DEF SavePreset, DeletePreset, UserAct, Allowed
    <3>2. \E f, q : loc' = [loc EXCEPT ![o][q] = f]
      BY <2>2 DEF SavePreset, DeletePreset
    <3> QED
      BY <1>3, <3>1, <3>2
  <2> QED
    BY <1>10, <2>1, <2>2 DEF UserStep
<1>11. CASE \/ Start(o) \/ ReadTombstones(o) \/ NextLoop(o) \/ Record(o)
            \/ PushLogo(o) \/ LogoRemove(o) \/ LogoRename(o) \/ Commit(o)
            \/ Bury(o)
  BY <1>1, <1>11 DEF Start, ReadTombstones, NextLoop, Record, PushLogo,
                     LogoRemove, LogoRename, Commit, Bury
<1>12. CASE PushWrite(o) \/ PushRemove(o) \/ PushRename(o) \/ SetTimeThere(o)
  BY <1>1, <1>12 DEF PushWrite, PushRemove, PushRename, SetTimeThere
<1>13. CASE \E q \in Presets :
              \/ PullNothing(o, q) \/ Pull(o, q) \/ PullFails(o, q)
              \/ PushNothing(o, q) \/ PushDeletion(o, q) \/ BeginPush(o, q)
  BY <1>1, <1>13 DEF PullNothing, Pull, PullFails, PushNothing, PushDeletion,
                     BeginPush
<1> QED
  BY <1>2, <1>4, <1>5, <1>6, <1>7, <1>8, <1>9, <1>10, <1>11, <1>12, <1>13
     DEF CycleStep

-----------------------------------------------------------------------------
(* Whatever overlaps, fails or is edited meanwhile: files, states and      *)
(* tombstones are what they should be, a failed copy is never recorded as  *)
(* a time, and a cycle copies one known preset at a time (PresetSync).     *)
THEOREM PresetTypeCorrect == Spec => []TypeOK
<1>1. PresetInv => TypeOK
  BY DEF PresetInv
<1> QED
  BY <1>1, PresetInvHolds, PTL

(* With cycles that overlap, fail or stop between any two calls: a         *)
(* template that is on the share and points there finds its logo, which    *)
(* pushWatermark copied first, or a replacement (replaceFile) has removed  *)
(* the logo and not put it back; in behaviours where nothing goes wrong    *)
(* that is only so while such a replacement is under way.                  *)
THEOREM SharedLogoExistsHolds == Spec => []SharedLogoExists
<1>1. ASSUME PresetInv
      PROVE  SharedLogoExists
  <2>1. SUFFICES ASSUME NEW p \in Presets, net[p].logo = Share,
                        Share \notin logos[p]
                 PROVE  /\ p \in missing
                        /\ upsets \subseteq {"select"} =>
                               \E m \in Machines : Replaces(m, p)
    BY DEF SharedLogoExists
  <2>2. NetFits(net[p], p)
    BY <1>1 DEF PresetInv, ShareInv
  <2>3. p \in missing
    BY <2>1, <2>2, ConstantFacts, NothingTyped DEF NetFits, Given
  <2>4. ASSUME upsets \subseteq {"select"}
        PROVE  \E m \in Machines : Replaces(m, p)
    <3>1. PICK m \in Machines : Alone(m)
      <4>1. CASE \E m \in Machines : AtWork(m)
        BY <1>1, <2>4, <4>1, CalmAlone
      <4>2. CASE ~\E m \in Machines : AtWork(m)
        BY <4>2, ConstantFacts DEF Alone
      <4> QED
        BY <4>1, <4>2
    <3> QED
      BY <1>1, <2>3, <2>4, <3>1
         DEF PresetInv, Calm, CalmAt, Steady, Replaces, At
  <2> QED
    BY <2>3, <2>4
<1> QED
  BY <1>1, PresetInvHolds, PTL

(* With any number of machines and presets: as long as cycles neither fail *)
(* nor overlap and users do not edit during one, no version as old as a    *)
(* deletion returns to the share, also from a machine that was away when   *)
(* it was deleted (tombstones, looked up in PUSH B of Sync).               *)
THEOREM DeletionStaysHolds == Spec => []DeletionStays
<1>1. ASSUME PresetInv
      PROVE  DeletionStays
  <2>1. SUFFICES ASSUME upsets \subseteq {"select"}
                 PROVE  \A p \in Presets : Younger(p)
    BY DEF DeletionStays, Younger
  <2>2. PICK m \in Machines : Alone(m)
    <3>1. CASE \E m \in Machines : AtWork(m)
      BY <1>1, <2>1, <3>1, CalmAlone
    <3>2. CASE ~\E m \in Machines : AtWork(m)
      BY <3>2, ConstantFacts DEF Alone
    <3> QED
      BY <3>1, <3>2
  <2> QED
    BY <1>1, <2>1, <2>2 DEF PresetInv, Calm, CalmAt
<1> QED
  BY <1>1, PresetInvHolds, PTL

(* In such behaviours a machine deletes on the share no version newer than *)
(* the one it had, even when other machines push between its cycles: what  *)
(* is newer was pulled before (Sync pulls first, then pushes deletions).   *)
THEOREM RemovesOnlyKnownHolds == Spec => RemovesOnlyKnown
<1> DEFINE Known == \A m \in Machines, p \in Presets :
                      (/\ upsets \subseteq {"select"}
                       /\ At(m, "pushA") /\ Here(net[p]) /\ ~Here(net'[p]))
                         => net[p].time <= cycle[m].newState[p] + Tolerance
<1>1. ASSUME PresetInv, Next, NEW m \in Machines, NEW p \in Presets,
             upsets \subseteq {"select"}, At(m, "pushA"), Here(net[p]), ~Here(net'[p])
      PROVE  net[p].time <= cycle[m].newState[p] + Tolerance
  <2>1. Alone(m) /\ Knows(m, cycle[m], loc[m])
    BY <1>1, CalmAlone DEF AtWork, At
  <2>2. net'[p] # net[p]
    BY <1>1
  <2>3. PICK o \in Machines : \/ PushDeletion(o, p)
                             \/ cycle[o].pc \in {"written", "removed", "renamed"}
    BY <1>1, <2>2, ShareChanges
  <2>4. o = m
    BY <2>1, <2>3 DEF Alone, PushDeletion, At, AtWork
  <2>5. PushDeletion(m, p)
    BY <1>1, <2>3, <2>4 DEF At
  <2> QED
    BY <1>1, <2>1, <2>5 DEF PushDeletion, At, Knows
<1>2. ASSUME PresetInv, UNCHANGED vars
      PROVE  Known
  BY <1>2 DEF vars
<1>3. PresetInv /\ [Next]_vars => [Known]_vars
  BY <1>1, <1>2
<1> QED
  BY <1>3, PresetInvHolds, PTL DEF Spec, RemovesOnlyKnown

(* No cycle deletes or overwrites a local edit that has never been on the  *)
(* share, with any machines and presets, with failures or with overlaps,   *)
(* unless a newer version was shared, a tombstone covers the edit, it      *)
(* cannot be told from what was in step with the share, or the share       *)
(* showed a file with the time of its renaming (copyFileWithMTime before,  *)
(* or without, os.Chtimes).  A template that its own push rewrites keeps   *)
(* its text; one that is lost then is on the share, unless another cycle   *)
(* has used the temporary file meanwhile.                                  *)
THEOREM EditKeptHolds == Spec => EditKept
<1> DEFINE Kept(m, p) ==
      LET f == loc[m][p] IN
      (/\ "edit" \notin upsets /\ ~({"fault", "overlap"} \subseteq upsets)
       /\ AtWork(m) /\ f.text \notin shared[p] \cup {0}
       /\ loc'[m][p].text # f.text)
      => \/ \E u \in shared[p] : u > f.time + Tolerance
         \/ Mistimed(m, p)
         \/ cycle[m].tomb[p] # 0 /\ f.time <= cycle[m].tomb[p] + Tolerance
         \/ Abs(f.time - cycle[m].newState[p]) < Tolerance
<1>1. ASSUME PresetInv, Next, NEW m \in Machines, NEW p \in Presets
      PROVE  Kept(m, p)
  <2> DEFINE c == cycle[m]
             f == loc[m][p]
  <2>1. SUFFICES ASSUME "edit" \notin upsets,
                        ~({"fault", "overlap"} \subseteq upsets), AtWork(m),
                        f.text \notin shared[p], f.text # 0,
                        loc'[m][p].text # f.text
                 PROVE  \/ \E u \in shared[p] : u > f.time + Tolerance
                        \/ Mistimed(m, p)
                        \/ c.tomb[p] # 0 /\ f.time <= c.tomb[p] + Tolerance
                        \/ Abs(f.time - c.newState[p]) < Tolerance
    OBVIOUS
  <2>2. /\ TypeOK /\ c \in Cycles /\ Shape(c) /\ Fresh(c, loc[m])
        /\ f \in Files /\ Here(f) /\ c.hand \in Files
    <3>1. Fits(f, p) /\ f \in Files
      BY <1>1, InvParts DEF FilesFit
    <3> QED
      BY <1>1, <2>1, <3>1, InvParts, CycleParts, NothingTyped DEF Fits
  <2>3. CASE PullDeletion(m, p) /\ Unchanged(m, p)
    BY <2>3 DEF Unchanged
  <2>4. CASE DeleteZombie(m, p)
    <3>1. c.seen[p] = f.time
      BY <2>2, <2>4 DEF DeleteZombie, At, Fresh, Pushing
    <3> QED
      BY <2>4, <3>1 DEF DeleteZombie, Zombie
  <2>5. CASE c.at = p /\ At(m, "fetched")
    <3>1. c.seen[p] > f.time + Tolerance
      BY <2>2, <2>5 DEF Fresh, At
    <3>2. ~Mistimed(m, p) => c.seen[p] \in shared[p]
      BY <2>5 DEF Mistimed
    <3> QED
      BY <3>1, <3>2
  <2>6. CASE c.at = p /\ RewriteTemplate(m)
    <3>1. c.pc = "rewrite" /\ c.hand.text = f.text
      BY <2>2, <2>6 DEF RewriteTemplate, At, Fresh, HomePush
    <3>2. loc'[m][p] = [c.hand EXCEPT !.time = now]
      BY <2>2, <2>6 DEF RewriteTemplate, TypeOK
    <3>3. loc'[m][p].text = c.hand.text
      BY <2>2, <3>2 DEF Files
    <3> QED
      BY <2>1, <3>1, <3>3
  <2>7. CASE c.at = p /\ At(m, "rewrite") /\ Allowed("fault")
    <3>1. c.pc = "rewrite" /\ c.hand.text = f.text /\ p \in Watermarks
      BY <2>2, <2>7 DEF At, Fresh, Shape, HomePush
    <3>2. "overlap" \notin upsets
      BY <2>1, <2>7 DEF Allowed
    <3>3. Sent(c)
      BY <1>1, <2>1, <3>2, SoloAlone
    <3>4. c.hand.text \in shared[p]
      BY <2>7, <3>1, <3>3 DEF Sent
    <3> QED
      BY <2>1, <3>1, <3>4
  <2> QED
    BY <1>1, <2>1, <2>3, <2>4, <2>5, <2>6, <2>7, FilesChange
<1> DEFINE KeepsEdits == \A m \in Machines, p \in Presets : Kept(m, p)
<1>2. ASSUME PresetInv, UNCHANGED vars
      PROVE  KeepsEdits
  BY <1>2 DEF vars
<1>3. PresetInv /\ [Next]_vars => [KeepsEdits]_vars
  BY <1>1, <1>2
<1> QED
  BY <1>3, PresetInvHolds, PTL DEF Spec, EditKept
=============================================================================
