------------------------- MODULE PresenceLockProofs -------------------------
(***************************************************************************)
(* Proofs about PresenceLock, for any machines, retries and bounds: the    *)
(* lock file is never torn, whoever writes it at once, and an agent that   *)
(* ends in order is not left ONLINE.                                       *)
(***************************************************************************)
EXTENDS PresenceLock, TLAPS

Held == Lines \cup {NoLock, Torn}
Writes == [at : Steps, status : {"ONLINE", "OFFLINE"}, epoch : Epochs,
           renames : 0..MaxRenames]

Busy(m, w) == writer[m][w].at \in {"opened", "filled", "rename"}

(* The temporary file of a write is its own, from the moment it is opened, *)
(* and has its line once it is filled.                                     *)
OwnTmp(m) ==
    /\ \A w \in Writers :
          writer[m][w].at \in {"filled", "rename"}
              => tmp[TmpOf(m, w)] = Line(m, w)
    /\ Busy(m, "beat") /\ Busy(m, "main")
          => writer[m]["beat"].epoch # writer[m]["main"].epoch

(* Who writes when: main only OFFLINE, the heartbeat ONLINE while the      *)
(* agent is up, nobody once it has gone.                                   *)
Orderly(m) ==
    /\ writer[m]["main"].at \notin {"idle", "ended"}
          => writer[m]["main"].status = "OFFLINE"
    /\ agent[m] = "up" => /\ writer[m]["beat"].status = "ONLINE"
                          /\ writer[m]["beat"].at # "ended"
                          /\ writer[m]["main"].at = "idle"
    /\ agent[m] \in {"off", "dead"}
          => \A w \in Writers : writer[m][w] = NoWrite

(* The heartbeat gives up only after as many failures as it retries.       *)
Retrying(m) == tries[m] < MaxRetries /\ tries[m] <= faults

Online(m) == [machine |-> m, status |-> "ONLINE"]

(* Once the heartbeat has said its OFFLINE, its agent is not ONLINE.       *)
SaidOffline(m) ==
    /\ ~Allowed("stall") /\ faults < MaxRetries
    /\ agent[m] = "off" \/ writer[m]["beat"].at = "ended"
    => lock # Online(m)

MachineInv(m) == OwnTmp(m) /\ Orderly(m) /\ Retrying(m) /\ SaidOffline(m)

PresenceInv == TypeOK /\ \A m \in Machines : MachineInv(m)

-----------------------------------------------------------------------------
(***************************************************************************)
(* The two writers of an agent, and the parts of the constants.            *)
(***************************************************************************)
LEMMA ConstantsTyped ==
  /\ MaxRenames \in Nat /\ MaxRenames > 0
  /\ MaxRetries \in Nat /\ MaxRetries > 0
  /\ MaxFaults \in Nat /\ MaxStarts \in [Machines -> Nat]
  /\ NoLock \notin Lines /\ Torn \notin Lines
BY PresenceAssumption DEF PresenceAssumption

LEMMA OtherWriter ==
  /\ (CHOOSE o \in Writers : o # "beat") = "main"
  /\ (CHOOSE o \in Writers : o # "main") = "beat"
  /\ "beat" \in Writers /\ "main" \in Writers
  /\ \A w \in Writers : w = "beat" \/ w = "main"
BY DEF Writers

LEMMA OnlineIsLine ==
  ASSUME NEW m \in Machines
  PROVE  Online(m) \in Lines /\ Online(m) # NoLock
BY ConstantsTyped DEF Online, Lines

(***************************************************************************)
(* One writer changes, or one temporary file.                              *)
(***************************************************************************)
LEMMA WriterSet ==
  ASSUME writer \in [Machines -> [Writers -> Writes]],
         NEW m \in Machines, NEW w \in Writers, NEW r \in Writes,
         writer' = [writer EXCEPT ![m][w] = r]
  PROVE  /\ writer' \in [Machines -> [Writers -> Writes]]
         /\ writer'[m][w] = r
         /\ \A o \in Writers : o # w => writer'[m][o] = writer[m][o]
         /\ \A n \in Machines : n # m => writer'[n] = writer[n]
OBVIOUS

LEMMA TmpSet ==
  ASSUME tmp \in [Names -> Held],
         NEW m \in Machines, NEW e \in Epochs, NEW v \in Held,
         tmp' = [tmp EXCEPT ![Name(m, e)] = v]
  PROVE  /\ tmp' \in [Names -> Held]
         /\ tmp'[Name(m, e)] = v
         /\ \A f \in Epochs : f # e => tmp'[Name(m, f)] = tmp[Name(m, f)]
         /\ \A n \in Machines, f \in Epochs :
               n # m => tmp'[Name(n, f)] = tmp[Name(n, f)]
BY DEF Names, Name

LEMMA WriterTyped ==
  ASSUME TypeOK
  PROVE  /\ writer \in [Machines -> [Writers -> Writes]]
         /\ \A m \in Machines, w \in Writers :
               /\ writer[m][w] \in Writes
               /\ writer[m][w].epoch \in Epochs
               /\ Line(m, w) \in Lines
<1>1. writer \in [Machines -> [Writers -> Writes]]
  BY DEF TypeOK, Writes
<1>2. \A m \in Machines, w \in Writers : writer[m][w] \in Writes
  BY <1>1
<1>3. \A m \in Machines, w \in Writers :
        /\ writer[m][w].epoch \in Epochs
        /\ writer[m][w].status \in {"ONLINE", "OFFLINE"}
  BY <1>2 DEF Writes
<1>4. \A m \in Machines, w \in Writers : Line(m, w) \in Lines
  BY <1>3 DEF Line, Lines
<1> QED
  BY <1>1, <1>2, <1>3, <1>4

(***************************************************************************)
(* What a step of one machine leaves to the others: their writers and      *)
(* files, and a lock file that is not theirs unless it was before.         *)
(***************************************************************************)
Foreign(m) ==
    /\ \A n \in Machines : n # m =>
          /\ writer'[n] = writer[n] /\ agent'[n] = agent[n]
          /\ tries'[n] = tries[n]
          /\ \A e \in Epochs : tmp'[Name(n, e)] = tmp[Name(n, e)]
    /\ lock' = lock \/ lock' = NoLock \/ (lock' \in Lines /\ lock'.machine = m)
    /\ faults \in Nat /\ faults' \in Nat /\ faults <= faults'
    /\ upsets' = upsets

LEMMA OthersKeep ==
  ASSUME PresenceInv, NEW m \in Machines, Foreign(m),
         NEW n \in Machines, n # m
  PROVE  MachineInv(n)'
<1>1. MachineInv(n)
  BY DEF PresenceInv
<1>2. /\ writer'[n] = writer[n] /\ agent'[n] = agent[n]
      /\ tries'[n] = tries[n]
      /\ \A e \in Epochs : tmp'[Name(n, e)] = tmp[Name(n, e)]
  BY DEF Foreign
<1>3. OwnTmp(n)'
  <2>1. \A w \in Writers : /\ tmp'[TmpOf(n, w)'] = tmp[TmpOf(n, w)]
                           /\ Line(n, w)' = Line(n, w)
    BY <1>2, WriterTyped DEF PresenceInv, TmpOf, Line
  <2> QED
    BY <1>1, <1>2, <2>1 DEF MachineInv, OwnTmp, Busy
<1>4. Orderly(n)'
  BY <1>1, <1>2 DEF MachineInv, Orderly
<1>5. Retrying(n)'
  <2>1. tries[n] \in Nat
    BY ConstantsTyped DEF PresenceInv, TypeOK
  <2> QED
    BY <1>1, <1>2, <2>1, ConstantsTyped DEF MachineInv, Retrying, Foreign
<1>6. SaidOffline(n)'
  <2>1. SUFFICES ASSUME ~Allowed("stall")', faults' < MaxRetries,
                        (agent[n] = "off" \/ writer[n]["beat"].at = "ended")'
                 PROVE  lock' # Online(n)
    BY DEF SaidOffline, Online
  <2>2. faults < MaxRetries
    BY <2>1, ConstantsTyped DEF Foreign
  <2>3. ~Allowed("stall")
    BY <2>1 DEF Foreign, Allowed
  <2>4. lock # Online(n)
    BY <1>1, <1>2, <2>1, <2>2, <2>3 DEF MachineInv, SaidOffline
  <2>5. Online(n).machine = n
    BY DEF Online
  <2> QED
    BY <2>4, <2>5, OnlineIsLine DEF Foreign
<1> QED
  BY <1>3, <1>4, <1>5, <1>6 DEF MachineInv

(***************************************************************************)
(* One writer of m goes from what it is to r, its temporary file to v; t   *)
(* is what writeWithRetry counts.                                          *)
(***************************************************************************)
Turns(m, w, r, v, t) ==
    /\ writer' = [writer EXCEPT ![m][w] = r]
    /\ tmp' = [tmp EXCEPT ![TmpOf(m, w)] = v]
    /\ tries' = [tries EXCEPT ![m] = t]
    /\ lock' = lock \/ lock' = Line(m, w)
    /\ UNCHANGED <<agent, upsets, starts>>
    /\ faults' \in 0..MaxFaults /\ faults <= faults'

LEMMA TurnTyped ==
  ASSUME PresenceInv, NEW m \in Machines, NEW w \in Writers,
         NEW r \in Writes, NEW v \in Held, NEW t \in 0..(MaxRetries - 1),
         Turns(m, w, r, v, t)
  PROVE  TypeOK' /\ Foreign(m)
<1>1. writer' \in [Machines -> [Writers -> Writes]]
  BY WriterTyped, WriterSet DEF PresenceInv, Turns
<1>2. /\ writer[m][w].epoch \in Epochs
      /\ tmp \in [Names -> Held]
      /\ tmp' = [tmp EXCEPT ![Name(m, writer[m][w].epoch)] = v]
  BY WriterTyped DEF PresenceInv, Turns, TmpOf, TypeOK, Held
<1>3. tmp' \in [Names -> Held]
  BY <1>2, TmpSet
<1>4. lock' \in Lines \cup {NoLock}
  BY WriterTyped DEF PresenceInv, TypeOK, Turns
<1>5. /\ tries' \in [Machines -> 0..MaxRetries]
      /\ faults' \in 0..MaxFaults
  BY ConstantsTyped DEF PresenceInv, TypeOK, Turns
<1>6. TypeOK'
  <2>1. UNCHANGED <<agent, upsets, starts>> /\ TypeOK
    BY DEF Turns, PresenceInv
  <2> QED
    BY <1>1, <1>3, <1>4, <1>5, <2>1 DEF TypeOK, Writes, Held
<1>7. \A n \in Machines : n # m =>
        /\ writer'[n] = writer[n] /\ agent'[n] = agent[n]
        /\ tries'[n] = tries[n]
        /\ \A e \in Epochs : tmp'[Name(n, e)] = tmp[Name(n, e)]
  <2>1. TAKE n \in Machines
  <2>2. HAVE n # m
  <2>3. writer'[n] = writer[n]
    BY <2>2, WriterTyped, WriterSet DEF PresenceInv, Turns
  <2>4. \A e \in Epochs : tmp'[Name(n, e)] = tmp[Name(n, e)]
    <3>1. PICK f \in Epochs : tmp' = [tmp EXCEPT ![Name(m, f)] = v]
      BY <1>2, Zenon
    <3> QED
      BY <1>2, <2>2, <3>1 DEF Name, Names
  <2>5. agent'[n] = agent[n] /\ tries'[n] = tries[n]
    BY <2>2 DEF PresenceInv, TypeOK, Turns
  <2> QED
    BY <2>3, <2>4, <2>5
<1>8. lock' = lock \/ lock' = NoLock \/ (lock' \in Lines /\ lock'.machine = m)
  <2>1. Line(m, w).machine = m
    BY DEF Line
  <2> QED
    BY <2>1, WriterTyped DEF PresenceInv, Turns
<1>9. faults \in Nat /\ faults' \in Nat /\ faults <= faults' /\ upsets' = upsets
  BY ConstantsTyped DEF PresenceInv, TypeOK, Turns
<1> QED
  BY <1>6, <1>7, <1>8, <1>9 DEF Foreign

(* What a writer may do: a busy one keeps its epoch and has its line in    *)
(* the file; the roles of heartbeat and main stay apart; a heartbeat that  *)
(* ends leaves no ONLINE of its own.                                       *)
Sound(m, w, r, v) ==
    /\ agent[m] \notin {"off", "dead"}
    /\ v = tmp[TmpOf(m, w)] \/ Busy(m, w)
    /\ r.at \in {"opened", "filled", "rename"}
          => Busy(m, w) /\ r.epoch = writer[m][w].epoch
    /\ r.at \in {"filled", "rename"}
          => v = [machine |-> m, status |-> r.status]
    /\ w = "main" => r.at \in {"idle", "ended"} \/ r.status = "OFFLINE"
    /\ agent[m] = "up" => w = "beat" /\ r.status = "ONLINE" /\ r.at # "ended"
    /\ w = "main" => lock' = lock \/ lock' # Online(m)
    /\ w = "beat" /\ r.at = "ended"
          => Allowed("stall") \/ faults' >= MaxRetries \/ lock' # Online(m)

LEMMA TurnKeeps ==
  ASSUME PresenceInv, NEW m \in Machines, NEW w \in Writers,
         NEW r \in Writes, NEW v \in Held, NEW t \in 0..(MaxRetries - 1),
         Turns(m, w, r, v, t), Sound(m, w, r, v), t <= faults'
  PROVE  MachineInv(m)'
<1>1. /\ writer'[m][w] = r
      /\ \A o \in Writers : o # w => writer'[m][o] = writer[m][o]
  BY WriterTyped, WriterSet DEF PresenceInv, Turns
<1>2. /\ tmp'[TmpOf(m, w)] = v
      /\ \A f \in Epochs : f # writer[m][w].epoch
            => tmp'[Name(m, f)] = tmp[Name(m, f)]
      /\ v = tmp[TmpOf(m, w)]
            => \A f \in Epochs : tmp'[Name(m, f)] = tmp[Name(m, f)]
  <2>1. /\ writer[m][w].epoch \in Epochs
        /\ tmp \in [Names -> Held]
        /\ tmp' = [tmp EXCEPT ![Name(m, writer[m][w].epoch)] = v]
    BY WriterTyped DEF PresenceInv, Turns, TmpOf, TypeOK, Held
  <2>2. PICK e \in Epochs : e = writer[m][w].epoch
    BY <2>1
  <2>3. tmp' = [tmp EXCEPT ![Name(m, e)] = v]
    BY <2>1, <2>2
  <2>4. /\ tmp'[Name(m, e)] = v
        /\ \A f \in Epochs : f # e => tmp'[Name(m, f)] = tmp[Name(m, f)]
    BY <2>1, <2>3 DEF Name, Names
  <2> QED
    BY <2>2, <2>4 DEF TmpOf
<1>3. MachineInv(m)
  BY DEF PresenceInv
<1>4. OwnTmp(m)'
  <2>1. ASSUME NEW o \in Writers, writer'[m][o].at \in {"filled", "rename"}
        PROVE  tmp'[TmpOf(m, o)'] = Line(m, o)'
    <3>1. CASE o = w
      <4>1. /\ r.at \in {"filled", "rename"} /\ r.epoch = writer[m][w].epoch
            /\ v = [machine |-> m, status |-> r.status]
        BY <1>1, <2>1, <3>1 DEF Sound
      <4>2. TmpOf(m, o)' = TmpOf(m, w) /\ Line(m, o)' = v
        BY <1>1, <3>1, <4>1 DEF TmpOf, Line
      <4> QED
        BY <1>2, <4>2
    <3>2. CASE o # w
      <4>1. writer'[m][o] = writer[m][o]
        BY <1>1, <3>2
      <4>2. /\ tmp[TmpOf(m, o)] = Line(m, o)
            /\ Busy(m, o)
        BY <1>3, <2>1, <4>1 DEF MachineInv, OwnTmp, Busy
      <4>3. Busy(m, w) => writer[m][o].epoch # writer[m][w].epoch
        BY <1>3, <3>2, <4>2, OtherWriter DEF MachineInv, OwnTmp
      <4>4. writer[m][o].epoch \in Epochs
        BY WriterTyped DEF PresenceInv
      <4>5. tmp'[Name(m, writer[m][o].epoch)] = tmp[Name(m, writer[m][o].epoch)]
        BY <1>2, <4>3, <4>4 DEF Sound
      <4> QED
        BY <4>1, <4>2, <4>5 DEF TmpOf, Line
    <3> QED
      BY <3>1, <3>2
  <2>2. ASSUME Busy(m, "beat")', Busy(m, "main")'
        PROVE  writer'[m]["beat"].epoch # writer'[m]["main"].epoch
    <3>1. \A o \in Writers : Busy(m, o)' => /\ Busy(m, o)
                                            /\ writer'[m][o].epoch = writer[m][o].epoch
      BY <1>1 DEF Sound, Busy
    <3> QED
      BY <1>3, <2>2, <3>1, OtherWriter DEF MachineInv, OwnTmp
  <2> QED
    BY <2>1, <2>2 DEF OwnTmp
<1>5. Orderly(m)'
  <2>1. agent'[m] = agent[m]
    BY DEF Turns
  <2>2. writer'[m]["main"].at \notin {"idle", "ended"}
          => writer'[m]["main"].status = "OFFLINE"
    BY <1>1, <1>3, OtherWriter DEF MachineInv, Orderly, Sound
  <2>3. agent[m] = "up" => /\ writer'[m]["beat"].status = "ONLINE"
                           /\ writer'[m]["beat"].at # "ended"
                           /\ writer'[m]["main"].at = "idle"
    BY <1>1, <1>3, OtherWriter DEF MachineInv, Orderly, Sound
  <2> QED
    BY <2>1, <2>2, <2>3 DEF Orderly, Sound
<1>6. Retrying(m)'
  <2>1. tries'[m] = t
    BY DEF PresenceInv, TypeOK, Turns
  <2> QED
    BY <2>1, ConstantsTyped DEF Retrying
<1>7. SaidOffline(m)'
  <2>1. SUFFICES ASSUME ~Allowed("stall")', faults' < MaxRetries,
                        (agent[m] = "off" \/ writer[m]["beat"].at = "ended")'
                 PROVE  lock' # Online(m)
    BY DEF SaidOffline, Online
  <2>2. agent'[m] # "off" /\ ~Allowed("stall")
    BY <2>1 DEF Turns, Sound, Allowed
  <2>3. faults < MaxRetries /\ ~(faults' >= MaxRetries)
    BY <2>1, ConstantsTyped DEF Turns, PresenceInv, TypeOK
  <2>4. CASE w = "beat"
    BY <1>1, <2>1, <2>2, <2>3, <2>4 DEF Sound
  <2>5. CASE w # "beat"
    <3>1. writer[m]["beat"].at = "ended"
      BY <1>1, <2>1, <2>2, <2>5, OtherWriter
    <3>2. lock # Online(m)
      BY <1>3, <2>2, <2>3, <3>1 DEF MachineInv, SaidOffline
    <3> QED
      BY <2>5, <3>2, OtherWriter DEF Sound
  <2> QED
    BY <2>4, <2>5
<1> QED
  BY <1>4, <1>5, <1>6, <1>7 DEF MachineInv

(***************************************************************************)
(* A new write takes a temporary file that the other writer of the agent   *)
(* does not use.                                                           *)
(***************************************************************************)
LEMMA OpenKeeps ==
  ASSUME PresenceInv, NEW m \in Machines, NEW w \in Writers,
         NEW status \in {"ONLINE", "OFFLINE"}, Open(m, w, status),
         NEW a \in {"up", "stopping", "waiting"},
         agent' = [agent EXCEPT ![m] = a],
         UNCHANGED <<lock, tries, bounds>>,
         a = "up" => w = "beat" /\ status = "ONLINE" /\ agent[m] = "up",
         w = "main" => status = "OFFLINE"
  PROVE  TypeOK' /\ Foreign(m) /\ MachineInv(m)'
<1> DEFINE r(e) == [at |-> "opened", status |-> status, epoch |-> e, renames |-> 0]
<1>1. PICK e \in Epochs :
        /\ \A o \in Writers : o # w => e # writer[m][o].epoch
        /\ writer' = [writer EXCEPT ![m][w] = r(e)]
        /\ tmp' = [tmp EXCEPT ![Name(m, e)] = Torn]
  <2>1. \A o \in Writers : o # w => (CHOOSE q \in Writers : q # w) = o
    BY OtherWriter
  <2> QED
    BY <2>1 DEF Open
<1>2. r(e) \in Writes
  BY ConstantsTyped DEF Writes, Steps
<1>3. /\ writer' \in [Machines -> [Writers -> Writes]]
      /\ writer'[m][w] = r(e)
      /\ \A o \in Writers : o # w => writer'[m][o] = writer[m][o]
      /\ \A n \in Machines : n # m => writer'[n] = writer[n]
  <2> HIDE DEF r
  <2> QED
    BY <1>1, <1>2, WriterTyped, WriterSet DEF PresenceInv
<1>4. /\ tmp' \in [Names -> Held]
      /\ \A f \in Epochs : f # e => tmp'[Name(m, f)] = tmp[Name(m, f)]
      /\ \A n \in Machines, f \in Epochs :
            n # m => tmp'[Name(n, f)] = tmp[Name(n, f)]
  BY <1>1 DEF PresenceInv, TypeOK, Name, Names, Held
<1>5. TypeOK'
  <2>1. UNCHANGED <<lock, tries, upsets, faults, starts>> /\ TypeOK
    BY DEF bounds, PresenceInv
  <2>2. agent' \in [Machines -> {"up", "stopping", "waiting", "off", "dead"}]
    BY DEF PresenceInv, TypeOK
  <2> QED
    BY <1>3, <1>4, <2>1, <2>2 DEF TypeOK, Writes, Held
<1>6. Foreign(m)
  <2>1. \A n \in Machines : n # m => agent'[n] = agent[n]
    BY DEF PresenceInv, TypeOK
  <2>2. faults \in Nat /\ UNCHANGED <<lock, tries, upsets, faults>>
    BY ConstantsTyped DEF PresenceInv, TypeOK, bounds
  <2> QED
    BY <1>3, <1>4, <2>1, <2>2 DEF Foreign
<1>7. MachineInv(m)
  BY DEF PresenceInv
<1>8. agent'[m] = a
  BY DEF PresenceInv, TypeOK
<1>9. OwnTmp(m)'
  <2>1. ASSUME NEW o \in Writers, writer'[m][o].at \in {"filled", "rename"}
        PROVE  tmp'[TmpOf(m, o)'] = Line(m, o)'
    <3>1. o # w /\ writer'[m][o] = writer[m][o]
      BY <1>3, <2>1
    <3>2. tmp[TmpOf(m, o)] = Line(m, o)
      BY <1>7, <2>1, <3>1 DEF MachineInv, OwnTmp
    <3>3. writer[m][o].epoch \in Epochs /\ writer[m][o].epoch # e
      BY <1>1, <3>1, WriterTyped DEF PresenceInv
    <3>4. tmp'[Name(m, writer[m][o].epoch)] = tmp[Name(m, writer[m][o].epoch)]
      BY <1>4, <3>3
    <3> QED
      BY <3>1, <3>2, <3>4 DEF TmpOf, Line
  <2>2. writer'[m]["beat"].epoch # writer'[m]["main"].epoch
    <3>1. r(e).epoch = e
      OBVIOUS
    <3> QED
      BY <1>1, <1>3, <3>1, OtherWriter
  <2> QED
    BY <2>1, <2>2 DEF OwnTmp
<1>10. Orderly(m)'
  <2>1. /\ writer'[m]["main"].at \notin {"idle", "ended"}
            => writer'[m]["main"].status = "OFFLINE"
        /\ a = "up" => /\ writer'[m]["beat"].status = "ONLINE"
                       /\ writer'[m]["beat"].at # "ended"
                       /\ writer'[m]["main"].at = "idle"
    BY <1>3, <1>7, OtherWriter DEF MachineInv, Orderly
  <2> QED
    BY <1>8, <2>1 DEF Orderly
<1>11. Retrying(m)'
  BY <1>7 DEF MachineInv, Retrying, bounds
<1>12. SaidOffline(m)'
  <2>1. writer'[m]["beat"].at = "ended" => writer[m]["beat"].at = "ended"
    BY <1>3, OtherWriter
  <2> QED
    BY <1>7, <1>8, <2>1 DEF MachineInv, SaidOffline, Online, Allowed, bounds
<1> QED
  BY <1>5, <1>6, <1>9, <1>10, <1>11, <1>12 DEF MachineInv

(***************************************************************************)
(* A write that is over, one way or the other.                             *)
(***************************************************************************)
LEMMA ReturnIs ==
  ASSUME PresenceInv, NEW m \in Machines, NEW w \in Writers, Return(m, w)
  PROVE  \E r \in Writes, t \in 0..(MaxRetries - 1) :
            /\ writer' = [writer EXCEPT ![m][w] = r]
            /\ tries' = [tries EXCEPT ![m] = t]
            /\ t <= tries[m]
            /\ r.at = IF writer[m][w].status = "OFFLINE" THEN "ended" ELSE "idle"
            /\ r.status = "ONLINE"
<1> DEFINE at == IF writer[m][w].status = "OFFLINE" THEN "ended" ELSE "idle"
           r == [NoWrite EXCEPT !.at = at]
           t == IF w = "beat" THEN 0 ELSE tries[m]
<1>1. r \in Writes /\ r.at = at /\ r.status = "ONLINE"
  BY ConstantsTyped DEF NoWrite, Writes, Steps, Epochs
<1>2. t \in 0..(MaxRetries - 1) /\ t <= tries[m]
  <2>1. tries[m] \in 0..(MaxRetries - 1)
    BY ConstantsTyped DEF PresenceInv, TypeOK, MachineInv, Retrying
  <2> QED
    BY <2>1, ConstantsTyped
<1>3. writer' = [writer EXCEPT ![m][w] = r] /\ tries' = [tries EXCEPT ![m] = t]
  BY DEF Return
<1> HIDE DEF at, r, t
<1> QED
  BY <1>1, <1>2, <1>3 DEF at

LEMMA FailIs ==
  ASSUME PresenceInv, NEW m \in Machines, NEW w \in Writers, Fail(m, w)
  PROVE  \E r \in Writes, t \in 0..(MaxRetries - 1) :
            /\ writer' = [writer EXCEPT ![m][w] = r]
            /\ tries' = [tries EXCEPT ![m] = t]
            /\ t <= tries[m] + 1
            /\ \/ /\ r.at = "failed" /\ w = "beat"
                  /\ r.status = writer[m][w].status
               \/ /\ r.at = IF writer[m][w].status = "OFFLINE" THEN "ended"
                            ELSE "idle"
                  /\ r.status = "ONLINE"
                  /\ w = "beat" => tries[m] + 1 = MaxRetries
<1>1. tries[m] \in 0..(MaxRetries - 1)
  BY ConstantsTyped DEF PresenceInv, TypeOK, MachineInv, Retrying
<1>2. CASE w = "main" \/ tries[m] + 1 = MaxRetries
  <2>1. Return(m, w)
    BY <1>2 DEF Fail, GiveUp
  <2>2. w = "beat" => tries[m] + 1 = MaxRetries
    BY <1>2
  <2>3. PICK r \in Writes, t \in 0..(MaxRetries - 1) :
            /\ writer' = [writer EXCEPT ![m][w] = r]
            /\ tries' = [tries EXCEPT ![m] = t]
            /\ t <= tries[m]
            /\ r.at = IF writer[m][w].status = "OFFLINE" THEN "ended" ELSE "idle"
            /\ r.status = "ONLINE"
    BY <2>1, ReturnIs
  <2>4. t <= tries[m] + 1
    BY <1>1, <2>3, ConstantsTyped
  <2> QED
    BY <2>2, <2>3, <2>4
<1>3. CASE ~(w = "main" \/ tries[m] + 1 = MaxRetries)
  <2> DEFINE r == [writer[m][w] EXCEPT !.at = "failed"]
             t == tries[m] + 1
  <2>1. /\ writer' = [writer EXCEPT ![m][w].at = "failed"]
        /\ tries' = [tries EXCEPT ![m] = t]
    BY <1>3 DEF Fail, Move
  <2>2. writer' = [writer EXCEPT ![m][w] = r]
    BY <2>1
  <2>3. r \in Writes /\ r.at = "failed" /\ r.status = writer[m][w].status
    BY WriterTyped DEF PresenceInv, Writes, Steps
  <2>4. t \in 0..(MaxRetries - 1) /\ t <= tries[m] + 1
    BY <1>1, <1>3, ConstantsTyped
  <2>5. w = "beat"
    BY <1>3, OtherWriter
  <2> HIDE DEF r, t
  <2> QED
    BY <2>1, <2>2, <2>3, <2>4, <2>5 DEF t
<1> QED
  BY <1>2, <1>3

(***************************************************************************)
(* A write under way belongs to an agent that has not gone; while it is up *)
(* the write is an ONLINE of the heartbeat.                                *)
(***************************************************************************)
LEMMA BusyAgent ==
  ASSUME PresenceInv, NEW m \in Machines, NEW w \in Writers,
         writer[m][w].at \notin {"idle", "ended"}
  PROVE  /\ agent[m] \notin {"off", "dead"}
         /\ agent[m] = "up" => w = "beat" /\ writer[m][w].status = "ONLINE"
         /\ w = "main" => writer[m][w].status = "OFFLINE"
<1>1. Orderly(m)
  BY DEF PresenceInv, MachineInv
<1>2. writer[m][w] # NoWrite
  BY DEF NoWrite
<1> QED
  BY <1>1, <1>2, OtherWriter DEF Orderly

LEMMA Counts ==
  ASSUME PresenceInv, NEW m \in Machines
  PROVE  /\ tries[m] \in 0..(MaxRetries - 1) /\ tries[m] <= faults
         /\ faults \in 0..MaxFaults /\ faults <= faults
         /\ tries' = tries => tries' = [tries EXCEPT ![m] = tries[m]]
         /\ \A what : Fault(what) => /\ faults' \in 0..MaxFaults
                                     /\ faults' = faults + 1
                                     /\ faults <= faults'
                                     /\ tries[m] + 1 <= faults'
                                     /\ UNCHANGED <<upsets, starts>>
<1>1. /\ tries[m] \in 0..(MaxRetries - 1) /\ tries[m] <= faults
      /\ faults \in 0..MaxFaults /\ faults <= faults
  BY ConstantsTyped DEF PresenceInv, TypeOK, MachineInv, Retrying
<1>2. tries' = tries => tries' = [tries EXCEPT ![m] = tries[m]]
  BY DEF PresenceInv, TypeOK
<1>3. ASSUME NEW what, Fault(what)
      PROVE  /\ faults' \in 0..MaxFaults
             /\ faults' = faults + 1
             /\ faults <= faults'
             /\ tries[m] + 1 <= faults'
             /\ UNCHANGED <<upsets, starts>>
  <2>1. faults < MaxFaults /\ faults' = faults + 1 /\ UNCHANGED <<upsets, starts>>
    BY <1>3 DEF Fault
  <2> QED
    BY <1>1, <2>1, ConstantsTyped
<1> QED
  BY <1>1, <1>2, <1>3

LEMMA TmpTyped ==
  ASSUME PresenceInv, NEW m \in Machines, NEW w \in Writers
  PROVE  /\ tmp[TmpOf(m, w)] \in Held
         /\ tmp' = tmp => tmp' = [tmp EXCEPT ![TmpOf(m, w)] = tmp[TmpOf(m, w)]]
         /\ Line(m, w) \in Held /\ NoLock \in Held
<1>1. TmpOf(m, w) \in Names
  BY WriterTyped DEF PresenceInv, TmpOf, Name, Names
<1> QED
  BY <1>1, WriterTyped DEF PresenceInv, TypeOK, Held

(***************************************************************************)
(* A write that fails, its file left or removed.                           *)
(***************************************************************************)
LEMMA FailKeeps ==
  ASSUME PresenceInv, NEW m \in Machines, NEW w \in Writers, Busy(m, w),
         Fault("fault"), Fail(m, w), tmp' = tmp \/ Remove(m, w),
         UNCHANGED <<lock, agent>>
  PROVE  TypeOK' /\ Foreign(m) /\ MachineInv(m)'
<1>1. PICK r \in Writes, t \in 0..(MaxRetries - 1) :
            /\ writer' = [writer EXCEPT ![m][w] = r]
            /\ tries' = [tries EXCEPT ![m] = t]
            /\ t <= tries[m] + 1
            /\ \/ /\ r.at = "failed" /\ w = "beat"
                  /\ r.status = writer[m][w].status
               \/ /\ r.at = IF writer[m][w].status = "OFFLINE" THEN "ended"
                            ELSE "idle"
                  /\ r.status = "ONLINE"
                  /\ w = "beat" => tries[m] + 1 = MaxRetries
  BY FailIs
<1>2. PICK v \in Held : tmp' = [tmp EXCEPT ![TmpOf(m, w)] = v]
  BY TmpTyped DEF Remove
<1>3. /\ faults' \in 0..MaxFaults /\ faults <= faults'
      /\ tries[m] + 1 <= faults' /\ UNCHANGED <<upsets, starts>>
  BY Counts
<1>4. t <= faults'
  <2>1. t <= tries[m] + 1 /\ tries[m] + 1 <= faults'
    BY <1>1, <1>3
  <2>2. tries[m] \in Int /\ faults' \in Int
    BY <1>3, Counts
  <2> QED
    BY <2>1, <2>2, ConstantsTyped
<1>5. Turns(m, w, r, v, t)
  BY <1>1, <1>2, <1>3 DEF Turns
<1>6. Sound(m, w, r, v)
  <2>1. /\ agent[m] \notin {"off", "dead"}
        /\ agent[m] = "up" => w = "beat" /\ writer[m][w].status = "ONLINE"
        /\ w = "main" => writer[m][w].status = "OFFLINE"
    BY BusyAgent DEF Busy
  <2>2. w = "beat" /\ r.at = "ended" => faults' >= MaxRetries
    <3>1. SUFFICES ASSUME w = "beat", r.at = "ended"
                   PROVE  tries[m] + 1 = MaxRetries
      BY <1>3, ConstantsTyped, Counts
    <3> QED
      BY <1>1, <3>1
  <2>3. r.at \in {"failed", "ended", "idle"}
    BY <1>1
  <2>4. agent[m] = "up" => w = "beat" /\ r.status = "ONLINE" /\ r.at # "ended"
    BY <1>1, <2>1
  <2>5. w = "main" => r.at \in {"idle", "ended"}
    BY <1>1
  <2> QED
    BY <2>1, <2>2, <2>3, <2>4, <2>5 DEF Sound
<1> QED
  BY <1>4, <1>5, <1>6, TurnTyped, TurnKeeps

(***************************************************************************)
(* A write that is given up because of its context.                        *)
(***************************************************************************)
LEMMA CancelKeeps ==
  ASSUME PresenceInv, NEW m \in Machines, NEW w \in Writers,
         writer[m][w].at \notin {"idle", "ended"}, MayCancel(m, w), Return(m, w),
         tmp' = tmp \/ (Busy(m, w) /\ Remove(m, w)),
         UNCHANGED <<lock, agent, bounds>>
  PROVE  TypeOK' /\ Foreign(m) /\ MachineInv(m)'
<1>1. PICK r \in Writes, t \in 0..(MaxRetries - 1) :
            /\ writer' = [writer EXCEPT ![m][w] = r]
            /\ tries' = [tries EXCEPT ![m] = t]
            /\ t <= tries[m]
            /\ r.at = IF writer[m][w].status = "OFFLINE" THEN "ended" ELSE "idle"
            /\ r.status = "ONLINE"
  BY ReturnIs
<1>2. PICK v \in Held : /\ tmp' = [tmp EXCEPT ![TmpOf(m, w)] = v]
                        /\ v = tmp[TmpOf(m, w)] \/ Busy(m, w)
  BY TmpTyped DEF Remove
<1>3. t <= faults'
  <2>1. t <= tries[m] /\ tries[m] <= faults /\ faults' = faults
    BY <1>1, Counts DEF bounds
  <2>2. tries[m] \in Int /\ faults \in Int
    BY Counts
  <2> QED
    BY <2>1, <2>2, ConstantsTyped
<1>4. Turns(m, w, r, v, t)
  BY <1>1, <1>2, Counts DEF Turns, bounds
<1>5. Sound(m, w, r, v)
  <2>1. /\ agent[m] \notin {"off", "dead"}
        /\ agent[m] = "up" => w = "beat" /\ writer[m][w].status = "ONLINE"
    BY BusyAgent
  <2>2. r.at = "ended" => Allowed("stall")
    BY <1>1 DEF MayCancel
  <2>3. r.at \in {"ended", "idle"}
    BY <1>1
  <2> QED
    BY <1>1, <1>2, <2>1, <2>2, <2>3 DEF Sound
<1> QED
  BY <1>3, <1>4, <1>5, TurnTyped, TurnKeeps

(***************************************************************************)
(* A write that goes on: filled, past its context, or to its next rename.  *)
(***************************************************************************)
LEMMA GoesOn ==
  ASSUME PresenceInv, NEW m \in Machines, NEW w \in Writers, Busy(m, w),
         NEW r \in Writes, r.at \in {"filled", "rename"},
         r.epoch = writer[m][w].epoch, r.status = writer[m][w].status,
         writer' = [writer EXCEPT ![m][w] = r],
         tmp' = [tmp EXCEPT ![TmpOf(m, w)] = Line(m, w)],
         UNCHANGED <<lock, tries, agent, upsets, starts>>,
         faults' \in 0..MaxFaults, faults <= faults'
  PROVE  TypeOK' /\ Foreign(m) /\ MachineInv(m)'
<1>1. Line(m, w) \in Held /\ tries[m] \in 0..(MaxRetries - 1)
  BY TmpTyped, Counts
<1>2. Turns(m, w, r, Line(m, w), tries[m])
  BY Counts DEF Turns
<1>3. tries[m] <= faults'
  <2>1. tries[m] \in Int /\ faults \in Int /\ tries[m] <= faults
    BY Counts
  <2> QED
    BY <2>1, ConstantsTyped
<1>4. Sound(m, w, r, Line(m, w))
  <2>1. /\ agent[m] \notin {"off", "dead"}
        /\ agent[m] = "up" => w = "beat" /\ writer[m][w].status = "ONLINE"
        /\ w = "main" => writer[m][w].status = "OFFLINE"
    BY BusyAgent DEF Busy
  <2> QED
    BY <2>1 DEF Sound, Line
<1> QED
  BY <1>1, <1>2, <1>3, <1>4, TurnTyped, TurnKeeps

LEMMA FillKeeps ==
  ASSUME PresenceInv, NEW m \in Machines, NEW w \in Writers, FillTmp(m, w)
  PROVE  TypeOK' /\ Foreign(m) /\ MachineInv(m)'
<1>1. Busy(m, w)
  BY DEF FillTmp, At, Busy
<1>2. CASE /\ tmp' = [tmp EXCEPT ![TmpOf(m, w)] = Line(m, w)]
           /\ Move(m, w, "filled")
           /\ UNCHANGED <<tries, bounds>>
  <2> DEFINE r == [writer[m][w] EXCEPT !.at = "filled"]
  <2>1. /\ r \in Writes /\ r.at \in {"filled", "rename"}
        /\ r.epoch = writer[m][w].epoch /\ r.status = writer[m][w].status
    BY WriterTyped DEF PresenceInv, Writes, Steps
  <2>2. writer' = [writer EXCEPT ![m][w] = r]
    BY <1>2 DEF Move
  <2>3. UNCHANGED <<lock, tries, agent, upsets, starts, faults>>
    BY <1>2 DEF FillTmp, bounds
  <2>4. faults' \in 0..MaxFaults /\ faults <= faults'
    BY <2>3, Counts
  <2> HIDE DEF r
  <2> QED
    BY <1>1, <1>2, <2>1, <2>2, <2>3, <2>4, GoesOn
<1>3. CASE Fault("fault") /\ Fail(m, w) /\ UNCHANGED tmp
  <2>1. UNCHANGED <<lock, agent>>
    BY DEF FillTmp
  <2> QED
    BY <1>1, <1>3, <2>1, FailKeeps
<1> QED
  BY <1>2, <1>3 DEF FillTmp

LEMMA LookKeeps ==
  ASSUME PresenceInv, NEW m \in Machines, NEW w \in Writers,
         LookBeforeRename(m, w)
  PROVE  TypeOK' /\ Foreign(m) /\ MachineInv(m)'
<1>1. Busy(m, w) /\ writer[m][w].at = "filled"
  BY DEF LookBeforeRename, At, Busy
<1>2. CASE Move(m, w, "rename") /\ UNCHANGED <<tmp, tries>>
  <2> DEFINE r == [writer[m][w] EXCEPT !.at = "rename"]
  <2>1. /\ r \in Writes /\ r.at \in {"filled", "rename"}
        /\ r.epoch = writer[m][w].epoch /\ r.status = writer[m][w].status
    BY WriterTyped DEF PresenceInv, Writes, Steps
  <2>2. writer' = [writer EXCEPT ![m][w] = r]
    BY <1>2 DEF Move
  <2>3. UNCHANGED <<lock, tries, agent, upsets, starts, faults>>
    BY <1>2 DEF LookBeforeRename, bounds
  <2>4. faults' \in 0..MaxFaults /\ faults <= faults'
    BY <2>3, Counts
  <2>5. tmp' = [tmp EXCEPT ![TmpOf(m, w)] = Line(m, w)]
    <3>1. tmp[TmpOf(m, w)] = Line(m, w)
      BY <1>1 DEF PresenceInv, MachineInv, OwnTmp
    <3> QED
      BY <1>2, <3>1, TmpTyped
  <2> HIDE DEF r
  <2> QED
    BY <1>1, <2>1, <2>2, <2>3, <2>4, <2>5, GoesOn
<1>3. CASE MayCancel(m, w) /\ Remove(m, w) /\ Return(m, w)
  <2>1. UNCHANGED <<lock, agent, bounds>>
    BY DEF LookBeforeRename
  <2> QED
    BY <1>1, <1>3, <2>1, CancelKeeps
<1> QED
  BY <1>2, <1>3 DEF LookBeforeRename

(***************************************************************************)
(* The rename puts the writer's own line in place.                         *)
(***************************************************************************)
LEMMA RenameIs ==
  ASSUME PresenceInv, NEW m \in Machines, NEW w \in Writers,
         writer[m][w].at = "rename", RenameFiles(m, w)
  PROVE  lock' = Line(m, w) /\ Remove(m, w)
<1>1. tmp[TmpOf(m, w)] = Line(m, w)
  BY DEF PresenceInv, MachineInv, OwnTmp
<1>2. Line(m, w) # NoLock
  BY WriterTyped, ConstantsTyped DEF PresenceInv
<1> QED
  BY <1>1, <1>2 DEF RenameFiles

LEMMA RenameKeeps ==
  ASSUME PresenceInv, NEW m \in Machines, NEW w \in Writers, Rename(m, w)
  PROVE  TypeOK' /\ Foreign(m) /\ MachineInv(m)'
<1>1. Busy(m, w) /\ writer[m][w].at = "rename" /\ UNCHANGED agent
  BY DEF Rename, At, Busy
<1>2. CASE RenameFiles(m, w) /\ Return(m, w) /\ UNCHANGED bounds
  <2>1. PICK r \in Writes, t \in 0..(MaxRetries - 1) :
            /\ writer' = [writer EXCEPT ![m][w] = r]
            /\ tries' = [tries EXCEPT ![m] = t]
            /\ t <= tries[m]
            /\ r.at = IF writer[m][w].status = "OFFLINE" THEN "ended" ELSE "idle"
            /\ r.status = "ONLINE"
    BY <1>2, ReturnIs
  <2>2. lock' = Line(m, w) /\ tmp' = [tmp EXCEPT ![TmpOf(m, w)] = NoLock]
    BY <1>1, <1>2, RenameIs DEF Remove
  <2>3. NoLock \in Held
    BY TmpTyped
  <2>4. Turns(m, w, r, NoLock, t)
    BY <1>1, <1>2, <2>1, <2>2, Counts DEF Turns, bounds
  <2>5. t <= faults'
    <3>1. t <= tries[m] /\ tries[m] <= faults /\ faults' = faults
      BY <1>2, <2>1, Counts DEF bounds
    <3>2. tries[m] \in Int /\ faults \in Int
      BY Counts
    <3> QED
      BY <3>1, <3>2, ConstantsTyped
  <2>6. Sound(m, w, r, NoLock)
    <3>1. /\ agent[m] \notin {"off", "dead"}
          /\ agent[m] = "up" => w = "beat" /\ writer[m][w].status = "ONLINE"
          /\ w = "main" => writer[m][w].status = "OFFLINE"
      BY <1>1, BusyAgent
    <3>2. writer[m][w].status = "OFFLINE" => lock' # Online(m)
      BY <2>2 DEF Line, Online
    <3>3. r.at \in {"ended", "idle"}
      BY <2>1
    <3> QED
      BY <1>1, <2>1, <3>1, <3>2, <3>3 DEF Sound
  <2> QED
    BY <2>3, <2>4, <2>5, <2>6, TurnTyped, TurnKeeps
<1>3. CASE /\ Fault("fault")
           /\ writer[m][w].renames + 1 < MaxRenames
           /\ writer' = [writer EXCEPT ![m][w].renames = @ + 1,
                                       ![m][w].at = "filled"]
           /\ UNCHANGED <<files, tries>>
  <2> DEFINE r == [writer[m][w] EXCEPT !.renames = @ + 1, !.at = "filled"]
  <2>1. r \in Writes
    <3>1. writer[m][w] \in Writes
      BY WriterTyped DEF PresenceInv
    <3>2. writer[m][w].renames + 1 \in 0..MaxRenames
      BY <1>3, <3>1, ConstantsTyped DEF Writes
    <3> QED
      BY <3>1, <3>2 DEF Writes, Steps
  <2>2. /\ r.at \in {"filled", "rename"}
        /\ r.epoch = writer[m][w].epoch /\ r.status = writer[m][w].status
    BY WriterTyped DEF PresenceInv, Writes
  <2>3. writer' = [writer EXCEPT ![m][w] = r]
    BY <1>3
  <2>4. UNCHANGED <<lock, tries, agent, upsets, starts>>
    BY <1>1, <1>3 DEF files, Fault
  <2>5. faults' \in 0..MaxFaults /\ faults <= faults'
    BY <1>3, Counts
  <2>6. tmp' = [tmp EXCEPT ![TmpOf(m, w)] = Line(m, w)]
    <3>1. tmp[TmpOf(m, w)] = Line(m, w)
      BY <1>1 DEF PresenceInv, MachineInv, OwnTmp
    <3> QED
      BY <1>3, <3>1, TmpTyped DEF files
  <2> HIDE DEF r
  <2> QED
    BY <1>1, <2>1, <2>2, <2>3, <2>4, <2>5, <2>6, GoesOn
<1>4. CASE Fault("fault") /\ Remove(m, w) /\ Fail(m, w) /\ UNCHANGED lock
  BY <1>1, <1>4, FailKeeps
<1> QED
  BY <1>2, <1>3, <1>4 DEF Rename

LEMMA WriteStepKeeps ==
  ASSUME PresenceInv, NEW m \in Machines, NEW w \in Writers, WriteStep(m, w)
  PROVE  TypeOK' /\ Foreign(m) /\ MachineInv(m)'
BY FillKeeps, LookKeeps, RenameKeeps DEF WriteStep

(***************************************************************************)
(* The loop of the heartbeat.                                              *)
(***************************************************************************)
LEMMA HeartbeatKeeps ==
  ASSUME PresenceInv, NEW m \in Machines, Heartbeat(m)
  PROVE  TypeOK' /\ Foreign(m) /\ MachineInv(m)'
<1>1. "beat" \in Writers /\ "beat" # "main"
  BY OtherWriter
<1>3. \A a : agent[m] = a /\ agent' = agent => agent' = [agent EXCEPT ![m] = a]
  BY DEF PresenceInv, TypeOK
<1>4. CASE Beat(m)
  <2>1. writer[m]["beat"].at = "idle" /\ UNCHANGED <<lock, agent, tries, bounds>>
    BY <1>4 DEF Beat, At
  <2>2. CASE agent[m] = "up" /\ Open(m, "beat", "ONLINE")
    BY <1>1, <1>3, <2>1, <2>2, OpenKeeps
  <2>3. CASE agent[m] \in {"stopping", "waiting"} /\ Open(m, "beat", "OFFLINE")
    BY <1>1, <1>3, <2>1, <2>3, OpenKeeps
  <2>4. CASE /\ agent[m] \in {"stopping", "waiting"}
             /\ Allowed("stall") /\ Move(m, "beat", "ended") /\ UNCHANGED tmp
    <3> DEFINE r == [writer[m]["beat"] EXCEPT !.at = "ended"]
               v == tmp[TmpOf(m, "beat")]
    <3>1. r \in Writes /\ r.at = "ended"
      BY <1>1, WriterTyped DEF PresenceInv, Writes, Steps
    <3>2. writer' = [writer EXCEPT ![m]["beat"] = r]
      BY <2>4 DEF Move
    <3>3. v \in Held /\ tmp' = [tmp EXCEPT ![TmpOf(m, "beat")] = v]
      BY <1>1, <2>4, TmpTyped
    <3>4. Sound(m, "beat", r, v)
      BY <1>1, <2>4, <3>1 DEF Sound
    <3>5. Turns(m, "beat", r, v, tries[m])
      BY <2>1, <3>2, <3>3, Counts DEF Turns, bounds
    <3>6. tries[m] \in 0..(MaxRetries - 1) /\ tries[m] <= faults'
      BY <2>1, Counts DEF bounds
    <3> HIDE DEF r, v
    <3> QED
      BY <1>1, <3>1, <3>3, <3>4, <3>5, <3>6, TurnTyped, TurnKeeps
  <2> QED
    BY <1>4, <2>2, <2>3, <2>4 DEF Beat
<1>5. CASE Retry(m)
  <2>1. /\ writer[m]["beat"].at = "failed"
        /\ UNCHANGED <<lock, agent, bounds>>
    BY <1>5 DEF Retry, At
  <2>2. /\ agent[m] \notin {"off", "dead"}
        /\ agent[m] = "up" => writer[m]["beat"].status = "ONLINE"
    BY <1>1, <2>1, BusyAgent
  <2>3. CASE /\ MayGoOn(m, "beat")
             /\ Open(m, "beat", writer[m]["beat"].status)
             /\ UNCHANGED tries
    <3>1. writer[m]["beat"].status \in {"ONLINE", "OFFLINE"}
      BY <1>1, WriterTyped DEF PresenceInv, Writes
    <3>2. agent[m] \in {"up", "stopping", "waiting"}
      BY <2>2 DEF PresenceInv, TypeOK
    <3> QED
      BY <1>1, <1>3, <2>1, <2>2, <2>3, <3>1, <3>2, OpenKeeps
  <2>4. CASE MayCancel(m, "beat") /\ Return(m, "beat") /\ UNCHANGED tmp
    BY <1>1, <2>1, <2>4, CancelKeeps
  <2> QED
    BY <1>5, <2>3, <2>4 DEF Retry
<1>6. CASE WriteStep(m, "beat")
  BY <1>1, <1>6, WriteStepKeeps
<1> QED
  BY <1>4, <1>5, <1>6 DEF Heartbeat

(***************************************************************************)
(* The agent starts, stops and waits.                                      *)
(***************************************************************************)
LEMMA StartKeeps ==
  ASSUME PresenceInv, NEW m \in Machines, Start(m)
  PROVE  TypeOK' /\ Foreign(m) /\ MachineInv(m)'
<1>1. /\ UNCHANGED <<lock, tmp, writer, tries, upsets, faults>>
      /\ agent' = [agent EXCEPT ![m] = "up"]
  BY DEF Start, files
<1>2. starts' \in [Machines -> Nat]
  BY ConstantsTyped DEF Start, PresenceInv, TypeOK
<1>3. /\ agent' \in [Machines -> {"up", "stopping", "waiting", "off", "dead"}]
      /\ agent'[m] = "up" /\ \A n \in Machines : n # m => agent'[n] = agent[n]
  BY <1>1 DEF PresenceInv, TypeOK
<1>4. TypeOK'
  BY <1>1, <1>2, <1>3 DEF PresenceInv, TypeOK
<1>5. MachineInv(m)
  BY DEF PresenceInv
<1>6. \A w \in Writers : writer[m][w] = NoWrite
  BY <1>5 DEF MachineInv, Orderly, Start
<1>7. OwnTmp(m)' /\ Retrying(m)'
  BY <1>1, <1>5 DEF MachineInv, OwnTmp, Busy, TmpOf, Line, Retrying
<1>8. Orderly(m)' /\ SaidOffline(m)'
  BY <1>1, <1>3, <1>6, OtherWriter DEF Orderly, SaidOffline, NoWrite
<1>9. Foreign(m)
  <2>1. faults \in Nat /\ faults <= faults
    BY ConstantsTyped DEF PresenceInv, TypeOK
  <2> QED
    BY <1>1, <1>3, <2>1 DEF Foreign
<1> QED
  BY <1>4, <1>7, <1>8, <1>9 DEF MachineInv

LEMMA StopKeeps ==
  ASSUME PresenceInv, NEW m \in Machines, Stop(m)
  PROVE  TypeOK' /\ Foreign(m) /\ MachineInv(m)'
BY OtherWriter, OpenKeeps DEF Stop

LEMMA WaitKeeps ==
  ASSUME PresenceInv, NEW m \in Machines, Wait(m)
  PROVE  TypeOK' /\ Foreign(m) /\ MachineInv(m)'
<1>1. /\ UNCHANGED <<lock, tmp, writer, tries, upsets, faults, starts>>
      /\ agent' = [agent EXCEPT ![m] = "waiting"]
  BY DEF Wait, files, bounds
<1>2. /\ agent' \in [Machines -> {"up", "stopping", "waiting", "off", "dead"}]
      /\ agent'[m] = "waiting" /\ \A n \in Machines : n # m => agent'[n] = agent[n]
  BY <1>1 DEF PresenceInv, TypeOK
<1>3. TypeOK'
  BY <1>1, <1>2 DEF PresenceInv, TypeOK
<1>4. MachineInv(m)
  BY DEF PresenceInv
<1>5. OwnTmp(m)' /\ Retrying(m)'
  BY <1>1, <1>4 DEF MachineInv, OwnTmp, Busy, TmpOf, Line, Retrying
<1>6. Orderly(m)' /\ SaidOffline(m)'
  BY <1>1, <1>2, <1>4 DEF MachineInv, Orderly, SaidOffline, Online, Allowed
<1>7. Foreign(m)
  <2>1. faults \in Nat /\ faults <= faults
    BY ConstantsTyped DEF PresenceInv, TypeOK
  <2> QED
    BY <1>1, <1>2, <2>1 DEF Foreign
<1> QED
  BY <1>3, <1>5, <1>6, <1>7 DEF MachineInv

(***************************************************************************)
(* The process ends, in order or killed; a rename on its way puts at most  *)
(* a line of its own in place, and no ONLINE once the heartbeat has ended. *)
(***************************************************************************)
LEMMA GoneKeeps ==
  ASSUME PresenceInv, NEW m \in Machines, NEW how \in {"off", "dead"},
         Gone(m, how), agent[m] \in {"up", "stopping", "waiting"},
         how = "off" => writer[m]["beat"].at = "ended" \/ Allowed("stall"),
         UNCHANGED <<upsets, starts>>,
         faults' \in 0..MaxFaults, faults <= faults'
  PROVE  TypeOK' /\ Foreign(m) /\ MachineInv(m)'
<1>1. /\ agent' = [agent EXCEPT ![m] = how]
      /\ writer' = [writer EXCEPT ![m] = [w \in Writers |-> NoWrite]]
      /\ tries' = [tries EXCEPT ![m] = 0]
  BY DEF Gone
<1>2. \/ UNCHANGED files
      \/ \E w \in Writers : /\ writer[m][w].at = "rename"
                            /\ lock' = Line(m, w) /\ Remove(m, w)
  BY RenameIs DEF Gone, At
<1>3. lock' = lock \/ \E w \in Writers : /\ writer[m][w].at = "rename"
                                         /\ lock' = Line(m, w)
  BY <1>2 DEF files
<1>4. /\ tmp' \in [Names -> Held]
      /\ \A n \in Machines, e \in Epochs :
            n # m => tmp'[Name(n, e)] = tmp[Name(n, e)]
  <2>1. tmp \in [Names -> Held]
    BY DEF PresenceInv, TypeOK, Held
  <2>2. CASE UNCHANGED files
    BY <2>1, <2>2 DEF files
  <2>3. CASE \E w \in Writers : Remove(m, w)
    <3>1. PICK w \in Writers : tmp' = [tmp EXCEPT ![TmpOf(m, w)] = NoLock]
      BY <2>3 DEF Remove
    <3>2. PICK e \in Epochs : tmp' = [tmp EXCEPT ![Name(m, e)] = NoLock]
      BY <3>1, WriterTyped DEF PresenceInv, TmpOf
    <3> QED
      BY <2>1, <3>2 DEF Name, Names, Held
  <2> QED
    BY <1>2, <2>2, <2>3
<1>5. /\ writer' \in [Machines -> [Writers -> Writes]]
      /\ \A w \in Writers : writer'[m][w] = NoWrite
      /\ \A n \in Machines : n # m => writer'[n] = writer[n]
  <2>1. NoWrite \in Writes
    BY ConstantsTyped DEF NoWrite, Writes, Steps, Epochs
  <2>2. writer \in [Machines -> [Writers -> Writes]]
    BY WriterTyped DEF PresenceInv
  <2> QED
    BY <1>1, <2>1, <2>2
<1>6. /\ agent' \in [Machines -> {"up", "stopping", "waiting", "off", "dead"}]
      /\ agent'[m] = how /\ \A n \in Machines : n # m => agent'[n] = agent[n]
  BY <1>1 DEF PresenceInv, TypeOK
<1>7. /\ tries' \in [Machines -> 0..MaxRetries]
      /\ tries'[m] = 0 /\ \A n \in Machines : n # m => tries'[n] = tries[n]
  BY <1>1, ConstantsTyped DEF PresenceInv, TypeOK
<1>8. lock' \in Lines \cup {NoLock}
  BY <1>3, WriterTyped DEF PresenceInv, TypeOK
<1>9. TypeOK'
  <2>1. upsets' \in Upsets /\ starts' \in [Machines -> Nat]
    BY DEF PresenceInv, TypeOK
  <2> QED
    BY <1>4, <1>5, <1>6, <1>7, <1>8, <2>1 DEF TypeOK, Writes, Held
<1>10. Foreign(m)
  <2>1. lock' = lock \/ (lock' \in Lines /\ lock'.machine = m)
    <3>1. \A w \in Writers : Line(m, w).machine = m
      BY DEF Line
    <3> QED
      BY <1>3, <3>1, WriterTyped DEF PresenceInv
  <2>2. faults \in Nat /\ faults' \in Nat
    BY ConstantsTyped DEF PresenceInv, TypeOK
  <2> QED
    BY <1>4, <1>5, <1>6, <1>7, <2>1, <2>2 DEF Foreign
<1>11. OwnTmp(m)' /\ Orderly(m)'
  BY <1>5, <1>6, OtherWriter DEF OwnTmp, Orderly, Busy, NoWrite
<1>12. Retrying(m)'
  BY <1>7, ConstantsTyped DEF Retrying
<1>13. SaidOffline(m)'
  <2>1. SUFFICES ASSUME ~Allowed("stall")', faults' < MaxRetries,
                        (agent[m] = "off" \/ writer[m]["beat"].at = "ended")'
                 PROVE  lock' # Online(m)
    BY DEF SaidOffline, Online
  <2>2. writer'[m]["beat"].at # "ended"
    BY <1>5, OtherWriter DEF NoWrite
  <2>3. ~Allowed("stall") /\ writer[m]["beat"].at = "ended"
    BY <1>6, <2>1, <2>2 DEF Allowed
  <2>4. faults < MaxRetries
    BY <2>1, ConstantsTyped DEF PresenceInv, TypeOK
  <2>5. lock # Online(m)
    BY <2>3, <2>4 DEF PresenceInv, MachineInv, SaidOffline
  <2>6. ASSUME NEW w \in Writers, writer[m][w].at = "rename"
        PROVE  Line(m, w) # Online(m)
    <3>1. w = "main"
      BY <2>3, <2>6, OtherWriter
    <3>2. writer[m][w].status = "OFFLINE"
      BY <2>6, <3>1, BusyAgent
    <3> QED
      BY <3>2 DEF Line, Online
  <2> QED
    BY <1>3, <2>5, <2>6
<1> QED
  BY <1>9, <1>10, <1>11, <1>12, <1>13 DEF MachineInv

LEMMA MainKeeps ==
  ASSUME PresenceInv, NEW m \in Machines, Main(m)
  PROVE  TypeOK' /\ Foreign(m) /\ MachineInv(m)'
<1>1. CASE WriteStep(m, "main")
  BY <1>1, OtherWriter, WriteStepKeeps
<1>2. CASE Wait(m)
  BY <1>2, WaitKeeps
<1>3. CASE Exit(m)
  <2>1. /\ agent[m] = "waiting" /\ Gone(m, "off")
        /\ writer[m]["beat"].at = "ended" \/ Allowed("stall")
        /\ UNCHANGED <<upsets, faults, starts>>
    BY <1>3 DEF Exit, At, bounds
  <2>2. faults' \in 0..MaxFaults /\ faults <= faults'
    BY <2>1, ConstantsTyped DEF PresenceInv, TypeOK
  <2> QED
    BY <2>1, <2>2, GoneKeeps
<1> QED
  BY <1>1, <1>2, <1>3 DEF Main

LEMMA KillKeeps ==
  ASSUME PresenceInv, NEW m \in Machines, Kill(m)
  PROVE  TypeOK' /\ Foreign(m) /\ MachineInv(m)'
<1>1. /\ agent[m] \in {"up", "stopping", "waiting"} /\ Gone(m, "dead")
      /\ Fault("kill") /\ UNCHANGED <<upsets, starts>>
  BY DEF Kill, Fault
<1>2. faults' \in 0..MaxFaults /\ faults <= faults'
  BY <1>1, Counts
<1> QED
  BY <1>1, <1>2, GoneKeeps

(***************************************************************************)
(* A restore takes the lock file away, whoever's line it has.              *)
(***************************************************************************)
LEMMA CleanedUpKeeps ==
  ASSUME PresenceInv, CleanedUp
  PROVE  PresenceInv'
<1>1. /\ lock' = NoLock /\ UNCHANGED <<tmp, agent, writer, tries, upsets, starts>>
      /\ Fault("restore")
  BY DEF CleanedUp, Fault
<1>2. faults' \in 0..MaxFaults /\ faults <= faults'
  BY <1>1, ConstantsTyped DEF Fault, PresenceInv, TypeOK
<1>3. TypeOK'
  BY <1>1, <1>2 DEF PresenceInv, TypeOK
<1>4. ASSUME NEW m \in Machines
      PROVE  MachineInv(m)'
  <2>1. MachineInv(m)
    BY DEF PresenceInv
  <2>2. OwnTmp(m)' /\ Orderly(m)'
    BY <1>1, <2>1 DEF MachineInv, OwnTmp, Busy, TmpOf, Line, Orderly
  <2>3. Retrying(m)'
    <3>1. tries[m] \in Nat /\ faults \in Nat /\ faults' \in Nat
      BY <1>2, ConstantsTyped DEF PresenceInv, TypeOK
    <3> QED
      BY <1>1, <1>2, <2>1, <3>1 DEF MachineInv, Retrying
  <2>4. SaidOffline(m)'
    BY <1>1, OnlineIsLine DEF SaidOffline, Online
  <2> QED
    BY <2>2, <2>3, <2>4 DEF MachineInv
<1> QED
  BY <1>3, <1>4 DEF PresenceInv

-----------------------------------------------------------------------------
LEMMA InvInit ==
  ASSUME Init
  PROVE  PresenceInv
<1>1. NoWrite \in Writes
  BY ConstantsTyped DEF NoWrite, Writes, Steps, Epochs
<1>2. TypeOK
  <2>1. writer \in [Machines -> [Writers -> Writes]]
    BY <1>1 DEF Init
  <2> QED
    BY <2>1, ConstantsTyped DEF Init, TypeOK, Writes
<1>3. ASSUME NEW m \in Machines
      PROVE  MachineInv(m)
  <2>1. \A w \in Writers : writer[m][w] = NoWrite
    BY DEF Init
  <2>2. OwnTmp(m) /\ Orderly(m)
    BY <2>1, OtherWriter DEF Init, OwnTmp, Orderly, Busy, NoWrite
  <2>3. Retrying(m)
    BY ConstantsTyped DEF Init, Retrying
  <2>4. SaidOffline(m)
    BY OnlineIsLine DEF Init, SaidOffline
  <2> QED
    BY <2>2, <2>3, <2>4 DEF MachineInv
<1> QED
  BY <1>2, <1>3 DEF PresenceInv

LEMMA InvStep ==
  ASSUME PresenceInv, [Next]_vars
  PROVE  PresenceInv'
<1>1. ASSUME NEW m \in Machines, TypeOK' /\ Foreign(m) /\ MachineInv(m)'
      PROVE  PresenceInv'
  BY <1>1, OthersKeep DEF PresenceInv
<1>2. ASSUME NEW m \in Machines,
             Heartbeat(m) \/ Start(m) \/ Stop(m) \/ Main(m) \/ Kill(m)
      PROVE  PresenceInv'
  <2>1. CASE Heartbeat(m)
    BY <1>1, <2>1, HeartbeatKeeps
  <2>2. CASE Start(m)
    BY <1>1, <2>2, StartKeeps
  <2>3. CASE Stop(m)
    BY <1>1, <2>3, StopKeeps
  <2>4. CASE Main(m)
    BY <1>1, <2>4, MainKeeps
  <2>5. CASE Kill(m)
    BY <1>1, <2>5, KillKeeps
  <2> QED
    BY <1>2, <2>1, <2>2, <2>3, <2>4, <2>5
<1>3. CASE CleanedUp
  BY <1>3, CleanedUpKeeps
<1>4. CASE UNCHANGED vars
  BY <1>4 DEF vars, files, bounds, PresenceInv, TypeOK, MachineInv, OwnTmp,
              Busy, TmpOf, Line, Orderly, Retrying, SaidOffline, Allowed
<1> QED
  BY <1>2, <1>3, <1>4 DEF Next

LEMMA PresenceInvHolds == Spec => []PresenceInv
<1>1. Init => PresenceInv
  BY InvInit
<1>2. PresenceInv /\ [Next]_vars => PresenceInv'
  BY InvStep
<1> QED
  BY <1>1, <1>2, PTL DEF Spec

(* Whoever writes at once, however the writes fail and whenever an agent   *)
(* is killed, the lock file is absent or a whole line of one machine: the  *)
(* temporary file of a write is its own until it is renamed (WriteLock).   *)
THEOREM PresenceTypeCorrect == Spec => []TypeOK
<1>1. PresenceInv => TypeOK
  BY DEF PresenceInv
<1> QED
  BY <1>1, PresenceInvHolds, PTL

(* With any number of machines that share the lock file, an agent that has *)
(* ended in order is not what an ONLINE names, while the share is not so   *)
(* slow that the limits of the shutdown run out and there are fewer        *)
(* failures than the heartbeat retries (heartbeat.go:75, main.go:1011).    *)
THEOREM OfflineLastHolds == Spec => []OfflineLast
<1>1. PresenceInv => OfflineLast
  BY DEF PresenceInv, MachineInv, SaidOffline, OfflineLast, Online
<1> QED
  BY <1>1, PresenceInvHolds, PTL

=============================================================================
