------------------------- MODULE ManifestLockProofs -------------------------
(***************************************************************************)
(* Proofs about ManifestLock, for any set of writers and machines and any  *)
(* timeouts.                                                               *)
(***************************************************************************)
EXTENDS ManifestLock, TLAPS

(***************************************************************************)
(* The fault budget stays in its range.                                    *)
(***************************************************************************)
LEMMA FaultTyped ==
  ASSUME faults \in 0..MaxFaults, Fault
  PROVE  faults' \in 0..MaxFaults
BY ConstantsAssumption DEF ConstantsAssumption, Fault

(***************************************************************************)
(* Both timers fire within the horizon.                                    *)
(***************************************************************************)
LEMMA HorizonTyped ==
  Horizon \in Nat /\ CtxTimeout <= Horizon /\ StaleTimeout <= Horizon
BY ConstantsAssumption DEF ConstantsAssumption, Horizon

(***************************************************************************)
(* The initial state is well typed.                                        *)
(***************************************************************************)
LEMMA TypeInit == Init => TypeOK
<1> SUFFICES ASSUME Init
             PROVE  TypeOK
  OBVIOUS
<1>1. pc \in [Writers -> PCs]
  BY DEF Init, PCs
<1>2. age \in [Writers -> 0..Horizon] /\ faults \in 0..MaxFaults
  BY ConstantsAssumption, HorizonTyped DEF ConstantsAssumption, Init
<1>3. ticked \in [Writers -> BOOLEAN] /\ lockFile \in BOOLEAN
  BY DEF Init
<1>4. manifest \in Writers \cup {NoManifest, Torn}
  BY DEF Init
<1> QED
  BY <1>1, <1>2, <1>3, <1>4 DEF TypeOK

(***************************************************************************)
(* Type correctness: WriteManifest's steps, errors and crashes included,   *)
(* keep every variable in its range, with no assumption on the timeouts.   *)
(***************************************************************************)
THEOREM TypeCorrect == Spec => []TypeOK
<1>1. TypeOK /\ [Next]_vars => TypeOK'
  <2> SUFFICES ASSUME TypeOK, [Next]_vars
               PROVE  TypeOK'
    OBVIOUS
  <2> USE ConstantsAssumption, HorizonTyped
      DEF ConstantsAssumption, TypeOK, PCs
  <2>1. ASSUME NEW w \in Writers, Begin(w)
        PROVE  TypeOK'
    BY <2>1 DEF Begin
  <2>2. ASSUME NEW w \in Writers, OpenLock(w) \/ LockExists(w) \/ OpenError(w)
        PROVE  TypeOK'
    BY <2>2, FaultTyped DEF OpenLock, LockExists, OpenError
  <2>3. ASSUME NEW w \in Writers, CtxDone(w) \/ StaleTimer(w) \/ Retry(w)
        PROVE  TypeOK'
    BY <2>3 DEF CtxDone, StaleTimer, Retry
  <2>4. ASSUME NEW w \in Writers, Reopen(w)
        PROVE  TypeOK'
    BY <2>4 DEF Reopen
  <2>5. ASSUME NEW w \in Writers, Truncate(w) \/ Fill(w)
        PROVE  TypeOK'
    BY <2>5 DEF Truncate, Fill
  <2>6. ASSUME NEW w \in Writers, WriteError(w) \/ Unlock(w)
        PROVE  TypeOK'
    BY <2>6, FaultTyped DEF WriteError, Unlock
  <2>7. ASSUME NEW w \in Writers, Tick(w)
        PROVE  TypeOK'
    BY <2>7 DEF Tick
  <2>8. ASSUME NEW m \in Machines, Crash(m)
        PROVE  TypeOK'
    BY <2>8, FaultTyped DEF Crash
  <2>9. CASE UNCHANGED vars
    BY <2>9 DEF vars
  <2> QED
    BY <2>1, <2>2, <2>3, <2>4, <2>5, <2>6, <2>7, <2>8, <2>9 DEF Next, Step
<1> QED
  BY <1>1, TypeInit, PTL DEF Spec

-----------------------------------------------------------------------------
(***************************************************************************)
(* The initial state satisfies the inductive invariant.                    *)
(***************************************************************************)
LEMMA LockInvInit == Init => LockInv
<1> SUFFICES ASSUME Init
             PROVE  LockInv
  OBVIOUS
<1>1. \A w \in Writers : age[w] <= CtxTimeout
  <2>1. \A w \in Writers : age[w] = 0
    BY DEF Init
  <2>2. 0 <= CtxTimeout
    BY ConstantsAssumption DEF ConstantsAssumption
  <2> QED
    BY <2>1, <2>2
<1>2. \A w \in Writers : pc[w] = "idle"
  BY DEF Init
<1> QED
  BY <1>1, <1>2, TypeInit
  DEF LockInv, MutualExclusion, HolderKeepsLockFile, WrittenIntact, Holding

(***************************************************************************)
(* While no writer can grow older than its ctx, every step of the          *)
(* protocol preserves the inductive invariant.                             *)
(***************************************************************************)
LEMMA LockInvStep ==
  ASSUME StaleBreakUnreachable, LockInv, [Next]_vars
  PROVE  LockInv'
<1> USE ConstantsAssumption, HorizonTyped
    DEF ConstantsAssumption, StaleBreakUnreachable, LockInv, TypeOK, PCs,
        MutualExclusion, HolderKeepsLockFile, WrittenIntact, Holding
<1>1. ASSUME NEW w \in Writers, Begin(w)
      PROVE  LockInv'
  BY <1>1 DEF Begin
<1>2. ASSUME NEW w \in Writers, OpenLock(w)
      PROVE  LockInv'
  BY <1>2 DEF OpenLock
<1>3. ASSUME NEW w \in Writers, LockExists(w) \/ OpenError(w)
      PROVE  LockInv'
  BY <1>3, FaultTyped DEF LockExists, OpenError
<1>4a. ASSUME NEW w \in Writers, CtxDone(w)
       PROVE  LockInv'
  BY <1>4a DEF CtxDone
<1>4b. ASSUME NEW w \in Writers, Retry(w)
       PROVE  LockInv'
  BY <1>4b DEF Retry
<1>5. ASSUME NEW w \in Writers, StaleTimer(w) \/ Reopen(w)
      PROVE  FALSE
  BY <1>5 DEF StaleTimer, Reopen
<1>6. ASSUME NEW w \in Writers, Truncate(w)
      PROVE  LockInv'
  BY <1>6 DEF Truncate
<1>7. ASSUME NEW w \in Writers, Fill(w)
      PROVE  LockInv'
  BY <1>7 DEF Fill
<1>8. ASSUME NEW w \in Writers, WriteError(w)
      PROVE  LockInv'
  BY <1>8, FaultTyped DEF WriteError
<1>9. ASSUME NEW w \in Writers, Unlock(w)
      PROVE  LockInv'
  BY <1>9 DEF Unlock
<1>10. ASSUME NEW w \in Writers, Tick(w)
       PROVE  LockInv'
  BY <1>10 DEF Tick
<1>11. ASSUME NEW m \in Machines, Crash(m)
       PROVE  LockInv'
  BY <1>11, FaultTyped DEF Crash
<1>12. CASE UNCHANGED vars
  BY <1>12 DEF vars
<1> QED
  BY <1>1, <1>2, <1>3, <1>4a, <1>4b, <1>5, <1>6, <1>7, <1>8, <1>9,
     <1>10, <1>11, <1>12
  DEF Next, Step

(***************************************************************************)
(* The inductive invariant holds of every behaviour in which a ctx         *)
(* deadline precedes the stale-lock timeout and opens are prompt.          *)
(***************************************************************************)
LEMMA LockInvHolds == StaleBreakUnreachable => (Spec => []LockInv)
<1>1. StaleBreakUnreachable => (LockInv /\ [Next]_vars => LockInv')
  BY LockInvStep
<1>2. ASSUME StaleBreakUnreachable
      PROVE  Spec => []LockInv
  BY <1>1, <1>2, LockInvInit, PTL DEF Spec
<1> QED
  BY <1>2

(***************************************************************************)
(* Mutual exclusion: with the agent's 4s deadline and prompt opens, two    *)
(* machines are never both between creating and removing .manifest_lock.   *)
(***************************************************************************)
THEOREM LockExclusive ==
  StaleBreakUnreachable => (Spec => []MutualExclusion)
<1>1. LockInv => MutualExclusion
  BY DEF LockInv
<1> QED
  BY <1>1, LockInvHolds, PTL

(***************************************************************************)
(* Nobody removes the lock file of a live holder.                          *)
(***************************************************************************)
THEOREM LockKept == StaleBreakUnreachable => (Spec => []HolderKeepsLockFile)
<1>1. LockInv => HolderKeepsLockFile
  BY DEF LockInv
<1> QED
  BY <1>1, LockInvHolds, PTL

(***************************************************************************)
(* A manifest that has been written whole stays so until its writer lets   *)
(* go of the lock.                                                         *)
(***************************************************************************)
THEOREM ManifestIntact == StaleBreakUnreachable => (Spec => []WrittenIntact)
<1>1. LockInv => WrittenIntact
  BY DEF LockInv
<1> QED
  BY <1>1, LockInvHolds, PTL

(***************************************************************************)
(* Only the lock's holder replaces or tears the manifest, and what it      *)
(* leaves there is its own.                                                *)
(***************************************************************************)
THEOREM OnlyHolderWritesHolds ==
  StaleBreakUnreachable => (Spec => OnlyHolderWrites)
<1> DEFINE A == manifest' # manifest =>
                  /\ lockFile
                  /\ \E w \in Writers : /\ Holding(w)
                                        /\ \A v \in Writers \ {w} : ~Holding(v)
                                        /\ manifest' \in {w, Torn}
<1>1. LockInv /\ [Next]_vars => [A]_vars
  <2> SUFFICES ASSUME LockInv, Next, manifest' # manifest
               PROVE  A
    OBVIOUS
  <2>1. PICK w \in Writers : Truncate(w) \/ Fill(w)
    BY DEF Next, Begin, Step, OpenLock, LockExists, OpenError, CtxDone,
           StaleTimer, Retry, Reopen, WriteError, Unlock, Tick, Crash
  <2>2. Holding(w) /\ manifest' \in {w, Torn}
    BY <2>1 DEF Truncate, Fill, Holding
  <2>3. lockFile /\ \A v \in Writers \ {w} : ~Holding(v)
    BY <2>2 DEF LockInv, MutualExclusion, HolderKeepsLockFile
  <2> QED
    BY <2>2, <2>3
<1> QED
  BY <1>1, LockInvHolds, PTL DEF Spec, OnlyHolderWrites

-----------------------------------------------------------------------------
(***************************************************************************)
(* The refinement mapping, evaluated where some writer holds the lock ...  *)
(***************************************************************************)
LEMMA HolderIsWriter ==
  ASSUME MutualExclusion, NEW w \in Writers, Holding(w)
  PROVE  LockHolder = w
BY DEF LockHolder, MutualExclusion

(***************************************************************************)
(* ... and where nobody does.                                              *)
(***************************************************************************)
LEMMA HolderIsNobody ==
  ASSUME \A w \in Writers : ~Holding(w)
  PROVE  LockHolder = IF lockFile THEN "orphaned" ELSE "free"
BY DEF LockHolder

(***************************************************************************)
(* The mapped state is untouched by a step that changes neither the lock   *)
(* file, nor the manifest, nor who is holding.                             *)
(***************************************************************************)
LEMMA HolderUnchanged ==
  ASSUME UNCHANGED lockFile,
         \A w \in Writers : Holding(w)' <=> Holding(w)
  PROVE  UNCHANGED LockHolder
BY DEF LockHolder

(***************************************************************************)
(* Refinement: while the stale-lock branch is out of reach, the lock file  *)
(* protocol is an implementation of the one-holder mutex.                  *)
(***************************************************************************)
THEOREM MutexRefinement ==
  StaleBreakUnreachable => (Spec => ImplementsMutex)
<1>1. Init => Mutex!MInit
  <2> SUFFICES ASSUME Init
               PROVE  Mutex!MInit
    OBVIOUS
  <2>1. \A w \in Writers : ~Holding(w)
    BY DEF Init, Holding
  <2>2. LockHolder = "free"
    BY <2>1, HolderIsNobody DEF Init
  <2> QED
    BY <2>2 DEF Init, Mutex!MInit
<1>2. StaleBreakUnreachable =>
        (LockInv /\ LockInv' /\ [Next]_vars => [Mutex!MNext]_(Mutex!mvars))
  <2> SUFFICES ASSUME StaleBreakUnreachable, LockInv, LockInv', [Next]_vars
               PROVE  [Mutex!MNext]_(Mutex!mvars)
    OBVIOUS
  <2> USE DEF LockInv, TypeOK
  <2>1. ASSUME NEW w \in Writers,
               Begin(w) \/ LockExists(w) \/ OpenError(w) \/ CtxDone(w)
                 \/ Retry(w) \/ Tick(w)
        PROVE  UNCHANGED <<LockHolder, manifest>>
    <3>1. UNCHANGED <<lockFile, manifest>>
      BY <2>1 DEF Begin, LockExists, OpenError, CtxDone, Retry, Tick
    <3>2. \A v \in Writers : Holding(v)' <=> Holding(v)
      BY <2>1 DEF Begin, LockExists, OpenError, CtxDone, Retry, Tick, Holding
    <3> QED
      BY <3>1, <3>2, HolderUnchanged
  <2>2. ASSUME NEW w \in Writers, OpenLock(w)
        PROVE  Mutex!Acquire(w)
    <3>1. LockHolder = "free"
      BY <2>2, HolderIsNobody DEF OpenLock, HolderKeepsLockFile
    <3>2. Holding(w)'
      BY <2>2 DEF OpenLock, Holding
    <3>3. LockHolder' = w
      BY <3>2, HolderIsWriter DEF LockHolder, MutualExclusion
    <3> QED
      BY <2>2, <3>1, <3>3 DEF OpenLock, Mutex!Acquire
  <2>3. ASSUME NEW w \in Writers, Truncate(w) \/ Fill(w)
        PROVE  Mutex!Write(w)
    <3>1. Holding(w) /\ Holding(w)'
      BY <2>3 DEF Truncate, Fill, Holding
    <3>2. LockHolder = w
      BY <3>1, HolderIsWriter
    <3>3. LockHolder' = w
      BY <3>1 DEF LockHolder, MutualExclusion
    <3>4. manifest' = Torn \/ (manifest = Torn /\ manifest' = w)
      BY <2>3 DEF Truncate, Fill
    <3> QED
      BY <3>2, <3>3, <3>4 DEF Mutex!Write
  <2>4. ASSUME NEW w \in Writers, WriteError(w) \/ Unlock(w)
        PROVE  Mutex!Release(w)
    <3>1. Holding(w) /\ ~lockFile' /\ UNCHANGED manifest
      BY <2>4 DEF WriteError, Unlock, Holding
    <3>2. LockHolder = w
      BY <3>1, HolderIsWriter
    <3>3. LockHolder' = "free"
      BY <3>1 DEF LockHolder, HolderKeepsLockFile
    <3> QED
      BY <3>1, <3>2, <3>3 DEF Mutex!Release
  <2>5. ASSUME NEW w \in Writers, StaleTimer(w) \/ Reopen(w)
        PROVE  FALSE
    BY <2>5, ConstantsAssumption
    DEF ConstantsAssumption, StaleTimer, Reopen, StaleBreakUnreachable
  <2>6. ASSUME NEW m \in Machines, Crash(m),
               NEW w \in Writers, Holding(w), Host[w] = m
        PROVE  Mutex!Orphan(w)
    <3>1. \A v \in Writers : ~Holding(v)'
      BY <2>6 DEF Crash, Holding, MutualExclusion
    <3>2. lockFile' /\ UNCHANGED manifest
      BY <2>6 DEF Crash, HolderKeepsLockFile
    <3>3. LockHolder = w
      BY <2>6, HolderIsWriter
    <3>4. LockHolder' = "orphaned"
      BY <3>1, <3>2 DEF LockHolder
    <3> QED
      BY <3>2, <3>3, <3>4 DEF Mutex!Orphan
  <2>7. ASSUME NEW m \in Machines, Crash(m),
               \A w \in Writers : Holding(w) => Host[w] # m
        PROVE  UNCHANGED <<LockHolder, manifest>>
    <3>1. \A v \in Writers : Holding(v)' <=> Holding(v)
      BY <2>7 DEF Crash, Holding
    <3> QED
      BY <2>7, <3>1, HolderUnchanged DEF Crash
  <2>8. CASE UNCHANGED vars
    <3>1. \A v \in Writers : Holding(v)' <=> Holding(v)
      BY <2>8 DEF vars, Holding
    <3> QED
      BY <2>8, <3>1, HolderUnchanged DEF vars, Mutex!mvars
  <2> QED
    BY <2>1, <2>2, <2>3, <2>4, <2>5, <2>6, <2>7, <2>8
    DEF Next, Step, Mutex!MNext, Mutex!mvars
<1>3. ASSUME StaleBreakUnreachable
      PROVE  Spec => ImplementsMutex
  BY <1>1, <1>2, <1>3, LockInvHolds, PTL DEF Spec, ImplementsMutex, Mutex!MSpec
<1> QED
  BY <1>3

=============================================================================
