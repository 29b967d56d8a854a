------------------------- MODULE CatalogSyncProofs -------------------------
(***************************************************************************)
(* Proofs about CatalogSync, for any machines, backups, directories and    *)
(* bounds: what was synced is not synced again while its record stands, a  *)
(* pended sync is not forgotten by a queue that has room, a machine that   *)
(* has never synced keeps its catalog until its user answers, and a        *)
(* catalog that a sync left broken can be recovered.                       *)
(***************************************************************************)
EXTENDS CatalogSync, SequenceTheorems, TLAPS

USE DEF stamps, disk, outside, memory, hist

(***************************************************************************)
(* A machine's directories, and the counts of the configuration.           *)
(***************************************************************************)
LEMMA ConstantsTyped ==
  /\ \A m \in Machines : CatalogDir[m] \in Dirs /\ ManifestDir[m] \in Dirs
  /\ MaxBackups \in Nat \ {0} /\ QueueSize \in Nat \ {0}
BY CatalogAssumption DEF CatalogAssumption

(***************************************************************************)
(* Retention keeps a suffix of the same kind of sequence.                  *)
(***************************************************************************)
LEMMA KeepNewestTyped ==
  ASSUME NEW S, NEW s \in Seq(S), NEW n \in Nat \ {0}
  PROVE  KeepNewest(s, n) \in Seq(S)
<1>1. CASE Len(s) <= n
  BY <1>1 DEF KeepNewest
<1>2. CASE ~(Len(s) <= n)
  <2>1. \A i \in Len(s) - n + 1 .. Len(s) : s[i] \in S
    BY <1>2, ElementOfSeq
  <2>2. SubSeq(s, Len(s) - n + 1, Len(s)) \in Seq(S)
    BY <2>1, SubSeqProperties
  <2> QED
    BY <1>2, <2>2 DEF KeepNewest
<1> QED
  BY <1>1, <1>2

(***************************************************************************)
(* What lies on the shelf is a zip, its newest too unless it is empty.     *)
(***************************************************************************)
LEMMA ShelfTyped ==
  ASSUME shelf \in Seq(Zips)
  PROVE  /\ Newest \in Zips \cup {NoZip}
         /\ \A z : OnShelf(z) => z \in Zips
<1>1. Newest \in Zips \cup {NoZip}
  BY DEF Newest
<1>2. \A z : OnShelf(z) => z \in Zips
  BY DEF OnShelf
<1> QED
  BY <1>1, <1>2

(***************************************************************************)
(* The job at hand, and the queue without it.                              *)
(***************************************************************************)
LEMMA JobTyped ==
  ASSUME JobsOK, NEW m \in Machines, jobs[m] # <<>>
  PROVE  /\ Job(m) \in Jobs
         /\ Job(m) = jobs[m][1]
         /\ Tail(jobs[m]) \in Seq(Jobs)
<1>1. jobs[m] \in Seq(Jobs)
  BY DEF JobsOK
<1> QED
  BY <1>1 DEF Job

(***************************************************************************)
(* The jobs the agent makes are jobs.                                      *)
(***************************************************************************)
LEMMA JobsTyped ==
  /\ \A man \in Manifests : NetworkJob(man) \in Jobs
  /\ LatestJob \in Jobs /\ PresetJob \in Jobs
  /\ \A z \in Zips : ChosenJob(z) \in Jobs
<1>1. \A man \in Manifests : man.zip \in Zips /\ man \in MaybeManifest
  BY DEF Manifests, MaybeManifest
<1> QED
  BY <1>1 DEF NetworkJob, LatestJob, PresetJob, ChosenJob, Jobs, MaybeManifest

(***************************************************************************)
(* The initial states are of the types.                                    *)
(***************************************************************************)
LEMMA TypeInit == Init => TypeOK
BY CatalogAssumption
DEF CatalogAssumption, Init, TypeOK, JobsOK, Epoch, AtStart, Contents, MaybeManifest,
    Steps

(***************************************************************************)
(* The running job goes to its next step.                                  *)
(***************************************************************************)
LEMMA GoToTyped ==
  ASSUME JobsOK, NEW m \in Machines, step[m] # "idle", NEW s \in Steps,
         GoTo(m, s)
  PROVE  JobsOK'
BY DEF JobsOK, GoTo

(***************************************************************************)
(* The running job ends.                                                   *)
(***************************************************************************)
LEMMA JobEndsTyped ==
  ASSUME JobsOK, NEW m \in Machines, step[m] # "idle", JobEnds(m)
  PROVE  JobsOK'
<1>1. Tail(jobs[m]) \in Seq(Jobs)
  BY HeadTailProperties DEF JobsOK
<1>2. "idle" \in Steps
  BY DEF Steps
<1> QED
  BY <1>1, <1>2 DEF JobsOK, JobEnds

(***************************************************************************)
(* A job joins the queue.                                                  *)
(***************************************************************************)
LEMMA EnqueueKeepsTyped ==
  ASSUME JobsOK, NEW m \in Machines, NEW job \in Jobs, Enqueue(m, job),
         UNCHANGED step
  PROVE  JobsOK'
<1>1. /\ Append(jobs[m], job) \in Seq(Jobs)
      /\ Append(jobs[m], job) # <<>>
  BY AppendProperties DEF JobsOK
<1> QED
  BY <1>1 DEF JobsOK, Enqueue

(***************************************************************************)
(* Sync Now names its zip when it starts: the job is still a job.          *)
(***************************************************************************)
LEMMA RelistTyped ==
  ASSUME TypeOK, NEW m \in Machines, jobs[m] # <<>>,
         jobs' = [jobs EXCEPT ![m][1].zip = Newest]
  PROVE  /\ jobs' \in [Machines -> Seq(Jobs)]
         /\ jobs'[m] # <<>>
         /\ \A n \in Machines : n # m => jobs'[n] = jobs[n]
<1> DEFINE job == [jobs[m][1] EXCEPT !.zip = Newest]
<1>1. jobs[m] \in Seq(Jobs) /\ 1 \in 1..Len(jobs[m])
  BY EmptySeq DEF TypeOK, JobsOK
<1>2. job \in Jobs
  <2>1. jobs[m][1] \in Jobs
    BY <1>1, ElementOfSeq
  <2>2. Newest \in Zips \cup {NoZip}
    BY ShelfTyped DEF TypeOK
  <2> QED
    BY <2>1, <2>2 DEF Jobs
<1>3. /\ [jobs[m] EXCEPT ![1] = job] \in Seq(Jobs)
      /\ Len([jobs[m] EXCEPT ![1] = job]) = Len(jobs[m])
  BY <1>1, <1>2, ExceptSeq
<1>4. jobs' = [jobs EXCEPT ![m] = [jobs[m] EXCEPT ![1] = job]]
  OBVIOUS
<1>5. [jobs[m] EXCEPT ![1] = job] # <<>>
  BY <1>1, <1>3
<1> QED
  BY <1>3, <1>4, <1>5 DEF TypeOK, JobsOK

(***************************************************************************)
(* A job that may be refused joins the queue.                              *)
(***************************************************************************)
LEMMA EnqueueOrRejectTyped ==
  ASSUME JobsOK, NEW m \in Machines, NEW job \in Jobs, EnqueueOrReject(m, job),
         UNCHANGED step
  PROVE  JobsOK'
<1>1. CASE UNCHANGED jobs
  BY <1>1 DEF JobsOK
<1>2. CASE Enqueue(m, job)
  BY <1>2, EnqueueKeepsTyped
<1> QED
  BY <1>1, <1>2 DEF EnqueueOrReject

(***************************************************************************)
(* The calls of enqueuePresetSync are counted, by a start in particular.   *)
(***************************************************************************)
Calls == [start : BOOLEAN, calls : Nat]

LEMMA PresetsTyped ==
  ASSUME presets \in [Machines -> Calls], NEW m \in Machines
  PROVE  /\ CallPresetSync(m) => presets' \in [Machines -> Calls]
         /\ presets' = [presets EXCEPT ![m] = AtStart(m)]
              => presets' \in [Machines -> Calls]
         /\ presets' = [presets EXCEPT ![m].start = FALSE]
              => presets' \in [Machines -> Calls]
         /\ presets[m].calls > 0 /\ presets' = [presets EXCEPT ![m].calls = @ - 1]
              => presets' \in [Machines -> Calls]
<1>1. presets[m] \in Calls /\ presets[m].calls \in Nat
  BY DEF Calls
<1>2. AtStart(m) \in Calls
  BY DEF AtStart, Calls
<1>3. [presets[m] EXCEPT !.calls = @ + 1] \in Calls
  BY <1>1 DEF Calls
<1>4. [presets[m] EXCEPT !.start = FALSE] \in Calls
  BY <1>1 DEF Calls
<1>5. presets[m].calls > 0 => [presets[m] EXCEPT !.calls = @ - 1] \in Calls
  BY <1>1 DEF Calls
<1>6. ASSUME CallPresetSync(m)
      PROVE  presets' \in [Machines -> Calls]
  <2>1. \/ presets' = presets
        \/ presets' = [presets EXCEPT ![m] = [presets[m] EXCEPT !.calls = @ + 1]]
    BY <1>6 DEF CallPresetSync
  <2> QED
    BY <1>3, <2>1
<1>7. ASSUME presets' = [presets EXCEPT ![m].start = FALSE]
      PROVE  presets' \in [Machines -> Calls]
  BY <1>4, <1>7
<1>8. ASSUME presets[m].calls > 0, presets' = [presets EXCEPT ![m].calls = @ - 1]
      PROVE  presets' \in [Machines -> Calls]
  BY <1>5, <1>8
<1> QED
  BY <1>2, <1>6, <1>7, <1>8

(***************************************************************************)
(* A save of the timestamp.                                                *)
(***************************************************************************)
LEMMA SaveTyped ==
  ASSUME TypeOK, NEW m \in Machines, NEW t \in Nat, SaveStamp(m, t)
  PROVE  /\ lastSynced' \in [Machines -> Nat] /\ stored' \in [Machines -> Nat]
         /\ lastSynced'[m] = t /\ stored'[m] \in {t, stored[m], 0}
         /\ \A n \in Machines : n # m => /\ lastSynced'[n] = lastSynced[n]
                                         /\ stored'[n] = stored[n]
<1>1. lastSynced \in [Machines -> Nat] /\ stored \in [Machines -> Nat]
  BY DEF TypeOK
<1>2. lastSynced' = [lastSynced EXCEPT ![m] = t]
  BY DEF SaveStamp
<1>3. \/ stored' = [stored EXCEPT ![m] = t]
      \/ stored' = stored
      \/ stored' = [stored EXCEPT ![m] = 0]
  BY DEF SaveStamp
<1> QED
  BY <1>1, <1>2, <1>3

(***************************************************************************)
(* Every step of an agent, of its user and of Lightroom keeps the types;   *)
(* for the job of a decided sync it must be known that it has a manifest.  *)
(***************************************************************************)
LEMMA TypeStep ==
  ASSUME TypeOK, NEW m \in Machines, OneSync(m),
         AgentStep(m) \/ UserStep(m) \/ Restart(m)
  PROVE  TypeOK'
<1>1. ASSUME LightroomStart(m)
      PROVE  TypeOK'
  <2>1. lr' \in [Machines -> BOOLEAN]
    BY <1>1 DEF LightroomStart, TypeOK
  <2>2. touched' \in [Dirs -> BOOLEAN]
    BY <1>1, ConstantsTyped DEF LightroomStart, TypeOK
  <2> QED
    BY <1>1, <2>1, <2>2 DEF LightroomStart, TypeOK, JobsOK
<1>2. ASSUME NEW z \in Zips, LightroomBackup(m, z)
      PROVE  TypeOK'
  <2>1. maker' \in [Zips -> Machines \cup {NoZip}]
    BY <1>2 DEF LightroomBackup, TypeOK
  <2>2. shelf' \in Seq(Zips)
    BY <1>2 DEF LightroomBackup, TypeOK
  <2>3. corrupt' \in SUBSET Zips
    BY <1>2 DEF LightroomBackup, TypeOK
  <2>4. catalog' \in [Dirs -> Contents \cup {Wiped, Partial}]
    BY <1>2, ConstantsTyped DEF LightroomBackup, TypeOK, Contents
  <2>5. lastGood' \in [Dirs -> Contents]
    BY <1>2, ConstantsTyped DEF LightroomBackup, TypeOK, Contents
  <2> QED
    BY <1>2, <2>1, <2>2, <2>3, <2>4, <2>5 DEF LightroomBackup, TypeOK, JobsOK
<1>3. ASSUME LightroomExit(m)
      PROVE  TypeOK'
  <2>1. lr' \in [Machines -> BOOLEAN]
    BY <1>3 DEF LightroomExit, TypeOK
  <2> QED
    BY <1>3, <2>1 DEF LightroomExit, TypeOK, JobsOK
<1>4. ASSUME ProbeLightroom(m)
      PROVE  TypeOK'
  <2>1. lrSeen' \in [Machines -> BOOLEAN]
    BY <1>4 DEF ProbeLightroom, TypeOK
  <2>2. stopEvt' \in [Machines -> BOOLEAN]
    BY <1>4 DEF ProbeLightroom, TypeOK
  <2>3. presets' \in [Machines -> Calls]
    BY <1>4, PresetsTyped DEF ProbeLightroom, TypeOK, Calls
  <2> QED
    BY <1>4, <2>1, <2>2, <2>3 DEF ProbeLightroom, TypeOK, JobsOK, Calls
<1>5. ASSUME ScanBackups(m)
      PROVE  TypeOK'
  <2>1. seen' \in [Machines -> {<<>>} \cup {<<z>> : z \in Zips \cup {NoZip}}]
    BY <1>5, ShelfTyped DEF ScanBackups, TypeOK
  <2>2. detected' \in [Machines -> SUBSET Zips]
    BY <1>5, ShelfTyped DEF ScanBackups, TypeOK
  <2> QED
    BY <1>5, <2>1, <2>2 DEF ScanBackups, TypeOK, JobsOK
<1>6. ASSUME NEW z \in Zips, OnLocalBackupCreated(m, z)
      PROVE  TypeOK'
  <2>1. clock' \in Nat
    BY <1>6 DEF OnLocalBackupCreated, TypeOK
  <2>2. manifest' \in [Dirs -> MaybeManifest]
    BY <1>6, ConstantsTyped DEF OnLocalBackupCreated, TypeOK, Manifests, MaybeManifest
  <2>3. detected' \in [Machines -> SUBSET Zips]
    BY <1>6 DEF OnLocalBackupCreated, TypeOK
  <2> QED
    BY <1>6, <2>1, <2>2, <2>3 DEF OnLocalBackupCreated, TypeOK, JobsOK
<1>7. ASSUME NEW z \in Zips, PublishFails(m, z)
      PROVE  TypeOK'
  <2>1. detected' \in [Machines -> SUBSET Zips]
    BY <1>7 DEF PublishFails, TypeOK
  <2> QED
    BY <1>7, <2>1 DEF PublishFails, TypeOK, JobsOK
<1>8. ASSUME CheckStartupManifest(m)
      PROVE  TypeOK'
  <2>1. check' \in [Machines -> {"due", "decided", "pend", "done"}]
    <3>1. \E s \in {"decided", "done"} : check' = [check EXCEPT ![m] = s]
      BY <1>8 DEF CheckStartupManifest
    <3> QED
      BY <3>1 DEF TypeOK
  <2>2. cand' \in [Machines -> MaybeManifest]
    <3>1. \/ UNCHANGED cand
          \/ cand' = [cand EXCEPT ![m] = manifest[ManifestDir[m]]]
      BY <1>8 DEF CheckStartupManifest
    <3>2. manifest[ManifestDir[m]] \in MaybeManifest
      BY ConstantsTyped DEF TypeOK
    <3> QED
      BY <3>1, <3>2 DEF TypeOK
  <2> QED
    BY <1>8, <2>1, <2>2 DEF CheckStartupManifest, TypeOK, JobsOK
<1>9. ASSUME StartupReadFails(m)
      PROVE  TypeOK'
  <2>1. check' \in [Machines -> {"due", "decided", "pend", "done"}]
    BY <1>9 DEF StartupReadFails, TypeOK
  <2> QED
    BY <1>9, <2>1 DEF StartupReadFails, TypeOK, JobsOK
<1>10. ASSUME QueueOrPend(m)
      PROVE  TypeOK'
  <2>1. check' \in [Machines -> {"due", "decided", "pend", "done"}]
    <3>1. \E s \in {"pend", "done"} : check' = [check EXCEPT ![m] = s]
      BY <1>10 DEF QueueOrPend
    <3> QED
      BY <3>1 DEF TypeOK
  <2>2. pending' \in [Machines -> MaybeManifest]
    BY <1>10 DEF QueueOrPend, TypeOK, MaybeManifest
  <2>3. JobsOK'
    <3>1. cand[m] \in Manifests
      BY <1>10 DEF QueueOrPend, OneSync, Decided, TypeOK, MaybeManifest
    <3>2. /\ UNCHANGED step
          /\ UNCHANGED jobs \/ Enqueue(m, NetworkJob(cand[m]))
      BY <1>10 DEF QueueOrPend
    <3> QED
      BY <3>1, <3>2, JobsTyped, EnqueueKeepsTyped DEF TypeOK, JobsOK
  <2> QED
    BY <1>10, <2>1, <2>2, <2>3 DEF QueueOrPend, TypeOK, JobsOK
<1>11. ASSUME PendManifest(m)
      PROVE  TypeOK'
  <2>1. pending' \in [Machines -> MaybeManifest]
    BY <1>11 DEF PendManifest, TypeOK
  <2>2. check' \in [Machines -> {"due", "decided", "pend", "done"}]
    BY <1>11 DEF PendManifest, TypeOK
  <2> QED
    BY <1>11, <2>1, <2>2 DEF PendManifest, TypeOK, JobsOK
<1>12. ASSUME RunPendingIfAny(m)
      PROVE  TypeOK'
  <2>1. stopEvt' \in [Machines -> BOOLEAN]
    BY <1>12 DEF RunPendingIfAny, TypeOK
  <2>2. pending' \in [Machines -> MaybeManifest]
    BY <1>12 DEF RunPendingIfAny, TypeOK, MaybeManifest
  <2>3. JobsOK'
    <3>1. /\ UNCHANGED step
          /\ \/ UNCHANGED jobs
             \/ pending[m] # NoManifest /\ Enqueue(m, NetworkJob(pending[m]))
      BY <1>12 DEF RunPendingIfAny
    <3>2. pending[m] # NoManifest => pending[m] \in Manifests
      BY DEF TypeOK, MaybeManifest
    <3> QED
      BY <3>1, <3>2, JobsTyped, EnqueueKeepsTyped DEF TypeOK, JobsOK
  <2> QED
    BY <1>12, <2>1, <2>2, <2>3 DEF RunPendingIfAny, TypeOK, JobsOK
<1>13. ASSUME StartJob(m)
      PROVE  TypeOK'
  <2>1. touched' \in [Dirs -> BOOLEAN]
    BY <1>13, ConstantsTyped DEF StartJob, TypeOK
  <2>2. JobsOK'
    <3>1. /\ jobs[m] # <<>> /\ jobs \in [Machines -> Seq(Jobs)]
          /\ step' \in [Machines -> Steps]
          /\ \A n \in Machines : n # m => step'[n] = step[n]
      BY <1>13 DEF StartJob, TypeOK, JobsOK, Steps
    <3>2. CASE UNCHANGED jobs
      BY <3>1, <3>2 DEF JobsOK, TypeOK
    <3>3. CASE jobs' = [jobs EXCEPT ![m][1].zip = Newest]
      BY <3>1, <3>3, RelistTyped DEF JobsOK, TypeOK
    <3> QED
      BY <1>13, <3>2, <3>3 DEF StartJob
  <2> QED
    BY <1>13, <2>1, <2>2 DEF StartJob, TypeOK, JobsOK
<1>14. ASSUME Validate(m)
      PROVE  TypeOK'
  <2>1. JobsOK'
    <3>1. JobsOK /\ step[m] # "idle"
      BY <1>14 DEF Validate, TypeOK
    <3>2. GoTo(m, "presync") \/ GoTo(m, "clean") \/ JobEnds(m)
      BY <1>14 DEF Validate
    <3> QED
      BY <3>1, <3>2, GoToTyped, JobEndsTyped DEF Steps
  <2> QED
    BY <1>14, <2>1 DEF Validate, TypeOK, JobsOK
<1>15. ASSUME CreatePreSyncBackup(m)
      PROVE  TypeOK'
  <2>1. presync' \in [Dirs -> Seq(Contents \cup {Partial})]
    <3> DEFINE d == CatalogDir[m]
    <3>1. CASE UNCHANGED presync
      BY <3>1 DEF TypeOK
    <3>2. ASSUME catalog[d] # Wiped, NEW c \in {Partial, catalog[d]}
          PROVE  Append(presync[d], c) \in Seq(Contents \cup {Partial})
      <4>1. c \in Contents \cup {Partial} /\ presync[d] \in Seq(Contents \cup {Partial})
        BY <3>2, ConstantsTyped DEF TypeOK
      <4> QED
        BY <4>1, AppendProperties
    <3>3. CASE catalog[d] # Wiped
      <4>1. Append(presync[d], catalog[d]) \in Seq(Contents \cup {Partial})
        BY <3>2, <3>3
      <4>2. KeepNewest(Append(presync[d], catalog[d]), MaxBackups)
              \in Seq(Contents \cup {Partial})
        BY <4>1, ConstantsTyped, KeepNewestTyped
      <4> QED
        BY <1>15, <3>3, <4>2 DEF CreatePreSyncBackup, TypeOK
    <3> QED
      BY <1>15, <3>1, <3>3 DEF CreatePreSyncBackup
  <2>2. tries' \in [Dirs -> Nat]
    <3>1. \/ UNCHANGED tries
          \/ tries' = [tries EXCEPT ![CatalogDir[m]] = @]
          \/ tries' = [tries EXCEPT ![CatalogDir[m]] = @ + 1]
      BY <1>15 DEF CreatePreSyncBackup
    <3>2. CatalogDir[m] \in Dirs /\ tries \in [Dirs -> Nat]
      BY ConstantsTyped DEF TypeOK
    <3> QED
      BY <3>1, <3>2
  <2>3. JobsOK'
    <3>1. JobsOK /\ step[m] # "idle"
      BY <1>15 DEF CreatePreSyncBackup, TypeOK
    <3>2. GoTo(m, "retain")
      BY <1>15 DEF CreatePreSyncBackup
    <3> QED
      BY <3>1, <3>2, GoToTyped, JobEndsTyped DEF Steps
  <2> QED
    BY <1>15, <2>1, <2>2, <2>3 DEF CreatePreSyncBackup, TypeOK, JobsOK
<1>16. ASSUME PreSyncFails(m)
      PROVE  TypeOK'
  <2>1. presync' \in [Dirs -> Seq(Contents \cup {Partial})]
    <3> DEFINE d == CatalogDir[m]
    <3>1. CASE UNCHANGED presync
      BY <3>1 DEF TypeOK
    <3>2. ASSUME catalog[d] # Wiped, NEW c \in {Partial, catalog[d]}
          PROVE  Append(presync[d], c) \in Seq(Contents \cup {Partial})
      <4>1. c \in Contents \cup {Partial} /\ presync[d] \in Seq(Contents \cup {Partial})
        BY <3>2, ConstantsTyped DEF TypeOK
      <4> QED
        BY <4>1, AppendProperties
    <3>3. ASSUME catalog[d] # Wiped, NEW c \in {Partial, catalog[d]},
                 presync' = [presync EXCEPT ![d] = Append(@, c)]
          PROVE  presync' \in [Dirs -> Seq(Contents \cup {Partial})]
      BY <3>2, <3>3 DEF TypeOK
    <3> QED
      BY <1>16, <3>1, <3>3 DEF PreSyncFails
  <2>2. tries' \in [Dirs -> Nat]
    <3>1. \/ UNCHANGED tries
          \/ tries' = [tries EXCEPT ![CatalogDir[m]] = @]
          \/ tries' = [tries EXCEPT ![CatalogDir[m]] = @ + 1]
      BY <1>16 DEF PreSyncFails
    <3>2. CatalogDir[m] \in Dirs /\ tries \in [Dirs -> Nat]
      BY ConstantsTyped DEF TypeOK
    <3> QED
      BY <3>1, <3>2
  <2>3. JobsOK'
    <3>1. JobsOK /\ step[m] # "idle"
      BY <1>16 DEF PreSyncFails, TypeOK
    <3>2. JobEnds(m)
      BY <1>16 DEF PreSyncFails
    <3> QED
      BY <3>1, <3>2, GoToTyped, JobEndsTyped DEF Steps
  <2> QED
    BY <1>16, <2>1, <2>2, <2>3 DEF PreSyncFails, TypeOK, JobsOK
<1>17. ASSUME CleanupZipRetention(m)
      PROVE  TypeOK'
  <2>1. shelf' \in Seq(Zips)
    <3>1. shelf \in Seq(Zips) /\ KeepNewest(shelf, MaxBackups) \in Seq(Zips)
      BY ConstantsTyped, KeepNewestTyped DEF TypeOK
    <3> QED
      BY <1>17, <3>1 DEF CleanupZipRetention
  <2>2. JobsOK'
    <3>1. JobsOK /\ step[m] # "idle"
      BY <1>17 DEF CleanupZipRetention, TypeOK
    <3>2. GoTo(m, "revalidate")
      BY <1>17 DEF CleanupZipRetention
    <3> QED
      BY <3>1, <3>2, GoToTyped, JobEndsTyped DEF Steps
  <2> QED
    BY <1>17, <2>1, <2>2 DEF CleanupZipRetention, TypeOK, JobsOK
<1>18. ASSUME CleanupCatalogArtifacts(m)
      PROVE  TypeOK'
  <2>1. catalog' \in [Dirs -> Contents \cup {Wiped, Partial}]
    BY <1>18, ConstantsTyped DEF CleanupCatalogArtifacts, TypeOK
  <2>2. JobsOK'
    <3>1. JobsOK /\ step[m] # "idle"
      BY <1>18 DEF CleanupCatalogArtifacts, TypeOK
    <3>2. GoTo(m, "extract") \/ JobEnds(m)
      BY <1>18 DEF CleanupCatalogArtifacts
    <3> QED
      BY <3>1, <3>2, GoToTyped, JobEndsTyped DEF Steps
  <2> QED
    BY <1>18, <2>1, <2>2 DEF CleanupCatalogArtifacts, TypeOK, JobsOK
<1>19. ASSUME ExtractZip(m)
      PROVE  TypeOK'
  <2>1. /\ catalog' \in [Dirs -> Contents \cup {Wiped, Partial}]
        /\ lastGood' \in [Dirs -> Contents]
    <3>1. Job(m).zip \in Zips
      BY <1>19, ShelfTyped DEF ExtractZip, Readable, TypeOK
    <3>2. Job(m).zip \in Contents
      BY <3>1 DEF Contents
    <3> QED
      BY <1>19, <3>2 DEF ExtractZip, TypeOK
  <2>2. tries' \in [Dirs -> Nat]
    BY <1>19, ConstantsTyped DEF ExtractZip, TypeOK
  <2>3. doneEvt' \in [Machines -> MaybeManifest]
    <3>1. Job(m).man \in MaybeManifest
      <4>1. JobsOK /\ jobs[m] # <<>>
        BY <1>19 DEF ExtractZip, TypeOK, JobsOK
      <4> QED
        BY <4>1, JobTyped DEF Jobs
    <3>2. \/ UNCHANGED doneEvt
          \/ doneEvt' = [doneEvt EXCEPT ![m] = Job(m).man]
      BY <1>19 DEF ExtractZip
    <3> QED
      BY <3>1, <3>2 DEF TypeOK
  <2>4. JobsOK'
    <3>1. JobsOK /\ step[m] # "idle"
      BY <1>19 DEF ExtractZip, TypeOK
    <3>2. JobEnds(m)
      BY <1>19 DEF ExtractZip
    <3> QED
      BY <3>1, <3>2, GoToTyped, JobEndsTyped DEF Steps
  <2> QED
    BY <1>19, <2>1, <2>2, <2>3, <2>4 DEF ExtractZip, TypeOK, JobsOK
<1>20. ASSUME ExtractFails(m)
      PROVE  TypeOK'
  <2>1. catalog' \in [Dirs -> Contents \cup {Wiped, Partial}]
    BY <1>20, ConstantsTyped DEF ExtractFails, TypeOK
  <2>2. JobsOK'
    <3>1. JobsOK /\ step[m] # "idle"
      BY <1>20 DEF ExtractFails, TypeOK
    <3>2. JobEnds(m)
      BY <1>20 DEF ExtractFails
    <3> QED
      BY <3>1, <3>2, GoToTyped, JobEndsTyped DEF Steps
  <2> QED
    BY <1>20, <2>1, <2>2 DEF ExtractFails, TypeOK, JobsOK
<1>21. ASSUME OnSyncCompleted(m)
      PROVE  TypeOK'
  <2>1. clock' \in Nat
    BY <1>21 DEF OnSyncCompleted, TypeOK
  <2>2. lastSynced' \in [Machines -> Nat] /\ stored' \in [Machines -> Nat]
    <3>1. SaveStamp(m, clock')
      BY <1>21 DEF OnSyncCompleted
    <3> QED
      BY <2>1, <3>1, SaveTyped
  <2>3. doneEvt' \in [Machines -> MaybeManifest]
    BY <1>21 DEF OnSyncCompleted, TypeOK, MaybeManifest
  <2>4. recorded' \in [Machines -> SUBSET Manifests]
    BY <1>21 DEF OnSyncCompleted, TypeOK, MaybeManifest
  <2>5. presets' \in [Machines -> Calls]
    BY <1>21, PresetsTyped DEF OnSyncCompleted, TypeOK, Calls
  <2> QED
    BY <1>21, <2>1, <2>2, <2>3, <2>4, <2>5 DEF OnSyncCompleted, TypeOK, JobsOK, Calls
<1>22. ASSUME ManualRestore(m)
      PROVE  TypeOK'
  <2>1. JobsOK'
    <3>1. \/ EnqueueOrReject(m, LatestJob)
          \/ \E z \in Zips : EnqueueOrReject(m, ChosenJob(z))
      BY <1>22 DEF ManualRestore
    <3>2. JobsOK /\ UNCHANGED step
      BY <1>22 DEF ManualRestore, TypeOK
    <3> QED
      BY <3>1, <3>2, JobsTyped, EnqueueOrRejectTyped
  <2> QED
    BY <1>22, <2>1 DEF ManualRestore, TypeOK, JobsOK
<1>23. ASSUME PauseOrResume(m)
      PROVE  TypeOK'
  <2>1. paused' \in [Machines -> BOOLEAN]
    BY <1>23 DEF PauseOrResume, TypeOK
  <2>2. answered' \in [Machines -> BOOLEAN]
    BY <1>23, Zenon DEF PauseOrResume, TypeOK
  <2> QED
    BY <1>23, <2>1, <2>2 DEF PauseOrResume, TypeOK, JobsOK
<1>24. ASSUME OnboardSave(m)
      PROVE  TypeOK'
  <2>1. ui' \in [Machines -> {"none", "ask", "pull", "push", "sync"}]
    BY <1>24 DEF OnboardSave, TypeOK
  <2>2. clock' \in Nat
    BY <1>24 DEF OnboardSave, TypeOK
  <2>3. lastSynced' \in [Machines -> Nat] /\ stored' \in [Machines -> Nat]
    <3>1. SaveStamp(m, Epoch) \/ SaveStamp(m, clock')
      BY <1>24 DEF OnboardSave
    <3>2. Epoch \in Nat
      BY DEF Epoch
    <3> QED
      BY <2>2, <3>1, <3>2, SaveTyped
  <2>4. recorded' \in [Machines -> SUBSET Manifests]
    <3>1. recorded \in [Machines -> SUBSET Manifests]
      BY DEF TypeOK
    <3>2. Standing(m, Epoch) \in SUBSET Manifests
      BY <3>1 DEF Standing
    <3>3. \/ recorded' = [recorded EXCEPT ![m] = Standing(m, Epoch)]
          \/ recorded' = recorded
      BY <1>24 DEF OnboardSave
    <3> QED
      BY <3>1, <3>2, <3>3
  <2>5. answered' \in [Machines -> BOOLEAN]
    BY <1>24 DEF OnboardSave, TypeOK
  <2> QED
    BY <1>24, <2>1, <2>2, <2>3, <2>4, <2>5 DEF OnboardSave, TypeOK, JobsOK
<1>25. ASSUME OnboardResume(m)
      PROVE  TypeOK'
  <2>1. ui' \in [Machines -> {"none", "ask", "pull", "push", "sync"}]
    BY <1>25 DEF OnboardResume, TypeOK
  <2>2. paused' \in [Machines -> BOOLEAN]
    BY <1>25 DEF OnboardResume, TypeOK
  <2>3. answered' \in [Machines -> BOOLEAN]
    BY <1>25 DEF OnboardResume, TypeOK
  <2> QED
    BY <1>25, <2>1, <2>2, <2>3 DEF OnboardResume, TypeOK, JobsOK
<1>26. ASSUME OnboardSync(m)
      PROVE  TypeOK'
  <2>1. ui' \in [Machines -> {"none", "ask", "pull", "push", "sync"}]
    BY <1>26 DEF OnboardSync, TypeOK
  <2>2. JobsOK'
    <3>1. JobsOK /\ UNCHANGED step /\ EnqueueOrReject(m, LatestJob)
      BY <1>26 DEF OnboardSync, TypeOK
    <3> QED
      BY <3>1, JobsTyped, EnqueueOrRejectTyped
  <2> QED
    BY <1>26, <2>1, <2>2 DEF OnboardSync, TypeOK, JobsOK
<1>27. ASSUME Restart(m)
      PROVE  TypeOK'
  <2>1. lrSeen' \in [Machines -> BOOLEAN]
    BY <1>27 DEF Restart, TypeOK
  <2>2. stopEvt' \in [Machines -> BOOLEAN]
    BY <1>27 DEF Restart, TypeOK
  <2>3. check' \in [Machines -> {"due", "decided", "pend", "done"}]
    BY <1>27 DEF Restart, TypeOK
  <2>4. cand' \in [Machines -> MaybeManifest]
    BY <1>27 DEF Restart, TypeOK, MaybeManifest
  <2>5. seen' \in [Machines -> {<<>>} \cup {<<z>> : z \in Zips \cup {NoZip}}]
    BY <1>27 DEF Restart, TypeOK
  <2>6. detected' \in [Machines -> SUBSET Zips]
    BY <1>27 DEF Restart, TypeOK
  <2>7. pending' \in [Machines -> MaybeManifest]
    BY <1>27 DEF Restart, TypeOK, MaybeManifest
  <2>8. doneEvt' \in [Machines -> MaybeManifest]
    BY <1>27 DEF Restart, TypeOK, MaybeManifest
  <2>9. paused' \in [Machines -> BOOLEAN]
    BY <1>27 DEF Restart, TypeOK
  <2>10. catalog' \in [Dirs -> Contents \cup {Wiped, Partial}]
    BY <1>27, ConstantsTyped DEF Restart, TypeOK
  <2>11. presync' \in [Dirs -> Seq(Contents \cup {Partial})]
    <3>1. Append(presync[CatalogDir[m]], Partial) \in Seq(Contents \cup {Partial})
      BY ConstantsTyped, AppendProperties DEF TypeOK
    <3>2. \/ UNCHANGED presync
          \/ presync' = [presync EXCEPT ![CatalogDir[m]] = Append(@, Partial)]
      BY <1>27 DEF Restart
    <3> QED
      BY <3>1, <3>2 DEF TypeOK
  <2>12. tries' \in [Dirs -> Nat]
    BY <1>27, ConstantsTyped DEF Restart, TypeOK
  <2>13. JobsOK'
    <3>1. jobs' = [jobs EXCEPT ![m] = <<>>] /\ step' = [step EXCEPT ![m] = "idle"]
      BY <1>27 DEF Restart
    <3> QED
      BY <3>1 DEF TypeOK, JobsOK, Steps
  <2>14. lastSynced' \in [Machines -> Nat]
    BY <1>27 DEF Restart, TypeOK
  <2>15. recorded' \in [Machines -> SUBSET Manifests]
    BY <1>27 DEF Restart, Standing, TypeOK
  <2>16. copied' \in [Machines -> Seq(Nat)]
    BY <1>27 DEF Restart, TypeOK
  <2>17. presets' \in [Machines -> Calls]
    BY <1>27, PresetsTyped DEF Restart, TypeOK, Calls
  <2> QED
    BY <1>27, <2>1, <2>2, <2>3, <2>4, <2>5, <2>6, <2>7, <2>8, <2>9, <2>10,
      <2>11, <2>12, <2>13, <2>14, <2>15, <2>16, <2>17
    DEF Restart, TypeOK, JobsOK, Calls
<1>28. ASSUME PresetSyncAtStart(m) \/ PresetSyncCalled(m)
      PROVE  TypeOK'
  <2>1. presets' \in [Machines -> Calls]
    BY <1>28, PresetsTyped DEF PresetSyncAtStart, PresetSyncCalled, TypeOK, Calls
  <2>2. JobsOK'
    <3>1. /\ JobsOK /\ UNCHANGED step
          /\ UNCHANGED jobs \/ EnqueueOrReject(m, PresetJob)
      BY <1>28 DEF PresetSyncAtStart, PresetSyncCalled, TypeOK
    <3>2. CASE UNCHANGED jobs
      BY <3>1, <3>2 DEF JobsOK
    <3> QED
      BY <3>1, <3>2, JobsTyped, EnqueueOrRejectTyped
  <2> QED
    BY <1>28, <2>1, <2>2
    DEF PresetSyncAtStart, PresetSyncCalled, TypeOK, JobsOK, Calls
<1>29. ASSUME StartPresetJob(m) \/ PresetJobEnds(m)
      PROVE  TypeOK'
  <2>1. JobsOK'
    <3>1. CASE StartPresetJob(m)
      BY <3>1 DEF StartPresetJob, GoTo, TypeOK, JobsOK, Steps
    <3>2. CASE PresetJobEnds(m)
      <4>1. JobsOK /\ step[m] # "idle" /\ JobEnds(m)
        BY <3>2 DEF PresetJobEnds, TypeOK
      <4> QED
        BY <4>1, JobEndsTyped
    <3> QED
      BY <1>29, <3>1, <3>2
  <2> QED
    BY <1>29, <2>1 DEF StartPresetJob, PresetJobEnds, TypeOK, JobsOK
<1>30. ASSUME CopyConfig(m)
      PROVE  TypeOK'
  <2>1. copied' \in [Machines -> Seq(Nat)]
    <3>1. <<lastSynced[m]>> \in Seq(Nat)
      BY DEF TypeOK
    <3> QED
      BY <1>30, <3>1 DEF CopyConfig, TypeOK
  <2> QED
    BY <1>30, <2>1 DEF CopyConfig, TypeOK, JobsOK
<1>31. ASSUME UpdateConfig(m)
      PROVE  TypeOK'
  <2>1. copied[m][1] \in Nat
    <3>1. copied[m] \in Seq(Nat) /\ copied[m] # <<>>
      BY <1>31 DEF UpdateConfig, TypeOK
    <3> QED
      BY <3>1, EmptySeq, ElementOfSeq
  <2>2. lastSynced' \in [Machines -> Nat] /\ stored' \in [Machines -> Nat]
    <3>1. SaveStamp(m, copied[m][1])
      BY <1>31 DEF UpdateConfig
    <3> QED
      BY <2>1, <3>1, SaveTyped
  <2>3. recorded' \in [Machines -> SUBSET Manifests]
    BY <1>31 DEF UpdateConfig, Standing, TypeOK
  <2>4. copied' \in [Machines -> Seq(Nat)]
    BY <1>31 DEF UpdateConfig, TypeOK
  <2> QED
    BY <1>31, <2>2, <2>3, <2>4 DEF UpdateConfig, TypeOK, JobsOK
<1>32. ASSUME OnboardAsk(m) \/ OnboardHidden(m) \/ OnboardCallFails(m)
      PROVE  TypeOK'
  <2>1. ui' \in [Machines -> {"none", "ask", "pull", "push", "sync"}]
    <3>1. \E u \in {"none", "ask", "pull", "push", "sync"} :
             ui' = [ui EXCEPT ![m] = u]
      BY <1>32 DEF OnboardAsk, OnboardHidden, OnboardCallFails
    <3> QED
      BY <3>1 DEF TypeOK
  <2> QED
    BY <1>32, <2>1 DEF OnboardAsk, OnboardHidden, OnboardCallFails, TypeOK, JobsOK
<1> QED
  BY <1>1, <1>2, <1>3, <1>4, <1>5, <1>6, <1>7, <1>8, <1>9, <1>10, <1>11,
    <1>12, <1>13, <1>14, <1>15, <1>16, <1>17, <1>18, <1>19, <1>20, <1>21,
    <1>22, <1>23, <1>24, <1>25, <1>26, <1>27, <1>28, <1>29, <1>30, <1>31,
    <1>32
  DEF AgentStep, UserStep

(***************************************************************************)
(* What the invariant says of n apart from its queue is unchanged.         *)
(***************************************************************************)
Same(n) == /\ check'[n] = check[n] /\ cand'[n] = cand[n]
           /\ pending'[n] = pending[n] /\ doneEvt'[n] = doneEvt[n]
           /\ recorded'[n] = recorded[n] /\ lastSynced'[n] = lastSynced[n]
           /\ stored'[n] = stored[n] /\ copied'[n] = copied[n]

(* Every job of n is a manual one, or one n had s places further back.     *)
Follows(n, s) ==
    \A i \in DOMAIN jobs'[n] :
        \/ jobs'[n][i].kind # "network" /\ jobs'[n][i].man = NoManifest
        \/ /\ i + s \in DOMAIN jobs[n]
           /\ jobs'[n][i].kind = jobs[n][i + s].kind
           /\ jobs'[n][i].man = jobs[n][i + s].man

MachineInv(n) == OneSync(n) /\ OnceRecorded(n) /\ Stamped(n)

(***************************************************************************)
(* A stamp of the past stays one.                                          *)
(***************************************************************************)
LEMMA PastStays ==
  ASSUME clock \in Nat, clock' \in Nat, clock' >= clock,
         NEW man \in MaybeManifest, Past(man)
  PROVE  man # NoManifest => man.time <= clock'
<1> SUFFICES ASSUME man # NoManifest
             PROVE  man.time <= clock'
  OBVIOUS
<1>1. man.time \in Nat
  BY DEF MaybeManifest, Manifests
<1>2. man.time <= clock
  BY DEF Past
<1> QED
  BY <1>1, <1>2

(***************************************************************************)
(* A machine whose queue only loses its first job or gains a manual one    *)
(* keeps the invariant; so does one that does nothing.                     *)
(***************************************************************************)
LEMMA FollowsKeeps ==
  ASSUME TypeOK, TypeOK', clock' >= clock, NEW n \in Machines,
         MachineInv(n), Same(n), NEW s \in {0, 1}, Follows(n, s)
  PROVE  MachineInv(n)'
<1>1. \A i \in Syncs(n)' : i \in Nat /\ i + s \in Syncs(n)
  <2>1. DOMAIN jobs'[n] \subseteq Nat
    BY DEF TypeOK, JobsOK
  <2> QED
    BY <2>1 DEF Syncs, Follows
<1>2. Syncs(n) = {} => Syncs(n)' = {}
  BY <1>1
<1>3. \A i, k \in Syncs(n)' : i = k
  <2> SUFFICES ASSUME NEW i \in Syncs(n)', NEW k \in Syncs(n)'
               PROVE  i = k
    OBVIOUS
  <2>1. i + s = k + s
    BY <1>1 DEF MachineInv, OneSync
  <2> QED
    BY <1>1, <2>1
<1>4. \A i \in DOMAIN jobs'[n] \ Syncs(n)' : jobs'[n][i].man = NoManifest
  BY DEF MachineInv, OneSync, Syncs, Follows
<1>5. OneSync(n)'
  BY <1>2, <1>3, <1>4 DEF MachineInv, OneSync, Same, Decided
<1>6. OnceRecorded(n)'
  <2>1. \A i \in DOMAIN jobs'[n] : jobs'[n][i].man \notin recorded'[n]
    BY DEF MachineInv, OnceRecorded, Same, Follows
  <2>2. \A man \in recorded'[n] : AlreadySynced(n, man)'
    BY DEF MachineInv, OnceRecorded, Same, AlreadySynced, Covers
  <2> QED
    BY <2>1, <2>2 DEF MachineInv, OnceRecorded, Same, Decided
<1>7. Stamped(n)'
  <2>1. /\ lastSynced'[n] <= clock' /\ stored'[n] <= clock'
        /\ copied'[n] # <<>> => copied'[n][1] <= clock'
    <3>1. /\ lastSynced[n] <= clock /\ stored[n] <= clock
          /\ copied[n] # <<>> => copied[n][1] <= clock
      BY DEF MachineInv, Stamped
    <3>2. /\ {clock, clock', lastSynced[n], stored[n]} \subseteq Nat
          /\ copied[n] # <<>> => copied[n][1] \in Nat
      <4>1. copied[n] \in Seq(Nat)
        BY DEF TypeOK
      <4>2. copied[n] # <<>> => copied[n][1] \in Nat
        BY <4>1, EmptySeq, ElementOfSeq
      <4> QED
        BY <4>2 DEF TypeOK
    <3> QED
      BY <3>1, <3>2 DEF Same
  <2>2. Past(cand[n])' /\ Past(pending[n])' /\ Past(doneEvt[n])'
    <3>1. {cand[n], pending[n], doneEvt[n]} \subseteq MaybeManifest
      BY DEF TypeOK
    <3> QED
      BY <3>1, PastStays DEF MachineInv, Stamped, Same, TypeOK, Past
  <2>3. \A i \in DOMAIN jobs'[n] : Past(jobs[n][i].man)'
    <3> SUFFICES ASSUME NEW i \in DOMAIN jobs'[n]
                 PROVE  Past(jobs[n][i].man)'
      OBVIOUS
    <3>1. CASE jobs'[n][i].man = NoManifest
      BY <3>1 DEF Past
    <3>2. ASSUME i + s \in DOMAIN jobs[n],
                 jobs'[n][i].man = jobs[n][i + s].man
          PROVE  Past(jobs[n][i].man)'
      <4>1. jobs[n][i + s] \in Jobs
        BY <3>2, ElementOfSeq DEF TypeOK, JobsOK
      <4>2. jobs[n][i + s].man \in MaybeManifest
        BY <4>1 DEF Jobs
      <4>3. Past(jobs[n][i + s].man)
        BY <3>2 DEF MachineInv, Stamped
      <4> QED
        BY <3>2, <4>2, <4>3, PastStays DEF TypeOK, Past
    <3> QED
      BY <3>1, <3>2 DEF Follows
  <2> QED
    BY <2>1, <2>2, <2>3 DEF Stamped
<1> QED
  BY <1>5, <1>6, <1>7 DEF MachineInv

(***************************************************************************)
(* An unchanged queue follows.                                             *)
(***************************************************************************)
LEMMA SameFollows ==
  ASSUME JobsOK, NEW n \in Machines, jobs'[n] = jobs[n]
  PROVE  Follows(n, 0)
<1>1. \A i \in DOMAIN jobs[n] : i + 0 = i
  BY DEF JobsOK
<1> QED
  BY <1>1 DEF Follows

(***************************************************************************)
(* So does the queue without its first job.                                *)
(***************************************************************************)
LEMMA TailFollows ==
  ASSUME JobsOK, NEW n \in Machines, step[n] # "idle", JobEnds(n)
  PROVE  Follows(n, 1)
<1>1. jobs[n] \in Seq(Jobs) /\ jobs[n] # <<>> /\ jobs'[n] = Tail(jobs[n])
  BY DEF JobsOK, JobEnds
<1>2. /\ DOMAIN jobs'[n] = 1..(Len(jobs[n]) - 1)
      /\ DOMAIN jobs[n] = 1..Len(jobs[n])
      /\ \A i \in DOMAIN jobs'[n] : jobs'[n][i] = jobs[n][i + 1]
  BY <1>1, HeadTailProperties, LenProperties
<1>3. \A i \in DOMAIN jobs'[n] : i + 1 \in DOMAIN jobs[n]
  BY <1>1, <1>2, LenProperties
<1> QED
  BY <1>2, <1>3 DEF Follows

(***************************************************************************)
(* So does the queue with one manual job more.                             *)
(***************************************************************************)
LEMMA ManualFollows ==
  ASSUME JobsOK, NEW n \in Machines, NEW job \in Jobs,
         job.kind # "network", job.man = NoManifest, EnqueueOrReject(n, job)
  PROVE  Follows(n, 0)
<1>1. CASE jobs'[n] = jobs[n]
  BY <1>1, SameFollows
<1>2. CASE jobs'[n] = Append(jobs[n], job)
  <2>1. /\ jobs[n] \in Seq(Jobs) /\ DOMAIN jobs[n] = 1..Len(jobs[n])
        /\ Len(jobs[n]) \in Nat
    BY LenProperties DEF JobsOK
  <2>2. /\ DOMAIN jobs'[n] = 1..(Len(jobs[n]) + 1)
        /\ \A i \in 1..Len(jobs[n]) : jobs'[n][i] = jobs[n][i]
        /\ jobs'[n][Len(jobs[n]) + 1] = job
    BY <1>2, <2>1, AppendProperties, LenProperties
  <2>3. ASSUME NEW i \in DOMAIN jobs'[n]
        PROVE  \/ jobs'[n][i] = job
               \/ i + 0 \in DOMAIN jobs[n] /\ jobs'[n][i] = jobs[n][i + 0]
    BY <2>1, <2>2, <2>3
  <2> QED
    BY <2>3 DEF Follows
<1> QED
  BY <1>1, <1>2 DEF EnqueueOrReject, Enqueue, JobsOK

(***************************************************************************)
(* So does the queue whose first job has got its zip.                      *)
(***************************************************************************)
LEMMA RelistFollows ==
  ASSUME TypeOK, NEW n \in Machines, jobs[n] # <<>>,
         jobs' = [jobs EXCEPT ![n][1].zip = Newest]
  PROVE  Follows(n, 0)
<1> DEFINE job == [jobs[n][1] EXCEPT !.zip = Newest]
<1>1. /\ jobs[n] \in Seq(Jobs) /\ DOMAIN jobs[n] = 1..Len(jobs[n])
      /\ 1 \in DOMAIN jobs[n] /\ jobs[n][1] \in Jobs
  BY EmptySeq, LenProperties, ElementOfSeq DEF TypeOK, JobsOK
<1>2. job.kind = jobs[n][1].kind /\ job.man = jobs[n][1].man
  BY <1>1 DEF Jobs
<1>3. jobs'[n] = [jobs[n] EXCEPT ![1] = job]
  BY DEF TypeOK, JobsOK
<1>4. /\ DOMAIN jobs'[n] = DOMAIN jobs[n]
      /\ \A i \in DOMAIN jobs[n] :
            jobs'[n][i] = IF i = 1 THEN job ELSE jobs[n][i]
  BY <1>1, <1>3
<1>5. \A i \in DOMAIN jobs[n] : i + 0 = i
  BY <1>1
<1> QED
  BY <1>2, <1>4, <1>5 DEF Follows

(***************************************************************************)
(* A step of one machine leaves the others' memory and records alone.      *)
(***************************************************************************)
LEMMA OthersStay ==
  ASSUME TypeOK, NEW m \in Machines, NEW n \in Machines, n # m,
         AgentStep(m) \/ UserStep(m) \/ Restart(m)
  PROVE  Same(n) /\ jobs'[n] = jobs[n]
<1> USE DEF TypeOK, JobsOK, Same
<1>1. ASSUME \/ LightroomStart(m) \/ LightroomExit(m) \/ ProbeLightroom(m)
             \/ \E z \in Zips : \/ LightroomBackup(m, z)
                                \/ OnLocalBackupCreated(m, z)
                                \/ PublishFails(m, z)
             \/ ScanBackups(m) \/ PauseOrResume(m) \/ OnboardResume(m)
      PROVE  Same(n) /\ jobs'[n] = jobs[n]
  BY <1>1 DEF LightroomStart, LightroomExit, ProbeLightroom, LightroomBackup,
    OnLocalBackupCreated, PublishFails, ScanBackups, PauseOrResume,
    OnboardResume
<1>2. ASSUME \/ Validate(m) \/ CreatePreSyncBackup(m) \/ PreSyncFails(m)
             \/ CleanupZipRetention(m) \/ CleanupCatalogArtifacts(m)
             \/ ExtractFails(m)
      PROVE  Same(n) /\ jobs'[n] = jobs[n]
  BY <1>2 DEF Validate, CreatePreSyncBackup, PreSyncFails,
    CleanupZipRetention, CleanupCatalogArtifacts, ExtractFails, GoTo, JobEnds
<1>3. ASSUME ExtractZip(m)
      PROVE  Same(n) /\ jobs'[n] = jobs[n]
  BY <1>3 DEF ExtractZip, JobEnds
<1>4. ASSUME StartJob(m)
      PROVE  Same(n) /\ jobs'[n] = jobs[n]
  BY <1>4 DEF StartJob
<1>5. ASSUME ManualRestore(m) \/ OnboardSync(m)
      PROVE  Same(n) /\ jobs'[n] = jobs[n]
  BY <1>5 DEF ManualRestore, OnboardSync, EnqueueOrReject, Enqueue
<1>6. ASSUME \/ CheckStartupManifest(m) \/ StartupReadFails(m)
             \/ PendManifest(m)
      PROVE  Same(n) /\ jobs'[n] = jobs[n]
  BY <1>6 DEF CheckStartupManifest, StartupReadFails, PendManifest
<1>7. ASSUME QueueOrPend(m)
      PROVE  Same(n) /\ jobs'[n] = jobs[n]
  BY <1>7 DEF QueueOrPend, Enqueue
<1>8. ASSUME RunPendingIfAny(m)
      PROVE  Same(n) /\ jobs'[n] = jobs[n]
  BY <1>8 DEF RunPendingIfAny, Enqueue
<1>9. ASSUME OnSyncCompleted(m) \/ OnboardSave(m) \/ Restart(m)
      PROVE  Same(n) /\ jobs'[n] = jobs[n]
  BY <1>9 DEF OnSyncCompleted, OnboardSave, Restart, SaveStamp
<1>10. ASSUME \/ PresetSyncAtStart(m) \/ PresetSyncCalled(m)
              \/ StartPresetJob(m) \/ PresetJobEnds(m)
       PROVE  Same(n) /\ jobs'[n] = jobs[n]
  BY <1>10 DEF PresetSyncAtStart, PresetSyncCalled, StartPresetJob,
    PresetJobEnds, EnqueueOrReject, Enqueue, GoTo, JobEnds
<1>11. ASSUME \/ CopyConfig(m) \/ UpdateConfig(m) \/ OnboardAsk(m)
              \/ OnboardHidden(m) \/ OnboardCallFails(m)
       PROVE  Same(n) /\ jobs'[n] = jobs[n]
  BY <1>11 DEF CopyConfig, UpdateConfig, SaveStamp, OnboardAsk, OnboardHidden,
    OnboardCallFails
<1> QED
  BY <1>1, <1>2, <1>3, <1>4, <1>5, <1>6, <1>7, <1>8, <1>9, <1>10, <1>11
  DEF AgentStep, UserStep

(***************************************************************************)
(* The clock does not go back.                                             *)
(***************************************************************************)
LEMMA ClockAdvances ==
  ASSUME TypeOK, NEW m \in Machines,
         AgentStep(m) \/ UserStep(m) \/ Restart(m)
  PROVE  clock' >= clock
<1>1. clock \in Nat
  BY DEF TypeOK
<1>2. clock' = clock \/ clock' = clock + 1
  BY DEF AgentStep, UserStep, LightroomStart, LightroomExit, ProbeLightroom,
    LightroomBackup, OnLocalBackupCreated, PublishFails, ScanBackups,
    PauseOrResume, OnboardResume, Validate, CreatePreSyncBackup, PreSyncFails,
    CleanupZipRetention, CleanupCatalogArtifacts, ExtractFails, ExtractZip,
    StartJob, ManualRestore, OnboardSync, CheckStartupManifest,
    StartupReadFails, PendManifest, QueueOrPend, RunPendingIfAny,
    OnSyncCompleted, OnboardSave, Restart, PresetSyncAtStart,
    PresetSyncCalled, StartPresetJob, PresetJobEnds, CopyConfig, UpdateConfig,
    OnboardAsk, OnboardHidden, OnboardCallFails
<1> QED
  BY <1>1, <1>2

(***************************************************************************)
(* The steps of m whose effect on the invariant is only to leave or to     *)
(* shorten its queue, or to put a manual job in it.                        *)
(***************************************************************************)
LEMMA QuietSteps ==
  ASSUME TypeOK, NEW m \in Machines,
         \/ LightroomStart(m) \/ LightroomExit(m) \/ ProbeLightroom(m)
         \/ \E z \in Zips : \/ LightroomBackup(m, z)
                            \/ OnLocalBackupCreated(m, z)
                            \/ PublishFails(m, z)
         \/ ScanBackups(m) \/ PauseOrResume(m) \/ OnboardResume(m)
         \/ StartJob(m)
         \/ Validate(m) \/ CreatePreSyncBackup(m) \/ PreSyncFails(m)
         \/ CleanupZipRetention(m) \/ CleanupCatalogArtifacts(m)
         \/ ExtractFails(m)
         \/ ManualRestore(m) \/ OnboardSync(m)
         \/ PresetSyncAtStart(m) \/ PresetSyncCalled(m)
         \/ StartPresetJob(m) \/ PresetJobEnds(m)
         \/ OnboardAsk(m) \/ OnboardHidden(m) \/ OnboardCallFails(m)
  PROVE  Same(m) /\ \E s \in {0, 1} : Follows(m, s)
<1>0. JobsOK
  BY DEF TypeOK
<1>1. ASSUME \/ LightroomStart(m) \/ LightroomExit(m) \/ ProbeLightroom(m)
             \/ \E z \in Zips : \/ LightroomBackup(m, z)
                                \/ OnLocalBackupCreated(m, z)
                                \/ PublishFails(m, z)
             \/ ScanBackups(m) \/ PauseOrResume(m) \/ OnboardResume(m)
             \/ CreatePreSyncBackup(m) \/ CleanupZipRetention(m)
             \/ StartPresetJob(m) \/ OnboardAsk(m) \/ OnboardHidden(m)
             \/ OnboardCallFails(m)
      PROVE  Same(m) /\ Follows(m, 0)
  <2>1. Same(m) /\ jobs'[m] = jobs[m]
    BY <1>1 DEF LightroomStart, LightroomExit, ProbeLightroom,
      LightroomBackup, OnLocalBackupCreated, PublishFails, ScanBackups,
      PauseOrResume, OnboardResume, CreatePreSyncBackup, CleanupZipRetention,
      StartPresetJob, OnboardAsk, OnboardHidden, OnboardCallFails, GoTo, Same
  <2> QED
    BY <1>0, <2>1, SameFollows
<1>2. ASSUME \/ Validate(m) \/ PreSyncFails(m) \/ CleanupCatalogArtifacts(m)
             \/ ExtractFails(m) \/ PresetJobEnds(m)
      PROVE  Same(m) /\ (Follows(m, 0) \/ Follows(m, 1))
  <2>1. /\ Same(m) /\ step[m] # "idle"
        /\ jobs'[m] = jobs[m] \/ JobEnds(m)
    BY <1>2 DEF Validate, PreSyncFails, CleanupCatalogArtifacts, ExtractFails,
      PresetJobEnds, GoTo, Same
  <2> QED
    BY <1>0, <2>1, SameFollows, TailFollows
<1>3. ASSUME StartJob(m)
      PROVE  Same(m) /\ Follows(m, 0)
  <2>1. /\ Same(m) /\ jobs[m] # <<>>
        /\ \/ jobs'[m] = jobs[m]
           \/ jobs' = [jobs EXCEPT ![m][1].zip = Newest]
    BY <1>3 DEF StartJob, Same
  <2> QED
    BY <1>0, <2>1, SameFollows, RelistFollows
<1>4. ASSUME \/ ManualRestore(m) \/ OnboardSync(m) \/ PresetSyncAtStart(m)
             \/ PresetSyncCalled(m)
      PROVE  Same(m) /\ Follows(m, 0)
  <2>1. /\ Same(m)
        /\ \/ EnqueueOrReject(m, LatestJob)
           \/ \E z \in Zips : EnqueueOrReject(m, ChosenJob(z))
           \/ EnqueueOrReject(m, PresetJob)
           \/ jobs'[m] = jobs[m]
    BY <1>4 DEF ManualRestore, OnboardSync, PresetSyncAtStart,
      PresetSyncCalled, Same
  <2>2. /\ LatestJob.kind # "network" /\ LatestJob.man = NoManifest
        /\ PresetJob.kind # "network" /\ PresetJob.man = NoManifest
        /\ \A z \in Zips : /\ ChosenJob(z).kind # "network"
                           /\ ChosenJob(z).man = NoManifest
    BY DEF LatestJob, ChosenJob, PresetJob
  <2> QED
    BY <1>0, <2>1, <2>2, JobsTyped, ManualFollows, SameFollows
<1> QED
  BY <1>1, <1>2, <1>3, <1>4

(***************************************************************************)
(* A network job that joins a queue without one is the only one there.     *)
(***************************************************************************)
LEMMA NetworkEnqueued ==
  ASSUME JobsOK, NEW m \in Machines, Syncs(m) = {}, NEW man \in Manifests,
         Enqueue(m, NetworkJob(man))
  PROVE  /\ \A i, k \in Syncs(m)' : i = k
         /\ \A i \in DOMAIN jobs'[m] :
               \/ jobs'[m][i].man = man /\ i \in Syncs(m)'
               \/ /\ i \in DOMAIN jobs[m]
                  /\ jobs'[m][i].kind = jobs[m][i].kind
                  /\ jobs'[m][i].man = jobs[m][i].man
<1> DEFINE job == NetworkJob(man)
           n == Len(jobs[m])
<1>1. /\ jobs[m] \in Seq(Jobs) /\ DOMAIN jobs[m] = 1..n /\ n \in Nat
      /\ job \in Jobs /\ job.man = man /\ job.kind = "network"
  BY JobsTyped, LenProperties DEF JobsOK, NetworkJob
<1>2. jobs'[m] = Append(jobs[m], job)
  BY DEF Enqueue, JobsOK
<1> HIDE DEF job
<1>3. /\ DOMAIN jobs'[m] = 1..(n + 1)
      /\ \A i \in 1..n : jobs'[m][i] = jobs[m][i]
      /\ jobs'[m][n + 1] = job
  BY <1>1, <1>2, AppendProperties, LenProperties
<1>4. \A i \in DOMAIN jobs'[m] : i \in 1..n \/ i = n + 1
  BY <1>1, <1>3
<1>5. \A i \in Syncs(m)' : i = n + 1
  BY <1>1, <1>3, <1>4 DEF Syncs
<1>6. n + 1 \in Syncs(m)'
  BY <1>1, <1>3 DEF Syncs
<1> QED
  BY <1>1, <1>3, <1>4, <1>5, <1>6

(***************************************************************************)
(* The start-up check decides on no manifest already recorded: rule 2.     *)
(***************************************************************************)
LEMMA CheckKeeps ==
  ASSUME SyncInv, NEW m \in Machines,
         CheckStartupManifest(m) \/ StartupReadFails(m)
  PROVE  MachineInv(m)'
<1> DEFINE man == manifest[ManifestDir[m]]
<1>1. OneSync(m) /\ OnceRecorded(m) /\ Stamped(m)
  BY DEF SyncInv
<1>2. /\ UNCHANGED <<clock, stamps, copied, pending, doneEvt, jobs, recorded>>
      /\ check[m] = "due"
      /\ \/ check' = [check EXCEPT ![m] = "done"] /\ UNCHANGED cand
         \/ /\ check' = [check EXCEPT ![m] = "decided"]
            /\ cand' = [cand EXCEPT ![m] = man]
            /\ ShouldSyncFromNetwork(m, man)
  BY DEF CheckStartupManifest, StartupReadFails
<1>3. Syncs(m)' = Syncs(m)
  BY <1>2 DEF Syncs
<1>4. \/ check'[m] = "done" /\ cand'[m] = cand[m]
      \/ /\ check'[m] = "decided" /\ cand'[m] = man
         /\ man # NoManifest /\ man \notin recorded[m] /\ Past(man)
  <2>1. Past(man)
    BY ConstantsTyped DEF SyncInv
  <2>2. ShouldSyncFromNetwork(m, man) => man # NoManifest /\ man \notin recorded[m]
    BY <1>1 DEF ShouldSyncFromNetwork, OnceRecorded
  <2> QED
    BY <1>2, <2>1, <2>2 DEF SyncInv, TypeOK
<1>5. OneSync(m)'
  BY <1>1, <1>2, <1>3, <1>4 DEF OneSync, Decided
<1>6. OnceRecorded(m)'
  <2>1. \A r \in recorded'[m] : AlreadySynced(m, r)'
    BY <1>1, <1>2 DEF OnceRecorded, AlreadySynced, Covers
  <2> QED
    BY <1>1, <1>2, <1>4, <2>1 DEF OnceRecorded, Decided
<1>7. Stamped(m)'
  <2>1. Past(cand[m])'
    BY <1>1, <1>2, <1>4 DEF Stamped, Past
  <2> QED
    BY <1>1, <1>2, <2>1 DEF Stamped, Past
<1> QED
  BY <1>5, <1>6, <1>7 DEF MachineInv

(***************************************************************************)
(* The decided manifest becomes the pended one.                            *)
(***************************************************************************)
LEMMA PendKeeps ==
  ASSUME SyncInv, NEW m \in Machines, PendManifest(m)
  PROVE  MachineInv(m)'
<1>1. OneSync(m) /\ OnceRecorded(m) /\ Stamped(m)
  BY DEF SyncInv
<1>2. /\ UNCHANGED <<clock, stamps, copied, cand, doneEvt, jobs, recorded>>
      /\ check[m] = "pend" /\ check'[m] = "done" /\ pending'[m] = cand[m]
  BY DEF PendManifest, SyncInv, TypeOK
<1>3. Syncs(m)' = Syncs(m)
  BY <1>2 DEF Syncs
<1>4. OneSync(m)'
  BY <1>1, <1>2, <1>3 DEF OneSync, Decided
<1>5. OnceRecorded(m)'
  <2>1. \A r \in recorded'[m] : AlreadySynced(m, r)'
    BY <1>1, <1>2 DEF OnceRecorded, AlreadySynced, Covers
  <2> QED
    BY <1>1, <1>2, <2>1 DEF OnceRecorded, Decided
<1>6. Stamped(m)'
  BY <1>1, <1>2 DEF Stamped, Past
<1> QED
  BY <1>4, <1>5, <1>6 DEF MachineInv

(***************************************************************************)
(* A sync enters the queue when it is nowhere else.                        *)
(***************************************************************************)
LEMMA QueueKeeps ==
  ASSUME SyncInv, NEW m \in Machines, NEW man \in Manifests,
         UNCHANGED <<clock, stamps, copied, cand, doneEvt, recorded>>,
         check'[m] = "done", pending'[m] = NoManifest, Syncs(m) = {},
         doneEvt[m] = NoManifest, man \notin recorded[m], Past(man),
         Enqueue(m, NetworkJob(man))
  PROVE  MachineInv(m)'
<1>1. OneSync(m) /\ OnceRecorded(m) /\ Stamped(m) /\ JobsOK
  BY DEF SyncInv, TypeOK
<1>2. /\ \A i, k \in Syncs(m)' : i = k
      /\ \A i \in DOMAIN jobs'[m] :
            \/ jobs'[m][i].man = man /\ i \in Syncs(m)'
            \/ /\ i \in DOMAIN jobs[m]
               /\ jobs'[m][i].kind = jobs[m][i].kind
               /\ jobs'[m][i].man = jobs[m][i].man
  BY <1>1, NetworkEnqueued
<1>3. OneSync(m)'
  <2>1. \A i \in DOMAIN jobs'[m] : i \notin Syncs(m)' =>
           jobs'[m][i].man = NoManifest
    BY <1>1, <1>2 DEF OneSync, Syncs
  <2> QED
    BY <1>2, <2>1 DEF OneSync, Decided
<1>4. OnceRecorded(m)'
  <2>1. \A r \in recorded'[m] : AlreadySynced(m, r)'
    BY <1>1 DEF OnceRecorded, AlreadySynced, Covers
  <2> QED
    BY <1>1, <1>2, <2>1 DEF OnceRecorded, Decided
<1>5. Stamped(m)'
  <2>1. \A i \in DOMAIN jobs'[m] : Past(jobs[m][i].man)'
    BY <1>1, <1>2 DEF Stamped, Past
  <2> QED
    BY <1>1, <2>1 DEF Stamped, Past
<1> QED
  BY <1>3, <1>4, <1>5 DEF MachineInv

(***************************************************************************)
(* The decided manifest is queued, is about to be pended, or is dropped.   *)
(***************************************************************************)
LEMMA QueueOrPendKeeps ==
  ASSUME SyncInv, TypeOK', NEW m \in Machines, QueueOrPend(m)
  PROVE  MachineInv(m)'
<1>1. OneSync(m) /\ OnceRecorded(m) /\ Stamped(m) /\ TypeOK
  BY DEF SyncInv
<1>2. /\ UNCHANGED <<clock, stamps, copied, cand, doneEvt, recorded>>
      /\ check[m] = "decided"
      /\ \/ check'[m] = "pend" /\ UNCHANGED <<jobs, pending>>
         \/ check'[m] = "done" /\ UNCHANGED <<jobs, pending>>
         \/ /\ check'[m] = "done" /\ Enqueue(m, NetworkJob(cand[m]))
            /\ pending'[m] = NoManifest
  BY <1>1 DEF QueueOrPend, TypeOK
<1>3. CASE check'[m] \in {"pend", "done"} /\ UNCHANGED <<jobs, pending>>
  <2>1. Syncs(m)' = Syncs(m)
    BY <1>3 DEF Syncs
  <2>2. OneSync(m)'
    BY <1>1, <1>2, <1>3, <2>1 DEF OneSync, Decided
  <2>3. \A r \in recorded'[m] : AlreadySynced(m, r)'
    BY <1>1, <1>2 DEF OnceRecorded, AlreadySynced, Covers
  <2>4. OnceRecorded(m)'
    BY <1>1, <1>2, <1>3, <2>3 DEF OnceRecorded, Decided
  <2>5. Stamped(m)'
    BY <1>1, <1>2, <1>3 DEF Stamped, Past
  <2> QED
    BY <2>2, <2>4, <2>5 DEF MachineInv
<1>4. CASE /\ check'[m] = "done" /\ Enqueue(m, NetworkJob(cand[m]))
           /\ pending'[m] = NoManifest
  <2>1. /\ cand[m] \in Manifests /\ cand[m] \notin recorded[m]
        /\ Past(cand[m]) /\ Syncs(m) = {} /\ doneEvt[m] = NoManifest
    BY <1>1, <1>2 DEF OneSync, OnceRecorded, Stamped, Decided, TypeOK,
      MaybeManifest
  <2> QED
    BY <1>2, <1>4, <2>1, QueueKeeps
<1> QED
  BY <1>2, <1>3, <1>4

(***************************************************************************)
(* The pended manifest becomes a job.                                      *)
(***************************************************************************)
LEMMA RunPendingKeeps ==
  ASSUME SyncInv, TypeOK', NEW m \in Machines, RunPendingIfAny(m)
  PROVE  MachineInv(m)'
<1>1. OneSync(m) /\ OnceRecorded(m) /\ Stamped(m) /\ TypeOK
  BY DEF SyncInv
<1>2. /\ UNCHANGED <<clock, stamps, copied, check, cand, doneEvt, recorded>>
      /\ \/ UNCHANGED <<jobs, pending>>
         \/ /\ pending[m] # NoManifest /\ pending'[m] = NoManifest
            /\ Enqueue(m, NetworkJob(pending[m]))
  BY <1>1 DEF RunPendingIfAny, TypeOK
<1>3. CASE UNCHANGED <<jobs, pending>>
  <2>1. Same(m) /\ Follows(m, 0) /\ clock' >= clock
    BY <1>1, <1>2, <1>3, SameFollows DEF Same, TypeOK
  <2> QED
    BY <1>1, <2>1, FollowsKeeps DEF MachineInv
<1>4. CASE /\ pending[m] # NoManifest /\ pending'[m] = NoManifest
           /\ Enqueue(m, NetworkJob(pending[m]))
  <2>1. /\ pending[m] \in Manifests /\ pending[m] \notin recorded[m]
        /\ Past(pending[m]) /\ Syncs(m) = {} /\ doneEvt[m] = NoManifest
        /\ check'[m] = "done"
    BY <1>1, <1>2, <1>4 DEF OneSync, OnceRecorded, Stamped, TypeOK,
      MaybeManifest
  <2> QED
    BY <1>2, <1>4, <2>1, QueueKeeps
<1> QED
  BY <1>2, <1>3, <1>4

(***************************************************************************)
(* The running job is over.  If it was a network sync that completed, no   *)
(* other one is left in the queue.                                         *)
(***************************************************************************)
LEMMA ExtractKeeps ==
  ASSUME SyncInv, TypeOK', NEW m \in Machines, ExtractZip(m)
  PROVE  MachineInv(m)'
<1>1. /\ OneSync(m) /\ OnceRecorded(m) /\ Stamped(m) /\ TypeOK /\ JobsOK
      /\ jobs[m] # <<>> /\ step[m] # "idle"
  BY DEF SyncInv, TypeOK, JobsOK, ExtractZip
<1>2. /\ UNCHANGED <<clock, stamps, copied, check, cand, pending, recorded>>
      /\ JobEnds(m)
      /\ \/ UNCHANGED doneEvt
         \/ Job(m).kind = "network" /\ doneEvt'[m] = Job(m).man
  BY <1>1 DEF ExtractZip, TypeOK
<1>3. Follows(m, 1)
  BY <1>1, <1>2, TailFollows
<1>4. clock' >= clock
  BY <1>1, <1>2 DEF TypeOK
<1>5. CASE UNCHANGED doneEvt
  BY <1>1, <1>2, <1>3, <1>4, <1>5, FollowsKeeps DEF MachineInv, Same
<1>6. CASE Job(m).kind = "network" /\ doneEvt'[m] = Job(m).man
  <2>1. 1 \in Syncs(m) /\ Job(m) = jobs[m][1] /\ DOMAIN jobs'[m] \subseteq Nat \ {0}
    <3>1. jobs[m] \in Seq(Jobs) /\ jobs'[m] \in Seq(Jobs)
      BY <1>1 DEF TypeOK, JobsOK
    <3>2. DOMAIN jobs[m] = 1..Len(jobs[m]) /\ 1 \in 1..Len(jobs[m])
      BY <1>1, <3>1, EmptySeq, LenProperties
    <3>3. DOMAIN jobs'[m] \subseteq Nat \ {0}
      BY <3>1, LenProperties
    <3> QED
      BY <1>1, <1>6, <3>2, <3>3, JobTyped DEF Syncs
  <2>2. Syncs(m)' = {}
    <3> SUFFICES ASSUME NEW i \in Syncs(m)'
                 PROVE  FALSE
      OBVIOUS
    <3>1. i \in Nat \ {0}
      BY <2>1 DEF Syncs
    <3>2. i + 1 \in Syncs(m)
      BY <1>3 DEF Syncs, Follows
    <3>3. i + 1 = 1
      BY <1>1, <2>1, <3>2 DEF OneSync
    <3> QED
      BY <3>1, <3>3
  <2>3. \A i \in DOMAIN jobs'[m] : jobs'[m][i].man = NoManifest
    BY <1>1, <1>3, <2>2 DEF OneSync, Syncs, Follows
  <2>4. check[m] = "done" /\ pending[m] = NoManifest
    BY <1>1, <2>1 DEF OneSync
  <2>5. OneSync(m)'
    BY <1>2, <2>2, <2>3, <2>4 DEF OneSync, Decided
  <2>6. OnceRecorded(m)'
    <3>1. Job(m).man \notin recorded[m]
      BY <1>1, <2>1 DEF OnceRecorded, Syncs
    <3>2. \A r \in recorded'[m] : AlreadySynced(m, r)'
      BY <1>1, <1>2 DEF OnceRecorded, AlreadySynced, Covers
    <3> QED
      BY <1>1, <1>2, <1>6, <2>3, <2>4, <3>1, <3>2 DEF OnceRecorded, Decided
  <2>7. Stamped(m)'
    <3>1. Past(Job(m).man)
      BY <1>1, <2>1 DEF Stamped, Syncs
    <3> QED
      BY <1>1, <1>2, <1>6, <2>3, <3>1 DEF Stamped, Past
  <2> QED
    BY <2>5, <2>6, <2>7 DEF MachineInv
<1> QED
  BY <1>2, <1>5, <1>6

(***************************************************************************)
(* The copy of a save_config holds a timestamp.                            *)
(***************************************************************************)
LEMMA CopyTyped ==
  ASSUME TypeOK, NEW m \in Machines, copied[m] # <<>>
  PROVE  copied[m][1] \in Nat
<1>1. copied[m] \in Seq(Nat)
  BY DEF TypeOK
<1> QED
  BY <1>1, EmptySeq, ElementOfSeq

(***************************************************************************)
(* The completed sync is recorded, at a time no manifest is later than.    *)
(***************************************************************************)
LEMMA CompletedKeeps ==
  ASSUME SyncInv, TypeOK', NEW m \in Machines, OnSyncCompleted(m)
  PROVE  MachineInv(m)'
<1>1. OneSync(m) /\ OnceRecorded(m) /\ Stamped(m) /\ TypeOK
  BY DEF SyncInv
<1>2. /\ UNCHANGED <<check, cand, pending, jobs>>
      /\ doneEvt[m] # NoManifest /\ doneEvt'[m] = NoManifest
      /\ clock' = clock + 1 /\ copied'[m] = copied[m]
      /\ recorded'[m] = recorded[m] \cup {doneEvt[m]}
  BY <1>1 DEF OnSyncCompleted, TypeOK
<1>3. Syncs(m) = {} /\ Syncs(m)' = {}
  BY <1>1, <1>2 DEF OneSync, Syncs
<1>4. check[m] = "done" /\ pending[m] = NoManifest
  BY <1>1, <1>2 DEF OneSync
<1>5. \A i \in DOMAIN jobs[m] : jobs[m][i].man = NoManifest
  BY <1>1, <1>3 DEF OneSync
<1>6. clock \in Nat /\ clock' \in Nat /\ clock' >= clock
  BY <1>1, <1>2 DEF TypeOK
<1>10. lastSynced'[m] = clock' /\ stored'[m] \in {clock', stored[m], 0}
  <2>1. SaveStamp(m, clock')
    BY DEF OnSyncCompleted
  <2> QED
    BY <1>1, <1>6, <2>1, SaveTyped
<1>7. OneSync(m)'
  BY <1>1, <1>2, <1>3, <1>4, <1>5 DEF OneSync, Decided
<1>8. OnceRecorded(m)'
  <2>1. ASSUME NEW r \in recorded'[m]
        PROVE  AlreadySynced(m, r)'
    <3>1. r \in Manifests /\ r.time \in Nat
      BY <2>1 DEF TypeOK, Manifests
    <3>2. r.time <= clock
      <4>1. CASE r \in recorded[m]
        BY <1>1, <1>6, <3>1, <4>1 DEF OnceRecorded, AlreadySynced, Covers, Stamped, TypeOK
      <4>2. CASE r = doneEvt[m]
        BY <1>1, <1>2, <4>2 DEF Stamped, Past
      <4> QED
        BY <1>2, <2>1, <4>1, <4>2
    <3> QED
      BY <1>2, <1>6, <1>10, <3>1, <3>2 DEF AlreadySynced, Covers
  <2> QED
    BY <1>1, <1>2, <1>4, <1>5, <2>1 DEF OnceRecorded, Decided
<1>9. Stamped(m)'
  <2>1. Past(cand[m])'
    <3>1. cand[m] \in MaybeManifest /\ Past(cand[m])
      BY <1>1 DEF TypeOK, Stamped
    <3> QED
      BY <1>2, <1>6, <3>1, PastStays DEF Past
  <2>2. lastSynced'[m] <= clock' /\ stored'[m] <= clock'
    BY <1>1, <1>6, <1>10 DEF Stamped, TypeOK
  <2>3. copied'[m] # <<>> => copied'[m][1] <= clock'
    BY <1>1, <1>2, <1>6, CopyTyped DEF Stamped
  <2>4. /\ Past(pending[m])' /\ Past(doneEvt[m])'
        /\ \A i \in DOMAIN jobs'[m] : Past(jobs[m][i].man)'
    BY <1>2, <1>4, <1>5 DEF Past
  <2> QED
    BY <2>1, <2>2, <2>3, <2>4 DEF Stamped
<1> QED
  BY <1>7, <1>8, <1>9 DEF MachineInv

(***************************************************************************)
(* Onboarding and an overtaken save_config put another timestamp in place  *)
(* of the recorded one: what it does not cover is not on record any more.  *)
(***************************************************************************)
LEMMA StampKeeps ==
  ASSUME SyncInv, TypeOK', NEW m \in Machines,
         UNCHANGED <<check, cand, pending, doneEvt, jobs>>, clock' >= clock,
         NEW t \in Nat, t <= clock', SaveStamp(m, t),
         recorded'[m] \subseteq recorded[m],
         \A man \in recorded'[m] : Covers(t, man),
         copied'[m] \in {copied[m], <<>>}
  PROVE  MachineInv(m)'
<1>1. OneSync(m) /\ OnceRecorded(m) /\ Stamped(m) /\ TypeOK
  BY DEF SyncInv
<1>2. lastSynced'[m] = t /\ stored'[m] \in {t, stored[m], 0}
  BY <1>1, SaveTyped
<1>3. clock \in Nat /\ clock' \in Nat /\ stored[m] \in Nat
  BY <1>1 DEF TypeOK
<1>5. OneSync(m)'
  BY <1>1 DEF OneSync, Decided, Syncs
<1>6. OnceRecorded(m)'
  <2>1. \A r \in recorded'[m] : AlreadySynced(m, r)'
    BY <1>2 DEF AlreadySynced, Covers
  <2> QED
    BY <1>1, <2>1 DEF OnceRecorded, Decided
<1>7. Stamped(m)'
  <2>1. {cand[m], pending[m], doneEvt[m]} \subseteq MaybeManifest
    BY <1>1 DEF TypeOK
  <2>2. \A i \in DOMAIN jobs[m] : jobs[m][i].man \in MaybeManifest
    <3>1. \A i \in DOMAIN jobs[m] : jobs[m][i] \in Jobs
      BY <1>1, ElementOfSeq DEF TypeOK, JobsOK
    <3> QED
      BY <3>1 DEF Jobs
  <2>3. Past(cand[m])' /\ Past(pending[m])' /\ Past(doneEvt[m])'
    BY <1>1, <1>3, <2>1, PastStays DEF Stamped, Past
  <2>4. \A i \in DOMAIN jobs'[m] : Past(jobs[m][i].man)'
    BY <1>1, <1>3, <2>2, PastStays DEF Stamped, Past
  <2>5. lastSynced'[m] <= clock' /\ stored'[m] <= clock'
    BY <1>1, <1>2, <1>3 DEF Stamped
  <2>6. copied'[m] # <<>> => copied'[m][1] <= clock'
    BY <1>1, <1>3, CopyTyped DEF Stamped
  <2> QED
    BY <2>3, <2>4, <2>5, <2>6 DEF Stamped
<1> QED
  BY <1>5, <1>6, <1>7 DEF MachineInv

(***************************************************************************)
(* What stands of a record is covered by the new timestamp.                *)
(***************************************************************************)
LEMMA StandingCovered ==
  ASSUME SyncInv, NEW m \in Machines, NEW t \in Nat
  PROVE  /\ Standing(m, t) \subseteq recorded[m]
         /\ \A man \in Standing(m, t) : Covers(t, man)
<1>1. OnceRecorded(m) /\ TypeOK
  BY DEF SyncInv
<1>2. ASSUME NEW man \in recorded[m], t >= lastSynced[m]
      PROVE  Covers(t, man)
  <2>1. man.time \in Nat /\ lastSynced[m] \in Nat
    BY <1>1, <1>2 DEF TypeOK, Manifests
  <2>2. lastSynced[m] # 0 /\ lastSynced[m] >= man.time
    BY <1>1, <1>2 DEF OnceRecorded, AlreadySynced, Covers
  <2> QED
    BY <1>2, <2>1, <2>2 DEF Covers
<1> QED
  BY <1>2 DEF Standing

(***************************************************************************)
(* The answer to the onboarding dialog, over whatever was recorded.        *)
(***************************************************************************)
LEMMA OnboardKeeps ==
  ASSUME SyncInv, TypeOK', NEW m \in Machines, OnboardSave(m)
  PROVE  MachineInv(m)'
<1>1. OnceRecorded(m) /\ Stamped(m) /\ TypeOK
  BY DEF SyncInv
<1>2. clock \in Nat /\ Epoch \in Nat /\ Epoch <= clock /\ clock' \in Nat
  BY DEF SyncInv, TypeOK, Epoch
<1>3. /\ UNCHANGED <<check, cand, pending, doneEvt, jobs, copied>>
      /\ \/ /\ clock' = clock /\ SaveStamp(m, Epoch)
            /\ recorded' = [recorded EXCEPT ![m] = Standing(m, Epoch)]
         \/ /\ clock' = clock + 1 /\ SaveStamp(m, clock') /\ UNCHANGED recorded
  BY DEF OnboardSave
<1>4. CASE /\ clock' = clock /\ SaveStamp(m, Epoch)
           /\ recorded' = [recorded EXCEPT ![m] = Standing(m, Epoch)]
  <2>1. recorded'[m] = Standing(m, Epoch)
    BY <1>1, <1>4 DEF TypeOK
  <2>2. /\ recorded'[m] \subseteq recorded[m]
        /\ \A man \in recorded'[m] : Covers(Epoch, man)
    BY <1>2, <2>1, StandingCovered
  <2> QED
    BY <1>2, <1>3, <1>4, <2>2, StampKeeps
<1>5. CASE clock' = clock + 1 /\ SaveStamp(m, clock') /\ UNCHANGED recorded
  <2>1. ASSUME NEW man \in recorded[m]
        PROVE  Covers(clock', man)
    <3>1. man.time \in Nat
      BY <1>1, <2>1 DEF TypeOK, Manifests
    <3>2. man.time <= lastSynced[m] /\ lastSynced[m] <= clock /\ lastSynced[m] \in Nat
      BY <1>1, <2>1 DEF OnceRecorded, AlreadySynced, Covers, Stamped, TypeOK
    <3> QED
      BY <1>2, <1>5, <3>1, <3>2 DEF Covers
  <2> QED
    BY <1>2, <1>3, <1>5, <2>1, StampKeeps
<1> QED
  BY <1>3, <1>4, <1>5

LEMMA UpdateKeeps ==
  ASSUME SyncInv, TypeOK', NEW m \in Machines, UpdateConfig(m)
  PROVE  MachineInv(m)'
<1>1. Stamped(m) /\ TypeOK
  BY DEF SyncInv
<1>2. /\ UNCHANGED <<check, cand, pending, doneEvt, jobs, clock>>
      /\ copied[m] # <<>> /\ SaveStamp(m, copied[m][1])
      /\ recorded'[m] = Standing(m, copied[m][1])
      /\ copied'[m] = <<>>
  BY <1>1 DEF UpdateConfig, TypeOK
<1>3. copied[m][1] \in Nat /\ copied[m][1] <= clock /\ clock \in Nat
  BY <1>1, <1>2, CopyTyped DEF Stamped, TypeOK
<1>4. /\ recorded'[m] \subseteq recorded[m]
      /\ \A man \in recorded'[m] : Covers(copied[m][1], man)
  BY <1>2, <1>3, StandingCovered
<1> QED
  BY <1>2, <1>3, <1>4, StampKeeps

(***************************************************************************)
(* The copy of a save_config holds the timestamp of now.                   *)
(***************************************************************************)
LEMMA CopyConfigKeeps ==
  ASSUME SyncInv, TypeOK', NEW m \in Machines, CopyConfig(m)
  PROVE  MachineInv(m)'
<1>1. OneSync(m) /\ OnceRecorded(m) /\ Stamped(m) /\ TypeOK
  BY DEF SyncInv
<1>2. /\ UNCHANGED <<clock, stamps, check, cand, pending, doneEvt, jobs, recorded>>
      /\ copied'[m] = <<lastSynced[m]>>
  BY <1>1 DEF CopyConfig, TypeOK
<1>3. OneSync(m)'
  BY <1>1, <1>2 DEF OneSync, Decided, Syncs
<1>4. OnceRecorded(m)'
  BY <1>1, <1>2 DEF OnceRecorded, Decided, AlreadySynced, Covers
<1>5. Stamped(m)'
  <2>1. copied'[m][1] = lastSynced[m]
    BY <1>2
  <2> QED
    BY <1>1, <1>2, <2>1 DEF Stamped, Past
<1> QED
  BY <1>3, <1>4, <1>5 DEF MachineInv

(***************************************************************************)
(* A restart forgets every sync that was not recorded, and goes on with    *)
(* the timestamp that its file has.                                        *)
(***************************************************************************)
LEMMA RestartKeeps ==
  ASSUME SyncInv, TypeOK', NEW m \in Machines, Restart(m)
  PROVE  MachineInv(m)'
<1>1. OneSync(m) /\ OnceRecorded(m) /\ Stamped(m) /\ TypeOK
  BY DEF SyncInv
<1>2. /\ UNCHANGED <<clock, stored>>
      /\ lastSynced'[m] = stored[m] /\ recorded'[m] = Standing(m, stored[m])
      /\ check'[m] \in {"due", "done"} /\ cand'[m] = NoManifest
      /\ pending'[m] = NoManifest /\ doneEvt'[m] = NoManifest
      /\ jobs'[m] = <<>> /\ copied'[m] = <<>>
  BY <1>1 DEF Restart, TypeOK, JobsOK
<1>3. DOMAIN jobs'[m] = {} /\ Syncs(m)' = {}
  BY <1>2 DEF Syncs
<1>4. OneSync(m)'
  BY <1>2, <1>3 DEF OneSync, Decided
<1>5. OnceRecorded(m)'
  <2>1. \A r \in recorded'[m] : r \in recorded[m] /\ AlreadySynced(m, r)'
    <3>1. stored[m] \in Nat
      BY <1>1 DEF TypeOK
    <3>2. \A r \in recorded'[m] : r \in recorded[m] /\ Covers(stored[m], r)
      BY <1>2, <3>1, StandingCovered
    <3> QED
      BY <1>2, <3>2 DEF AlreadySynced, Covers
  <2> QED
    BY <1>1, <1>2, <1>3, <2>1 DEF OnceRecorded, Decided
<1>6. Stamped(m)'
  BY <1>1, <1>2, <1>3 DEF Stamped, Past
<1> QED
  BY <1>4, <1>5, <1>6 DEF MachineInv

(***************************************************************************)
(* Manifests are stamped with the time of their writing.                   *)
(***************************************************************************)
LEMMA ManifestsPast ==
  ASSUME SyncInv, TypeOK', NEW m \in Machines,
         AgentStep(m) \/ UserStep(m) \/ Restart(m)
  PROVE  \A d \in Dirs : Past(manifest[d])'
<1>1. clock \in Nat /\ clock' \in Nat /\ clock' >= clock
  BY ClockAdvances DEF SyncInv, TypeOK
<1>2. \/ UNCHANGED manifest
      \/ \E z \in Zips : OnLocalBackupCreated(m, z)
  BY DEF AgentStep, UserStep, LightroomStart, LightroomExit, ProbeLightroom,
    LightroomBackup, PublishFails, ScanBackups, PauseOrResume, OnboardResume,
    Validate, CreatePreSyncBackup, PreSyncFails, CleanupZipRetention,
    CleanupCatalogArtifacts, ExtractFails, ExtractZip, StartJob,
    ManualRestore, OnboardSync, CheckStartupManifest, StartupReadFails,
    PendManifest, QueueOrPend, RunPendingIfAny, OnSyncCompleted, OnboardSave,
    Restart, PresetSyncAtStart, PresetSyncCalled, StartPresetJob,
    PresetJobEnds, CopyConfig, UpdateConfig, OnboardAsk, OnboardHidden,
    OnboardCallFails
<1> SUFFICES ASSUME NEW d \in Dirs
             PROVE  Past(manifest[d])'
  OBVIOUS
<1>3. manifest[d] \in MaybeManifest /\ Past(manifest[d])
  BY DEF SyncInv, TypeOK
<1>4. CASE manifest'[d] = manifest[d]
  BY <1>1, <1>3, <1>4, PastStays DEF Past
<1>5. ASSUME NEW z \in Zips, OnLocalBackupCreated(m, z)
      PROVE  \/ manifest'[d] = manifest[d]
             \/ manifest'[d] = [machine |-> m, time |-> clock', zip |-> z]
  BY <1>5, ConstantsTyped DEF OnLocalBackupCreated, SyncInv, TypeOK
<1>6. CASE \E z \in Zips : manifest'[d] = [machine |-> m, time |-> clock', zip |-> z]
  BY <1>1, <1>6 DEF Past
<1> QED
  BY <1>2, <1>4, <1>5, <1>6

(***************************************************************************)
(* The invariant of the machine that takes the step.                       *)
(***************************************************************************)
LEMMA ActorKeeps ==
  ASSUME SyncInv, TypeOK', NEW m \in Machines,
         AgentStep(m) \/ UserStep(m) \/ Restart(m)
  PROVE  MachineInv(m)'
<1>1. TypeOK /\ MachineInv(m) /\ clock' >= clock
  BY ClockAdvances DEF SyncInv, MachineInv
<1>2. CASE Same(m) /\ \E s \in {0, 1} : Follows(m, s)
  BY <1>1, <1>2, FollowsKeeps
<1>3. CASE CheckStartupManifest(m) \/ StartupReadFails(m)
  BY <1>3, CheckKeeps
<1>4. CASE QueueOrPend(m) \/ PendManifest(m) \/ RunPendingIfAny(m)
  BY <1>4, QueueOrPendKeeps, PendKeeps, RunPendingKeeps
<1>5. CASE ExtractZip(m) \/ OnSyncCompleted(m)
  BY <1>5, ExtractKeeps, CompletedKeeps
<1>6. CASE OnboardSave(m) \/ CopyConfig(m) \/ UpdateConfig(m) \/ Restart(m)
  BY <1>6, OnboardKeeps, CopyConfigKeeps, UpdateKeeps, RestartKeeps
<1> QED
  BY <1>1, <1>2, <1>3, <1>4, <1>5, <1>6, QuietSteps DEF AgentStep, UserStep

(***************************************************************************)
(* SyncInv holds at the start and is kept.                                 *)
(***************************************************************************)
LEMMA SyncInvInit == Init => SyncInv
<1> SUFFICES ASSUME Init
             PROVE  SyncInv
  OBVIOUS
<1>1. TypeOK
  BY TypeInit
<1>2. ASSUME NEW m \in Machines
      PROVE  /\ jobs[m] = <<>> /\ cand[m] = NoManifest /\ pending[m] = NoManifest
             /\ doneEvt[m] = NoManifest /\ recorded[m] = {}
             /\ check[m] \in {"due", "done"} /\ copied[m] = <<>>
             /\ lastSynced[m] <= clock /\ stored[m] <= clock
  BY DEF Init, Epoch
<1>3. ASSUME NEW m \in Machines
      PROVE  OneSync(m) /\ OnceRecorded(m) /\ Stamped(m)
  <2>1. DOMAIN jobs[m] = {} /\ Syncs(m) = {}
    BY <1>2 DEF Syncs
  <2> QED
    BY <1>2, <2>1 DEF OneSync, OnceRecorded, Stamped, Decided, Past
<1>4. Epoch <= clock /\ \A d \in Dirs : Past(manifest[d])
  BY DEF Init, Past, Epoch
<1> QED
  BY <1>1, <1>3, <1>4 DEF SyncInv

LEMMA SyncInvStep == SyncInv /\ [Next]_vars => SyncInv'
<1> SUFFICES ASSUME SyncInv, [Next]_vars
             PROVE  SyncInv'
  OBVIOUS
<1>1. ASSUME NEW m \in Machines, AgentStep(m) \/ UserStep(m) \/ Restart(m)
      PROVE  SyncInv'
  <2>1. TypeOK /\ TypeOK' /\ clock' >= clock
    BY <1>1, TypeStep, ClockAdvances DEF SyncInv
  <2>2. MachineInv(m)'
    BY <1>1, <2>1, ActorKeeps
  <2>3. ASSUME NEW n \in Machines, n # m
        PROVE  MachineInv(n)'
    <3>1. Same(n) /\ Follows(n, 0)
      BY <1>1, <2>1, <2>3, OthersStay, SameFollows DEF TypeOK
    <3> QED
      BY <2>1, <2>3, <3>1, FollowsKeeps DEF SyncInv, MachineInv
  <2>4. \A d \in Dirs : Past(manifest[d])'
    BY <1>1, <2>1, ManifestsPast
  <2>5. Epoch <= clock'
    BY <2>1 DEF SyncInv, TypeOK, Epoch
  <2> QED
    BY <2>1, <2>2, <2>3, <2>4, <2>5 DEF SyncInv, MachineInv
<1>2. CASE UNCHANGED vars
  <2>1. UNCHANGED TypeOK
    BY <1>2 DEF vars, TypeOK, JobsOK
  <2>2. UNCHANGED <<\A m \in Machines : OneSync(m) /\ OnceRecorded(m) /\ Stamped(m),
                    \A d \in Dirs : Past(manifest[d]), clock>>
    BY <1>2 DEF vars, OneSync, Decided, Syncs, OnceRecorded, AlreadySynced,
      Covers, Stamped, Past
  <2> QED
    BY <2>1, <2>2 DEF SyncInv
<1> QED
  BY <1>1, <1>2 DEF Next

LEMMA SyncInvHolds == Spec => []SyncInv
BY SyncInvInit, SyncInvStep, PTL DEF Spec

(***************************************************************************)
(* Every variable keeps its type.                                          *)
(***************************************************************************)
THEOREM CatalogTypeCorrect == Spec => []TypeOK
<1>1. SyncInv => TypeOK
  BY DEF SyncInv
<1> QED
  BY <1>1, SyncInvHolds, PTL

(***************************************************************************)
(* A manifest that a machine has synced and recorded is not again among    *)
(* its jobs while its timestamp covers it: whatever the agent goes through *)
(* in between, restarts with another content of config.yaml included, a    *)
(* sync is in one place at a time, and nothing covered is decided again.   *)
(***************************************************************************)
THEOREM SyncedOnce == Spec => []NoRepeatSync
<1>1. SyncInv => NoRepeatSync
  BY DEF SyncInv, OnceRecorded, NoRepeatSync
<1> QED
  BY <1>1, SyncInvHolds, PTL

-----------------------------------------------------------------------------
(***************************************************************************)
(* Pended syncs.  The status a pended manifest waits on and the manifest   *)
(* are under different locks: either Lightroom is seen running, or a run   *)
(* of RunPendingIfAny is due.                                              *)
(***************************************************************************)
Waits(m) == pending[m] # NoManifest \/ check[m] = "pend"
Awaited(m) == Waits(m) /\ ~lrSeen[m] => stopEvt[m]

(* A run of RunPendingIfAny that is due finds room in the queue.           *)
HasRoom ==
    \A m \in Machines :
        stopEvt[m] /\ ~lrSeen[m] /\ pending[m] # NoManifest => ~QueueFull(m)

(***************************************************************************)
(* What is pended, decided and announced changes in few places.            *)
(***************************************************************************)
LEMMA WaitsStays ==
  ASSUME NEW m \in Machines, AgentStep(m) \/ UserStep(m) \/ Restart(m)
  PROVE  \/ UNCHANGED <<pending, check, lrSeen, stopEvt>>
         \/ ProbeLightroom(m) \/ RunPendingIfAny(m) \/ Restart(m)
         \/ CheckStartupManifest(m) \/ StartupReadFails(m)
         \/ QueueOrPend(m) \/ PendManifest(m)
BY DEF AgentStep, UserStep, LightroomStart, LightroomExit, LightroomBackup,
    OnLocalBackupCreated, PublishFails, ScanBackups, PauseOrResume,
    OnboardResume, Validate, CreatePreSyncBackup, PreSyncFails,
    CleanupZipRetention, CleanupCatalogArtifacts, ExtractFails, ExtractZip,
    StartJob, ManualRestore, OnboardSync, OnSyncCompleted, OnboardSave,
    PresetSyncAtStart, PresetSyncCalled, StartPresetJob, PresetJobEnds,
    CopyConfig, UpdateConfig, OnboardAsk, OnboardHidden, OnboardCallFails

LEMMA AwaitedStep ==
  ASSUME SyncInv, NEW m \in Machines, AgentStep(m) \/ UserStep(m) \/ Restart(m),
         HasRoom, NEW n \in Machines, Awaited(n)
  PROVE  Awaited(n)'
<1>1. TypeOK /\ OneSync(m)
  BY DEF SyncInv
<1>2. /\ lrSeen \in [Machines -> BOOLEAN] /\ stopEvt \in [Machines -> BOOLEAN]
      /\ pending \in [Machines -> MaybeManifest]
      /\ check \in [Machines -> {"due", "decided", "pend", "done"}]
  BY <1>1 DEF TypeOK
<1>3. CASE UNCHANGED <<pending, check, lrSeen, stopEvt>>
  BY <1>3 DEF Awaited, Waits
<1>4. CASE ProbeLightroom(m)
  <2>1. UNCHANGED <<pending, check>>
    BY <1>4 DEF ProbeLightroom
  <2>2. n # m => lrSeen'[n] = lrSeen[n] /\ stopEvt'[n] = stopEvt[n]
    BY <1>2, <1>4 DEF ProbeLightroom
  <2>3. n = m => (~lrSeen'[n] => stopEvt'[n])
    BY <1>2, <1>4, Zenon DEF ProbeLightroom
  <2> QED
    BY <2>1, <2>2, <2>3 DEF Awaited, Waits
<1>5. CASE RunPendingIfAny(m)
  <2>1. UNCHANGED <<lrSeen, check>> /\ check[m] # "pend" /\ stopEvt[m]
    BY <1>5 DEF RunPendingIfAny
  <2>2. n # m => pending'[n] = pending[n] /\ stopEvt'[n] = stopEvt[n]
    BY <1>2, <1>5 DEF RunPendingIfAny
  <2>3. n = m => pending'[n] = NoManifest \/ lrSeen[n]
    BY <1>2, <1>5 DEF RunPendingIfAny, HasRoom
  <2> QED
    BY <2>1, <2>2, <2>3 DEF Awaited, Waits
<1>6. CASE Restart(m)
  <2>1. /\ n # m => /\ pending'[n] = pending[n] /\ check'[n] = check[n]
                    /\ lrSeen'[n] = lrSeen[n] /\ stopEvt'[n] = stopEvt[n]
        /\ n = m => pending'[n] = NoManifest /\ check'[n] # "pend"
    BY <1>2, <1>6 DEF Restart
  <2> QED
    BY <2>1 DEF Awaited, Waits
<1>7. CASE CheckStartupManifest(m) \/ StartupReadFails(m)
  <2>1. /\ UNCHANGED <<pending, lrSeen, stopEvt>>
        /\ check'[n] = check[n] \/ check'[n] # "pend"
    BY <1>2, <1>7 DEF CheckStartupManifest, StartupReadFails
  <2> QED
    BY <2>1 DEF Awaited, Waits
<1>8. CASE QueueOrPend(m)
  <2>1. UNCHANGED <<lrSeen, stopEvt>>
    BY <1>8 DEF QueueOrPend
  <2>2. n # m => pending'[n] = pending[n] /\ check'[n] = check[n]
    BY <1>2, <1>8 DEF QueueOrPend
  <2>3. pending[m] = NoManifest
    BY <1>1, <1>8 DEF QueueOrPend, OneSync
  <2>4. n = m => lrSeen[n] \/ (pending'[n] = NoManifest /\ check'[n] # "pend")
    BY <1>2, <1>8, <2>3 DEF QueueOrPend
  <2> QED
    BY <2>1, <2>2, <2>4 DEF Awaited, Waits
<1>9. CASE PendManifest(m)
  <2>1. UNCHANGED <<lrSeen, stopEvt>> /\ check[m] = "pend"
    BY <1>9 DEF PendManifest
  <2>2. n # m => pending'[n] = pending[n] /\ check'[n] = check[n]
    BY <1>2, <1>9 DEF PendManifest
  <2> QED
    BY <2>1, <2>2 DEF Awaited, Waits
<1> QED
  BY <1>3, <1>4, <1>5, <1>6, <1>7, <1>8, <1>9, WaitsStays

(***************************************************************************)
(* In any behaviour whose queue has room for the runs that are due, a      *)
(* pended sync is not forgotten, whatever the agent, the user and          *)
(* Lightroom do in between (queueOrPend, RunPendingIfAny, the hooks of the *)
(* Lightroom monitor).                                                     *)
(***************************************************************************)
THEOREM PendingKeptWithRoom == Spec /\ []HasRoom => []PendingNotForgotten
<1> DEFINE AllAwaited == \A m \in Machines : Awaited(m)
<1>1. Init => AllAwaited
  BY DEF Init, Awaited, Waits
<1>2. AllAwaited /\ SyncInv /\ HasRoom /\ [Next]_vars => AllAwaited'
  <2> SUFFICES ASSUME AllAwaited, SyncInv, HasRoom, [Next]_vars
               PROVE  AllAwaited'
    OBVIOUS
  <2>1. CASE UNCHANGED vars
    BY <2>1 DEF vars, Awaited, Waits
  <2>2. CASE Next
    BY <2>2, AwaitedStep DEF Next
  <2> QED
    BY <2>1, <2>2
<1>3. AllAwaited => PendingNotForgotten
  BY DEF Awaited, Waits, PendingNotForgotten
<1> HIDE DEF AllAwaited
<1> QED
  BY <1>1, <1>2, <1>3, SyncInvHolds, PTL DEF Spec

-----------------------------------------------------------------------------
(***************************************************************************)
(* Catalogs on local disks: no two machines restore into one directory.    *)
(***************************************************************************)
OwnCatalogs == \A m, n \in Machines : CatalogDir[m] = CatalogDir[n] => m = n

(***************************************************************************)
(* What a step leaves alone at machine n, and in directory d.              *)
(***************************************************************************)
Rests(n) == /\ step'[n] = step[n] /\ paused'[n] = paused[n]
            /\ answered'[n] = answered[n] /\ lr'[n] = lr[n]
Files(d) == <<catalog[d], presync[d], lastGood[d], tries[d], touched[d]>>

LEMMA OthersRest ==
  ASSUME TypeOK, NEW m \in Machines, NEW n \in Machines, n # m,
         AgentStep(m) \/ UserStep(m) \/ Restart(m)
  PROVE  Rests(n)
<1> USE DEF TypeOK, JobsOK, Rests
<1>1. ASSUME \/ ProbeLightroom(m)
             \/ \E z \in Zips : \/ LightroomBackup(m, z)
                                \/ OnLocalBackupCreated(m, z)
                                \/ PublishFails(m, z)
             \/ ScanBackups(m)
      PROVE  Rests(n)
  <2>1. UNCHANGED <<step, paused, answered, lr>>
    BY <1>1 DEF ProbeLightroom, LightroomBackup, OnLocalBackupCreated,
      PublishFails, ScanBackups
  <2> QED
    BY <2>1
<1>8. ASSUME LightroomExit(m) \/ OnboardResume(m)
      PROVE  Rests(n)
  <2>1. /\ UNCHANGED step
        /\ \/ /\ lr' = [lr EXCEPT ![m] = FALSE]
              /\ UNCHANGED <<paused, answered>>
           \/ /\ paused' = [paused EXCEPT ![m] = FALSE]
              /\ answered' = [answered EXCEPT ![m] = TRUE]
              /\ UNCHANGED lr
    BY <1>8 DEF LightroomExit, OnboardResume
  <2> QED
    BY <2>1
<1>7. ASSUME LightroomStart(m)
      PROVE  Rests(n)
  <2>1. lr' = [lr EXCEPT ![m] = TRUE] /\ UNCHANGED <<step, paused, answered>>
    BY <1>7 DEF LightroomStart
  <2> QED
    BY <2>1
<1>6. ASSUME PauseOrResume(m)
      PROVE  Rests(n)
  <2>1. /\ paused' = [paused EXCEPT ![m] = ~@]
        /\ \E b \in BOOLEAN : answered' = [answered EXCEPT ![m] = b]
    BY <1>6, Zenon DEF PauseOrResume
  <2>2. UNCHANGED <<step, lr>>
    BY <1>6 DEF PauseOrResume
  <2>3. paused'[n] = paused[n]
    BY <2>1
  <2>4. answered'[n] = answered[n]
    BY <2>1
  <2> QED
    BY <2>2, <2>3, <2>4
<1>2. ASSUME \/ Validate(m) \/ CreatePreSyncBackup(m) \/ PreSyncFails(m)
             \/ CleanupZipRetention(m) \/ CleanupCatalogArtifacts(m)
             \/ ExtractFails(m) \/ ExtractZip(m) \/ StartJob(m)
      PROVE  Rests(n)
  BY <1>2 DEF Validate, CreatePreSyncBackup, PreSyncFails, ExtractZip, StartJob,
    CleanupZipRetention, CleanupCatalogArtifacts, ExtractFails, GoTo, JobEnds
<1>3. ASSUME \/ ManualRestore(m) \/ OnboardSync(m) \/ CheckStartupManifest(m)
             \/ StartupReadFails(m) \/ PendManifest(m) \/ QueueOrPend(m)
             \/ RunPendingIfAny(m)
      PROVE  Rests(n)
  BY <1>3 DEF ManualRestore, OnboardSync, CheckStartupManifest,
    StartupReadFails, PendManifest, QueueOrPend, RunPendingIfAny
<1>4. ASSUME OnSyncCompleted(m) \/ OnboardSave(m) \/ Restart(m)
      PROVE  Rests(n)
  BY <1>4 DEF OnSyncCompleted, OnboardSave, Restart
<1>5. ASSUME \/ PresetSyncAtStart(m) \/ PresetSyncCalled(m)
             \/ StartPresetJob(m) \/ PresetJobEnds(m) \/ CopyConfig(m)
             \/ UpdateConfig(m) \/ OnboardAsk(m) \/ OnboardHidden(m)
             \/ OnboardCallFails(m)
      PROVE  Rests(n)
  BY <1>5 DEF PresetSyncAtStart, PresetSyncCalled, StartPresetJob,
    PresetJobEnds, CopyConfig, UpdateConfig, OnboardAsk, OnboardHidden,
    OnboardCallFails, GoTo, JobEnds
<1> QED
  BY <1>1, <1>2, <1>3, <1>4, <1>5, <1>6, <1>7, <1>8 DEF AgentStep, UserStep

(***************************************************************************)
(* A machine works on the files of its own catalog directory, and on those *)
(* only while it restores or Lightroom is open.                            *)
(***************************************************************************)
LEMMA OtherFilesStay ==
  ASSUME TypeOK, NEW m \in Machines, NEW d \in Dirs, d # CatalogDir[m],
         AgentStep(m) \/ UserStep(m) \/ Restart(m)
  PROVE  Files(d)' = Files(d)
<1> USE DEF TypeOK, Files
<1>1. ASSUME \/ LightroomStart(m) \/ LightroomExit(m) \/ ProbeLightroom(m)
             \/ \E z \in Zips : \/ LightroomBackup(m, z)
                                \/ OnLocalBackupCreated(m, z)
                                \/ PublishFails(m, z)
             \/ ScanBackups(m) \/ PauseOrResume(m) \/ OnboardResume(m)
      PROVE  Files(d)' = Files(d)
  BY <1>1 DEF LightroomStart, LightroomExit, ProbeLightroom, LightroomBackup,
    OnLocalBackupCreated, PublishFails, ScanBackups, PauseOrResume,
    OnboardResume
<1>2. ASSUME \/ Validate(m) \/ CreatePreSyncBackup(m) \/ PreSyncFails(m)
             \/ CleanupZipRetention(m) \/ CleanupCatalogArtifacts(m)
             \/ ExtractFails(m) \/ ExtractZip(m) \/ StartJob(m)
      PROVE  Files(d)' = Files(d)
  BY <1>2 DEF Validate, CreatePreSyncBackup, PreSyncFails, ExtractZip, StartJob,
    CleanupZipRetention, CleanupCatalogArtifacts, ExtractFails, GoTo, JobEnds
<1>3. ASSUME \/ ManualRestore(m) \/ OnboardSync(m) \/ CheckStartupManifest(m)
             \/ StartupReadFails(m) \/ PendManifest(m) \/ QueueOrPend(m)
             \/ RunPendingIfAny(m)
      PROVE  Files(d)' = Files(d)
  BY <1>3 DEF ManualRestore, OnboardSync, CheckStartupManifest,
    StartupReadFails, PendManifest, QueueOrPend, RunPendingIfAny
<1>4. ASSUME OnSyncCompleted(m) \/ OnboardSave(m) \/ Restart(m)
      PROVE  Files(d)' = Files(d)
  BY <1>4 DEF OnSyncCompleted, OnboardSave, Restart
<1>5. ASSUME \/ PresetSyncAtStart(m) \/ PresetSyncCalled(m)
             \/ StartPresetJob(m) \/ PresetJobEnds(m) \/ CopyConfig(m)
             \/ UpdateConfig(m) \/ OnboardAsk(m) \/ OnboardHidden(m)
             \/ OnboardCallFails(m)
      PROVE  Files(d)' = Files(d)
  BY <1>5 DEF PresetSyncAtStart, PresetSyncCalled, StartPresetJob,
    PresetJobEnds, CopyConfig, UpdateConfig, OnboardAsk, OnboardHidden,
    OnboardCallFails, GoTo, JobEnds
<1> QED
  BY <1>1, <1>2, <1>3, <1>4, <1>5 DEF AgentStep, UserStep

-----------------------------------------------------------------------------
(***************************************************************************)
(* Until the user of a machine that has never synced has resumed syncing   *)
(* or answered the onboarding, the machine is paused, nothing runs or has  *)
(* been completed, no timestamp is anywhere, and its catalog is its own.   *)
(***************************************************************************)
Own(m) == {CatalogDir[m]} \cup {z \in Zips : maker[z] = m}
Fresh(m) == m \in FirstLaunch /\ ~answered[m]
Blank(m) == /\ paused[m] /\ step[m] = "idle" /\ doneEvt[m] = NoManifest
            /\ lastSynced[m] = 0 /\ stored[m] = 0 /\ copied[m] \in {<<>>, <<0>>}
Protected(m) == Fresh(m) => Blank(m) /\ catalog[CatalogDir[m]] \in Own(m)

(***************************************************************************)
(* A zip has one maker.                                                    *)
(***************************************************************************)
LEMMA OwnGrows ==
  ASSUME TypeOK, NEW m \in Machines, NEW n \in Machines,
         AgentStep(m) \/ UserStep(m) \/ Restart(m)
  PROVE  Own(n) \subseteq Own(n)'
<1>1. CASE UNCHANGED maker
  BY <1>1 DEF Own
<1>2. CASE \E z \in Zips : LightroomBackup(m, z)
  <2>1. PICK z \in Zips : maker[z] = NoZip /\ maker' = [maker EXCEPT ![z] = m]
    BY <1>2 DEF LightroomBackup
  <2>2. NoZip # n
    BY CatalogAssumption DEF CatalogAssumption
  <2> QED
    BY <2>1, <2>2 DEF Own, TypeOK
<1>3. UNCHANGED maker \/ \E z \in Zips : LightroomBackup(m, z)
  BY DEF AgentStep, UserStep, LightroomStart, LightroomExit, ProbeLightroom,
    OnLocalBackupCreated, PublishFails, ScanBackups, PauseOrResume,
    OnboardResume, Validate, CreatePreSyncBackup, PreSyncFails,
    CleanupZipRetention, CleanupCatalogArtifacts, ExtractFails, ExtractZip,
    StartJob, ManualRestore, OnboardSync, CheckStartupManifest,
    StartupReadFails, PendManifest, QueueOrPend, RunPendingIfAny,
    OnSyncCompleted, OnboardSave, Restart, PresetSyncAtStart,
    PresetSyncCalled, StartPresetJob, PresetJobEnds, CopyConfig, UpdateConfig,
    OnboardAsk, OnboardHidden, OnboardCallFails
<1> QED
  BY <1>1, <1>2, <1>3

(***************************************************************************)
(* A step of m after which it is fresh found it fresh; paused, without a   *)
(* running job and without a timestamp as it was, it has done nothing to   *)
(* its catalog but what Lightroom did.                                     *)
(***************************************************************************)
LEMMA FreshSteps ==
  ASSUME TypeOK, NEW m \in Machines, Protected(m), Fresh(m)',
         AgentStep(m) \/ UserStep(m) \/ Restart(m)
  PROVE  /\ Fresh(m) /\ Blank(m)'
         /\ \/ catalog'[CatalogDir[m]] = catalog[CatalogDir[m]]
            \/ \E z \in Zips : LightroomBackup(m, z)
<1> DEFINE Shown == /\ Fresh(m) /\ Blank(m)'
                    /\ \/ catalog'[CatalogDir[m]] = catalog[CatalogDir[m]]
                       \/ \E z \in Zips : LightroomBackup(m, z)
<1>0. /\ lastSynced \in [Machines -> Nat] /\ stored \in [Machines -> Nat]
      /\ copied \in [Machines -> Seq(Nat)]
      /\ answered \in [Machines -> BOOLEAN] /\ paused \in [Machines -> BOOLEAN]
      /\ m \in FirstLaunch /\ ~answered'[m]
  BY DEF TypeOK, Fresh
<1>1. CASE UNCHANGED <<stamps, copied, doneEvt, answered, paused, step, catalog>>
  BY <1>1 DEF Fresh, Blank, Protected
<1>2. CASE \E z \in Zips : LightroomBackup(m, z)
  <2>1. UNCHANGED <<stamps, copied, doneEvt, answered, paused, step>>
    BY <1>2 DEF LightroomBackup
  <2> QED
    BY <1>2, <2>1 DEF Fresh, Blank, Protected
<1>3. CASE \/ Validate(m) \/ CreatePreSyncBackup(m) \/ PreSyncFails(m)
           \/ CleanupZipRetention(m) \/ CleanupCatalogArtifacts(m)
           \/ ExtractFails(m) \/ ExtractZip(m) \/ StartJob(m)
           \/ StartPresetJob(m) \/ PresetJobEnds(m) \/ OnSyncCompleted(m)
  <2>1. UNCHANGED answered
    BY <1>3 DEF Validate, CreatePreSyncBackup, PreSyncFails, ExtractZip,
      StartJob, CleanupZipRetention, CleanupCatalogArtifacts, ExtractFails,
      StartPresetJob, PresetJobEnds, OnSyncCompleted
  <2>2. step[m] # "idle" \/ ~paused[m] \/ doneEvt[m] # NoManifest
    BY <1>3 DEF Validate, CreatePreSyncBackup, PreSyncFails, ExtractZip,
      StartJob, CleanupZipRetention, CleanupCatalogArtifacts, ExtractFails,
      StartPresetJob, PresetJobEnds, OnSyncCompleted
  <2> QED
    BY <1>0, <2>1, <2>2 DEF Fresh, Blank, Protected
<1>4. CASE PauseOrResume(m)
  <2>1. answered'[m] = (answered[m] \/ paused[m])
    BY <1>0, <1>4, Zenon DEF PauseOrResume
  <2> QED
    BY <1>0, <2>1 DEF Fresh, Blank, Protected
<1>5. CASE OnboardResume(m) \/ OnboardSave(m)
  <2>1. answered'[m]
    BY <1>0, <1>5 DEF OnboardResume, OnboardSave
  <2> QED
    BY <1>0, <2>1
<1>6. CASE CopyConfig(m)
  <2>1. /\ UNCHANGED <<stamps, doneEvt, answered, paused, step, catalog>>
        /\ copied'[m] = <<lastSynced[m]>>
    BY <1>0, <1>6 DEF CopyConfig
  <2> QED
    BY <2>1 DEF Fresh, Blank, Protected
<1>7. CASE UpdateConfig(m)
  <2>1. /\ UNCHANGED <<doneEvt, answered, paused, step, catalog>>
        /\ copied[m] # <<>> /\ copied'[m] = <<>> /\ SaveStamp(m, copied[m][1])
    BY <1>0, <1>7 DEF UpdateConfig
  <2>2. Fresh(m) /\ Blank(m)
    BY <2>1 DEF Fresh, Protected
  <2>3. copied[m][1] = 0
    BY <2>1, <2>2 DEF Blank
  <2>4. lastSynced'[m] = 0 /\ stored'[m] \in {0, stored[m]}
    BY <2>1, <2>3, SaveTyped
  <2> QED
    BY <2>1, <2>2, <2>4 DEF Blank
<1>8. CASE Restart(m)
  <2>1. Fresh(m) /\ Blank(m)
    BY <1>8 DEF Restart, Fresh, Protected
  <2>2. UNCHANGED <<catalog, stored>>
    BY <1>8, <2>1 DEF Blank, Restart
  <2>3. /\ step'[m] = "idle" /\ doneEvt'[m] = NoManifest
        /\ copied'[m] = <<>> /\ lastSynced'[m] = stored[m]
    BY <1>8 DEF Restart, TypeOK, JobsOK
  <2>4. paused' = [paused EXCEPT ![m] = stored[m] = 0]
    BY <1>8 DEF Restart
  <2>5. stored[m] = 0
    BY <2>1 DEF Blank
  <2>6. paused'[m]
    BY <1>0, <2>4, <2>5
  <2> QED
    BY <2>1, <2>2, <2>3, <2>5, <2>6 DEF Blank
<1>9. \/ UNCHANGED <<stamps, copied, doneEvt, answered, paused, step, catalog>>
      \/ \E z \in Zips : LightroomBackup(m, z)
      \/ Validate(m) \/ CreatePreSyncBackup(m) \/ PreSyncFails(m)
      \/ CleanupZipRetention(m) \/ CleanupCatalogArtifacts(m)
      \/ ExtractFails(m) \/ ExtractZip(m) \/ StartJob(m)
      \/ StartPresetJob(m) \/ PresetJobEnds(m) \/ OnSyncCompleted(m)
      \/ PauseOrResume(m) \/ OnboardResume(m) \/ OnboardSave(m)
      \/ CopyConfig(m) \/ UpdateConfig(m) \/ Restart(m)
  BY DEF AgentStep, UserStep, LightroomStart, LightroomExit, ProbeLightroom,
    OnLocalBackupCreated, PublishFails, ScanBackups, ManualRestore,
    OnboardSync, CheckStartupManifest, StartupReadFails, PendManifest,
    QueueOrPend, RunPendingIfAny, PresetSyncAtStart, PresetSyncCalled,
    OnboardAsk, OnboardHidden, OnboardCallFails
<1> HIDE DEF Shown
<1>10. Shown
  BY <1>1, <1>2, <1>3, <1>4, <1>5, <1>6, <1>7, <1>8, <1>9 DEF Shown
<1> QED
  BY <1>10 DEF Shown

LEMMA ProtectedStep ==
  ASSUME OwnCatalogs, SyncInv, NEW m \in Machines,
         AgentStep(m) \/ UserStep(m) \/ Restart(m),
         NEW n \in Machines, Protected(n)
  PROVE  Protected(n)'
<1>0. TypeOK
  BY DEF SyncInv
<1> SUFFICES ASSUME Fresh(n)'
             PROVE  Blank(n)' /\ catalog'[CatalogDir[n]] \in Own(n)'
  BY DEF Protected
<1>1. CASE n # m
  <2>1. Rests(n) /\ Same(n)
    BY <1>0, <1>1, OthersRest, OthersStay
  <2>2. Fresh(n)
    BY <2>1 DEF Rests, Fresh
  <2>3. Blank(n)'
    BY <2>1, <2>2 DEF Rests, Same, Protected, Blank
  <2>4. catalog'[CatalogDir[n]] = catalog[CatalogDir[n]]
    BY <1>0, <1>1, OtherFilesStay, ConstantsTyped DEF OwnCatalogs, Files
  <2> QED
    BY <1>0, <2>2, <2>3, <2>4, OwnGrows DEF Protected
<1>2. CASE n = m
  <2>1. /\ Fresh(m) /\ Blank(m)'
        /\ \/ catalog'[CatalogDir[m]] = catalog[CatalogDir[m]]
           \/ \E z \in Zips : LightroomBackup(m, z)
    BY <1>0, <1>2, FreshSteps
  <2>2. CASE catalog'[CatalogDir[m]] = catalog[CatalogDir[m]]
    BY <1>0, <1>2, <2>1, <2>2, OwnGrows DEF Protected
  <2>3. CASE \E z \in Zips : LightroomBackup(m, z)
    <3>1. PICK z \in Zips : /\ maker' = [maker EXCEPT ![z] = m]
                            /\ catalog' = [catalog EXCEPT ![CatalogDir[m]] = z]
      BY <2>3 DEF LightroomBackup
    <3>2. maker'[z] = m /\ catalog'[CatalogDir[m]] = z
      BY <1>0, <3>1, ConstantsTyped DEF TypeOK
    <3> QED
      BY <1>2, <2>1, <3>2 DEF Own
  <2> QED
    BY <2>1, <2>2, <2>3
<1> QED
  BY <1>1, <1>2

(***************************************************************************)
(* A machine that has never synced keeps its own catalog until its user    *)
(* resumes syncing or answers the onboarding, through restarts, saves of   *)
(* its configuration and whatever the other machines publish (the          *)
(* auto-pause on an empty last_synced_timestamp).                          *)
(***************************************************************************)
THEOREM FirstLaunchProtectedHolds ==
  ASSUME OwnCatalogs
  PROVE  Spec => []FirstLaunchProtected
<1> DEFINE AllProtected == \A m \in Machines : Protected(m)
<1>1. Init => AllProtected
  <2> SUFFICES ASSUME Init, NEW m \in Machines, Fresh(m)
               PROVE  Blank(m) /\ catalog[CatalogDir[m]] \in Own(m)
    BY DEF Protected
  <2>1. m \in FirstLaunch
    BY DEF Fresh
  <2>2. /\ paused[m] /\ doneEvt[m] = NoManifest /\ copied[m] = <<>>
        /\ lastSynced[m] = 0 /\ stored[m] = 0
    BY <2>1 DEF Init
  <2>3. step[m] = "idle" /\ catalog[CatalogDir[m]] = CatalogDir[m]
    BY ConstantsTyped DEF Init
  <2> QED
    BY <2>2, <2>3 DEF Own, Blank
<1>2. AllProtected /\ SyncInv /\ [Next]_vars => AllProtected'
  <2> SUFFICES ASSUME AllProtected, SyncInv, [Next]_vars
               PROVE  AllProtected'
    OBVIOUS
  <2>1. CASE UNCHANGED vars
    BY <2>1 DEF vars, Protected, Fresh, Blank, Own
  <2>2. CASE Next
    BY <2>2, ProtectedStep DEF Next
  <2> QED
    BY <2>1, <2>2
<1>3. AllProtected => FirstLaunchProtected
  BY CatalogAssumption
  DEF CatalogAssumption, FirstLaunchProtected, Protected, Fresh, Own
<1> HIDE DEF AllProtected
<1> QED
  BY <1>1, <1>2, <1>3, SyncInvHolds, PTL DEF Spec

-----------------------------------------------------------------------------
(***************************************************************************)
(* The last whole content of a broken catalog is among its pre-sync        *)
(* copies, no further from the newest than copies were made since it broke. *)
(* So retention takes it only after max_catalog_backups of them.           *)
(***************************************************************************)
Copied(d) == \E i \in DOMAIN presync[d] : /\ presync[d][i] = lastGood[d]
                                          /\ Len(presync[d]) - i <= tries[d]
Counted(d) == ~touched[d] /\ tries[d] < MaxBackups
Safe(d) == /\ ~Broken(d) => lastGood[d] = catalog[d] /\ tries[d] = 0
           /\ Broken(d) /\ Counted(d) => Copied(d)

(***************************************************************************)
(* While m restores and Lightroom is closed, it stays closed or the        *)
(* restore counts as touched; and once the pre-sync copy is made there is  *)
(* one.                                                                    *)
(***************************************************************************)
Restores(m) == step[m] \notin {"idle", "preset"}
AfterCopy(m) == step[m] \in {"retain", "revalidate", "clean", "extract"}
Careful(m) ==
  LET d == CatalogDir[m] IN
  /\ ~touched[d] /\ Restores(m) => ~lr[m]
  /\ AfterCopy(m) /\ Counted(d) => Copied(d)

(***************************************************************************)
(* The worker restores for network syncs only.                             *)
(***************************************************************************)
Networked(m) == \A i \in DOMAIN jobs[m] : jobs[m][i].kind \in {"network", "preset"}
OnlySyncs == \A m \in Machines : Networked(m)

(***************************************************************************)
(* Retention keeps the newest in their order.                              *)
(***************************************************************************)
LEMMA KeepNewestKeeps ==
  ASSUME NEW S, NEW s \in Seq(S), NEW n \in Nat \ {0}, NEW i \in 1 .. Len(s),
         Len(s) - i < n
  PROVE  \E j \in 1 .. Len(KeepNewest(s, n)) :
            /\ KeepNewest(s, n)[j] = s[i]
            /\ Len(KeepNewest(s, n)) - j = Len(s) - i
<1>0. Len(s) \in Nat
  BY LenProperties
<1>1. CASE Len(s) <= n
  BY <1>1 DEF KeepNewest
<1>2. CASE ~(Len(s) <= n)
  <2> DEFINE a == Len(s) - n + 1
             t == SubSeq(s, a, Len(s))
             j == i - a + 1
  <2>1. KeepNewest(s, n) = t
    BY <1>2 DEF KeepNewest
  <2>2. a \in 1 .. Len(s) /\ \A k \in a .. Len(s) : s[k] \in S
    BY <1>0, <1>2, ElementOfSeq
  <2>3. Len(t) = n /\ \A k \in 1 .. n : t[k] = s[a + k - 1]
    BY <1>0, <1>2, <2>2, SubSeqProperties
  <2>4. j \in 1 .. n /\ a + j - 1 = i /\ n - j = Len(s) - i
    BY <1>0, <1>2
  <2> HIDE DEF a, t, j
  <2> QED
    BY <2>1, <2>3, <2>4
<1> QED
  BY <1>1, <1>2

(***************************************************************************)
(* A copy of a whole catalog is the newest; one of a broken catalog adds   *)
(* one to the distance of the others.                                      *)
(***************************************************************************)
CopyMade(d, c) ==
  /\ presync' \in {[presync EXCEPT ![d] = Append(presync[d], c)],
                   [presync EXCEPT ![d] = KeepNewest(Append(presync[d], c), MaxBackups)]}
  /\ tries' = [tries EXCEPT ![d] = IF Broken(d) THEN tries[d] + 1 ELSE tries[d]]

LEMMA CopyKeeps ==
  ASSUME TypeOK, NEW d \in Dirs, NEW c \in Contents \cup {Partial},
         CopyMade(d, c), lastGood'[d] = lastGood[d],
         tries'[d] < MaxBackups,
         \/ Broken(d) /\ Copied(d)
         \/ ~Broken(d) /\ c = lastGood[d]
  PROVE  Copied(d)'
<1> DEFINE S == Contents \cup {Partial}
           s == Append(presync[d], c)
           t == KeepNewest(s, MaxBackups)
<1>0. /\ presync \in [Dirs -> Seq(S)] /\ tries \in [Dirs -> Nat]
      /\ MaxBackups \in Nat \ {0}
  BY ConstantsTyped DEF TypeOK
<1>1. /\ s \in Seq(S) /\ Len(presync[d]) \in Nat /\ Len(s) = Len(presync[d]) + 1
      /\ \A i \in 1 .. Len(presync[d]) : s[i] = presync[d][i]
      /\ s[Len(s)] = c
  BY <1>0, AppendProperties, LenProperties
<1>2. presync'[d] = s \/ presync'[d] = t
  BY <1>0 DEF CopyMade
<1>3. tries'[d] = (IF Broken(d) THEN tries[d] + 1 ELSE tries[d])
  BY <1>0 DEF CopyMade
<1>4. tries[d] \in Nat /\ tries'[d] \in Nat
  BY <1>0, <1>3
<1>5. PICK i \in 1 .. Len(s) : s[i] = lastGood[d] /\ Len(s) - i <= tries'[d]
  <2>1. CASE Broken(d) /\ Copied(d)
    <3>1. PICK i \in DOMAIN presync[d] : /\ presync[d][i] = lastGood[d]
                                         /\ Len(presync[d]) - i <= tries[d]
      BY <2>1 DEF Copied
    <3>2. i \in 1 .. Len(presync[d])
      BY <1>0, <3>1, LenProperties
    <3>3. i \in 1 .. Len(s) /\ s[i] = lastGood[d] /\ Len(s) - i <= tries[d] + 1
      BY <1>1, <1>4, <3>1, <3>2
    <3>4. tries'[d] = tries[d] + 1
      BY <1>3, <2>1
    <3> QED
      BY <3>3, <3>4
  <2>2. CASE ~Broken(d) /\ c = lastGood[d]
    <3>1. Len(s) \in 1 .. Len(s) /\ s[Len(s)] = lastGood[d] /\ Len(s) - Len(s) <= tries'[d]
      BY <1>1, <1>4, <2>2
    <3> QED
      BY <3>1
  <2> QED
    BY <2>1, <2>2
<1> HIDE DEF s, t, S
<1>6. Len(s) - i < MaxBackups
  BY <1>0, <1>1, <1>4, <1>5
<1>7. PICK j \in 1 .. Len(t) : t[j] = s[i] /\ Len(t) - j = Len(s) - i
  BY <1>0, <1>1, <1>6, KeepNewestKeeps DEF t
<1>8. t \in Seq(S)
  BY <1>0, <1>1, KeepNewestTyped DEF t
<1>9. CASE presync'[d] = s
  <2>1. i \in DOMAIN presync'[d] /\ presync'[d][i] = lastGood'[d]
    BY <1>1, <1>5, <1>9, LenProperties
  <2> QED
    BY <1>5, <1>9, <2>1 DEF Copied
<1>10. CASE presync'[d] = t
  <2>1. j \in DOMAIN presync'[d] /\ presync'[d][j] = lastGood'[d]
    BY <1>5, <1>7, <1>8, <1>10, LenProperties
  <2>2. Len(presync'[d]) - j <= tries'[d]
    BY <1>5, <1>7, <1>10
  <2> QED
    BY <2>1, <2>2 DEF Copied
<1> QED
  BY <1>2, <1>9, <1>10

(***************************************************************************)
(* The contents that come from a backup are whole.                         *)
(***************************************************************************)
LEMMA ZipsWhole ==
  /\ \A z \in Zips : z \notin {Wiped, Partial} /\ z \in Contents
  /\ \A d \in Dirs : d \notin {Wiped, Partial}
BY CatalogAssumption DEF CatalogAssumption, Contents

(***************************************************************************)
(* The steps of m that keep its catalog recoverable, in three parts: those *)
(* of Lightroom, those up to the copy, and those after it.                 *)
(***************************************************************************)
Recovers(m) == Safe(CatalogDir[m]) /\ Careful(m)

LEMMA LightroomRecovers ==
  ASSUME TypeOK, NEW m \in Machines, Recovers(m),
         \/ LightroomStart(m) \/ LightroomExit(m)
         \/ \E z \in Zips : LightroomBackup(m, z)
  PROVE  Recovers(m)'
<1> DEFINE d == CatalogDir[m]
<1>0. /\ d \in Dirs
      /\ catalog \in [Dirs -> Contents \cup {Wiped, Partial}]
      /\ lastGood \in [Dirs -> Contents] /\ tries \in [Dirs -> Nat]
      /\ touched \in [Dirs -> BOOLEAN] /\ lr \in [Machines -> BOOLEAN]
  BY ConstantsTyped DEF TypeOK
<1>1. Safe(d) /\ Careful(m)
  BY DEF Recovers
<1>2. CASE LightroomStart(m)
  <2>1. UNCHANGED <<catalog, presync, lastGood, tries, step>> /\ ~Broken(d)
    BY <1>2 DEF LightroomStart
  <2>2. touched'[d] = (touched[d] \/ Restores(m))
    BY <1>0, <1>2, Zenon DEF LightroomStart, Restores
  <2>3. ~touched'[d] => ~touched[d] /\ ~Restores(m)
    BY <2>2
  <2>4. Safe(d)'
    BY <1>1, <2>1 DEF Safe, Broken
  <2>5. Careful(m)'
    BY <1>1, <2>1, <2>3 DEF Careful, Restores, AfterCopy, Counted
  <2> QED
    BY <2>4, <2>5 DEF Recovers
<1>3. CASE LightroomExit(m)
  <2>1. UNCHANGED <<catalog, presync, lastGood, tries, step, touched>> /\ ~lr'[m]
    BY <1>0, <1>3 DEF LightroomExit
  <2>2. Safe(d)'
    BY <1>1, <2>1 DEF Safe, Broken, Counted, Copied
  <2>3. Careful(m)'
    BY <1>1, <2>1 DEF Careful, Restores, AfterCopy, Counted, Copied
  <2> QED
    BY <2>2, <2>3 DEF Recovers
<1>4. CASE \E z \in Zips : LightroomBackup(m, z)
  <2>1. PICK z \in Zips : LightroomBackup(m, z)
    BY <1>4
  <2>2. /\ UNCHANGED <<presync, tries, step, touched, lr>> /\ ~Broken(d) /\ lr[m]
        /\ catalog'[d] = z /\ lastGood'[d] = z
    BY <1>0, <2>1 DEF LightroomBackup
  <2>3. ~Broken(d)'
    BY <2>2, ZipsWhole DEF Broken
  <2>4. Safe(d)'
    BY <1>1, <2>2, <2>3 DEF Safe
  <2>5. touched[d] \/ ~Restores(m)
    BY <1>1, <2>2 DEF Careful
  <2>6. Careful(m)'
    BY <2>2, <2>5 DEF Careful, Restores, AfterCopy, Counted
  <2> QED
    BY <2>4, <2>6 DEF Recovers
<1> QED
  BY <1>2, <1>3, <1>4

LEMMA BeforeCopyRecovers ==
  ASSUME TypeOK, OnlySyncs, NEW m \in Machines, Recovers(m),
         StartJob(m) \/ CreatePreSyncBackup(m) \/ PreSyncFails(m)
  PROVE  Recovers(m)'
<1> DEFINE d == CatalogDir[m]
<1>0. /\ d \in Dirs
      /\ catalog \in [Dirs -> Contents \cup {Wiped, Partial}]
      /\ lastGood \in [Dirs -> Contents] /\ tries \in [Dirs -> Nat]
      /\ touched \in [Dirs -> BOOLEAN] /\ lr \in [Machines -> BOOLEAN]
      /\ step \in [Machines -> Steps] /\ JobsOK
  BY ConstantsTyped DEF TypeOK, JobsOK
<1>1. Safe(d) /\ Careful(m)
  BY DEF Recovers
<1>2. CASE StartJob(m)
  <2>1. jobs[m] # <<>> /\ UNCHANGED <<catalog, presync, lastGood, tries, lr>>
    BY <1>2 DEF StartJob
  <2>2. Job(m).kind = "network"
    <3>1. Job(m) = jobs[m][1] /\ jobs[m] \in Seq(Jobs)
      BY <1>0, <2>1, JobTyped DEF JobsOK
    <3>2. 1 \in DOMAIN jobs[m]
      BY <2>1, <3>1
    <3>3. Job(m).kind # "preset"
      BY <1>2 DEF StartJob
    <3> QED
      BY <3>1, <3>2, <3>3 DEF OnlySyncs, Networked
  <2>3. step'[m] = "validate"
    BY <1>0, <1>2, <2>2 DEF StartJob
  <2>4. touched'[d] = (lr[m] \/ (Broken(d) /\ touched[d]))
    BY <1>0, <1>2, Zenon DEF StartJob
  <2>5. Safe(d)'
    BY <1>1, <2>1, <2>4 DEF Safe, Broken, Counted, Copied
  <2>6. Careful(m)'
    BY <2>1, <2>3, <2>4 DEF Careful, AfterCopy
  <2> QED
    BY <2>5, <2>6 DEF Recovers
<1>3. CASE CreatePreSyncBackup(m) \/ PreSyncFails(m)
  <2>1. /\ UNCHANGED <<catalog, lastGood, touched, lr>>
        /\ step[m] = "presync"
    BY <1>3 DEF CreatePreSyncBackup, PreSyncFails
  <2>2. \/ step'[m] = "idle"
        \/ CreatePreSyncBackup(m)
    BY <1>0, <1>3 DEF PreSyncFails, JobEnds
  <2>3. ASSUME Counted(d)', Broken(d) \/ CreatePreSyncBackup(m)
        PROVE  Copied(d)'
    <3>1. ~touched[d] /\ tries'[d] < MaxBackups
      BY <2>1, <2>3 DEF Counted
    <3>2. CASE UNCHANGED <<presync, tries>> /\ Broken(d)
      BY <1>1, <2>1, <3>1, <3>2 DEF Safe, Counted, Copied
    <3>3. CASE /\ catalog[d] # Wiped
               /\ \/ CreatePreSyncBackup(m) /\ CopyMade(d, catalog[d])
                  \/ Broken(d) /\ CopyMade(d, catalog[d])
                  \/ Broken(d) /\ CopyMade(d, Partial)
      <4>1. tries'[d] = (IF Broken(d) THEN tries[d] + 1 ELSE tries[d])
        BY <1>0, <3>3 DEF CopyMade
      <4>2. tries[d] \in Nat /\ MaxBackups \in Nat
        BY <1>0, ConstantsTyped
      <4>3. tries[d] < MaxBackups
        BY <3>1, <4>1, <4>2
      <4>4. Broken(d) => Copied(d)
        BY <1>1, <3>1, <4>3 DEF Safe, Counted
      <4>5. ~Broken(d) => catalog[d] = lastGood[d]
        BY <1>1 DEF Safe
      <4>6. catalog[d] \in Contents \cup {Partial}
        BY <1>0, <3>3
      <4> QED
        BY <1>0, <2>1, <3>1, <3>3, <4>4, <4>5, <4>6, CopyKeeps
    <3>4. \/ UNCHANGED <<presync, tries>> /\ (Broken(d) \/ catalog[d] = Wiped)
          \/ /\ catalog[d] # Wiped
             /\ \/ CreatePreSyncBackup(m) /\ CopyMade(d, catalog[d])
                \/ Broken(d) /\ CopyMade(d, catalog[d])
                \/ Broken(d) /\ CopyMade(d, Partial)
      <4>1. CASE CreatePreSyncBackup(m)
        BY <4>1 DEF CreatePreSyncBackup, CopyMade
      <4>2. CASE PreSyncFails(m) /\ Broken(d)
        BY <4>2 DEF PreSyncFails, CopyMade
      <4> QED
        BY <1>3, <2>3, <4>1, <4>2
    <3>5. catalog[d] = Wiped => Broken(d)
      BY DEF Broken
    <3> QED
      BY <3>2, <3>3, <3>4, <3>5
  <2>4. ~Broken(d) => tries'[d] = tries[d]
    <3>1. CASE UNCHANGED tries
      BY <3>1
    <3>2. CASE tries' = [tries EXCEPT ![d] = IF Broken(d) THEN tries[d] + 1 ELSE tries[d]]
      BY <1>0, <3>2
    <3> QED
      BY <1>3, <3>1, <3>2 DEF CreatePreSyncBackup, PreSyncFails
  <2>5. Safe(d)'
    <3>1. Broken(d)' <=> Broken(d)
      BY <2>1 DEF Broken
    <3> QED
      BY <1>1, <2>1, <2>3, <2>4, <3>1 DEF Safe
  <2>6. Careful(m)'
    <3>1. ~touched'[d] => ~lr'[m]
      BY <1>1, <2>1 DEF Careful, Restores
    <3>2. AfterCopy(m)' /\ Counted(d)' => Copied(d)'
      BY <2>2, <2>3 DEF AfterCopy
    <3> QED
      BY <3>1, <3>2 DEF Careful
  <2> QED
    BY <2>5, <2>6 DEF Recovers
<1> QED
  BY <1>2, <1>3

LEMMA AfterCopyRecovers ==
  ASSUME TypeOK, NEW m \in Machines, Recovers(m),
         \/ Validate(m) \/ CleanupZipRetention(m) \/ CleanupCatalogArtifacts(m)
         \/ ExtractZip(m) \/ ExtractFails(m)
  PROVE  Recovers(m)'
<1> DEFINE d == CatalogDir[m]
<1>0. /\ d \in Dirs
      /\ catalog \in [Dirs -> Contents \cup {Wiped, Partial}]
      /\ lastGood \in [Dirs -> Contents] /\ tries \in [Dirs -> Nat]
      /\ step \in [Machines -> Steps]
  BY ConstantsTyped DEF TypeOK, JobsOK
<1>1. Safe(d) /\ Careful(m)
  BY DEF Recovers
<1>2. Restores(m) /\ UNCHANGED <<presync, touched, lr>>
  BY DEF Validate, CleanupZipRetention, CleanupCatalogArtifacts, ExtractZip,
    ExtractFails, Restores
<1>3. CASE ExtractZip(m)
  <2>1. /\ step'[m] = "idle" /\ OnShelf(Job(m).zip)
        /\ catalog'[d] = Job(m).zip /\ lastGood'[d] = Job(m).zip /\ tries'[d] = 0
    BY <1>0, <1>3 DEF ExtractZip, JobEnds, Readable
  <2>2. Job(m).zip \in Zips
    BY <2>1, ShelfTyped DEF TypeOK
  <2>3. Safe(d)'
    BY <2>1, <2>2, ZipsWhole DEF Safe, Broken
  <2>4. Careful(m)'
    BY <2>1 DEF Careful, Restores, AfterCopy
  <2> QED
    BY <2>3, <2>4 DEF Recovers
<1>4. CASE ~ExtractZip(m)
  <2>1. UNCHANGED <<lastGood, tries>>
    BY <1>4 DEF Validate, CleanupZipRetention, CleanupCatalogArtifacts,
      ExtractFails
  <2>2. /\ catalog'[d] = catalog[d] \/ (AfterCopy(m) /\ Broken(d)')
        /\ AfterCopy(m)' => AfterCopy(m)
    <3>1. CASE Validate(m)
      <4>1. /\ UNCHANGED catalog
            /\ step[m] = "revalidate" \/ step'[m] \in {"presync", "idle"}
        BY <1>0, <3>1 DEF Validate, GoTo, JobEnds
      <4> QED
        BY <4>1 DEF AfterCopy
    <3>2. CASE CleanupZipRetention(m)
      BY <3>2 DEF CleanupZipRetention, AfterCopy
    <3>3. CASE CleanupCatalogArtifacts(m)
      <4>1. /\ step[m] = "clean"
            /\ catalog'[d] \in {catalog[d], Wiped, Partial}
        BY <1>0, <3>3 DEF CleanupCatalogArtifacts
      <4> QED
        BY <4>1 DEF AfterCopy, Broken
    <3>4. CASE ExtractFails(m)
      <4>1. /\ step[m] = "extract"
            /\ catalog'[d] \in {catalog[d], Partial}
        BY <1>0, <3>4 DEF ExtractFails
      <4> QED
        BY <4>1 DEF AfterCopy, Broken
    <3> QED
      BY <1>4, <3>1, <3>2, <3>3, <3>4
  <2>3. /\ Counted(d)' <=> Counted(d)
        /\ Copied(d)' <=> Copied(d)
    BY <1>2, <2>1 DEF Counted, Copied
  <2>4. Safe(d)'
    <3>1. CASE catalog'[d] = catalog[d]
      BY <1>1, <2>1, <2>3, <3>1 DEF Safe, Broken
    <3>2. CASE AfterCopy(m) /\ Broken(d)'
      BY <1>1, <2>3, <3>2 DEF Safe, Careful
    <3> QED
      BY <2>2, <3>1, <3>2
  <2>5. Careful(m)'
    BY <1>1, <1>2, <2>2, <2>3 DEF Careful
  <2> QED
    BY <2>4, <2>5 DEF Recovers
<1> QED
  BY <1>3, <1>4

LEMMA RestartRecovers ==
  ASSUME TypeOK, NEW m \in Machines, Recovers(m), Restart(m)
  PROVE  Recovers(m)'
<1> DEFINE d == CatalogDir[m]
<1>0. /\ d \in Dirs
      /\ catalog \in [Dirs -> Contents \cup {Wiped, Partial}]
      /\ tries \in [Dirs -> Nat] /\ step \in [Machines -> Steps]
  BY ConstantsTyped DEF TypeOK, JobsOK
<1>1. Safe(d) /\ Careful(m)
  BY DEF Recovers
<1>2. UNCHANGED <<lastGood, touched, lr>> /\ step'[m] = "idle"
  BY <1>0 DEF Restart
<1>3. Careful(m)'
  BY <1>2 DEF Careful, Restores, AfterCopy
<1>4. CASE UNCHANGED <<catalog, presync, tries>>
  <2>1. Safe(d)'
    BY <1>1, <1>2, <1>4 DEF Safe, Broken, Counted, Copied
  <2> QED
    BY <1>3, <2>1 DEF Recovers
<1>5. CASE AfterCopy(m) /\ Broken(d)' /\ UNCHANGED <<presync, tries>>
  <2>1. Safe(d)'
    BY <1>1, <1>2, <1>5 DEF Safe, Careful, Counted, Copied
  <2> QED
    BY <1>3, <2>1 DEF Recovers
<1>6. CASE CopyMade(d, Partial) /\ UNCHANGED catalog
  <2>1. /\ Broken(d)' <=> Broken(d)
        /\ tries'[d] = (IF Broken(d) THEN tries[d] + 1 ELSE tries[d])
    BY <1>0, <1>6 DEF Broken, CopyMade
  <2>2. ASSUME Broken(d), Counted(d)'
        PROVE  Copied(d)'
    <3>1. ~touched[d] /\ tries'[d] < MaxBackups
      BY <1>2, <2>2 DEF Counted
    <3>2. tries[d] \in Nat /\ MaxBackups \in Nat
      BY <1>0, ConstantsTyped
    <3>3. tries[d] < MaxBackups
      BY <2>1, <2>2, <3>1, <3>2
    <3>4. Copied(d)
      BY <1>1, <2>2, <3>1, <3>3 DEF Safe, Counted
    <3> QED
      BY <1>0, <1>2, <1>6, <2>2, <3>1, <3>4, CopyKeeps
  <2>3. Safe(d)'
    BY <1>1, <1>2, <1>6, <2>1, <2>2 DEF Safe
  <2> QED
    BY <1>3, <2>3 DEF Recovers
<1>7. \/ UNCHANGED <<catalog, presync, tries>>
      \/ /\ step[m] \in {"clean", "extract"}
         /\ catalog' = [catalog EXCEPT ![d] = Partial]
         /\ UNCHANGED <<presync, tries>>
      \/ CopyMade(d, Partial) /\ UNCHANGED catalog
  BY DEF Restart, CopyMade
<1>8. ASSUME step[m] \in {"clean", "extract"}, catalog' = [catalog EXCEPT ![d] = Partial]
      PROVE  AfterCopy(m) /\ Broken(d)'
  BY <1>0, <1>8 DEF AfterCopy, Broken
<1> QED
  BY <1>4, <1>5, <1>6, <1>7, <1>8

(***************************************************************************)
(* Every step, of m and of the others, and at the directories nobody       *)
(* restores into.                                                          *)
(***************************************************************************)
LEMMA ActorRecovers ==
  ASSUME TypeOK, OnlySyncs, NEW m \in Machines, Recovers(m),
         AgentStep(m) \/ UserStep(m) \/ Restart(m)
  PROVE  Recovers(m)'
<1>1. CASE UNCHANGED <<catalog, presync, lastGood, tries, touched, lr, step>>
  BY <1>1 DEF Recovers, Safe, Careful, Restores, AfterCopy, Broken, Counted, Copied
<1>3. CASE StartPresetJob(m) \/ PresetJobEnds(m)
  <2>1. /\ UNCHANGED <<catalog, presync, lastGood, tries, touched, lr>>
        /\ step'[m] \in {"idle", "preset"}
    BY <1>3 DEF StartPresetJob, PresetJobEnds, GoTo, JobEnds, TypeOK, JobsOK
  <2> QED
    BY <2>1 DEF Recovers, Safe, Careful, Restores, AfterCopy, Broken, Counted, Copied
<1>2. \/ UNCHANGED <<catalog, presync, lastGood, tries, touched, lr, step>>
      \/ LightroomStart(m) \/ LightroomExit(m)
      \/ \E z \in Zips : LightroomBackup(m, z)
      \/ StartJob(m) \/ CreatePreSyncBackup(m) \/ PreSyncFails(m)
      \/ Validate(m) \/ CleanupZipRetention(m) \/ CleanupCatalogArtifacts(m)
      \/ ExtractZip(m) \/ ExtractFails(m) \/ Restart(m)
      \/ StartPresetJob(m) \/ PresetJobEnds(m)
  BY DEF AgentStep, UserStep, ProbeLightroom, OnLocalBackupCreated,
    PublishFails, ScanBackups, PauseOrResume, OnboardResume, ManualRestore,
    OnboardSync, CheckStartupManifest, StartupReadFails, PendManifest,
    QueueOrPend, RunPendingIfAny, OnSyncCompleted, OnboardSave,
    PresetSyncAtStart, PresetSyncCalled, CopyConfig, UpdateConfig, OnboardAsk,
    OnboardHidden, OnboardCallFails
<1> QED
  BY <1>1, <1>2, <1>3, LightroomRecovers, BeforeCopyRecovers, AfterCopyRecovers,
    RestartRecovers

RecoverInv == /\ \A d \in Dirs : Safe(d)
              /\ \A m \in Machines : Careful(m)

LEMMA RecoverStep ==
  ASSUME OwnCatalogs, OnlySyncs, TypeOK, RecoverInv, NEW m \in Machines,
         AgentStep(m) \/ UserStep(m) \/ Restart(m)
  PROVE  RecoverInv'
<1>1. Recovers(m)'
  BY ActorRecovers, ConstantsTyped DEF RecoverInv, Recovers
<1>2. ASSUME NEW d \in Dirs, d # CatalogDir[m]
      PROVE  Safe(d)'
  <2>1. Files(d)' = Files(d)
    BY <1>2, OtherFilesStay
  <2> QED
    BY <2>1 DEF RecoverInv, Safe, Broken, Counted, Copied, Files
<1>3. ASSUME NEW n \in Machines, n # m
      PROVE  Careful(n)'
  <2>1. Files(CatalogDir[n])' = Files(CatalogDir[n])
    BY <1>3, OtherFilesStay, ConstantsTyped DEF OwnCatalogs
  <2>2. Rests(n)
    BY <1>3, OthersRest
  <2> QED
    BY <2>1, <2>2
    DEF RecoverInv, Careful, Restores, AfterCopy, Counted, Copied, Files, Rests
<1> QED
  BY <1>1, <1>2, <1>3 DEF RecoverInv, Recovers

(***************************************************************************)
(* While the worker restores for network syncs only, a catalog that a failed   *)
(* or interrupted one has left broken can be recovered from its pre-sync   *)
(* copies, whichever step failed, whatever failed again since, and whether *)
(* or not the agent restarted (CreatePreSyncBackup, RestoreCatalogFromZip, *)
(* the retention of both).                                                 *)
(***************************************************************************)
THEOREM RecoverableCatalogHolds ==
  ASSUME OwnCatalogs
  PROVE  Spec /\ []OnlySyncs => []RecoverableCatalog
<1>1. Init => RecoverInv
  <2> SUFFICES ASSUME Init PROVE RecoverInv
    OBVIOUS
  <2>1. \A d \in Dirs : catalog[d] = d /\ lastGood[d] = d /\ tries[d] = 0
    BY DEF Init
  <2>2. \A d \in Dirs : Safe(d)
    BY <2>1, ZipsWhole DEF Safe, Broken
  <2>3. \A m \in Machines : step[m] = "idle"
    BY DEF Init
  <2> QED
    BY <2>2, <2>3 DEF RecoverInv, Careful, Restores, AfterCopy
<1>2. RecoverInv /\ SyncInv /\ OnlySyncs /\ [Next]_vars => RecoverInv'
  <2> SUFFICES ASSUME RecoverInv, SyncInv, OnlySyncs, [Next]_vars
               PROVE  RecoverInv'
    OBVIOUS
  <2>1. CASE UNCHANGED vars
    BY <2>1 DEF vars, RecoverInv, Safe, Careful, Restores, AfterCopy, Broken,
      Counted, Copied
  <2>2. CASE Next
    BY <2>2, RecoverStep DEF Next, SyncInv
  <2> QED
    BY <2>1, <2>2
<1>3. RecoverInv => RecoverableCatalog
  BY DEF RecoverInv, Safe, Counted, Copied, RecoverableCatalog
<1> QED
  BY <1>1, <1>2, <1>3, SyncInvHolds, PTL DEF Spec

-----------------------------------------------------------------------------
(***************************************************************************)
(* Where machines have onboarded, nobody gives commands and config.yaml is *)
(* saved whole, no dialog ever shows, and the worker is given network      *)
(* syncs and preset cycles only.                                           *)
(***************************************************************************)
NoCommands == /\ FirstLaunch = {} /\ UnsafeSaves = {}
              /\ \A m \in Machines : MaxManual[m] = 0
Counts == [restarts : Nat, opens : Nat, manual : Nat]
Settled(n) == /\ lastSynced[n] # 0 /\ stored[n] # 0
              /\ ui[n] = "none" /\ copied[n] = <<>>
NetworkedInv == /\ used \in [Machines -> Counts]
                /\ \A n \in Machines : Networked(n) /\ Settled(n)

(***************************************************************************)
(* The count of commands stays a number.                                   *)
(***************************************************************************)
LEMMA UsedTyped ==
  ASSUME used \in [Machines -> Counts], NEW m \in Machines,
         AgentStep(m) \/ UserStep(m) \/ Restart(m)
  PROVE  used' \in [Machines -> Counts]
<1>1. /\ [used[m] EXCEPT !.opens = @ + 1] \in Counts
      /\ [used[m] EXCEPT !.restarts = @ + 1] \in Counts
      /\ [used[m] EXCEPT !.manual = @ + 1] \in Counts
  BY DEF Counts
<1>2. CASE \E c \in Counts : used' = [used EXCEPT ![m] = c]
  BY <1>2
<1>3. CASE LightroomStart(m)
  BY <1>1, <1>2, <1>3 DEF LightroomStart
<1>4. CASE Restart(m)
  BY <1>1, <1>2, <1>4 DEF Restart
<1>5. CASE ManualRestore(m) \/ PauseOrResume(m) \/ CopyConfig(m) \/ OnboardCallFails(m)
  BY <1>1, <1>2, <1>5
  DEF ManualRestore, PauseOrResume, CopyConfig, OnboardCallFails, Command
<1>6. \/ LightroomStart(m) \/ Restart(m) \/ ManualRestore(m) \/ PauseOrResume(m)
      \/ CopyConfig(m) \/ OnboardCallFails(m) \/ UNCHANGED used
  BY DEF AgentStep, UserStep, LightroomExit, ProbeLightroom, LightroomBackup,
    OnLocalBackupCreated, PublishFails, ScanBackups, OnboardResume, Validate,
    CreatePreSyncBackup, PreSyncFails, CleanupZipRetention,
    CleanupCatalogArtifacts, ExtractFails, ExtractZip, StartJob, OnboardSync,
    CheckStartupManifest, StartupReadFails, PendManifest, QueueOrPend,
    RunPendingIfAny, OnSyncCompleted, OnboardSave, PresetSyncAtStart,
    PresetSyncCalled, StartPresetJob, PresetJobEnds, UpdateConfig, OnboardAsk,
    OnboardHidden
<1> QED
  BY <1>3, <1>4, <1>5, <1>6

(***************************************************************************)
(* Without commands and dialogs the user of m only works in Lightroom.     *)
(***************************************************************************)
LEMMA OnlyLightroom ==
  ASSUME NoCommands, NetworkedInv, NEW m \in Machines
  PROVE  /\ ~ManualRestore(m) /\ ~PauseOrResume(m) /\ ~CopyConfig(m)
         /\ ~UpdateConfig(m) /\ ~OnboardAsk(m) /\ ~OnboardHidden(m)
         /\ ~OnboardSave(m) /\ ~OnboardResume(m) /\ ~OnboardSync(m)
         /\ ~OnboardCallFails(m)
<1>1. used[m].manual \in Nat /\ MaxManual[m] = 0 /\ Settled(m)
  BY DEF NetworkedInv, Counts, NoCommands
<1>2. ~Command(m)
  BY <1>1 DEF Command
<1>3. /\ ~ManualRestore(m) /\ ~PauseOrResume(m) /\ ~CopyConfig(m)
      /\ ~OnboardCallFails(m)
  BY <1>2 DEF ManualRestore, PauseOrResume, CopyConfig, OnboardCallFails
<1>4. /\ ~UpdateConfig(m) /\ ~OnboardAsk(m) /\ ~OnboardHidden(m)
      /\ ~OnboardSave(m) /\ ~OnboardResume(m) /\ ~OnboardSync(m)
  BY <1>1 DEF Settled, UpdateConfig, OnboardAsk, OnboardHidden, OnboardSave,
    OnboardResume, OnboardSync
<1> QED
  BY <1>3, <1>4

LEMMA SettledStays ==
  ASSUME TypeOK, NoCommands, NetworkedInv, NEW m \in Machines,
         AgentStep(m) \/ UserStep(m) \/ Restart(m)
  PROVE  /\ \A n \in Machines : n # m => ui'[n] = ui[n]
         /\ Settled(m)'
<1>1. Settled(m) /\ clock \in Nat
  BY DEF NetworkedInv, TypeOK
<1>2. UNCHANGED ui
  BY OnlyLightroom
  DEF AgentStep, UserStep, LightroomStart, LightroomExit, ProbeLightroom,
    LightroomBackup, OnLocalBackupCreated, PublishFails, ScanBackups, Validate,
    CreatePreSyncBackup, PreSyncFails, CleanupZipRetention,
    CleanupCatalogArtifacts, ExtractFails, ExtractZip, StartJob,
    CheckStartupManifest, StartupReadFails, PendManifest, QueueOrPend,
    RunPendingIfAny, OnSyncCompleted, PresetSyncAtStart, PresetSyncCalled,
    StartPresetJob, PresetJobEnds, Restart
<1>3. CASE UNCHANGED <<stamps, copied>>
  BY <1>1, <1>2, <1>3 DEF Settled
<1>4. CASE OnSyncCompleted(m)
  <2>1. clock' = clock + 1 /\ UNCHANGED copied /\ m \notin UnsafeSaves
    BY <1>4 DEF OnSyncCompleted, NoCommands
  <2>2. /\ lastSynced' = [lastSynced EXCEPT ![m] = clock']
        /\ stored' = [stored EXCEPT ![m] = clock']
    BY <1>4, <2>1 DEF OnSyncCompleted, SaveStamp
  <2>3. lastSynced'[m] = clock + 1 /\ stored'[m] = clock + 1
    BY <2>1, <2>2 DEF TypeOK
  <2> QED
    BY <1>1, <1>2, <2>1, <2>3 DEF Settled
<1>5. CASE Restart(m)
  <2>1. /\ lastSynced'[m] = stored[m] /\ UNCHANGED stored /\ copied'[m] = <<>>
    BY <1>5 DEF Restart, TypeOK
  <2> QED
    BY <1>1, <1>2, <2>1 DEF Settled
<1>6. \/ UNCHANGED <<stamps, copied>> \/ OnSyncCompleted(m) \/ Restart(m)
  BY OnlyLightroom
  DEF AgentStep, UserStep, LightroomStart, LightroomExit, ProbeLightroom,
    LightroomBackup, OnLocalBackupCreated, PublishFails, ScanBackups, Validate,
    CreatePreSyncBackup, PreSyncFails, CleanupZipRetention,
    CleanupCatalogArtifacts, ExtractFails, ExtractZip, StartJob,
    CheckStartupManifest, StartupReadFails, PendManifest, QueueOrPend,
    RunPendingIfAny, PresetSyncAtStart, PresetSyncCalled, StartPresetJob,
    PresetJobEnds
<1> QED
  BY <1>2, <1>3, <1>4, <1>5, <1>6

LEMMA NetworkedStays ==
  ASSUME SyncInv, NoCommands, NetworkedInv, NEW m \in Machines,
         AgentStep(m) \/ UserStep(m) \/ Restart(m)
  PROVE  Networked(m)'
<1>0. /\ TypeOK /\ JobsOK /\ OneSync(m) /\ Networked(m)
      /\ jobs[m] \in Seq(Jobs)
  BY DEF SyncInv, TypeOK, NetworkedInv, JobsOK
<1>1. CASE jobs'[m] = jobs[m]
  BY <1>0, <1>1 DEF Networked
<1>2. CASE step[m] # "idle" /\ JobEnds(m)
  <2>1. jobs[m] # <<>> /\ jobs'[m] = Tail(jobs[m])
    BY <1>0, <1>2 DEF JobsOK, JobEnds
  <2>2. \A i \in DOMAIN jobs'[m] : /\ i + 1 \in DOMAIN jobs[m]
                                  /\ jobs'[m][i] = jobs[m][i + 1]
    BY <1>0, <2>1, HeadTailProperties, LenProperties
  <2> QED
    BY <1>0, <2>2 DEF Networked
<1>3. CASE StartJob(m)
  <2>1. jobs[m] # <<>>
    BY <1>3 DEF StartJob
  <2>2. Job(m) = jobs[m][1] /\ 1 \in DOMAIN jobs[m]
    BY <1>0, <2>1, JobTyped
  <2>3. Job(m).kind # "latest"
    BY <1>0, <2>2 DEF Networked
  <2>4. jobs' = jobs
    BY <1>3, <2>3 DEF StartJob
  <2> QED
    BY <1>1, <2>4
<1>5. ASSUME NEW job \in Jobs, job.kind \in {"network", "preset"}, Enqueue(m, job)
      PROVE  Networked(m)'
  <2>1. jobs'[m] = Append(jobs[m], job)
    BY <1>0, <1>5 DEF Enqueue, JobsOK
  <2>2. \A i \in DOMAIN jobs'[m] : \/ i \in DOMAIN jobs[m] /\ jobs'[m][i] = jobs[m][i]
                                  \/ jobs'[m][i] = job
    BY <1>0, <2>1, AppendProperties, LenProperties
  <2> QED
    BY <1>0, <1>5, <2>2 DEF Networked
<1>4. ASSUME NEW man \in Manifests, Enqueue(m, NetworkJob(man))
      PROVE  Networked(m)'
  <2>1. NetworkJob(man) \in Jobs /\ NetworkJob(man).kind = "network"
    BY JobsTyped DEF NetworkJob
  <2> QED
    BY <1>4, <1>5, <2>1
<1>6. CASE QueueOrPend(m)
  <2>1. UNCHANGED jobs \/ Enqueue(m, NetworkJob(cand[m]))
    BY <1>6 DEF QueueOrPend
  <2>2. cand[m] \in Manifests
    BY <1>0, <1>6 DEF QueueOrPend, OneSync, Decided, TypeOK, MaybeManifest
  <2> QED
    BY <1>1, <1>4, <2>1, <2>2
<1>7. CASE RunPendingIfAny(m)
  <2>1. \/ UNCHANGED jobs
        \/ pending[m] # NoManifest /\ Enqueue(m, NetworkJob(pending[m]))
    BY <1>7 DEF RunPendingIfAny
  <2>2. pending[m] # NoManifest => pending[m] \in Manifests
    BY <1>0 DEF TypeOK, MaybeManifest
  <2> QED
    BY <1>1, <1>4, <2>1, <2>2
<1>8. CASE Restart(m)
  BY <1>0, <1>8 DEF Restart, JobsOK, Networked
<1>9. CASE PresetSyncAtStart(m) \/ PresetSyncCalled(m)
  <2>1. UNCHANGED jobs \/ Enqueue(m, PresetJob)
    BY <1>9 DEF PresetSyncAtStart, PresetSyncCalled, EnqueueOrReject
  <2>2. PresetJob.kind = "preset"
    BY DEF PresetJob
  <2> QED
    BY <1>1, <1>5, <2>1, <2>2, JobsTyped
<1>10. \/ jobs'[m] = jobs[m] \/ (step[m] # "idle" /\ JobEnds(m)) \/ StartJob(m)
       \/ QueueOrPend(m) \/ RunPendingIfAny(m) \/ Restart(m)
       \/ PresetSyncAtStart(m) \/ PresetSyncCalled(m)
  BY OnlyLightroom
  DEF AgentStep, UserStep, LightroomStart, LightroomExit, ProbeLightroom,
    LightroomBackup, OnLocalBackupCreated, PublishFails, ScanBackups, Validate,
    CreatePreSyncBackup, PreSyncFails, CleanupZipRetention,
    CleanupCatalogArtifacts, ExtractFails, ExtractZip, CheckStartupManifest,
    StartupReadFails, PendManifest, OnSyncCompleted, StartPresetJob,
    PresetJobEnds, GoTo
<1> QED
  BY <1>1, <1>2, <1>3, <1>6, <1>7, <1>8, <1>9, <1>10

LEMMA NetworkedStep ==
  ASSUME SyncInv, NoCommands, NetworkedInv, NEW m \in Machines,
         AgentStep(m) \/ UserStep(m) \/ Restart(m)
  PROVE  NetworkedInv'
<1>0. TypeOK
  BY DEF SyncInv
<1>1. ASSUME NEW n \in Machines, n # m
      PROVE  (Networked(n) /\ Settled(n))'
  <2>1. jobs'[n] = jobs[n] /\ Same(n)
    BY <1>0, <1>1, OthersStay
  <2>2. ui'[n] = ui[n]
    BY <1>0, <1>1, SettledStays
  <2>3. Networked(n) /\ Settled(n)
    BY DEF NetworkedInv
  <2> QED
    BY <2>1, <2>2, <2>3 DEF Networked, Settled, Same
<1>2. (Networked(m) /\ Settled(m))'
  BY <1>0, SettledStays, NetworkedStays
<1>3. used' \in [Machines -> Counts]
  BY UsedTyped DEF NetworkedInv
<1> QED
  BY <1>1, <1>2, <1>3 DEF NetworkedInv

(***************************************************************************)
(* Between onboarded machines whose users give no commands and whose saves *)
(* of config.yaml are whole, a catalog left broken by a sync can be        *)
(* recovered, with no assumption on the behaviour.                         *)
(***************************************************************************)
THEOREM RecoverableWithoutCommands ==
  ASSUME OwnCatalogs, NoCommands
  PROVE  Spec => []RecoverableCatalog
<1>1. Init => NetworkedInv
  <2> SUFFICES ASSUME Init PROVE NetworkedInv
    OBVIOUS
  <2>1. used \in [Machines -> Counts]
    BY DEF Init, Counts
  <2>2. ASSUME NEW n \in Machines
        PROVE  Networked(n) /\ Settled(n)
    <3>1. /\ jobs[n] = <<>> /\ ui[n] = "none" /\ copied[n] = <<>>
          /\ lastSynced[n] = Epoch /\ stored[n] = Epoch
      BY DEF Init, NoCommands
    <3> QED
      BY <3>1 DEF Networked, Settled, Epoch
  <2> QED
    BY <2>1, <2>2 DEF NetworkedInv
<1>2. NetworkedInv /\ SyncInv /\ [Next]_vars => NetworkedInv'
  <2> SUFFICES ASSUME NetworkedInv, SyncInv, [Next]_vars
               PROVE  NetworkedInv'
    OBVIOUS
  <2>1. CASE UNCHANGED vars
    BY <2>1 DEF vars, NetworkedInv, Networked, Settled
  <2>2. CASE Next
    BY <2>2, NetworkedStep DEF Next
  <2> QED
    BY <2>1, <2>2
<1>3. NetworkedInv => OnlySyncs
  BY DEF NetworkedInv, OnlySyncs
<1>4. Spec => []OnlySyncs
  BY <1>1, <1>2, <1>3, SyncInvHolds, PTL DEF Spec
<1> QED
  BY <1>4, RecoverableCatalogHolds, PTL
=============================================================================
