--------------------------- MODULE SyncOrderProofs ---------------------------
(***************************************************************************)
(* That the worker starts every job Enqueue accepted once and in order, by *)
(* the laws of concatenation.                                              *)
(***************************************************************************)
EXTENDS SyncWorkerProofs, SequenceTheorems

(***************************************************************************)
(* The job held back by the pause gate, as a sequence of at most one.      *)
(***************************************************************************)
LEMMA HeldTyped ==
  ASSUME TypeOK
  PROVE  Held \in Seq(Jobs) /\ started \o Held \in Seq(Jobs)
<1>1. Held \in Seq(Jobs)
  BY DEF TypeOK, Held
<1>2. started \in Seq(Jobs)
  BY DEF TypeOK, ChannelsOK
<1> QED
  BY <1>1, <1>2, ConcatProperties

(***************************************************************************)
(* A sequence that is not empty is its head followed by its tail.          *)
(***************************************************************************)
LEMMA HeadThenTail ==
  ASSUME NEW S, NEW q \in Seq(S), q # <<>>
  PROVE  q = <<Head(q)>> \o Tail(q)
<1>1. Len(q) \in Nat \ {0}
  BY EmptySeq
<1>2. q = SubSeq(q, 1, Len(q)) /\ q[1] = Head(q)
  BY SubSeqFull
<1>3. SubSeq(q, 1, Len(q)) = <<q[1]>> \o SubSeq(q, 1 + 1, Len(q))
  BY <1>1, SubSeqRecursiveFirst
<1>4. Tail(q) = SubSeq(q, 2, Len(q))
  BY TailIsSubSeq
<1> QED
  BY <1>2, <1>3, <1>4

(***************************************************************************)
(* Enqueue, on a full queue as well, keeps the order.                      *)
(***************************************************************************)
LEMMA EnqueueKeepsOrder ==
  ASSUME TypeOK, AcceptedOrder, NEW j \in Jobs, Enqueue(j),
         UNCHANGED <<wpc, cur, started>>
  PROVE  AcceptedOrder'
<1> DEFINE past == started \o Held
<1>1. past \in Seq(Jobs) /\ queue \in Seq(Jobs) /\ accepted \in Seq(Jobs)
  BY HeldTyped DEF TypeOK, ChannelsOK
<1>2. past' = past
  BY DEF Held
<1>3. CASE Len(queue) < QueueSize
  <2>1. queue' = Append(queue, j) /\ accepted' = Append(accepted, j)
    BY <1>3 DEF Enqueue
  <2>2. <<j>> \in Seq(Jobs)
    OBVIOUS
  <2>3. queue' = queue \o <<j>> /\ accepted' = accepted \o <<j>>
    BY <1>1, <2>1, AppendIsConcat
  <2>4. accepted \o <<j>> = past \o (queue \o <<j>>)
    BY <1>1, <2>2, ConcatAssociative DEF AcceptedOrder
  <2> QED
    BY <1>2, <2>3, <2>4 DEF AcceptedOrder
<1>4. CASE ~(Len(queue) < QueueSize)
  BY <1>2, <1>4 DEF Enqueue, AcceptedOrder
<1> QED
  BY <1>3, <1>4

(***************************************************************************)
(* Taking a job from the channel, it becomes the one held.                 *)
(***************************************************************************)
LEMMA DequeueKeepsOrder ==
  ASSUME TypeOK, OrderInv, Dequeue
  PROVE  OrderInv'
<1>1. Held = <<>>
  BY DEF OrderInv, Dequeue, Held
<1>2. queue \in Seq(Jobs) /\ queue # <<>> /\ started \in Seq(Jobs)
  BY DEF TypeOK, ChannelsOK, Dequeue
<1>3. cur' \in Jobs /\ queue' \in Seq(Jobs)
  BY <1>2, ReceiveTyped DEF Dequeue
<1>4. Held' = <<cur'>>
  <2>1. cur' # NoJob
    BY <1>3, WorkerAssumption DEF WorkerAssumption
  <2> QED
    BY <2>1 DEF Dequeue, Held
<1>5. queue = <<cur'>> \o queue'
  BY <1>2, HeadThenTail DEF Dequeue
<1>6. started \o queue = (started \o <<cur'>>) \o queue'
  <2>1. <<cur'>> \in Seq(Jobs)
    BY <1>3
  <2> QED
    BY <1>2, <1>3, <1>5, <2>1, ConcatAssociative
<1>7. accepted = started \o queue
  BY <1>1, <1>2, ConcatEmptySeq DEF OrderInv, AcceptedOrder
<1> QED
  BY <1>4, <1>6, <1>7 DEF Dequeue, OrderInv, AcceptedOrder, history

(***************************************************************************)
(* Past the gate, the job held is the one started.                         *)
(***************************************************************************)
LEMMA BeginKeepsOrder ==
  ASSUME WorkerInv, OrderInv, BeginSync
  PROVE  OrderInv'
<1>1. cur \in Jobs /\ cur # NoJob /\ started \in Seq(Jobs)
  BY WorkerAssumption
  DEF WorkerInv, TypeOK, ChannelsOK, BeginSync, WorkerAssumption
<1>2. Held = <<cur>> /\ Held' = <<>>
  BY <1>1 DEF BeginSync, Held
<1>3. started' = started \o <<cur>> /\ started' \in Seq(Jobs)
  BY <1>1, AppendIsConcat DEF BeginSync
<1>4. started' \o Held' = started \o Held
  BY <1>2, <1>3, ConcatEmptySeq
<1> QED
  BY <1>4 DEF BeginSync, OrderInv, AcceptedOrder

(***************************************************************************)
(* Every other step of the worker leaves the channel and the job it holds  *)
(* back as they are; every step of the other goroutines but an Enqueue     *)
(* does not touch them.                                                    *)
(***************************************************************************)
LEMMA OtherStepsKeepOrder ==
  ASSUME WorkerInv, OrderInv,
         \/ StopIdle \/ PassGate \/ HeldAtGate \/ Wake \/ StopWaiting
         \/ Announce \/ Validate \/ Progress \/ Execute \/ Report
         \/ ClearSyncing \/ ResetJob
         \/ Pause \/ Resume
         \/ \E j \in Jobs : RequestSync(j)
         \/ ScanExpired \/ OnAlert
         \/ LightroomChange \/ Dispatch \/ Shutdown
         \/ UNCHANGED vars
  PROVE  OrderInv'
<1>1. UNCHANGED <<queue, accepted, started>>
  BY DEF StopIdle, PassGate, HeldAtGate, Wake, StopWaiting, Announce,
    Validate, Progress, Execute, Report, ClearSyncing, ResetJob, Pause,
    Resume, RequestSync, ScanExpired, OnAlert, LightroomChange, Dispatch,
    Shutdown, vars, history
<1>2. Held' = Held /\ (wpc' = "select" => cur' = NoJob)
  BY DEF OrderInv, Held, StopIdle, PassGate, HeldAtGate, Wake, StopWaiting,
    Announce, Validate, Progress, Execute, Report, ClearSyncing, ResetJob,
    Pause, Resume, RequestSync, ScanExpired, OnAlert, LightroomChange,
    Dispatch, Shutdown, vars, history
<1> QED
  BY <1>1, <1>2 DEF OrderInv, AcceptedOrder

(***************************************************************************)
(* One step keeps the order.                                               *)
(***************************************************************************)
LEMMA OrderInvStep ==
  ASSUME WorkerInv, OrderInv, [Next]_vars
  PROVE  OrderInv'
<1>0. TypeOK
  BY DEF WorkerInv
<1>1. CASE Dequeue
  BY <1>0, <1>1, DequeueKeepsOrder
<1>2. CASE BeginSync
  BY <1>2, BeginKeepsOrder
<1>3. ASSUME NEW j \in Jobs, EnqueueJob(j)
      PROVE  OrderInv'
  <2>1. AcceptedOrder'
    BY <1>0, <1>3, EnqueueKeepsOrder DEF OrderInv, EnqueueJob
  <2> QED
    BY <1>3, <2>1 DEF OrderInv, EnqueueJob
<1>4. CASE EnqueueRequest
  <2>1. request \in Jobs
    BY <1>0, <1>4 DEF TypeOK, EnqueueRequest
  <2>2. AcceptedOrder'
    BY <1>0, <1>4, <2>1, EnqueueKeepsOrder DEF OrderInv, EnqueueRequest
  <2> QED
    BY <1>4, <2>2 DEF OrderInv, EnqueueRequest
<1> QED
  BY <1>1, <1>2, <1>3, <1>4, OtherStepsKeepOrder DEF Next, Work

(***************************************************************************)
(* Every job accepted by SyncWorker.Enqueue is started once and in the     *)
(* order of acceptance, or is still held at the pause gate or queued,      *)
(* whatever the pauses, resumes, failures and the shutdown.                *)
(***************************************************************************)
THEOREM AcceptedInOrder == Spec => []AcceptedOrder
<1>1. Init => OrderInv
  <2> SUFFICES ASSUME Init
               PROVE  OrderInv
    OBVIOUS
  <2>1. Held = <<>>
    BY DEF Init, Held
  <2>2. <<>> \o <<>> = <<>>
    BY EmptySeq, ConcatEmptySeq
  <2> QED
    BY <2>1, <2>2 DEF Init, OrderInv, AcceptedOrder
<1>2. WorkerInv /\ OrderInv /\ [Next]_vars => OrderInv'
  BY OrderInvStep
<1>3. OrderInv => AcceptedOrder
  BY DEF OrderInv
<1> QED
  BY <1>1, <1>2, <1>3, WorkerInvHolds, PTL DEF Spec

=============================================================================
