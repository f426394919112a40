------------------------- MODULE OperatorSafetyProofs -------------------------
(***************************************************************************)
(* The inductive invariant of Operator and what follows from it.  Steps    *)
(* are grouped by what they do to the copies of the resource; one lemma    *)
(* per group.                                                              *)
(***************************************************************************)
EXTENDS OperatorProofs

control == <<cr, cache, mem, current, pc, queued>>

\* The initial states satisfy the invariant.
LEMMA InitSafe == Init => Safe
  <1> SUFFICES ASSUME Init PROVE Safe
      OBVIOUS
  <1>1. PICK s \in Specs, f \in ForeignChoices :
           cr = [Absent EXCEPT !.exists = TRUE, !.foreign = f, !.spec = s]
    BY DEF Init
  <1>2. /\ cr.exists /\ ~cr.deleting /\ ~cr.finalizer
        /\ cr.status.finished = {}
    BY <1>1 DEF Absent, NoStatus
  <1>3. /\ ~Absent.exists /\ ~Absent.deleting /\ ~Absent.finalizer
        /\ Absent.status.finished = {}
    BY DEF Absent, NoStatus
  <1>4. /\ cache = Absent /\ mem = Absent /\ current = FALSE /\ pc = "idle"
        /\ workloads = {}
    BY DEF Init
  <1> QED
    BY <1>2, <1>3, <1>4
       DEF Safe, Existence, DeletionOrder, RecordedWhenDeleting, Ordered,
           FinalizerOrder, Truthful, Remembered, FinalizerBeforeWorkloads,
           Busy, DeletionPC, Doomed, PrefixClosed, Effects

\* Steps of pods, jobs, nodes and volumes leave every copy of the resource
\* alone, and start pods only for deployed components.
LEMMA QuietStep ==
    ASSUME IInv, UNCHANGED control, workloads' \subseteq workloads,
           mongo' => mongo, pods' \subseteq pods \cup workloads
    PROVE  Safe'
  <1> USE DEF IInv, Safe, control
  <1>1. Existence'
    BY DEF Existence, Busy
  <1>2. DeletionOrder'
    BY DEF DeletionOrder, Busy, Doomed
  <1>3. RecordedWhenDeleting'
    BY DEF RecordedWhenDeleting, Busy
  <1>4. Ordered'
    BY DEF Ordered, PrefixClosed
  <1>5. FinalizerOrder'
    BY DEF FinalizerOrder, Busy
  <1>6. Truthful'
    <2>1. ASSUME NEW st, Effects(st), PrefixClosed(st)
          PROVE  /\ removeAllWorkloads \in st.finished => workloads' = {}
                 /\ waitForWorkloadsToFinish \in st.finished
                       => "core" \notin pods' /\ "csi" \notin pods'
                 /\ removeMongo \in st.finished => ~mongo'
      BY <2>1 DEF Effects, PrefixClosed, Stage, removeAllWorkloads,
                  waitForWorkloadsToFinish
    <2> QED
      BY <2>1 DEF Truthful, Effects, Ordered
  <1>7. Remembered'
    BY DEF Remembered
  <1>8. FinalizerBeforeWorkloads'
    BY DEF FinalizerBeforeWorkloads
  <1> QED
    BY <1>1, <1>2, <1>3, <1>4, <1>5, <1>6, <1>7, <1>8

\* Steps that only touch the queue: an entry may be taken out of it only when
\* the informer knows of no deletion.
LEMMA QueueStep ==
    ASSUME IInv, UNCHANGED <<cr, cache, mem, current, pc, workloads, pods, mongo>>,
           queued' \/ ~cache.deleting
    PROVE  Safe'
  <1> USE DEF IInv, Safe
  <1>1. Existence'
    BY DEF Existence, Busy
  <1>2. DeletionOrder'
    BY DEF DeletionOrder, Busy, Doomed
  <1>3. RecordedWhenDeleting'
    BY DEF RecordedWhenDeleting, Busy
  <1>4. Ordered'
    BY DEF Ordered, PrefixClosed
  <1>5. FinalizerOrder'
    BY DEF FinalizerOrder, Busy
  <1>6. Truthful'
    BY DEF Truthful, Effects
  <1>7. Remembered'
    BY DEF Remembered
  <1>8. FinalizerBeforeWorkloads'
    BY DEF FinalizerBeforeWorkloads
  <1> QED
    BY <1>1, <1>2, <1>3, <1>4, <1>5, <1>6, <1>7, <1>8

\* The informer catches up: it knows what the API server knows.  A deletion it
\* learns of changes the generation, so it is queued.
LEMMA CacheSyncSafe == ASSUME IInv, CacheSync PROVE Safe'
  <1> USE DEF IInv, Safe
  <1>0. /\ cache' = cr
        /\ UNCHANGED <<cr, mem, current, pc, workloads, pods, mongo>>
    BY DEF CacheSync, world, kube
  <1>q. ~queued' => ~queued /\ cache.deleting = cr.deleting
    <2>1. ~queued' => ~queued /\ Generation(cache) = Generation(cr)
      BY DEF CacheSync
    <2> QED
      BY <2>1 DEF Generation
  <1>1. Existence'
    BY <1>0 DEF Existence, Busy
  <1>2. DeletionOrder'
    BY <1>0 DEF DeletionOrder, Busy, Doomed
  <1>3. RecordedWhenDeleting'
    BY <1>0 DEF RecordedWhenDeleting, Busy
  <1>4. Ordered'
    BY <1>0 DEF Ordered, PrefixClosed
  <1>5. FinalizerOrder'
    BY <1>0 DEF FinalizerOrder, Busy
  <1>6. Truthful'
    BY <1>0 DEF Truthful, Effects
  <1>7. Remembered'
    BY <1>0, <1>q DEF Remembered
  <1>8. FinalizerBeforeWorkloads'
    BY <1>0 DEF FinalizerBeforeWorkloads
  <1> QED
    BY <1>1, <1>2, <1>3, <1>4, <1>5, <1>6, <1>7, <1>8

\* Nothing is said of a copy that is not there.
LEMMA AbsentFields ==
    /\ Absent.exists = FALSE /\ Absent.deleting = FALSE
    /\ Absent.finalizer = FALSE /\ Absent.status.finished = {}
  BY DEF Absent, NoStatus

\* After a crash the informer lists the resource afresh, and queues it.
LEMMA CrashSafe == ASSUME IInv, Crash PROVE Safe'
  <1> USE DEF IInv, Safe
  <1>0. /\ cache' = cr /\ mem' = Absent /\ current' = FALSE /\ pc' = "idle"
        /\ UNCHANGED <<cr, workloads, pods, mongo>>
    BY DEF Crash, kube
  <1>q. queued' = cr.exists
    BY DEF Crash
  <1> USE AbsentFields
  <1>1. Existence'
    BY <1>0 DEF Existence, Busy
  <1>2. DeletionOrder'
    BY <1>0 DEF DeletionOrder, Busy, Doomed, DeletionPC
  <1>3. RecordedWhenDeleting'
    BY <1>0 DEF RecordedWhenDeleting, Busy
  <1>4. Ordered'
    BY <1>0 DEF Ordered, PrefixClosed
  <1>5. FinalizerOrder'
    BY <1>0 DEF FinalizerOrder, Busy
  <1>6. Truthful'
    BY <1>0 DEF Truthful, Effects
  <1>7. Remembered'
    BY <1>0, <1>q DEF Remembered, Existence
  <1>8. FinalizerBeforeWorkloads'
    BY <1>0 DEF FinalizerBeforeWorkloads
  <1> QED
    BY <1>1, <1>2, <1>3, <1>4, <1>5, <1>6, <1>7, <1>8

\* A write that is not the operator's makes its copy stale; it may request
\* deletion of a resource that is not being deleted, or let it vanish.
LEMMA UserWrite ==
    ASSUME IInv, UNCHANGED <<cache, mem, pc, queued, workloads, pods, mongo>>,
           current' = FALSE,
           \/ cr' = Absent
           \/ /\ cr.exists /\ cr'.exists /\ cr'.finalizer = cr.finalizer
              /\ cr'.status = cr.status
              /\ cr'.deleting = cr.deleting \/ (~cr.deleting /\ cr'.deleting)
    PROVE  Safe'
  <1> USE AbsentFields DEF IInv, Safe
  <1>1. Existence'
    BY DEF Existence, Busy
  <1>2. DeletionOrder'
    BY DEF DeletionOrder, Busy, Doomed
  <1>3. RecordedWhenDeleting'
    BY DEF RecordedWhenDeleting, Busy
  <1>4. Ordered'
    BY DEF Ordered, PrefixClosed
  <1>5. FinalizerOrder'
    BY DEF FinalizerOrder, Busy
  <1>6. Truthful'
    BY DEF Truthful, Effects
  <1>7. Remembered'
    BY DEF Remembered, DeletionOrder, Doomed
  <1>8. FinalizerBeforeWorkloads'
    BY DEF FinalizerBeforeWorkloads
  <1> QED
    BY <1>1, <1>2, <1>3, <1>4, <1>5, <1>6, <1>7, <1>8

\* Every step of the environment keeps the invariant.
LEMMA EnvironmentSafe == IInv /\ Environment => Safe'
  <1> SUFFICES ASSUME IInv, Environment PROVE Safe'
      OBVIOUS
  <1>1. CASE CacheSync
    BY <1>1, CacheSyncSafe
  <1>2. CASE OwnedObjectEvent
    BY <1>2, QueueStep DEF OwnedObjectEvent, world, kube
  <1>3. CASE Crash
    BY <1>3, CrashSafe
  <1>4. ASSUME NEW j \in Job, JobViewSync(j) PROVE Safe'
    BY <1>4, QuietStep DEF JobViewSync, kube, control
  <1>5. ASSUME NEW j \in Job, JobSucceeds(j) PROVE Safe'
    BY <1>5, QuietStep DEF JobSucceeds, reconciler, control
  <1>6. ASSUME NEW j \in Job, JobFails(j) PROVE Safe'
    BY <1>6, QuietStep DEF JobFails, UserFrame, kube, control
  <1>7. ASSUME NEW c \in Components, PodsStart(c) PROVE Safe'
    BY <1>7, QuietStep DEF PodsStart, reconciler, control
  <1>8. ASSUME NEW c \in Components, PodsStop(c) PROVE Safe'
    BY <1>8, QuietStep DEF PodsStop, reconciler, control
  <1>9. CASE ClearDbJobGivesUp
    BY <1>9, QuietStep DEF ClearDbJobGivesUp, reconciler, kube, control
  <1>10. CASE ClaimCreated
    BY <1>10, QuietStep DEF ClaimCreated, reconciler, control
  <1>11. CASE GarbageCollect
    BY <1>11, QuietStep DEF GarbageCollect, reconciler, control
  <1>12. CASE DeleteCR
    <2>1. \/ cr' = Absent
          \/ /\ cr.exists /\ cr'.exists /\ cr'.finalizer = cr.finalizer
             /\ cr'.status = cr.status /\ ~cr.deleting /\ cr'.deleting
      BY <1>12 DEF DeleteCR, IInv, TypeOK, NVMeshType
    <2> QED
      BY <1>12, <2>1, UserWrite DEF DeleteCR, UserFrame, world, kube
  <1>13. CASE EditSpec
    <2>1. /\ cr.exists /\ cr'.exists /\ cr'.finalizer = cr.finalizer
          /\ cr'.status = cr.status /\ cr'.deleting = cr.deleting
      BY <1>13 DEF EditSpec, IInv, TypeOK, NVMeshType
    <2> QED
      BY <1>13, <2>1, UserWrite DEF EditSpec, UserFrame, world, kube
  <1>14. CASE RemoveForeign
    <2>1. \/ cr' = Absent
          \/ /\ cr.exists /\ cr'.exists /\ cr'.finalizer = cr.finalizer
             /\ cr'.status = cr.status /\ cr'.deleting = cr.deleting
      BY <1>14 DEF RemoveForeign, IInv, TypeOK, NVMeshType
    <2> QED
      BY <1>14, <2>1, UserWrite DEF RemoveForeign, UserFrame, world, kube
  <1>15. ASSUME NEW n \in Nodes, LabelNode(n) PROVE Safe'
    BY <1>15, QuietStep DEF LabelNode, UserFrame, control
  <1>16. CASE ChangeVolumes
    BY <1>16, QuietStep DEF ChangeVolumes, UserFrame, kube, control
  <1>17. CASE ReleaseVolumes
    BY <1>17, QuietStep DEF ReleaseVolumes, UserFrame, kube, control
  <1> QED
    BY <1>1, <1>2, <1>3, <1>4, <1>5, <1>6, <1>7, <1>8, <1>9, <1>10, <1>11,
       <1>12, <1>13, <1>14, <1>15, <1>16, <1>17 DEF Environment

-------------------------------------------------------------------------------
(* The cycle up to the decision to delete *)

\* A cycle starts from the informer's copy.  When that copy shows a deletion
\* under our finalizer, the entry it takes from the queue is being worked on.
LEMMA FetchSafe == ASSUME IInv, ReconcileFetch PROVE Safe'
  <1> USE DEF IInv, Safe
  <1>0. /\ mem' = cache /\ pc = "idle" /\ cache.exists
        /\ pc' \in {"serviceAccount", "manageError"}
        /\ UNCHANGED <<cr, cache, workloads, pods, mongo>>
    BY DEF ReconcileFetch, Goto, world, kube
  <1>c. current' => cache = cr
    BY DEF ReconcileFetch
  <1>1. Existence'
    BY <1>0, <1>c DEF Existence, Busy
  <1>2. DeletionOrder'
    BY <1>0, <1>c DEF DeletionOrder, Busy, Doomed, DeletionPC
  <1>3. RecordedWhenDeleting'
    BY <1>0 DEF RecordedWhenDeleting, Busy
  <1>4. Ordered'
    BY <1>0 DEF Ordered, PrefixClosed
  <1>5. FinalizerOrder'
    BY <1>0 DEF FinalizerOrder, Busy
  <1>6. Truthful'
    BY <1>0 DEF Truthful, Effects
  <1>7. Remembered'
    BY <1>0 DEF Remembered, FinalizerOrder
  <1>8. FinalizerBeforeWorkloads'
    BY <1>0 DEF FinalizerBeforeWorkloads
  <1> QED
    BY <1>1, <1>2, <1>3, <1>4, <1>5, <1>6, <1>7, <1>8

\* A step that only moves the cycle on, to a place its copy allows.
LEMMA MoveOn ==
    ASSUME IInv, UNCHANGED <<cr, cache, mem, current, queued, workloads, pods, mongo>>,
           Busy, Busy', pc # "manageError",
           pc' # "waitForUninstallCompletion",
           pc' \in DeletionPC => mem.deleting /\ mem.finalizer,
           pc' = "reconcileAllComponents" => mem.deleting = ~mem.finalizer,
           Remembered'
    PROVE  Safe'
  <1> USE DEF IInv, Safe
  <1>1. Existence'
    BY DEF Existence, Busy
  <1>2. DeletionOrder'
    BY DEF DeletionOrder, Busy, Doomed
  <1>3. RecordedWhenDeleting'
    BY DEF RecordedWhenDeleting, Busy
  <1>4. Ordered'
    BY DEF Ordered, PrefixClosed
  <1>5. FinalizerOrder'
    BY DEF FinalizerOrder, Busy
  <1>6. Truthful'
    BY DEF Truthful, Effects
  <1>8. FinalizerBeforeWorkloads'
    BY DEF FinalizerBeforeWorkloads
  <1> QED
    BY <1>1, <1>2, <1>3, <1>4, <1>5, <1>6, <1>8

\* The steps before the decision: service account, handleFinalizer and the
\* checks that precede deletion.
LEMMA DecisionSafe ==
    ASSUME IInv, \/ makeSureServiceAccountExists
                 \/ handleFinalizer
                 \/ isAllowedToDeleteCluster
    PROVE  Safe'
  <1> USE DEF IInv, Safe
  <1>0. mem.deleting \in BOOLEAN /\ mem.finalizer \in BOOLEAN
    BY FieldTypes DEF TypeOK
  <1>1. CASE makeSureServiceAccountExists
    <2>1. /\ pc = "serviceAccount" /\ pc' \in {"handleFinalizer", "manageError"}
          /\ UNCHANGED <<cr, cache, mem, current, queued, workloads, pods, mongo>>
      BY <1>1 DEF makeSureServiceAccountExists, Goto
    <2>2. Remembered'
      BY <2>1 DEF Remembered
    <2> QED
      BY <2>1, <2>2, MoveOn DEF Busy, DeletionPC
  <1>2. CASE handleFinalizer
    <2>1. /\ pc = "handleFinalizer"
          /\ UNCHANGED <<cr, cache, mem, current, queued, workloads, pods, mongo>>
      BY <1>2 DEF handleFinalizer, world, kube
    <2>2. \/ mem.deleting /\ mem.finalizer /\ pc' = "isAllowedToDelete"
          \/ /\ mem.deleting = ~mem.finalizer
             /\ pc' = "reconcileAllComponents"
      BY <1>0, <1>2 DEF handleFinalizer, Goto
    <2>3. Remembered'
      BY <1>0, <2>1, <2>2 DEF Remembered, DeletionPC
    <2> QED
      BY <1>0, <2>1, <2>2, <2>3, MoveOn DEF Busy, DeletionPC
  <1>3. CASE isAllowedToDeleteCluster
    <2>1. /\ pc = "isAllowedToDelete" /\ pc' \in {"uninstallCluster", "manageError"}
          /\ UNCHANGED <<cr, cache, mem, current, queued, workloads, pods, mongo>>
      BY <1>3 DEF isAllowedToDeleteCluster, Goto, world, kube
    <2>2. mem.deleting /\ mem.finalizer
      BY <2>1 DEF DeletionOrder, DeletionPC
    <2>3. Remembered'
      BY <2>1, <2>2 DEF Remembered, DeletionPC
    <2> QED
      BY <2>1, <2>2, <2>3, MoveOn DEF Busy, DeletionPC
  <1> QED
    BY <1>1, <1>2, <1>3

\* The finalizer is added only to the resource as it is now, which nobody is
\* deleting: no stage is recorded anywhere.
LEMMA AddFinalizerSafe == ASSUME IInv, addFinalizerAndUpdate PROVE Safe'
  <1> USE DEF IInv, Safe
  <1>0. /\ pc = "handleFinalizer" /\ ~mem.deleting /\ mem.exists
        /\ UNCHANGED <<cache, current, queued, workloads, pods, mongo>>
    BY DEF addFinalizerAndUpdate, world, kube, Existence, Busy
  <1>a. /\ cr.status.finished = {} /\ cache.status.finished = {}
        /\ mem.status.finished = {}
    BY <1>0 DEF RecordedWhenDeleting, Busy
  <1>1. CASE /\ current /\ mem' = cr' /\ pc' = "reconcileAllComponents"
             /\ cr' = [cr EXCEPT !.finalizer = TRUE, !.spec = mem.spec]
    <2>0. cr.exists /\ cr.deleting = FALSE
      BY <1>0, <1>1, FieldTypes DEF DeletionOrder, Existence, TypeOK
    <2>1. /\ cr'.exists /\ cr'.deleting = FALSE /\ cr'.finalizer = TRUE
          /\ cr'.status = cr.status
      BY <1>1, <2>0 DEF TypeOK, NVMeshType
    <2>e. Existence'
      BY <1>0, <1>1, <2>0, <2>1 DEF Existence, Busy
    <2>2. DeletionOrder'
      BY <1>0, <1>1, <2>0, <2>1 DEF DeletionOrder, Busy, Doomed, DeletionPC
    <2>3. RecordedWhenDeleting'
      BY <1>0, <1>1, <1>a, <2>1 DEF RecordedWhenDeleting, Busy
    <2>4. Ordered'
      BY <1>0, <1>1, <1>a, <2>1 DEF Ordered, PrefixClosed
    <2>5. FinalizerOrder'
      BY <1>0, <1>1, <2>0, <2>1 DEF FinalizerOrder, Busy, DeletionOrder, Doomed
    <2>6. Truthful'
      BY <1>0, <1>1, <1>a, <2>1 DEF Truthful, Effects
    <2>7. Remembered'
      BY <2>1 DEF Remembered
    <2>8. FinalizerBeforeWorkloads'
      BY <2>1 DEF FinalizerBeforeWorkloads
    <2> QED
      BY <2>e, <2>2, <2>3, <2>4, <2>5, <2>6, <2>7, <2>8
  <1>2. CASE /\ mem' = [mem EXCEPT !.finalizer = TRUE] /\ pc' = "manageError"
             /\ UNCHANGED cr
    <2>1. mem'.exists /\ mem'.deleting = mem.deleting /\ mem'.status = mem.status
      BY <1>0, <1>2 DEF TypeOK, NVMeshType
    <2>e. Existence'
      BY <1>0, <1>2, <2>1 DEF Existence, Busy
    <2>2. DeletionOrder'
      BY <1>0, <1>2, <2>1 DEF DeletionOrder, Busy, Doomed, DeletionPC
    <2>3. RecordedWhenDeleting'
      BY <1>0, <1>2, <1>a, <2>1 DEF RecordedWhenDeleting, Busy
    <2>4. Ordered'
      BY <1>0, <1>2, <2>1 DEF Ordered, PrefixClosed
    <2>5. FinalizerOrder'
      BY <1>0, <1>2 DEF FinalizerOrder, Busy
    <2>6. Truthful'
      BY <1>0, <1>2, <2>1 DEF Truthful, Effects
    <2>7. Remembered'
      BY <1>0, <1>2 DEF Remembered
    <2>8. FinalizerBeforeWorkloads'
      BY <1>0, <1>2 DEF FinalizerBeforeWorkloads
    <2> QED
      BY <2>e, <2>2, <2>3, <2>4, <2>5, <2>6, <2>7, <2>8
  <1> QED
    BY <1>1, <1>2 DEF addFinalizerAndUpdate, Goto

-------------------------------------------------------------------------------
(* The stages *)

\* What every step of uninstallCluster does: the copy stays the copy of a
\* resource under deletion, its stages stay in order, and what it calls
\* finished is true after the step.
LEMMA StageStep ==
    ASSUME IInv, UNCHANGED <<cr, cache, current, queued, pods>>,
           workloads' \subseteq workloads, mongo' => mongo,
           pc \in {"uninstallCluster", "waitForUninstallCompletion"},
           pc' \in DeletionPC \cup {"manageError"},
           mem'.exists = mem.exists, mem'.deleting = mem.deleting,
           mem'.finalizer = mem.finalizer, PrefixClosed(mem'.status),
           pc' = "waitForUninstallCompletion" => 1..5 \subseteq mem'.status.finished,
           cr.finalizer => Effects(mem.status)' 
    PROVE  Safe'
  <1> USE DEF IInv, Safe
  <1>0. /\ mem.deleting /\ mem.finalizer /\ mem.exists
        /\ Doomed(cr) /\ Doomed(cache)
    BY DEF DeletionOrder, DeletionPC, Busy, Existence
  <1>1. Existence'
    BY <1>0 DEF Existence, Busy, DeletionPC
  <1>2. DeletionOrder'
    BY <1>0 DEF DeletionOrder, Busy, Doomed
  <1>3. RecordedWhenDeleting'
    BY <1>0 DEF RecordedWhenDeleting, Busy
  <1>4. Ordered'
    BY DEF Ordered, PrefixClosed
  <1>5. FinalizerOrder'
    BY <1>0 DEF FinalizerOrder, Busy, DeletionPC, Doomed
  <1>6. Truthful'
    BY DEF Truthful, Effects
  <1>7. Remembered'
    BY <1>0 DEF Remembered, DeletionPC
  <1>8. FinalizerBeforeWorkloads'
    BY DEF FinalizerBeforeWorkloads
  <1> QED
    BY <1>1, <1>2, <1>3, <1>4, <1>5, <1>6, <1>7, <1>8

\* The three ways a stage ends, as changes of the copy.
LEMMA StageEnd ==
    ASSUME IInv
    PROVE  /\ \A s \in Stage : StageFinished(s) =>
                 /\ mem'.exists = mem.exists /\ mem'.deleting = mem.deleting
                 /\ mem'.finalizer = mem.finalizer
                 /\ mem'.status.finished = mem.status.finished \cup {s}
                 /\ pc' = "uninstallCluster"
           /\ StageRequeue \/ StageError \/ mem' = Started =>
                 /\ mem'.exists = mem.exists /\ mem'.deleting = mem.deleting
                 /\ mem'.finalizer = mem.finalizer
                 /\ mem'.status.finished = mem.status.finished
           /\ StageRequeue \/ StageError
                 => pc' \in {"updateUninstallStatus", "manageError"}
  <1>1. ASSUME NEW s \in Stage, StageFinished(s)
        PROVE  /\ mem'.exists = mem.exists /\ mem'.deleting = mem.deleting
               /\ mem'.finalizer = mem.finalizer
               /\ mem'.status.finished = mem.status.finished \cup {s}
               /\ pc' = "uninstallCluster"
    BY <1>1 DEF IInv, TypeOK, NVMeshType, StatusType, StageFinished
  <1>2. ASSUME mem' = Started
        PROVE  /\ mem'.exists = mem.exists /\ mem'.deleting = mem.deleting
               /\ mem'.finalizer = mem.finalizer
               /\ mem'.status.finished = mem.status.finished
    BY <1>2 DEF IInv, TypeOK, NVMeshType, StatusType, Started
  <1> QED
    BY <1>1, <1>2 DEF StageRequeue, StageError, Goto

\* Finishing the first unfinished stage keeps the order of the list.
LEMMA FinishKeepsOrder ==
    ASSUME IInv, NEW s \in Stage, 1..(s - 1) \subseteq mem.status.finished,
           mem'.status.finished = mem.status.finished \cup {s}
    PROVE  PrefixClosed(mem'.status)
  BY DEF IInv, Safe, Ordered, PrefixClosed, Stage

\* A stage that ends without finishing says nothing new.
LEMMA UnfinishedStage ==
    ASSUME IInv, pc \in {"uninstallCluster", "waitForUninstallCompletion"},
           UNCHANGED <<cr, cache, current, queued, pods>>,
           workloads' \subseteq workloads, mongo' => mongo,
           StageRequeue \/ StageError
    PROVE  Safe'
  <1>1. /\ mem'.exists = mem.exists /\ mem'.deleting = mem.deleting
        /\ mem'.finalizer = mem.finalizer
        /\ mem'.status.finished = mem.status.finished
        /\ pc' \in {"updateUninstallStatus", "manageError"}
    BY StageEnd
  <1>2. PrefixClosed(mem'.status)
    BY <1>1 DEF PrefixClosed, IInv, Safe, Ordered
  <1>3. cr.finalizer => Effects(mem.status)'
    BY <1>1 DEF Effects, IInv, Safe, Truthful
  <1> QED
    BY <1>1, <1>2, <1>3, StageStep DEF DeletionPC

\* A stage that finishes says what its work made true.
LEMMA FinishedStage ==
    ASSUME IInv, pc \in {"uninstallCluster", "waitForUninstallCompletion"},
           UNCHANGED <<cr, cache, current, queued, pods>>,
           workloads' \subseteq workloads, mongo' => mongo,
           NEW s \in Stage, StageFinished(s),
           1..(s - 1) \subseteq mem.status.finished,
           s = removeAllWorkloads => workloads' = {},
           s = waitForWorkloadsToFinish => "core" \notin pods /\ "csi" \notin pods,
           s = removeMongo => ~mongo'
    PROVE  Safe'
  <1>1. /\ mem'.exists = mem.exists /\ mem'.deleting = mem.deleting
        /\ mem'.finalizer = mem.finalizer
        /\ mem'.status.finished = mem.status.finished \cup {s}
        /\ pc' = "uninstallCluster"
    BY StageEnd
  <1>2. PrefixClosed(mem'.status)
    BY <1>1, FinishKeepsOrder
  <1>3. cr.finalizer => Effects(mem.status)'
    BY <1>1 DEF Effects, IInv, Safe, Truthful
  <1> QED
    BY <1>1, <1>2, <1>3, StageStep DEF DeletionPC

\* The loop reaches a stage only when the stages before it are finished.
LEMMA AtStagePrefix ==
    ASSUME NEW s \in Stage, AtStage(s)
    PROVE  pc = "uninstallCluster" /\ 1..(s - 1) \subseteq mem.status.finished
  BY DEF AtStage

\* Every step of the uninstall keeps the invariant.
LEMMA UninstallSafe == ASSUME IInv, uninstallCluster PROVE Safe'
  <1> USE DEF StageFrame
  <1>0. removeAllWorkloads \in Stage /\ waitForWorkloadsToFinish \in Stage
        /\ clearDB \in Stage /\ waitForClearDBToFinish \in Stage
        /\ removeMongo \in Stage /\ uninstallClusterNodes \in Stage
        /\ deletePVCs \in Stage /\ deleteClusterServiceAccount \in Stage
    BY DEF Stage, removeAllWorkloads, waitForWorkloadsToFinish, clearDB,
           waitForClearDBToFinish, removeMongo, uninstallClusterNodes,
           deletePVCs, deleteClusterServiceAccount
  <1>d. \* the stages without an effect of their own
        ASSUME NEW s \in {clearDB, waitForClearDBToFinish, uninstallClusterNodes,
                          deletePVCs, deleteClusterServiceAccount}
        PROVE  /\ s \in Stage /\ s # removeAllWorkloads
               /\ s # waitForWorkloadsToFinish /\ s # removeMongo
    BY DEF Stage, removeAllWorkloads, waitForWorkloadsToFinish, clearDB,
           waitForClearDBToFinish, removeMongo, uninstallClusterNodes,
           deletePVCs, deleteClusterServiceAccount
  <1>1. CASE SkipUninstall
    <2>1. /\ pc = "uninstallCluster" /\ pc' = "removeFinalizer"
          /\ UNCHANGED <<cr, cache, mem, current, queued, workloads, pods, mongo>>
      BY <1>1 DEF SkipUninstall, Goto, world, kube
    <2>2. mem.deleting /\ mem.finalizer
      BY <2>1 DEF IInv, Safe, DeletionOrder, DeletionPC
    <2>3. Remembered'
      BY <2>1, <2>2 DEF IInv, Safe, Remembered, DeletionPC
    <2> QED
      BY <2>1, <2>2, <2>3, MoveOn DEF Busy, DeletionPC
  <1>2. CASE removeAllWorkloadsExceptMongo
    <2>1. /\ UNCHANGED <<cr, cache, current, queued, pods, mongo>>
          /\ workloads' \subseteq workloads
      BY <1>2 DEF removeAllWorkloadsExceptMongo
    <2>2. CASE StageError
      BY <1>0, <1>2, <2>1, <2>2, UnfinishedStage, AtStagePrefix
         DEF removeAllWorkloadsExceptMongo
    <2>3. CASE StageFinished(removeAllWorkloads) /\ workloads' = {}
      BY <1>0, <1>2, <2>1, <2>3, FinishedStage, AtStagePrefix
         DEF removeAllWorkloadsExceptMongo, removeAllWorkloads,
             waitForWorkloadsToFinish, removeMongo
    <2> QED
      BY <1>2, <2>2, <2>3 DEF removeAllWorkloadsExceptMongo
  <1>3. CASE WaitForWorkloadsToFinish
    <2>1. UNCHANGED <<cr, cache, current, queued, pods, workloads, mongo>>
      BY <1>3 DEF WaitForWorkloadsToFinish
    <2>2. CASE StageError \/ StageRequeue
      BY <1>0, <1>3, <2>1, <2>2, UnfinishedStage, AtStagePrefix
         DEF WaitForWorkloadsToFinish
    <2>3. CASE StageFinished(waitForWorkloadsToFinish) /\ AwaitedPods = {}
      BY <1>0, <1>3, <2>1, <2>3, FinishedStage, AtStagePrefix
         DEF WaitForWorkloadsToFinish, AwaitedPods, removeAllWorkloads,
             waitForWorkloadsToFinish, removeMongo
    <2> QED
      BY <1>3, <2>2, <2>3 DEF WaitForWorkloadsToFinish
  <1>4. CASE RunClearDbJob
    <2>1. UNCHANGED <<cr, cache, current, queued, pods, workloads, mongo>>
      BY <1>4 DEF RunClearDbJob
    <2>2. CASE StageError
      BY <1>0, <1>4, <2>1, <2>2, UnfinishedStage, AtStagePrefix DEF RunClearDbJob
    <2>3. CASE StageFinished(clearDB)
      BY <1>d, <1>4, <2>1, <2>3, FinishedStage, AtStagePrefix DEF RunClearDbJob
    <2> QED
      BY <1>4, <2>2, <2>3 DEF RunClearDbJob
  <1>5. CASE WaitForClearDBToFinish
    <2>1. UNCHANGED <<cr, cache, current, queued, pods, workloads, mongo>>
      BY <1>5 DEF WaitForClearDBToFinish
    <2>2. CASE StageError \/ StageRequeue
      BY <1>0, <1>5, <2>1, <2>2, UnfinishedStage, AtStagePrefix
         DEF WaitForClearDBToFinish
    <2>3. CASE StageFinished(waitForClearDBToFinish)
      BY <1>d, <1>5, <2>1, <2>3, FinishedStage, AtStagePrefix
         DEF WaitForClearDBToFinish
    <2> QED
      BY <1>5, <2>2, <2>3 DEF WaitForClearDBToFinish
  <1>6. CASE RemoveMongo
    <2>1. UNCHANGED <<cr, cache, current, queued, pods, workloads>>
      BY <1>6 DEF RemoveMongo
    <2>2. mongo' => mongo
      BY <1>6 DEF RemoveMongo
    <2>3. CASE StageError
      BY <1>0, <1>6, <2>1, <2>2, <2>3, UnfinishedStage, AtStagePrefix DEF RemoveMongo
    <2>4. CASE StageFinished(removeMongo) /\ mongo' = FALSE
      BY <1>0, <1>6, <2>1, <2>2, <2>4, FinishedStage, AtStagePrefix
         DEF RemoveMongo, removeAllWorkloads, waitForWorkloadsToFinish, removeMongo
    <2> QED
      BY <1>6, <2>3, <2>4 DEF RemoveMongo
  <1>7. CASE RunUninstallJobs
    <2>1. UNCHANGED <<cr, cache, current, queued, pods, workloads, mongo>>
      BY <1>7 DEF RunUninstallJobs
    <2>0. pc = "uninstallCluster" /\ 1..5 \subseteq mem.status.finished
      BY <1>0, <1>7, AtStagePrefix DEF RunUninstallJobs, uninstallClusterNodes
    <2>2. CASE StageError
      BY <2>0, <2>1, <2>2, UnfinishedStage
    <2>3. CASE mem' = Started /\ Goto("waitForUninstallCompletion")
      <3>1. /\ mem'.exists = mem.exists /\ mem'.deleting = mem.deleting
            /\ mem'.finalizer = mem.finalizer
            /\ mem'.status.finished = mem.status.finished
        BY <2>3, StageEnd
      <3>2. PrefixClosed(mem'.status)
        BY <3>1 DEF PrefixClosed, IInv, Safe, Ordered
      <3>3. cr.finalizer => Effects(mem.status)'
        BY <2>1, <3>1 DEF Effects, IInv, Safe, Truthful
      <3>4. pc' = "waitForUninstallCompletion"
        BY <2>3 DEF Goto
      <3> QED
        BY <2>0, <2>1, <3>1, <3>2, <3>3, <3>4, StageStep DEF DeletionPC
    <2> QED
      BY <1>7, <2>2, <2>3 DEF RunUninstallJobs
  <1>8. CASE WaitForUninstallCompletion
    <2>1. /\ pc = "waitForUninstallCompletion"
          /\ UNCHANGED <<cr, cache, current, queued, pods, workloads, mongo>>
      BY <1>8 DEF WaitForUninstallCompletion
    <2>2. CASE StageError \/ StageRequeue
      BY <2>1, <2>2, UnfinishedStage
    <2>3. CASE StageFinished(uninstallClusterNodes)
      <3>1. 1..(uninstallClusterNodes - 1) \subseteq mem.status.finished
        BY <2>1 DEF IInv, Safe, Ordered, uninstallClusterNodes
      <3> QED
        BY <1>d, <2>1, <2>3, <3>1, FinishedStage
    <2> QED
      BY <1>8, <2>2, <2>3 DEF WaitForUninstallCompletion
  <1>9. CASE DeletePVCs
    <2>1. UNCHANGED <<cr, cache, current, queued, pods, workloads, mongo>>
      BY <1>9 DEF DeletePVCs
    <2>2. CASE StageError
      BY <1>0, <1>9, <2>1, <2>2, UnfinishedStage, AtStagePrefix DEF DeletePVCs
    <2>3. CASE StageFinished(deletePVCs)
      BY <1>d, <1>9, <2>1, <2>3, FinishedStage, AtStagePrefix DEF DeletePVCs
    <2> QED
      BY <1>9, <2>2, <2>3 DEF DeletePVCs
  <1>10. CASE DeleteClusterServiceAccount
    <2>1. UNCHANGED <<cr, cache, current, queued, pods, workloads, mongo>>
      BY <1>10 DEF DeleteClusterServiceAccount
    <2>2. CASE StageRequeue
      BY <1>0, <1>10, <2>1, <2>2, UnfinishedStage, AtStagePrefix
         DEF DeleteClusterServiceAccount
    <2>3. CASE StageFinished(deleteClusterServiceAccount)
      BY <1>d, <1>10, <2>1, <2>3, FinishedStage, AtStagePrefix
         DEF DeleteClusterServiceAccount
    <2> QED
      BY <1>10, <2>2, <2>3 DEF DeleteClusterServiceAccount
  <1>11. CASE UninstallComplete
    <2>1. /\ pc = "uninstallCluster" /\ pc' = "removeFinalizer"
          /\ UNCHANGED <<cr, cache, current, queued, pods, workloads, mongo>>
      BY <1>11 DEF UninstallComplete, Goto, world, kube
    <2>2. /\ mem'.exists = mem.exists /\ mem'.deleting = mem.deleting
          /\ mem'.finalizer = mem.finalizer
          /\ mem'.status.finished = mem.status.finished
      BY <1>11 DEF UninstallComplete, IInv, TypeOK, NVMeshType, StatusType, SpecType
    <2>3. PrefixClosed(mem'.status)
      BY <2>2 DEF PrefixClosed, IInv, Safe, Ordered
    <2>4. cr.finalizer => Effects(mem.status)'
      BY <2>1, <2>2 DEF Effects, IInv, Safe, Truthful
    <2> QED
      BY <2>1, <2>2, <2>3, <2>4, StageStep DEF DeletionPC
  <1> QED
    BY <1>1, <1>2, <1>3, <1>4, <1>5, <1>6, <1>7, <1>8, <1>9, <1>10, <1>11
       DEF uninstallCluster

-------------------------------------------------------------------------------
(* Writes of the status, the release of the finalizer, the components *)

\* The status a running cycle carries may be stored: it is in order, it tells
\* the truth, and it records stages only for a resource under deletion.
LEMMA StorableStatus ==
    ASSUME IInv, Busy, cr.exists
    PROVE  /\ PrefixClosed(mem.status)
           /\ cr.finalizer => Effects(mem.status)
           /\ mem.status.finished # {} => cr.deleting /\ Doomed(cache)
  BY DEF IInv, Safe, Ordered, Truthful, RecordedWhenDeleting, DeletionOrder, Doomed

\* Storing a status changes nothing else of a resource.
LEMMA StoredFields ==
    ASSUME NEW x \in NVMeshType, NEW st
    PROVE  LET y == [x EXCEPT !.status = st]
           IN  /\ y.exists = x.exists /\ y.deleting = x.deleting
               /\ y.finalizer = x.finalizer /\ y.status = st
  BY DEF NVMeshType

\* The conditions a cycle sets leave the finished stages alone.
LEMMA StatusFields ==
    ASSUME NEW x \in NVMeshType
    PROVE  /\ [x.status EXCEPT !.ready = "True"].finished = x.status.finished
           /\ [x.status EXCEPT !.ready = "False"].finished = x.status.finished
           /\ [x.status EXCEPT !.ready = "False", !.uninstalling = TRUE].finished
                 = x.status.finished
           /\ [x.status EXCEPT !.finished = {}, !.tracked = FALSE].finished = {}
  <1>1. x.status \in StatusType
    BY FieldTypes
  <1> QED
    BY <1>1 DEF StatusType

\* A requeueing uninstall stores the stages of its copy.
LEMMA UpdateUninstallStatusSafe == ASSUME IInv, updateUninstallStatus PROVE Safe'
  <1> USE DEF IInv, Safe
  <1>0. /\ pc = "updateUninstallStatus" /\ pc' = "manageSuccessRequeue"
        /\ UNCHANGED <<cache, current, queued, workloads, pods, mongo>>
    BY DEF updateUninstallStatus, Goto, world, kube
  <1>a. /\ mem.deleting /\ mem.finalizer /\ mem.exists
        /\ Doomed(cr) /\ Doomed(cache)
    BY <1>0 DEF DeletionOrder, DeletionPC, Busy, Existence
  <1>b. /\ mem'.exists = mem.exists /\ mem'.deleting = mem.deleting
        /\ mem'.finalizer = mem.finalizer
        /\ mem'.status.finished = mem.status.finished
    BY FieldTypes DEF updateUninstallStatus, TypeOK, NVMeshType, StatusType
  <1>c. \/ UNCHANGED cr
        \/ /\ cr.exists /\ cr'.exists = cr.exists /\ cr'.deleting = cr.deleting
           /\ cr'.finalizer = cr.finalizer
           /\ cr'.status.finished = mem.status.finished
    <2>1. UNCHANGED cr \/ (current /\ cr' = [cr EXCEPT !.status =
             [mem.status EXCEPT !.ready = "False", !.uninstalling = TRUE]])
      BY DEF updateUninstallStatus, StoreStatus
    <2>2. current => cr.exists
      BY DEF Existence
    <2> QED
      <3> DEFINE st == [mem.status EXCEPT !.ready = "False", !.uninstalling = TRUE]
      <3>1. st.finished = mem.status.finished
        BY StatusFields DEF TypeOK
      <3> HIDE DEF st
      <3>2. UNCHANGED cr \/ (current /\ cr' = [cr EXCEPT !.status = st])
        BY <2>1 DEF st
      <3>3. cr \in NVMeshType
        BY DEF TypeOK
      <3>4. ASSUME cr' = [cr EXCEPT !.status = st]
            PROVE  /\ cr'.exists = cr.exists /\ cr'.deleting = cr.deleting
                   /\ cr'.finalizer = cr.finalizer
                   /\ cr'.status.finished = mem.status.finished
        BY ONLY <3>1, <3>3, <3>4, StoredFields
      <3> QED
        BY <2>2, <3>2, <3>4
  <1>d. cr.exists => /\ PrefixClosed(mem.status)
                     /\ cr.finalizer => Effects(mem.status)
                     /\ mem.status.finished # {} => cr.deleting /\ Doomed(cache)
    BY <1>0, StorableStatus DEF Busy
  <1>1. Existence'
    BY <1>0, <1>a, <1>b, <1>c DEF Existence, Busy
  <1>2. DeletionOrder'
    BY <1>0, <1>a, <1>b, <1>c DEF DeletionOrder, Busy, Doomed, DeletionPC
  <1>3. RecordedWhenDeleting'
    BY <1>0, <1>a, <1>b, <1>c, <1>d DEF RecordedWhenDeleting, Busy, Doomed
  <1>4. Ordered'
    BY <1>0, <1>b, <1>c, <1>d DEF Ordered, PrefixClosed
  <1>5. FinalizerOrder'
    BY <1>0, <1>a, <1>b, <1>c DEF FinalizerOrder, Busy
  <1>6. Truthful'
    BY <1>0, <1>b, <1>c, <1>d DEF Truthful, Effects
  <1>7. Remembered'
    BY <1>0, <1>a, <1>b, <1>c DEF Remembered
  <1>8. FinalizerBeforeWorkloads'
    BY <1>0, <1>c DEF FinalizerBeforeWorkloads
  <1> QED
    BY <1>1, <1>2, <1>3, <1>4, <1>5, <1>6, <1>7, <1>8

\* The finalizer is released only by a cycle whose copy is current.
LEMMA RemoveFinalizerSafe == ASSUME IInv, removeFinalizerAndUpdate PROVE Safe'
  <1> USE DEF IInv, Safe
  <1>0. /\ pc = "removeFinalizer"
        /\ UNCHANGED <<cache, queued, workloads, pods, mongo>>
    BY DEF removeFinalizerAndUpdate, world, kube
  <1>a. /\ mem.deleting /\ mem.finalizer /\ mem.exists
        /\ Doomed(cr) /\ Doomed(cache)
    BY <1>0 DEF DeletionOrder, DeletionPC, Busy, Existence
  <1>1. CASE /\ current
             /\ cr' = IF cr.foreign
                      THEN [cr EXCEPT !.finalizer = FALSE, !.spec = mem.spec]
                      ELSE Absent
             /\ mem' = [mem EXCEPT !.finalizer = FALSE,
                                   !.status = IF cr.status.tracked THEN cr.status ELSE @]
             /\ current' = cr.foreign
             /\ pc' = "reconcileAllComponents"
    <2>0. cr.exists /\ cr.deleting
      BY <1>1, <1>a DEF DeletionOrder, Existence
    <2>1. \/ cr' = Absent /\ ~current'
          \/ /\ cr'.exists /\ cr'.deleting = cr.deleting /\ cr'.finalizer = FALSE
             /\ cr'.status = cr.status
      BY <1>1, <2>0 DEF TypeOK, NVMeshType
    <2>2. /\ mem'.exists /\ mem'.deleting = mem.deleting
          /\ mem'.finalizer = FALSE
          /\ mem'.status = cr.status \/ mem'.status = mem.status
      BY <1>1, <1>a DEF TypeOK, NVMeshType
    <2>3. mem'.deleting = ~mem'.finalizer
      BY <2>2, <1>a, FieldTypes DEF TypeOK
    <2> USE AbsentFields
    <2>e. Existence'
      BY <1>0, <1>1, <2>1, <2>2 DEF Existence, Busy
    <2>4. DeletionOrder'
      BY <1>0, <1>1, <1>a, <2>0, <2>1, <2>2, FieldTypes
         DEF DeletionOrder, Busy, Doomed, DeletionPC, TypeOK
    <2>5. RecordedWhenDeleting'
      BY <1>0, <1>1, <1>a, <2>0, <2>1, <2>2 DEF RecordedWhenDeleting, Busy, Doomed
    <2>6. Ordered'
      BY <1>0, <1>1, <2>1, <2>2 DEF Ordered, PrefixClosed
    <2>7. FinalizerOrder'
      BY <1>0, <1>1, <2>0, <2>1, <2>2, <2>3 DEF FinalizerOrder, Busy
    <2>8. Truthful'
      BY <2>1 DEF Truthful
    <2>9. Remembered'
      BY <2>1 DEF Remembered
    <2>10. FinalizerBeforeWorkloads'
      BY <2>0, <2>1 DEF FinalizerBeforeWorkloads
    <2> QED
      BY <2>e, <2>4, <2>5, <2>6, <2>7, <2>8, <2>9, <2>10
  <1>2. CASE /\ mem' = [mem EXCEPT !.finalizer = FALSE] /\ pc' = "manageError"
             /\ UNCHANGED <<cr, current>>
    <2>1. mem'.exists /\ mem'.deleting = mem.deleting /\ mem'.status = mem.status
      BY <1>a, <1>2 DEF TypeOK, NVMeshType
    <2>e. Existence'
      BY <1>0, <1>2, <2>1 DEF Existence, Busy
    <2>2. DeletionOrder'
      BY <1>0, <1>2, <1>a, <2>1 DEF DeletionOrder, Busy, Doomed, DeletionPC
    <2>3. RecordedWhenDeleting'
      BY <1>0, <1>2, <1>a, <2>1 DEF RecordedWhenDeleting, Busy
    <2>4. Ordered'
      BY <1>0, <1>2, <2>1 DEF Ordered, PrefixClosed
    <2>5. FinalizerOrder'
      BY <1>0, <1>2 DEF FinalizerOrder, Busy
    <2>6. Truthful'
      BY <1>0, <1>2, <2>1 DEF Truthful, Effects
    <2>7. Remembered'
      BY <1>0, <1>2, <1>a, <2>1 DEF Remembered
    <2>8. FinalizerBeforeWorkloads'
      BY <1>0, <1>2 DEF FinalizerBeforeWorkloads
    <2> QED
      BY <2>e, <2>2, <2>3, <2>4, <2>5, <2>6, <2>7, <2>8
  <1> QED
    BY <1>1, <1>2 DEF removeFinalizerAndUpdate, Goto

\* A cycle that reaches the components works for a resource whose finalizer
\* is there and whose deletion it does not know of, or for one whose
\* finalizer is gone: deploying makes no recorded stage false.
LEMMA ComponentsSafe == ASSUME IInv, reconcileAllcomponents PROVE Safe'
  <1> USE DEF IInv, Safe
  <1>0. pc = "reconcileAllComponents" /\ UNCHANGED <<cr, cache, pods>>
    BY DEF reconcileAllcomponents, ComponentsSettled, ComponentError,
           MongoNotReady, MongoError, ComponentsFrame
  <1>1. \/ /\ pc' \in {"removeFinishedActionStatuses", "manageError"}
           /\ UNCHANGED <<mem, current, queued>>
        \/ pc' = "idle" /\ queued' /\ mem' = Absent /\ current' = FALSE
    BY DEF reconcileAllcomponents, ComponentsSettled, ComponentError,
           MongoNotReady, MongoError, Goto, EndCycle
  <1>2. mem.deleting = ~mem.finalizer /\ mem.exists
    BY <1>0 DEF FinalizerOrder, Existence, Busy
  <1>3. \/ mem.deleting /\ ~cr.finalizer /\ Doomed(cr)
        \/ /\ ~mem.deleting /\ mem.finalizer /\ mem.status.finished = {}
           /\ cr.status.finished = {} /\ cache.status.finished = {}
           /\ cr.exists /\ ~cr.deleting => cr.finalizer
    BY <1>0, <1>2, FieldTypes
       DEF FinalizerOrder, DeletionOrder, RecordedWhenDeleting, Busy, TypeOK
  <1>4. ~(cr.deleting /\ cr.finalizer /\ cache.deleting /\ ~queued)
    BY <1>0 DEF Remembered, DeletionPC
  <1> USE AbsentFields
  <1>e. Existence'
    BY <1>0, <1>1 DEF Existence, Busy
  <1>5. DeletionOrder'
    BY <1>0, <1>1 DEF DeletionOrder, Busy, Doomed, DeletionPC
  <1>6. RecordedWhenDeleting'
    BY <1>0, <1>1 DEF RecordedWhenDeleting, Busy
  <1>7. Ordered'
    BY <1>0, <1>1 DEF Ordered, PrefixClosed
  <1>8. FinalizerOrder'
    BY <1>0, <1>1 DEF FinalizerOrder, Busy
  <1>9. Truthful'
    BY <1>0, <1>1, <1>3 DEF Truthful, Effects
  <1>10. Remembered'
    BY <1>0, <1>1, <1>4 DEF Remembered
  <1>11. FinalizerBeforeWorkloads'
    BY <1>0, <1>3 DEF FinalizerBeforeWorkloads, Doomed
  <1> QED
    BY <1>e, <1>5, <1>6, <1>7, <1>8, <1>9, <1>10, <1>11

\* UpdateStatus stores the status it is given, or nothing.
LEMMA StatusWritten ==
    ASSUME IInv, NEW st, StatusUpdated(st) \/ StatusUpdateFails
    PROVE  \/ UNCHANGED cr
           \/ /\ cr.exists /\ cr'.exists = cr.exists /\ cr'.deleting = cr.deleting
              /\ cr'.finalizer = cr.finalizer /\ cr'.status = st
  <1>1. cr \in NVMeshType
    BY DEF IInv, TypeOK
  <1>2. UNCHANGED cr \/ (cr.exists /\ cr' = [cr EXCEPT !.status = st])
    BY DEF StatusUpdated, StatusUpdateFails, StoreStatus
  <1>3. ASSUME cr' = [cr EXCEPT !.status = st]
        PROVE  /\ cr'.exists = cr.exists /\ cr'.deleting = cr.deleting
               /\ cr'.finalizer = cr.finalizer /\ cr'.status = st
    BY ONLY <1>1, <1>3, StoredFields
  <1> QED
    BY <1>2, <1>3

\* A cycle that ends has stored the stages of its copy or nothing, and a
\* deletion it worked on is back in the queue.
LEMMA CycleEnd ==
    ASSUME IInv, Busy, pc' = "idle", mem' = Absent, current' = FALSE,
           UNCHANGED <<cache, workloads, pods, mongo>>,
           \/ UNCHANGED cr
           \/ /\ cr.exists /\ cr'.exists = cr.exists /\ cr'.deleting = cr.deleting
              /\ cr'.finalizer = cr.finalizer
              /\ cr'.status.finished = mem.status.finished,
           queued' \/ (~queued /\ pc = "manageSuccess")
    PROVE  Safe'
  <1> USE AbsentFields DEF IInv, Safe
  <1>0. cr.exists => /\ PrefixClosed(mem.status)
                     /\ cr.finalizer => Effects(mem.status)
                     /\ mem.status.finished # {} => cr.deleting /\ Doomed(cache)
    BY StorableStatus
  <1>1. Existence'
    BY DEF Existence, Busy
  <1>2. DeletionOrder'
    BY DEF DeletionOrder, Busy, Doomed, DeletionPC
  <1>3. RecordedWhenDeleting'
    BY <1>0 DEF RecordedWhenDeleting, Busy, Doomed
  <1>4. Ordered'
    BY <1>0 DEF Ordered, PrefixClosed
  <1>5. FinalizerOrder'
    BY DEF FinalizerOrder, Busy
  <1>6. Truthful'
    BY <1>0 DEF Truthful, Effects
  <1>7. Remembered'
    BY DEF Remembered, DeletionPC
  <1>8. FinalizerBeforeWorkloads'
    BY DEF FinalizerBeforeWorkloads
  <1> QED
    BY <1>1, <1>2, <1>3, <1>4, <1>5, <1>6, <1>7, <1>8

\* The two ends of a cycle.
LEMMA ManageSafe == ASSUME IInv, ManageSuccess \/ ManageError PROVE Safe'
  <1>0. mem \in NVMeshType
    BY DEF IInv, TypeOK
  <1>1. UNCHANGED <<cache, workloads, pods, mongo>>
    BY DEF ManageSuccess, ManageError, world, kube
  <1>2. CASE ManageSuccess
    <2> DEFINE st == [mem.status EXCEPT !.ready = "True"]
    <2>1. st.finished = mem.status.finished
      BY <1>0, StatusFields
    <2> HIDE DEF st
    <2>2. \/ StatusUpdated(st) /\ EndCycle(pc = "manageSuccessRequeue")
          \/ StatusUpdateFails /\ EndCycle(TRUE)
      BY <1>2 DEF ManageSuccess, st
    <2>3. /\ pc \in {"manageSuccess", "manageSuccessRequeue"}
          /\ pc' = "idle" /\ mem' = Absent /\ current' = FALSE
      BY <1>2, <2>2 DEF ManageSuccess, EndCycle
    <2>4. queued' \/ (~queued /\ pc = "manageSuccess")
      BY <2>2, <2>3 DEF EndCycle
    <2> QED
      BY <1>1, <2>1, <2>2, <2>3, <2>4, StatusWritten, CycleEnd DEF Busy
  <1>3. CASE ManageError
    <2> DEFINE st == [mem.status EXCEPT !.ready = "False"]
    <2>1. st.finished = mem.status.finished
      BY <1>0, StatusFields
    <2> HIDE DEF st
    <2>2. StatusUpdated(st) \/ StatusUpdateFails
      BY <1>3 DEF ManageError, st
    <2>3. /\ pc = "manageError"
          /\ pc' = "idle" /\ mem' = Absent /\ current' = FALSE /\ queued'
      BY <1>3 DEF ManageError, EndCycle
    <2> QED
      BY <1>1, <2>1, <2>2, <2>3, StatusWritten, CycleEnd DEF Busy
  <1> QED
    BY <1>2, <1>3

\* The entry of the uninstall action is dropped only by a cycle that did not
\* find a deletion under our finalizer.
LEMMA RemoveStatusesSafe == ASSUME IInv, RemoveFinishedActionStatuses PROVE Safe'
  <1> USE DEF IInv, Safe
  <1> DEFINE st == [mem.status EXCEPT !.finished = {}, !.tracked = FALSE]
  <1>0. st.finished = {}
    BY StatusFields DEF TypeOK
  <1> HIDE DEF st
  <1>1. /\ pc = "removeFinishedActionStatuses"
        /\ pc' \in {"manageSuccess", "manageSuccessRequeue"}
        /\ UNCHANGED <<cache, queued, workloads, pods, mongo>>
    BY DEF RemoveFinishedActionStatuses, Goto, world, kube
  <1>2. ~(cr.deleting /\ cr.finalizer /\ cache.deleting /\ ~queued)
    BY <1>1 DEF Remembered, DeletionPC
  <1>3. mem.exists
    BY <1>1 DEF Existence, Busy
  <1>4. CASE UNCHANGED <<cr, mem, current>>
    BY <1>1, <1>2, <1>4, MoveOn DEF Remembered, Busy, DeletionPC
  <1>5. CASE \/ /\ StatusUpdated(st) /\ current' = cr.exists
                /\ mem' = [(IF current \/ ~cr.exists THEN mem ELSE cache)
                           EXCEPT !.status = st]
             \/ StatusUpdateFails /\ UNCHANGED current /\ mem' = [mem EXCEPT !.status = st]
    <2>1. mem \in NVMeshType /\ cache \in NVMeshType /\ current \in BOOLEAN
      BY DEF TypeOK
    <2>2. \/ mem' = [mem EXCEPT !.status = st] /\ (current' => current)
          \/ mem' = [cache EXCEPT !.status = st] /\ cache = cr /\ cr.exists
      <3>1. CASE StatusUpdated(st) /\ (current \/ ~cr.exists)
        BY <1>5, <2>1, <3>1 DEF StatusUpdated, StatusUpdateFails
      <3>2. CASE StatusUpdated(st) /\ ~current /\ cr.exists
        BY <1>5, <2>1, <3>2 DEF StatusUpdated, StatusUpdateFails, Writable
      <3>3. CASE UNCHANGED current /\ mem' = [mem EXCEPT !.status = st]
        BY <3>3
      <3> QED
        BY <1>5, <3>1, <3>2, <3>3
    <2>a. ASSUME NEW x \in NVMeshType, mem' = [x EXCEPT !.status = st]
          PROVE  /\ mem'.exists = x.exists /\ mem'.deleting = x.deleting
                 /\ mem'.finalizer = x.finalizer /\ mem'.status = st
      BY ONLY <2>a, StoredFields
    <2>3. /\ mem'.status = st
          /\ \/ /\ mem'.exists = mem.exists /\ mem'.deleting = mem.deleting
                /\ mem'.finalizer = mem.finalizer /\ (current' => current)
             \/ /\ mem'.exists = cr.exists /\ mem'.deleting = cr.deleting
                /\ mem'.finalizer = cr.finalizer /\ cache = cr /\ cr.exists
      BY <2>1, <2>2, <2>a
    <2>4. \/ UNCHANGED cr
          \/ /\ cr.exists /\ cr'.exists = cr.exists /\ cr'.deleting = cr.deleting
             /\ cr'.finalizer = cr.finalizer /\ cr'.status = st
      BY <1>5, StatusWritten
    <2>5. current' => cr.exists
      BY <1>5 DEF Existence, StatusUpdateFails
    <2>e. Existence'
      BY <1>0, <1>1, <1>3, <2>3, <2>4, <2>5 DEF Existence, Busy
    <2>6. DeletionOrder'
      BY <1>1, <2>3, <2>4 DEF DeletionOrder, Busy, Doomed, DeletionPC
    <2>7. RecordedWhenDeleting'
      BY <1>0, <1>1, <2>3, <2>4 DEF RecordedWhenDeleting, Busy
    <2>8. Ordered'
      BY <1>0, <1>1, <2>3, <2>4 DEF Ordered, PrefixClosed
    <2>9. FinalizerOrder'
      BY <1>1, <2>3, <2>4 DEF FinalizerOrder, Busy
    <2>10. Truthful'
      BY <1>0, <1>1, <2>3, <2>4 DEF Truthful, Effects
    <2>11. Remembered'
      BY <1>1, <1>2, <2>4 DEF Remembered
    <2>12. FinalizerBeforeWorkloads'
      BY <1>1, <2>4 DEF FinalizerBeforeWorkloads
    <2> QED
      BY <2>e, <2>6, <2>7, <2>8, <2>9, <2>10, <2>11, <2>12
  <1> QED
    BY <1>4, <1>5 DEF RemoveFinishedActionStatuses, st

-------------------------------------------------------------------------------
(* The theorems *)

\* Every step of the operator keeps the invariant.
LEMMA ReconcileSafe == IInv /\ Reconcile => Safe'
  <1> SUFFICES ASSUME IInv, Reconcile PROVE Safe'
      OBVIOUS
  <1>1. CASE ReconcileNotFound
    BY <1>1, QueueStep
       DEF ReconcileNotFound, world, kube, IInv, Safe, Existence
  <1> QED
    BY <1>1, FetchSafe, DecisionSafe, AddFinalizerSafe, UninstallSafe,
       UpdateUninstallStatusSafe, RemoveFinalizerSafe, ComponentsSafe,
       RemoveStatusesSafe, ManageSafe DEF Reconcile

\* The invariant is inductive.
LEMMA NextIInv == IInv /\ [Next]_vars => IInv'
  <1> SUFFICES ASSUME IInv, [Next]_vars PROVE IInv'
      OBVIOUS
  <1>1. TypeOK'
    BY NextTypeOK DEF IInv
  <1>2. CASE UNCHANGED vars
    BY <1>2, QuietStep, <1>1 DEF vars, control, IInv
  <1>3. CASE Reconcile
    BY <1>1, <1>3, ReconcileSafe DEF IInv
  <1>4. CASE Environment
    BY <1>1, <1>4, EnvironmentSafe DEF IInv
  <1> QED
    BY <1>2, <1>3, <1>4 DEF Next

\* The inductive invariant holds in every reachable state.
THEOREM InductiveInvariant == Spec => []IInv
  <1>1. Init => IInv
    BY InitTypeOK, InitSafe DEF IInv
  <1> QED
    BY <1>1, NextIInv, PTL DEF Spec

\* Resuming an uninstall is sound: the stages that the stored status calls
\* finished, and that uninstallCluster will therefore skip, are a prefix of
\* the list, and the workloads, the pods and the database they removed are
\* still gone.
THEOREM ResumeIsSound == Spec => []StatusTruthful
  <1>1. IInv => StatusTruthful
    <2> SUFFICES ASSUME IInv, cr.exists, cr.finalizer PROVE Truth(cr.status)
        BY DEF StatusTruthful
    <2>1. cr.status.finished \subseteq Stage
      BY FieldTypes DEF IInv, TypeOK
    <2>2. PrefixClosed(cr.status) /\ Effects(cr.status)
      BY DEF IInv, Safe, Ordered, Truthful
    <2>3. ASSUME NEW s \in cr.status.finished
          PROVE  1..s \subseteq cr.status.finished
      BY <2>1, <2>2 DEF PrefixClosed, Stage
    <2> QED
      BY <2>2, <2>3 DEF Effects, Truth
  <1> QED
    BY <1>1, InductiveInvariant, PTL

\* A resource that waits for our finalizer is never lost between two cycles:
\* its key is queued, or the informer still owes the event that queues it.
THEOREM DeletionIsNeverForgotten == Spec => []DeletionNeverForgotten
  <1>1. IInv => DeletionNeverForgotten
    <2> SUFFICES ASSUME IInv, pc = "idle", cr.exists, cr.deleting, cr.finalizer,
                        ~queued
                 PROVE  Generation(cache) # Generation(cr)
        BY DEF DeletionNeverForgotten
    <2>1. ~cache.deleting
      BY DEF IInv, Safe, Remembered, DeletionPC
    <2> QED
      BY <2>1 DEF Generation
  <1> QED
    BY <1>1, InductiveInvariant, PTL

\* No workload is deployed for a resource that could be deleted without the
\* uninstall.
THEOREM FinalizerPrecedesWorkloads == Spec => []FinalizerBeforeWorkloads
  <1>1. IInv => FinalizerBeforeWorkloads
    BY DEF IInv, Safe
  <1> QED
    BY <1>1, InductiveInvariant, PTL

\* The database outlives the workloads: an uninstall under our finalizer
\* removes MongoDB only when every workload and every awaited pod is gone.
THEOREM TeardownIsOrderly == Spec => OrderlyTeardown
  <1>1. ASSUME IInv, [Next]_vars, pc = "uninstallCluster", cr.finalizer,
               mongo, ~mongo'
        PROVE  workloads = {} /\ pods \cap {"core", "csi"} = {}
    <2>1. CASE RemoveMongo
      <3>1. 1..4 \subseteq mem.status.finished
        BY <2>1 DEF RemoveMongo, AtStage, removeMongo
      <3> QED
        BY <1>1, <3>1 DEF IInv, Safe, Truthful, Effects, removeAllWorkloads,
                          waitForWorkloadsToFinish
    <2>2. CASE Environment
      <3>1. CASE GarbageCollect
        BY <1>1, <3>1 DEF GarbageCollect, IInv, Safe, Existence
      <3>2. CASE ~GarbageCollect
        <4>1. UNCHANGED mongo
          BY <2>2, <3>2 DEF Environment, CacheSync, OwnedObjectEvent, Crash,
             JobViewSync, JobSucceeds, JobFails, PodsStart, PodsStop,
             ClearDbJobGivesUp, ClaimCreated, DeleteCR, EditSpec, RemoveForeign,
             LabelNode, ChangeVolumes, ReleaseVolumes, world, kube
        <4> QED
          BY <1>1, <4>1
      <3> QED
        BY <3>1, <3>2
    <2>3. CASE Reconcile /\ ~RemoveMongo
      <3>1. uninstallCluster
        BY <1>1, <2>3 DEF Reconcile, ReconcileNotFound, ReconcileFetch,
           makeSureServiceAccountExists, handleFinalizer, addFinalizerAndUpdate,
           isAllowedToDeleteCluster, updateUninstallStatus,
           removeFinalizerAndUpdate, reconcileAllcomponents, ComponentsSettled,
           ComponentError, MongoNotReady, MongoError,
           RemoveFinishedActionStatuses, ManageSuccess, ManageError
      <3>2. UNCHANGED mongo
        BY <2>3, <3>1 DEF uninstallCluster, SkipUninstall,
           removeAllWorkloadsExceptMongo, WaitForWorkloadsToFinish,
           RunClearDbJob, WaitForClearDBToFinish, RunUninstallJobs,
           WaitForUninstallCompletion, DeletePVCs, DeleteClusterServiceAccount,
           UninstallComplete, world, kube
      <3> QED
        BY <1>1, <3>2
    <2>4. CASE UNCHANGED vars
      BY <1>1, <2>4 DEF vars
    <2> QED
      BY <1>1, <2>1, <2>2, <2>3, <2>4 DEF Next
  <1>2. IInv /\ [Next]_vars
           => [pc = "uninstallCluster" /\ cr.finalizer /\ mongo /\ ~mongo'
                  => workloads = {} /\ pods \cap {"core", "csi"} = {}]_vars
    BY <1>1
  <1> QED
    BY <1>2, InductiveInvariant, PTL DEF Spec, OrderlyTeardown
===============================================================================
