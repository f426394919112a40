---------------------------- MODULE DeletionProofs ----------------------------
(***************************************************************************)
(* Operator implements Deletion: the initial states map to initial states, *)
(* and every step maps to a step of Deletion or to a stuttering step.      *)
(* Steps are grouped by what they do to the resource and to the cluster.   *)
(***************************************************************************)
EXTENDS OperatorSafetyProofs, OperatorRefinement

RInv == IInv /\ ReleaseJustified

-------------------------------------------------------------------------------
(* The extra invariant *)

\* Replacing the status leaves the options alone.
LEMMA OptionsKept ==
    ASSUME NEW x \in NVMeshType, NEW st
    PROVE  [x EXCEPT !.status = st].spec = x.spec
  BY DEF NVMeshType

\* The ways a stage ends leave the options alone and do not release.
LEMMA StageKeepsOptions ==
    ASSUME TypeOK,
           StageRequeue \/ StageError \/ (\E s \in Stage : StageFinished(s))
    PROVE  mem'.spec.options = mem.spec.options /\ pc' # "removeFinalizer"
  <1>1. mem \in NVMeshType
    BY DEF TypeOK
  <1>2. [mem EXCEPT !.status.tracked = TRUE].spec = mem.spec
    BY <1>1 DEF NVMeshType
  <1>3. ASSUME NEW s
        PROVE  [mem EXCEPT !.status.tracked = TRUE,
                           !.status.finished = @ \cup {s}].spec = mem.spec
    BY <1>1 DEF NVMeshType
  <1>4. CASE StageRequeue
    BY <1>2, <1>4 DEF StageRequeue, Started, Goto
  <1>5. CASE StageError
    BY <1>2, <1>5 DEF StageError, Started, Goto
  <1>6. CASE \E s \in Stage : StageFinished(s)
    BY <1>3, <1>6 DEF StageFinished
  <1> QED
    BY <1>4, <1>5, <1>6

\* Every stage keeps the extra invariant, and the two ends of the loop
\* establish it.
LEMMA UninstallJustified ==
    ASSUME IInv, ReleaseJustified, uninstallCluster PROVE ReleaseJustified'
  <1>t. TypeOK /\ mem \in NVMeshType
    BY DEF IInv, TypeOK
  <1>1. CASE SkipUninstall
    BY <1>1 DEF SkipUninstall, ReleaseJustified, Goto, Has
  <1>2. CASE UninstallComplete
    <2> DEFINE new == [mem EXCEPT !.spec.disabled = Components, !.status.tracked = TRUE]
    <2>1. /\ new.spec.options = mem.spec.options
          /\ new.status.finished = mem.status.finished
      BY <1>t DEF NVMeshType, SpecType, StatusType
    <2>2. mem' = new /\ UNCHANGED <<cr, current>> /\ mem.status.finished = Stage
      BY <1>2 DEF UninstallComplete
    <2> HIDE DEF new
    <2> QED
      BY <2>1, <2>2 DEF ReleaseJustified, Has
  <1>3. CASE ~SkipUninstall /\ ~UninstallComplete
    <2>1. UNCHANGED <<cr, current>>
      BY <1>3 DEF uninstallCluster, removeAllWorkloadsExceptMongo,
         WaitForWorkloadsToFinish, RunClearDbJob, WaitForClearDBToFinish,
         RemoveMongo, RunUninstallJobs, WaitForUninstallCompletion, DeletePVCs,
         DeleteClusterServiceAccount, StageFrame
    <2>2. mem'.spec.options = mem.spec.options /\ pc' # "removeFinalizer"
      <3>1. CASE RunUninstallJobs
        <4>1. [mem EXCEPT !.status.tracked = TRUE].spec = mem.spec
          BY <1>t DEF NVMeshType
        <4>2. mem' = Started /\ pc' \in {"waitForUninstallCompletion", "manageError"}
          BY <3>1 DEF RunUninstallJobs, StageError, Goto
        <4> QED
          BY <4>1, <4>2 DEF Started
      <3>2. CASE ~RunUninstallJobs
        <4>0. {removeAllWorkloads, waitForWorkloadsToFinish, clearDB,
               waitForClearDBToFinish, removeMongo, uninstallClusterNodes,
               deletePVCs, deleteClusterServiceAccount} \subseteq Stage
          BY DEF Stage, removeAllWorkloads, waitForWorkloadsToFinish, clearDB,
             waitForClearDBToFinish, removeMongo, uninstallClusterNodes,
             deletePVCs, deleteClusterServiceAccount
        <4>1. StageRequeue \/ StageError \/ (\E s \in Stage : StageFinished(s))
          BY <1>3, <3>2, <4>0 DEF uninstallCluster, removeAllWorkloadsExceptMongo,
             WaitForWorkloadsToFinish, RunClearDbJob, WaitForClearDBToFinish,
             RemoveMongo, WaitForUninstallCompletion, DeletePVCs,
             DeleteClusterServiceAccount
        <4> QED
          BY <1>t, <4>1, StageKeepsOptions
      <3> QED
        BY <3>1, <3>2
    <2> QED
      BY <2>1, <2>2 DEF ReleaseJustified
  <1> QED
    BY <1>1, <1>2, <1>3

\* Every step keeps the extra invariant.
LEMMA NextJustified == RInv /\ [Next]_vars => ReleaseJustified'
  <1> SUFFICES ASSUME IInv, ReleaseJustified, [Next]_vars PROVE ReleaseJustified'
      BY DEF RInv
  <1>t. cr \in NVMeshType /\ mem \in NVMeshType /\ cache \in NVMeshType
        /\ current \in BOOLEAN
    BY DEF IInv, TypeOK
  <1>1. CASE uninstallCluster
    BY <1>1, UninstallJustified
  <1>2. CASE UNCHANGED <<cr, mem, current>> /\ (pc' = "removeFinalizer" => UNCHANGED pc)
    BY <1>2 DEF ReleaseJustified, Has
  <1>3. CASE ~current' /\ (pc' = "removeFinalizer" => UNCHANGED <<pc, mem>>)
    BY <1>3 DEF ReleaseJustified, Has
  <1>4. CASE ReconcileFetch
    BY <1>4 DEF ReconcileFetch, ReleaseJustified, Goto
  <1>5. CASE addFinalizerAndUpdate
    <2>1. CASE current /\ mem' = cr' /\ Goto("reconcileAllComponents")
      BY <2>1 DEF ReleaseJustified, Goto
    <2>2. CASE /\ mem' = [mem EXCEPT !.finalizer = TRUE]
               /\ Goto("manageError") /\ UNCHANGED <<cr, current>>
      <3>1. [mem EXCEPT !.finalizer = TRUE].spec = mem.spec
        BY <1>t DEF NVMeshType
      <3> QED
        BY <2>2, <3>1 DEF ReleaseJustified, Goto
    <2> QED
      BY <1>5, <2>1, <2>2 DEF addFinalizerAndUpdate
  <1>6. CASE updateUninstallStatus
    <2>1. PICK st : /\ mem' = [mem EXCEPT !.status = st]
                    /\ cr' = [cr EXCEPT !.status = st] \/ UNCHANGED cr
      BY <1>6 DEF updateUninstallStatus, StoreStatus
    <2>2. mem'.spec = mem.spec /\ cr'.spec = cr.spec
      BY <1>t, <2>1, OptionsKept
    <2> QED
      BY <1>6, <2>2 DEF updateUninstallStatus, ReleaseJustified, Goto
  <1>7. CASE removeFinalizerAndUpdate
    <2>1. mem'.spec = mem.spec
      BY <1>7, <1>t DEF removeFinalizerAndUpdate, NVMeshType
    <2>2. current' /\ current => cr'.spec = mem.spec \/ UNCHANGED cr
      BY <1>7, <1>t DEF removeFinalizerAndUpdate, NVMeshType
    <2>3. current' => current
      BY <1>7 DEF removeFinalizerAndUpdate
    <2>4. pc' # "removeFinalizer"
      BY <1>7 DEF removeFinalizerAndUpdate, Goto
    <2> QED
      BY <2>1, <2>2, <2>3, <2>4 DEF ReleaseJustified
  <1>8. CASE RemoveFinishedActionStatuses
    <2> DEFINE st == [mem.status EXCEPT !.finished = {}, !.tracked = FALSE]
    <2>a. \/ UNCHANGED <<cr, mem, current>>
          \/ StatusUpdateFails /\ UNCHANGED current /\ mem' = [mem EXCEPT !.status = st]
          \/ /\ StatusUpdated(st) /\ current' = cr.exists
             /\ mem' = [(IF current \/ ~cr.exists THEN mem ELSE cache)
                        EXCEPT !.status = st]
      BY <1>8 DEF RemoveFinishedActionStatuses
    <2> HIDE DEF st
    <2>0. pc' # "removeFinalizer"
      BY <1>8 DEF RemoveFinishedActionStatuses, Goto
    <2>1. CASE UNCHANGED <<cr, mem, current>>
      BY <2>0, <2>1 DEF ReleaseJustified
    <2>2. CASE StatusUpdateFails /\ UNCHANGED current /\ mem' = [mem EXCEPT !.status = st]
      BY <1>t, <2>0, <2>2, OptionsKept DEF ReleaseJustified, StatusUpdateFails
    <2>3. CASE /\ StatusUpdated(st) /\ current' = cr.exists
               /\ mem' = [(IF current \/ ~cr.exists THEN mem ELSE cache)
                          EXCEPT !.status = st]
      <3>1. CASE ~cr.exists
        BY <2>0, <2>3, <3>1 DEF ReleaseJustified
      <3>2. CASE cr.exists
        <4>1. cr' = [cr EXCEPT !.status = st] /\ Writable
          BY <2>3, <3>2 DEF StatusUpdated, StoreStatus
        <4>2. \/ mem' = [mem EXCEPT !.status = st] /\ current
              \/ mem' = [cache EXCEPT !.status = st] /\ cache = cr
          <5>1. CASE current
            BY <2>3, <5>1
          <5>2. CASE ~current
            BY <2>3, <3>2, <4>1, <5>2 DEF Writable
          <5> QED
            BY <5>1, <5>2
        <4> QED
          BY <1>t, <2>0, <4>1, <4>2, OptionsKept DEF ReleaseJustified
      <3> QED
        BY <3>1, <3>2
    <2> QED
      BY <2>a, <2>1, <2>2, <2>3
  <1>9. CASE Reconcile
    <2>1. CASE ManageSuccess \/ ManageError
      BY <1>3, <2>1 DEF ManageSuccess, ManageError, EndCycle
    <2>2. CASE reconcileAllcomponents
      BY <1>2, <1>3, <2>2 DEF reconcileAllcomponents, ComponentsSettled,
         ComponentError, MongoNotReady, MongoError, EndCycle, ComponentsFrame, Goto
    <2>3. CASE \/ ReconcileNotFound \/ makeSureServiceAccountExists
               \/ handleFinalizer \/ isAllowedToDeleteCluster
      BY <1>2, <2>3 DEF ReconcileNotFound, makeSureServiceAccountExists,
         handleFinalizer, isAllowedToDeleteCluster, Goto
    <2> QED
      BY <1>1, <1>4, <1>5, <1>6, <1>7, <1>8, <1>9, <2>1, <2>2, <2>3 DEF Reconcile
  <1>10. CASE Environment
    <2>1. CASE Crash \/ DeleteCR \/ EditSpec \/ RemoveForeign
      BY <1>3, <2>1 DEF Crash, DeleteCR, EditSpec, RemoveForeign, UserFrame
    <2>2. CASE ~Crash /\ ~DeleteCR /\ ~EditSpec /\ ~RemoveForeign
      BY <1>2, <1>10, <2>2 DEF Environment, CacheSync, OwnedObjectEvent,
         JobViewSync, JobSucceeds, JobFails, PodsStart, PodsStop,
         ClearDbJobGivesUp, ClaimCreated, GarbageCollect, LabelNode,
         ChangeVolumes, ReleaseVolumes, reconciler, UserFrame
    <2> QED
      BY <2>1, <2>2
  <1>11. CASE UNCHANGED vars
    BY <1>2, <1>11 DEF vars
  <1> QED
    BY <1>9, <1>10, <1>11 DEF Next

\* Both invariants hold in every reachable state.
LEMMA ReleaseInvariant == Spec => []RInv
  <1>1. Init => RInv
    BY InitTypeOK, InitSafe DEF RInv, IInv, ReleaseJustified, Init
  <1>2. RInv /\ [Next]_vars => RInv'
    BY NextIInv, NextJustified DEF RInv
  <1> QED
    BY <1>1, <1>2, PTL DEF Spec

-------------------------------------------------------------------------------
(* The steps *)

\* The phases, one by one.
LEMMA Phases ==
    ASSUME NEW x \in NVMeshType
    PROVE  /\ ~x.exists => PhaseOf(x) = "gone"
           /\ x.exists /\ x.deleting /\ x.finalizer => PhaseOf(x) = "draining"
           /\ x.exists /\ x.deleting /\ ~x.finalizer => PhaseOf(x) = "released"
           /\ x.exists /\ ~x.deleting /\ x.finalizer => PhaseOf(x) = "protected"
           /\ x.exists /\ ~x.deleting /\ ~x.finalizer => PhaseOf(x) = "open"
  BY DEF PhaseOf

\* A step that keeps the abstract state is a stuttering step of Deletion.
LEMMA Stutter ==
    ASSUME PhaseOf(cr') = PhaseOf(cr), cr'.spec.options = cr.spec.options,
           UNCHANGED <<workloads, pods, mongo>>
    PROVE  [D!Next]_(D!vars)
  BY DEF D!vars, Has

\* A status write keeps the abstract state.
LEMMA StatusStutter ==
    ASSUME TypeOK, TypeOK', NEW st, cr' = [cr EXCEPT !.status = st],
           UNCHANGED <<workloads, pods, mongo>>
    PROVE  [D!Next]_(D!vars)
  <1>1. /\ cr'.exists = cr.exists /\ cr'.deleting = cr.deleting
        /\ cr'.finalizer = cr.finalizer /\ cr'.spec = cr.spec
    BY DEF TypeOK, NVMeshType
  <1>2. PhaseOf(cr') = PhaseOf(cr)
    BY <1>1, Phases DEF TypeOK
  <1> QED
    BY <1>1, <1>2, Stutter

\* Components come and go only for a resource that is not open.
LEMMA ManageStep ==
    ASSUME TypeOK, PhaseOf(cr) # "open", UNCHANGED <<cr, pods>>,
           mongo' \in BOOLEAN
    PROVE  [D!Next]_(D!vars)
  BY DEF D!Next, D!Manage, Has

\* Pods follow the workloads.
LEMMA PodsStep ==
    ASSUME TypeOK, UNCHANGED <<cr, workloads, mongo>>,
           pods' \subseteq pods \cup workloads
    PROVE  [D!Next]_(D!vars)
  BY DEF D!Next, D!PodsChange, Has
\* A user requests the deletion: without any finalizer the resource is gone,
\* with ours it drains, with another one it is already released.
LEMMA DeleteStep == ASSUME IInv, TypeOK', DeleteCR PROVE [D!Next]_(D!vars)
  <1>t. cr \in NVMeshType /\ cr' \in NVMeshType
    BY DEF IInv, TypeOK
  <1>0. UNCHANGED <<workloads, pods, mongo>> /\ cr.exists /\ ~cr.deleting
    BY DEF DeleteCR, world, kube
  <1>1. CASE cr.finalizer \/ cr.foreign
    <2>1. /\ cr'.exists /\ cr'.deleting /\ cr'.finalizer = cr.finalizer
          /\ cr'.spec = cr.spec
      BY <1>t, <1>0, <1>1 DEF DeleteCR, NVMeshType
    <2>2. \/ PhaseOf(cr) = "protected" /\ PhaseOf(cr') = "draining"
          \/ PhaseOf(cr) = "open" /\ PhaseOf(cr') = "released"
      BY <1>t, <1>0, <2>1, Phases
    <2>3. D!RequestDeletion
      BY <1>0, <2>1, <2>2 DEF D!RequestDeletion, D!MoveTo, Has
    <2> QED
      BY <2>3 DEF D!Next
  <1>2. CASE ~cr.finalizer /\ ~cr.foreign
    <2>1. ~cr'.exists /\ cr'.spec.options = {}
      BY <1>2 DEF DeleteCR, Absent
    <2>2. PhaseOf(cr) = "open" /\ PhaseOf(cr') = "gone"
      BY <1>t, <1>0, <1>2, <2>1, Phases
    <2>3. D!RequestDeletion
      BY <1>0, <2>1, <2>2 DEF D!RequestDeletion, D!MoveTo, Has
    <2> QED
      BY <2>3 DEF D!Next
  <1> QED
    BY <1>1, <1>2

\* The other controller's finalizer goes: a resource that waited only for it
\* vanishes.
LEMMA ForeignStep == ASSUME IInv, TypeOK', RemoveForeign PROVE [D!Next]_(D!vars)
  <1>t. cr \in NVMeshType /\ cr' \in NVMeshType
    BY DEF IInv, TypeOK
  <1>0. UNCHANGED <<workloads, pods, mongo>> /\ cr.exists
    BY DEF RemoveForeign, world, kube
  <1>1. CASE cr.deleting /\ ~cr.finalizer
    <2>1. ~cr'.exists /\ cr'.spec.options = {}
      BY <1>1 DEF RemoveForeign, Absent
    <2>2. PhaseOf(cr) = "released" /\ PhaseOf(cr') = "gone"
      BY <1>t, <1>0, <1>1, <2>1, Phases
    <2>3. D!Vanish
      BY <1>0, <2>1, <2>2 DEF D!Vanish, D!MoveTo, Has
    <2> QED
      BY <2>3 DEF D!Next
  <1>2. CASE ~(cr.deleting /\ ~cr.finalizer)
    <2>1. /\ cr'.exists = cr.exists /\ cr'.deleting = cr.deleting
          /\ cr'.finalizer = cr.finalizer /\ cr'.spec = cr.spec
      BY <1>t, <1>2 DEF RemoveForeign, NVMeshType
    <2>2. PhaseOf(cr') = PhaseOf(cr)
      BY <1>t, <2>1, Phases
    <2> QED
      BY <1>0, <2>1, <2>2, Stutter
  <1> QED
    BY <1>1, <1>2

\* An edit may change the options and nothing else Deletion speaks of.
LEMMA EditStep == ASSUME IInv, TypeOK', EditSpec PROVE [D!Next]_(D!vars)
  <1>t. cr \in NVMeshType /\ cr' \in NVMeshType
    BY DEF IInv, TypeOK
  <1>0. UNCHANGED <<workloads, pods, mongo>> /\ cr.exists
    BY DEF EditSpec, world, kube
  <1>1. /\ cr'.exists = cr.exists /\ cr'.deleting = cr.deleting
        /\ cr'.finalizer = cr.finalizer
    BY <1>t DEF EditSpec, NVMeshType
  <1>2. PhaseOf(cr') = PhaseOf(cr) /\ PhaseOf(cr) # "gone"
    BY <1>t, <1>0, <1>1, Phases
  <1>3. D!Configure
    BY <1>0, <1>2 DEF D!Configure, Has
  <1> QED
    BY <1>3 DEF D!Next

\* Every step that is not the operator's own.
LEMMA EnvironmentRefines ==
    ASSUME IInv, TypeOK', Environment PROVE [D!Next]_(D!vars)
  <1>1. CASE DeleteCR \/ RemoveForeign \/ EditSpec
    BY <1>1, DeleteStep, ForeignStep, EditStep
  <1>2. CASE GarbageCollect
    <2>1. PhaseOf(cr) # "open"
      BY <1>2, Phases DEF GarbageCollect, IInv, TypeOK
    <2> QED
      BY <1>2, <2>1, ManageStep DEF GarbageCollect, reconciler, IInv
  <1>3. CASE \E c \in Components : PodsStart(c) \/ PodsStop(c)
    <2>1. UNCHANGED <<cr, workloads, mongo>> /\ pods' \subseteq pods \cup workloads
      BY <1>3 DEF PodsStart, PodsStop, reconciler
    <2> QED
      BY <2>1, PodsStep DEF IInv
  <1>4. CASE UNCHANGED <<cr, workloads, pods, mongo>>
    BY <1>4, Stutter
  <1>5. CASE /\ ~DeleteCR /\ ~RemoveForeign /\ ~EditSpec /\ ~GarbageCollect
             /\ ~(\E c \in Components : PodsStart(c) \/ PodsStop(c))
    <2>1. UNCHANGED <<cr, workloads, pods, mongo>>
      BY <1>5 DEF Environment, CacheSync, OwnedObjectEvent, Crash, JobViewSync,
         JobSucceeds, JobFails, ClearDbJobGivesUp, ClaimCreated, LabelNode,
         ChangeVolumes, ReleaseVolumes, reconciler, world, kube
    <2> QED
      BY <1>4, <2>1
  <1> QED
    BY <1>1, <1>2, <1>3, <1>5
\* The finalizer is added to a current copy, so to a resource nobody deletes.
LEMMA ProtectStep ==
    ASSUME RInv, TypeOK', addFinalizerAndUpdate PROVE [D!Next]_(D!vars)
  <1>t. cr \in NVMeshType /\ cr' \in NVMeshType
    BY DEF RInv, IInv, TypeOK
  <1>0. UNCHANGED <<workloads, pods, mongo>> /\ ~mem.deleting
    BY DEF addFinalizerAndUpdate, world, kube
  <1>1. CASE UNCHANGED cr
    BY <1>0, <1>1, Stutter
  <1>2. CASE /\ current
             /\ cr' = [cr EXCEPT !.finalizer = TRUE, !.spec = mem.spec]
    <2>1. cr.exists /\ ~cr.deleting /\ cr.spec.options = mem.spec.options
      BY <1>0, <1>2
         DEF RInv, IInv, Safe, Existence, DeletionOrder, ReleaseJustified
    <2>2. /\ cr'.exists /\ ~cr'.deleting /\ cr'.finalizer
          /\ cr'.spec.options = cr.spec.options
      BY <1>t, <1>2, <2>1 DEF NVMeshType
    <2>3. PhaseOf(cr') = "protected" /\ PhaseOf(cr) \in {"open", "protected"}
      BY <1>t, <2>1, <2>2, Phases
    <2>4. CASE PhaseOf(cr) = "open"
      <3>1. D!Protect
        BY <1>0, <2>2, <2>3, <2>4 DEF D!Protect, Has
      <3> QED
        BY <3>1 DEF D!Next
    <2>5. CASE PhaseOf(cr) = "protected"
      BY <1>0, <2>2, <2>3, <2>5, Stutter
    <2> QED
      BY <2>3, <2>4, <2>5
  <1> QED
    BY <1>1, <1>2 DEF addFinalizerAndUpdate

\* A recorded uninstall of all stages leaves nothing behind.
LEMMA AllStagesClean ==
    ASSUME RInv, cr.finalizer, mem.status.finished = Stage
    PROVE  workloads = {} /\ pods \cap {"core", "csi"} = {} /\ ~mongo
  BY DEF RInv, IInv, Safe, Truthful, Effects, Stage, removeAllWorkloads,
         waitForWorkloadsToFinish, removeMongo

\* The finalizer is released over a clean cluster or on the user's word.
LEMMA ReleaseStep ==
    ASSUME RInv, TypeOK', removeFinalizerAndUpdate PROVE [D!Next]_(D!vars)
  <1>t. cr \in NVMeshType /\ cr' \in NVMeshType
    BY DEF RInv, IInv, TypeOK
  <1>0. UNCHANGED <<workloads, pods, mongo>> /\ pc = "removeFinalizer"
    BY DEF removeFinalizerAndUpdate, world, kube
  <1>1. CASE UNCHANGED cr
    BY <1>0, <1>1, Stutter
  <1>2. CASE /\ current
             /\ cr' = IF cr.foreign
                      THEN [cr EXCEPT !.finalizer = FALSE, !.spec = mem.spec]
                      ELSE Absent
    <2>1. cr.exists /\ cr.deleting /\ cr.spec.options = mem.spec.options
      BY <1>0, <1>2 DEF RInv, IInv, Safe, Existence, DeletionOrder, DeletionPC,
                        ReleaseJustified
    <2>2. \/ /\ cr'.exists /\ cr'.deleting /\ ~cr'.finalizer
             /\ cr'.spec.options = cr.spec.options
          \/ ~cr'.exists /\ cr'.spec.options = {}
      <3>1. CASE cr.foreign
        BY <1>t, <1>2, <2>1, <3>1 DEF NVMeshType
      <3>2. CASE ~cr.foreign
        BY <1>2, <3>2 DEF Absent
      <3> QED
        BY <3>1, <3>2
    <2>3. \/ PhaseOf(cr') = "released" /\ cr'.spec.options = cr.spec.options
          \/ PhaseOf(cr') = "gone" /\ cr'.spec.options = {}
      BY <1>t, <2>2, Phases
    <2>4. CASE cr.finalizer
      <3>1. PhaseOf(cr) = "draining"
        BY <1>t, <2>1, <2>4, Phases
      <3>2. Has(cr, "skipUninstall") \/ D!Clean
        <4>1. Has(mem, "skipUninstall") \/ mem.status.finished = Stage
          BY <1>0 DEF RInv, ReleaseJustified
        <4> QED
          BY <2>1, <2>4, <4>1, AllStagesClean DEF D!Clean, Has
      <3>3. D!Release
        BY <1>0, <2>3, <3>1, <3>2 DEF D!Release, D!MoveTo, Has
      <3> QED
        BY <3>3 DEF D!Next
    <2>5. CASE ~cr.finalizer
      <3>1. PhaseOf(cr) = "released"
        BY <1>t, <2>1, <2>5, Phases
      <3>2. CASE PhaseOf(cr') = "released" /\ cr'.spec.options = cr.spec.options
        BY <1>0, <3>1, <3>2, Stutter
      <3>3. CASE PhaseOf(cr') = "gone" /\ cr'.spec.options = {}
        <4>1. D!Vanish
          BY <1>0, <3>1, <3>3 DEF D!Vanish, D!MoveTo, Has
        <4> QED
          BY <4>1 DEF D!Next
      <3> QED
        BY <2>3, <3>2, <3>3
    <2> QED
      BY <2>4, <2>5
  <1> QED
    BY <1>1, <1>2 DEF removeFinalizerAndUpdate

\* A stage runs only for a resource whose deletion was requested.
LEMMA UninstallRefines ==
    ASSUME RInv, TypeOK', uninstallCluster PROVE [D!Next]_(D!vars)
  <1>1. UNCHANGED <<cr, pods>>
    BY DEF uninstallCluster, SkipUninstall, removeAllWorkloadsExceptMongo,
       WaitForWorkloadsToFinish, RunClearDbJob, WaitForClearDBToFinish,
       RemoveMongo, RunUninstallJobs, WaitForUninstallCompletion, DeletePVCs,
       DeleteClusterServiceAccount, UninstallComplete, StageFrame, world, kube
  <1>2. pc \in {"uninstallCluster", "waitForUninstallCompletion"}
    BY DEF uninstallCluster, SkipUninstall, removeAllWorkloadsExceptMongo,
       WaitForWorkloadsToFinish, RunClearDbJob, WaitForClearDBToFinish,
       RemoveMongo, RunUninstallJobs, WaitForUninstallCompletion, DeletePVCs,
       DeleteClusterServiceAccount, UninstallComplete, AtStage
  <1>3. cr.deleting \/ ~cr.exists
    BY <1>2 DEF RInv, IInv, Safe, DeletionOrder, DeletionPC, Busy, Doomed
  <1>4. PhaseOf(cr) # "open" /\ mongo' \in BOOLEAN
    BY <1>3, Phases DEF RInv, IInv, TypeOK
  <1> QED
    BY <1>1, <1>4, ManageStep DEF RInv, IInv

\* Components are deployed only under the finalizer or after a deletion
\* without it.
LEMMA ComponentsRefine ==
    ASSUME RInv, TypeOK', reconcileAllcomponents PROVE [D!Next]_(D!vars)
  <1>1. UNCHANGED <<cr, pods>> /\ pc = "reconcileAllComponents"
    BY DEF reconcileAllcomponents, ComponentsSettled, ComponentError,
       MongoNotReady, MongoError, ComponentsFrame
  <1>2. cr.exists /\ ~cr.deleting => cr.finalizer
    BY <1>1 DEF RInv, IInv, Safe, FinalizerOrder, DeletionOrder, Busy, Doomed
  <1>3. PhaseOf(cr) # "open" /\ mongo' \in BOOLEAN
    BY <1>2, Phases DEF RInv, IInv, TypeOK
  <1> QED
    BY <1>1, <1>3, ManageStep DEF RInv, IInv

\* Every step of the operator is a step of Deletion or keeps its state.
LEMMA NextRefines == RInv /\ [Next]_vars => [D!Next]_(D!vars)
  <1> SUFFICES ASSUME RInv, [Next]_vars PROVE [D!Next]_(D!vars)
      OBVIOUS
  <1>t. TypeOK /\ TypeOK'
    BY NextTypeOK DEF RInv, IInv
  <1>1. CASE Environment
    BY <1>1, <1>t, EnvironmentRefines DEF RInv
  <1>2. CASE UNCHANGED <<cr, workloads, pods, mongo>>
    BY <1>2, Stutter
  <1>3. CASE /\ UNCHANGED <<workloads, pods, mongo>>
             /\ \E st : cr' = [cr EXCEPT !.status = st]
    BY <1>3, <1>t, StatusStutter
  <1>4. CASE Reconcile
    <2>1. CASE \/ updateUninstallStatus \/ RemoveFinishedActionStatuses
               \/ ManageSuccess \/ ManageError
      <3>1. /\ UNCHANGED <<workloads, pods, mongo>>
            /\ UNCHANGED cr \/ \E st : cr' = [cr EXCEPT !.status = st]
        BY <2>1 DEF updateUninstallStatus, RemoveFinishedActionStatuses,
           ManageSuccess, ManageError, StatusUpdated, StatusUpdateFails,
           StoreStatus, world, kube
      <3> QED
        BY <1>2, <1>3, <3>1
    <2>2. CASE \/ ReconcileNotFound \/ ReconcileFetch \/ handleFinalizer
               \/ makeSureServiceAccountExists \/ isAllowedToDeleteCluster
      BY <1>2, <2>2 DEF ReconcileNotFound, ReconcileFetch, handleFinalizer,
         makeSureServiceAccountExists, isAllowedToDeleteCluster, world, kube
    <2> QED
      BY <1>4, <1>t, <2>1, <2>2, ProtectStep, ReleaseStep, UninstallRefines,
         ComponentsRefine DEF Reconcile
  <1>5. CASE UNCHANGED vars
    BY <1>2, <1>5 DEF vars
  <1> QED
    BY <1>1, <1>4, <1>5 DEF Next

\* The initial states are initial states of Deletion.
LEMMA InitRefines == Init => D!Init
  <1> SUFFICES ASSUME Init PROVE D!Init
      OBVIOUS
  <1>1. PICK s \in Specs, f \in ForeignChoices :
           cr = [Absent EXCEPT !.exists = TRUE, !.foreign = f, !.spec = s]
    BY DEF Init
  <1>2. cr.exists /\ ~cr.deleting /\ ~cr.finalizer
    BY <1>1 DEF Absent
  <1>3. PhaseOf(cr) = "open"
    BY <1>2, InitTypeOK, Phases DEF TypeOK
  <1> QED
    BY <1>3 DEF Init, D!Init, Has

\* The operator implements Deletion, whatever the nodes, the specs, the
\* failing calls, the crashes and the edits: nothing is deployed before the
\* finalizer protects the resource, and removeFinalizerAndUpdate releases it
\* only over a cluster that is down or with skipUninstall set.
THEOREM OperatorImplementsDeletion == Spec => ImplementsDeletion
  BY ReleaseInvariant, InitRefines, NextRefines, PTL
     DEF Spec, ImplementsDeletion, D!Spec
===============================================================================
