-------------------------- MODULE ConvergenceProofs --------------------------
(***************************************************************************)
(* The operator comes to rest only over the cluster its resource asks for, *)
(* provided no component error is dropped (see ErrorsAreRequeued for what  *)
(* happens when one is).                                                   *)
(***************************************************************************)
EXTENDS OperatorSafetyProofs

CInv == IInv /\ Converging

\* A step that leaves alone what Converging speaks of, apart from a resource
\* that goes or is edited.
LEMMA Undisturbed ==
    ASSUME Converging, UNCHANGED <<cache, mem, pc, workloads, mongo>>,
           queued => queued', cr'.exists => cr.exists,
           cr'.exists => cr'.status = cr.status,
           current' => current /\ UNCHANGED cr
    PROVE  Converging'
  BY DEF Converging, Busy, Deployed, isValid, Has

\* The fields of a copy with a new status.
LEMMA CopyFields ==
    ASSUME NEW x \in NVMeshType, NEW st
    PROVE  LET y == [x EXCEPT !.status = st]
           IN  /\ y.exists = x.exists /\ y.deleting = x.deleting
               /\ y.spec = x.spec /\ y.status = st
  BY DEF NVMeshType

\* Steps of the environment.
LEMMA EnvironmentConverging ==
    ASSUME CInv, Environment PROVE Converging'
  <1>t. cr \in NVMeshType /\ Converging
    BY DEF CInv, IInv, TypeOK
  <1>1. CASE CacheSync
    <2>1. /\ cache' = cr /\ queued' = (queued \/ Generation(cache) # Generation(cr))
          /\ UNCHANGED <<cr, mem, current, pc, workloads, mongo>>
      BY <1>1 DEF CacheSync, world, kube
    <2>2. ~queued' => ~queued /\ cache'.exists = cache.exists
                      /\ cache'.deleting = cache.deleting /\ cache'.spec = cache.spec
      BY <2>1 DEF Generation
    <2> QED
      BY <1>t, <2>1, <2>2 DEF Converging, Busy, Deployed, isValid, Has
  <1>2. CASE Crash
    BY <1>2 DEF Crash, Converging, Busy
  <1>3. CASE DeleteCR
    <2>1. /\ UNCHANGED <<cache, mem, pc, queued, workloads, mongo>>
          /\ cr.exists /\ ~current'
      BY <1>3 DEF DeleteCR, UserFrame, world, kube
    <2>2. cr'.exists => cr'.status = cr.status
      BY <1>3, <1>t DEF DeleteCR, Absent, NVMeshType
    <2> QED
      BY <1>t, <2>1, <2>2, Undisturbed
  <1>4. CASE EditSpec
    <2>1. /\ UNCHANGED <<cache, mem, pc, queued, workloads, mongo>>
          /\ cr.exists /\ ~current'
      BY <1>4 DEF EditSpec, UserFrame, world, kube
    <2>2. cr'.status = cr.status
      BY <1>4, <1>t DEF EditSpec, NVMeshType
    <2> QED
      BY <1>t, <2>1, <2>2, Undisturbed
  <1>5. CASE RemoveForeign
    <2>1. /\ UNCHANGED <<cache, mem, pc, queued, workloads, mongo>>
          /\ cr.exists /\ ~current'
      BY <1>5 DEF RemoveForeign, UserFrame, world, kube
    <2>2. cr'.exists => cr'.status = cr.status
      BY <1>5, <1>t DEF RemoveForeign, Absent, NVMeshType
    <2> QED
      BY <1>t, <2>1, <2>2, Undisturbed
  <1>6. CASE GarbageCollect
    <2>1. ~cr'.exists /\ UNCHANGED <<cr, cache, mem, current, pc, queued>>
      BY <1>6 DEF GarbageCollect, reconciler
    <2> QED
      BY <1>t, <2>1 DEF Converging, Busy, isValid, Has
  <1>7. CASE OwnedObjectEvent
    BY <1>t, <1>7, Undisturbed DEF OwnedObjectEvent, world, kube
  <1>8. CASE /\ ~CacheSync /\ ~Crash /\ ~DeleteCR /\ ~EditSpec /\ ~RemoveForeign
             /\ ~GarbageCollect /\ ~OwnedObjectEvent
    <2>1. UNCHANGED <<cr, cache, mem, current, pc, queued, workloads, mongo>>
      BY <1>8 DEF Environment, JobViewSync, JobSucceeds, JobFails, PodsStart,
         PodsStop, ClearDbJobGivesUp, ClaimCreated, LabelNode, ChangeVolumes,
         ReleaseVolumes, reconciler, UserFrame, kube
    <2> QED
      BY <1>t, <2>1, Undisturbed
  <1> QED
    BY <1>1, <1>2, <1>3, <1>4, <1>5, <1>6, <1>7, <1>8

\* The end of a cycle: with nothing queued it was a cycle that succeeded.
LEMMA ManageConverging ==
    ASSUME CInv, ManageSuccess \/ ManageError PROVE Converging'
  <1>t. cr \in NVMeshType /\ Converging /\ mem \in NVMeshType
    BY DEF CInv, IInv, TypeOK
  <1>1. UNCHANGED <<cache, workloads, mongo>> /\ pc' = "idle" /\ ~current'
    BY DEF ManageSuccess, ManageError, EndCycle, world, kube
  <1>2. SUFFICES ASSUME ~queued', cache.exists, ~cache.deleting, cr'.exists
                 PROVE  Deployed(cache)' /\ cr'.status.ready = "True"
    BY <1>1 DEF Converging, Busy
  <1>3. /\ pc = "manageSuccess" /\ ~queued
        /\ StatusUpdated([mem.status EXCEPT !.ready = "True"])
    BY <1>2 DEF ManageSuccess, ManageError, EndCycle
  <1>4. ~mem.deleting
    BY <1>2, <1>3 DEF CInv, IInv, Safe, DeletionOrder, Busy, Doomed
  <1>5. cr.exists /\ cr' = [cr EXCEPT !.status = [mem.status EXCEPT !.ready = "True"]]
    BY <1>2, <1>3 DEF StatusUpdated, StoreStatus
  <1>6. cr'.status.ready = "True"
    BY <1>5, <1>t DEF NVMeshType, StatusType
  <1>7. Deployed(mem) /\ cache.spec = mem.spec
    BY <1>t, <1>3, <1>4, <1>5 DEF Converging, Busy
  <1> QED
    BY <1>1, <1>6, <1>7 DEF Deployed, isValid, Has

\* The components: without a dropped error they are what the copy asks for.
LEMMA ComponentsConverging ==
    ASSUME "components" \notin Faulty, CInv, reconcileAllcomponents
    PROVE  Converging'
  <1>t. Converging
    BY DEF CInv
  <1>1. CASE ComponentsSettled
    <2>1. /\ UNCHANGED <<cr, cache, mem, current, queued>>
          /\ pc = "reconcileAllComponents"
          /\ pc' = "removeFinishedActionStatuses"
          /\ workloads' = Components \ mem.spec.disabled
      BY <1>1 DEF ComponentsSettled, ComponentsFrame, Deploy, Enabled, Goto
    <2>2. mongo' <=> "mgmt" \notin mem.spec.disabled
      BY <1>1 DEF ComponentsSettled, Enabled, Components
    <2>3. ~mem.deleting => Deployed(mem)'
      BY <1>t, <2>1, <2>2 DEF Converging, Deployed, isValid, Has
    <2> QED
      BY <1>t, <2>1, <2>3 DEF Converging, Busy
  <1>2. CASE MongoNotReady
    BY <1>2 DEF MongoNotReady, EndCycle, Converging, Busy
  <1>3. CASE MongoError
    <2>1. /\ UNCHANGED <<cr, cache, mem, current, queued>>
          /\ pc = "reconcileAllComponents" /\ pc' = "manageError"
      BY <1>3 DEF MongoError, ComponentsFrame, Goto
    <2> QED
      BY <1>t, <2>1 DEF Converging, Busy
  <1> QED
    BY <1>1, <1>2, <1>3 DEF reconcileAllcomponents, ComponentError, Fault

\* A cycle that handles a deletion says nothing about what is deployed.
LEMMA DeletionConverging ==
    ASSUME CInv,
           \/ uninstallCluster \/ updateUninstallStatus
           \/ removeFinalizerAndUpdate \/ isAllowedToDeleteCluster
    PROVE  Converging'
  <1>1. mem.deleting /\ pc \in DeletionPC
    <2>1. pc \in DeletionPC
      BY DEF uninstallCluster, SkipUninstall, removeAllWorkloadsExceptMongo,
         WaitForWorkloadsToFinish, RunClearDbJob, WaitForClearDBToFinish,
         RemoveMongo, RunUninstallJobs, WaitForUninstallCompletion, DeletePVCs,
         DeleteClusterServiceAccount, UninstallComplete, AtStage,
         updateUninstallStatus, removeFinalizerAndUpdate,
         isAllowedToDeleteCluster, DeletionPC
    <2> QED
      BY <2>1 DEF CInv, IInv, Safe, DeletionOrder
  <1>2. mem'.deleting
    <2>1. mem \in NVMeshType
      BY DEF CInv, IInv, TypeOK
    <2>2. CASE uninstallCluster
      <3>1. /\ [mem EXCEPT !.status.tracked = TRUE].deleting = mem.deleting
            /\ [mem EXCEPT !.spec.disabled = Components,
                           !.status.tracked = TRUE].deleting = mem.deleting
            /\ \A s : [mem EXCEPT !.status.tracked = TRUE,
                                  !.status.finished = @ \cup {s}].deleting = mem.deleting
        BY <2>1 DEF NVMeshType
      <3> QED
        BY <1>1, <2>2, <3>1 DEF uninstallCluster, SkipUninstall,
           removeAllWorkloadsExceptMongo, WaitForWorkloadsToFinish,
           RunClearDbJob, WaitForClearDBToFinish, RemoveMongo,
           RunUninstallJobs, WaitForUninstallCompletion, DeletePVCs,
           DeleteClusterServiceAccount, UninstallComplete, StageFinished,
           StageRequeue, StageError, Started
    <2>3. CASE updateUninstallStatus
      BY <1>1, <2>1, <2>3, CopyFields DEF updateUninstallStatus
    <2>4. CASE removeFinalizerAndUpdate
      BY <1>1, <2>1, <2>4 DEF removeFinalizerAndUpdate, NVMeshType
    <2>5. CASE isAllowedToDeleteCluster
      BY <1>1, <2>5 DEF isAllowedToDeleteCluster
    <2> QED
      BY <2>2, <2>3, <2>4, <2>5
  <1>3. pc' # "idle"
    BY DEF uninstallCluster, SkipUninstall, removeAllWorkloadsExceptMongo,
       WaitForWorkloadsToFinish, RunClearDbJob, WaitForClearDBToFinish,
       RemoveMongo, RunUninstallJobs, WaitForUninstallCompletion, DeletePVCs,
       DeleteClusterServiceAccount, UninstallComplete, StageFinished,
       StageRequeue, StageError, updateUninstallStatus,
       removeFinalizerAndUpdate, isAllowedToDeleteCluster, Goto
  <1> QED
    BY <1>2, <1>3 DEF Converging
\* The end of the action bookkeeping: a copy replaced by the cached one is
\* followed by a requeue.
LEMMA RemoveStatusesConverging ==
    ASSUME CInv, RemoveFinishedActionStatuses PROVE Converging'
  <1> DEFINE st == [mem.status EXCEPT !.finished = {}, !.tracked = FALSE]
  <1>t. /\ cr \in NVMeshType /\ mem \in NVMeshType /\ cache \in NVMeshType
        /\ current \in BOOLEAN /\ Converging
    BY DEF CInv, IInv, TypeOK
  <1>0. UNCHANGED <<cache, queued, workloads, mongo>> /\ Busy
    BY DEF RemoveFinishedActionStatuses, Busy, world, kube
  <1>a. \/ UNCHANGED <<cr, mem, current>> /\ pc' = "manageSuccess"
        \/ /\ StatusUpdateFails /\ UNCHANGED current
           /\ mem' = [mem EXCEPT !.status = st] /\ pc' = "manageSuccessRequeue"
        \/ /\ StatusUpdated(st) /\ current' = cr.exists
           /\ mem' = [(IF current \/ ~cr.exists THEN mem ELSE cache)
                      EXCEPT !.status = st]
           /\ pc' = "manageSuccessRequeue"
    BY DEF RemoveFinishedActionStatuses, Goto
  <1> HIDE DEF st
  <1>1. CASE UNCHANGED <<cr, mem, current>> /\ pc' = "manageSuccess"
    BY <1>t, <1>0, <1>1
       DEF Converging, Busy, Deployed, isValid, Has, RemoveFinishedActionStatuses
  <1>2. CASE /\ StatusUpdateFails /\ UNCHANGED current
             /\ mem' = [mem EXCEPT !.status = st] /\ pc' = "manageSuccessRequeue"
    <2>1. mem'.deleting = mem.deleting /\ mem'.spec = mem.spec /\ UNCHANGED cr
      BY <1>t, <1>2, CopyFields DEF StatusUpdateFails
    <2> QED
      BY <1>t, <1>0, <1>2, <2>1 DEF Converging, Busy
  <1>3. CASE /\ StatusUpdated(st) /\ current' = cr.exists
             /\ mem' = [(IF current \/ ~cr.exists THEN mem ELSE cache)
                        EXCEPT !.status = st]
             /\ pc' = "manageSuccessRequeue"
    <2>1. \/ mem' = [mem EXCEPT !.status = st] /\ (current' => current)
          \/ mem' = [cache EXCEPT !.status = st] /\ cache = cr /\ cr.exists
      <3>1. CASE current \/ ~cr.exists
        BY <1>3, <3>1
      <3>2. CASE ~current /\ cr.exists
        BY <1>3, <3>2 DEF StatusUpdated, Writable
      <3> QED
        BY <3>1, <3>2
    <2>a. ASSUME NEW x \in NVMeshType
          PROVE  /\ [x EXCEPT !.status = st].spec = x.spec
                 /\ [x EXCEPT !.status = st].deleting = x.deleting
      BY CopyFields
    <2>2. current' => cr'.spec = cr.spec
      <3>1. current' => cr' = [cr EXCEPT !.status = st]
        BY <1>3 DEF StatusUpdated, StoreStatus
      <3> QED
        BY <1>t, <2>a, <3>1
    <2>3. \/ /\ mem'.deleting = mem.deleting /\ mem'.spec = mem.spec
             /\ (current' => current)
          \/ /\ mem'.deleting = cache.deleting /\ mem'.spec = cache.spec
             /\ cache = cr /\ cr.exists
      BY ONLY <1>t, <2>1, <2>a
    <2> QED
      BY <1>t, <1>0, <1>3, <2>2, <2>3 DEF Converging, Busy
  <1> QED
    BY <1>a, <1>1, <1>2, <1>3

\* The start of a cycle up to the components.
LEMMA StartConverging ==
    ASSUME CInv,
           \/ ReconcileNotFound \/ ReconcileFetch \/ makeSureServiceAccountExists
           \/ handleFinalizer \/ addFinalizerAndUpdate
    PROVE  Converging'
  <1>t. cr \in NVMeshType /\ mem \in NVMeshType /\ Converging
    BY DEF CInv, IInv, TypeOK
  <1>1. CASE ReconcileNotFound
    BY <1>t, <1>1 DEF ReconcileNotFound, Converging, Busy, isValid, Has, CInv, IInv, Safe, Existence
  <1>2. CASE ReconcileFetch
    BY <1>t, <1>2 DEF ReconcileFetch, Converging, Busy, isValid, Has, Goto
  <1>3. CASE makeSureServiceAccountExists
    BY <1>t, <1>3 DEF makeSureServiceAccountExists, Converging, Busy, isValid, Has, Goto
  <1>4. CASE handleFinalizer
    <2>1. /\ UNCHANGED <<cr, cache, mem, current, queued>>
          /\ pc = "handleFinalizer"
          /\ pc' \in {"isAllowedToDelete", "reconcileAllComponents"}
      BY <1>4 DEF handleFinalizer, Goto
    <2> QED
      BY <1>t, <2>1 DEF Converging, Busy, isValid, Has
  <1>5. CASE addFinalizerAndUpdate
    <2>0. UNCHANGED <<cache, current, queued>> /\ pc = "handleFinalizer" /\ ~mem.deleting
      BY <1>5 DEF addFinalizerAndUpdate
    <2>1. CASE /\ current /\ cr' = [cr EXCEPT !.finalizer = TRUE, !.spec = mem.spec]
               /\ mem' = cr' /\ pc' = "reconcileAllComponents"
      <3>1. mem'.spec = mem.spec /\ mem'.deleting = cr.deleting
        BY <1>t, <2>1 DEF NVMeshType
      <3> QED
        BY <1>t, <2>0, <2>1, <3>1 DEF Converging, Busy, isValid, Has
    <2>2. CASE /\ mem' = [mem EXCEPT !.finalizer = TRUE] /\ UNCHANGED cr
               /\ pc' = "manageError"
      <3>1. mem'.spec = mem.spec /\ mem'.deleting = mem.deleting
        BY <1>t, <2>2 DEF NVMeshType
      <3> QED
        BY <1>t, <2>0, <2>2, <3>1 DEF Converging, Busy
    <2> QED
      BY <1>5, <2>1, <2>2 DEF addFinalizerAndUpdate, Goto
  <1> QED
    BY <1>1, <1>2, <1>3, <1>4, <1>5

\* When the operator comes to rest the cluster is what the resource asks for
\* and Ready says so, for every set of specs, faults other than a dropped
\* component error, crashes, edits and lags of the informer.
THEOREM RestMeansConverged ==
    ASSUME "components" \notin Faulty
    PROVE  Spec => []QuiescentConverged
  <1>1. Init => CInv
    <2>1. Init => Converging
      BY DEF Init, Converging, Busy, Absent
    <2> QED
      BY <2>1, InitTypeOK, InitSafe DEF CInv, IInv
  <1>2. CInv /\ [Next]_vars => CInv'
    <2> SUFFICES ASSUME CInv, [Next]_vars PROVE CInv'
        OBVIOUS
    <2>1. IInv'
      BY NextIInv DEF CInv
    <2>2. CASE UNCHANGED vars
      BY <2>1, <2>2, Undisturbed DEF vars, CInv
    <2>3. CASE Environment
      BY <2>1, <2>3, EnvironmentConverging DEF CInv
    <2>4. CASE Reconcile
      <3>1. Converging'
        BY <2>4, StartConverging, DeletionConverging, ComponentsConverging,
           RemoveStatusesConverging, ManageConverging DEF Reconcile
      <3> QED
        BY <2>1, <3>1 DEF CInv
    <2> QED
      BY <2>2, <2>3, <2>4 DEF Next
  <1>3. CInv => QuiescentConverged
    <2> SUFFICES ASSUME CInv, pc = "idle", ~queued, cache = cr, cr.exists, ~cr.deleting
                 PROVE  /\ isValid(cr)
                        /\ workloads = Components \ cr.spec.disabled
                        /\ mongo = ("mgmt" \notin cr.spec.disabled)
                        /\ cr.status.ready = "True"
        BY DEF QuiescentConverged
    <2>1. Deployed(cr) /\ cr.status.ready = "True" /\ mongo \in BOOLEAN
      BY DEF CInv, Converging, IInv, TypeOK
    <2>2. mongo = ("mgmt" \notin cr.spec.disabled)
      BY <2>1 DEF Deployed
    <2> QED
      BY <2>1, <2>2 DEF Deployed
  <1> QED
    BY <1>1, <1>2, <1>3, PTL DEF Spec
===============================================================================
