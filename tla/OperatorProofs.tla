---------------------------- MODULE OperatorProofs ----------------------------
(***************************************************************************)
(* Proofs about Operator, for every set of nodes, specs, failing calls and *)
(* environment steps and for every bound.                                  *)
(***************************************************************************)
EXTENDS OperatorInvariant, TLAPS

-------------------------------------------------------------------------------
(* Types *)

\* The resource that does not exist is a well-typed one.
LEMMA AbsentType == Absent \in NVMeshType
  BY DEF Absent, NVMeshType, SpecType, StatusType, NoStatus, Components, Option, Stage

\* Replacing the status keeps the type.
LEMMA WithStatusType ==
    ASSUME NEW x \in NVMeshType, NEW st \in StatusType
    PROVE  [x EXCEPT !.status = st] \in NVMeshType
  BY DEF NVMeshType

\* The fields of a well-typed resource.
LEMMA FieldTypes ==
    ASSUME NEW x \in NVMeshType
    PROVE  /\ x.exists \in BOOLEAN /\ x.deleting \in BOOLEAN
           /\ x.finalizer \in BOOLEAN /\ x.foreign \in BOOLEAN
           /\ x.spec \in SpecType /\ x.status \in StatusType
           /\ x.status.finished \subseteq Stage
  BY DEF NVMeshType, StatusType

\* Both outcomes of a call keep the fault counter a number.
LEMMA FaultType ==
    ASSUME TypeOK, NEW k, NoFault \/ Fault(k)
    PROVE  faults' \in Nat
  BY DEF TypeOK, NoFault, Fault

\* The end of a cycle resets the cycle's variables to well-typed values.
LEMMA EndCycleType ==
    ASSUME TypeOK, NEW r \in BOOLEAN, EndCycle(r)
    PROVE  /\ mem' \in NVMeshType /\ current' \in BOOLEAN /\ pc' \in PC
           /\ queued' \in BOOLEAN /\ nodeList' \subseteq Nodes
  <1>1. queued' \in BOOLEAN
    BY DEF TypeOK, EndCycle
  <1> QED
    BY <1>1, AbsentType DEF EndCycle, PC

\* The three ways a stage can end keep mem and pc well typed.
LEMMA StageEndType ==
    ASSUME TypeOK,
           StageRequeue \/ StageError \/ (\E s \in Stage : StageFinished(s))
    PROVE  mem' \in NVMeshType /\ pc' \in PC
  <1>1. [mem EXCEPT !.status.tracked = TRUE] \in NVMeshType
    BY DEF TypeOK, NVMeshType, StatusType
  <1>2. ASSUME NEW s \in Stage
        PROVE  [mem EXCEPT !.status.tracked = TRUE,
                           !.status.finished = @ \cup {s}] \in NVMeshType
    BY DEF TypeOK, NVMeshType, StatusType
  <1>3. CASE StageRequeue
    BY <1>1, <1>3 DEF StageRequeue, Started, Goto, PC
  <1>4. CASE StageError
    BY <1>1, <1>4 DEF StageError, Started, Goto, PC
  <1>5. CASE \E s \in Stage : StageFinished(s)
    BY <1>2, <1>5 DEF StageFinished, PC
  <1> QED
    BY <1>3, <1>4, <1>5

\* Creating and deleting jobs yields job states.
LEMMA JobSetType ==
    ASSUME TypeOK, NEW js
    PROVE  Created(js) \in [Job -> JobState] /\ Deleted(js) \in [Job -> JobState]
  BY DEF TypeOK, Created, Deleted, JobState

\* Init is well typed.
LEMMA InitTypeOK == Init => TypeOK
  <1> SUFFICES ASSUME Init PROVE TypeOK
      OBVIOUS
  <1>1. PICK s \in Specs, f \in ForeignChoices :
           cr = [Absent EXCEPT !.exists = TRUE, !.foreign = f, !.spec = s]
    BY DEF Init
  <1>2. s \in SpecType /\ f \in BOOLEAN
    BY SpecsAssumption, ForeignAssumption
  <1>3. cr \in NVMeshType
    BY <1>1, <1>2, AbsentType DEF NVMeshType
  <1> QED
    BY <1>3, AbsentType DEF Init, TypeOK, PC, Job, JobState

\* What the stages leave alone stays well typed.
LEMMA StageFrameType ==
    ASSUME TypeOK, StageFrame
    PROVE  /\ cr' \in NVMeshType /\ cache' \in NVMeshType
           /\ current' \in BOOLEAN /\ queued' \in BOOLEAN
           /\ pods' \subseteq Components /\ labelled' \subseteq Nodes
           /\ dirty' \subseteq Nodes /\ attached' \in BOOLEAN /\ pv' \in BOOLEAN
           /\ crashes' \in Nat /\ envOps' \in Nat
  BY DEF TypeOK, StageFrame, volumes, bounds

\* Every step of the uninstall is well typed.
LEMMA UninstallTypeOK == TypeOK /\ uninstallCluster => TypeOK'
  <1> SUFFICES ASSUME TypeOK, uninstallCluster PROVE TypeOK'
      OBVIOUS
  <1> USE FaultType DEF TypeOK
  <1> removeAllWorkloads \in Stage /\ waitForWorkloadsToFinish \in Stage
      /\ clearDB \in Stage /\ waitForClearDBToFinish \in Stage
      /\ removeMongo \in Stage /\ uninstallClusterNodes \in Stage
      /\ deletePVCs \in Stage /\ deleteClusterServiceAccount \in Stage
    BY DEF Stage, removeAllWorkloads, waitForWorkloadsToFinish, clearDB,
           waitForClearDBToFinish, removeMongo, uninstallClusterNodes,
           deletePVCs, deleteClusterServiceAccount
  <1>1. CASE SkipUninstall
    BY <1>1 DEF SkipUninstall, Goto, PC, world, kube, jobVars, volumes, bounds
  <1>2. CASE removeAllWorkloadsExceptMongo
    <2>1. mem' \in NVMeshType /\ pc' \in PC
      BY <1>2, StageEndType DEF removeAllWorkloadsExceptMongo
    <2>2. workloads' \subseteq Components /\ faults' \in Nat
      BY <1>2 DEF removeAllWorkloadsExceptMongo
    <2> QED
      BY <1>2, <2>1, <2>2, StageFrameType DEF removeAllWorkloadsExceptMongo, jobVars
  <1>3. CASE WaitForWorkloadsToFinish
    <2>1. mem' \in NVMeshType /\ pc' \in PC
      BY <1>3, StageEndType DEF WaitForWorkloadsToFinish
    <2>2. faults' \in Nat
      BY <1>3 DEF WaitForWorkloadsToFinish
    <2> QED
      BY <1>3, <2>1, <2>2, StageFrameType DEF WaitForWorkloadsToFinish, jobVars
  <1>4. CASE RunClearDbJob
    <2>1. mem' \in NVMeshType /\ pc' \in PC
      BY <1>4, StageEndType DEF RunClearDbJob
    <2>2. faults' \in Nat /\ jobs' \in [Job -> JobState]
      BY <1>4, JobSetType DEF RunClearDbJob
    <2> QED
      BY <1>4, <2>1, <2>2, StageFrameType DEF RunClearDbJob
  <1>5. CASE WaitForClearDBToFinish
    <2>1. mem' \in NVMeshType /\ pc' \in PC
      BY <1>5, StageEndType DEF WaitForClearDBToFinish
    <2>2. faults' \in Nat /\ jobs' \in [Job -> JobState]
      BY <1>5, JobSetType DEF WaitForClearDBToFinish
    <2> QED
      BY <1>5, <2>1, <2>2, StageFrameType DEF WaitForClearDBToFinish
  <1>6. CASE RemoveMongo
    <2>1. mem' \in NVMeshType /\ pc' \in PC
      BY <1>6, StageEndType DEF RemoveMongo
    <2>2. faults' \in Nat
      BY <1>6 DEF RemoveMongo
    <2>3. mongo' \in BOOLEAN
      BY <1>6 DEF RemoveMongo
    <2> QED
      BY <1>6, <2>1, <2>2, <2>3, StageFrameType DEF RemoveMongo, jobVars
  <1>7. CASE RunUninstallJobs
    <2>1. mem' \in NVMeshType /\ pc' \in PC
      <3>1. CASE StageError
        BY <3>1, StageEndType
      <3>2. CASE mem' = Started /\ Goto("waitForUninstallCompletion")
        <4>1. [mem EXCEPT !.status.tracked = TRUE] \in NVMeshType
          BY DEF NVMeshType, StatusType
        <4> QED
          BY <3>2, <4>1 DEF Started, Goto, PC
      <3> QED
        BY <1>7, <3>1, <3>2 DEF RunUninstallJobs
    <2>2. faults' \in Nat /\ jobs' \in [Job -> JobState]
      BY <1>7, JobSetType DEF RunUninstallJobs
    <2>3. nodeList' \subseteq Nodes
      BY <1>7 DEF RunUninstallJobs
    <2> QED
      BY <1>7, <2>1, <2>2, <2>3, StageFrameType DEF RunUninstallJobs
  <1>8. CASE WaitForUninstallCompletion
    <2>1. mem' \in NVMeshType /\ pc' \in PC
      BY <1>8, StageEndType DEF WaitForUninstallCompletion
    <2>2. faults' \in Nat /\ jobs' \in [Job -> JobState]
      BY <1>8, JobSetType DEF WaitForUninstallCompletion
    <2> QED
      BY <1>8, <2>1, <2>2, StageFrameType DEF WaitForUninstallCompletion
  <1>9. CASE DeletePVCs
    <2>1. mem' \in NVMeshType /\ pc' \in PC
      BY <1>9, StageEndType DEF DeletePVCs
    <2>2. faults' \in Nat /\ pvcs' \in BOOLEAN
      BY <1>9 DEF DeletePVCs
    <2> QED
      BY <1>9, <2>1, <2>2, StageFrameType DEF DeletePVCs, jobVars
  <1>10. CASE DeleteClusterServiceAccount
    <2>1. mem' \in NVMeshType /\ pc' \in PC
      BY <1>10, StageEndType DEF DeleteClusterServiceAccount
    <2>2. faults' \in Nat
      BY <1>10 DEF DeleteClusterServiceAccount
    <2>3. sa' \in BOOLEAN
      BY <1>10 DEF DeleteClusterServiceAccount
    <2> QED
      BY <1>10, <2>1, <2>2, <2>3, StageFrameType DEF DeleteClusterServiceAccount, jobVars
  <1>11. CASE UninstallComplete
    <2>1. [mem EXCEPT !.spec.disabled = Components, !.status.tracked = TRUE]
             \in NVMeshType
      BY DEF NVMeshType, SpecType, StatusType
    <2> QED
      BY <1>11, <2>1 DEF UninstallComplete, Goto, PC, world, kube, jobVars, volumes, bounds
  <1> QED
    BY <1>1, <1>2, <1>3, <1>4, <1>5, <1>6, <1>7, <1>8, <1>9, <1>10, <1>11
       DEF uninstallCluster
\* Every step of the components is well typed.
LEMMA ComponentsTypeOK == TypeOK /\ reconcileAllcomponents => TypeOK'
  <1> SUFFICES ASSUME TypeOK, reconcileAllcomponents PROVE TypeOK'
      OBVIOUS
  <1> USE DEF TypeOK
  <1>1. ASSUME ComponentsFrame
        PROVE  /\ cr' \in NVMeshType /\ cache' \in NVMeshType
               /\ pods' \subseteq Components /\ sa' \in BOOLEAN /\ pvcs' \in BOOLEAN
               /\ jobs' \in [Job -> JobState] /\ jobView' \in [Job -> JobState]
               /\ labelled' \subseteq Nodes /\ dirty' \subseteq Nodes
               /\ attached' \in BOOLEAN /\ pv' \in BOOLEAN
               /\ crashes' \in Nat /\ envOps' \in Nat
    BY <1>1 DEF ComponentsFrame, jobVars, volumes, bounds
  <1>2. ASSUME NEW kept \in SUBSET Components, Deploy(kept)
        PROVE  workloads' \subseteq Components
    BY <1>2 DEF Deploy, Enabled
  <1>3. CASE ComponentsSettled
    <2>1. mongo' \in BOOLEAN /\ workloads' \subseteq Components
      BY <1>3, <1>2 DEF ComponentsSettled
    <2> QED
      BY <1>3, <1>1, <2>1, FaultType DEF ComponentsSettled, Goto, PC
  <1>4. CASE ComponentError
    <2>1. mongo' \in BOOLEAN /\ workloads' \subseteq Components
      BY <1>4, <1>2 DEF ComponentError
    <2> QED
      BY <1>4, <1>1, <2>1, FaultType DEF ComponentError, Goto, PC
  <1>5. CASE MongoNotReady
    <2>1. mongo' \in BOOLEAN /\ workloads' \subseteq Components
      BY <1>5, <1>2 DEF MongoNotReady, Components
    <2> QED
      BY <1>5, <1>1, <2>1, FaultType, EndCycleType DEF MongoNotReady
  <1>6. CASE MongoError
    <2>1. workloads' \subseteq Components
      BY <1>6, <1>2 DEF MongoError
    <2>2. mongo' \in BOOLEAN
      <3>1. CASE UNCHANGED mongo
        BY <3>1
      <3>2. CASE mongo' = ("mgmt" \in Enabled)
        BY <3>2
      <3> QED
        BY <1>6, <3>1, <3>2 DEF MongoError
    <2> QED
      BY <1>6, <1>1, <2>1, <2>2, FaultType DEF MongoError, Goto, PC
  <1> QED
    BY <1>3, <1>4, <1>5, <1>6 DEF reconcileAllcomponents

\* The conditions a cycle sets keep a status well typed.
LEMMA StatusValueType ==
    ASSUME NEW st \in StatusType
    PROVE  /\ [st EXCEPT !.ready = "True"] \in StatusType
           /\ [st EXCEPT !.ready = "False"] \in StatusType
           /\ [st EXCEPT !.ready = "False", !.uninstalling = TRUE] \in StatusType
           /\ [st EXCEPT !.finished = {}, !.tracked = FALSE] \in StatusType
  BY DEF StatusType

\* Whether the status write succeeds or fails, the resource is well typed.
LEMMA StatusWriteType ==
    ASSUME TypeOK, NEW st \in StatusType, StatusUpdated(st) \/ StatusUpdateFails
    PROVE  cr' \in NVMeshType /\ faults' \in Nat
  BY WithStatusType, FaultType DEF TypeOK, StatusUpdated, StatusUpdateFails, StoreStatus

\* Every step of the operator is well typed.
LEMMA ReconcileTypeOK == TypeOK /\ Reconcile => TypeOK'
  <1> SUFFICES ASSUME TypeOK, Reconcile PROVE TypeOK'
      OBVIOUS
  <1> USE DEF TypeOK
  <1>0. mem.status \in StatusType /\ cr.status \in StatusType
    BY FieldTypes
  <1>1. CASE ReconcileNotFound
    BY <1>1 DEF ReconcileNotFound, world, kube, jobVars, volumes, bounds
  <1>2. CASE ReconcileFetch
    BY <1>2 DEF ReconcileFetch, Goto, PC, world, kube, jobVars, volumes, bounds
  <1>3. CASE makeSureServiceAccountExists
    <2>1. sa' \in BOOLEAN
      BY <1>3 DEF makeSureServiceAccountExists
    <2>2. pc' \in PC /\ faults' \in Nat
      BY <1>3, FaultType DEF makeSureServiceAccountExists, Goto, PC
    <2> QED
      BY <1>3, <2>1, <2>2 DEF makeSureServiceAccountExists, jobVars, volumes, bounds
  <1>4. CASE handleFinalizer
    BY <1>4 DEF handleFinalizer, Goto, PC, world, kube, jobVars, volumes, bounds
  <1>5. CASE addFinalizerAndUpdate
    <2>1. cr' \in NVMeshType
      BY <1>5 DEF addFinalizerAndUpdate, NVMeshType
    <2>2. mem' \in NVMeshType
      BY <1>5, <2>1 DEF addFinalizerAndUpdate, NVMeshType
    <2>3. pc' \in PC /\ faults' \in Nat
      BY <1>5, FaultType DEF addFinalizerAndUpdate, Goto, PC
    <2> QED
      BY <1>5, <2>1, <2>2, <2>3
         DEF addFinalizerAndUpdate, world, kube, jobVars, volumes, bounds
  <1>6. CASE isAllowedToDeleteCluster
    <2>1. pc' \in PC /\ faults' \in Nat
      BY <1>6, FaultType DEF isAllowedToDeleteCluster, Goto, PC
    <2> QED
      BY <1>6, <2>1
         DEF isAllowedToDeleteCluster, world, kube, jobVars, volumes, bounds
  <1>7. CASE uninstallCluster
    BY <1>7, UninstallTypeOK
  <1>8. CASE updateUninstallStatus
    <2>1. cr' \in NVMeshType /\ mem' \in NVMeshType
      BY <1>0, <1>8, WithStatusType, StatusValueType
         DEF updateUninstallStatus, StoreStatus
    <2>2. pc' \in PC /\ faults' \in Nat
      BY <1>8, FaultType DEF updateUninstallStatus, Goto, PC
    <2> QED
      BY <1>8, <2>1, <2>2
         DEF updateUninstallStatus, world, kube, jobVars, volumes, bounds
  <1>9. CASE removeFinalizerAndUpdate
    <2>1. cr' \in NVMeshType
      BY <1>9, AbsentType DEF removeFinalizerAndUpdate, NVMeshType
    <2>2. mem' \in NVMeshType
      BY <1>9 DEF removeFinalizerAndUpdate, NVMeshType
    <2>3. pc' \in PC /\ faults' \in Nat
      BY <1>9, FaultType DEF removeFinalizerAndUpdate, Goto, PC
    <2>4. current' \in BOOLEAN
      BY <1>9, FieldTypes DEF removeFinalizerAndUpdate
    <2> QED
      BY <1>9, <2>1, <2>2, <2>3, <2>4
         DEF removeFinalizerAndUpdate, world, kube, jobVars, volumes, bounds
  <1>10. CASE reconcileAllcomponents
    BY <1>10, ComponentsTypeOK
  <1>11. CASE RemoveFinishedActionStatuses
    <2> DEFINE st == [mem.status EXCEPT !.finished = {}, !.tracked = FALSE]
    <2>1. st \in StatusType
      BY <1>0, StatusValueType
    <2> HIDE DEF st
    <2>2. \/ /\ StatusUpdated(st) /\ current' = cr.exists
             /\ mem' = [(IF current \/ ~cr.exists THEN mem ELSE cache) EXCEPT !.status = st]
          \/ StatusUpdateFails /\ UNCHANGED current /\ mem' = [mem EXCEPT !.status = st]
          \/ NoFault /\ UNCHANGED <<cr, mem, current>>
      BY <1>11 DEF RemoveFinishedActionStatuses, st
    <2>3. cr' \in NVMeshType /\ faults' \in Nat
      BY <2>1, <2>2, StatusWriteType, FaultType
    <2>4. mem' \in NVMeshType
      BY <2>1, <2>2, WithStatusType
    <2>5. current' \in BOOLEAN
      BY <2>2, FieldTypes
    <2>6. pc' \in PC
      BY <1>11 DEF RemoveFinishedActionStatuses, Goto, PC
    <2> QED
      BY <1>11, <2>3, <2>4, <2>5, <2>6
         DEF RemoveFinishedActionStatuses, world, kube, jobVars, volumes, bounds
  <1>12. CASE ManageSuccess
    <2>1. cr' \in NVMeshType /\ faults' \in Nat
      BY <1>0, <1>12, StatusValueType, StatusWriteType DEF ManageSuccess
    <2> QED
      BY <1>12, <2>1, EndCycleType
         DEF ManageSuccess, world, kube, jobVars, volumes, bounds
  <1>13. CASE ManageError
    <2>1. cr' \in NVMeshType /\ faults' \in Nat
      BY <1>0, <1>13, StatusValueType, StatusWriteType DEF ManageError
    <2> QED
      BY <1>13, <2>1, EndCycleType
         DEF ManageError, world, kube, jobVars, volumes, bounds
  <1> QED
    BY <1>1, <1>2, <1>3, <1>4, <1>5, <1>6, <1>7, <1>8, <1>9, <1>10, <1>11,
       <1>12, <1>13 DEF Reconcile

\* What the users' steps leave alone stays well typed.
LEMMA UserFrameType ==
    ASSUME TypeOK, NEW k, EnvOp(k) \/ UNCHANGED envOps, UserFrame
    PROVE  /\ cache' \in NVMeshType /\ mem' \in NVMeshType /\ pc' \in PC
           /\ queued' \in BOOLEAN /\ nodeList' \subseteq Nodes
           /\ faults' \in Nat /\ crashes' \in Nat /\ envOps' \in Nat
  BY DEF TypeOK, EnvOp, UserFrame

\* Every step of the environment is well typed.
LEMMA EnvironmentTypeOK == TypeOK /\ Environment => TypeOK'
  <1> SUFFICES ASSUME TypeOK, Environment PROVE TypeOK'
      OBVIOUS
  <1> USE DEF TypeOK
  <1>1. CASE CacheSync
    BY <1>1 DEF CacheSync, world, kube, jobVars, volumes, bounds
  <1>2. CASE OwnedObjectEvent
    BY <1>2 DEF OwnedObjectEvent, world, kube, jobVars, volumes, bounds
  <1>3. CASE Crash
    <2>1. queued' \in BOOLEAN
      BY <1>3, FieldTypes DEF Crash
    <2>2. /\ cr' \in NVMeshType /\ cache' \in NVMeshType /\ mem' \in NVMeshType
          /\ current' \in BOOLEAN /\ pc' \in PC /\ nodeList' \subseteq Nodes
      BY <1>3, AbsentType DEF Crash, PC
    <2>3. /\ jobs' \in [Job -> JobState] /\ jobView' \in [Job -> JobState]
          /\ faults' \in Nat /\ crashes' \in Nat /\ envOps' \in Nat
      BY <1>3 DEF Crash
    <2>4. UNCHANGED <<kube, volumes, labelled>>
      BY <1>3 DEF Crash
    <2> QED
      BY <2>1, <2>2, <2>3, <2>4 DEF kube, volumes
  <1>4. ASSUME NEW j \in Job, JobViewSync(j) PROVE TypeOK'
    BY <1>4 DEF JobViewSync, kube, volumes, bounds
  <1>5. ASSUME NEW j \in Job, JobSucceeds(j) PROVE TypeOK'
    BY <1>5 DEF JobSucceeds, JobState, reconciler, volumes, bounds
  <1>6. ASSUME NEW j \in Job, JobFails(j) PROVE TypeOK'
    BY <1>6, UserFrameType DEF JobFails, JobState, kube, volumes
  <1>7. ASSUME NEW c \in Components, PodsStart(c) PROVE TypeOK'
    BY <1>7 DEF PodsStart, reconciler, jobVars, volumes, bounds
  <1>8. ASSUME NEW c \in Components, PodsStop(c) PROVE TypeOK'
    BY <1>8 DEF PodsStop, reconciler, jobVars, volumes, bounds
  <1>9. CASE ClearDbJobGivesUp
    BY <1>9 DEF ClearDbJobGivesUp, JobState, reconciler, kube, volumes, bounds
  <1>10. CASE ClaimCreated
    BY <1>10 DEF ClaimCreated, reconciler, jobVars, volumes, bounds
  <1>11. CASE GarbageCollect
    BY <1>11 DEF GarbageCollect, reconciler, jobVars, volumes, bounds
  <1>12. CASE DeleteCR
    <2>1. cr' \in NVMeshType
      BY <1>12, AbsentType DEF DeleteCR, NVMeshType
    <2> QED
      BY <1>12, <2>1, UserFrameType DEF DeleteCR, world, kube, jobVars, volumes
  <1>13. CASE EditSpec
    <2>1. cr' \in NVMeshType
      BY <1>13, SpecsAssumption DEF EditSpec, NVMeshType
    <2> QED
      BY <1>13, <2>1, UserFrameType DEF EditSpec, world, kube, jobVars, volumes
  <1>14. CASE RemoveForeign
    <2>1. cr' \in NVMeshType
      BY <1>14, AbsentType DEF RemoveForeign, NVMeshType
    <2> QED
      BY <1>14, <2>1, UserFrameType DEF RemoveForeign, world, kube, jobVars, volumes
  <1>15. ASSUME NEW n \in Nodes, LabelNode(n) PROVE TypeOK'
    <2>1. labelled' \subseteq Nodes /\ dirty' \subseteq Nodes
      BY <1>15 DEF LabelNode
    <2> QED
      BY <1>15, <2>1, UserFrameType DEF LabelNode, jobVars, volumes
  <1>16. CASE ChangeVolumes
    BY <1>16, UserFrameType DEF ChangeVolumes, kube, jobVars
  <1>17. CASE ReleaseVolumes
    BY <1>17, UserFrameType DEF ReleaseVolumes, kube, jobVars
  <1> QED
    BY <1>1, <1>2, <1>3, <1>4, <1>5, <1>6, <1>7, <1>8, <1>9, <1>10, <1>11,
       <1>12, <1>13, <1>14, <1>15, <1>16, <1>17 DEF Environment

\* Every step keeps the types.
LEMMA NextTypeOK == TypeOK /\ [Next]_vars => TypeOK'
  <1>1. TypeOK /\ UNCHANGED vars => TypeOK'
    BY DEF TypeOK, vars
  <1> QED
    BY <1>1, ReconcileTypeOK, EnvironmentTypeOK DEF Next

\* Type correctness: in every reachable state of the operator and its
\* environment the variables have their types.
THEOREM TypeCorrectness == Spec => []TypeOK
  BY InitTypeOK, NextTypeOK, PTL DEF Spec

===============================================================================
