-------------------------------- MODULE Cluster --------------------------------
(***************************************************************************)
(* What the operator works on and works against: the NVMesh resource at    *)
(* the API server and in the informer cache, the objects, Jobs, nodes and  *)
(* volumes of the cluster, the state of the running reconcile cycle, and   *)
(* every step that is not the operator's own: informers catching up, pods  *)
(* and Jobs, garbage collection, users, and a crash of the operator.       *)
(***************************************************************************)
EXTENDS Naturals, FiniteSets

CONSTANTS
    Nodes,          \* the Kubernetes nodes that may carry NVMesh labels
    Specs,          \* the values users give to the spec of the resource
    ForeignChoices, \* may another finalizer sit on the resource?
    Faulty,         \* the kinds of API call that may fail
    EnvActs,        \* the kinds of environment step that may happen
    MaxFaults, MaxCrashes, MaxEnvOps \* bounds of a run

Components == {"mgmt", "core", "csi"}

\* The spec fields deletion depends on; externalWithoutAddress is the one
\* combination isValid rejects.
Option == {"skipUninstall", "ignoreVolumeAttachmentOnDelete",
           "ignorePersistentVolumesOnDelete", "externalWithoutAddress"}

SpecType == [options : SUBSET Option, disabled : SUBSET Components]

ASSUME SpecsAssumption == Specs \subseteq SpecType /\ Specs # {}
ASSUME ForeignAssumption == ForeignChoices \subseteq BOOLEAN /\ ForeignChoices # {}
ASSUME BoundsAssumption == /\ MaxFaults \in Nat
                           /\ MaxCrashes \in Nat
                           /\ MaxEnvOps \in Nat
\* A node named clearDB would take the place of the clear-DB job.
ASSUME NodesAssumption == "clearDB" \notin Nodes

\* The stages of uninstallCluster, in the order of its list.
removeAllWorkloads          == 1
waitForWorkloadsToFinish    == 2
clearDB                     == 3
waitForClearDBToFinish      == 4
removeMongo                 == 5
uninstallClusterNodes       == 6
deletePVCs                  == 7
deleteClusterServiceAccount == 8
Stage == 1..8

\* Status of the resource: the finished uninstall stages, whether the
\* uninstall action has an entry in ActionsStatus, and the two conditions.
StatusType == [finished : SUBSET Stage, tracked : BOOLEAN,
               ready : {"none", "True", "False"}, uninstalling : BOOLEAN]

NoStatus == [finished |-> {}, tracked |-> FALSE, ready |-> "none",
             uninstalling |-> FALSE]

NVMeshType == [exists : BOOLEAN, deleting : BOOLEAN, finalizer : BOOLEAN,
               foreign : BOOLEAN, spec : SpecType, status : StatusType]

\* No resource (also: nothing in memory between two cycles).
Absent == [exists |-> FALSE, deleting |-> FALSE, finalizer |-> FALSE,
           foreign |-> FALSE, spec |-> [options |-> {}, disabled |-> {}],
           status |-> NoStatus]

Job == {"clearDB"} \cup Nodes
JobState == {"none", "active", "succeeded", "failed"}

VARIABLES
    cr,        \* the resource as the API server holds it
    cache,     \* the informer's copy of it
    mem,       \* the copy the running reconcile cycle works on
    current,   \* is mem's resourceVersion the API server's?
    pc,        \* where the reconcile cycle is
    queued,    \* is the resource's key in the work queue?
    nodeList,  \* nodes the running cycle decided to uninstall
    workloads, \* components whose workload objects exist
    pods,      \* components with pods running
    mongo,     \* do the MongoDB objects exist?
    sa,        \* does the cluster service account exist?
    pvcs,      \* do claims labelled delete-on-uninstall exist?
    jobs,      \* the Jobs as the API server holds them
    jobView,   \* the informer's copy of them
    labelled,  \* nodes with a client or target label
    dirty,     \* nodes with NVMesh files on the host
    attached,  \* is a volume of the driver attached?
    pv,        \* does a PersistentVolume of the driver exist?
    faults, crashes, envOps

kube   == <<workloads, pods, mongo, sa, pvcs, dirty>>
jobVars == <<jobs, jobView>>
volumes == <<attached, pv>>
world  == <<kube, jobVars, volumes, labelled>>
bounds == <<crashes, envOps>>
vars   == <<cr, cache, mem, current, pc, queued, nodeList, workloads, pods,
            mongo, sa, pvcs, jobs, jobView, labelled, dirty, attached, pv,
            faults, crashes, envOps>>

PC == {"idle", "serviceAccount", "handleFinalizer", "isAllowedToDelete",
       "uninstallCluster", "waitForUninstallCompletion",
       "updateUninstallStatus", "removeFinalizer", "reconcileAllComponents",
       "removeFinishedActionStatuses", "manageSuccess",
       "manageSuccessRequeue", "manageError"}

TypeOK ==
    /\ cr \in NVMeshType /\ cache \in NVMeshType /\ mem \in NVMeshType
    /\ current \in BOOLEAN /\ pc \in PC /\ queued \in BOOLEAN
    /\ nodeList \subseteq Nodes
    /\ workloads \subseteq Components /\ pods \subseteq Components
    /\ mongo \in BOOLEAN /\ sa \in BOOLEAN /\ pvcs \in BOOLEAN
    /\ jobs \in [Job -> JobState] /\ jobView \in [Job -> JobState]
    /\ labelled \subseteq Nodes /\ dirty \subseteq Nodes
    /\ attached \in BOOLEAN /\ pv \in BOOLEAN
    /\ faults \in Nat /\ crashes \in Nat /\ envOps \in Nat

\* A user has just created the resource; nothing is deployed yet.
Init ==
    /\ \E s \in Specs, f \in ForeignChoices :
          cr = [Absent EXCEPT !.exists = TRUE, !.foreign = f, !.spec = s]
    /\ cache = Absent /\ mem = Absent /\ current = FALSE
    /\ pc = "idle" /\ queued = FALSE /\ nodeList = {}
    /\ workloads = {} /\ pods = {} /\ mongo = FALSE /\ sa = FALSE
    /\ pvcs = FALSE
    /\ jobs = [j \in Job |-> "none"] /\ jobView = [j \in Job |-> "none"]
    /\ labelled \in SUBSET Nodes /\ dirty = {}
    /\ attached = FALSE /\ pv = FALSE
    /\ faults = 0 /\ crashes = 0 /\ envOps = 0

-------------------------------------------------------------------------------
(* Failing calls, and the way a cycle moves on and ends. *)

NoFault == UNCHANGED faults
Fault(kind) == /\ kind \in Faulty
               /\ faults < MaxFaults
               /\ faults' = faults + 1

Has(c, option) == option \in c.spec.options

\* The fields whose change gives the object a new metadata.generation;
\* GenerationChangedPredicate drops every update event that keeps it.
Generation(c) == <<c.exists, c.deleting, c.spec>>

Goto(l) == pc' = l

\* Variant of EndCycle: what was queued during the cycle is forgotten.
EndCycleForgetting(requeue) ==
    /\ pc' = "idle"
    /\ queued' = requeue
    /\ mem' = Absent /\ current' = FALSE /\ nodeList' = {}

\* The cycle is over and its in-memory copy is gone.
EndCycle(requeue) ==
    /\ pc' = "idle"
    /\ queued' = (queued \/ requeue)
    /\ mem' = Absent /\ current' = FALSE /\ nodeList' = {}

\* Status().Update: what the API server accepts when the copy is current.
StoreStatus(status) == cr' = [cr EXCEPT !.status = status]

-------------------------------------------------------------------------------
(* The informers and the operator's process *)

\* Create and delete events pass the predicate, updates only when the
\* generation changed.
CacheSync ==
    /\ cache # cr
    /\ cache' = cr
    /\ queued' = (queued \/ Generation(cache) # Generation(cr))
    /\ UNCHANGED <<cr, mem, current, pc, nodeList, world, faults, bounds>>

\* An event of an object the resource owns (SetupWithManager, Owns).
OwnedObjectEvent ==
    /\ workloads # {} /\ ~queued
    /\ queued' = TRUE
    /\ UNCHANGED <<cr, cache, mem, current, pc, nodeList, world, faults, bounds>>

JobViewSync(j) ==
    /\ jobView[j] # jobs[j]
    /\ jobView' = [jobView EXCEPT ![j] = jobs[j]]
    /\ UNCHANGED <<cr, cache, mem, current, pc, queued, nodeList, kube, jobs,
                   volumes, labelled, faults, bounds>>

\* The process dies and is restarted: its memory and its queue are lost, and
\* the new informers list everything again.
Crash ==
    /\ crashes < MaxCrashes /\ crashes' = crashes + 1
    /\ pc' = "idle" /\ mem' = Absent /\ current' = FALSE /\ nodeList' = {}
    /\ cache' = cr /\ queued' = cr.exists /\ jobView' = jobs
    /\ UNCHANGED <<cr, kube, jobs, volumes, labelled, faults, envOps>>

-------------------------------------------------------------------------------
(* Kubernetes: pods, claims, jobs, garbage collection *)

reconciler == <<cr, cache, mem, current, pc, queued, nodeList, faults>>

\* The core pods install NVMesh on the nodes they run on.
PodsStart(c) ==
    /\ c \in workloads \ pods
    /\ pods' = pods \cup {c}
    /\ dirty' = IF c = "core" THEN dirty \cup labelled ELSE dirty
    /\ UNCHANGED <<reconciler, workloads, mongo, sa, pvcs, jobVars, volumes,
                   labelled, bounds>>

PodsStop(c) ==
    /\ c \in pods \ workloads
    /\ pods' = pods \ {c}
    /\ UNCHANGED <<reconciler, workloads, mongo, sa, pvcs, dirty, jobVars,
                   volumes, labelled, bounds>>

\* The claim of the MongoDB StatefulSet.
ClaimCreated ==
    /\ mongo /\ ~pvcs
    /\ pvcs' = TRUE
    /\ UNCHANGED <<reconciler, workloads, pods, mongo, sa, dirty, jobVars,
                   volumes, labelled, bounds>>

\* A finished node job has removed NVMesh from its node.  The clear-DB job
\* needs a database to talk to, and without one reaches its backoff limit.
JobSucceeds(j) ==
    /\ jobs[j] = "active" /\ (j = "clearDB" => mongo)
    /\ jobs' = [jobs EXCEPT ![j] = "succeeded"]
    /\ dirty' = dirty \ {j}
    /\ UNCHANGED <<reconciler, workloads, pods, mongo, sa, pvcs, jobView,
                   volumes, labelled, bounds>>

ClearDbJobGivesUp ==
    /\ jobs["clearDB"] = "active" /\ ~mongo
    /\ jobs' = [jobs EXCEPT !["clearDB"] = "failed"]
    /\ UNCHANGED <<reconciler, kube, jobView, volumes, labelled, bounds>>

\* Owner references let Kubernetes collect what a vanished resource owned;
\* Jobs and claims have none.
GarbageCollect ==
    /\ ~cr.exists /\ (workloads # {} \/ mongo \/ sa)
    /\ workloads' = {} /\ mongo' = FALSE /\ sa' = FALSE
    /\ UNCHANGED <<reconciler, pods, pvcs, dirty, jobVars, volumes, labelled,
                   bounds>>

-------------------------------------------------------------------------------
(* Users and workloads of the cluster; each kind of step can be left out of  *)
(* a run, and MaxEnvOps bounds how many of them happen.                      *)

EnvOp(kind) == /\ kind \in EnvActs
               /\ envOps < MaxEnvOps
               /\ envOps' = envOps + 1

UserFrame == UNCHANGED <<cache, mem, pc, queued, nodeList, faults, crashes>>

DeleteCR ==
    /\ EnvOp("delete")
    /\ cr.exists /\ ~cr.deleting
    /\ cr' = IF cr.finalizer \/ cr.foreign THEN [cr EXCEPT !.deleting = TRUE]
                                           ELSE Absent
    /\ current' = FALSE
    /\ UNCHANGED world /\ UserFrame

EditSpec ==
    /\ EnvOp("edit")
    /\ cr.exists
    /\ \E s \in Specs \ {cr.spec} : cr' = [cr EXCEPT !.spec = s]
    /\ current' = FALSE
    /\ UNCHANGED world /\ UserFrame

\* The other controller lets go of the resource.
RemoveForeign ==
    /\ cr.exists /\ cr.foreign
    /\ cr' = IF cr.deleting /\ ~cr.finalizer THEN Absent
                                             ELSE [cr EXCEPT !.foreign = FALSE]
    /\ current' = FALSE
    /\ UNCHANGED <<world, envOps>> /\ UserFrame

JobFails(j) ==
    /\ EnvOp("jobFail")
    /\ jobs[j] = "active"
    /\ jobs' = [jobs EXCEPT ![j] = "failed"]
    /\ UNCHANGED <<cr, current, kube, jobView, volumes, labelled>> /\ UserFrame

\* A node gets or loses its labels; running core pods spread to it.
LabelNode(n) ==
    /\ EnvOp("label")
    /\ labelled' = IF n \in labelled THEN labelled \ {n} ELSE labelled \cup {n}
    /\ dirty' = IF "core" \in pods /\ n \notin labelled THEN dirty \cup {n} ELSE dirty
    /\ UNCHANGED <<cr, current, workloads, pods, mongo, sa, pvcs, jobVars, volumes>>
    /\ UserFrame

\* Volumes are provisioned, attached and detached by the CSI pods.
ChangeVolumes ==
    /\ EnvOp("volume")
    /\ "csi" \in pods
    /\ \/ pv' = TRUE /\ attached' \in BOOLEAN
       \/ pv' = FALSE /\ attached' = FALSE
    /\ UNCHANGED <<cr, current, kube, jobVars, labelled>> /\ UserFrame

\* An administrator removes what the driver left behind.
ReleaseVolumes ==
    /\ attached \/ pv
    /\ attached' = FALSE /\ pv' = FALSE
    /\ UNCHANGED <<cr, current, kube, jobVars, labelled, envOps>> /\ UserFrame

Environment ==
    \/ CacheSync \/ OwnedObjectEvent \/ Crash
    \/ \E j \in Job : JobViewSync(j) \/ JobSucceeds(j) \/ JobFails(j)
    \/ \E c \in Components : PodsStart(c) \/ PodsStop(c)
    \/ ClearDbJobGivesUp \/ ClaimCreated \/ GarbageCollect
    \/ DeleteCR \/ EditSpec \/ RemoveForeign
    \/ \E n \in Nodes : LabelNode(n)
    \/ ChangeVolumes \/ ReleaseVolumes

================================================================================
