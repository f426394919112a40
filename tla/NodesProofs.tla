------------------------------ MODULE NodesProofs ------------------------------
(***************************************************************************)
(* uninstallClusterNodes leaves no listed node with NVMesh on it: a cached *)
(* success of a node's job is never older than what runs on the node, also *)
(* in a cycle that works on a copy of a resource that is already released. *)
(***************************************************************************)
EXTENDS DeletionProofs

-------------------------------------------------------------------------------
(* The inductive invariant *)

Skip(x) == Has(x, "skipUninstall")

\* Where a cycle is that has not yet passed the deletion of its resource.
BeforeRelease == {"serviceAccount", "handleFinalizer"} \cup DeletionPC

\* Some node has an uninstall job, or the informer shows one.
NodeJobs == \E n \in Nodes : jobs[n] # "none" \/ jobView[n] # "none"

\* Its job has removed NVMesh from n, or the informer says so.
Succeeded(n) == jobs[n] = "succeeded" \/ jobView[n] = "succeeded"

\* A cycle may still run the stages, on a copy that has our finalizer.
Underway ==
    \/ cache.finalizer /\ ~Skip(cache)
    \/ pc \in BeforeRelease /\ mem.finalizer /\ ~Skip(mem)

\* Nothing is left that puts NVMesh on a node.
Down == workloads = {} /\ "core" \notin pods

\* A current copy, up to the release, is the copy the informer has.
FreshCopy == current /\ pc \in BeforeRelease => cache = cr

\* A copy that knows of no deletion is right about our finalizer.
FinalizerKept ==
    /\ cache.finalizer /\ ~cache.deleting => cr.finalizer
    /\ pc \in BeforeRelease \cup {"reconcileAllComponents"}
       /\ mem.finalizer /\ ~mem.deleting => cr.finalizer

\* Who deploys for a released resource, while the informer still shows it
\* unreleased, deploys nothing.
ReleasedDeploysNothing ==
    /\ pc \in {"serviceAccount", "handleFinalizer"} /\ mem.deleting /\ ~mem.finalizer
          => ~cache.finalizer
    /\ pc = "removeFinalizer" => Skip(mem) \/ mem.spec.disabled = Components
    /\ pc = "reconcileAllComponents" /\ mem.deleting /\ cache.finalizer /\ ~Skip(cache)
          => mem.spec.disabled = Components

\* The cluster stays down while a stale copy may send a cycle through the stages.
StaleIsDown == ~cr.finalizer /\ Underway => Down

\* Node jobs exist only after everybody knows of the deletion and the cluster
\* is down, and a success is true of its node.
JobsAreLast ==
    /\ NodeJobs => Doomed(cr) /\ Doomed(cache) /\ (Busy => mem.deleting)
    /\ NodeJobs /\ cr.finalizer => Down
    /\ pc = "waitForUninstallCompletion" => ~Skip(mem)

SuccessIsTrue ==
    cr.finalizer \/ Underway
       => \A n \in Nodes : Succeeded(n) => n \notin dirty

NodesPart == /\ FreshCopy /\ FinalizerKept /\ ReleasedDeploysNothing
             /\ StaleIsDown /\ JobsAreLast /\ SuccessIsTrue

NodesInv == RInv /\ NodesPart

-------------------------------------------------------------------------------
(* Steps that leave the copies of the resource alone *)

\* A success of any kind is a job of some kind.
LEMMA SuccessIsAJob ==
    /\ \A n \in Nodes : Succeeded(n) => NodeJobs
    /\ (\A n \in Nodes : Succeeded(n) => NodeJobs)'
  BY DEF Succeeded, NodeJobs

\* Pods, jobs, labels and volumes change: nothing is installed while the
\* cluster is down, and a job that succeeds has cleaned its node.
LEMMA QuietNodes ==
    ASSUME NodesInv, UNCHANGED <<cr, cache, mem, current, pc>>,
           workloads' \subseteq workloads,
           "core" \in pods' => "core" \in pods \cup workloads,
           NodeJobs' => NodeJobs,
           Down => \A n \in Nodes : Succeeded(n)' /\ n \in dirty'
                                       => Succeeded(n) /\ n \in dirty
    PROVE  NodesPart'
  <1> USE DEF NodesInv, NodesPart
  <1>u. /\ Underway' <=> Underway
        /\ Down => Down'
    BY DEF Underway, Down, Skip, Has
  <1>1. FreshCopy' /\ FinalizerKept'
    BY DEF FreshCopy, FinalizerKept
  <1>2. ReleasedDeploysNothing'
    BY DEF ReleasedDeploysNothing, Skip, Has
  <1>3. StaleIsDown'
    BY <1>u DEF StaleIsDown
  <1>4. JobsAreLast'
    BY <1>u DEF JobsAreLast, Doomed, Busy, Skip, Has
  <1>5. SuccessIsTrue'
    BY <1>u, SuccessIsAJob DEF SuccessIsTrue, StaleIsDown, JobsAreLast
  <1> QED
    BY <1>1, <1>2, <1>3, <1>4, <1>5

\* What a job does to the set of jobs and to its node.
LEMMA JobNodes ==
    ASSUME NodesInv, NEW j \in Job, JobViewSync(j) \/ JobSucceeds(j) \/ JobFails(j)
    PROVE  NodesPart'
  <1>t. jobs \in [Job -> JobState] /\ jobView \in [Job -> JobState] /\ Nodes \subseteq Job
    BY DEF NodesInv, RInv, IInv, TypeOK, Job
  <1>0. UNCHANGED <<cr, cache, mem, current, pc, workloads, pods>>
    BY DEF JobViewSync, JobSucceeds, JobFails, reconciler, kube, UserFrame
  <1>1. \/ /\ jobView' = [jobView EXCEPT ![j] = jobs[j]]
           /\ UNCHANGED <<jobs, dirty>>
        \/ /\ jobs[j] = "active" /\ jobs' = [jobs EXCEPT ![j] = "succeeded"]
           /\ dirty' = dirty \ {j} /\ UNCHANGED jobView
        \/ /\ jobs[j] = "active" /\ jobs' = [jobs EXCEPT ![j] = "failed"]
           /\ UNCHANGED <<jobView, dirty>>
    BY DEF JobViewSync, JobSucceeds, JobFails, kube
  <1>2. NodeJobs' => NodeJobs
    BY <1>t, <1>1 DEF NodeJobs
  <1>3. \A n \in Nodes : Succeeded(n)' /\ n \in dirty' => Succeeded(n) /\ n \in dirty
    BY <1>t, <1>1 DEF Succeeded
  <1> QED
    BY <1>0, <1>2, <1>3, QuietNodes

\* Every other step that leaves the copies of the resource alone.
LEMMA ClusterNodes ==
    ASSUME NodesInv,
           \/ OwnedObjectEvent \/ ReconcileNotFound \/ UNCHANGED vars
           \/ \E c \in Components : PodsStart(c) \/ PodsStop(c)
           \/ ClearDbJobGivesUp \/ ClaimCreated \/ GarbageCollect
           \/ \E n \in Nodes : LabelNode(n)
           \/ ChangeVolumes \/ ReleaseVolumes
    PROVE  NodesPart'
  <1>0. UNCHANGED <<cr, cache, mem, current, pc, jobView>>
    BY DEF OwnedObjectEvent, ReconcileNotFound, vars, PodsStart, PodsStop,
       ClearDbJobGivesUp, ClaimCreated, GarbageCollect, LabelNode,
       ChangeVolumes, ReleaseVolumes, reconciler, world, jobVars, UserFrame
  <1>1. workloads' \subseteq workloads /\ ("core" \in pods' => "core" \in pods \cup workloads)
    BY DEF OwnedObjectEvent, ReconcileNotFound, vars, PodsStart, PodsStop,
       ClearDbJobGivesUp, ClaimCreated, GarbageCollect, LabelNode,
       ChangeVolumes, ReleaseVolumes, world, kube
  <1>2. \A n \in Nodes : jobs'[n] = jobs[n]
    <2>1. jobs \in [Job -> JobState] /\ Nodes \subseteq Job \ {"clearDB"}
      BY NodesAssumption DEF NodesInv, RInv, IInv, TypeOK, Job
    <2>2. CASE ClearDbJobGivesUp
      BY <2>1, <2>2 DEF ClearDbJobGivesUp
    <2>3. CASE ~ClearDbJobGivesUp
      BY <2>3 DEF OwnedObjectEvent, ReconcileNotFound, vars, PodsStart,
         PodsStop, ClaimCreated, GarbageCollect, LabelNode, ChangeVolumes,
         ReleaseVolumes, world, jobVars
    <2> QED
      BY <2>2, <2>3
  <1>3. Down => dirty' \subseteq dirty
    BY DEF Down, OwnedObjectEvent, ReconcileNotFound, vars, PodsStart, PodsStop,
       ClearDbJobGivesUp, ClaimCreated, GarbageCollect, LabelNode,
       ChangeVolumes, ReleaseVolumes, world, kube
  <1>4. NodeJobs' => NodeJobs
    BY <1>0, <1>2 DEF NodeJobs
  <1>5. \A n \in Nodes : Succeeded(n)' => Succeeded(n)
    BY <1>0, <1>2 DEF Succeeded
  <1> QED
    BY <1>0, <1>1, <1>3, <1>4, <1>5, QuietNodes

-------------------------------------------------------------------------------
(* The informer, users and a crash *)

\* The informer catches up.
LEMMA CacheSyncNodes == ASSUME NodesInv, CacheSync PROVE NodesPart'
  <1> USE DEF NodesInv, NodesPart
  <1>0. /\ cache' = cr
        /\ UNCHANGED <<cr, mem, current, pc, workloads, pods, jobs, jobView, dirty>>
    BY DEF CacheSync, world, kube, jobVars
  <1>u. /\ Underway' => Underway \/ cr.finalizer
        /\ ~cr.finalizer /\ Underway' => Underway
        /\ Down' <=> Down
        /\ NodeJobs' <=> NodeJobs
    BY <1>0 DEF Underway, Down, NodeJobs, Skip, Has
  <1>1. FreshCopy'
    BY <1>0 DEF FreshCopy
  <1>2. FinalizerKept'
    BY <1>0 DEF FinalizerKept
  <1>3. ReleasedDeploysNothing'
    BY <1>0 DEF ReleasedDeploysNothing, Skip, Has, RInv, IInv, Safe,
                FinalizerOrder, Busy
  <1>4. StaleIsDown'
    BY <1>0, <1>u DEF StaleIsDown
  <1>5. JobsAreLast'
    BY <1>0, <1>u DEF JobsAreLast, Doomed, Busy, Skip, Has
  <1>6. SuccessIsTrue'
    BY <1>0, <1>u DEF SuccessIsTrue, Succeeded
  <1> QED
    BY <1>1, <1>2, <1>3, <1>4, <1>5, <1>6

\* A user's write makes the running cycle's copy stale, and neither adds nor
\* removes our finalizer.
LEMMA UserNodes ==
    ASSUME NodesInv, DeleteCR \/ EditSpec \/ RemoveForeign PROVE NodesPart'
  <1> USE DEF NodesInv, NodesPart
  <1>t. cr \in NVMeshType
    BY DEF RInv, IInv, TypeOK
  <1>0. /\ current' = FALSE
        /\ UNCHANGED <<cache, mem, pc, workloads, pods, jobs, jobView, dirty>>
    BY DEF DeleteCR, EditSpec, RemoveForeign, UserFrame, world, kube, jobVars
  <1>c. cr'.finalizer = cr.finalizer /\ (Doomed(cr) => Doomed(cr'))
    <2>1. CASE cr' = Absent /\ ~cr.finalizer
      BY <1>t, <2>1, AbsentFields DEF Doomed, NVMeshType
    <2>2. CASE cr' = [cr EXCEPT !.deleting = TRUE] \/ cr' = [cr EXCEPT !.foreign = FALSE]
      BY <1>t, <2>2 DEF Doomed, NVMeshType
    <2>3. CASE \E s : cr' = [cr EXCEPT !.spec = s]
      BY <1>t, <2>3 DEF Doomed, NVMeshType
    <2> QED
      BY <2>1, <2>2, <2>3 DEF DeleteCR, EditSpec, RemoveForeign
  <1>u. (Underway' <=> Underway) /\ (Down' <=> Down) /\ (NodeJobs' <=> NodeJobs)
    BY <1>0 DEF Underway, Down, NodeJobs, Skip, Has
  <1>1. FreshCopy'
    BY <1>0 DEF FreshCopy
  <1>2. FinalizerKept'
    BY <1>0, <1>c DEF FinalizerKept
  <1>3. ReleasedDeploysNothing'
    BY <1>0 DEF ReleasedDeploysNothing, Skip, Has
  <1>4. StaleIsDown'
    BY <1>0, <1>c, <1>u DEF StaleIsDown
  <1>5. JobsAreLast'
    BY <1>0, <1>c, <1>u DEF JobsAreLast, Doomed, Busy, Skip, Has
  <1>6. SuccessIsTrue'
    BY <1>0, <1>c, <1>u DEF SuccessIsTrue, Succeeded
  <1> QED
    BY <1>1, <1>2, <1>3, <1>4, <1>5, <1>6

\* After a crash the informers list the resource and the jobs afresh.
LEMMA CrashNodes == ASSUME NodesInv, Crash PROVE NodesPart'
  <1> USE DEF NodesInv, NodesPart
  <1>0. /\ cache' = cr /\ current' = FALSE /\ pc' = "idle" /\ jobView' = jobs
        /\ UNCHANGED <<cr, workloads, pods, jobs, dirty>>
    BY DEF Crash, kube
  <1>u. /\ Underway' => cr.finalizer
        /\ Down' <=> Down
        /\ NodeJobs' => NodeJobs
    BY <1>0 DEF Underway, Down, NodeJobs, BeforeRelease, DeletionPC
  <1>1. FreshCopy' /\ FinalizerKept' /\ ReleasedDeploysNothing'
    BY <1>0 DEF FreshCopy, FinalizerKept, ReleasedDeploysNothing,
                BeforeRelease, DeletionPC
  <1>2. StaleIsDown'
    BY <1>0, <1>u DEF StaleIsDown
  <1>3. JobsAreLast'
    BY <1>0, <1>u DEF JobsAreLast, Doomed, Busy
  <1>4. SuccessIsTrue'
    BY <1>0, <1>u DEF SuccessIsTrue, Succeeded
  <1> QED
    BY <1>1, <1>2, <1>3, <1>4

-------------------------------------------------------------------------------
(* The reconcile cycle *)

\* A cycle starts on the informer's copy, which the invariant speaks of.
LEMMA FetchNodes == ASSUME NodesInv, ReconcileFetch PROVE NodesPart'
  <1> USE DEF NodesInv, NodesPart
  <1>0. /\ cache.exists /\ mem' = cache /\ current' = (cache = cr)
        /\ pc' \in {"serviceAccount", "manageError"}
        /\ UNCHANGED <<cr, cache, workloads, pods, jobs, jobView, dirty>>
    BY DEF ReconcileFetch, Goto, world, kube, jobVars
  <1>u. (Underway' => Underway) /\ (Down' <=> Down) /\ (NodeJobs' <=> NodeJobs)
    BY <1>0 DEF Underway, Down, NodeJobs, Skip, Has
  <1>1. FreshCopy'
    BY <1>0 DEF FreshCopy
  <1>2. FinalizerKept'
    BY <1>0 DEF FinalizerKept
  <1>3. ReleasedDeploysNothing'
    BY <1>0 DEF ReleasedDeploysNothing
  <1>4. StaleIsDown'
    BY <1>0, <1>u DEF StaleIsDown
  <1>5. JobsAreLast'
    BY <1>0, <1>u DEF JobsAreLast, Doomed, Busy
  <1>6. SuccessIsTrue'
    BY <1>0, <1>u DEF SuccessIsTrue, Succeeded
  <1> QED
    BY <1>1, <1>2, <1>3, <1>4, <1>5, <1>6

\* A cycle that has not released the resource moves on with its copy; node
\* jobs are new only where the deletion is known and the cluster is down.
LEMMA CopyKept ==
    ASSUME NodesInv, UNCHANGED <<cr, cache, current, pods, dirty>>,
           workloads' \subseteq workloads,
           pc \in BeforeRelease,
           pc' \in BeforeRelease \cup {"reconcileAllComponents"},
           mem'.deleting = mem.deleting, mem'.finalizer = mem.finalizer,
           mem'.spec.options = mem.spec.options,
           NodeJobs' => NodeJobs \/ (mem.deleting /\ (cr.finalizer => Down)),
           \A n \in Nodes : Succeeded(n)' => Succeeded(n),
           ReleasedDeploysNothing',
           pc' = "waitForUninstallCompletion" => ~Skip(mem)
    PROVE  NodesPart'
  <1> USE DEF NodesInv, NodesPart
  <1>0. Busy /\ (mem.deleting => Doomed(cr) /\ Doomed(cache))
    BY DEF RInv, IInv, Safe, DeletionOrder, Busy, BeforeRelease, DeletionPC
  <1>u. (Underway' => Underway) /\ (Down => Down')
    BY DEF Underway, Down, Skip, Has
  <1>1. FreshCopy'
    BY DEF FreshCopy
  <1>2. FinalizerKept'
    BY DEF FinalizerKept
  <1>4. StaleIsDown'
    BY <1>u DEF StaleIsDown
  <1>5. JobsAreLast'
    BY <1>0, <1>u DEF JobsAreLast, Doomed, Skip, Has
  <1>6. SuccessIsTrue'
    BY <1>u DEF SuccessIsTrue
  <1> QED
    BY <1>1, <1>2, <1>4, <1>5, <1>6

\* A cycle that is past the components, or failed, says nothing of its copy
\* but that it knows of the deletion.  Components may be deployed on the way
\* there, where the invariant allows it.
LEMMA CopyDone ==
    ASSUME NodesInv, UNCHANGED <<cache, pods, dirty>>,
           cr'.exists = cr.exists, cr'.deleting = cr.deleting,
           cr'.finalizer = cr.finalizer,
           workloads' \subseteq workloads \/ pc = "reconcileAllComponents",
           pc = "reconcileAllComponents" /\ mem.deleting
              => workloads' \subseteq workloads \cup (Components \ mem.spec.disabled),
           pc' \in {"idle", "removeFinishedActionStatuses", "manageSuccess",
                    "manageSuccessRequeue", "manageError"},
           Busy' => Busy, NodeJobs' => NodeJobs,
           Busy' /\ NodeJobs => mem'.deleting,
           \A n \in Nodes : Succeeded(n)' => Succeeded(n)
    PROVE  NodesPart'
  <1> USE DEF NodesInv, NodesPart
  <1>p. pc' \notin BeforeRelease \cup {"reconcileAllComponents"}
    BY DEF BeforeRelease, DeletionPC
  <1>u. Underway' => cache.finalizer /\ ~Skip(cache) /\ Underway
    BY <1>p DEF Underway, Skip, Has
  <1>d. ASSUME (~cr.finalizer /\ Underway') \/ (NodeJobs /\ cr.finalizer)
        PROVE  Down'
    <2>1. Down
      BY <1>u, <1>d DEF StaleIsDown, JobsAreLast
    <2>2. CASE workloads' \subseteq workloads
      BY <2>1, <2>2 DEF Down
    <2>3. CASE pc = "reconcileAllComponents"
      <3>0. Busy /\ pc # "manageError" /\ mem.deleting = ~mem.finalizer
            /\ mem.deleting \in BOOLEAN /\ mem.finalizer \in BOOLEAN
        BY <2>3, FieldTypes DEF Busy, RInv, IInv, Safe, FinalizerOrder, TypeOK
      <3>1. CASE NodeJobs /\ cr.finalizer
        BY <3>0, <3>1 DEF JobsAreLast, RInv, IInv, Safe, FinalizerOrder
      <3>2. CASE ~cr.finalizer /\ Underway'
        <4>1. mem.deleting
          BY <2>3, <3>0, <3>2 DEF FinalizerKept
        <4>2. mem.spec.disabled = Components
          BY <1>u, <2>3, <3>2, <4>1 DEF ReleasedDeploysNothing
        <4> QED
          BY <2>1, <2>3, <4>1, <4>2 DEF Down
      <3> QED
        BY <1>d, <3>1, <3>2
    <2> QED
      BY <2>2, <2>3
  <1>1. FreshCopy' /\ ReleasedDeploysNothing'
    BY <1>p DEF FreshCopy, ReleasedDeploysNothing, BeforeRelease, DeletionPC
  <1>2. FinalizerKept'
    BY <1>p DEF FinalizerKept
  <1>4. StaleIsDown'
    BY <1>d DEF StaleIsDown
  <1>5. JobsAreLast'
    BY <1>d DEF JobsAreLast, Doomed
  <1>6. SuccessIsTrue'
    BY <1>u DEF SuccessIsTrue
  <1> QED
    BY <1>1, <1>2, <1>4, <1>5, <1>6

\* The steps before the stages: service account, handleFinalizer and the
\* checks that precede deletion.
LEMMA DecisionNodes ==
    ASSUME NodesInv, \/ makeSureServiceAccountExists
                     \/ handleFinalizer
                     \/ isAllowedToDeleteCluster
    PROVE  NodesPart'
  <1>0. UNCHANGED <<cr, cache, mem, current, workloads, pods, jobs, jobView, dirty>>
    BY DEF makeSureServiceAccountExists, handleFinalizer,
       isAllowedToDeleteCluster, world, kube, jobVars
  <1>j. /\ NodeJobs' <=> NodeJobs
        /\ \A n \in Nodes : Succeeded(n)' => Succeeded(n)
    BY <1>0 DEF NodeJobs, Succeeded
  <1>t. mem.deleting \in BOOLEAN /\ mem.finalizer \in BOOLEAN
    BY FieldTypes DEF NodesInv, RInv, IInv, TypeOK
  <1>1. \/ pc = "serviceAccount" /\ pc' \in {"handleFinalizer", "manageError"}
        \/ /\ pc = "handleFinalizer"
           /\ \/ pc' = "isAllowedToDelete"
              \/ pc' = "reconcileAllComponents" /\ mem.deleting = ~mem.finalizer
        \/ pc = "isAllowedToDelete" /\ pc' \in {"uninstallCluster", "manageError"}
    BY <1>t DEF makeSureServiceAccountExists, handleFinalizer,
                isAllowedToDeleteCluster, Goto
  <1>2. CASE pc' = "manageError"
    <2>1. Busy /\ (NodeJobs => mem.deleting)
      BY <1>1, <1>2 DEF Busy, NodesInv, NodesPart, JobsAreLast
    <2> QED
      BY <1>0, <1>1, <1>j, <1>2, <2>1, CopyDone
  <1>3. CASE pc' # "manageError"
    <2>1. ReleasedDeploysNothing'
      BY <1>0, <1>1, <1>3 DEF NodesInv, NodesPart, ReleasedDeploysNothing, Skip, Has
    <2>2. /\ pc \in BeforeRelease
          /\ pc' \in BeforeRelease \cup {"reconcileAllComponents"}
          /\ pc' # "waitForUninstallCompletion"
      BY <1>1, <1>3 DEF BeforeRelease, DeletionPC
    <2> QED
      BY <1>0, <1>j, <2>1, <2>2, CopyKept
  <1> QED
    BY <1>2, <1>3

\* The finalizer is added only where no node has a job yet.
LEMMA AddFinalizerNodes == ASSUME NodesInv, addFinalizerAndUpdate PROVE NodesPart'
  <1> USE DEF NodesInv, NodesPart
  <1>t. cr \in NVMeshType /\ mem \in NVMeshType
    BY DEF RInv, IInv, TypeOK
  <1>0. /\ pc = "handleFinalizer" /\ ~mem.deleting
        /\ UNCHANGED <<cache, current, workloads, pods, jobs, jobView, dirty>>
    BY DEF addFinalizerAndUpdate, world, kube, jobVars
  <1>j. /\ ~NodeJobs /\ ~NodeJobs'
        /\ \A n \in Nodes : ~Succeeded(n)'
    <2>1. ~NodeJobs
      BY <1>0 DEF JobsAreLast, Busy
    <2>2. ~NodeJobs'
      BY <1>0, <2>1 DEF NodeJobs
    <2> QED
      BY <2>1, <2>2, SuccessIsAJob
  <1>1. CASE /\ current /\ mem' = cr' /\ pc' = "reconcileAllComponents"
             /\ cr' = [cr EXCEPT !.finalizer = TRUE, !.spec = mem.spec]
    <2>1. cr'.finalizer = TRUE /\ ~mem'.deleting
      BY <1>t, <1>0, <1>1 DEF NVMeshType, RInv, IInv, Safe, DeletionOrder
    <2>2. FreshCopy' /\ FinalizerKept' /\ ReleasedDeploysNothing'
      BY <1>1, <2>1 DEF FreshCopy, FinalizerKept, ReleasedDeploysNothing,
                        BeforeRelease, DeletionPC
    <2>3. StaleIsDown'
      BY <2>1 DEF StaleIsDown
    <2>4. JobsAreLast'
      BY <1>j, <1>1 DEF JobsAreLast
    <2>5. SuccessIsTrue'
      BY <1>j DEF SuccessIsTrue
    <2> QED
      BY <2>2, <2>3, <2>4, <2>5
  <1>2. CASE pc' = "manageError" /\ UNCHANGED cr
    <2>1. Busy
      BY <1>0 DEF Busy
    <2> QED
      BY <1>0, <1>j, <1>2, <2>1, CopyDone
  <1> QED
    BY <1>1, <1>2 DEF addFinalizerAndUpdate, Goto

\* Our finalizer is released over a cluster that is down, unless the copy
\* that says so may skip the stages; what the cycle deploys next is nothing.
LEMMA RemoveFinalizerNodes ==
    ASSUME NodesInv, removeFinalizerAndUpdate PROVE NodesPart'
  <1> USE DEF NodesInv, NodesPart
  <1>t. cr \in NVMeshType /\ mem \in NVMeshType
    BY DEF RInv, IInv, TypeOK
  <1>0. /\ pc = "removeFinalizer"
        /\ UNCHANGED <<cache, workloads, pods, jobs, jobView, dirty>>
    BY DEF removeFinalizerAndUpdate, world, kube, jobVars
  <1>j. /\ NodeJobs' <=> NodeJobs
        /\ \A n \in Nodes : Succeeded(n)' <=> Succeeded(n)
    BY <1>0 DEF NodeJobs, Succeeded
  <1>m. mem.deleting /\ mem.finalizer /\ Doomed(cache) /\ Doomed(cr) /\ Busy
    BY <1>0 DEF RInv, IInv, Safe, DeletionOrder, DeletionPC, Busy
  <1>1. CASE /\ current /\ pc' = "reconcileAllComponents"
             /\ cr' = IF cr.foreign
                      THEN [cr EXCEPT !.finalizer = FALSE, !.spec = mem.spec]
                      ELSE Absent
             /\ mem' = [mem EXCEPT !.finalizer = FALSE,
                                   !.status = IF cr.status.tracked THEN cr.status ELSE @]
    <2>1. ~cr'.finalizer /\ Doomed(cr')
      <3>1. CASE cr.foreign
        BY <1>t, <1>1, <1>m, <3>1 DEF NVMeshType, Doomed
      <3>2. CASE ~cr.foreign
        BY <1>1, <3>2, AbsentFields DEF Doomed
      <3> QED
        BY <3>1, <3>2
    <2>2. ~mem'.finalizer /\ mem'.deleting /\ mem'.spec = mem.spec
      BY <1>t, <1>1, <1>m DEF NVMeshType
    <2>3. cache.finalizer /\ ~Skip(cache)
            => /\ cr.finalizer /\ mem.status.finished = Stage
               /\ mem.spec.disabled = Components
      <3>1. cache = cr /\ cr.spec.options = mem.spec.options
        BY <1>0, <1>1 DEF FreshCopy, BeforeRelease, DeletionPC, RInv, ReleaseJustified
      <3> QED
        BY <1>0, <3>1 DEF RInv, ReleaseJustified, ReleasedDeploysNothing, Skip, Has
    <2>p. pc' \notin BeforeRelease
      BY <1>1 DEF BeforeRelease, DeletionPC
    <2>u. Underway' => cache.finalizer /\ ~Skip(cache) /\ Underway
      BY <1>0, <2>p DEF Underway, Skip, Has
    <2>4. FreshCopy'
      BY <2>p DEF FreshCopy
    <2>5. FinalizerKept'
      BY <1>0, <1>m, <2>2 DEF FinalizerKept, RInv, IInv, Safe, Existence, Doomed
    <2>6. ReleasedDeploysNothing'
      BY <1>0, <1>1, <2>2, <2>3 DEF ReleasedDeploysNothing, Skip, Has
    <2>7. StaleIsDown'
      <3>1. ASSUME cache.finalizer /\ ~Skip(cache) PROVE Down
        BY <2>3, <3>1, AllStagesClean DEF Down
      <3> QED
        BY <1>0, <2>u, <3>1 DEF StaleIsDown, Down
    <2>8. JobsAreLast'
      BY <1>0, <1>1, <1>m, <2>1, <2>2 DEF JobsAreLast, Doomed
    <2>9. SuccessIsTrue'
      BY <1>0, <1>j, <2>1, <2>u DEF SuccessIsTrue
    <2> QED
      BY <2>4, <2>5, <2>6, <2>7, <2>8, <2>9
  <1>2. CASE pc' = "manageError" /\ mem' = [mem EXCEPT !.finalizer = FALSE] /\ UNCHANGED cr
    <2>1. mem'.deleting
      BY <1>t, <1>m, <1>2 DEF NVMeshType
    <2> QED
      BY <1>0, <1>j, <1>m, <1>2, <2>1, CopyDone
  <1> QED
    BY <1>1, <1>2 DEF removeFinalizerAndUpdate, Goto

-------------------------------------------------------------------------------
(* The stages *)

\* The nodes have no part in a stage that touches only the clear-DB job.
LEMMA ClearDbOnly ==
    ASSUME TypeOK, UNCHANGED jobView,
           \/ UNCHANGED jobs
           \/ jobs' = Created({"clearDB"})
           \/ jobs' = Deleted({"clearDB"})
    PROVE  /\ NodeJobs' <=> NodeJobs
           /\ \A n \in Nodes : Succeeded(n)' <=> Succeeded(n)
  <1>1. jobs \in [Job -> JobState] /\ Nodes \subseteq Job \ {"clearDB"}
    BY NodesAssumption DEF TypeOK, Job
  <1>2. \A n \in Nodes : jobs'[n] = jobs[n]
    BY <1>1 DEF Created, Deleted
  <1> QED
    BY <1>2 DEF NodeJobs, Succeeded

\* However a stage ends, it keeps what the invariant says of the nodes, if
\* the node jobs are the old ones, or new ones of a cluster that is down.
LEMMA StageNodes ==
    ASSUME NodesInv, UNCHANGED <<cr, cache, current, pods, dirty>>,
           workloads' \subseteq workloads,
           pc \in {"uninstallCluster", "waitForUninstallCompletion"},
           StageRequeue \/ StageError \/ (\E s \in Stage : StageFinished(s)),
           NodeJobs' => NodeJobs,
           \A n \in Nodes : Succeeded(n)' => Succeeded(n)
    PROVE  NodesPart'
  <1>t. TypeOK /\ IInv
    BY DEF NodesInv, RInv, IInv
  <1>m. mem.deleting /\ Busy
    BY <1>t DEF IInv, Safe, DeletionOrder, DeletionPC, Busy
  <1>1. /\ mem'.deleting = mem.deleting /\ mem'.finalizer = mem.finalizer
        /\ pc' \in {"uninstallCluster", "updateUninstallStatus", "manageError"}
    BY <1>t, StageEnd
  <1>2. mem'.spec.options = mem.spec.options
    BY <1>t, StageKeepsOptions
  <1>3. CASE pc' = "manageError"
    BY <1>m, <1>1, <1>3, CopyDone
  <1>4. CASE pc' \in {"uninstallCluster", "updateUninstallStatus"}
    <2>1. ReleasedDeploysNothing'
      BY <1>4 DEF ReleasedDeploysNothing
    <2>2. /\ pc \in BeforeRelease /\ pc' \in BeforeRelease
          /\ pc' # "waitForUninstallCompletion"
      BY <1>4 DEF BeforeRelease, DeletionPC
    <2> QED
      BY <1>1, <1>2, <2>1, <2>2, CopyKept
  <1> QED
    BY <1>1, <1>3, <1>4

\* The stages that know nothing of nodes.
LEMMA OtherStages ==
    ASSUME NodesInv,
           \/ removeAllWorkloadsExceptMongo \/ WaitForWorkloadsToFinish
           \/ RunClearDbJob \/ WaitForClearDBToFinish \/ RemoveMongo
           \/ DeletePVCs \/ DeleteClusterServiceAccount
    PROVE  NodesPart'
  <1> USE DEF removeAllWorkloadsExceptMongo, WaitForWorkloadsToFinish,
          RunClearDbJob, WaitForClearDBToFinish, RemoveMongo, DeletePVCs,
          DeleteClusterServiceAccount
  <1>t. TypeOK
    BY ONLY NodesInv DEF NodesInv, RInv, IInv
  <1>0. UNCHANGED <<cr, cache, current, pods, dirty>> /\ pc = "uninstallCluster"
    BY DEF StageFrame, AtStage
  <1>1. workloads' \subseteq workloads /\ UNCHANGED jobView
    BY DEF jobVars
  <1>2. \/ UNCHANGED jobs
        \/ jobs' = Created({"clearDB"})
        \/ jobs' = Deleted({"clearDB"})
    BY DEF jobVars
  <1>3. StageRequeue \/ StageError \/ (\E s \in Stage : StageFinished(s))
    <2>1. {removeAllWorkloads, waitForWorkloadsToFinish, clearDB,
           waitForClearDBToFinish, removeMongo, deletePVCs,
           deleteClusterServiceAccount} \subseteq Stage
      BY ONLY DEF Stage, removeAllWorkloads, waitForWorkloadsToFinish, clearDB,
         waitForClearDBToFinish, removeMongo, deletePVCs, deleteClusterServiceAccount
    <2> QED
      BY <2>1
  <1>4. /\ NodeJobs' <=> NodeJobs
        /\ \A n \in Nodes : Succeeded(n)' <=> Succeeded(n)
    BY ONLY <1>t, <1>1, <1>2, ClearDbOnly
  <1> QED
    BY ONLY NodesInv, <1>0, <1>1, <1>3, <1>4, StageNodes

\* The jobs are created for a cluster that is down: the loop has the first
\* five stages behind it.
LEMMA RunJobsNodes == ASSUME NodesInv, RunUninstallJobs PROVE NodesPart'
  <1>t. TypeOK /\ IInv
    BY DEF NodesInv, RInv, IInv
  <1>0. /\ UNCHANGED <<cr, cache, current, workloads, pods, dirty, jobView>>
        /\ pc = "uninstallCluster" /\ ~Skip(mem)
    BY DEF RunUninstallJobs, StageFrame, AtStage, Skip
  <1>1. CASE StageError /\ UNCHANGED jobs
    <2>1. NodeJobs' <=> NodeJobs
      BY <1>0, <1>1 DEF NodeJobs
    <2>2. \A n \in Nodes : Succeeded(n)' <=> Succeeded(n)
      BY <1>0, <1>1 DEF Succeeded
    <2> QED
      BY <1>0, <1>1, <2>1, <2>2, StageNodes
  <1>2. CASE /\ mem' = Started /\ pc' = "waitForUninstallCompletion"
             /\ \E some \in SUBSET labelled : jobs' = Created(some)
    <2>1. mem.deleting /\ (cr.finalizer => Down)
      <3>1. 1..(uninstallClusterNodes - 1) \subseteq mem.status.finished
        BY AtStagePrefix DEF RunUninstallJobs, Stage, uninstallClusterNodes
      <3>2. removeAllWorkloads \in mem.status.finished
            /\ waitForWorkloadsToFinish \in mem.status.finished
        BY <3>1 DEF uninstallClusterNodes, removeAllWorkloads, waitForWorkloadsToFinish
      <3> QED
        BY <1>0, <1>t, <3>2
           DEF IInv, Safe, Truthful, Effects, Down, DeletionOrder, DeletionPC
    <2>2. \A n \in Nodes : Succeeded(n)' => Succeeded(n)
      BY <1>0, <1>2, <1>t DEF Succeeded, Created, TypeOK, Job
    <2>3. mem'.deleting = mem.deleting /\ mem'.finalizer = mem.finalizer
      BY <1>t, <1>2, StageEnd
    <2>4. mem'.spec.options = mem.spec.options
      BY <1>t, <1>2 DEF Started, TypeOK, NVMeshType
    <2>5. ReleasedDeploysNothing'
      BY <1>2 DEF ReleasedDeploysNothing
    <2>6. pc \in BeforeRelease /\ pc' \in BeforeRelease
      BY <1>0, <1>2 DEF BeforeRelease, DeletionPC
    <2> QED
      BY <1>0, <2>1, <2>2, <2>3, <2>4, <2>5, <2>6, CopyKept
  <1> QED
    BY <1>1, <1>2 DEF RunUninstallJobs, Goto

\* Waiting for the jobs only deletes jobs.
LEMMA WaitJobsNodes == ASSUME NodesInv, WaitForUninstallCompletion PROVE NodesPart'
  <1>t. TypeOK
    BY DEF NodesInv, RInv, IInv
  <1>0. /\ UNCHANGED <<cr, cache, current, workloads, pods, dirty, jobView>>
        /\ pc = "waitForUninstallCompletion"
    BY DEF WaitForUninstallCompletion, StageFrame
  <1>1. UNCHANGED jobs \/ \E some \in SUBSET nodeList : jobs' = Deleted(some)
    BY DEF WaitForUninstallCompletion
  <1>2. \A n \in Nodes : jobs'[n] = jobs[n] \/ jobs'[n] = "none"
    BY <1>t, <1>1 DEF TypeOK, Job, Deleted
  <1>3. NodeJobs' => NodeJobs
    BY <1>0, <1>2 DEF NodeJobs
  <1>4. \A n \in Nodes : Succeeded(n)' => Succeeded(n)
    BY <1>0, <1>2 DEF Succeeded
  <1>5. uninstallClusterNodes \in Stage
    BY DEF Stage, uninstallClusterNodes
  <1>6. StageRequeue \/ StageError \/ (\E s \in Stage : StageFinished(s))
    BY <1>5 DEF WaitForUninstallCompletion
  <1> QED
    BY <1>0, <1>3, <1>4, <1>6, StageNodes

\* The two ends of the loop: what is released is skipped or disabled.
LEMMA StagesEndNodes ==
    ASSUME NodesInv, SkipUninstall \/ UninstallComplete PROVE NodesPart'
  <1>t. mem \in NVMeshType
    BY DEF NodesInv, RInv, IInv, TypeOK
  <1>0. /\ UNCHANGED <<cr, cache, current, workloads, pods, jobs, jobView, dirty>>
        /\ pc = "uninstallCluster" /\ pc' = "removeFinalizer"
    BY DEF SkipUninstall, UninstallComplete, Goto, world, kube, jobVars
  <1>1. /\ mem'.deleting = mem.deleting /\ mem'.finalizer = mem.finalizer
        /\ mem'.spec.options = mem.spec.options
        /\ Skip(mem') \/ mem'.spec.disabled = Components
    <2>1. CASE SkipUninstall
      BY <2>1 DEF SkipUninstall, Skip
    <2>2. CASE UninstallComplete
      <3>1. mem' = [mem EXCEPT !.spec.disabled = Components, !.status.tracked = TRUE]
        BY <2>2 DEF UninstallComplete
      <3> QED
        BY <1>t, <3>1 DEF NVMeshType, SpecType
    <2> QED
      BY <2>1, <2>2
  <1>2. ReleasedDeploysNothing'
    BY <1>0, <1>1 DEF ReleasedDeploysNothing, Skip, Has
  <1>3. NodeJobs' <=> NodeJobs
    BY <1>0 DEF NodeJobs
  <1>4. \A n \in Nodes : Succeeded(n)' <=> Succeeded(n)
    BY <1>0 DEF Succeeded
  <1>5. pc \in BeforeRelease /\ pc' \in BeforeRelease
    BY <1>0 DEF BeforeRelease, DeletionPC
  <1> QED
    BY <1>0, <1>1, <1>2, <1>3, <1>4, <1>5, CopyKept

-------------------------------------------------------------------------------
(* Components, status, the end of a cycle *)

\* A cycle deploys at most the components its copy enables.
LEMMA ComponentsNodes == ASSUME NodesInv, reconcileAllcomponents PROVE NodesPart'
  <1>0. /\ pc = "reconcileAllComponents"
        /\ UNCHANGED <<cr, cache, pods, jobs, jobView, dirty>>
    BY DEF reconcileAllcomponents, ComponentsSettled, ComponentError,
       MongoNotReady, MongoError, ComponentsFrame, jobVars
  <1>1. \/ /\ pc' \in {"removeFinishedActionStatuses", "manageError"}
           /\ mem' = mem
        \/ pc' = "idle"
    BY DEF reconcileAllcomponents, ComponentsSettled, ComponentError,
       MongoNotReady, MongoError, EndCycle, Goto
  <1>2. workloads' \subseteq workloads \cup (Components \ mem.spec.disabled)
    BY DEF reconcileAllcomponents, ComponentsSettled, ComponentError,
       MongoNotReady, MongoError, Deploy, Enabled
  <1>3. NodeJobs' <=> NodeJobs
    BY <1>0 DEF NodeJobs
  <1>4. \A n \in Nodes : Succeeded(n)' <=> Succeeded(n)
    BY <1>0 DEF Succeeded
  <1>5. Busy /\ (Busy' /\ NodeJobs => mem'.deleting)
    BY <1>0, <1>1 DEF Busy, NodesInv, NodesPart, JobsAreLast
  <1> QED
    BY <1>0, <1>1, <1>2, <1>3, <1>4, <1>5, CopyDone

\* Status writes change nothing the nodes depend on.
LEMMA StatusNodes ==
    ASSUME NodesInv,
           \/ updateUninstallStatus \/ RemoveFinishedActionStatuses
           \/ ManageSuccess \/ ManageError
    PROVE  NodesPart'
  <1>t. cr \in NVMeshType /\ mem \in NVMeshType /\ cache \in NVMeshType
    BY DEF NodesInv, RInv, IInv, TypeOK
  <1>0. UNCHANGED <<cache, workloads, pods, jobs, jobView, dirty>>
    BY DEF updateUninstallStatus, RemoveFinishedActionStatuses, ManageSuccess,
       ManageError, world, kube, jobVars
  <1>1. Busy /\ pc' \in {"idle", "manageSuccess", "manageSuccessRequeue"}
    BY DEF Busy, updateUninstallStatus, RemoveFinishedActionStatuses,
       ManageSuccess, ManageError, EndCycle, Goto
  <1>2. /\ cr'.exists = cr.exists /\ cr'.deleting = cr.deleting
        /\ cr'.finalizer = cr.finalizer
    <2>1. UNCHANGED cr \/ \E st : cr' = [cr EXCEPT !.status = st]
      BY DEF updateUninstallStatus, RemoveFinishedActionStatuses,
         ManageSuccess, ManageError, StatusUpdated, StatusUpdateFails, StoreStatus
    <2>2. ASSUME NEW st, cr' = [cr EXCEPT !.status = st]
          PROVE  /\ cr'.exists = cr.exists /\ cr'.deleting = cr.deleting
                 /\ cr'.finalizer = cr.finalizer
      BY ONLY <1>t, <2>2, StoredFields
    <2> QED
      BY <2>1, <2>2
  <1>3. Busy' => \/ UNCHANGED mem
                 \/ \E st : mem' = [mem EXCEPT !.status = st]
                 \/ cache.exists /\ \E st : mem' = [cache EXCEPT !.status = st]
    <2>1. CASE updateUninstallStatus
      BY <2>1 DEF updateUninstallStatus
    <2>2. CASE ManageSuccess \/ ManageError
      BY <2>2 DEF ManageSuccess, ManageError, EndCycle, Busy
    <2>3. CASE RemoveFinishedActionStatuses
      <3> DEFINE st == [mem.status EXCEPT !.finished = {}, !.tracked = FALSE]
      <3>a. \/ UNCHANGED mem
            \/ mem' = [mem EXCEPT !.status = st]
            \/ /\ StatusUpdated(st)
               /\ mem' = [(IF current \/ ~cr.exists THEN mem ELSE cache)
                          EXCEPT !.status = st]
        BY <2>3 DEF RemoveFinishedActionStatuses
      <3> HIDE DEF st
      <3>1. CASE UNCHANGED mem \/ mem' = [mem EXCEPT !.status = st]
        BY <3>1
      <3>2. CASE /\ StatusUpdated(st)
                 /\ mem' = [(IF current \/ ~cr.exists THEN mem ELSE cache)
                            EXCEPT !.status = st]
        <4>1. CASE current \/ ~cr.exists
          BY <3>2, <4>1
        <4>2. CASE ~current /\ cr.exists
          BY <3>2, <4>2 DEF StatusUpdated, Writable
        <4> QED
          BY <4>1, <4>2
      <3> QED
        BY <3>a, <3>1, <3>2
    <2> QED
      BY <2>1, <2>2, <2>3
  <1>4. Busy' /\ NodeJobs => mem'.deleting
    <2> SUFFICES ASSUME Busy', NodeJobs PROVE mem'.deleting
        OBVIOUS
    <2>1. mem.deleting /\ Doomed(cache)
      BY <1>1 DEF NodesInv, NodesPart, JobsAreLast
    <2>2. ASSUME NEW st, NEW x \in NVMeshType, mem' = [x EXCEPT !.status = st]
          PROVE  mem'.deleting = x.deleting
      BY ONLY <2>2, StoredFields
    <2> QED
      BY <1>t, <1>3, <2>1, <2>2 DEF Doomed
  <1>5. NodeJobs' <=> NodeJobs
    BY <1>0 DEF NodeJobs
  <1>6. \A n \in Nodes : Succeeded(n)' <=> Succeeded(n)
    BY <1>0 DEF Succeeded
  <1>7. pc # "reconcileAllComponents"
    BY DEF updateUninstallStatus, RemoveFinishedActionStatuses, ManageSuccess,
       ManageError
  <1> QED
    BY <1>0, <1>1, <1>2, <1>4, <1>5, <1>6, <1>7, CopyDone

-------------------------------------------------------------------------------
(* The theorem *)

\* Every step keeps the invariant.
LEMMA NextNodes == NodesInv /\ [Next]_vars => NodesPart'
  <1> SUFFICES ASSUME NodesInv, [Next]_vars PROVE NodesPart'
      OBVIOUS
  <1>1. CASE Reconcile
    <2>1. CASE uninstallCluster
      BY <2>1, OtherStages, RunJobsNodes, WaitJobsNodes, StagesEndNodes
         DEF uninstallCluster
    <2> QED
      BY <1>1, <2>1, ClusterNodes, FetchNodes, DecisionNodes, AddFinalizerNodes,
         RemoveFinalizerNodes, ComponentsNodes, StatusNodes DEF Reconcile
  <1>2. CASE Environment
    BY <1>2, CacheSyncNodes, CrashNodes, UserNodes, JobNodes, ClusterNodes
       DEF Environment
  <1>3. CASE UNCHANGED vars
    BY <1>3, ClusterNodes
  <1> QED
    BY <1>1, <1>2, <1>3 DEF Next

\* The initial states satisfy it: nothing is known, nothing is deployed.
LEMMA InitNodes == Init => NodesPart
  <1> SUFFICES ASSUME Init PROVE NodesPart
      OBVIOUS
  <1>1. /\ cache = Absent /\ current = FALSE /\ pc = "idle"
        /\ \A j \in Job : jobs[j] = "none" /\ jobView[j] = "none"
    BY DEF Init
  <1>2. ~NodeJobs /\ \A n \in Nodes : ~Succeeded(n)
    BY <1>1 DEF NodeJobs, Succeeded, Job
  <1>3. ~cache.finalizer /\ ~Underway
    BY <1>1, AbsentFields DEF Underway, BeforeRelease, DeletionPC
  <1> QED
    BY <1>1, <1>2, <1>3
       DEF NodesPart, FreshCopy, FinalizerKept, ReleasedDeploysNothing,
           StaleIsDown, JobsAreLast, SuccessIsTrue, BeforeRelease, DeletionPC

\* The invariant holds in every reachable state.
LEMMA NodesInvariant == Spec => []NodesInv
  <1>1. Init => NodesInv
    BY InitTypeOK, InitSafe, InitNodes
       DEF NodesInv, RInv, IInv, ReleaseJustified, Init
  <1>2. NodesInv /\ [Next]_vars => NodesInv'
    BY NextIInv, NextJustified, NextNodes DEF NodesInv, RInv
  <1> QED
    BY <1>1, <1>2, PTL DEF Spec

\* waitForUninstallCompletion reports uninstallClusterNodes as finished only
\* when no node it listed has NVMesh left on it, for every number of nodes,
\* whatever the informer's view of the jobs, the crashes and the failed calls.
THEOREM NodesAreUninstalled == Spec => NodesUninstalled
  <1>1. NodesInv /\ [Next]_vars
          => [pc = "waitForUninstallCompletion" /\ pc' = "uninstallCluster"
                 => nodeList \cap dirty = {}]_vars
    <2> SUFFICES ASSUME NodesInv, Next, pc = "waitForUninstallCompletion",
                        pc' = "uninstallCluster"
                 PROVE  nodeList \cap dirty = {}
        OBVIOUS
    <2>1. WaitForUninstallCompletion
      <3>1. ~Environment
        BY DEF Environment, CacheSync, OwnedObjectEvent, Crash, JobViewSync,
           JobSucceeds, JobFails, PodsStart, PodsStop, ClearDbJobGivesUp,
           ClaimCreated, GarbageCollect, DeleteCR, EditSpec, RemoveForeign,
           LabelNode, ChangeVolumes, ReleaseVolumes, reconciler, UserFrame
      <3>2. uninstallCluster
        BY <3>1 DEF Next, Reconcile, ReconcileNotFound, ReconcileFetch,
           makeSureServiceAccountExists, handleFinalizer,
           addFinalizerAndUpdate, isAllowedToDeleteCluster,
           updateUninstallStatus, removeFinalizerAndUpdate,
           reconcileAllcomponents, ComponentsSettled, ComponentError,
           MongoNotReady, MongoError, RemoveFinishedActionStatuses,
           ManageSuccess, ManageError
      <3> QED
        BY <3>2 DEF uninstallCluster, SkipUninstall,
           removeAllWorkloadsExceptMongo, WaitForWorkloadsToFinish,
           RunClearDbJob, WaitForClearDBToFinish, RemoveMongo,
           RunUninstallJobs, DeletePVCs, DeleteClusterServiceAccount,
           UninstallComplete, AtStage
    <2>2. \A n \in nodeList : waitForJobToFinish(n) = "done"
      BY <2>1 DEF WaitForUninstallCompletion, StageRequeue, StageError, Goto
    <2>3. \A n \in nodeList : Succeeded(n)
      BY <2>2 DEF waitForJobToFinish, Succeeded
    <2>4. Underway
      BY DEF Underway, BeforeRelease, DeletionPC, NodesInv, NodesPart,
             JobsAreLast, RInv, IInv, Safe, DeletionOrder
    <2>5. nodeList \subseteq Nodes
      BY DEF NodesInv, RInv, IInv, TypeOK
    <2> QED
      BY <2>3, <2>4, <2>5 DEF NodesInv, NodesPart, SuccessIsTrue
  <1> QED
    BY <1>1, NodesInvariant, PTL DEF Spec, NodesUninstalled
================================================================================
