------------------------------- MODULE Operator -------------------------------
(***************************************************************************)
(* The reconcile loop of the NVMesh operator and the life of one NVMesh    *)
(* custom resource: creation, deployment of the components, deletion with  *)
(* the eight uninstall stages, and the release of the finalizer.           *)
(*                                                                         *)
(* The controller runs one worker.  It reads the custom resource from an   *)
(* informer cache that lags the API server, works on an in-memory copy and *)
(* writes it back under optimistic locking.  One action stands for one     *)
(* handler or one uninstall stage; between two of them users, the          *)
(* scheduler, the job controller, the caches and a crash may act.          *)
(***************************************************************************)
EXTENDS Uninstall

-------------------------------------------------------------------------------
(* Reconcile: fetch, validation, service account *)

ReconcileNotFound ==
    /\ pc = "idle" /\ queued /\ ~cache.exists
    /\ queued' = FALSE
    /\ UNCHANGED <<cr, cache, mem, current, pc, nodeList, world, faults, bounds>>

isValid(c) == ~Has(c, "externalWithoutAddress")

ReconcileFetch ==
    /\ pc = "idle" /\ queued /\ cache.exists
    /\ queued' = FALSE
    /\ mem' = cache /\ current' = (cache = cr)
    /\ Goto(IF isValid(cache) THEN "serviceAccount" ELSE "manageError")
    /\ UNCHANGED <<cr, cache, nodeList, world, faults, bounds>>

makeSureServiceAccountExists ==
    /\ pc = "serviceAccount"
    /\ \/ NoFault /\ sa' = TRUE /\ Goto("handleFinalizer")
       \/ Fault("serviceAccount") /\ sa' \in {sa, TRUE} /\ Goto("manageError")
    /\ UNCHANGED <<cr, cache, mem, current, queued, nodeList, workloads, pods,
                   mongo, pvcs, dirty, jobVars, volumes, labelled, bounds>>

-------------------------------------------------------------------------------
(* reconcileAllcomponents: management with its database, core, csi.  A       *)
(* component error without a requeue request is logged and dropped.          *)

Enabled == Components \ mem.spec.disabled

\* kept: the components whose objects an error left as they were.
Deploy(kept) == workloads' = (Enabled \ kept) \cup (workloads \cap kept)

ComponentsFrame == UNCHANGED <<cr, cache, pods, sa, pvcs, dirty, jobVars,
                               volumes, labelled, bounds>>

ComponentsSettled ==
    /\ pc = "reconcileAllComponents"
    /\ NoFault
    /\ Deploy({}) /\ mongo' = ("mgmt" \in Enabled)
    /\ Goto("removeFinishedActionStatuses")
    /\ UNCHANGED <<mem, current, queued, nodeList>> /\ ComponentsFrame

ComponentError ==
    /\ pc = "reconcileAllComponents"
    /\ Fault("components")
    /\ \E kept \in SUBSET Components : Deploy(kept)
    /\ mongo' = ("mgmt" \in Enabled)
    /\ Goto("removeFinishedActionStatuses")
    /\ UNCHANGED <<mem, current, queued, nodeList>> /\ ComponentsFrame

\* The database does not answer yet, or is empty and the init job was
\* started: a requeue without an error, which also leaves the status alone.
MongoNotReady ==
    /\ pc = "reconcileAllComponents" /\ "mgmt" \in Enabled
    /\ Fault("mongo")
    /\ Deploy({"mgmt"}) /\ mongo' = TRUE
    /\ EndCycle(TRUE) /\ ComponentsFrame

MongoError ==
    /\ pc = "reconcileAllComponents"
    /\ Fault("mongo")
    /\ \E kept \in SUBSET Components : "mgmt" \in kept /\ Deploy(kept)
    /\ UNCHANGED mongo \/ mongo' = ("mgmt" \in Enabled)
    /\ Goto("manageError")
    /\ UNCHANGED <<mem, current, queued, nodeList>> /\ ComponentsFrame

reconcileAllcomponents ==
    \/ ComponentsSettled
    \/ ComponentError
    \/ MongoNotReady
    \/ MongoError

-------------------------------------------------------------------------------
(* Status: UpdateStatus retries a refused write with the cached copy, and a  *)
(* resource that is gone needs no status.                                    *)

Writable == current \/ cache = cr

StatusUpdated(status) ==
    /\ NoFault
    /\ IF cr.exists THEN Writable /\ StoreStatus(status) ELSE UNCHANGED cr

StatusUpdateFails ==
    /\ cr.exists /\ UNCHANGED cr
    /\ IF Writable THEN Fault("status") ELSE NoFault

\* The CR of this module requests no actions, so the entry of the uninstall
\* action is always stale here; a failed write is ignored.
RemoveFinishedActionStatuses ==
    /\ pc = "removeFinishedActionStatuses"
    /\ LET status == [mem.status EXCEPT !.finished = {}, !.tracked = FALSE]
       IN  \/ /\ mem.status.tracked
              /\ \/ /\ StatusUpdated(status) /\ current' = cr.exists
                    /\ mem' = [(IF current \/ ~cr.exists THEN mem ELSE cache)
                               EXCEPT !.status = status]
                 \/ /\ StatusUpdateFails /\ UNCHANGED current
                    /\ mem' = [mem EXCEPT !.status = status]
              /\ Goto("manageSuccessRequeue")
           \/ /\ ~mem.status.tracked /\ NoFault
              /\ Goto("manageSuccess")
              /\ UNCHANGED <<cr, mem, current>>
    /\ UNCHANGED <<cache, queued, nodeList, world, bounds>>

ManageSuccess ==
    /\ pc \in {"manageSuccess", "manageSuccessRequeue"}
    /\ \/ /\ StatusUpdated([mem.status EXCEPT !.ready = "True"])
          /\ EndCycle(pc = "manageSuccessRequeue")
       \/ StatusUpdateFails /\ EndCycle(TRUE)
    /\ UNCHANGED <<cache, world, bounds>>

\* Variant of ManageError: the error is reported but not retried.
ManageErrorWithoutRequeue ==
    /\ pc = "manageError"
    /\ \/ StatusUpdated([mem.status EXCEPT !.ready = "False"])
       \/ StatusUpdateFails
    /\ EndCycle(FALSE)
    /\ UNCHANGED <<cache, world, bounds>>

\* Every error of this module's cycle is answered with a requeue.
ManageError ==
    /\ pc = "manageError"
    /\ \/ StatusUpdated([mem.status EXCEPT !.ready = "False"])
       \/ StatusUpdateFails
    /\ EndCycle(TRUE)
    /\ UNCHANGED <<cache, world, bounds>>

Reconcile ==
    \/ ReconcileNotFound
    \/ ReconcileFetch
    \/ makeSureServiceAccountExists
    \/ handleFinalizer
    \/ addFinalizerAndUpdate
    \/ isAllowedToDeleteCluster
    \/ uninstallCluster
    \/ updateUninstallStatus
    \/ removeFinalizerAndUpdate
    \/ reconcileAllcomponents
    \/ RemoveFinishedActionStatuses
    \/ ManageSuccess
    \/ ManageError

Next == Reconcile \/ Environment

Spec == Init /\ [][Next]_vars

\* Kubelets stop the pods of removed workloads; the job controller ends jobs,
\* and the informer of the jobs reports it.
KubernetesGoesOn ==
    \/ \E j \in Job : JobViewSync(j) \/ JobSucceeds(j)
    \/ ClearDbJobGivesUp
    \/ \E c \in Components : PodsStop(c)

\* Another controller lets go of its finalizer, an administrator of the volumes.
OthersLetGo == RemoveForeign \/ ReleaseVolumes

Fairness ==
    /\ WF_vars(Reconcile) /\ WF_vars(CacheSync)
    /\ WF_vars(KubernetesGoesOn) /\ WF_vars(OthersLetGo)

\* A requeued request waits a second, or a back-off that doubles with every
\* failure: from some time on the informer has caught up when a cycle starts.
PromptCache == <>[][pc = "idle" /\ pc' # "idle" => cache = cr]_vars

FairSpec == Spec /\ Fairness /\ PromptCache

-------------------------------------------------------------------------------
(* Properties *)

\* What a status says of the cluster: the finished stages are a prefix of the
\* list, and the effects of removeAllWorkloads, waitForWorkloadsToFinish and
\* removeMongo still hold.
Truth(status) ==
    /\ \A s \in status.finished : 1..s \subseteq status.finished
    /\ removeAllWorkloads \in status.finished => workloads = {}
    /\ waitForWorkloadsToFinish \in status.finished
          => pods \cap {"core", "csi"} = {}
    /\ removeMongo \in status.finished => ~mongo

\* uninstallCluster skips every stage the stored status calls finished, so
\* what the status says must still be true whenever a later cycle, or the
\* operator restarted after a crash, reads it.
StatusTruthful == cr.exists /\ cr.finalizer => Truth(cr.status)

\* Between two cycles a resource waiting for our finalizer is in the work
\* queue, or its informer has yet to report a change that puts it there:
\* the predicate and the dropped results of Reconcile never lose a deletion.
DeletionNeverForgotten ==
    pc = "idle" /\ cr.exists /\ cr.deleting /\ cr.finalizer
       => queued \/ Generation(cache) # Generation(cr)

\* handleFinalizer runs before reconcileAllcomponents: a resource nobody is
\* deleting has workloads only under our finalizer, so deleting it cannot
\* bypass the uninstall.
FinalizerBeforeWorkloads ==
    cr.exists /\ ~cr.deleting /\ workloads # {} => cr.finalizer

\* When the queue is empty, the informer has caught up and nobody is deleting
\* the resource, the workloads are the ones its spec asks for and Ready says
\* True; an invalid spec never comes to rest.
QuiescentConverged ==
    pc = "idle" /\ ~queued /\ cache = cr /\ cr.exists /\ ~cr.deleting
       => /\ isValid(cr)
          /\ workloads = Components \ cr.spec.disabled
          /\ mongo = ("mgmt" \notin cr.spec.disabled)
          /\ cr.status.ready = "True"

\* uninstallClusterNodes finishes only when no node it listed still carries
\* NVMesh, however stale the cached jobs are.
NodesUninstalled ==
    [][pc = "waitForUninstallCompletion" /\ pc' = "uninstallCluster"
       => nodeList \cap dirty = {}]_vars

\* While our finalizer holds the resource, the uninstall takes MongoDB away
\* only when no workload is deployed and no core or CSI node pod is left.
OrderlyTeardown ==
    [][pc = "uninstallCluster" /\ cr.finalizer /\ mongo /\ ~mongo'
       => workloads = {} /\ pods \cap {"core", "csi"} = {}]_vars

\* The node stage has met a node job that failed: AlreadyExists counts as
\* created, so the job is never replaced, and every wait for it is an error.
NodeJobFailed == \E n \in labelled : jobs[n] = "failed"

\* A requested deletion ends with the resource gone, through refused writes,
\* volumes that block it, edits and another controller's finalizer.  Two things
\* stop it for as long as they last: a spec that isValid rejects, because
\* Reconcile returns before handleFinalizer, and a failed node job.
DeletionCompletes ==
    (cr.exists /\ cr.deleting) ~> (~cr.exists \/ ~isValid(cr) \/ NodeJobFailed)

\* reconcileAllcomponents: "We collect errors and keep on Reconciling other
\* components.  We then requeue another reconcile cycle".  So a valid
\* resource at rest has the workloads its spec asks for.  TLC refutes this.
ErrorsAreRequeued ==
    pc = "idle" /\ ~queued /\ cache = cr /\ cr.exists /\ ~cr.deleting
       => workloads = Components \ cr.spec.disabled
===============================================================================
