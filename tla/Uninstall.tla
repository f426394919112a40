------------------------------ MODULE Uninstall ------------------------------
(***************************************************************************)
(* Deletion of the resource: handleFinalizer with the checks that precede  *)
(* deletion (finalizer.go), and the eight stages of uninstallCluster       *)
(* (uninstall.go).  An action that shares its name with a stage, or that   *)
(* is part of a function, is capitalised.                                  *)
(***************************************************************************)
EXTENDS Cluster

-------------------------------------------------------------------------------
(* finalizer.go *)

\* Variant of handleFinalizer: a resource without finalizer goes on without.
handleFinalizerWithoutAdding ==
    /\ pc = "handleFinalizer"
    /\ Goto(IF mem.deleting /\ mem.finalizer THEN "isAllowedToDelete"
                                             ELSE "reconcileAllComponents")
    /\ UNCHANGED <<cr, cache, mem, current, queued, nodeList, world, faults, bounds>>

\* Deletion with our finalizer goes to the checks.  Deletion without it, and
\* no deletion with it, fall through to the components.
handleFinalizer ==
    /\ pc = "handleFinalizer"
    /\ mem.deleting \/ mem.finalizer
    /\ Goto(IF mem.deleting /\ mem.finalizer THEN "isAllowedToDelete"
                                             ELSE "reconcileAllComponents")
    /\ UNCHANGED <<cr, cache, mem, current, queued, nodeList, world, faults, bounds>>

\* The update is refused when the copy is stale, and may fail otherwise.
\* The answer of the API server replaces the copy, status included.
addFinalizerAndUpdate ==
    /\ pc = "handleFinalizer"
    /\ ~mem.deleting /\ ~mem.finalizer
    /\ \/ /\ current /\ NoFault
          /\ cr' = [cr EXCEPT !.finalizer = TRUE, !.spec = mem.spec]
          /\ mem' = cr'
          /\ Goto("reconcileAllComponents")
       \/ /\ IF current THEN Fault("update") ELSE NoFault
          /\ mem' = [mem EXCEPT !.finalizer = TRUE]
          /\ Goto("manageError")
          /\ UNCHANGED cr
    /\ UNCHANGED <<cache, current, queued, nodeList, world, bounds>>

\* Both checks obey IgnoreVolumeAttachmentOnDelete.
isAllowedToDeleteCluster ==
    /\ pc = "isAllowedToDelete"
    /\ LET ignore == Has(mem, "ignoreVolumeAttachmentOnDelete")
       IN  \/ /\ NoFault
              /\ Goto(IF ignore \/ ~(attached \/ pv) THEN "uninstallCluster"
                                                     ELSE "manageError")
           \/ /\ Fault("list")
              /\ Goto(IF ignore THEN "uninstallCluster" ELSE "manageError")
    /\ UNCHANGED <<cr, cache, mem, current, queued, nodeList, world, bounds>>

\* A requeueing uninstall is recorded by one Status().Update whose failure
\* is only logged.
updateUninstallStatus ==
    /\ pc = "updateUninstallStatus"
    /\ LET status == [mem.status EXCEPT !.ready = "False", !.uninstalling = TRUE]
       IN  /\ mem' = [mem EXCEPT !.status = status]
           /\ \/ current /\ NoFault /\ StoreStatus(status)
              \/ (IF current THEN Fault("status") ELSE NoFault) /\ UNCHANGED cr
    /\ Goto("manageSuccessRequeue")
    /\ UNCHANGED <<cache, current, queued, nodeList, world, bounds>>

\* With our finalizer gone the API server drops the resource, unless another
\* finalizer holds it; the spec of the copy is stored too.  The answer is
\* decoded into the copy: its status wins, but an entry of the uninstall
\* action the API server never stored survives.
removeFinalizerAndUpdate ==
    /\ pc = "removeFinalizer"
    /\ \/ /\ current /\ NoFault
          /\ cr' = IF cr.foreign
                   THEN [cr EXCEPT !.finalizer = FALSE, !.spec = mem.spec]
                   ELSE Absent
          /\ mem' = [mem EXCEPT !.finalizer = FALSE,
                                !.status = IF cr.status.tracked THEN cr.status ELSE @]
          /\ current' = cr.foreign
          /\ Goto("reconcileAllComponents")
       \/ /\ IF current THEN Fault("update") ELSE NoFault
          /\ mem' = [mem EXCEPT !.finalizer = FALSE]
          /\ Goto("manageError")
          /\ UNCHANGED <<cr, current>>
    /\ UNCHANGED <<cache, queued, nodeList, world, bounds>>

-------------------------------------------------------------------------------
(* uninstall.go: the loop over the stages, and one action per stage *)

\* Variant of AtStage: any unfinished stage may run.
AtAnyStage(s) == /\ pc = "uninstallCluster"
                 /\ ~Has(mem, "skipUninstall")
                 /\ s \notin mem.status.finished

\* The loop runs the first stage that is not recorded as finished.
AtStage(s) ==
    /\ pc = "uninstallCluster"
    /\ ~Has(mem, "skipUninstall")
    /\ s \notin mem.status.finished
    /\ \A t \in 1..(s - 1) : t \in mem.status.finished

\* Variant of StageFinished: stages counted from zero, so the one before is recorded.
StageFinishedOffByOne(s) ==
    /\ mem' = [mem EXCEPT !.status.tracked = TRUE,
                          !.status.finished = @ \cup {s - 1}]
    /\ pc' = "uninstallCluster"

\* Running a stage records it in memory: as started, then as finished.
Started == [mem EXCEPT !.status.tracked = TRUE]
StageFinished(s) ==
    /\ mem' = [mem EXCEPT !.status.tracked = TRUE,
                          !.status.finished = @ \cup {s}]
    /\ pc' = "uninstallCluster"
StageRequeue == mem' = Started /\ Goto("updateUninstallStatus")
StageError   == mem' = Started /\ Goto("manageError")

\* What no stage touches.
StageFrame == UNCHANGED <<cr, cache, current, queued, pods, dirty, volumes,
                          labelled, bounds>>

SkipUninstall ==
    /\ pc = "uninstallCluster" /\ Has(mem, "skipUninstall")
    /\ Goto("removeFinalizer")
    /\ UNCHANGED <<cr, cache, mem, current, queued, nodeList, world, faults, bounds>>

\* core, then csi, then mgmt: an error leaves a prefix of them removed.
removeAllWorkloadsExceptMongo ==
    /\ AtStage(removeAllWorkloads)
    /\ \/ NoFault /\ workloads' = {} /\ StageFinished(removeAllWorkloads)
       \/ /\ Fault("remove")
          /\ \E removed \in {{}, {"core"}, {"core", "csi"}, Components} :
                workloads' = workloads \ removed
          /\ StageError
    /\ UNCHANGED <<nodeList, mongo, sa, pvcs, jobVars>> /\ StageFrame

\* Variant of AwaitedPods: the CSI node driver is not looked for.
AwaitedCorePods == pods \cap {"core"}

\* The pods the label selector of waitForWorkloadsToFinish finds: client,
\* target and mcs-agent (core) and csi-node-driver, none of management.
AwaitedPods == pods \cap {"core", "csi"}

WaitForWorkloadsToFinish ==
    /\ AtStage(waitForWorkloadsToFinish)
    /\ \/ NoFault /\ AwaitedPods = {} /\ StageFinished(waitForWorkloadsToFinish)
       \/ NoFault /\ AwaitedPods # {} /\ StageRequeue
       \/ Fault("list") /\ StageError
    /\ UNCHANGED <<nodeList, workloads, mongo, sa, pvcs, jobVars>> /\ StageFrame

\* Create, where AlreadyExists counts as success.
Created(js) == [j \in Job |-> IF j \in js /\ jobs[j] = "none" THEN "active"
                                                             ELSE jobs[j]]
Deleted(js) == [j \in Job |-> IF j \in js THEN "none" ELSE jobs[j]]

\* Variant of waitForJobToFinish: a failed job counts as finished.
waitForJobToEnd(j) == IF jobView[j] = "active" THEN "requeue" ELSE "done"

\* waitForJobToFinish on the cached job: a job that is not there, or has a
\* failed pod, is an error.
waitForJobToFinish(j) ==
    CASE jobView[j] = "active"    -> "requeue"
      [] jobView[j] = "succeeded" -> "done"
      [] OTHER                    -> "error"

RunClearDbJob ==
    /\ AtStage(clearDB)
    /\ \/ NoFault /\ jobs' = Created({"clearDB"}) /\ StageFinished(clearDB)
       \/ Fault("create") /\ UNCHANGED jobs /\ StageError
    /\ UNCHANGED <<nodeList, workloads, mongo, sa, pvcs, jobView>> /\ StageFrame

\* Only a job the cache shows as running is waited for.  Every error of the
\* wait (no such job, a failed job, a failed read) is logged, and the job is
\* deleted as if it had succeeded.
WaitForClearDBToFinish ==
    /\ AtStage(waitForClearDBToFinish)
    /\ \/ /\ waitForJobToFinish("clearDB") = "requeue" /\ NoFault
          /\ StageRequeue /\ UNCHANGED jobs
       \/ /\ IF waitForJobToFinish("clearDB") = "requeue" THEN Fault("get")
                                                          ELSE NoFault
          /\ StageFinished(waitForClearDBToFinish)
          /\ jobs' = Deleted({"clearDB"})
       \/ /\ waitForJobToFinish("clearDB") # "requeue" /\ Fault("delete")
          /\ StageError
          /\ jobs' \in {jobs, Deleted({"clearDB"})}
    /\ UNCHANGED <<nodeList, workloads, mongo, sa, pvcs, jobView>> /\ StageFrame

RemoveMongo ==
    /\ AtStage(removeMongo)
    /\ \/ NoFault /\ mongo' = FALSE /\ StageFinished(removeMongo)
       \/ Fault("remove") /\ mongo' \in {mongo, FALSE} /\ StageError
    /\ UNCHANGED <<nodeList, workloads, sa, pvcs, jobVars>> /\ StageFrame

\* First half of uninstallClusterNodes: list the labelled nodes and create
\* their jobs.  A job that cannot be created is logged and passed over.
RunUninstallJobs ==
    /\ AtStage(uninstallClusterNodes)
    /\ \/ /\ nodeList' = labelled
          /\ \/ NoFault /\ jobs' = Created(labelled)
             \/ /\ Fault("create")
                /\ \E some \in SUBSET labelled : jobs' = Created(some)
          /\ mem' = Started /\ Goto("waitForUninstallCompletion")
       \/ Fault("list") /\ StageError /\ UNCHANGED <<nodeList, jobs>>
    /\ UNCHANGED <<workloads, mongo, sa, pvcs, jobView>> /\ StageFrame

\* Second half: the nodes are visited in the order of a Go map; the first one
\* whose job has not succeeded decides.  The jobs are deleted at the end.
WaitForUninstallCompletion ==
    /\ pc = "waitForUninstallCompletion"
    /\ \/ /\ \E n \in nodeList :
                \/ waitForJobToFinish(n) = "requeue" /\ NoFault /\ StageRequeue
                \/ waitForJobToFinish(n) = "error" /\ NoFault /\ StageError
                \/ Fault("get") /\ StageError
          /\ UNCHANGED jobs
       \/ /\ \A n \in nodeList : waitForJobToFinish(n) = "done"
          /\ \/ /\ NoFault /\ jobs' = Deleted(nodeList)
                /\ StageFinished(uninstallClusterNodes)
             \/ /\ Fault("delete") /\ StageError
                /\ \E some \in SUBSET nodeList : jobs' = Deleted(some)
    /\ UNCHANGED <<nodeList, workloads, mongo, sa, pvcs, jobView>> /\ StageFrame

\* A claim that cannot be deleted is logged and passed over.
DeletePVCs ==
    /\ AtStage(deletePVCs)
    /\ \/ NoFault /\ pvcs' = FALSE /\ StageFinished(deletePVCs)
       \/ Fault("remove") /\ UNCHANGED pvcs /\ StageFinished(deletePVCs)
       \/ Fault("list") /\ UNCHANGED pvcs /\ StageError
    /\ UNCHANGED <<nodeList, workloads, mongo, sa, jobVars>> /\ StageFrame

\* The one stage whose error is turned into a requeue.
DeleteClusterServiceAccount ==
    /\ AtStage(deleteClusterServiceAccount)
    /\ \/ NoFault /\ sa' = FALSE /\ StageFinished(deleteClusterServiceAccount)
       \/ Fault("remove") /\ sa' \in {sa, FALSE} /\ StageRequeue
    /\ UNCHANGED <<nodeList, workloads, mongo, pvcs, jobVars>> /\ StageFrame

\* All stages are done: the copy gets every component disabled.
UninstallComplete ==
    /\ pc = "uninstallCluster" /\ ~Has(mem, "skipUninstall")
    /\ mem.status.finished = Stage
    /\ mem' = [mem EXCEPT !.spec.disabled = Components, !.status.tracked = TRUE]
    /\ Goto("removeFinalizer")
    /\ UNCHANGED <<cr, cache, current, queued, nodeList, world, faults, bounds>>

uninstallCluster ==
    \/ SkipUninstall
    \/ removeAllWorkloadsExceptMongo
    \/ WaitForWorkloadsToFinish
    \/ RunClearDbJob
    \/ WaitForClearDBToFinish
    \/ RemoveMongo
    \/ RunUninstallJobs
    \/ WaitForUninstallCompletion
    \/ DeletePVCs
    \/ DeleteClusterServiceAccount
    \/ UninstallComplete

==============================================================================
