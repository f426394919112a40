------------------------------ MODULE CollectLogs ------------------------------
(***************************************************************************)
(* Actions a user lists in the spec of a deployed NVMesh resource, and the *)
(* one the operator knows, collect-logs: five tasks over Kubernetes Jobs.  *)
(* The tasks are recorded in the status under the NAME of the action, and  *)
(* a finished action is taken out of the list by an update of the resource.*)
(* Every entry of the list asks for collect-logs (the schema admits no     *)
(* other name); entries are told apart by the number of the request.       *)
(***************************************************************************)
EXTENDS Naturals, FiniteSets, SequencesExt

CONSTANTS
    Nodes,          \* the Kubernetes nodes that may carry NVMesh labels
    MaxRequests,    \* how often a user asks for logs in a run
    MaxMishaps      \* how many failing calls, crashes, failing jobs, label
                    \* changes, cancelled requests and events of owned
                    \* objects a run has in all

ASSUME JobNamesAssumption == {"collect-db", "collect-config-maps"} \cap Nodes = {}
ASSUME LimitsAssumption == MaxRequests \in Nat /\ MaxMishaps \in Nat

Task == {"CollectDB", "CollectConfigMaps", "CollectLogs",
         "waitForJobsToFinish", "DeleteJobs", "ActionComplete"}

ClusterJobs == {"collect-db", "collect-config-maps"}
Job == ClusterJobs \cup Nodes
JobState == {"none", "active", "succeeded", "failed"}

\* tracked: the action has an entry in ActionsStatus.
StatusType == [tracked : BOOLEAN, finished : SUBSET Task, ready : BOOLEAN]
IdleStatus == [tracked |-> FALSE, finished |-> {}, ready |-> TRUE]

ResourceType == [actions : Seq(1..MaxRequests), status : StatusType]
Quiet == [actions |-> <<>>, status |-> IdleStatus]

VARIABLES
    cr,        \* the resource as the API server holds it
    cache,     \* the informer's copy of it
    mem,       \* the copy the running reconcile cycle works on
    current,   \* is mem's resourceVersion the API server's?
    pc,        \* where the reconcile cycle is
    queued,    \* is the resource's key in the work queue?
    pending,   \* the list handleActions ranges over
    index,     \* its position in that list
    nodeList,  \* the nodes this cycle listed
    todo,      \* the jobs this cycle has still to find finished
    result,    \* how the cycle is going to end
    jobs,      \* the Jobs as the API server holds them
    jobView,   \* the informer's copy of them
    labelled,  \* nodes with a client, target or management label
    collected, \* history: the jobs that have succeeded since a request was
               \* made, for each request that StartsAfresh
    requests, mishaps

cycle  == <<mem, current, pc, queued, pending, index, nodeList, todo, result>>
cluster == <<jobs, jobView, labelled, collected>>
vars == <<cr, cache, cycle, cluster, requests, mishaps>>

PC == {"idle", "removeFinishedActionStatuses", "CollectDB", "CollectConfigMaps",
       "listNodes", "CollectLogs", "waitForJobsToFinish", "DeleteJobs",
       "removeAction", "updateStatus", "manage"}
Results == {"success", "successRequeue", "error", "errorRequeue"}

TypeOK ==
    /\ cr \in ResourceType /\ cache \in ResourceType /\ mem \in ResourceType
    /\ current \in BOOLEAN /\ pc \in PC /\ queued \in BOOLEAN
    /\ pending \in Seq(1..MaxRequests) /\ index \in 1..(MaxRequests + 1)
    /\ nodeList \subseteq Nodes /\ todo \subseteq Job /\ result \in Results
    /\ jobs \in [Job -> JobState] /\ jobView \in [Job -> JobState]
    /\ labelled \subseteq Nodes
    /\ DOMAIN collected \subseteq 1..MaxRequests
    /\ collected \in [DOMAIN collected -> SUBSET Job]
    /\ requests \in 0..MaxRequests /\ mishaps \in 0..MaxMishaps

\* A deployed cluster nobody has asked for anything yet.
Init ==
    /\ cr = Quiet /\ cache = Quiet /\ mem = Quiet /\ current = FALSE
    /\ pc = "idle" /\ queued = FALSE /\ pending = <<>> /\ index = 1
    /\ nodeList = {} /\ todo = {} /\ result = "success"
    /\ jobs = [j \in Job |-> "none"] /\ jobView = [j \in Job |-> "none"]
    /\ labelled \in SUBSET Nodes /\ collected = <<>>
    /\ requests = 0 /\ mishaps = 0

-------------------------------------------------------------------------------
(* Failing calls, and the way a cycle moves on and ends. *)

Mishap == mishaps < MaxMishaps /\ mishaps' = mishaps + 1
NoFault == UNCHANGED mishaps
Fault == Mishap

NoCycle == /\ pc' = "idle" /\ mem' = Quiet /\ current' = FALSE
           /\ pending' = <<>> /\ index' = 1
           /\ nodeList' = {} /\ todo' = {} /\ result' = "success"

EndCycle(requeue) == NoCycle /\ queued' = (queued \/ requeue)

End(where, how) == pc' = where /\ result' = how
Continue(where) == End(where, result)

Restart == NoCycle /\ cache' = cr /\ jobView' = jobs /\ queued' = TRUE

\* Status of the copy with the task recorded as started, or as finished.
Finished(t) == t \in mem.status.finished
Start     == mem' = [mem EXCEPT !.status.tracked = TRUE]
Finish(t) == mem' = [mem EXCEPT !.status.tracked = TRUE,
                                !.status.finished = @ \cup {t}]

-------------------------------------------------------------------------------
(* Reconcile, from the fetch to handleActions; the components are settled.   *)

ReconcileFetch ==
    /\ pc = "idle" /\ queued
    /\ queued' = FALSE
    /\ mem' = cache /\ current' = (cache = cr)
    /\ Continue("removeFinishedActionStatuses")
    /\ UNCHANGED <<cr, cache, pending, index, nodeList, todo, cluster, requests, mishaps>>

\* No entry of the list has the name under which tasks are recorded.
removeFinishedActionStatuses ==
    /\ pc = "removeFinishedActionStatuses"
    /\ mem.status.tracked /\ mem.actions = <<>>
    /\ mem' = [mem EXCEPT !.status.tracked = FALSE, !.status.finished = {}]
    /\ End("updateStatus", "successRequeue")
    /\ UNCHANGED <<cr, cache, current, queued, pending, index, nodeList, todo,
                   cluster, requests, mishaps>>

\* Variant of handleActions: it comes before removeFinishedActionStatuses.
handleActionsFirst ==
    /\ pc = "removeFinishedActionStatuses"
    /\ \/ /\ mem.actions # <<>>
          /\ pending' = mem.actions
          /\ Continue("CollectDB")
       \/ /\ mem.actions = <<>>
          /\ End("manage", "success")
          /\ UNCHANGED pending
    /\ UNCHANGED <<cr, cache, mem, current, queued, index, nodeList, todo,
                   cluster, requests, mishaps>>

handleActions ==
    /\ pc = "removeFinishedActionStatuses"
    /\ \/ /\ mem.actions # <<>>
          /\ pending' = mem.actions
          /\ Continue("CollectDB")
       \/ /\ mem.actions = <<>> /\ ~mem.status.tracked
          /\ End("manage", "success")
          /\ UNCHANGED pending
    /\ UNCHANGED <<cr, cache, mem, current, queued, index, nodeList, todo,
                   cluster, requests, mishaps>>

-------------------------------------------------------------------------------
(* handleCollectLogs *)

TaskFrame == UNCHANGED <<cr, cache, current, queued, pending, index, jobView,
                         labelled, collected, requests>>

\* A job that exists already is as good as created.
Created(js) == [j \in Job |-> IF j \in js /\ jobs[j] = "none" THEN "active"
                                                             ELSE jobs[j]]

\* Variant of Deleted: the job lingers until its pods are gone.
DeletedInForeground(js) == [j \in Job |-> IF j \in js THEN "terminating" ELSE jobs[j]]

Deleted(js) == [j \in Job |-> IF j \in js THEN "none" ELSE jobs[j]]

\* A call that fails may have taken effect; its error is not requeued.
CreateJobs(t, js, next) ==
    /\ pc = t
    /\ \/ Finished(t) /\ Continue(next) /\ NoFault /\ UNCHANGED <<mem, jobs>>
       \/ ~Finished(t) /\ jobs' = Created(js) /\ Finish(t) /\ Continue(next) /\ NoFault
       \/ /\ ~Finished(t) /\ js # {} /\ Fault
          /\ \E some \in SUBSET js : jobs' = Created(some)
          /\ Start /\ End("manage", "error")
    /\ UNCHANGED <<nodeList, todo>> /\ TaskFrame

runCollectDBJob ==
    CreateJobs("CollectDB", {"collect-db"}, "CollectConfigMaps")

runCollectConfigMapsJob ==
    CreateJobs("CollectConfigMaps", {"collect-config-maps"}, "listNodes")

\* The nodes are listed anew in every cycle.
getAllNVMeshClusterNodes ==
    /\ pc = "listNodes"
    /\ \/ /\ NoFault /\ Continue("CollectLogs")
          /\ nodeList' = labelled /\ todo' = ClusterJobs \cup labelled
       \/ Fault /\ End("manage", "error") /\ UNCHANGED <<nodeList, todo>>
    /\ UNCHANGED <<mem, jobs>> /\ TaskFrame

createCollectLogsJobs ==
    CreateJobs("CollectLogs", nodeList, "waitForJobsToFinish")

\* The database job first, then the config maps, then the nodes.
NextToAwait(j) ==
    /\ j \in todo
    /\ j # "collect-db" => "collect-db" \notin todo
    /\ j \in Nodes => "collect-config-maps" \notin todo

\* Variant of waitForJobToFinish: a failed job counts as a finished one.
waitForJobToEnd(j) ==
    /\ pc = "waitForJobsToFinish" /\ ~Finished(pc)
    /\ NextToAwait(j)
    /\ \/ /\ jobView[j] \in {"succeeded", "failed"}
          /\ todo' = todo \ {j} /\ Continue(pc)
       \/ jobView[j] = "active" /\ End("updateStatus", "successRequeue") /\ UNCHANGED todo
       \/ jobView[j] = "none" /\ End("manage", "error") /\ UNCHANGED todo
    /\ Start /\ NoFault
    /\ UNCHANGED <<nodeList, jobs>> /\ TaskFrame

\* Variant of waitForJobToFinish: an error ends the cycle as a success.
waitForJobQuietly(j) ==
    /\ pc = "waitForJobsToFinish" /\ ~Finished(pc)
    /\ NextToAwait(j)
    /\ \/ jobView[j] = "succeeded" /\ todo' = todo \ {j} /\ Continue(pc)
       \/ jobView[j] = "active" /\ End("updateStatus", "successRequeue") /\ UNCHANGED todo
       \/ jobView[j] \in {"none", "failed"} /\ End("manage", "success") /\ UNCHANGED todo
    /\ Start /\ NoFault
    /\ UNCHANGED <<nodeList, jobs>> /\ TaskFrame

\* The job is read from the cache.  An active one is asked for again; an error
\* ends the cycle, and only for a node's job is RequeueAfter set in its result.
waitForJobToFinish(j) ==
    /\ pc = "waitForJobsToFinish" /\ ~Finished(pc)
    /\ NextToAwait(j)
    /\ \/ /\ jobView[j] = "succeeded" /\ NoFault
          /\ todo' = todo \ {j} /\ Continue(pc)
       \/ /\ jobView[j] = "active" /\ NoFault
          /\ End("updateStatus", "successRequeue") /\ UNCHANGED todo
       \/ /\ IF jobView[j] \in {"none", "failed"} THEN NoFault ELSE Fault
          /\ End("manage", IF j \in Nodes THEN "errorRequeue" ELSE "error")
          /\ UNCHANGED todo
    /\ Start
    /\ UNCHANGED <<nodeList, jobs>> /\ TaskFrame

AllJobsFinished ==
    /\ pc = "waitForJobsToFinish"
    /\ todo = {} \/ Finished(pc)
    /\ Finish(pc) /\ Continue("DeleteJobs") /\ NoFault
    /\ UNCHANGED <<nodeList, todo, jobs>> /\ TaskFrame

deleteCollectLogJobs ==
    /\ pc = "DeleteJobs"
    /\ \/ Finished(pc) /\ Continue("removeAction") /\ NoFault /\ UNCHANGED <<mem, jobs>>
       \/ /\ ~Finished(pc) /\ NoFault
          /\ jobs' = Deleted(ClusterJobs \cup nodeList)
          /\ Finish(pc) /\ Continue("removeAction")
       \/ /\ ~Finished(pc) /\ Fault
          /\ \E some \in SUBSET (ClusterJobs \cup nodeList) : jobs' = Deleted(some)
          /\ Start /\ End("updateStatus", "errorRequeue")
    /\ UNCHANGED <<nodeList, todo>> /\ TaskFrame

-------------------------------------------------------------------------------
(* The end of an action in handleActions *)

\* The loop goes on with the next entry of the list it started from.
NextAction ==
    IF index < Len(pending)
    THEN index' = index + 1 /\ Continue("CollectDB")
    ELSE index' = index /\ End("manage", "success")

Completed == [actions |-> RemoveAt(mem.actions, index),
              status  |-> [mem.status EXCEPT !.tracked = TRUE,
                              !.finished = @ \cup {"ActionComplete"}]]

RemoveFrame == UNCHANGED <<cache, queued, pending, nodeList, todo, cluster, requests>>

\* Variant of removeAction: the update is not checked against the version read.
removeActionUnlocked ==
    /\ pc = "removeAction" /\ index <= Len(mem.actions) /\ NoFault
    /\ cr' = [cr EXCEPT !.actions = Completed.actions] /\ current' = TRUE
    /\ mem' = [Completed EXCEPT !.status = IF cr.status.tracked THEN cr.status ELSE @]
    /\ NextAction /\ RemoveFrame

\* The update is refused when the copy is stale, and a refusal is only
\* printed.  The answer of the API server replaces the copy, and with it the
\* recorded tasks when it has any.
removeAction ==
    /\ pc = "removeAction" /\ index <= Len(mem.actions)
    /\ \/ /\ current /\ NoFault
          /\ cr' = [cr EXCEPT !.actions = Completed.actions]
          /\ mem' = [Completed EXCEPT !.status =
                        IF cr.status.tracked THEN cr.status ELSE @]
       \/ /\ IF current THEN Fault ELSE NoFault
          /\ mem' = Completed /\ UNCHANGED cr
    /\ UNCHANGED current
    /\ NextAction /\ RemoveFrame

\* The list has become shorter since the loop began: the index is out of
\* range, and the process dies.
removeActionPanics ==
    /\ pc = "removeAction" /\ index > Len(mem.actions)
    /\ Restart
    /\ UNCHANGED <<cr, jobs, labelled, collected, requests, mishaps>>

-------------------------------------------------------------------------------
(* UpdateStatus retries a refused write with the cached copy.                *)

Writable == current \/ cache = cr

WriteStatus(ready) ==
    /\ Writable /\ NoFault
    /\ cr' = [cr EXCEPT !.status = [mem.status EXCEPT !.ready = ready]]

WriteFails ==
    /\ IF Writable THEN Fault ELSE NoFault
    /\ UNCHANGED cr

\* The caller ignores a failure.
UpdateStatus ==
    /\ pc = "updateStatus"
    /\ \/ WriteStatus(mem.status.ready) /\ current' = TRUE
       \/ WriteFails /\ UNCHANGED current
    /\ Continue("manage")
    /\ UNCHANGED <<cache, mem, queued, pending, index, nodeList, todo, cluster, requests>>

\* ManageSuccess and ManageError: a status that was not written is retried.
ManageResult ==
    /\ pc = "manage"
    /\ \/ /\ WriteStatus(result \in {"success", "successRequeue"})
          /\ EndCycle(result \in {"successRequeue", "errorRequeue"})
       \/ WriteFails /\ EndCycle(TRUE)
    /\ UNCHANGED <<cache, cluster, requests>>

Reconcile ==
    \/ ReconcileFetch \/ removeFinishedActionStatuses \/ handleActions
    \/ runCollectDBJob \/ runCollectConfigMapsJob
    \/ getAllNVMeshClusterNodes \/ createCollectLogsJobs
    \/ \E j \in Job : waitForJobToFinish(j)
    \/ AllJobsFinished \/ deleteCollectLogJobs
    \/ removeAction \/ removeActionPanics
    \/ UpdateStatus \/ ManageResult

-------------------------------------------------------------------------------
(* Informers, the job controller, users, and a crash *)

\* Update events pass the predicate only when the spec changed.
CacheSync ==
    /\ cache # cr
    /\ cache' = cr
    /\ queued' = (queued \/ cache.actions # cr.actions)
    /\ UNCHANGED <<cr, mem, current, pc, pending, index, nodeList, todo, result,
                   cluster, requests, mishaps>>

OwnedObjectEvent ==
    /\ Mishap
    /\ ~queued /\ queued' = TRUE
    /\ UNCHANGED <<cr, cache, mem, current, pc, pending, index, nodeList, todo,
                   result, cluster, requests>>

JobViewSync(j) ==
    /\ jobView[j] # jobs[j]
    /\ jobView' = [jobView EXCEPT ![j] = jobs[j]]
    /\ UNCHANGED <<cr, cache, cycle, jobs, labelled, collected, requests, mishaps>>

JobSucceeds(j) ==
    /\ jobs[j] = "active"
    /\ jobs' = [jobs EXCEPT ![j] = "succeeded"]
    /\ collected' = [i \in DOMAIN collected |-> collected[i] \cup {j}]
    /\ UNCHANGED <<cr, cache, cycle, jobView, labelled, requests, mishaps>>

JobFails(j) ==
    /\ Mishap /\ jobs[j] = "active"
    /\ jobs' = [jobs EXCEPT ![j] = "failed"]
    /\ UNCHANGED <<cr, cache, cycle, jobView, labelled, collected, requests>>

LabelNode(n) ==
    /\ Mishap
    /\ labelled' = IF n \in labelled THEN labelled \ {n} ELSE labelled \cup {n}
    /\ UNCHANGED <<cr, cache, cycle, jobs, jobView, collected, requests>>

EditFrame == UNCHANGED <<cache, mem, pc, queued, pending, index, nodeList, todo,
                         result, jobs, jobView, labelled>>

\* A request made now meets nothing an earlier one has achieved: no loop of
\* handleActions runs, no copy of the status records the wait, and no success
\* of a job is stored or cached.
StartsAfresh ==
    /\ pending = <<>>
    /\ \A c \in {cr, cache, mem} : "waitForJobsToFinish" \notin c.status.finished
    /\ \A j \in Job : "succeeded" \notin {jobs[j], jobView[j]}

RequestAction ==
    /\ requests < MaxRequests /\ requests' = requests + 1
    /\ cr' = [cr EXCEPT !.actions = Append(@, requests + 1)]
    /\ current' = FALSE
    /\ collected' = IF StartsAfresh
                    THEN [i \in DOMAIN collected \cup {requests + 1} |->
                             IF i = requests + 1 THEN {} ELSE collected[i]]
                    ELSE collected
    /\ UNCHANGED mishaps /\ EditFrame

CancelAction ==
    /\ Mishap
    /\ \E i \in 1..Len(cr.actions) : cr' = [cr EXCEPT !.actions = RemoveAt(@, i)]
    /\ current' = FALSE
    /\ UNCHANGED <<requests, collected>> /\ EditFrame

Crash ==
    /\ Mishap
    /\ Restart
    /\ UNCHANGED <<cr, jobs, labelled, collected, requests>>

Environment ==
    \/ CacheSync \/ OwnedObjectEvent
    \/ \E j \in Job : JobViewSync(j) \/ JobSucceeds(j) \/ JobFails(j)
    \/ \E n \in Nodes : LabelNode(n)
    \/ RequestAction \/ CancelAction \/ Crash

Next == Reconcile \/ Environment

Spec == Init /\ [][Next]_vars

FairSpec ==
    /\ Spec
    /\ WF_vars(Reconcile) /\ WF_vars(CacheSync)
    /\ \A j \in Job : WF_vars(JobViewSync(j)) /\ WF_vars(JobSucceeds(j))

-------------------------------------------------------------------------------
(* Properties *)

\* handleCollectLogs ends its wait only when the database, the config maps and
\* every node it listed have been collected since every request that started
\* afresh, the last of them included, however stale the cached jobs are.
WaitedMeansCollected ==
    [][pc = "waitForJobsToFinish" /\ ~Finished(pc) /\ pc' = "DeleteJobs"
       => \A i \in DOMAIN collected : ClusterJobs \cup nodeList \subseteq collected[i]]_vars

\* The recorded tasks outlive cycles, crashes and even their entry: one that
\* started afresh leaves the list through handleActions only when the database
\* and the config maps were collected after it was requested.  One that did not
\* may take over what an earlier request has achieved, because tasks and jobs
\* carry the name of the action: it can leave with nothing collected for it.
RemovedMeansCollected ==
    [][pc = "removeAction" /\ pc' # pc
       => \A i \in (ToSet(cr.actions) \ ToSet(cr'.actions)) \cap DOMAIN collected :
             ClusterJobs \subseteq collected[i]]_vars

\* removeFinishedActionStatuses catches up with every removal, refused writes
\* and crashes included: an operator at rest over an empty list has no task
\* recorded that the next request could take over.
TasksAreForgotten ==
    pc = "idle" /\ ~queued /\ cache = cr /\ cr.actions = <<>>
       => cr.status.finished = {}

\* The update that removes a finished entry never takes away one the user
\* added after the cycle had read the list.
NewRequestsSurvive ==
    [][pc = "removeAction" /\ pc' # pc
       => ToSet(cr.actions) \ ToSet(cr'.actions) \subseteq ToSet(pending)]_vars

\* An entry still listed when the operator has come to rest is explained by
\* the status: it is not Ready, or all tasks of the action are done.
PendingIsExplained ==
    pc = "idle" /\ ~queued /\ cache = cr /\ cr.actions # <<>>
       => ~cr.status.ready \/ "ActionComplete" \in cr.status.finished

\* "A List of NVMesh cluster actions to perform (i.e collect-logs)": every
\* entry of the list is eventually dealt with and leaves it.
ListedActionsArePerformed ==
    \A i \in 1..MaxRequests : i \in ToSet(cr.actions) ~> i \notin ToSet(cr.actions)
================================================================================
