------------------------------- MODULE NodeLabels -------------------------------
(***************************************************************************)
(* The listener on node labels: when a node loses its last NVMesh label a  *)
(* goroutine is to uninstall NVMesh from it with a Job, wait for the Job   *)
(* and delete it.  The resource the goroutine makes up has no namespace,   *)
(* so its Job is never created, while it waits for one in "default".  A    *)
(* cluster that lives in "default" gives its own uninstall Jobs the same   *)
(* names.                                                                  *)
(***************************************************************************)
EXTENDS Naturals

CONSTANTS
    Nodes,              \* the Kubernetes nodes
    ClusterInDefault,   \* does the NVMesh resource live in "default"?
    MaxLabelOps         \* how often labels change in a run

Label == {"client", "target"}

VARIABLES
    labels,    \* the NVMesh labels of each node
    seen,      \* the same in the store of the listener's informer
    dirty,     \* nodes with NVMesh files on the host
    starting,  \* goroutines about to create their job, per node
    waiting,   \* goroutines waiting for their job, per node
    deleting,  \* goroutines about to delete their job, per node
    jobs,      \* the uninstall jobs in namespace "default": none, active
               \* or succeeded
    jobView,   \* the cached copy of them
    labelOps

routines == <<starting, waiting, deleting>>
vars == <<labels, seen, dirty, routines, jobs, jobView, labelOps>>

\* A deployed cluster: NVMesh is on the nodes that have a label.
Init ==
    /\ labels \in [Nodes -> SUBSET Label] /\ seen = labels
    /\ dirty = {n \in Nodes : labels[n] # {}}
    /\ starting = [n \in Nodes |-> 0] /\ waiting = [n \in Nodes |-> 0]
    /\ deleting = [n \in Nodes |-> 0]
    /\ jobs = [n \in Nodes |-> "none"] /\ jobView = [n \in Nodes |-> "none"]
    /\ labelOps = 0

-------------------------------------------------------------------------------
(* The listener *)

LastLabelRemoved(old, new) == new = {} /\ old # {}

\* The informer reports an update with the old and the new node.
onNodeUpdate(n) ==
    /\ seen[n] # labels[n]
    /\ seen' = [seen EXCEPT ![n] = labels[n]]
    /\ starting' = IF LastLabelRemoved(seen[n], labels[n])
                   THEN [starting EXCEPT ![n] = @ + 1] ELSE starting
    /\ UNCHANGED <<labels, dirty, waiting, deleting, jobs, jobView, labelOps>>

\* uninstallNode of a resource without a namespace: the client refuses to
\* create the job, which is printed.
uninstallNode(n) ==
    /\ starting[n] > 0
    /\ starting' = [starting EXCEPT ![n] = @ - 1]
    /\ waiting' = [waiting EXCEPT ![n] = @ + 1]
    /\ UNCHANGED <<labels, seen, dirty, deleting, jobs, jobView, labelOps>>

\* The loop ends with a finished job; on any other answer it sleeps and asks
\* again, which changes nothing.
waitForJobToFinish(n) ==
    /\ waiting[n] > 0 /\ jobView[n] = "succeeded"
    /\ waiting' = [waiting EXCEPT ![n] = @ - 1]
    /\ deleting' = [deleting EXCEPT ![n] = @ + 1]
    /\ UNCHANGED <<labels, seen, dirty, starting, jobs, jobView, labelOps>>

deleteJob(n) ==
    /\ deleting[n] > 0
    /\ deleting' = [deleting EXCEPT ![n] = @ - 1]
    /\ jobs' = [jobs EXCEPT ![n] = "none"]
    /\ UNCHANGED <<labels, seen, dirty, starting, waiting, jobView, labelOps>>

-------------------------------------------------------------------------------
(* Nodes, jobs and their caches *)

\* A node that gets its first label also gets the pods that install NVMesh.
ChangeLabels(n) ==
    /\ labelOps < MaxLabelOps /\ labelOps' = labelOps + 1
    /\ \E new \in SUBSET Label \ {labels[n]} :
          /\ labels' = [labels EXCEPT ![n] = new]
          /\ dirty' = IF new = {} THEN dirty ELSE dirty \cup {n}
    /\ UNCHANGED <<seen, routines, jobs, jobView>>

\* uninstallClusterNodes of a cluster that is being deleted.
ClusterUninstallsNode(n) ==
    /\ ClusterInDefault /\ jobs[n] = "none" /\ labels[n] # {}
    /\ jobs' = [jobs EXCEPT ![n] = "active"]
    /\ UNCHANGED <<labels, seen, dirty, routines, jobView, labelOps>>

JobSucceeds(n) ==
    /\ jobs[n] = "active"
    /\ jobs' = [jobs EXCEPT ![n] = "succeeded"]
    /\ dirty' = dirty \ {n}
    /\ UNCHANGED <<labels, seen, routines, jobView, labelOps>>

JobViewSync(n) ==
    /\ jobView[n] # jobs[n]
    /\ jobView' = [jobView EXCEPT ![n] = jobs[n]]
    /\ UNCHANGED <<labels, seen, dirty, routines, jobs, labelOps>>

uninstallAndWaitToFinish(n) ==
    uninstallNode(n) \/ waitForJobToFinish(n) \/ deleteJob(n)

Next == \E n \in Nodes :
    \/ onNodeUpdate(n) \/ uninstallAndWaitToFinish(n)
    \/ ChangeLabels(n) \/ ClusterUninstallsNode(n)
    \/ JobSucceeds(n) \/ JobViewSync(n)

Spec == Init /\ [][Next]_vars

\* The informers deliver, goroutines are scheduled and jobs finish.
FairSpec ==
    /\ Spec
    /\ \A n \in Nodes : /\ WF_vars(onNodeUpdate(n)) /\ WF_vars(JobViewSync(n))
                        /\ WF_vars(uninstallAndWaitToFinish(n))
                        /\ WF_vars(JobSucceeds(n))

-------------------------------------------------------------------------------
(* Properties *)

\* "Listens to node events and runs uninstall if necessary": a node without
\* labels that still has NVMesh on it is eventually uninstalled, unless it is
\* given a label again.
UnlabelledNodesAreUninstalled ==
    \A n \in Nodes : (labels[n] = {} /\ n \in dirty)
                        ~> (n \notin dirty \/ labels[n] # {})
================================================================================
