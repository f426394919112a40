# TLA+ specification of the NVMesh operator

The NVMesh operator is a Kubernetes controller. It watches one kind of custom
resource, `NVMesh`, deploys the NVMesh components the resource asks for
(management with MongoDB, core, CSI driver), and, when the resource is deleted,
uninstalls NVMesh from the cluster and its nodes before it lets the resource
go. This directory models that life of a resource: creation, deployment,
edits, deletion in eight stages, release of the finalizer, and what deletion
promises seen from outside. Beside it stand the objects of core and CSI with
their informers, the management component with its database, the actions a user
requests (collect-logs) and the listener on node labels.

## The system

| Part (under `src/pkg/controllers` unless named) | State it keeps | Operations | Hard because |
|---|---|---|---|
| reconcile loop, `nvmesh_controller.go` | work queue, in-memory copy of the resource | `Reconcile`, `reconcileAllcomponents`, event predicate | reads a lagging cache; results and errors are dropped on some paths |
| finalizer, `finalizer.go` | our finalizer on the resource | `handleFinalizer`, `isAllowedToDeleteCluster`, add / remove | optimistic locking against users and other controllers |
| uninstall, `uninstall.go` | finished stages in `status.actionsStatus` | eight stages, resumed from the stored status | crash between stages, lost status write, stale Job cache |
| status updater, `status_updater.go` | conditions and status | `ManageSuccess`, `ManageError`, `UpdateStatus` | retry overwrites newer status with older |
| jobs, `jobs.go` | Jobs of the cluster | wait, delete | a Job is read from the cache just after it was created |
| actions, `nvmesh_actions.go`, `collect_logs.go` | actions in the spec, their progress | `handleActions`, `handleCollectLogs`, `removeFinishedActionStatuses` | list changed while it is ranged over; errors not retried |
| node listener, `node_labels.go` | one goroutine per unlabelled node | `onNodeUpdate`, `uninstallAndWaitToFinish` | runs beside the reconcile loop |
| objects, `ctrl_utils.go` | objects of the cluster, informers | `makeSureObjectExists`, `makeSureObjectRemoved`, one file after the other | unconditional writes from a stale copy; one of several fails |
| core and CSI, `core_controller.go`, `csi_controller.go` | config map, daemon sets, StatefulSet | `InitObject`, `ShouldUpdateObject`, merge of `nvmesh.conf` | users write into the same map; only some fields are compared |
| management, `mgmt_controller.go`, `pkg/mongoclient` | MongoDB, its settings, config map, StatefulSet, restarts | `Reconcile`, `handleDBManipulations`, `runMgmtInitDBJob`, `restartStatefulSet` | many cycles until the database answers; restart lost after the setting was stored |
| helpers, `pkg/conditions`, `pkg/yamlutils`, `pkg/reflectutils` | none | pure or I/O | |

The controller runs one worker, so cycles of the reconcile loop never overlap.
What overlaps with a cycle is everything else: users who edit and delete, other
controllers that hold a finalizer, kubelets that start and stop pods, the Job
controller, the informers behind the cached client, and the death of the
operator's own pod. The parts of the operator talk to each other through the
resource (spec, finalizers, status) and through the objects and Jobs of the
cluster; nothing is kept in memory between two cycles.

What makes each part right:

* reconcile loop: at rest the cluster is what the spec asks for; a deletion is
  never dropped;
* finalizer: no workload for a resource that could vanish without uninstall,
  unless its deletion was requested before our finalizer was there (see below);
* uninstall: what the status calls finished is true when it is read again; the
  database outlives its users; no node is passed over;
* all of them together: a requested deletion ends, unless a node job failed or the
  spec stays invalid, and the finalizer goes only over a cluster that is down or on
  the user's word;
* objects: whatever was done from stale copies is made good, and that ends;
* core: `nvmesh.conf` settles and keeps what users added;
* management: no server on an empty database; at rest database, configuration,
  service and StatefulSet are as asked; what was stored reaches the running server;
* actions: an entry leaves the list only when it was carried out, if it met nothing
  of an earlier request when it was made; what was done for entries that have left
  is forgotten; no entry is lost, and one that is left behind is explained by the
  status;
* node listener: a node that loses its last label is uninstalled.

## Modules

| Module | Contents |
|---|---|
| `Cluster` | state, types, `Init`; the informers, Kubernetes, users, crash |
| `Uninstall` | `finalizer.go` and `uninstall.go`, one action per handler or stage |
| `Operator` | `Reconcile`, the components, the status; specification, fairness, properties |
| `Deletion` | abstract specification: what the operator promises about the life of a resource |
| `OperatorRefinement` | the mapping under which `Operator` implements `Deletion` |
| `CoreConfig` | the core configuration map: `nvmesh.conf` as text and dictionary, the merge, the comparison |
| `ObjectSync` | the objects of core and CSI, file by file, each with its own informer |
| `Management` | MongoDB, the init-DB job, settings, configuration map, GUI service, StatefulSet, restarts |
| `CollectLogs` | the action list and collect-logs: `handleActions`, its tasks, the removal of an entry |
| `NodeLabels` | the listener on node labels and its goroutines |
| `OperatorInvariant` | the inductive invariant `IInv`, as named parts, and `Converging` |
| `OperatorProofs` | TLAPS: type correctness |
| `OperatorSafetyProofs` | TLAPS: the inductive invariant and the safety theorems |
| `DeletionProofs` | TLAPS: `Operator` implements `Deletion` |
| `ConvergenceProofs` | TLAPS: at rest the cluster is what the spec asks for |
| `ObjectSyncProofs` | TLAPS: the merge settles, the objects converge, an update of the map is final and keeps what users added |
| `ManagementProofs` | TLAPS: order of initialisation and the state at rest |
| `NodesProofs` | TLAPS: no node is passed over by the uninstall |
| `CollectLogsProofs` | TLAPS: nothing is taken for collected that was not, no request is lost, what is left is explained |
| `MCOperator`, `MCObjectSync`, `MCManagement` | instances for TLC |

`Operator` is the composition: it extends `Uninstall`, which extends `Cluster`.
It knows a component as a set of objects that is there or not. `ObjectSync` and
`Management` open two of those components up; they keep of the reconcile loop
only that a cycle starts when the key is queued, and in what order it goes on.

### State and actions

`cr` is the resource at the API server, `cache` the informer's copy, `mem` the
copy the running cycle works on and `current` whether `mem` still has the API
server's resource version. A write with a copy that is not current is refused.
`pc` says where the cycle is; each value is a call of `Reconcile` that is about
to happen. One action is one handler or one uninstall stage, with every write
it makes; the environment may act between two of them. The node stage is two
actions (create the jobs; wait for them and delete them), because what the
informer shows of the jobs changes in between.

Status is reduced to what control depends on: the set of finished stages,
whether the uninstall action has an entry at all, and the conditions Ready and
Uninstalling. The spec is reduced to the disabled components and the four
options deletion depends on. Workload objects are counted per component.

Failing calls are actions' own alternatives, guarded by `Fault(kind)`: a kind of
call may fail when the run lists it in `Faulty`, at most `MaxFaults` times.

`Deletion` has five variables. `OperatorRefinement` reads `phase` off the API
server's copy of the resource and the others off the cluster; caches, stages and
cycles are hidden. Its `Release` is the heart: from `draining` the finalizer goes
only when no workload, no pod of core or CSI and no MongoDB is left, or
skipUninstall is set. `Manage` keeps everything away from a resource in phase
`open`, which has neither our finalizer nor a deletion request. It does not keep
it away from phase `released`, because the code does not: a resource that only
others hold may be deployed, and phase `open` leads there when such a resource is
deleted before our finalizer was added.

`ObjectSync` goes through `Files`, the objects in the order of their manifests,
core before CSI; `pos` is the file the cycle has come to. `objs` is what the API
server holds, `view` what the informer of each object shows, `pending` the
objects with an event on its way that `GenerationChangedPredicate` lets pass:
creation and deletion of anything, and updates of workloads, but no update of a
ConfigMap, which has no generation. Writes carry no resource version. An error
(an update or a deletion of something that is gone) skips the rest of its
component and is dropped. The body of an object is what the operator fills in or
compares: images and version as one value, replicas, the volumes TCPOnly adds,
and for the core map the text of `nvmesh.conf` as a sequence of lines. The spec
is read once per cycle, so an edit during a cycle and a cached resource that
lags are the same.

`Management` has one action per call of `Reconcile` that reads or writes the
cluster. `doc` is the settings document in MongoDB, which outlives its objects
in a claim. `ss.stamp` is the restart annotation of the pod template: a restart
sets a new one, and an update of the StatefulSet writes a template without it.
`pods` remembers what the running server was started with. A restart reads the
StatefulSet from the cache and is refused when that copy is old (`ssCurrent`).

`CollectLogs` has the same three copies of the resource, reduced to the list of
actions and the recorded tasks. `pending` and `index` are the loop of
`handleActions`, which ranges over the list it started from while `removeAction`
shortens the list of the copy; `todo` is what the wait has not yet found
finished, read job by job from `jobView`. `result` is how the cycle will end:
an error of a cluster job does not queue the resource again, one of a node job
does, because only there `RequeueAfter` is set. An index out of range is a panic,
and a panic restarts the operator. One bound, `MaxMishaps`, counts failing calls,
crashes, failing jobs, label changes, cancelled requests and events of owned
objects together. `collected` is a history kept per request: the jobs that have
succeeded since it was made. Only requests that start afresh (`StartsAfresh`) are
in its domain: those made when no loop of `handleActions` was running, no copy of
the status had the wait recorded and no finished Job was stored or cached. The code
cannot tell the others from the request whose tasks and Jobs they find.

`NodeLabels` counts the goroutines per node that are about to create their job,
wait for it or delete it. The made-up resource they use has no namespace, so the
creation is refused; a job they find in namespace `default` is one of a cluster
that lives there.

### What is assumed

* One life of one resource: it is not created again under the same name.
* In `Operator` the caches of the resource and of Jobs lag; reads of workload
  objects, pods, nodes and volumes are current (`ObjectSync` has the workload
  objects). An informer catches up to the latest state in one step.
* In `ObjectSync` and `Management` the resource is valid and not deleted, and a
  call on an object fails only because the object is gone: other errors are
  dropped by the code, which is what `errors` below shows. In `Management` the
  configuration map, the GUI service and the MongoDB objects are read as they are;
  the StatefulSet is read through its informer.
* An edit of a workload by hand changes its image; a field the operator neither
  compares nor writes makes no difference to it.
* Equality of contents stands for equality of resource versions.
* In `Operator` the resource requests no actions, and in `CollectLogs` it is not
  deleted and its components are settled. `Operator` uses the bundled MongoDB;
  the defaults put into empty spec fields are left out.
* Every entry of the action list is named collect-logs; the schema of the
  resource admits no other name.
* A handler meets at most one failing call, where a second one would not lead
  to another end.
* A Job pod that fails makes its Job failed, as `isSingleJobCompleted` reads it.
* Left out because they only start another cycle, or fewer of them: the error of the
  first `Get` other than NotFound, and the events of owned objects other than
  workloads. In `Management` a spec without a version and an ignored error of the
  configuration map's update are left out.

## Runs

Deadlock is not checked: the operator may rest, with or without a resource.

| Run | Instance | Shows |
|---|---|---|
| `teardown` | 2 interchangeable nodes, job failures, label changes | `NodesUninstalled`, `OrderlyTeardown` |
| `recovery` | 1 node, with and without skipUninstall, every kind of failing call once, one crash | `TypeOK`, `StatusTruthful`, `IInv`, `ImplementsDeletion` |
| `edits` | no nodes, deletion, specs that are plain, invalid, or lift all blocks, foreign finalizer, volumes that come and go | `FinalizerBeforeWorkloads`, `DeletionNeverForgotten`, `QuiescentConverged`, `ImplementsDeletion` |
| `liveness` | 1 node, a valid and an invalid spec that deploy CSI, edits, a failing job, volumes, foreign finalizer, fairness | `DeletionCompletes` |
| `actions` | `CollectLogs`: 1 node, two requests, one mishap of any kind | `TypeOK`, `PendingIsExplained`, `TasksAreForgotten`, `WaitedMeansCollected`, `RemovedMeansCollected`, `NewRequestsSurvive` |
| `objects` | `ObjectSync`: config map, daemon set, node driver, controller; three specs, two things users do, one crash, fairness | `ConvergedAtRest`, `EventuallyConverged`, `UpdateIsFinal`, `UserParametersKept` |
| `management` | `Management`: four specs (one disabled), three edits, one failing call, one crash, fairness | `InitialisedFirst`, `SettledAtRest`, `ManagementComesUp` |

Why the bounds are enough: two nodes are needed for a stage that is done on one
node and not on the other, and a third behaves like one of them. One deletion is
all a life has. Two or three environment steps let an edit, a label or a volume
change fall before and after the deletion. One failing call and one crash reach
every order of a failure, a restart and the resumed stages; two failing calls
were checked without a crash as well. In `liveness` the deletion comes with one
of: a failing job, volumes, an edit into or out of the invalid spec. A status write
is lost there when an edit or the other controller comes between; management is
disabled, so the clear-DB job has no database and can only fail. In `actions` two requests are what it takes
to change the list under the loop and to meet the recorded tasks of another
entry, or to start afresh after one; one mishap falls into every step of either. In `objects` each component
has a file that can fail and one after it that is skipped then, and two user
operations are a deletion and an edit of the same or of another object, or an
edit of the spec that is taken back. In `management` three edits lead through a
spec, another one and back while MongoDB, the job and the pods lag behind.

`errors` is why the other runs of `MCOperator` look at rest without the failing
call `"components"`: an error of a component is dropped by the code.

Runs that show a disagreement between the code and what is written about it:

| Run | Claim | What the code does |
|---|---|---|
| `errors` | `ErrorsAreRequeued` | a component error ends the cycle as a success, with Ready True |
| `performed` | `ListedActionsArePerformed` | a job the cache does not show yet ends collect-logs for good |
| `listener` | `UnlabelledNodesAreUninstalled` | the listener's Job is never created and its goroutine polls for ever |
| `restart` | `RestartsTakeEffect` | a restart that meets a lagging cache is dropped, one followed by a change of the replicas is undone; the server keeps the old settings |
| `external` | `ExternalMongoServes` | with an external MongoDB the operator waits for the bundled one, which it removed |

Met while modelling, without a run of their own:

* a resource that is deleted while another controller's finalizer holds it and
  ours was never added, or was released, is deployed nevertheless: at
  `finalizer.go:51` the comment says "Stop reconciliation as the item is being
  deleted", but `handleFinalizer` returns DoNotRequeue without an error and
  `Reconcile` goes on to the components. `ImplementsDeletion` holds in `edits`, where
  this happens, because `Deletion` does not promise otherwise;
* a node uninstall Job that has failed stops the deletion for good: the next cycle
  takes AlreadyExists for created (`uninstall.go:379`), the wait reports the failure
  again, and nothing replaces the Job. Deleting it by hand, or unlabelling the node,
  helps;
* `isValid` comes before `handleFinalizer` (`nvmesh_controller.go:95`), so a resource
  whose spec is invalid is not released, however long ago its deletion was requested;
* a request for logs may leave the list with nothing collected for it. Tasks and Jobs
  carry the name of the action, not of the entry. One way: the second request arrives
  while the cycle of the first is finishing; the removal is refused, and the status
  stored has all tasks finished; a later cycle removes the first entry, goes on to the
  second at an index that is out of range, and panics; the restarted operator finds
  the tasks finished and removes the second entry. Others: a finished Job that is left
  behind by a cancelled entry, or still shown by the cache, ends the wait of the next
  request. `RemovedMeansCollected` and `WaitedMeansCollected` speak of requests that
  start afresh, and TLC refutes both when `StartsAfresh` is weakened to TRUE;
* ignorePersistentVolumesOnDelete is read nowhere;
* a cycle that still finds a deleted resource in the cache runs the stages again
  and leaves uninstall Jobs behind that have no owner;
* parameters of an option that is turned off stay in `nvmesh.conf`, and a
  parameter a user adds while the informer lags is overwritten;
* a failed init-DB job is never replaced, because AlreadyExists counts as created;
* `shouldUpdateConfigMap` compares the configuration twice and configVersion never;
* an update of a ConfigMap starts no cycle, so a spec changed and changed back
  while the informer lags can leave the map of the middle one until the next
  cycle (`ConvergedAtRest` speaks of the existence of the map, not its text);
* external addresses that are taken out of the spec altogether stay in the GUI
  service (`shouldUpdateGuiService` compares only a list that is there);
* volumes are checked at the start of a cycle and the CSI driver is removed later
  in it, so an attachment made in between is not seen;
* the pods of management are not awaited before the database is cleared, and
  disabling management removes MongoDB before its server;
* a claim that cannot be deleted is logged and its stage recorded as finished;
* every uninstalling cycle writes the status twice, and ends with Ready True.

### Fairness

`DeletionCompletes` is checked under `FairSpec`. Weak fairness of the reconcile
loop is the worker of the controller, of `CacheSync` the watch of its informer, of
`KubernetesGoesOn` the kubelets, the Job controller and the informer of Jobs.
`OthersLetGo` (`RemoveForeign`, `ReleaseVolumes`) is fair because deletion waits for
other people there by design. Nobody repairs a failed Job or an invalid spec: those
are the two exceptions in the property, and TLC finds a behaviour without an end for
each when it is left out. Taking the finalizer of the other controller out of
`OthersLetGo` has the same effect.
`PromptCache` says that from some time on a cycle starts with a cache that has
caught up: every requeue of the deletion waits at least a second or a back-off
that doubles, while the lag of a watch does not grow. Without it a cycle could
start every time from the copy that is one write behind, and have its own write
refused, for ever.

`objects`, `management` and `external` assume weak fairness of the worker, of
each informer and, for management, of MongoDB's start, the init-DB job, the
StatefulSet controller and the kubelets. Nothing is assumed of users: their
operations are bounded, and the properties say what holds from some time on. A
failing init-DB job is excepted from `ManagementComesUp`.

`performed` and `listener` are checked under the weaker assumption that the
operator, its informers and the Job controller keep working; goroutines of the
listener are scheduled. Their counterexamples end at rest, with nothing enabled
that could help.

## Proofs

Proved by TLAPS for every set of nodes, specs and kinds of failing calls, for
every bound, and with any number of crashes and environment steps:

| Theorem | Statement |
|---|---|
| `TypeCorrectness` | `Spec => []TypeOK` |
| `InductiveInvariant` | `Spec => []IInv` |
| `ResumeIsSound` | `Spec => []StatusTruthful` |
| `DeletionIsNeverForgotten` | `Spec => []DeletionNeverForgotten` |
| `FinalizerPrecedesWorkloads` | `Spec => []FinalizerBeforeWorkloads` |
| `TeardownIsOrderly` | `Spec => OrderlyTeardown` |
| `OperatorImplementsDeletion` | `Spec => ImplementsDeletion`, that is `D!Spec` under the refinement mapping |
| `RestMeansConverged` | `Spec => []QuiescentConverged`, if `"components"` is not among the failing calls |
| `MergeSettles` | the merged dictionary of `nvmesh.conf` differs no more from the expected one, and has what users added |
| `ObjectsConverge` | `Spec => []ConvergedAtRest` of `ObjectSync`, for any list of files |
| `UpdatesAreFinal` | `Spec => UpdateIsFinal`, if the config map is among the files |
| `UserParametersSurvive` | `Spec => UserParametersKept`, if the config map is among the files |
| `DatabaseComesFirst` | `Spec => []InitialisedFirst` of `Management` |
| `ManagementSettles` | `Spec => []SettledAtRest` of `Management` |
| `NodesAreUninstalled` | `Spec => NodesUninstalled` |
| `LogsTypeCorrectness` | `Spec => []TypeOK` of `CollectLogs` |
| `PendingEntriesAreExplained` | `Spec => []PendingIsExplained` |
| `RecordsAreForgotten` | `Spec => []TasksAreForgotten` |
| `WaitIsSound` | `Spec => WaitedMeansCollected` |
| `RemovalIsSound` | `Spec => RemovedMeansCollected` |
| `RequestsSurvive` | `Spec => NewRequestsSurvive` |

The ones about the operator rest on the assumptions of `Cluster`: the specs are
well typed, there is at least one, and the bounds are numbers. `ObjectSync`
assumes a list of files of which the first `CoreCount` are core's, none of them
also CSI's, and that users add lines with keys in `KnownKeys`, where one key stands
for all those of their own; `Management` that its specs are well typed.

None of the properties is inductive, because each of them speaks of the API
server's copy while the steps act on the others. `IInv` says how the copies hang
together:

* `DeletionOrder`: a deletion is never taken back, so a copy that shows it is
  right about it;
* `RecordedWhenDeleting`: stages are recorded nowhere before everybody who may
  still deploy knows of the deletion. This is why deploying cannot make a
  recorded stage false;
* `Ordered`: every copy of the status is a prefix of the list of stages;
* `FinalizerOrder`: the finalizer is not added after the deletion and not
  removed before it, in no copy;
* `Truthful`: while our finalizer is there, every copy of the status, not just
  the stored one, tells the truth. A retry may store an older copy;
* `Remembered`: a deletion the informer has reported is queued or in a cycle
  that will requeue it.

The proof takes one lemma per group of steps that do the same to the copies:
steps that leave them alone, writes of users, the informer, a crash, the stages,
the two finalizer writes, the components, and the ends of a cycle.

The refinement needs `ReleaseJustified` beside `IInv`: a cycle about to release
the finalizer was told to skip the uninstall or has all eight stages behind it,
and a copy the API server accepts has the options of the resource. With
`Truthful` the first makes the step a `Release` over a clean cluster. Steps of
the stages map to `Manage`, those of the pods to `PodsChange`, and most of the
others to stuttering.

`RestMeansConverged` adds `Converging`: with nothing queued the cycle works on
the generation the informer has, and once it is past the components that
generation is deployed. The hypothesis about component errors is necessary, as
`errors` shows.

`SyncInv` of `ObjectSyncProofs`: the informer is behind only on objects with an
event on its way (`ViewLag`), and if none is and nothing is queued, the objects a
cycle has passed are as the present spec asks (`Passed`). A dropped error does no
harm because it comes from an object that is gone while the informer shows it,
and so from one whose deletion is still to be reported.

`UpdateIsFinal` and `UserParametersKept` compare texts, while the merge works on
dictionaries: `MergeSettles` alone would say nothing of a text with two lines for
one key, or of a key that is lost in writing. `TextOfDict` shows that
`configDictToString` writes exactly one line for each key of the dictionary, and
`ReadBack` that `configStringToDict` then returns that dictionary. It needs the
keys to be known ones, so `MapInv` carries that for the stored map and for the
informer's copy of it, through lines added by hand, replacements and restarts.
`MapChanges` lists what a step can do to the map. The hypothesis that the config
map is among the files only says that the properties speak of an object: without
it, `objs["config"]` has no meaning.

`MgmtInv` of `ManagementProofs` says, for each place of the cycle, what it has
achieved so far (`DatabaseInv`, `ConfigInv`), that an unqueued cycle works with
the present spec, and that the informer of the StatefulSet is behind only with
an event on its way (`LagInv`). The init-DB job runs on an empty database only,
which is why its success cannot overwrite settings.

`NodesInv` of `NodesProofs` adds to the invariants above what concerns the nodes.
A job that succeeded says that its node was clean once; the property needs that
it still is.

* `JobsAreLast`: node jobs exist only when the API server, the informer and the
  running cycle all know of the deletion, and, under our finalizer, when the
  cluster is down: no workload and no core pod is left that could install NVMesh
  again. The loop reaches the stage with the first five behind it, and `Truthful`
  says they are true;
* `SuccessIsTrue`: while a cycle may still wait for them, a success, stored or
  cached, is true of its node.

The hard case is the cycle that starts after the finalizer is gone, from a cache
that still shows it (one of the remarks above). `Truthful` is silent there.
`StaleIsDown` says that the cluster stays down as long as such a copy is about,
which takes three facts: a copy the API server accepts is the informer's
(`FreshCopy`), a copy that knows of no deletion is right about our finalizer
(`FinalizerKept`), and the cycle that released the resource deploys nothing
because `UninstallComplete` disabled every component of its copy
(`ReleasedDeploysNothing`). With skipUninstall set nothing of this holds, and
none of it is needed, because no stage runs. TLC checked the parts on instances
with one node, two specs, edits, label changes, a foreign finalizer, failing
calls and a crash before they were proved.

`LogsInv` of `CollectLogsProofs`:

* `Lists`: every copy of the list names requests that were made, each once. So an
  entry that has left the list never comes back, and removing by index removes
  one entry;
* `Collected`, about the jobs that have succeeded since every request that started
  afresh (`Known`): a success, stored or cached, is one of them; every copy of the
  recorded tasks is honest about the wait; what the wait has struck off its list is
  one of them. The copies are needed because a refused write is retried with another
  one. A request that starts afresh empties `Known`, and meets nothing that these
  facts speak of;
* `LoopLists`: a copy the API server would accept has no entry less than the
  stored list, but for those of the list the loop ranges over. This is what
  optimistic locking gives `removeAction`;
* `Explained`: with nothing queued the cycle works on the list the informer has,
  and a cycle that ends as a success has all tasks recorded, no entry to work on,
  or one that is already gone. The last case is why `Outdated` is needed: a cycle
  on a list that is behind the API server may end as a success and leave an entry,
  but then an event is still to come;
* `Forgotten`: a cycle on an empty list ends without a requeue only when it found no
  task recorded. So a request made at rest, with the list empty and no finished Job
  left behind or cached, starts afresh.

It assumes of the constants only that the bounds are numbers and that no node has
the name of a cluster job. `RemoveAtEntries`, `ListingRemoved` and the lemmas
beside them state what the operators on lists return.

Only model-checked: `DeletionCompletes`, `EventuallyConverged` and
`ManagementComesUp` (liveness is out of the prover's reach). Every invariant and
every action property of the passing runs is proved.

## Not modelled, and what is left

Left to do:

1. Compositions: the listener with the node stage through shared Job names, the
   actions with a deletion in the middle of them, and a resource that is created
   again under the same name.

Not modelled, because nothing a property here depends on is decided there:
parsing of manifests and reading of nested fields (`pkg/yamlutils`,
`pkg/reflectutils`), construction of pods and RBAC objects, the CSI configuration
map (created once and never compared), flags and start-up (`main.go`), logging of
watched jobs (`monitorJob`), generated deep copies. The naming of Jobs
(`sanitizeString`) is not modelled either: node names are model values, so two
nodes whose names are mapped to one are not told apart.
