-------------------------- MODULE OperatorInvariant --------------------------
(***************************************************************************)
(* The inductive invariant of Operator, as a conjunction of named parts.   *)
(* OperatorProofs proves it; TLC checks it on small instances first.       *)
(***************************************************************************)
EXTENDS Operator

Busy == pc # "idle"

\* Where a cycle that found a deletion and our finalizer can be.
DeletionPC == {"isAllowedToDelete", "uninstallCluster",
               "waitForUninstallCompletion", "updateUninstallStatus",
               "removeFinalizer"}

\* The deletion request is in x's past.
Doomed(x) == x.deleting \/ ~x.exists

PrefixClosed(status) ==
    \A s \in status.finished : \A t \in Stage : t < s => t \in status.finished

\* The effects of the stages a status calls finished hold.
Effects(status) ==
    /\ removeAllWorkloads \in status.finished => workloads = {}
    /\ waitForWorkloadsToFinish \in status.finished
          => "core" \notin pods /\ "csi" \notin pods
    /\ removeMongo \in status.finished => ~mongo

\* What exists: nothing is said of a resource that does not exist, and a
\* current copy is a copy of something.
Existence ==
    /\ cr.deleting \/ cr.finalizer \/ cr.status.finished # {} => cr.exists
    /\ cache.deleting \/ cache.finalizer => cache.exists
    /\ Busy => mem.exists
    /\ current => cr.exists /\ Busy

\* A deletion request is never taken back, and the copies lag behind it.
DeletionOrder ==
    /\ cache.deleting => Doomed(cr)
    /\ Busy /\ mem.deleting => Doomed(cache) /\ Doomed(cr)
    /\ current => cr.deleting = mem.deleting
    /\ pc \in DeletionPC => mem.deleting /\ mem.finalizer

\* Stages are recorded only for a resource under deletion, and not before
\* the informer and the running cycle know of the deletion.
RecordedWhenDeleting ==
    /\ cr.status.finished # {} => cr.deleting
    /\ cache.status.finished # {} => cache.deleting
    /\ mem.status.finished # {} => mem.deleting
    /\ cache.exists /\ ~cache.deleting => cr.status.finished = {}
    /\ Busy /\ ~mem.deleting
          => cr.status.finished = {} /\ cache.status.finished = {}

\* Every copy of the status is ordered like the list of stages.
Ordered ==
    /\ PrefixClosed(cr.status)
    /\ PrefixClosed(cache.status)
    /\ PrefixClosed(mem.status)
    /\ pc = "waitForUninstallCompletion"
          => 1..5 \subseteq mem.status.finished

\* The finalizer is not added after deletion was requested, and not removed
\* before.
FinalizerOrder ==
    /\ cache.deleting /\ ~cache.finalizer => ~cr.finalizer
    /\ Busy /\ pc # "manageError" /\ mem.deleting /\ ~mem.finalizer
          => ~cr.finalizer
    /\ cache.finalizer /\ cr.exists /\ ~cr.deleting => cr.finalizer
    /\ Busy /\ pc # "manageError" /\ mem.finalizer /\ cr.exists /\ ~cr.deleting
          => cr.finalizer
    /\ pc = "reconcileAllComponents" => mem.deleting = ~mem.finalizer

\* While our finalizer is there, every copy of the status tells the truth.
Truthful ==
    cr.finalizer => /\ Effects(cr.status)
                    /\ Effects(cache.status)
                    /\ Effects(mem.status)

\* A deletion the informer knows of is queued or being worked on, in a cycle
\* that will ask to be requeued.
Remembered ==
    cr.deleting /\ cr.finalizer /\ cache.deleting /\ ~queued
       => /\ mem.deleting
          /\ pc \in DeletionPC \cup {"serviceAccount", "handleFinalizer",
                                     "manageSuccessRequeue", "manageError"}
          /\ pc \in {"serviceAccount", "handleFinalizer"} => mem.finalizer

\* The inductive invariant: its parts together imply StatusTruthful,
\* DeletionNeverForgotten and FinalizerBeforeWorkloads in every state, and
\* OrderlyTeardown in every step of the reconcile loop.
Safe ==
    /\ Existence
    /\ DeletionOrder
    /\ RecordedWhenDeleting
    /\ Ordered
    /\ FinalizerOrder
    /\ Truthful
    /\ Remembered
    /\ FinalizerBeforeWorkloads

IInv == TypeOK /\ Safe
-------------------------------------------------------------------------------
(* What QuiescentConverged needs beside IInv *)

\* The workloads and the database are what x asks for.
Deployed(x) ==
    /\ isValid(x)
    /\ workloads = Components \ x.spec.disabled
    /\ mongo <=> "mgmt" \notin x.spec.disabled

\* With nothing queued, the running cycle works on the generation the informer
\* has; once it is past the components, or over, that generation is deployed.
Converging ==
    /\ Busy /\ ~queued /\ ~mem.deleting
          => cache.exists /\ ~cache.deleting /\ cache.spec = mem.spec
    /\ pc \in {"serviceAccount", "handleFinalizer", "reconcileAllComponents"}
       /\ ~mem.deleting => isValid(mem)
    /\ current /\ ~mem.deleting => cr.spec = mem.spec
    /\ pc \in {"removeFinishedActionStatuses", "manageSuccess"} /\ ~queued
       /\ ~mem.deleting /\ cr.exists => Deployed(mem)
    /\ pc = "idle" /\ ~queued /\ cache.exists /\ ~cache.deleting /\ cr.exists
          => Deployed(cache) /\ cr.status.ready = "True"
==============================================================================
