-------------------------- MODULE OperatorRefinement --------------------------
(***************************************************************************)
(* Operator implements Deletion: the phase of the resource is read off the *)
(* API server's copy, and the rest off the objects of the cluster.         *)
(***************************************************************************)
EXTENDS OperatorInvariant

PhaseOf(c) ==
    CASE ~c.exists                                -> "gone"
      [] c.exists /\ c.deleting /\ c.finalizer    -> "draining"
      [] c.exists /\ c.deleting /\ ~c.finalizer   -> "released"
      [] c.exists /\ ~c.deleting /\ c.finalizer   -> "protected"
      [] c.exists /\ ~c.deleting /\ ~c.finalizer  -> "open"

D == INSTANCE Deletion WITH
        phase    <- PhaseOf(cr),
        deployed <- (workloads # {}),
        running  <- (pods \cap {"core", "csi"} # {}),
        database <- mongo,
        skip     <- Has(cr, "skipUninstall")

\* What the proof needs beside IInv: a copy the API server would accept has
\* the options of its resource, and a cycle about to release the finalizer
\* was told to skip the uninstall or has every stage behind it.
ReleaseJustified ==
    /\ current => cr.spec.options = mem.spec.options
    /\ pc = "removeFinalizer"
          => Has(mem, "skipUninstall") \/ mem.status.finished = Stage

\* Every behaviour of the operator, with its caches, stages, failing calls and
\* crashes, is one Deletion allows: nothing is deployed for a resource that has
\* neither our finalizer nor a deletion request, and removeFinalizerAndUpdate
\* releases a resource only over a cluster that is down or with skipUninstall
\* set, also when the spec is edited in the middle of the uninstall.  A resource
\* that only the finalizers of others hold may still be deployed.
ImplementsDeletion == D!Spec
===============================================================================
