------------------------------- MODULE Deletion -------------------------------
(***************************************************************************)
(* What the operator promises about the life of an NVMesh resource, seen   *)
(* from outside: no part of the cluster is deployed for a resource that    *)
(* carries neither our finalizer nor a deletion request, and once deletion *)
(* was requested the finalizer is released only over a cluster that has    *)
(* been taken down, or on the user's word that the uninstall is to be      *)
(* skipped.                                                                *)
(*                                                                         *)
(* It does not promise that a resource which waits for the finalizers of   *)
(* others is left alone: handleFinalizer has nothing to do there and       *)
(* Reconcile goes on to the components, whether ours was released or was   *)
(* never there.  What is deployed then has no uninstall before it.         *)
(*                                                                         *)
(* Caches, cycles, stages, failing calls and crashes are Operator's        *)
(* business; OperatorRefinement says how it implements this module.        *)
(***************************************************************************)

VARIABLES
    phase,     \* of the resource, see Phase
    deployed,  \* do workload objects of any component exist?
    running,   \* do pods of core or of the CSI driver run?
    database,  \* do the MongoDB objects exist?
    skip       \* is skipUninstall set on the resource?

vars == <<phase, deployed, running, database, skip>>

\* open: no finalizer of ours, protected: with it, draining: deletion was
\* requested and waits for us, released: it waits for others, gone.
Phase == {"open", "protected", "draining", "released", "gone"}

Init ==
    /\ phase = "open"
    /\ deployed = FALSE /\ running = FALSE /\ database = FALSE
    /\ skip \in BOOLEAN

Protect ==
    /\ phase = "open" /\ phase' = "protected"
    /\ UNCHANGED <<deployed, running, database, skip>>

\* A resource that is gone has no options.
MoveTo(phases) == phase' \in phases /\ skip' = (skip /\ phase' # "gone")

RequestDeletion ==
    /\ \/ phase = "open" /\ MoveTo({"released", "gone"})
       \/ phase = "protected" /\ MoveTo({"draining"})
    /\ UNCHANGED <<deployed, running, database>>

\* Components are deployed and removed, by the operator or, once the resource
\* is gone, by the garbage collector.  Phase "released" is not excluded: "Stop
\* reconciliation as the item is being deleted" does not stop a cycle there.
Manage ==
    /\ phase # "open"
    /\ deployed' \in BOOLEAN /\ database' \in BOOLEAN
    /\ UNCHANGED <<phase, running, skip>>

\* Pods follow the workloads.
PodsChange ==
    /\ running' \in BOOLEAN /\ (running' => running \/ deployed)
    /\ UNCHANGED <<phase, deployed, database, skip>>

Configure ==
    /\ phase # "gone" /\ skip' \in BOOLEAN
    /\ UNCHANGED <<phase, deployed, running, database>>

Clean == ~deployed /\ ~running /\ ~database

Release ==
    /\ phase = "draining" /\ (skip \/ Clean)
    /\ MoveTo({"released", "gone"})
    /\ UNCHANGED <<deployed, running, database>>

Vanish ==
    /\ phase = "released" /\ MoveTo({"gone"})
    /\ UNCHANGED <<deployed, running, database>>

Next ==
    \/ Protect \/ RequestDeletion \/ Manage \/ PodsChange
    \/ Configure \/ Release \/ Vanish

Spec == Init /\ [][Next]_vars
===============================================================================
