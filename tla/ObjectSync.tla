------------------------------ MODULE ObjectSync ------------------------------
(***************************************************************************)
(* How the operator keeps the objects of its core and CSI components as    *)
(* the spec asks (ctrl_utils.go, core_controller.go, csi_controller.go):   *)
(* one object after the other is compared with what the informer shows of  *)
(* it, and created, overwritten or deleted without a check of its version. *)
(* An error ends the pass over the objects of its component and is         *)
(* dropped; what brings the operator back are the events of the objects it *)
(* owns.                                                                   *)
(*                                                                         *)
(* The resource itself is read once per cycle, so a lagging copy of it is  *)
(* the same as an edit that comes later; module Cluster has both copies.   *)
(***************************************************************************)
EXTENDS CoreConfig, FiniteSets

CONSTANTS
    Files,       \* the objects, in the order of the files they are read from
    CoreCount,   \* how many of them, the first ones, are of core; the rest of CSI
    Specs,       \* the values users give to the spec of the resource
    UserLines,   \* the lines users put into nvmesh.conf by hand
    MaxUserOps, MaxCrashes   \* bounds of a run

Object == {Files[i] : i \in DOMAIN Files}
CoreObject == {Files[i] : i \in 1..CoreCount}
Workloads == Object \ {"config"}

ASSUME FilesAssumption == /\ Files \in Seq(Object) /\ Len(Files) > 0
                          /\ CoreCount \in 0..Len(Files)
\* No object is in the files of both components.
ASSUME ComponentsAssumption ==
    \A i \in (CoreCount + 1)..Len(Files) : Files[i] \notin CoreObject
\* Users add lines with keys that configDictToString sorts in.
ASSUME KeysAssumption == \A l \in UserLines : l.key \in KnownKeys
ASSUME ObjectLimitsAssumption == MaxUserOps \in Nat /\ MaxCrashes \in Nat

VARIABLES
    spec,     \* the spec of the resource
    mem,      \* the spec the running cycle works with
    pos,      \* the file it has come to; 0 between two cycles
    queued,   \* is the resource's key in the work queue?
    objs,     \* the objects as the API server holds them
    view,     \* the informer's copies of them
    pending,  \* objects with an event on its way that passes the predicate
    userOps, crashes

vars == <<spec, mem, pos, queued, objs, view, pending, userOps, crashes>>

-------------------------------------------------------------------------------
(* Objects *)

Enabled(o, s) == (IF o \in CoreObject THEN "core" ELSE "csi") \notin s.disabled

Absent(o) ==
    [exists |-> FALSE,
     body |-> CASE o = "config"     -> [modprobe |-> "", conf |-> <<>>]
                [] o = "controller" -> [image |-> "", replicas |-> 0]
                [] OTHER            -> [image |-> "", tcpOnly |-> FALSE]]

\* image stands for the images and the version of the containers, tcpOnly for
\* the volumes that core containers mount.
initDaemonSets(s) == [image |-> s.version, tcpOnly |-> "TCPOnly" \in s.options]
initCSINodeDriverDaemonSet(s) == [image |-> s.version, tcpOnly |-> FALSE]
initCSIControllerStatefulSet(s) == [image |-> s.version, replicas |-> s.replicas]

InitObject(o, s) ==
    [exists |-> TRUE,
     body |-> CASE o = "config"      -> initCoreConfigMap(s)
                [] o = "controller"  -> initCSIControllerStatefulSet(s)
                [] o = "node-driver" -> initCSINodeDriverDaemonSet(s)
                [] OTHER             -> initDaemonSets(s)]

\* Of a daemon set, images and version are compared and the volumes are not.
shouldUpdateDaemonSet(expected, found) == expected.image # found.image

\* image stands for the pull policy too.
shouldUpdateCSINodeDriverDaemonSet(expected, found) == expected.image # found.image

\* Variant of shouldUpdateCSIControllerStatefulSet: the replicas are not compared.
shouldUpdateImageOnly(expected, found) == expected.image # found.image

shouldUpdateCSIControllerStatefulSet(expected, found) ==
    expected.image # found.image \/ expected.replicas # found.replicas

ShouldUpdateObject(o, expected, found) ==
    CASE o = "config"      -> shouldUpdateCoreConfigMap(expected.body, found.body)
      [] o = "controller"  -> shouldUpdateCSIControllerStatefulSet(expected.body, found.body)
      [] o = "node-driver" -> shouldUpdateCSINodeDriverDaemonSet(expected.body, found.body)
      [] OTHER             -> shouldUpdateDaemonSet(expected.body, found.body)

\* What an update writes: the expected object, with the text of nvmesh.conf
\* that the comparison has put together.
Replacement(o, expected, found) ==
    IF o = "config"
    THEN [exists |-> TRUE,
          body |-> [expected.body EXCEPT !.conf = NVMeshConf(@, found.body.conf)]]
    ELSE expected

\* Variant of Notifies: nobody watches for deletions.
NotifiesOfCreation(o, old, new) ==
    \/ ~old.exists /\ new.exists
    \/ o \in Workloads /\ old # new

\* Events of creation and deletion pass GenerationChangedPredicate; an update
\* passes for a workload only, since a ConfigMap has no generation.
Notifies(o, old, new) ==
    \/ old.exists # new.exists
    \/ o \in Workloads /\ old # new

Store(o, new) ==
    /\ objs' = [objs EXCEPT ![o] = new]
    /\ pending' = IF Notifies(o, objs[o], new) THEN pending \cup {o} ELSE pending

Keep == UNCHANGED <<objs, pending>>

Init ==
    /\ spec \in Specs /\ mem = spec /\ pos = 0 /\ queued = TRUE
    /\ objs = [o \in Object |-> Absent(o)] /\ view = objs /\ pending = {}
    /\ userOps = 0 /\ crashes = 0

-------------------------------------------------------------------------------
(* One cycle: reconcileYamlObjectsFromDir over the files of core, then CSI *)

StartCycle ==
    /\ pos = 0 /\ queued
    /\ queued' = FALSE /\ mem' = spec /\ pos' = 1
    /\ UNCHANGED <<spec, objs, view, pending, userOps, crashes>>

NextFile == pos' = IF pos = Len(Files) THEN 0 ELSE pos + 1

\* The error is returned past the other files of the component and not
\* requeued; the next component goes on.
ReturnError ==
    /\ pos' = IF pos <= CoreCount /\ CoreCount < Len(Files) THEN CoreCount + 1 ELSE 0
    /\ Keep

SyncFrame == UNCHANGED <<spec, mem, queued, view, userOps, crashes>>

\* AlreadyExists counts as created; an update has no resourceVersion, and is
\* refused only when the object is gone.
makeSureObjectExists(o) ==
    /\ pos > 0 /\ Files[pos] = o /\ Enabled(o, mem)
    /\ LET new == InitObject(o, mem)
       IN  \/ /\ ~view[o].exists /\ NextFile
              /\ IF objs[o].exists THEN Keep ELSE Store(o, new)
           \/ /\ view[o].exists /\ ShouldUpdateObject(o, new, view[o])
              /\ IF objs[o].exists
                 THEN Store(o, Replacement(o, new, view[o])) /\ NextFile
                 ELSE ReturnError
           \/ /\ view[o].exists /\ ~ShouldUpdateObject(o, new, view[o])
              /\ NextFile /\ Keep
    /\ SyncFrame

\* An object the informer does not show counts as removed; deleting one that
\* is already gone is an error.
makeSureObjectRemoved(o) ==
    /\ pos > 0 /\ Files[pos] = o /\ ~Enabled(o, mem)
    /\ \/ ~view[o].exists /\ NextFile /\ Keep
       \/ view[o].exists /\ objs[o].exists /\ Store(o, Absent(o)) /\ NextFile
       \/ view[o].exists /\ ~objs[o].exists /\ ReturnError
    /\ SyncFrame

reconcileObject(o) == makeSureObjectExists(o) \/ makeSureObjectRemoved(o)

Reconcile == StartCycle \/ \E o \in Object : reconcileObject(o)

-------------------------------------------------------------------------------
(* The informers, users, and a restart of the operator *)

ViewSync(o) ==
    /\ view[o] # objs[o] \/ o \in pending
    /\ view' = [view EXCEPT ![o] = objs[o]]
    /\ queued' = (queued \/ o \in pending) /\ pending' = pending \ {o}
    /\ UNCHANGED <<spec, mem, pos, objs, userOps, crashes>>

UserOp == userOps < MaxUserOps /\ userOps' = userOps + 1
UserFrame == UNCHANGED <<mem, pos, view, crashes>>

EditSpec ==
    /\ UserOp
    /\ spec' \in Specs \ {spec} /\ queued' = TRUE
    /\ Keep /\ UserFrame

EditWorkload(o) ==
    /\ UserOp
    /\ o \in Workloads /\ objs[o].exists
    /\ Store(o, [objs[o] EXCEPT !.body.image = "edited"])
    /\ UNCHANGED <<spec, queued>> /\ UserFrame

EditConf(line) ==
    /\ UserOp
    /\ "config" \in Object /\ objs["config"].exists
    /\ Store("config", [objs["config"] EXCEPT !.body.conf = Append(@, line)])
    /\ UNCHANGED <<spec, queued>> /\ UserFrame

DeleteObject(o) ==
    /\ UserOp
    /\ objs[o].exists
    /\ Store(o, Absent(o))
    /\ UNCHANGED <<spec, queued>> /\ UserFrame

\* The new process lists everything again and starts with the resource queued.
Crash ==
    /\ crashes < MaxCrashes /\ crashes' = crashes + 1
    /\ pos' = 0 /\ queued' = TRUE /\ view' = objs /\ pending' = {}
    /\ UNCHANGED <<spec, mem, objs, userOps>>

Environment ==
    \/ \E o \in Object : ViewSync(o) \/ EditWorkload(o) \/ DeleteObject(o)
    \/ EditSpec \/ Crash
    \/ \E line \in UserLines : EditConf(line)

Next == Reconcile \/ Environment

Spec == Init /\ [][Next]_vars

\* The worker and the informers keep working.
FairSpec == Spec /\ WF_vars(Reconcile) /\ \A o \in Object : WF_vars(ViewSync(o))

-------------------------------------------------------------------------------
(* Properties *)

\* The object is what the spec asks for, as far as the operator looks.
Matches(o, s) ==
    /\ objs[o].exists <=> Enabled(o, s)
    /\ o \in Workloads /\ Enabled(o, s) => objs[o].body.image = s.version
    /\ o = "controller" /\ Enabled(o, s) => objs[o].body.replicas = s.replicas

\* When the queue is empty, no cycle runs and no event is on its way, every
\* object is there or gone as the spec asks and has the version and the
\* replicas it asks for:
\* whatever makeSureObjectExists and makeSureObjectRemoved missed in a stale
\* cache, and every error they dropped, has been made good.
ConvergedAtRest ==
    pos = 0 /\ ~queued /\ pending = {} => \A o \in Object : Matches(o, spec)

\* Once users have stopped, the objects become and stay what the spec asks
\* for: creating, overwriting and deleting against a stale cache ends.
EventuallyConverged == <>[](\A o \in Object : Matches(o, spec))

ConfDict(object) == configStringToDict(object.body.conf)

\* What shouldUpdateCoreConfigMap has written it accepts when it compares
\* again: the map is not rewritten in every cycle.
UpdateIsFinal ==
    [][pos > 0 /\ pos' # pos /\ objs'["config"] # objs["config"] /\ objs'["config"].exists
       => ~ShouldUpdateObject("config", InitObject("config", mem), objs'["config"])]_vars

\* A parameter of the stored map that the operator does not write itself.
UserParameters ==
    DOMAIN ConfDict(objs["config"]) \ DOMAIN ConfDict(InitObject("config", mem))

KeepsUserParameters ==
    objs["config"].exists /\ objs'["config"].exists
       => \A k \in UserParameters :
             Lookup(ConfDict(objs'["config"]), k) = ConfDict(objs["config"])[k]

\* When the informer shows the map as it is, updating it keeps every parameter
\* shouldUpdateNVMeshConf does not expect, through text and dictionary.
UserParametersKept ==
    [][pos > 0 /\ pos' # pos /\ view["config"] = objs["config"]
       => KeepsUserParameters]_vars
===============================================================================
