------------------------------ MODULE Management ------------------------------
(***************************************************************************)
(* The management component (mgmt_controller.go): MongoDB, the job that    *)
(* initialises it, the settings the operator writes into it, the           *)
(* configuration map, the GUI service and the StatefulSet of the           *)
(* management server, and the restarts that make running pods load what    *)
(* changed.                                                                *)
(*                                                                         *)
(* One action is one call of Reconcile that reads or writes the cluster.   *)
(* The informer's copy of the StatefulSet lags; module ObjectSync has the  *)
(* general case.  Objects that are never compared (the other services, the *)
(* map of MongoDB) come and go with the ones beside them.                  *)
(***************************************************************************)
EXTENDS Naturals, Sequences

CONSTANTS
    Specs,    \* the values users give to spec.management
    Faulty,   \* the kinds of call that may fail
    MaxUserOps, MaxFaults, MaxCrashes   \* bounds of a run

\* settings: the automatic format and eviction of drives; image and mongoImage
\* stand for a registry and a version; externalIPs: the list in the spec, if
\* there is one, by its elements.
SpecType == [disabled : BOOLEAN, external : BOOLEAN, settings : {"on", "off"},
             useSSL : BOOLEAN, image : STRING, replicas : Nat,
             mongoImage : STRING,
             externalIPs : [given : BOOLEAN, ips : SUBSET STRING]]

ASSUME ManagementSpecsAssumption == Specs \subseteq SpecType /\ Specs # {}
ASSUME ManagementBoundsAssumption ==
    MaxUserOps \in Nat /\ MaxFaults \in Nat /\ MaxCrashes \in Nat

VARIABLES
    spec,      \* spec.management of the resource
    mem,       \* the copy the running cycle works with
    pc,        \* where the cycle is
    queued,    \* is the resource's key in the work queue?
    mongo,     \* the objects of the bundled MongoDB
    dbUp,      \* does it answer?
    doc,       \* the settings its globalSettings document holds, or "none"
    job,       \* the init-DB job: none, active, succeeded or failed
    cm,        \* the configuration map, empty when there is none
    gui,       \* the service of the management GUI
    ss,        \* the StatefulSet of the management server
    ssView,    \* the informer's copy of it
    ssCurrent, \* does that copy have the resourceVersion of the StatefulSet?
    ssEvent,   \* is an event of it on its way that passes the predicate?
    pods,      \* what the running management server was started with
    userOps, faults, crashes

database == <<mongo, dbUp, doc, job>>
objects  == <<cm, gui>>
stateful == <<ss, ssView, ssCurrent, ssEvent>>
bounds   == <<userOps, faults, crashes>>
vars     == <<spec, mem, pc, queued, database, objects, stateful, pods, bounds>>

NoMongo == [exists |-> FALSE, image |-> "none"]
NoGui  == [exists |-> FALSE, ips |-> {}]
NoSS   == [exists |-> FALSE, image |-> "none", replicas |-> 0, stamp |-> 0]
NoPods == [up |-> FALSE, image |-> "none", stamp |-> 0, config |-> <<>>, settings |-> "none"]

\* The settings initDB.js writes.
DefaultSettings == "on"

Init ==
    /\ spec \in Specs /\ mem = spec /\ pc = "idle" /\ queued = TRUE
    /\ mongo = NoMongo /\ dbUp = FALSE /\ doc = "none" /\ job = "none"
    /\ cm = <<>> /\ gui = NoGui /\ ss = NoSS /\ ssView = NoSS /\ ssCurrent = TRUE
    /\ ssEvent = FALSE /\ pods = NoPods
    /\ userOps = 0 /\ faults = 0 /\ crashes = 0

NoFault == UNCHANGED faults
Fault(kind) == kind \in Faulty /\ faults < MaxFaults /\ faults' = faults + 1

Goto(l) == pc' = l /\ UNCHANGED queued
EndCycle(requeue) == pc' = "idle" /\ queued' = (queued \/ requeue)

\* Any write of the StatefulSet makes the informer's copy old; creation,
\* deletion and a change of its spec are events that start a cycle.
StoreSS(new) ==
    /\ ss' = new /\ ssCurrent' = (ssCurrent /\ new = ss)
    /\ ssEvent' = (ssEvent \/ new # ss)
    /\ UNCHANGED ssView

-------------------------------------------------------------------------------
(* Reconcile: MongoDB *)

Frame == UNCHANGED <<spec, userOps, crashes, pods>>

StartCycle ==
    /\ pc = "idle" /\ queued
    /\ pc' = "mongo" /\ queued' = FALSE /\ mem' = spec
    /\ UNCHANGED <<database, objects, stateful, faults>> /\ Frame

Bundled(s) == ~s.disabled /\ ~s.external

\* The image of MongoDB is one of the core component's.
initMongoStatefulSet(s) == [exists |-> TRUE, image |-> s.mongoImage]

shouldUpdateMongoStatefulSet(expected, found) == expected.image # found.image

deployMongoDB ==
    /\ pc = "mongo" /\ Bundled(mem)
    /\ LET new == initMongoStatefulSet(mem)
       IN  mongo' = IF ~mongo.exists \/ shouldUpdateMongoStatefulSet(new, mongo)
                    THEN new ELSE mongo
    /\ Goto("db")
    /\ UNCHANGED <<mem, dbUp, doc, job, objects, stateful, faults>> /\ Frame

\* The data outlives the objects, in a claim.
removeMongoDB ==
    /\ pc = "mongo" /\ ~Bundled(mem)
    /\ mongo' = NoMongo /\ dbUp' = FALSE
    /\ Goto(IF mem.disabled THEN "removeConfig" ELSE "db")
    /\ UNCHANGED <<mem, doc, job, objects, stateful, faults>> /\ Frame

-------------------------------------------------------------------------------
(* handleDBManipulations and the init job *)

\* Variant of ServerSelectionError: nothing starts another cycle.
ServerSelectionErrorWithoutRequeue ==
    /\ pc = "db" /\ ~dbUp
    /\ EndCycle(FALSE)
    /\ UNCHANGED <<mem, database, objects, stateful, faults>> /\ Frame

\* The address is that of the bundled MongoDB, also for an external one.
ServerSelectionError ==
    /\ pc = "db" /\ ~dbUp
    /\ EndCycle(TRUE)
    /\ UNCHANGED <<mem, database, objects, stateful, faults>> /\ Frame

\* FindOne fails, or UpdateOne, after what is left of the init job was deleted;
\* an update that fails may have taken effect.
DatabaseError ==
    /\ pc = "db" /\ dbUp /\ Fault("update")
    /\ \/ UNCHANGED <<doc, job>>
       \/ doc # "none" /\ job' = "none" /\ doc' \in {doc, mem.settings}
    /\ EndCycle(TRUE)
    /\ UNCHANGED <<mem, mongo, dbUp, objects, stateful>> /\ Frame

\* Variant of runMgmtInitDBJob: management is deployed while the job runs.
runMgmtInitDBJobAndGoOn ==
    /\ pc = "db" /\ dbUp /\ doc = "none"
    /\ job' = IF job = "none" THEN "active" ELSE job
    /\ Goto("config")
    /\ UNCHANGED <<mem, mongo, dbUp, doc, objects, stateful, faults>> /\ Frame

\* No document: AlreadyExists counts as created, whatever became of the job.
runMgmtInitDBJob ==
    /\ pc = "db" /\ dbUp /\ doc = "none"
    /\ job' = IF job = "none" THEN "active" ELSE job
    /\ EndCycle(TRUE)
    /\ UNCHANGED <<mem, mongo, dbUp, doc, objects, stateful, faults>> /\ Frame

\* Variant of handleDBManipulations: an initialised database is left alone.
handleDBWithoutUpdate ==
    /\ pc = "db" /\ dbUp /\ doc # "none"
    /\ job' = "none" /\ NoFault /\ Goto("config")
    /\ UNCHANGED <<mem, mongo, dbUp, doc, objects, stateful>> /\ Frame

\* What is left of the init job is deleted, and an error of that ignored.
handleDBManipulations ==
    /\ pc = "db" /\ dbUp /\ doc # "none"
    /\ \/ NoFault /\ job' = "none"
       \/ Fault("delete") /\ UNCHANGED job
    /\ doc' = mem.settings
    /\ Goto(IF doc = mem.settings THEN "config" ELSE "restartSettings")
    /\ UNCHANGED <<mem, mongo, dbUp, objects, stateful>> /\ Frame

\* The time of a restart: later than any in the template or in the pods.
RestartedAt == 1 + (IF ss.stamp > pods.stamp THEN ss.stamp ELSE pods.stamp)

\* restartStatefulSet: the cached StatefulSet gets a new annotation in its pod
\* template.  NotFound, and conflicts that outlast the retries, are ignored.
restartManagement(from, next) ==
    /\ pc = from
    /\ \/ /\ ssView.exists /\ ssCurrent /\ NoFault
          /\ StoreSS([ss EXCEPT !.stamp = RestartedAt])
       \/ /\ IF ssView.exists THEN Fault("restart") ELSE NoFault
          /\ UNCHANGED stateful
    /\ Goto(next)
    /\ UNCHANGED <<mem, database, objects>> /\ Frame

-------------------------------------------------------------------------------
(* createObjectsFromDir and removeObjectsFromDir *)

initConfigMap(s) ==
    <<IF s.useSSL THEN "https" ELSE "http", IF s.external THEN "address" ELSE "mongo-svc">>

\* The version in the map is never compared.
shouldUpdateConfigMap(expected, found) == expected # found

ConfigMapExists ==
    /\ pc = "config"
    /\ cm' = IF cm = <<>> \/ shouldUpdateConfigMap(initConfigMap(mem), cm)
             THEN initConfigMap(mem) ELSE cm
    /\ Goto(IF cm # <<>> /\ cm' # cm THEN "restartConfig" ELSE "service")
    /\ UNCHANGED <<mem, database, gui, stateful, faults>> /\ Frame

initMgmtGuiService(s) ==
    [exists |-> TRUE, ips |-> IF s.externalIPs.given THEN s.externalIPs.ips ELSE {}]

\* Addresses that are no longer in the spec at all stay in the service.
shouldUpdateGuiService(s, expected, found) ==
    s.externalIPs.given /\ expected.ips # found.ips

GuiServiceExists ==
    /\ pc = "service"
    /\ LET new == initMgmtGuiService(mem)
       IN  gui' = IF ~gui.exists \/ shouldUpdateGuiService(mem, new, gui)
                  THEN new ELSE gui
    /\ Goto("statefulset")
    /\ UNCHANGED <<mem, database, cm, stateful, faults>> /\ Frame

\* The annotation of a restart is not part of what the operator expects.
initMgmtStatefulSet(s) ==
    [exists |-> TRUE, image |-> s.image, replicas |-> s.replicas, stamp |-> 0]

shouldUpdateManagementStatefulSet(expected, found) ==
    expected.image # found.image \/ expected.replicas # found.replicas

\* Created, or overwritten without a resourceVersion.  An error (the object
\* is gone, the informer still shows it) is dropped.
StatefulSetExists ==
    /\ pc = "statefulset"
    /\ LET new == initMgmtStatefulSet(mem)
       IN  IF ssView.exists
           THEN IF shouldUpdateManagementStatefulSet(new, ssView) /\ ss.exists
                THEN StoreSS(new) ELSE UNCHANGED stateful
           ELSE IF ss.exists THEN UNCHANGED stateful ELSE StoreSS(new)
    /\ EndCycle(FALSE)
    /\ UNCHANGED <<mem, database, objects, faults>> /\ Frame

ConfigMapRemoved ==
    /\ pc = "removeConfig"
    /\ cm' = <<>> /\ Goto("removeService")
    /\ UNCHANGED <<mem, database, gui, stateful, faults>> /\ Frame

GuiServiceRemoved ==
    /\ pc = "removeService"
    /\ gui' = NoGui /\ Goto("removeStatefulSet")
    /\ UNCHANGED <<mem, database, cm, stateful, faults>> /\ Frame

StatefulSetRemoved ==
    /\ pc = "removeStatefulSet"
    /\ IF ssView.exists /\ ss.exists THEN StoreSS(NoSS) ELSE UNCHANGED stateful
    /\ EndCycle(FALSE)
    /\ UNCHANGED <<mem, database, objects, faults>> /\ Frame

Reconcile ==
    \/ StartCycle \/ deployMongoDB \/ removeMongoDB
    \/ ServerSelectionError \/ DatabaseError
    \/ runMgmtInitDBJob \/ handleDBManipulations
    \/ restartManagement("restartSettings", "config")
    \/ ConfigMapExists \/ restartManagement("restartConfig", "service")
    \/ GuiServiceExists \/ StatefulSetExists
    \/ ConfigMapRemoved \/ GuiServiceRemoved \/ StatefulSetRemoved

-------------------------------------------------------------------------------
(* Kubernetes, MongoDB, users, and a restart of the operator *)

operator == <<mem, pc>>

SSViewSync ==
    /\ ~ssCurrent \/ ssEvent
    /\ ssView' = ss /\ ssCurrent' = TRUE
    /\ queued' = (queued \/ ssEvent) /\ ssEvent' = FALSE
    /\ UNCHANGED <<spec, operator, database, objects, ss, pods, bounds>>

MongoStarts ==
    /\ mongo.exists /\ ~dbUp /\ dbUp' = TRUE
    /\ UNCHANGED <<spec, operator, queued, mongo, doc, job, objects, stateful, pods, bounds>>

MongoStops ==
    /\ dbUp /\ dbUp' = FALSE /\ Fault("mongo")
    /\ UNCHANGED <<spec, operator, queued, mongo, doc, job, objects, stateful, pods,
                   userOps, crashes>>

InitJobSucceeds ==
    /\ job = "active" /\ dbUp
    /\ job' = "succeeded" /\ doc' = DefaultSettings
    /\ UNCHANGED <<spec, operator, queued, mongo, dbUp, objects, stateful, pods, bounds>>

\* The job gives up after its second pod, and nothing replaces it.
InitJobFails ==
    /\ job = "active" /\ Fault("initjob")
    /\ job' = "failed"
    /\ UNCHANGED <<spec, operator, queued, mongo, dbUp, doc, objects, stateful, pods,
                   userOps, crashes>>

\* The StatefulSet controller replaces pods whose template is not the present
\* one, and writes the status of the StatefulSet.
PodsStart ==
    /\ ss.exists /\ cm # <<>>
    /\ ~pods.up \/ pods.image # ss.image \/ pods.stamp # ss.stamp
    /\ pods' = [up |-> TRUE, image |-> ss.image, stamp |-> ss.stamp,
                config |-> cm, settings |-> doc]
    /\ ssCurrent' = FALSE
    /\ UNCHANGED <<spec, operator, queued, database, objects, ss, ssView, ssEvent, bounds>>

PodsStop ==
    /\ pods.up /\ ~ss.exists
    /\ pods' = NoPods
    /\ UNCHANGED <<spec, operator, queued, database, objects, stateful, bounds>>

EditSpec ==
    /\ userOps < MaxUserOps /\ userOps' = userOps + 1
    /\ spec' \in Specs \ {spec} /\ queued' = TRUE
    /\ UNCHANGED <<operator, database, objects, stateful, pods, faults, crashes>>

Crash ==
    /\ crashes < MaxCrashes /\ crashes' = crashes + 1
    /\ pc' = "idle" /\ queued' = TRUE
    /\ ssView' = ss /\ ssCurrent' = TRUE /\ ssEvent' = FALSE
    /\ UNCHANGED <<spec, mem, database, objects, ss, pods, userOps, faults>>

Environment ==
    \/ SSViewSync \/ MongoStarts \/ MongoStops \/ InitJobSucceeds
    \/ InitJobFails \/ PodsStart \/ PodsStop \/ EditSpec \/ Crash

Next == Reconcile \/ Environment

Spec == Init /\ [][Next]_vars

\* The worker, the informer, the kubelets and the Job controller keep working.
FairSpec ==
    /\ Spec
    /\ WF_vars(Reconcile) /\ WF_vars(SSViewSync)
    /\ WF_vars(MongoStarts) /\ WF_vars(InitJobSucceeds)
    /\ WF_vars(PodsStart) /\ WF_vars(PodsStop)

-------------------------------------------------------------------------------
(* Properties *)

AtRest == pc = "idle" /\ ~queued /\ ~ssEvent

\* No management server runs, or is about to, on a database that init-DB has
\* not written: Reconcile returns before createObjectsFromDir until then.
InitialisedFirst == ss.exists \/ pods.up => doc # "none"

\* When the operator rests, what it compares is what the spec asks for, after
\* any edits, refused restarts, failing calls and crashes.
SettledAtRest ==
    AtRest =>
       IF spec.disabled
       THEN ~mongo.exists /\ cm = <<>> /\ ~gui.exists /\ ~ss.exists
       ELSE /\ mongo = initMongoStatefulSet(spec) /\ doc = spec.settings
            /\ cm = initConfigMap(spec)
            /\ gui.exists /\ (spec.externalIPs.given => gui = initMgmtGuiService(spec))
            /\ ss.exists /\ ss.image = spec.image /\ ss.replicas = spec.replicas

\* Once users have stopped, the management server runs with the image the
\* spec asks for, or no longer runs at all, unless the init-DB job failed:
\* runMgmtInitDBJob takes AlreadyExists for created.
ManagementComesUp ==
    <>[](IF spec.disabled THEN ~pods.up
         ELSE job = "failed" \/ (pods.up /\ pods.image = spec.image))

-------------------------------------------------------------------------------
(* What comments and the API reference say, and TLC refutes *)

\* "we attempt to restart the management server but we ignore errors since it
\* is possible that it was not deployed yet": so a server that was deployed
\* runs with the settings and the configuration the operator has stored.
RestartsTakeEffect ==
    AtRest /\ pods.up /\ pods.image = ss.image /\ pods.stamp = ss.stamp
       => pods.settings = doc /\ pods.config = cm

\* "External - if true MongoDB is expected to be already deployed, and
\* MongoAddress should be given": the management server then uses it.
ExternalMongoServes ==
    <>[](spec.external /\ ~spec.disabled => pods.up /\ pods.config = initConfigMap(spec))
===============================================================================
