--------------------------- MODULE ManagementProofs ---------------------------
(***************************************************************************)
(* Proofs about Management, for every set of specs, any kinds and number   *)
(* of failing calls, and any number of edits and crashes.                  *)
(***************************************************************************)
EXTENDS Management, TLAPS

PC == {"idle", "mongo", "db", "restartSettings", "config", "restartConfig",
       "service", "statefulset", "removeConfig", "removeService", "removeStatefulSet"}

\* Past the database: the document is there and holds the settings.
PastDB == {"restartSettings", "config", "restartConfig", "service", "statefulset"}

\* The init job works on an empty database only, and the operator talks only
\* to the bundled one.
DatabaseInv ==
    /\ job = "active" => doc = "none"
    /\ dbUp => mongo.exists
    /\ pc = "db" /\ mongo.exists => Bundled(mem) /\ mongo = initMongoStatefulSet(mem)
    /\ pc \in PastDB => /\ Bundled(mem) /\ mongo = initMongoStatefulSet(mem)
                       /\ doc = mem.settings

\* The configuration map and the service the cycle leaves behind.
ConfigInv ==
    /\ pc \in {"restartConfig", "service", "statefulset"} => cm = initConfigMap(mem)
    /\ pc = "statefulset"
          => gui.exists /\ (mem.externalIPs.given => gui = initMgmtGuiService(mem))
    /\ pc \in {"removeConfig", "removeService", "removeStatefulSet"}
          => mem.disabled /\ ~mongo.exists
    /\ pc \in {"removeService", "removeStatefulSet"} => cm = <<>>
    /\ pc = "removeStatefulSet" => ~gui.exists

\* A cycle during which nothing was queued works with the present spec, and
\* the informer is behind on the StatefulSet only with an event on its way.
LagInv ==
    /\ ~queued /\ pc # "idle" => mem = spec
    /\ ~ssEvent => ssView = ss

SSType == [exists : BOOLEAN, image : {"none"} \cup {s.image : s \in Specs},
           replicas : Nat, stamp : Nat]

MgmtInv ==
    /\ spec \in Specs /\ mem \in Specs /\ pc \in PC
    /\ mongo = [exists |-> mongo.exists, image |-> mongo.image]
    /\ gui = [exists |-> gui.exists, ips |-> gui.ips]
    /\ ss \in SSType /\ pods.stamp \in Nat
    /\ DatabaseInv
    /\ ConfigInv
    /\ LagInv
    /\ InitialisedFirst
    /\ SettledAtRest

\* Every spec has settings, and its switches are Booleans.
LEMMA SettingsAreThere ==
    ASSUME NEW s \in Specs
    PROVE  /\ s.settings # "none"
           /\ s.disabled \in BOOLEAN /\ s.external \in BOOLEAN
BY ManagementSpecsAssumption DEF SpecType

\* The StatefulSet that does not exist.
LEMMA NoSSType == NoSS \in SSType /\ ~NoSS.exists
<1>1. NoSS \in SSType
  BY DEF NoSS, SSType
<1>2. NoSS.exists = FALSE
  BY DEF NoSS
<1> QED  BY <1>1, <1>2

\* The fields of what the operator expects, and of what is not there.
LEMMA ExpectedObjects ==
    ASSUME NEW s
    PROVE  /\ initMongoStatefulSet(s).exists
           /\ initMongoStatefulSet(s).image = s.mongoImage
           /\ initMongoStatefulSet(s) = [exists |-> TRUE, image |-> s.mongoImage]
           /\ initMgmtGuiService(s).exists
           /\ initMgmtGuiService(s) = [exists |-> TRUE, ips |-> initMgmtGuiService(s).ips]
           /\ ~NoMongo.exists /\ NoMongo = [exists |-> NoMongo.exists, image |-> NoMongo.image]
           /\ ~NoGui.exists /\ NoGui = [exists |-> NoGui.exists, ips |-> NoGui.ips]
BY DEF initMongoStatefulSet, initMgmtGuiService, NoMongo, NoGui

\* MongoDB is what the copy asks for, whether or not it was there before.
LEMMA MongoStored ==
    ASSUME MgmtInv, deployMongoDB
    PROVE  mongo' = initMongoStatefulSet(mem)
<1>1. mongo = [exists |-> mongo.exists, image |-> mongo.image]
  BY DEF MgmtInv
<1>2. CASE mongo.exists /\ mongo.image = mem.mongoImage
  <2>1. mongo' = mongo
    BY <1>2, ExpectedObjects DEF deployMongoDB, shouldUpdateMongoStatefulSet
  <2>2. mongo = [exists |-> TRUE, image |-> mem.mongoImage]
    BY <1>1, <1>2, Zenon
  <2> QED  BY <2>1, <2>2 DEF initMongoStatefulSet
<1>3. CASE ~(mongo.exists /\ mongo.image = mem.mongoImage)
  BY <1>3, ExpectedObjects DEF deployMongoDB, shouldUpdateMongoStatefulSet
<1> QED  BY <1>2, <1>3

\* The initial states satisfy the invariant.
LEMMA InitMgmt == Init => MgmtInv
<1> SUFFICES ASSUME Init PROVE MgmtInv
  OBVIOUS
<1>1. ss \in SSType /\ ~ss.exists
  BY NoSSType DEF Init
<1>2. pods.stamp \in Nat /\ ~pods.up
  BY DEF Init, NoPods
<1>3. /\ ~mongo.exists /\ mongo = [exists |-> mongo.exists, image |-> mongo.image]
      /\ ~gui.exists /\ gui = [exists |-> gui.exists, ips |-> gui.ips]
  BY ExpectedObjects DEF Init
<1> QED
  BY <1>1, <1>2, <1>3 DEF Init, MgmtInv, PC, PastDB, DatabaseInv, ConfigInv, LagInv,
                    InitialisedFirst, SettledAtRest, AtRest

\* The steps of a cycle up to the database.
LEMMA CycleStarts ==
    ASSUME MgmtInv, StartCycle \/ deployMongoDB \/ removeMongoDB
                    \/ ServerSelectionError \/ DatabaseError \/ runMgmtInitDBJob
    PROVE  MgmtInv'
<1> USE DEF MgmtInv, PC, PastDB, DatabaseInv, ConfigInv, LagInv, InitialisedFirst,
            SettledAtRest, AtRest, Frame, Goto, EndCycle, database, objects, stateful, Bundled
<1>1. CASE StartCycle
  BY <1>1 DEF StartCycle
<1>2. CASE deployMongoDB
  <2>1. /\ mongo' = initMongoStatefulSet(mem) /\ mongo'.exists
        /\ mongo' = [exists |-> mongo'.exists, image |-> mongo'.image]
    BY <1>2, MongoStored, ExpectedObjects
  <2> QED  BY <1>2, <2>1 DEF deployMongoDB
<1>3. CASE removeMongoDB
  <2>1. ~mongo'.exists /\ mongo' = [exists |-> mongo'.exists, image |-> mongo'.image]
    BY <1>3, ExpectedObjects DEF removeMongoDB
  <2> QED  BY <1>3, <2>1, SettingsAreThere DEF removeMongoDB
<1>4. CASE ServerSelectionError
  BY <1>4 DEF ServerSelectionError
<1>5. CASE DatabaseError
  <2>1. mem.settings # "none"
    BY SettingsAreThere
  <2>2. doc # "none" => doc' # "none"
    BY <1>5, <2>1 DEF DatabaseError
  <2> QED  BY <1>5, <2>2 DEF DatabaseError
<1>6. CASE runMgmtInitDBJob
  BY <1>6 DEF runMgmtInitDBJob
<1> QED  BY <1>1, <1>2, <1>3, <1>4, <1>5, <1>6

\* Writing the settings: a database that had a document keeps one.
LEMMA SettingsStored ==
    ASSUME MgmtInv, handleDBManipulations
    PROVE  MgmtInv'
<1>1. mem.settings # "none"
  BY SettingsAreThere DEF MgmtInv
<1> QED
  BY <1>1 DEF handleDBManipulations, MgmtInv, PC, PastDB, DatabaseInv, ConfigInv, LagInv,
     InitialisedFirst, SettledAtRest, AtRest, Frame, Goto, objects, stateful

\* A restart, or one that is ignored, changes nothing the operator compares.
LEMMA ManagementRestarted ==
    ASSUME MgmtInv,
           \/ restartManagement("restartSettings", "config")
           \/ restartManagement("restartConfig", "service")
    PROVE  MgmtInv'
<1>0. RestartedAt \in Nat
  BY DEF RestartedAt, MgmtInv, SSType
<1>1. ss' \in SSType /\ ss'.exists = ss.exists /\ (~ssEvent' => ssView' = ss')
  <2>1. CASE UNCHANGED stateful
    BY <2>1 DEF stateful, MgmtInv, LagInv
  <2>2. CASE StoreSS([ss EXCEPT !.stamp = RestartedAt])
    BY <1>0, <2>2 DEF StoreSS, MgmtInv, LagInv, SSType
  <2> QED  BY <2>1, <2>2 DEF restartManagement
<1> QED
  BY <1>1 DEF restartManagement, MgmtInv, PC, PastDB, DatabaseInv, ConfigInv, LagInv,
     InitialisedFirst, SettledAtRest, AtRest, Frame, Goto, database, objects

\* The service has the addresses the copy asks for, if it asks for any, or is
\* gone.
LEMMA GuiServiceStored ==
    ASSUME MgmtInv, GuiServiceExists \/ GuiServiceRemoved
    PROVE  MgmtInv'
<1>1. CASE GuiServiceExists
  <2>0. gui = [exists |-> gui.exists, ips |-> gui.ips]
    BY DEF MgmtInv
  <2>1. gui'.exists /\ gui' = [exists |-> gui'.exists, ips |-> gui'.ips]
    BY <1>1, <2>0, ExpectedObjects DEF GuiServiceExists
  <2>2. ASSUME mem.externalIPs.given PROVE gui' = initMgmtGuiService(mem)
    <3>1. CASE gui.exists /\ gui.ips = initMgmtGuiService(mem).ips
      <4>1. gui' = gui
        BY <1>1, <3>1 DEF GuiServiceExists, shouldUpdateGuiService
      <4>2. gui = [exists |-> TRUE, ips |-> initMgmtGuiService(mem).ips]
        BY <2>0, <3>1, Zenon
      <4> QED  BY <4>1, <4>2, ExpectedObjects
    <3>2. CASE ~(gui.exists /\ gui.ips = initMgmtGuiService(mem).ips)
      BY <1>1, <2>2, <3>2 DEF GuiServiceExists, shouldUpdateGuiService
    <3> QED  BY <3>1, <3>2
  <2> QED
    BY <1>1, <2>1, <2>2 DEF GuiServiceExists, MgmtInv, PC, PastDB, DatabaseInv,
       ConfigInv, LagInv, InitialisedFirst, SettledAtRest, AtRest, Frame, Goto,
       database, stateful
<1>2. CASE GuiServiceRemoved
  BY <1>2, ExpectedObjects DEF GuiServiceRemoved, MgmtInv, PC, PastDB, DatabaseInv,
     ConfigInv, LagInv, InitialisedFirst, SettledAtRest, AtRest, Frame, Goto,
     database, stateful
<1> QED  BY <1>1, <1>2

\* The configuration map is what the copy asks for, or gone.
LEMMA ConfigMapStored ==
    ASSUME MgmtInv, ConfigMapExists \/ ConfigMapRemoved
    PROVE  MgmtInv'
BY DEF ConfigMapExists, ConfigMapRemoved, shouldUpdateConfigMap, MgmtInv, PC, PastDB,
   DatabaseInv, ConfigInv, LagInv, InitialisedFirst, SettledAtRest, AtRest, Frame,
   Goto, database, objects, stateful

\* The end of a cycle: the StatefulSet is as the spec asks, or its event is
\* still to come.
LEMMA StatefulSetStored ==
    ASSUME MgmtInv, StatefulSetExists
    PROVE  MgmtInv'
<1> DEFINE new == initMgmtStatefulSet(mem)
<1>0. /\ pc = "statefulset" /\ pc' = "idle" /\ (~queued' => ~queued)
      /\ UNCHANGED <<spec, mem, mongo, dbUp, doc, job, cm, gui, pods>>
  BY DEF StatefulSetExists, EndCycle, Frame, database, objects, MgmtInv
<1>t. new \in SSType
  BY ManagementSpecsAssumption DEF initMgmtStatefulSet, SSType, SpecType, MgmtInv
<1>1. new.exists /\ new.image = mem.image /\ new.replicas = mem.replicas
  BY DEF initMgmtStatefulSet
<1>2. \/ UNCHANGED stateful /\ (ssView # ss \/
                                (ss.exists /\ ss.image = mem.image /\ ss.replicas = mem.replicas))
      \/ StoreSS(new)
  BY <1>1 DEF StatefulSetExists, shouldUpdateManagementStatefulSet
<1>3. /\ ss' \in SSType /\ (~ssEvent' => ssView' = ss')
      /\ ~ssEvent' => ss'.exists /\ ss'.image = mem.image /\ ss'.replicas = mem.replicas
  <2>1. CASE UNCHANGED stateful /\ (ssView # ss \/
                                    (ss.exists /\ ss.image = mem.image /\ ss.replicas = mem.replicas))
    BY <2>1 DEF stateful, MgmtInv, LagInv
  <2>2. CASE StoreSS(new)
    <3> HIDE DEF new
    <3> QED  BY <1>t, <1>1, <2>2 DEF StoreSS, MgmtInv, LagInv
  <2> QED  BY <1>2, <2>1, <2>2
<1>4. doc # "none"
  BY <1>0, SettingsAreThere DEF MgmtInv, DatabaseInv, PastDB
<1>5. SettledAtRest'
  <2> SUFFICES ASSUME ~queued', ~ssEvent'
               PROVE  /\ ~spec.disabled /\ mongo = initMongoStatefulSet(spec)
                      /\ doc = spec.settings /\ cm = initConfigMap(spec)
                      /\ gui.exists
                      /\ spec.externalIPs.given => gui = initMgmtGuiService(spec)
                      /\ ss'.exists /\ ss'.image = spec.image /\ ss'.replicas = spec.replicas
    BY <1>0 DEF SettledAtRest, AtRest
  <2>1. mem = spec
    BY <1>0 DEF MgmtInv, LagInv
  <2> QED  BY <1>0, <1>3, <2>1 DEF MgmtInv, DatabaseInv, ConfigInv, PastDB, Bundled
<1> QED
  BY <1>0, <1>3, <1>4, <1>5
  DEF MgmtInv, PC, PastDB, DatabaseInv, ConfigInv, LagInv, InitialisedFirst

\* The end of a removing cycle: a StatefulSet the informer does not show has
\* an event on its way.
LEMMA StatefulSetGone ==
    ASSUME MgmtInv, StatefulSetRemoved
    PROVE  MgmtInv'
<1>0. /\ pc = "removeStatefulSet" /\ pc' = "idle" /\ (~queued' => ~queued)
      /\ UNCHANGED <<spec, mem, mongo, dbUp, doc, job, cm, gui, pods>>
  BY DEF StatefulSetRemoved, EndCycle, Frame, database, objects, MgmtInv
<1>1. /\ ss' \in SSType /\ (~ssEvent' => ssView' = ss')
      /\ ss'.exists => ss.exists
      /\ ~ssEvent' => ~ss'.exists
  BY NoSSType DEF StatefulSetRemoved, StoreSS, stateful, MgmtInv, LagInv
<1>2. SettledAtRest'
  BY <1>0, <1>1 DEF MgmtInv, LagInv, ConfigInv, SettledAtRest, AtRest
<1> QED
  BY <1>0, <1>1, <1>2
  DEF MgmtInv, PC, PastDB, DatabaseInv, ConfigInv, LagInv, InitialisedFirst

\* Steps that are not the operator's own.
LEMMA EnvironmentStep ==
    ASSUME MgmtInv, Environment
    PROVE  MgmtInv'
<1> USE DEF MgmtInv, PC, PastDB, DatabaseInv, ConfigInv, LagInv, InitialisedFirst,
            SettledAtRest, AtRest, database, objects, stateful, operator, bounds
<1>1. CASE SSViewSync
  BY <1>1 DEF SSViewSync
<1>2. CASE MongoStarts
  <2>1. ASSUME pc = "db" PROVE Bundled(mem)
    BY <1>2, <2>1 DEF MongoStarts
  <2> QED  BY <1>2, <2>1 DEF MongoStarts
<1>3. CASE MongoStops
  BY <1>3 DEF MongoStops
<1>4. CASE InitJobSucceeds
  BY <1>4, SettingsAreThere DEF InitJobSucceeds, DefaultSettings
<1>5. CASE PodsStart
  <2>1. pods'.stamp \in Nat
    BY <1>5 DEF PodsStart, SSType
  <2> QED  BY <1>5, <2>1 DEF PodsStart
<1>6. CASE PodsStop
  BY <1>6 DEF PodsStop, NoPods
<1>7. CASE EditSpec
  BY <1>7 DEF EditSpec
<1>8. CASE Crash
  BY <1>8 DEF Crash
<1>9. CASE InitJobFails
  BY <1>9 DEF InitJobFails
<1> QED
  BY <1>1, <1>2, <1>3, <1>4, <1>5, <1>6, <1>7, <1>8, <1>9 DEF Environment

-------------------------------------------------------------------------------
(* The theorems *)

\* The invariant holds in every state: what a cycle has done so far, by the
\* place it has come to, and how far the informer may be behind.
THEOREM MgmtInvariant == Spec => []MgmtInv
<1>1. MgmtInv /\ [Next]_vars => MgmtInv'
  <2> SUFFICES ASSUME MgmtInv, [Next]_vars
               PROVE  MgmtInv'
    OBVIOUS
  <2>1. CASE Reconcile
    BY <2>1, CycleStarts, SettingsStored, ManagementRestarted, ConfigMapStored, GuiServiceStored,
       StatefulSetStored, StatefulSetGone DEF Reconcile
  <2>2. CASE Environment
    BY <2>2, EnvironmentStep
  <2>3. CASE UNCHANGED vars
    BY <2>3 DEF vars, database, objects, stateful, MgmtInv, DatabaseInv, ConfigInv, LagInv,
       InitialisedFirst, SettledAtRest, AtRest
  <2> QED  BY <2>1, <2>2, <2>3 DEF Next
<1> QED  BY <1>1, InitMgmt, PTL DEF Spec

\* The management server is never deployed on a database that the init-DB job
\* has not written, whatever fails or crashes on the way.
THEOREM DatabaseComesFirst == Spec => []InitialisedFirst
<1>1. MgmtInv => InitialisedFirst
  BY DEF MgmtInv
<1> QED  BY <1>1, MgmtInvariant, PTL

\* Whenever the operator rests, the settings in the database, the
\* configuration map and the StatefulSet are the ones the spec asks for,
\* although the informer lags and errors of the last steps are dropped.
THEOREM ManagementSettles == Spec => []SettledAtRest
<1>1. MgmtInv => SettledAtRest
  BY DEF MgmtInv
<1> QED  BY <1>1, MgmtInvariant, PTL
===============================================================================
