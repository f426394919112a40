--------------------------- MODULE ObjectSyncProofs ---------------------------
(***************************************************************************)
(* Proofs about ObjectSync: for every list of files, every set of specs,   *)
(* any number of edits and crashes, stale caches and dropped errors alone  *)
(* never leave the objects other than the spec asks; and an update of the  *)
(* configuration map is final and keeps the parameters users added.        *)
(***************************************************************************)
EXTENDS ObjectSync, TLAPS

-------------------------------------------------------------------------------
(* The dictionaries of nvmesh.conf *)

\* Once the merged dictionary is stored, shouldUpdateNVMeshConf sees no
\* difference any more, and no parameter users added has been lost: the
\* operator neither rewrites the map for ever nor takes from it.
THEOREM MergeSettles ==
    ASSUME NEW expected, NEW found
    PROVE  /\ ~Differs(expected, CopyMissing(expected, found))
           /\ \A k \in DOMAIN found \ DOMAIN expected :
                 Lookup(CopyMissing(expected, found), k) = found[k]
BY DEF Differs, CopyMissing, Lookup

\* The lines a dictionary can be written with.
LinesOf(dict) == [key : KnownKeys, value : {dict[k] : k \in DOMAIN dict}]

\* The text has one line for each of the keys that dict has.
Writes(text, dict, keys) ==
    /\ text \in Seq(LinesOf(dict))
    /\ Keys(text) = keys \cap DOMAIN dict
    /\ \A i \in DOMAIN text : text[i].value = dict[text[i].key]
    /\ \A i, j \in DOMAIN text : text[i].key = text[j].key => i = j

\* The line of one key.
OptionalLine(dict, k) == IF k \in DOMAIN dict THEN <<Line(k, dict[k])>> ELSE <<>>

\* One more key is written, if the dictionary has it.
LEMMA WriteOneMore ==
    ASSUME NEW dict, NEW keys, NEW text, Writes(text, dict, keys),
           NEW k \in KnownKeys \ keys
    PROVE  Writes(text \o OptionalLine(dict, k), dict, keys \cup {k})
  <1>1. CASE k \notin DOMAIN dict
    <2>1. text \o OptionalLine(dict, k) = text
      BY <1>1 DEF OptionalLine, Writes
    <2> QED
      BY <1>1, <2>1 DEF Writes
  <1>2. CASE k \in DOMAIN dict
    <2>1. PICK l : l = Line(k, dict[k])
      OBVIOUS
    <2>2. l \in LinesOf(dict) /\ l.key = k /\ l.value = dict[k]
      BY <1>2, <2>1 DEF Line, LinesOf
    <2>3. PICK new : new = text \o <<l>>
      OBVIOUS
    <2>4. /\ new \in Seq(LinesOf(dict)) /\ Len(new) = Len(text) + 1
          /\ \A i \in 1..Len(text) : new[i] = text[i]
          /\ new[Len(text) + 1] = l
      BY <2>2, <2>3 DEF Writes
    <2>5. /\ DOMAIN text = 1..Len(text) /\ DOMAIN new = 1..(Len(text) + 1)
          /\ Len(text) \in Nat
      BY <2>4 DEF Writes
    <2>6. Keys(new) = Keys(text) \cup {k}
      <3>1. ASSUME NEW x \in Keys(new) PROVE x \in Keys(text) \cup {k}
        BY <2>2, <2>4, <2>5 DEF Keys
      <3>2. ASSUME NEW x \in Keys(text) PROVE x \in Keys(new)
        BY <2>4, <2>5 DEF Keys
      <3>3. k \in Keys(new)
        BY <2>2, <2>4, <2>5 DEF Keys
      <3> QED
        BY <3>1, <3>2, <3>3
    <2>7. \A i \in DOMAIN new : new[i].value = dict[new[i].key]
      BY <2>2, <2>4, <2>5 DEF Writes
    <2>8. \A i \in DOMAIN text : text[i].key # k
      BY DEF Writes, Keys
    <2>9. \A i, j \in DOMAIN new : new[i].key = new[j].key => i = j
      BY <2>2, <2>4, <2>5, <2>8 DEF Writes
    <2>10. text \o OptionalLine(dict, k) = new
      BY <1>2, <2>1, <2>3 DEF OptionalLine
    <2>11. Keys(new) = (keys \cup {k}) \cap DOMAIN dict
      BY <1>2, <2>6 DEF Writes
    <2> QED
      BY <2>4, <2>7, <2>9, <2>10, <2>11 DEF Writes
  <1> QED
    BY <1>1, <1>2

\* The first n of the sorted keys.
FirstKeys(n) == {SortedKeys[i] : i \in 1..n}

\* The keys differ from each other.
LEMMA KeysDiffer ==
    /\ DOMAIN SortedKeys = 1..6
    /\ \A i, j \in 1..6 : SortedKeys[i] = SortedKeys[j] => i = j
  <1>1. DOMAIN SortedKeys = 1..6
    BY DEF SortedKeys
  <1>2. \A i \in 1..6 : i \in {1, 2, 3, 4, 5, 6}
    OBVIOUS
  <1>3. /\ SortedKeys[1] = "CLOUD_OPTIMIZED" /\ SortedKeys[2] = "EXCLUDE_DRIVE_SERIALS"
        /\ SortedKeys[3] = "K8S_ENV" /\ SortedKeys[4] = "MANAGEMENT_SERVERS"
        /\ SortedKeys[5] = "TCP_ENABLED" /\ SortedKeys[6] = "USER_PARAMETER"
    BY DEF SortedKeys
  <1>4. \A i, j \in {1, 2, 3, 4, 5, 6} : SortedKeys[i] = SortedKeys[j] => i = j
    BY <1>3
  <1> QED
    BY <1>1, <1>2, <1>4

\* The loop of configDictToString comes to its next key.
LEMMA WriteNext ==
    ASSUME NEW dict, NEW n \in 0..5, NEW m, m = n + 1,
           NEW text, Writes(text, dict, FirstKeys(n))
    PROVE  Writes(text \o OptionalLine(dict, SortedKeys[m]), dict, FirstKeys(m))
  <1>1. SortedKeys[m] \in KnownKeys \ FirstKeys(n)
    BY KeysDiffer DEF KnownKeys, FirstKeys
  <1>2. FirstKeys(m) = FirstKeys(n) \cup {SortedKeys[m]}
    <2>1. 1..m = 1..n \cup {m}
      OBVIOUS
    <2> QED
      BY <2>1 DEF FirstKeys
  <1> QED
    BY <1>1, <1>2, WriteOneMore

\* configDictToString writes every key of the dictionary.
LEMMA TextOfDict ==
    ASSUME NEW dict PROVE Writes(configDictToString(dict), dict, KnownKeys)
  <1> DEFINE line(i) == OptionalLine(dict, SortedKeys[i])
             t1 == line(1)
             t2 == t1 \o line(2)
             t3 == t2 \o line(3)
             t4 == t3 \o line(4)
             t5 == t4 \o line(5)
             t6 == t5 \o line(6)
  <1>0. Writes(<<>>, dict, FirstKeys(0))
    BY DEF Writes, Keys, FirstKeys
  <1>1. Writes(t1, dict, FirstKeys(1))
    <2>1. PICK t0 : t0 = <<>>
      OBVIOUS
    <2>2. t0 \o line(1) = line(1)
      BY <2>1 DEF OptionalLine
    <2>3. Writes(t0, dict, FirstKeys(0))
      BY <1>0, <2>1
    <2>4. Writes(t0 \o line(1), dict, FirstKeys(1))
      BY <2>3, WriteNext
    <2> QED
      BY <2>2, <2>4
  <1> HIDE DEF t1
  <1>2. Writes(t2, dict, FirstKeys(2))
    BY <1>1, WriteNext
  <1> HIDE DEF t2
  <1>3. Writes(t3, dict, FirstKeys(3))
    BY <1>2, WriteNext
  <1> HIDE DEF t3
  <1>4. Writes(t4, dict, FirstKeys(4))
    BY <1>3, WriteNext
  <1> HIDE DEF t4
  <1>5. Writes(t5, dict, FirstKeys(5))
    BY <1>4, WriteNext
  <1> HIDE DEF t5
  <1>6. Writes(t6, dict, FirstKeys(6))
    BY <1>5, WriteNext
  <1>7. t6 = configDictToString(dict)
    BY DEF t1, t2, t3, t4, t5, configDictToString, OptionalLine
  <1>8. FirstKeys(6) = KnownKeys
    BY KeysDiffer DEF FirstKeys, KnownKeys
  <1> QED
    BY <1>6, <1>7, <1>8

\* A text with one line for each key reads as the dictionary it was written from.
LEMMA ReadBack ==
    ASSUME NEW dict, dict = [k \in DOMAIN dict |-> dict[k]],
           DOMAIN dict \subseteq KnownKeys
    PROVE  configStringToDict(configDictToString(dict)) = dict
  <1>1. PICK text : text = configDictToString(dict)
    OBVIOUS
  <1>2. Writes(text, dict, KnownKeys)
    BY <1>1, TextOfDict
  <1>3. Keys(text) = DOMAIN dict
    BY <1>2 DEF Writes
  <1>4. ASSUME NEW k \in Keys(text)
        PROVE  configStringToDict(text)[k] = dict[k]
    <2> DEFINE IsLast(i) == /\ text[i].key = k
                            /\ \A j \in DOMAIN text : text[j].key = k => j <= i
    <2>1. PICK i \in DOMAIN text : text[i].key = k
      BY DEF Keys
    <2>2. IsLast(i)
      BY <1>2, <2>1 DEF Writes
    <2>3. PICK last : last = CHOOSE j \in DOMAIN text : IsLast(j)
      OBVIOUS
    <2>4. last \in DOMAIN text /\ text[last].key = k
      BY <2>2, <2>3
    <2>5. text[last].value = dict[k]
      BY <1>2, <2>4 DEF Writes
    <2>6. configStringToDict(text)[k] = text[last].value
      BY <2>3 DEF configStringToDict
    <2> QED
      BY <2>5, <2>6
  <1>5. configStringToDict(text) = [k \in Keys(text) |-> configStringToDict(text)[k]]
    BY DEF configStringToDict
  <1> QED
    BY <1>1, <1>3, <1>4, <1>5

-------------------------------------------------------------------------------
(* The inductive invariant *)

Shape(f) ==
    /\ f = [o \in Object |-> f[o]]
    /\ \A o \in Object : /\ f[o] = [exists |-> f[o].exists, body |-> f[o].body]
                         /\ f[o].exists \in BOOLEAN

\* The informer is behind only on objects with an event on its way, and on
\* the contents of a ConfigMap.
ViewLag ==
    \A o \in Object \ pending : /\ view[o].exists = objs[o].exists
                                /\ o \in Workloads => view[o] = objs[o]

\* The objects the running cycle has passed are as the spec asks, or an event
\* is on its way that will start another cycle.
Passed ==
    ~queued /\ pos > 0
       => /\ mem = spec
          /\ pending = {} => \A i \in 1..(pos - 1) : Matches(Files[i], spec)

SyncInv ==
    /\ spec \in Specs /\ mem \in Specs
    /\ pos \in 0..Len(Files) /\ queued \in BOOLEAN /\ pending \subseteq Object
    /\ Shape(objs) /\ Shape(view)
    /\ ViewLag
    /\ Passed
    /\ ConvergedAtRest

\* The files are the objects.
LEMMA FilesCoverObjects ==
    /\ CoreCount \in 0..Len(Files)
    /\ Len(Files) \in Nat \ {0}
    /\ \A i \in 1..Len(Files) : Files[i] \in Object
    /\ \A o \in Object : \E i \in 1..Len(Files) : Files[i] = o
BY FilesAssumption DEF Object

\* The shape of what the operator writes, and the fields it compares.
LEMMA BodiesOfObjects ==
    ASSUME NEW o \in Object, NEW s, NEW found
    PROVE  /\ Absent(o) = [exists |-> FALSE, body |-> Absent(o).body]
           /\ InitObject(o, s) = [exists |-> TRUE, body |-> InitObject(o, s).body]
           /\ Replacement(o, InitObject(o, s), found)
                 = [exists |-> TRUE, body |-> Replacement(o, InitObject(o, s), found).body]
           /\ o \in Workloads
                 => /\ InitObject(o, s).body.image = s.version
                    /\ Replacement(o, InitObject(o, s), found) = InitObject(o, s)
           /\ o = "controller"
                 => o \in Workloads /\ InitObject(o, s).body.replicas = s.replicas
<1>1. Absent(o) = [exists |-> FALSE, body |-> Absent(o).body]
  BY DEF Absent
<1>2. InitObject(o, s) = [exists |-> TRUE, body |-> InitObject(o, s).body]
  BY DEF InitObject
<1>3. Replacement(o, InitObject(o, s), found)
         = [exists |-> TRUE, body |-> Replacement(o, InitObject(o, s), found).body]
  <2>1. CASE o = "config"
    BY <2>1 DEF Replacement
  <2>2. CASE o # "config"
    BY <1>2, <2>2 DEF Replacement
  <2> QED  BY <2>1, <2>2
<1>4. ASSUME o \in Workloads
      PROVE  /\ InitObject(o, s).body.image = s.version
             /\ Replacement(o, InitObject(o, s), found) = InitObject(o, s)
  BY <1>4 DEF InitObject, Replacement, Workloads, initDaemonSets,
     initCSINodeDriverDaemonSet, initCSIControllerStatefulSet
<1>5. ASSUME o = "controller"
      PROVE  o \in Workloads /\ InitObject(o, s).body.replicas = s.replicas
  BY <1>5 DEF InitObject, Workloads, initCSIControllerStatefulSet
<1> QED  BY <1>1, <1>2, <1>3, <1>4, <1>5

\* Storing an object: what it does not touch, and what becomes of the lag.
LEMMA StoreKeepsInvariant ==
    ASSUME NEW o \in Object, NEW new, SyncInv, Store(o, new),
           new = [exists |-> new.exists, body |-> new.body], new.exists \in BOOLEAN,
           view' = view
    PROVE  /\ Shape(objs)' /\ Shape(view)' /\ ViewLag' /\ (pending \subseteq Object)'
           /\ pending \subseteq pending'
           /\ objs'[o] = new
           /\ \A x \in Object \ {o} : objs'[x] = objs[x]
           /\ o \in pending' \/ (new.exists = objs[o].exists /\
                                 (o \in Workloads => new = objs[o]))
<1> USE DEF SyncInv
<1>1. /\ objs' = [objs EXCEPT ![o] = new]
      /\ pending' = IF Notifies(o, objs[o], new) THEN pending \cup {o} ELSE pending
  BY DEF Store
<1>2. objs'[o] = new /\ \A x \in Object \ {o} : objs'[x] = objs[x]
  BY <1>1 DEF Shape
<1>3. Shape(objs)'
  <2>1. objs' = [x \in Object |-> objs'[x]]
    BY <1>1 DEF Shape
  <2> QED  BY <1>2, <2>1 DEF Shape
<1>4. Shape(view)'
  BY DEF Shape
<1>5. o \in pending' \/ (new.exists = objs[o].exists /\ (o \in Workloads => new = objs[o]))
  BY <1>1 DEF Notifies
<1>6. pending \subseteq pending' /\ pending' \subseteq Object
  BY <1>1
<1>7. ViewLag'
  BY <1>2, <1>5, <1>6 DEF ViewLag
<1> QED  BY <1>2, <1>3, <1>4, <1>5, <1>6, <1>7

\* A step of the pass over the files that leaves its object as the spec asks
\* or with an event on its way.
LEMMA PassOneFile ==
    ASSUME SyncInv, NEW o \in Object, pos > 0, Files[pos] = o, NextFile,
           UNCHANGED <<spec, mem, queued>>,
           pending \subseteq pending',
           \A x \in Object \ {o} : objs'[x] = objs[x],
           ~queued => o \in pending' \/ Matches(o, spec)'
    PROVE  /\ (pos \in 0..Len(Files))' /\ Passed' /\ ConvergedAtRest'
<1> USE FilesCoverObjects DEF SyncInv
<1>1. (pos \in 0..Len(Files))'
  BY DEF NextFile
<1>2. ASSUME ~queued
      PROVE  /\ mem = spec
             /\ pending' = {} => \A i \in 1..pos : Matches(Files[i], spec)'
  <2>1. mem = spec
    BY <1>2 DEF Passed
  <2>2. ASSUME pending' = {}, NEW i \in 1..pos
        PROVE  Matches(Files[i], spec)'
    <3>1. CASE Files[i] = o  BY <1>2, <2>2, <3>1
    <3>2. CASE Files[i] # o
      <4>1. Files[i] \in Object \ {o} /\ i \in 1..(pos - 1)  BY <3>2
      <4>2. Matches(Files[i], spec)  BY <1>2, <2>2, <4>1 DEF Passed
      <4> QED  BY <4>1, <4>2 DEF Matches, Enabled
    <3> QED  BY <3>1, <3>2
  <2> QED  BY <2>1, <2>2
<1>3. Passed'
  BY <1>2 DEF NextFile, Passed
<1>4. ConvergedAtRest'
  <2> SUFFICES ASSUME pos' = 0, ~queued, pending' = {}, NEW x \in Object
               PROVE  Matches(x, spec)'
    BY DEF ConvergedAtRest
  <2>1. pos = Len(Files)
    BY DEF NextFile
  <2>2. PICK i \in 1..Len(Files) : Files[i] = x
    OBVIOUS
  <2> QED  BY <1>2, <2>1, <2>2
<1> QED  BY <1>1, <1>3, <1>4

\* An error: some object the informer shows is gone, and the event of its
\* deletion is still to come.
LEMMA ErrorsAreMadeGood ==
    ASSUME SyncInv, NEW o \in Object, view[o].exists, ~objs[o].exists,
           pos > 0, ReturnError, SyncFrame
    PROVE  SyncInv'
<1>1. o \in pending
  BY DEF SyncInv, ViewLag
<1> QED
  <2>1. UNCHANGED <<spec, mem, queued, objs, view, pending>>
    BY DEF ReturnError, Keep, SyncFrame
  <2>2. (pos \in 0..Len(Files))' /\ pos > 0
    BY FilesCoverObjects DEF ReturnError, SyncInv
  <2>3. Passed' /\ ConvergedAtRest'
    BY <1>1, <2>1, <2>2 DEF SyncInv, Passed, ConvergedAtRest
  <2> QED
    BY <2>1, <2>2, <2>3 DEF SyncInv, Shape, ViewLag

\* Creating or updating an object keeps the invariant.
LEMMA ExistsStep ==
    ASSUME SyncInv, NEW o \in Object, makeSureObjectExists(o)
    PROVE  SyncInv'
<1> DEFINE new == InitObject(o, mem)
<1>0. pos > 0 /\ Files[pos] = o /\ Enabled(o, mem) /\ SyncFrame
  BY DEF makeSureObjectExists
<1>s. UNCHANGED <<spec, mem, queued>> /\ view' = view
  BY <1>0 DEF SyncFrame
<1>m. ~queued => mem = spec
  BY <1>0 DEF SyncInv, Passed
<1>1. CASE ~view[o].exists /\ objs[o].exists /\ NextFile /\ Keep
  <2>1. o \in pending
    BY <1>1 DEF SyncInv, ViewLag
  <2>2. (pos \in 0..Len(Files))' /\ Passed' /\ ConvergedAtRest'
    BY <1>0, <1>s, <1>1, <2>1, PassOneFile DEF Keep
  <2> QED  BY <1>s, <1>1, <2>2 DEF SyncInv, Keep, Shape, ViewLag
<1>2. CASE ~view[o].exists /\ ~objs[o].exists /\ NextFile /\ Store(o, new)
  <2>1. new = [exists |-> TRUE, body |-> new.body]
    BY BodiesOfObjects
  <2>2. o \in pending'
    BY <1>2, <2>1 DEF Store, Notifies
  <2> HIDE DEF new
  <2>3. /\ Shape(objs)' /\ Shape(view)' /\ ViewLag' /\ (pending \subseteq Object)'
        /\ pending \subseteq pending' /\ \A x \in Object \ {o} : objs'[x] = objs[x]
    BY <1>s, <1>2, <2>1, StoreKeepsInvariant
  <2>4. (pos \in 0..Len(Files))' /\ Passed' /\ ConvergedAtRest'
    BY <1>0, <1>s, <1>2, <2>2, <2>3, PassOneFile
  <2> QED  BY <1>s, <2>3, <2>4 DEF SyncInv
<1>3. CASE /\ view[o].exists /\ objs[o].exists /\ NextFile
           /\ Store(o, Replacement(o, new, view[o]))
  <2> DEFINE rep == Replacement(o, new, view[o])
  <2>1. rep = [exists |-> TRUE, body |-> rep.body]
    BY BodiesOfObjects
  <2>d. /\ o \in Workloads => rep.body.image = mem.version
        /\ o = "controller" => rep.body.replicas = mem.replicas
    BY BodiesOfObjects
  <2> HIDE DEF rep
  <2>3. /\ Shape(objs)' /\ Shape(view)' /\ ViewLag' /\ (pending \subseteq Object)'
        /\ pending \subseteq pending' /\ \A x \in Object \ {o} : objs'[x] = objs[x]
        /\ objs'[o] = rep
    <3>1. Store(o, rep)  BY <1>3 DEF rep
    <3> QED  BY <1>s, <3>1, <2>1, StoreKeepsInvariant
  <2>4. ~queued => Matches(o, spec)'
    BY <1>0, <1>s, <1>m, <2>1, <2>d, <2>3 DEF Matches
  <2>5. (pos \in 0..Len(Files))' /\ Passed' /\ ConvergedAtRest'
    BY <1>0, <1>s, <1>3, <2>3, <2>4, PassOneFile
  <2> QED  BY <1>s, <2>3, <2>5 DEF SyncInv
<1>4. CASE view[o].exists /\ ~objs[o].exists /\ ReturnError
  BY <1>0, <1>4, ErrorsAreMadeGood
<1>5. CASE view[o].exists /\ ~ShouldUpdateObject(o, new, view[o]) /\ NextFile /\ Keep
  <2>1. /\ o \in Workloads => view[o].body.image = mem.version
        /\ o = "controller" => o \in Workloads /\ view[o].body.replicas = mem.replicas
    <3>1. ASSUME o \in Workloads
          PROVE  new.body.image = mem.version /\ o # "config"
      BY <3>1, BodiesOfObjects DEF Workloads
    <3>2. ASSUME o = "controller"
          PROVE  o \in Workloads /\ new.body.replicas = mem.replicas
      BY <3>2, BodiesOfObjects
    <3> HIDE DEF new
    <3> QED  BY <1>5, <3>1, <3>2 DEF ShouldUpdateObject, shouldUpdateDaemonSet,
                                           shouldUpdateCSINodeDriverDaemonSet,
                                     shouldUpdateCSIControllerStatefulSet
  <2>2. ~queued => o \in pending \/ Matches(o, spec)
    BY <1>0, <1>m, <1>5, <2>1 DEF SyncInv, ViewLag, Matches
  <2>3. ~queued => o \in pending' \/ Matches(o, spec)'
    BY <1>s, <1>5, <2>2 DEF Keep, Matches
  <2>4. (pos \in 0..Len(Files))' /\ Passed' /\ ConvergedAtRest'
    BY <1>0, <1>s, <1>5, <2>3, PassOneFile DEF Keep
  <2> QED  BY <1>s, <1>5, <2>4 DEF SyncInv, Keep, Shape, ViewLag
<1>6. objs[o].exists \in BOOLEAN /\ view[o].exists \in BOOLEAN
  BY DEF SyncInv, Shape
<1> QED
  BY <1>1, <1>2, <1>3, <1>4, <1>5, <1>6 DEF makeSureObjectExists

\* So does removing one.
LEMMA RemovedStep ==
    ASSUME SyncInv, NEW o \in Object, makeSureObjectRemoved(o)
    PROVE  SyncInv'
<1>0. pos > 0 /\ Files[pos] = o /\ ~Enabled(o, mem) /\ SyncFrame
  BY DEF makeSureObjectRemoved
<1>s. UNCHANGED <<spec, mem, queued>> /\ view' = view
  BY <1>0 DEF SyncFrame
<1>m. ~queued => mem = spec
  BY <1>0 DEF SyncInv, Passed
<1>1. CASE ~view[o].exists /\ NextFile /\ Keep
  <2>1. ~queued => o \in pending \/ ~objs[o].exists
    BY <1>1 DEF SyncInv, ViewLag
  <2>2. ~queued => o \in pending' \/ Matches(o, spec)'
    BY <1>0, <1>s, <1>m, <1>1, <2>1 DEF Keep, Matches
  <2>3. (pos \in 0..Len(Files))' /\ Passed' /\ ConvergedAtRest'
    BY <1>0, <1>s, <1>1, <2>2, PassOneFile DEF Keep
  <2> QED  BY <1>s, <1>1, <2>3 DEF SyncInv, Keep, Shape, ViewLag
<1>2. CASE view[o].exists /\ objs[o].exists /\ Store(o, Absent(o)) /\ NextFile
  <2> DEFINE new == Absent(o)
  <2>1. new = [exists |-> FALSE, body |-> new.body]
    BY BodiesOfObjects
  <2>0. Store(o, new) /\ new.exists = FALSE /\ objs[o].exists
    BY <1>2, <2>1
  <2> HIDE DEF new
  <2>2. o \in pending'
    BY <2>0 DEF Store, Notifies
  <2>3. /\ Shape(objs)' /\ Shape(view)' /\ ViewLag' /\ (pending \subseteq Object)'
        /\ pending \subseteq pending' /\ \A x \in Object \ {o} : objs'[x] = objs[x]
    <3>1. Store(o, new)  BY <2>0
    <3> QED  BY <1>s, <3>1, <2>1, StoreKeepsInvariant
  <2>4. (pos \in 0..Len(Files))' /\ Passed' /\ ConvergedAtRest'
    BY <1>0, <1>s, <1>2, <2>2, <2>3, PassOneFile
  <2> QED  BY <1>s, <2>3, <2>4 DEF SyncInv
<1>3. CASE view[o].exists /\ ~objs[o].exists /\ ReturnError
  BY <1>0, <1>3, ErrorsAreMadeGood
<1> QED  BY <1>1, <1>2, <1>3 DEF makeSureObjectRemoved

\* A new cycle starts from the spec of the resource.
LEMMA CycleStep ==
    ASSUME SyncInv, StartCycle
    PROVE  SyncInv'
<1> USE DEF SyncInv, StartCycle
<1>1. Shape(objs)' /\ Shape(view)' /\ ViewLag'
  BY DEF Shape, ViewLag
<1>2. Passed'
  BY FilesCoverObjects DEF Passed
<1>3. ConvergedAtRest'
  BY DEF ConvergedAtRest
<1>4. (pos \in 0..Len(Files))'
  BY FilesCoverObjects
<1> QED  BY <1>1, <1>2, <1>3, <1>4

-------------------------------------------------------------------------------
(* The environment *)

\* A change by a user: the object changed has an event on its way, or the
\* change is one that the spec does not speak of.
LEMMA UserStoreStep ==
    ASSUME SyncInv, NEW o \in Object, NEW new, Store(o, new), UserFrame,
           UNCHANGED <<spec, queued>>,
           new = [exists |-> new.exists, body |-> new.body], new.exists \in BOOLEAN
    PROVE  SyncInv'
<1>1. /\ Shape(objs)' /\ Shape(view)' /\ ViewLag' /\ (pending \subseteq Object)'
      /\ pending \subseteq pending'
      /\ objs'[o] = new
      /\ \A x \in Object \ {o} : objs'[x] = objs[x]
      /\ o \in pending' \/ (new.exists = objs[o].exists /\ (o \in Workloads => new = objs[o]))
  BY StoreKeepsInvariant DEF UserFrame
<1>2. ASSUME NEW x \in Object, x \in pending \/ Matches(x, spec)
      PROVE  x \in pending' \/ Matches(x, spec)'
  <2>1. x = "controller" => x \in Workloads
    BY DEF Workloads
  <2>2. CASE x = o
    BY <1>1, <1>2, <2>1, <2>2 DEF Matches
  <2>3. CASE x # o
    BY <1>1, <1>2, <2>3 DEF Matches
  <2> QED  BY <2>2, <2>3
<1>3. Passed'
  <2>0. UNCHANGED <<mem, pos>>
    BY DEF UserFrame
  <2>m. ~queued /\ pos > 0 => mem = spec
    BY DEF SyncInv, Passed
  <2>1. ASSUME ~queued, pos > 0, pending' = {}, NEW i \in 1..(pos - 1)
        PROVE  Matches(Files[i], spec)'
    <3>1. Matches(Files[i], spec)
      BY <1>1, <2>1 DEF SyncInv, Passed
    <3>2. Files[i] \in Object
      BY <2>1, FilesCoverObjects DEF SyncInv
    <3> QED  BY <1>2, <2>1, <3>1, <3>2
  <2> QED  BY <2>0, <2>m, <2>1 DEF Passed
<1>4. ConvergedAtRest'
  <2> SUFFICES ASSUME pos = 0, ~queued, pending' = {}, NEW x \in Object
               PROVE  Matches(x, spec)'
    BY DEF ConvergedAtRest, UserFrame
  <2>1. Matches(x, spec)
    BY <1>1 DEF SyncInv, ConvergedAtRest
  <2> QED  BY <1>2, <2>1
<1> QED  BY <1>1, <1>3, <1>4 DEF SyncInv, UserFrame

\* Every change of an object by a user.
LEMMA UserStep ==
    ASSUME SyncInv,
           \/ \E o \in Object : EditWorkload(o) \/ DeleteObject(o)
           \/ \E line \in UserLines : EditConf(line)
    PROVE  SyncInv'
<1>1. ASSUME NEW o \in Object, EditWorkload(o)
      PROVE  SyncInv'
  <2> DEFINE new == [objs[o] EXCEPT !.body.image = "edited"]
  <2>1. objs[o] = [exists |-> objs[o].exists, body |-> objs[o].body] /\ objs[o].exists \in BOOLEAN
    BY DEF SyncInv, Shape
  <2>2. new = [exists |-> objs[o].exists, body |-> new.body]
    BY <2>1
  <2>3. Store(o, new) /\ UserFrame /\ UNCHANGED <<spec, queued>>
    BY <1>1 DEF EditWorkload
  <2> HIDE DEF new
  <2> QED  BY <2>1, <2>2, <2>3, UserStoreStep
<1>2. ASSUME NEW o \in Object, DeleteObject(o)
      PROVE  SyncInv'
  <2> DEFINE new == Absent(o)
  <2>1. new = [exists |-> FALSE, body |-> new.body]
    BY BodiesOfObjects
  <2>2. Store(o, new) /\ UserFrame /\ UNCHANGED <<spec, queued>>
    BY <1>2 DEF DeleteObject
  <2> HIDE DEF new
  <2> QED  BY <2>1, <2>2, UserStoreStep
<1>3. ASSUME NEW line \in UserLines, EditConf(line)
      PROVE  SyncInv'
  <2> DEFINE o == "config"
             new == [objs[o] EXCEPT !.body.conf = Append(@, line)]
  <2>0. o \in Object
    BY <1>3 DEF EditConf
  <2>1. objs[o] = [exists |-> objs[o].exists, body |-> objs[o].body] /\ objs[o].exists \in BOOLEAN
    BY <2>0 DEF SyncInv, Shape
  <2>2. new = [exists |-> objs[o].exists, body |-> new.body]
    BY <2>1
  <2>3. Store(o, new) /\ UserFrame /\ UNCHANGED <<spec, queued>>
    BY <1>3 DEF EditConf
  <2> HIDE DEF new
  <2> QED  BY <2>0, <2>1, <2>2, <2>3, UserStoreStep
<1> QED  BY <1>1, <1>2, <1>3

\* An edit of the spec queues the resource.
LEMMA EditSpecStep ==
    ASSUME SyncInv, EditSpec
    PROVE  SyncInv'
BY DEF SyncInv, EditSpec, Keep, UserFrame, Shape, ViewLag, Passed, ConvergedAtRest

\* A delivered event puts the resource in the queue.
LEMMA ViewSyncStep ==
    ASSUME SyncInv, NEW o \in Object, ViewSync(o)
    PROVE  SyncInv'
<1> USE DEF SyncInv, ViewSync
<1>1. Shape(objs)' /\ Shape(view)'
  BY DEF Shape
<1>2. view'[o] = objs[o] /\ \A x \in Object \ {o} : view'[x] = view[x]
  BY DEF Shape
<1>3. ViewLag'
  BY <1>2 DEF ViewLag
<1>4. Passed'
  BY FilesCoverObjects DEF Passed, Matches
<1>5. ConvergedAtRest'
  BY DEF ConvergedAtRest, Matches
<1> QED  BY <1>1, <1>3, <1>4, <1>5

\* A restarted operator starts with the resource queued.
LEMMA CrashStep ==
    ASSUME SyncInv, Crash
    PROVE  SyncInv'
BY FilesCoverObjects DEF SyncInv, Crash, Shape, ViewLag, Passed, ConvergedAtRest

\* The initial states satisfy the invariant.
LEMMA InitSync ==
    ASSUME Init
    PROVE  SyncInv
<1>1. Shape(objs) /\ Shape(view)
  <2>1. objs = [o \in Object |-> Absent(o)] /\ view = objs
    BY DEF Init
  <2>2. \A o \in Object : objs[o] = [exists |-> FALSE, body |-> Absent(o).body]
    BY <2>1, BodiesOfObjects
  <2>4. objs = [o \in Object |-> objs[o]]
    BY <2>1
  <2>5. \A o \in Object : /\ objs[o] = [exists |-> objs[o].exists, body |-> objs[o].body]
                           /\ objs[o].exists \in BOOLEAN
    <3> TAKE o \in Object
    <3>1. objs[o] = [exists |-> FALSE, body |-> Absent(o).body]
      BY <2>2
    <3> QED  BY <3>1
  <2> QED  BY <2>1, <2>4, <2>5 DEF Shape
<1> QED
  BY <1>1, FilesCoverObjects DEF Init, SyncInv, ViewLag, Passed, ConvergedAtRest

-------------------------------------------------------------------------------
(* The theorem *)

\* Every step keeps the invariant.
LEMMA NextSync == SyncInv /\ [Next]_vars => SyncInv'
<1> SUFFICES ASSUME SyncInv, [Next]_vars
             PROVE  SyncInv'
  OBVIOUS
<1>1. CASE Reconcile
  BY <1>1, CycleStep, ExistsStep, RemovedStep DEF Reconcile, reconcileObject
<1>2. CASE Environment
  BY <1>2, UserStep, EditSpecStep, ViewSyncStep, CrashStep DEF Environment
<1>3. CASE UNCHANGED vars
  BY <1>3 DEF vars, SyncInv, Shape, ViewLag, Passed, ConvergedAtRest, Matches
<1> QED  BY <1>1, <1>2, <1>3 DEF Next

\* For every list of files, every set of specs and any number of edits,
\* deletions and crashes: whenever nothing is queued, running or on its way,
\* every object is as the spec asks.  makeSureObjectExists and
\* makeSureObjectRemoved may act on a stale cache and drop errors only while
\* an event that brings the operator back is still to come.
THEOREM ObjectsConverge == Spec => []ConvergedAtRest
<1>1. Init => SyncInv
  BY InitSync
<1>2. SyncInv => ConvergedAtRest
  BY DEF SyncInv
<1> QED  BY <1>1, <1>2, NextSync, PTL DEF Spec

-------------------------------------------------------------------------------
(* The configuration map: what is written reads back as it was meant *)

\* A text, of whatever values, whose keys are known.
IsText(text) == (\E S : text \in Seq(S)) /\ Keys(text) \subseteq KnownKeys

IsMap(object) ==
    /\ object.body = [modprobe |-> object.body.modprobe, conf |-> object.body.conf]
    /\ IsText(object.body.conf)

\* The map, stored and cached, holds a text with known keys: no key is lost
\* when it is written from a dictionary.
MapInv == SyncInv /\ IsMap(objs["config"]) /\ IsMap(view["config"])

\* What configDictToString writes is such a text.
LEMMA WrittenText ==
    ASSUME NEW dict PROVE IsText(configDictToString(dict))
  <1>1. Writes(configDictToString(dict), dict, KnownKeys)
    BY TextOfDict
  <1> QED
    BY <1>1 DEF IsText, Writes

\* A line added by hand keeps it one.
LEMMA AppendedText ==
    ASSUME NEW text, IsText(text), NEW line, line.key \in KnownKeys
    PROVE  IsText(Append(text, line))
  <1>1. PICK S : text \in Seq(S)
    BY DEF IsText
  <1>2. PICK T : T = S \cup {line}
    OBVIOUS
  <1>3. text \in Seq(T) /\ line \in T
    BY <1>1, <1>2
  <1>4. PICK new : new = Append(text, line)
    OBVIOUS
  <1>5. /\ new \in Seq(T) /\ Len(new) = Len(text) + 1
        /\ \A i \in 1..Len(text) : new[i] = text[i]
        /\ new[Len(text) + 1] = line
    BY <1>3, <1>4
  <1>6. /\ DOMAIN text = 1..Len(text) /\ DOMAIN new = 1..(Len(text) + 1)
        /\ Len(text) \in Nat
    BY <1>3, <1>5
  <1>7. Keys(new) \subseteq KnownKeys
    <2> SUFFICES ASSUME NEW i \in DOMAIN new PROVE new[i].key \in KnownKeys
        BY DEF Keys
    <2>1. CASE i \in 1..Len(text)
      BY <1>5, <1>6, <2>1 DEF IsText, Keys
    <2>2. CASE i = Len(text) + 1
      BY <1>5, <2>2
    <2> QED
      BY <1>6, <2>1, <2>2
  <1> QED
    BY <1>4, <1>5, <1>7 DEF IsText

\* The dictionaries on both sides of the merge.
LEMMA MergedKeys ==
    ASSUME NEW expected, NEW found,
           Keys(expected) \subseteq KnownKeys, Keys(found) \subseteq KnownKeys
    PROVE  configStringToDict(NVMeshConf(expected, found))
              = CopyMissing(configStringToDict(expected), configStringToDict(found))
  <1>1. PICK dict : dict = CopyMissing(configStringToDict(expected),
                                       configStringToDict(found))
    OBVIOUS
  <1>2. dict = [k \in DOMAIN dict |-> dict[k]]
    BY <1>1 DEF CopyMissing
  <1>3. DOMAIN dict \subseteq KnownKeys
    BY <1>1 DEF CopyMissing, configStringToDict
  <1>4. configStringToDict(configDictToString(dict)) = dict
    BY <1>2, <1>3, ReadBack
  <1> QED
    BY <1>1, <1>4 DEF NVMeshConf

\* The map the operator creates, and the one it puts in the place of another.
LEMMA WrittenMap ==
    ASSUME NEW s \in Specs, NEW found
    PROVE  LET new == InitObject("config", s)
               replaced == Replacement("config", new, found)
           IN  /\ IsMap(new) /\ IsMap(replaced)
               /\ replaced.body.modprobe = new.body.modprobe
               /\ replaced.body.conf = NVMeshConf(new.body.conf, found.body.conf)
  <1> DEFINE new == InitObject("config", s)
             replaced == Replacement("config", new, found)
  <1>1. PICK dict : initCoreConfigMap(s)
                       = [modprobe |-> s.moduleParams, conf |-> configDictToString(dict)]
    BY DEF initCoreConfigMap
  <1>2. new.body = [modprobe |-> s.moduleParams, conf |-> configDictToString(dict)]
    BY <1>1 DEF InitObject
  <1> HIDE DEF new
  <1>3. replaced.body = [new.body EXCEPT !.conf = NVMeshConf(@, found.body.conf)]
    BY DEF Replacement
  <1> HIDE DEF replaced
  <1>4. replaced.body = [modprobe |-> s.moduleParams,
                         conf |-> NVMeshConf(new.body.conf, found.body.conf)]
    BY <1>2, <1>3
  <1>5. IsText(new.body.conf) /\ IsText(replaced.body.conf)
    BY <1>2, <1>4, WrittenText DEF NVMeshConf
  <1> QED
    BY <1>2, <1>4, <1>5 DEF IsMap, new, replaced

\* A map that is not there holds no text.
LEMMA AbsentMap == IsMap(Absent("config"))
  <1>0. PICK modprobe : modprobe = ""
    OBVIOUS
  <1>1. PICK text : text = <<>>
    OBVIOUS
  <1>2. PICK map : map = Absent("config")
    OBVIOUS
  <1>3. map.body = [modprobe |-> modprobe, conf |-> text]
    BY <1>0, <1>1, <1>2 DEF Absent
  <1>4. IsText(text)
    <2>1. text \in Seq({}) /\ DOMAIN text = {}
      BY <1>1
    <2> QED
      BY <2>1 DEF IsText, Keys
  <1>5. IsMap(map)
    BY <1>3, <1>4 DEF IsMap
  <1> QED
    BY <1>2, <1>5

\* What a step does to the map: nothing, removal, creation, replacement by
\* the merged one, or a line users add.
MapStep ==
    \/ UNCHANGED objs["config"]
    \/ objs'["config"] = Absent("config")
    \/ /\ pos > 0 /\ ~view["config"].exists
       /\ objs'["config"] = InitObject("config", mem)
    \/ /\ pos > 0
       /\ objs'["config"]
             = Replacement("config", InitObject("config", mem), view["config"])
    \/ /\ pos' = pos
       /\ \E line \in UserLines :
             objs'["config"] = [objs["config"] EXCEPT !.body.conf = Append(@, line)]

\* Storing another object leaves the map alone.
LEMMA StoreElsewhere ==
    ASSUME SyncInv, "config" \in Object, NEW o \in Object, NEW new, Store(o, new)
    PROVE  objs'["config"] = IF o = "config" THEN new ELSE objs["config"]
  BY DEF SyncInv, Shape, Store

LEMMA MapChanges ==
    ASSUME SyncInv, "config" \in Object, [Next]_vars
    PROVE  MapStep /\ view'["config"] \in {view["config"], objs["config"]}
  <1>1. CASE UNCHANGED objs
    <2>1. MapStep
      BY <1>1 DEF MapStep
    <2>2. view'["config"] \in {view["config"], objs["config"]}
      <3>1. CASE Crash
        BY <3>1 DEF Crash
      <3>2. CASE \E o \in Object : ViewSync(o)
        BY <3>2 DEF ViewSync, SyncInv, Shape
      <3>3. CASE ~Crash /\ ~(\E o \in Object : ViewSync(o))
        BY <3>3 DEF Next, Reconcile, StartCycle, reconcileObject,
           makeSureObjectExists, makeSureObjectRemoved, SyncFrame, Environment,
           EditWorkload, DeleteObject, EditSpec, EditConf, UserFrame, vars
      <3> QED
        BY <3>1, <3>2, <3>3
    <2> QED
      BY <2>1, <2>2
  <1>2. ASSUME NEW o \in Object, makeSureObjectExists(o)
        PROVE  MapStep /\ UNCHANGED view
    BY <1>2, StoreElsewhere
       DEF makeSureObjectExists, Keep, ReturnError, SyncFrame, MapStep
  <1>3. ASSUME NEW o \in Object, makeSureObjectRemoved(o)
        PROVE  MapStep /\ UNCHANGED view
    BY <1>3, StoreElsewhere
       DEF makeSureObjectRemoved, Keep, ReturnError, SyncFrame, MapStep
  <1>4. ASSUME NEW o \in Object, EditWorkload(o) \/ DeleteObject(o)
        PROVE  MapStep /\ UNCHANGED view
    BY <1>4, StoreElsewhere
       DEF EditWorkload, DeleteObject, Workloads, UserFrame, MapStep
  <1>5. ASSUME NEW line \in UserLines, EditConf(line)
        PROVE  MapStep /\ UNCHANGED view
    BY <1>5, StoreElsewhere DEF EditConf, UserFrame, MapStep
  <1>6. CASE StartCycle \/ EditSpec \/ Crash \/ (\E o \in Object : ViewSync(o)) \/ UNCHANGED vars
    BY <1>1, <1>6 DEF StartCycle, EditSpec, Keep, Crash, ViewSync, vars
  <1> QED
    BY <1>2, <1>3, <1>4, <1>5, <1>6 DEF Next, Reconcile, reconcileObject, Environment

\* The map stays a map.
LEMMA NextMap ==
    ASSUME MapInv, "config" \in Object, [Next]_vars PROVE MapInv'
  <1>0. SyncInv' /\ mem \in Specs
    BY NextSync DEF MapInv, SyncInv
  <1>1. MapStep /\ view'["config"] \in {view["config"], objs["config"]}
    BY MapChanges DEF MapInv
  <1>2. IsMap(view'["config"])
    BY <1>1 DEF MapInv
  <1>3. IsMap(Absent("config"))
    BY AbsentMap
  <1>4. ASSUME NEW line \in UserLines
        PROVE  IsMap([objs["config"] EXCEPT !.body.conf = Append(@, line)])
    <2>1. PICK c : c = objs["config"]
      OBVIOUS
    <2>2. /\ c = [exists |-> c.exists, body |-> c.body]
          /\ c.body = [modprobe |-> c.body.modprobe, conf |-> c.body.conf]
          /\ IsText(c.body.conf)
      BY <2>1 DEF MapInv, SyncInv, Shape, IsMap
    <2>3. PICK text : text = Append(c.body.conf, line)
      OBVIOUS
    <2>4. IsText(text)
      BY <2>2, <2>3, AppendedText, KeysAssumption
    <2>5. PICK new : new = [c EXCEPT !.body.conf = Append(@, line)]
      OBVIOUS
    <2>6. new.body = [modprobe |-> c.body.modprobe, conf |-> text]
      BY <2>2, <2>3, <2>5
    <2>7. IsMap(new)
      BY <2>4, <2>6 DEF IsMap
    <2> QED
      BY <2>1, <2>5, <2>7
  <1>5. IsMap(objs'["config"])
    BY <1>0, <1>1, <1>3, <1>4, WrittenMap DEF MapStep, MapInv
  <1> QED
    BY <1>0, <1>2, <1>5 DEF MapInv

\* The initial states satisfy the invariant.
LEMMA InitMap ==
    ASSUME Init, "config" \in Object PROVE MapInv
  <1>1. objs["config"] = Absent("config") /\ view["config"] = Absent("config")
    BY DEF Init
  <1> QED
    BY <1>1, InitSync, AbsentMap DEF MapInv

-------------------------------------------------------------------------------
(* The two theorems about the map *)

\* The map that is written in the place of another: its dictionary is the
\* merged one, and the other fields are the expected ones.
LEMMA MergedMap ==
    ASSUME MapInv, NEW new, new = InitObject("config", mem),
           NEW written, written = Replacement("config", new, view["config"])
    PROVE  /\ ConfDict(written) = CopyMissing(ConfDict(new), ConfDict(view["config"]))
           /\ written.body.modprobe = new.body.modprobe
  <1>1. /\ IsMap(new)
        /\ written.body.modprobe = new.body.modprobe
        /\ written.body.conf = NVMeshConf(new.body.conf, view["config"].body.conf)
    BY WrittenMap DEF MapInv, SyncInv
  <1>2. /\ Keys(new.body.conf) \subseteq KnownKeys
        /\ Keys(view["config"].body.conf) \subseteq KnownKeys
    BY <1>1 DEF MapInv, IsMap, IsText
  <1> QED
    BY <1>1, <1>2, MergedKeys DEF ConfDict

\* For every set of specs, of lines users add and any number of crashes: what
\* makeSureObjectExists has written into the map, from whatever copy of it the
\* informer showed, shouldUpdateCoreConfigMap accepts when it compares again.
\* The map is not rewritten in every cycle.
THEOREM UpdatesAreFinal ==
    ASSUME "config" \in Object
    PROVE  Spec => UpdateIsFinal
  <1> DEFINE Final ==
        pos > 0 /\ pos' # pos /\ objs'["config"] # objs["config"] /\ objs'["config"].exists
          => ~ShouldUpdateObject("config", InitObject("config", mem), objs'["config"])
  <1>1. ASSUME MapInv, [Next]_vars PROVE Final
    <2> SUFFICES ASSUME pos' # pos, objs'["config"] # objs["config"],
                        objs'["config"].exists
                 PROVE  ~ShouldUpdateObject("config", InitObject("config", mem),
                                            objs'["config"])
      OBVIOUS
    <2>1. PICK new : new = InitObject("config", mem)
      OBVIOUS
    <2>2. PICK written : written = objs'["config"]
      OBVIOUS
    <2>3. \/ written = new
          \/ written = Replacement("config", new, view["config"])
      <3>1. Absent("config").exists = FALSE
        BY BodiesOfObjects
      <3> QED
        BY <1>1, <2>1, <2>2, <3>1, MapChanges DEF MapStep, MapInv
    <2>4. ~Differs(ConfDict(new), ConfDict(written))
      <3>1. CASE written = new
        BY <3>1 DEF Differs, Lookup
      <3>2. CASE written = Replacement("config", new, view["config"])
        BY <1>1, <2>1, <3>2, MergedMap, MergeSettles
      <3> QED
        BY <2>3, <3>1, <3>2
    <2>5. written.body.modprobe = new.body.modprobe
      BY <1>1, <2>1, <2>3, MergedMap
    <2>6. ~shouldUpdateCoreConfigMap(new.body, written.body)
      BY <2>4, <2>5 DEF shouldUpdateCoreConfigMap, shouldUpdateNVMeshConf, ConfDict
    <2> QED
      BY <2>1, <2>2, <2>6 DEF ShouldUpdateObject
  <1>2. Init => MapInv
    BY InitMap
  <1>3. MapInv /\ [Next]_vars => MapInv'
    BY NextMap
  <1>4. MapInv /\ [Next]_vars => Final
    BY <1>1
  <1> HIDE DEF Final
  <1>5. Spec => [][Final]_vars
    BY <1>2, <1>3, <1>4, PTL DEF Spec
  <1> QED
    BY <1>5 DEF UpdateIsFinal, Final

\* Under the same assumptions: as long as the informer shows the map as it
\* is, no step of the operator changes a parameter that shouldUpdateNVMeshConf
\* does not expect, on the way from the text through the dictionaries back.
THEOREM UserParametersSurvive ==
    ASSUME "config" \in Object
    PROVE  Spec => UserParametersKept
  <1> DEFINE Kept == pos > 0 /\ pos' # pos /\ view["config"] = objs["config"]
                       => KeepsUserParameters
  <1>1. ASSUME MapInv, [Next]_vars PROVE Kept
    <2> SUFFICES ASSUME pos' # pos, view["config"] = objs["config"],
                        objs["config"].exists, objs'["config"].exists,
                        NEW k \in UserParameters
                 PROVE  Lookup(ConfDict(objs'["config"]), k) = ConfDict(objs["config"])[k]
      BY DEF KeepsUserParameters
    <2>1. PICK new : new = InitObject("config", mem)
      OBVIOUS
    <2>2. k \in DOMAIN ConfDict(objs["config"]) \ DOMAIN ConfDict(new)
      BY <2>1 DEF UserParameters
    <2>3. \/ objs'["config"] = objs["config"]
          \/ objs'["config"] = Replacement("config", new, view["config"])
      <3>1. Absent("config").exists = FALSE
        BY BodiesOfObjects
      <3> QED
        BY <1>1, <2>1, <3>1, MapChanges DEF MapStep, MapInv
    <2>4. CASE objs'["config"] = objs["config"]
      BY <2>2, <2>4 DEF Lookup
    <2>5. CASE objs'["config"] = Replacement("config", new, view["config"])
      <3>1. ConfDict(objs'["config"]) = CopyMissing(ConfDict(new), ConfDict(objs["config"]))
        BY <1>1, <2>1, <2>5, MergedMap
      <3> QED
        BY <2>2, <3>1, MergeSettles
    <2> QED
      BY <2>3, <2>4, <2>5
  <1>2. Init => MapInv
    BY InitMap
  <1>3. MapInv /\ [Next]_vars => MapInv'
    BY NextMap
  <1>4. MapInv /\ [Next]_vars => Kept
    BY <1>1
  <1> HIDE DEF Kept
  <1>5. Spec => [][Kept]_vars
    BY <1>2, <1>3, <1>4, PTL DEF Spec
  <1> QED
    BY <1>5 DEF UserParametersKept, Kept

===============================================================================
