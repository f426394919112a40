--------------------------- MODULE CollectLogsProofs ---------------------------
(***************************************************************************)
(* CollectLogs: type correctness, that nothing is taken for collected that *)
(* was not, that no request of a user is lost, and that an entry left in   *)
(* the list is explained by the status, for any number of nodes, requests  *)
(* and mishaps.                                                            *)
(***************************************************************************)
EXTENDS CollectLogs, SequenceTheorems, TLAPS

-------------------------------------------------------------------------------
(* The inductive invariant *)

\* Inside the loop of handleActions.
LoopPC == {"CollectDB", "CollectConfigMaps", "listNodes", "CollectLogs",
           "waitForJobsToFinish", "DeleteJobs", "removeAction"}

\* A list of some of the first n requests, each at most once.
Listing(l, n) ==
    /\ l \in Seq(1..MaxRequests) /\ Len(l) <= n
    /\ \A i \in 1..Len(l) : l[i] <= n
    /\ \A i, j \in 1..Len(l) : l[i] = l[j] => i = j

Lists == /\ Listing(cr.actions, requests) /\ Listing(cache.actions, requests)
         /\ Listing(mem.actions, requests) /\ Listing(pending, requests)

\* The jobs that have succeeded since every request that started afresh.
Known == {j \in Job : \A i \in DOMAIN collected : j \in collected[i]}

\* What is recorded as waited for has been collected.
Honest(status) == "waitForJobsToFinish" \in status.finished => ClusterJobs \subseteq Known

\* A success seen anywhere was one, every copy of the status is honest, and
\* what the wait has struck off its list was collected.
Collected ==
    /\ \A j \in Job : jobs[j] = "succeeded" \/ jobView[j] = "succeeded" => j \in Known
    /\ Honest(cr.status) /\ Honest(cache.status) /\ Honest(mem.status)
    /\ pc \in {"CollectLogs", "waitForJobsToFinish"}
          => ClusterJobs \cup nodeList \subseteq Known \cup todo
    /\ pc \in {"DeleteJobs", "removeAction"}
          => "waitForJobsToFinish" \in mem.status.finished

\* The copy a cycle may store has no entry less than the API server's, but
\* for the ones of the list the loop ranges over.
LoopLists ==
    /\ pc = "removeFinishedActionStatuses" /\ current => mem.actions = cr.actions
    /\ pc \in LoopPC => pending # <<>> /\ ToSet(mem.actions) \subseteq ToSet(pending)
    /\ pc \in LoopPC /\ current => ToSet(cr.actions) \subseteq ToSet(pending)

\* Some entry of l has left the list of the API server, where it never returns.
Outdated(l) == ~(ToSet(l) \subseteq ToSet(cr.actions))

\* With nothing queued the cycle works on the list the informer has; when it
\* ends as a success, all tasks are recorded or an entry is gone.
Explained ==
    /\ pc \in {"idle", "removeFinishedActionStatuses"} => pending = <<>>
    /\ pc # "idle" /\ ~queued
          => cache.actions = IF pc = "removeFinishedActionStatuses" THEN mem.actions
                                                                  ELSE pending
    /\ pc = "updateStatus" => result \in {"successRequeue", "errorRequeue"}
    /\ pc = "manage" /\ result = "success"
          => \/ pending = <<>> \/ Outdated(pending)
             \/ "ActionComplete" \in mem.status.finished
    /\ pc = "idle" /\ ~queued
          => \/ cache.actions = <<>> \/ Outdated(cache.actions)
             \/ ~cr.status.ready \/ "ActionComplete" \in cr.status.finished

\* Tasks are recorded only under the name of an action.
Named(c) == ~c.status.tracked => c.status.finished = {}

\* A cycle that found an empty list ends without a requeue only when it has no
\* task to forget, and so does the resource it leaves behind.
Forgotten ==
    /\ Named(cr) /\ Named(cache) /\ Named(mem)
    /\ pc = "manage" /\ pending = <<>> /\ result \in {"success", "error"}
          => mem.status.finished = {}
    /\ pc = "idle" /\ ~queued /\ cache.actions = <<>> => cr.status.finished = {}

LogsInv == TypeOK /\ Lists /\ Collected /\ LoopLists /\ Explained /\ Forgotten

-------------------------------------------------------------------------------
(* Lists *)

\* What RemoveAt returns: the list without its i-th entry.
LEMMA RemoveAtEntries ==
    ASSUME NEW S, NEW s \in Seq(S), NEW i \in 1..Len(s)
    PROVE  /\ RemoveAt(s, i) \in Seq(S)
           /\ Len(RemoveAt(s, i)) = Len(s) - 1
           /\ \A j \in 1..(Len(s) - 1) :
                 RemoveAt(s, i)[j] = IF j < i THEN s[j] ELSE s[j + 1]
  <1>0. Len(s) \in Nat /\ \A k \in 1..Len(s) : s[k] \in S
    OBVIOUS
  <1>1. PICK a : a = SubSeq(s, 1, i - 1)
    OBVIOUS
  <1>2. PICK b : b = SubSeq(s, i + 1, Len(s))
    OBVIOUS
  <1>3. a \in Seq(S) /\ Len(a) = i - 1 /\ \A j \in 1..(i - 1) : a[j] = s[j]
    <2>1. 1 \in Int /\ i - 1 \in Int /\ \A k \in 1..(i - 1) : s[k] \in S
      BY <1>0
    <2>2. /\ a \in Seq(S) /\ Len(a) = (IF 1 <= i - 1 THEN (i - 1) - 1 + 1 ELSE 0)
          /\ \A j \in 1..((i - 1) - 1 + 1) : a[j] = s[1 + j - 1]
      BY <1>1, <2>1, SubSeqProperties
    <2> QED
      BY <1>0, <2>2
  <1>4. b \in Seq(S) /\ Len(b) = Len(s) - i /\ \A j \in 1..(Len(s) - i) : b[j] = s[i + j]
    <2>1. i + 1 \in Int /\ Len(s) \in Int /\ \A k \in (i + 1)..Len(s) : s[k] \in S
      BY <1>0
    <2>2. /\ b \in Seq(S)
          /\ Len(b) = (IF i + 1 <= Len(s) THEN Len(s) - (i + 1) + 1 ELSE 0)
          /\ \A j \in 1..(Len(s) - (i + 1) + 1) : b[j] = s[(i + 1) + j - 1]
      BY <1>2, <2>1, SubSeqProperties
    <2>3. ASSUME NEW j \in 1..(Len(s) - i) PROVE b[j] = s[i + j]
      <3>1. j \in 1..(Len(s) - (i + 1) + 1) /\ (i + 1) + j - 1 = i + j
        BY <1>0
      <3> QED BY <2>2, <3>1
    <2> QED
      BY <1>0, <2>2, <2>3
  <1>5. RemoveAt(s, i) = a \o b
    BY <1>1, <1>2 DEF RemoveAt
  <1>6. /\ a \o b \in Seq(S) /\ Len(a \o b) = Len(a) + Len(b)
        /\ \A j \in 1..(Len(a) + Len(b)) :
              (a \o b)[j] = IF j <= Len(a) THEN a[j] ELSE b[j - Len(a)]
    BY <1>3, <1>4, ConcatProperties
  <1>7. Len(a) + Len(b) = Len(s) - 1
    BY <1>0, <1>3, <1>4
  <1>8. ASSUME NEW j \in 1..(Len(s) - 1)
        PROVE  (a \o b)[j] = IF j < i THEN s[j] ELSE s[j + 1]
    <2>0. j \in 1..(Len(a) + Len(b))
      BY <1>7
    <2>1. CASE j < i
      <3>1. j <= Len(a) /\ j \in 1..(i - 1)
        BY <1>0, <1>3, <2>1
      <3> QED BY <1>3, <1>6, <2>0, <2>1, <3>1
    <2>2. CASE ~(j < i)
      <3>1. ~(j <= Len(a)) /\ j - Len(a) \in 1..(Len(s) - i) /\ i + (j - Len(a)) = j + 1
        BY <1>0, <1>3, <2>2
      <3> QED BY <1>4, <1>6, <2>0, <2>2, <3>1
    <2> QED BY <2>1, <2>2
  <1> QED
    BY <1>5, <1>6, <1>7, <1>8

\* Taking an entry out of a listing leaves a listing without that entry.
LEMMA ListingRemoved ==
    ASSUME NEW n \in Nat, NEW l, Listing(l, n), NEW i \in 1..Len(l)
    PROVE  /\ Listing(RemoveAt(l, i), n)
           /\ ToSet(RemoveAt(l, i)) \subseteq ToSet(l)
           /\ l[i] \in ToSet(l) /\ l[i] \notin ToSet(RemoveAt(l, i))
  <1>0. l \in Seq(1..MaxRequests) /\ Len(l) \in Nat
    BY DEF Listing
  <1>1. PICK r : r = RemoveAt(l, i)
    OBVIOUS
  <1>2. /\ r \in Seq(1..MaxRequests) /\ Len(r) = Len(l) - 1
        /\ \A j \in 1..(Len(l) - 1) : r[j] = IF j < i THEN l[j] ELSE l[j + 1]
    BY <1>0, <1>1, RemoveAtEntries
  <1>3. \A j \in 1..Len(r) : \E k \in 1..Len(l) :
           r[j] = l[k] /\ k # i /\ k = IF j < i THEN j ELSE j + 1
    BY <1>0, <1>2
  <1>4. DOMAIN r = 1..Len(r) /\ DOMAIN l = 1..Len(l)
    BY <1>0, <1>2
  <1>5. Listing(r, n)
    <2>1. \A j \in 1..Len(r) : r[j] <= n
      BY <1>3 DEF Listing
    <2>2. ASSUME NEW j \in 1..Len(r), NEW k \in 1..Len(r), r[j] = r[k] PROVE j = k
      <3>1. PICK u \in 1..Len(l) : r[j] = l[u] /\ u = IF j < i THEN j ELSE j + 1
        BY <1>3
      <3>2. PICK v \in 1..Len(l) : r[k] = l[v] /\ v = IF k < i THEN k ELSE k + 1
        BY <1>3
      <3>3. u = v
        BY <2>2, <3>1, <3>2 DEF Listing
      <3> QED
        BY <1>2, <3>1, <3>2, <3>3
    <2> QED
      BY <1>0, <1>2, <2>1, <2>2 DEF Listing
  <1>6. ToSet(r) \subseteq ToSet(l)
    BY <1>3, <1>4 DEF ToSet
  <1>7. l[i] \in ToSet(l)
    BY <1>4 DEF ToSet
  <1>8. l[i] \notin ToSet(r)
    BY <1>3, <1>4 DEF ToSet, Listing
  <1> QED
    BY <1>1, <1>5, <1>6, <1>7, <1>8

\* A new request is listed once, and in no older listing.
LEMMA ListingAppended ==
    ASSUME NEW n \in Nat, n < MaxRequests, NEW l, Listing(l, n)
    PROVE  /\ Listing(Append(l, n + 1), n + 1)
           /\ ToSet(Append(l, n + 1)) = ToSet(l) \cup {n + 1}
  <1>0. l \in Seq(1..MaxRequests) /\ Len(l) \in Nat /\ n + 1 \in 1..MaxRequests
    BY LimitsAssumption DEF Listing
  <1>1. PICK r : r = Append(l, n + 1)
    OBVIOUS
  <1>2. /\ r \in Seq(1..MaxRequests) /\ Len(r) = Len(l) + 1
        /\ \A j \in 1..Len(l) : r[j] = l[j]
        /\ r[Len(l) + 1] = n + 1
    BY <1>0, <1>1
  <1>3. DOMAIN r = 1..Len(r) /\ DOMAIN l = 1..Len(l)
    BY <1>0, <1>2
  <1>4. \A j \in 1..Len(r) : j \in 1..Len(l) \/ j = Len(l) + 1
    BY <1>0, <1>2
  <1>5. \A j \in 1..Len(l) : l[j] <= n /\ l[j] \in Nat
    BY <1>0, LimitsAssumption DEF Listing
  <1>6. Listing(r, n + 1)
    <2>1. \A j \in 1..Len(r) : r[j] <= n + 1
      BY <1>2, <1>4, <1>5
    <2>2. \A j, k \in 1..Len(r) : r[j] = r[k] => j = k
      BY <1>2, <1>4, <1>5 DEF Listing
    <2>3. Len(r) <= n + 1
      BY <1>0, <1>2 DEF Listing
    <2> QED
      BY <1>2, <2>1, <2>2, <2>3 DEF Listing
  <1>7. ToSet(r) = ToSet(l) \cup {n + 1}
    <2>1. \A j \in DOMAIN l : j \in DOMAIN r
      BY <1>0, <1>2, <1>3
    <2>2. Len(l) + 1 \in DOMAIN r
      BY <1>0, <1>2, <1>3
    <2> QED
      BY <1>2, <1>3, <1>4, <2>1, <2>2 DEF ToSet
  <1> QED
    BY <1>1, <1>6, <1>7

\* A listing stays one when more is requested, and has nothing newer in it.
LEMMA ListingLasts ==
    ASSUME NEW n \in Nat, NEW l, Listing(l, n)
    PROVE  Listing(l, n + 1) /\ n + 1 \notin ToSet(l)
  <1>1. l \in Seq(1..MaxRequests) /\ Len(l) \in Nat /\ DOMAIN l = 1..Len(l)
    BY DEF Listing
  <1>2. \A j \in 1..Len(l) : l[j] <= n /\ l[j] \in Nat
    BY <1>1, LimitsAssumption DEF Listing
  <1> QED
    BY <1>1, <1>2 DEF Listing, ToSet

LEMMA EmptyListing == Listing(<<>>, 0) /\ ToSet(<<>>) = {} /\ \A n \in Nat : Listing(<<>>, n)
  BY DEF Listing, ToSet

-------------------------------------------------------------------------------
(* Records and functions *)

LEMMA QuietFields ==
    /\ Quiet \in ResourceType /\ Quiet.actions = <<>> /\ Quiet.status.finished = {}
  <1>1. IdleStatus \in StatusType
    BY DEF IdleStatus, StatusType
  <1>2. <<>> \in Seq(1..MaxRequests)
    OBVIOUS
  <1> QED
    BY <1>1, <1>2 DEF Quiet, ResourceType, IdleStatus

LEMMA ResourceFields ==
    ASSUME NEW x \in ResourceType
    PROVE  /\ x.actions \in Seq(1..MaxRequests) /\ x.status \in StatusType
           /\ x.status.finished \subseteq Task /\ x.status.ready \in BOOLEAN
           /\ x.status.tracked \in BOOLEAN
  BY DEF ResourceType, StatusType

\* A resource with another status, or another list.
LEMMA ResourceChanged ==
    ASSUME NEW x \in ResourceType
    PROVE  /\ \A st \in StatusType :
                 /\ [x EXCEPT !.status = st] \in ResourceType
                 /\ [x EXCEPT !.status = st].actions = x.actions
                 /\ [x EXCEPT !.status = st].status = st
           /\ \A l \in Seq(1..MaxRequests) :
                 /\ [x EXCEPT !.actions = l] \in ResourceType
                 /\ [x EXCEPT !.actions = l].actions = l
                 /\ [x EXCEPT !.actions = l].status = x.status
  BY DEF ResourceType

LEMMA StatusChanged ==
    ASSUME NEW st \in StatusType
    PROVE  \A b \in BOOLEAN : /\ [st EXCEPT !.ready = b] \in StatusType
                              /\ [st EXCEPT !.ready = b].finished = st.finished
                              /\ [st EXCEPT !.ready = b].tracked = st.tracked
                              /\ [st EXCEPT !.ready = b].ready = b
  BY DEF StatusType

\* Recording the start or the end of a task in the copy.
LEMMA TaskRecorded ==
    ASSUME mem \in ResourceType
    PROVE  /\ Start => /\ mem' \in ResourceType /\ mem'.actions = mem.actions
                       /\ mem'.status.finished = mem.status.finished
                       /\ mem'.status.tracked
           /\ \A t \in Task : Finish(t) =>
                       /\ mem' \in ResourceType /\ mem'.actions = mem.actions
                       /\ mem'.status.finished = mem.status.finished \cup {t}
                       /\ mem'.status.tracked
  <1>1. ASSUME Start PROVE /\ mem' \in ResourceType /\ mem'.actions = mem.actions
                           /\ mem'.status.finished = mem.status.finished
                           /\ mem'.status.tracked
    BY <1>1 DEF Start, ResourceType, StatusType
  <1>2. ASSUME NEW t \in Task, Finish(t)
        PROVE  /\ mem' \in ResourceType /\ mem'.actions = mem.actions
               /\ mem'.status.finished = mem.status.finished \cup {t}
               /\ mem'.status.tracked
    BY <1>2 DEF Finish, ResourceType, StatusType
  <1> QED
    BY <1>1, <1>2

\* Creating and deleting jobs makes none succeed.
LEMMA JobsChanged ==
    ASSUME jobs \in [Job -> JobState], NEW js
    PROVE  /\ Created(js) \in [Job -> JobState] /\ Deleted(js) \in [Job -> JobState]
           /\ \A j \in Job : Created(js)[j] = "succeeded" => jobs[j] = "succeeded"
           /\ \A j \in Job : Deleted(js)[j] = "succeeded" => jobs[j] = "succeeded"
  BY DEF Created, Deleted, JobState

\* What is known depends on the history alone.
LEMMA KnownKept == UNCHANGED collected => Known' = Known
  BY DEF Known

LEMMA MishapType ==
    ASSUME mishaps \in 0..MaxMishaps
    PROVE  (Mishap \/ Fault \/ NoFault) => mishaps' \in 0..MaxMishaps
  BY LimitsAssumption DEF Mishap, Fault, NoFault

-------------------------------------------------------------------------------
(* The initial state, and the steps of a task *)

LEMMA InitLogs == Init => LogsInv
  <1> SUFFICES ASSUME Init PROVE LogsInv
    OBVIOUS
  <1>1. TypeOK
    <2>1. "success" \in Results /\ "idle" \in PC /\ "none" \in JobState
      BY DEF Results, PC, JobState
    <2>2. <<>> \in Seq(1..MaxRequests) /\ 1 \in 1..(MaxRequests + 1)
          /\ 0 \in 0..MaxRequests /\ 0 \in 0..MaxMishaps
      BY LimitsAssumption
    <2>3. DOMAIN collected = {} /\ collected \in [{} -> SUBSET Job]
      BY DEF Init
    <2> QED
      BY <2>1, <2>2, <2>3, QuietFields DEF Init, TypeOK
  <1>2. Lists
    BY QuietFields, EmptyListing DEF Init, Lists
  <1>3. Collected
    BY QuietFields DEF Init, Collected, Honest
  <1>4. LoopLists /\ Explained /\ Forgotten
    BY QuietFields DEF Init, LoopLists, LoopPC, Explained, Forgotten, Named
  <1> QED
    BY <1>1, <1>2, <1>3, <1>4 DEF LogsInv

\* A task keeps the lists, makes no job succeed, and ends the cycle only with
\* an error or a request to be called again.
LEMMA TaskStep ==
    ASSUME LogsInv, TaskFrame, pc \in LoopPC,
           mem' \in ResourceType, mem'.actions = mem.actions, Honest(mem.status)',
           Named(mem)', jobs' \in [Job -> JobState],
           \A j \in Job : jobs'[j] = "succeeded" => jobs[j] = "succeeded",
           nodeList' \subseteq Nodes, todo' \subseteq Job, mishaps' \in 0..MaxMishaps,
           \/ pc' \in LoopPC /\ result' = result
           \/ pc' = "manage" /\ result' \in {"error", "errorRequeue"}
           \/ pc' = "updateStatus" /\ result' \in {"successRequeue", "errorRequeue"},
           pc' \in {"CollectLogs", "waitForJobsToFinish"}
              => ClusterJobs \cup nodeList' \subseteq Known \cup todo',
           pc' \in {"DeleteJobs", "removeAction"}
              => "waitForJobsToFinish" \in mem'.status.finished
    PROVE  LogsInv'
  <1>f. /\ UNCHANGED <<cr, cache, current, queued, pending, index, jobView,
                       labelled, collected, requests>>
        /\ pc # "idle" /\ pc # "removeFinishedActionStatuses"
    BY DEF TaskFrame, LoopPC
  <1>1. TypeOK'
    <2>1. pc' \in PC /\ result' \in Results
      BY DEF LogsInv, TypeOK, LoopPC, PC, Results
    <2> QED
      BY <1>f, <2>1 DEF LogsInv, TypeOK
  <1>2. Lists'
    BY <1>f DEF LogsInv, Lists
  <1>3. Collected'
    BY <1>f, KnownKept DEF LogsInv, Collected, Honest
  <1>4. LoopLists'
    BY <1>f DEF LogsInv, LoopLists, LoopPC
  <1>5. Explained'
    BY <1>f DEF LogsInv, Explained, Outdated, LoopPC
  <1>6. Forgotten'
    BY <1>f DEF LogsInv, LoopLists, LoopPC, Forgotten, Named
  <1> QED
    BY <1>1, <1>2, <1>3, <1>4, <1>5, <1>6 DEF LogsInv

\* Creating the jobs of a task.
LEMMA CreateJobsStep ==
    ASSUME LogsInv, NEW t \in Task \cap LoopPC, NEW js, NEW next \in LoopPC,
           CreateJobs(t, js, next),
           next \notin {"CollectLogs", "DeleteJobs", "removeAction"},
           t # "waitForJobsToFinish",
           next = "waitForJobsToFinish" => t = "CollectLogs"
    PROVE  LogsInv'
  <1>t. /\ mem \in ResourceType /\ jobs \in [Job -> JobState]
        /\ nodeList \subseteq Nodes /\ todo \subseteq Job /\ mishaps \in 0..MaxMishaps
        /\ Honest(mem.status) /\ mem.status.finished \subseteq Task
        /\ pc = "CollectLogs" => ClusterJobs \cup nodeList \subseteq Known \cup todo
    BY ResourceFields DEF LogsInv, TypeOK, Collected
  <1>1. pc = t /\ TaskFrame /\ UNCHANGED <<nodeList, todo>>
    BY DEF CreateJobs
  <1>2. Known' = Known
    BY <1>1, KnownKept DEF TaskFrame
  <1>3. /\ mishaps' \in 0..MaxMishaps
        /\ jobs' \in [Job -> JobState]
        /\ \A j \in Job : jobs'[j] = "succeeded" => jobs[j] = "succeeded"
    BY <1>t, MishapType, JobsChanged DEF CreateJobs
  <1>4. /\ mem' \in ResourceType /\ mem'.actions = mem.actions
        /\ mem'.status.finished \subseteq mem.status.finished \cup {t}
        /\ mem' = mem \/ mem'.status.tracked
    BY <1>t, TaskRecorded DEF CreateJobs
  <1>5. Honest(mem.status)' /\ Named(mem)'
    BY <1>t, <1>2, <1>4 DEF Honest, Named, LogsInv, Forgotten
  <1>6. \/ pc' = next /\ result' = result
        \/ pc' = "manage" /\ result' = "error"
    BY DEF CreateJobs, Continue, End
  <1>7. /\ pc' \notin {"CollectLogs", "DeleteJobs", "removeAction"}
        /\ pc' = "waitForJobsToFinish" => pc = "CollectLogs"
    BY <1>1, <1>6
  <1> QED
    BY <1>t, <1>1, <1>3, <1>4, <1>5, <1>6, <1>7, TaskStep

LEMMA CreatingSteps ==
    ASSUME LogsInv,
           runCollectDBJob \/ runCollectConfigMapsJob \/ createCollectLogsJobs
    PROVE  LogsInv'
  <1>1. CASE runCollectDBJob
    BY <1>1, CreateJobsStep DEF runCollectDBJob, Task, LoopPC
  <1>2. CASE runCollectConfigMapsJob
    BY <1>2, CreateJobsStep DEF runCollectConfigMapsJob, Task, LoopPC
  <1>3. CASE createCollectLogsJobs
    BY <1>3, CreateJobsStep DEF createCollectLogsJobs, Task, LoopPC
  <1> QED
    BY <1>1, <1>2, <1>3

LEMMA ListNodesStep == ASSUME LogsInv, getAllNVMeshClusterNodes PROVE LogsInv'
  <1>t. /\ mem \in ResourceType /\ jobs \in [Job -> JobState] /\ labelled \subseteq Nodes
        /\ nodeList \subseteq Nodes /\ todo \subseteq Job /\ mishaps \in 0..MaxMishaps
        /\ Honest(mem.status)
    BY DEF LogsInv, TypeOK, Collected
  <1>1. pc = "listNodes" /\ TaskFrame /\ UNCHANGED <<mem, jobs>> /\ pc \in LoopPC
    BY DEF getAllNVMeshClusterNodes, LoopPC
  <1>2. Honest(mem.status)' /\ Named(mem)'
    BY <1>t, <1>1, KnownKept DEF Honest, Named, LogsInv, Forgotten, TaskFrame
  <1>3. mishaps' \in 0..MaxMishaps
    BY <1>t, MishapType DEF getAllNVMeshClusterNodes
  <1>4. /\ nodeList' \subseteq Nodes /\ todo' \subseteq Job
        /\ \/ pc' = "CollectLogs" /\ result' = result /\ todo' = ClusterJobs \cup nodeList'
           \/ pc' = "manage" /\ result' = "error"
    BY <1>t DEF getAllNVMeshClusterNodes, Continue, End, Job
  <1>5. /\ pc' \in {"CollectLogs", "waitForJobsToFinish"}
              => ClusterJobs \cup nodeList' \subseteq Known \cup todo'
        /\ pc' \notin {"DeleteJobs", "removeAction"}
        /\ \/ pc' \in LoopPC /\ result' = result
           \/ pc' = "manage" /\ result' \in {"error", "errorRequeue"}
    BY <1>4 DEF LoopPC
  <1> QED
    BY <1>t, <1>1, <1>2, <1>3, <1>4, <1>5, TaskStep

\* A job is struck off only when its cached copy has succeeded.
LEMMA WaitStep == ASSUME LogsInv, NEW j \in Job, waitForJobToFinish(j) PROVE LogsInv'
  <1>t. /\ mem \in ResourceType /\ jobs \in [Job -> JobState]
        /\ nodeList \subseteq Nodes /\ todo \subseteq Job /\ mishaps \in 0..MaxMishaps
        /\ Honest(mem.status) /\ (jobView[j] = "succeeded" => j \in Known)
        /\ pc = "waitForJobsToFinish" => ClusterJobs \cup nodeList \subseteq Known \cup todo
    BY DEF LogsInv, TypeOK, Collected
  <1>1. /\ pc = "waitForJobsToFinish" /\ TaskFrame /\ UNCHANGED <<nodeList, jobs>>
        /\ pc \in LoopPC /\ Start
    BY DEF waitForJobToFinish, LoopPC
  <1>2. /\ mem' \in ResourceType /\ mem'.actions = mem.actions
        /\ mem'.status.finished = mem.status.finished /\ mem'.status.tracked
    BY <1>t, <1>1, TaskRecorded
  <1>3. Honest(mem.status)' /\ Named(mem)'
    BY <1>t, <1>1, <1>2, KnownKept DEF Honest, Named, TaskFrame
  <1>4. mishaps' \in 0..MaxMishaps
    BY <1>t, MishapType DEF waitForJobToFinish
  <1>5. /\ todo' \subseteq Job
        /\ \/ /\ pc' = "waitForJobsToFinish" /\ result' = result
              /\ jobView[j] = "succeeded" /\ todo' = todo \ {j}
           \/ pc' = "manage" /\ result' \in {"error", "errorRequeue"}
           \/ pc' = "updateStatus" /\ result' = "successRequeue"
    BY <1>t, <1>1 DEF waitForJobToFinish, Continue, End
  <1>6. /\ pc' \in {"CollectLogs", "waitForJobsToFinish"}
              => ClusterJobs \cup nodeList' \subseteq Known \cup todo'
        /\ pc' \notin {"DeleteJobs", "removeAction"}
        /\ \/ pc' \in LoopPC /\ result' = result
           \/ pc' = "manage" /\ result' \in {"error", "errorRequeue"}
           \/ pc' = "updateStatus" /\ result' \in {"successRequeue", "errorRequeue"}
    BY <1>t, <1>1, <1>5 DEF LoopPC
  <1> QED
    BY <1>t, <1>1, <1>2, <1>3, <1>4, <1>5, <1>6, TaskStep

\* The end of the wait is recorded only over collected logs.
LEMMA WaitedStep == ASSUME LogsInv, AllJobsFinished PROVE LogsInv'
  <1>t. /\ mem \in ResourceType /\ jobs \in [Job -> JobState]
        /\ nodeList \subseteq Nodes /\ todo \subseteq Job /\ mishaps \in 0..MaxMishaps
        /\ Honest(mem.status)
        /\ pc = "waitForJobsToFinish" => ClusterJobs \cup nodeList \subseteq Known \cup todo
    BY DEF LogsInv, TypeOK, Collected
  <1>1. /\ pc = "waitForJobsToFinish" /\ TaskFrame /\ UNCHANGED <<nodeList, todo, jobs>>
        /\ pc \in LoopPC /\ pc \in Task /\ Finish(pc) /\ UNCHANGED mishaps
        /\ pc' = "DeleteJobs" /\ result' = result /\ pc' \in LoopPC
        /\ todo = {} \/ "waitForJobsToFinish" \in mem.status.finished
    BY DEF AllJobsFinished, LoopPC, Task, Continue, End, NoFault, Finished
  <1>2. /\ mem' \in ResourceType /\ mem'.actions = mem.actions
        /\ "waitForJobsToFinish" \in mem'.status.finished /\ mem'.status.tracked
    BY <1>t, <1>1, TaskRecorded
  <1>3. Honest(mem.status)' /\ Named(mem)'
    BY <1>t, <1>1, <1>2, KnownKept DEF Honest, Named, TaskFrame
  <1> QED
    BY <1>t, <1>1, <1>2, <1>3, TaskStep

LEMMA DeleteJobsStep == ASSUME LogsInv, deleteCollectLogJobs PROVE LogsInv'
  <1>t. /\ mem \in ResourceType /\ jobs \in [Job -> JobState]
        /\ nodeList \subseteq Nodes /\ todo \subseteq Job /\ mishaps \in 0..MaxMishaps
        /\ Honest(mem.status)
        /\ pc = "DeleteJobs" => "waitForJobsToFinish" \in mem.status.finished
    BY DEF LogsInv, TypeOK, Collected
  <1>1. /\ pc = "DeleteJobs" /\ TaskFrame /\ UNCHANGED <<nodeList, todo>>
        /\ pc \in LoopPC /\ pc \in Task
    BY DEF deleteCollectLogJobs, LoopPC, Task
  <1>2. /\ mem' \in ResourceType /\ mem'.actions = mem.actions
        /\ mem.status.finished \subseteq mem'.status.finished
        /\ mem' = mem \/ mem'.status.tracked
    BY <1>t, <1>1, TaskRecorded DEF deleteCollectLogJobs
  <1>3. Honest(mem.status)' /\ Named(mem)'
    BY <1>t, <1>1, <1>2, KnownKept DEF Honest, Named, LogsInv, Forgotten, TaskFrame
  <1>4. /\ mishaps' \in 0..MaxMishaps
        /\ jobs' \in [Job -> JobState]
        /\ \A j \in Job : jobs'[j] = "succeeded" => jobs[j] = "succeeded"
    BY <1>t, MishapType, JobsChanged DEF deleteCollectLogJobs
  <1>5. /\ \/ pc' \in LoopPC /\ result' = result
           \/ pc' = "updateStatus" /\ result' \in {"successRequeue", "errorRequeue"}
        /\ pc' \notin {"CollectLogs", "waitForJobsToFinish"}
    BY DEF deleteCollectLogJobs, Continue, End, LoopPC
  <1> QED
    BY <1>t, <1>1, <1>2, <1>3, <1>4, <1>5, TaskStep

-------------------------------------------------------------------------------
(* The beginning of a cycle and the removal of an entry *)

LEMMA FetchStep == ASSUME LogsInv, ReconcileFetch PROVE LogsInv'
  <1>1. /\ pc = "idle" /\ pc' = "removeFinishedActionStatuses" /\ result' = result
        /\ mem' = cache /\ current' = (cache = cr)
        /\ UNCHANGED <<cr, cache, pending, index, nodeList, todo, jobs, jobView,
                       labelled, collected, requests, mishaps>>
        /\ queued' = FALSE
    BY DEF ReconcileFetch, Continue, End, cluster
  <1>2. TypeOK'
    BY <1>1 DEF LogsInv, TypeOK, PC
  <1>3. Lists' /\ Collected' /\ LoopLists' /\ Explained'
    BY <1>1, KnownKept DEF LogsInv, Lists, Collected, Honest, LoopLists, LoopPC, Explained
  <1>4. Forgotten'
    BY <1>1 DEF LogsInv, Forgotten, Named
  <1> QED
    BY <1>2, <1>3, <1>4 DEF LogsInv

LEMMA RemoveStatusesStep == ASSUME LogsInv, removeFinishedActionStatuses PROVE LogsInv'
  <1>1. /\ pc = "removeFinishedActionStatuses" /\ pc' = "updateStatus"
        /\ result' = "successRequeue" /\ mem.actions = <<>>
        /\ UNCHANGED <<cr, cache, current, queued, pending, index, nodeList, todo,
                       jobs, jobView, labelled, collected, requests, mishaps>>
    BY DEF removeFinishedActionStatuses, End, cluster
  <1>2. mem' \in ResourceType /\ mem'.actions = mem.actions /\ mem'.status.finished = {}
    <2>1. mem \in ResourceType
      BY DEF LogsInv, TypeOK
    <2> QED
      BY <2>1 DEF removeFinishedActionStatuses, ResourceType, StatusType
  <1>3. TypeOK'
    BY <1>1, <1>2 DEF LogsInv, TypeOK, PC, Results
  <1>4. Lists' /\ Collected' /\ LoopLists'
    BY <1>1, <1>2, KnownKept DEF LogsInv, Lists, Collected, Honest, LoopLists, LoopPC
  <1>5. Explained' /\ Forgotten'
    BY <1>1, <1>2 DEF LogsInv, Explained, Forgotten, Named
  <1> QED
    BY <1>3, <1>4, <1>5 DEF LogsInv

LEMMA HandleActionsStep == ASSUME LogsInv, handleActions PROVE LogsInv'
  <1>1. /\ pc = "removeFinishedActionStatuses"
        /\ UNCHANGED <<cr, cache, mem, current, queued, index, nodeList, todo,
                       jobs, jobView, labelled, collected, requests, mishaps>>
        /\ \/ /\ mem.actions # <<>> /\ pending' = mem.actions
              /\ pc' = "CollectDB" /\ result' = result
           \/ /\ mem.actions = <<>> /\ ~mem.status.tracked /\ UNCHANGED pending
              /\ pc' = "manage" /\ result' = "success"
    BY DEF handleActions, Continue, End, cluster
  <1>2. pending = <<>> /\ mem.actions \in Seq(1..MaxRequests)
    BY <1>1, ResourceFields DEF LogsInv, Explained, TypeOK
  <1>3. TypeOK'
    <2>1. pc' \in PC /\ result' \in Results /\ pending' \in Seq(1..MaxRequests)
      BY <1>1, <1>2 DEF LogsInv, TypeOK, PC, Results
    <2> QED
      BY <1>1, <2>1 DEF LogsInv, TypeOK
  <1>4. Lists' /\ Collected'
    BY <1>1, <1>2, KnownKept DEF LogsInv, Lists, Collected, Honest
  <1>5. LoopLists' /\ Explained'
    BY <1>1, <1>2 DEF LogsInv, LoopLists, LoopPC, Explained
  <1>6. Forgotten'
    BY <1>1 DEF LogsInv, Forgotten, Named
  <1> QED
    BY <1>3, <1>4, <1>5, <1>6 DEF LogsInv

\* An entry is taken out of the copy, and of the API server's list only when
\* that list has nothing the loop did not start from.
LEMMA RemovalStep == ASSUME LogsInv, removeAction PROVE LogsInv'
  <1>t. /\ mem \in ResourceType /\ cr \in ResourceType /\ requests \in Nat
        /\ mem.status \in StatusType /\ cr.status \in StatusType
        /\ index \in 1..(MaxRequests + 1) /\ MaxRequests \in Nat
        /\ Listing(mem.actions, requests) /\ Listing(pending, requests)
        /\ Honest(mem.status) /\ Honest(cr.status) /\ mishaps \in 0..MaxMishaps
        /\ requests \in 0..MaxRequests
    BY ResourceFields, LimitsAssumption DEF LogsInv, TypeOK, Lists, Collected
  <1>1. /\ pc = "removeAction" /\ pc \in LoopPC /\ index <= Len(mem.actions)
        /\ UNCHANGED <<current, cache, queued, pending, nodeList, todo, jobs,
                       jobView, labelled, collected, requests>>
    BY DEF removeAction, RemoveFrame, cluster, LoopPC
  <1>2. index \in 1..Len(mem.actions)
    <2>1. Len(mem.actions) \in Nat
      BY <1>t DEF Listing
    <2> QED
      BY <1>t, <1>1, <2>1
  <1>3. PICK r : r = RemoveAt(mem.actions, index)
    OBVIOUS
  <1>4. /\ Listing(r, requests) /\ ToSet(r) \subseteq ToSet(mem.actions)
        /\ mem.actions[index] \in ToSet(mem.actions) /\ mem.actions[index] \notin ToSet(r)
        /\ r \in Seq(1..MaxRequests)
    BY <1>t, <1>2, <1>3, ListingRemoved DEF Listing
  <1>a. PICK st : st = [mem.status EXCEPT !.tracked = TRUE,
                                          !.finished = @ \cup {"ActionComplete"}]
    OBVIOUS
  <1>5. /\ st \in StatusType /\ st.tracked
        /\ st.finished = mem.status.finished \cup {"ActionComplete"}
    <2>1. "ActionComplete" \in Task
      BY DEF Task
    <2> QED
      BY <1>t, <1>a, <2>1 DEF StatusType
  <1>b. PICK c : c = [actions |-> r, status |-> st]
    OBVIOUS
  <1>6. c \in ResourceType /\ c.actions = r /\ c.status = st
    BY <1>4, <1>5, <1>b DEF ResourceType
  <1>7. Completed = c
    BY <1>3, <1>a, <1>b DEF Completed
  <1>8. /\ mem' \in ResourceType /\ cr' \in ResourceType /\ mem'.actions = r
        /\ mem'.status \in {st, cr.status} /\ cr'.status = cr.status
        /\ \/ current /\ cr'.actions = r
           \/ mem'.status = st /\ cr' = cr
    <2>1. CASE /\ current /\ cr' = [cr EXCEPT !.actions = Completed.actions]
               /\ mem' = [Completed EXCEPT !.status =
                             IF cr.status.tracked THEN cr.status ELSE @]
      <3>1. mem' = [c EXCEPT !.status = IF cr.status.tracked THEN cr.status ELSE c.status]
        BY <1>7, <2>1
      <3>2. PICK x \in {st, cr.status} : mem' = [c EXCEPT !.status = x]
        BY <1>6, <3>1
      <3>3. mem' \in ResourceType /\ mem'.actions = r /\ mem'.status \in {st, cr.status}
        <4>1. x \in StatusType
          BY <1>t, <1>5, <3>2
        <4>2. /\ [c EXCEPT !.status = x] \in ResourceType
              /\ [c EXCEPT !.status = x].actions = c.actions
              /\ [c EXCEPT !.status = x].status = x
          BY <1>6, <4>1, ResourceChanged
        <4> QED
          BY <1>6, <3>2, <4>2
      <3> QED
        BY <1>t, <1>4, <1>6, <1>7, <2>1, <3>3, ResourceChanged
    <2>2. CASE mem' = Completed /\ UNCHANGED cr
      BY <1>t, <1>6, <1>7, <2>2
    <2> QED
      BY <2>1, <2>2 DEF removeAction
  <1>9. Honest(mem.status)' /\ Honest(cr.status)'
    <2>1. Known' = Known /\ cr'.status = cr.status
      BY <1>1, <1>8, KnownKept
    <2>2. CASE mem'.status = st
      BY <1>t, <1>5, <2>1, <2>2 DEF Honest
    <2>3. CASE mem'.status = cr.status
      BY <1>t, <2>1, <2>3 DEF Honest
    <2> QED
      BY <1>8, <2>2, <2>3
  <1>10. /\ \/ index < Len(pending) /\ index' = index + 1 /\ pc' = "CollectDB" /\ result' = result
            \/ index' = index /\ pc' = "manage" /\ result' = "success"
         /\ mishaps' \in 0..MaxMishaps
    BY <1>t, MishapType DEF removeAction, NextAction, Continue, End
  <1>11. index' \in 1..(MaxRequests + 1)
    <2>1. Len(pending) \in Nat /\ Len(pending) <= requests
      BY <1>t DEF Listing
    <2> QED
      BY <1>t, <1>10, <2>1
  <1>12. TypeOK'
    <2>1. pc' \in PC /\ result' \in Results
      BY <1>10 DEF LogsInv, TypeOK, PC, Results
    <2> QED
      BY <1>1, <1>8, <1>10, <1>11, <2>1 DEF LogsInv, TypeOK
  <1>13. Lists'
    BY <1>1, <1>4, <1>8 DEF LogsInv, Lists
  <1>14. Collected'
    BY <1>1, <1>9, <1>10, KnownKept DEF LogsInv, Collected, Honest
  <1>15. ToSet(mem.actions) \subseteq ToSet(pending) /\ pending # <<>>
         /\ (current => ToSet(cr.actions) \subseteq ToSet(pending))
    BY <1>1 DEF LogsInv, LoopLists
  <1>16. LoopLists'
    BY <1>1, <1>4, <1>8, <1>10, <1>15 DEF LoopLists
  <1>17. Explained'
    <2>1. \/ Outdated(pending)'
          \/ "ActionComplete" \in mem'.status.finished
      BY <1>1, <1>4, <1>5, <1>8, <1>15 DEF Outdated
    <2> QED
      BY <1>1, <1>10, <2>1 DEF LogsInv, Explained
  <1>18. Forgotten'
    BY <1>1, <1>5, <1>8, <1>10, <1>15 DEF LogsInv, Forgotten, Named
  <1> QED
    BY <1>12, <1>13, <1>14, <1>16, <1>17, <1>18 DEF LogsInv

-------------------------------------------------------------------------------
(* The end of a cycle *)

\* The copy is dropped; the cycle may have stored a status.
LEMMA CycleOver ==
    ASSUME LogsInv, NoCycle, cr' \in ResourceType, cr'.actions = cr.actions,
           Honest(cr.status)', Named(cr)', cache' = cr \/ UNCHANGED cache,
           queued' \in BOOLEAN,
           jobView' = jobs \/ UNCHANGED jobView, mishaps' \in 0..MaxMishaps,
           UNCHANGED <<jobs, labelled, collected, requests>>,
           ~queued' => \/ cache'.actions = <<>> \/ Outdated(cache.actions)'
                       \/ ~cr'.status.ready \/ "ActionComplete" \in cr'.status.finished,
           ~queued' /\ cache'.actions = <<>> => cr'.status.finished = {}
    PROVE  LogsInv'
  <1>1. /\ pc' = "idle" /\ mem' = Quiet /\ current' = FALSE /\ pending' = <<>>
        /\ index' = 1 /\ nodeList' = {} /\ todo' = {} /\ result' = "success"
    BY DEF NoCycle
  <1>t. cr \in ResourceType /\ cache \in ResourceType /\ requests \in Nat
    BY LimitsAssumption DEF LogsInv, TypeOK
  <1>2. TypeOK'
    <2>1. /\ pc' \in PC /\ result' \in Results /\ index' \in 1..(MaxRequests + 1)
          /\ pending' \in Seq(1..MaxRequests)
      BY <1>1, LimitsAssumption DEF PC, Results
    <2> QED
      BY <1>1, <2>1, QuietFields DEF LogsInv, TypeOK
  <1>3. Lists'
    BY <1>1, <1>t, QuietFields, EmptyListing DEF LogsInv, Lists
  <1>4. Collected'
    BY <1>1, QuietFields, KnownKept DEF LogsInv, Collected, Honest
  <1>5. LoopLists' /\ Explained'
    BY <1>1 DEF LoopLists, LoopPC, Explained
  <1>6. Forgotten'
    BY <1>1, QuietFields DEF LogsInv, Forgotten, Named
  <1> QED
    BY <1>2, <1>3, <1>4, <1>5, <1>6 DEF LogsInv

\* A restart lists everything again and has the resource queued.
LEMMA RestartStep ==
    ASSUME LogsInv, Restart, UNCHANGED <<cr, jobs, labelled, collected, requests>>,
           mishaps' \in 0..MaxMishaps
    PROVE  LogsInv'
  <1>1. NoCycle /\ cache' = cr /\ jobView' = jobs /\ queued' = TRUE
    BY DEF Restart
  <1>2. cr' \in ResourceType /\ Honest(cr.status)' /\ Named(cr)'
    BY KnownKept DEF LogsInv, TypeOK, Collected, Honest, Forgotten, Named
  <1> QED
    BY <1>1, <1>2, CycleOver

\* A status write stores the tasks of the copy.
LEMMA StatusWritten ==
    ASSUME LogsInv, NEW ready \in BOOLEAN, WriteStatus(ready)
    PROVE  /\ cr' \in ResourceType /\ cr'.actions = cr.actions
           /\ cr'.status.finished = mem.status.finished /\ cr'.status.ready = ready
           /\ cr'.status.tracked = mem.status.tracked /\ UNCHANGED mishaps
  <1>1. cr \in ResourceType /\ mem \in ResourceType /\ mem.status \in StatusType
    BY ResourceFields DEF LogsInv, TypeOK
  <1>2. PICK st \in StatusType : /\ st = [mem.status EXCEPT !.ready = ready]
                                 /\ st.finished = mem.status.finished /\ st.ready = ready
                                 /\ st.tracked = mem.status.tracked
    BY <1>1, StatusChanged
  <1>3. cr' = [cr EXCEPT !.status = st] /\ UNCHANGED mishaps
    BY <1>2 DEF WriteStatus, NoFault
  <1> QED
    BY <1>1, <1>2, <1>3, ResourceChanged

LEMMA UpdateStatusStep == ASSUME LogsInv, UpdateStatus PROVE LogsInv'
  <1>t. /\ mem \in ResourceType /\ cr \in ResourceType /\ Honest(mem.status)
        /\ Honest(cr.status) /\ mem.status.ready \in BOOLEAN /\ mishaps \in 0..MaxMishaps
        /\ current \in BOOLEAN
    BY ResourceFields DEF LogsInv, TypeOK, Collected
  <1>1. /\ pc = "updateStatus" /\ pc' = "manage" /\ result' = result
        /\ UNCHANGED <<cache, mem, queued, pending, index, nodeList, todo, jobs,
                       jobView, labelled, collected, requests>>
    BY DEF UpdateStatus, Continue, End, cluster
  <1>2. /\ cr' \in ResourceType /\ cr'.actions = cr.actions
        /\ \/ /\ cr'.status.finished = mem.status.finished
              /\ cr'.status.tracked = mem.status.tracked
           \/ cr' = cr
        /\ mishaps' \in 0..MaxMishaps /\ current' \in BOOLEAN
    BY <1>t, StatusWritten, MishapType DEF UpdateStatus, WriteFails
  <1>3. Honest(cr.status)' /\ Named(cr)'
    BY <1>t, <1>1, <1>2, KnownKept DEF Honest, Named, LogsInv, Forgotten
  <1>4. TypeOK'
    BY <1>1, <1>2 DEF LogsInv, TypeOK, PC
  <1>5. Lists' /\ Collected'
    BY <1>1, <1>2, <1>3, KnownKept DEF LogsInv, Lists, Collected, Honest
  <1>6. LoopLists' /\ Explained'
    BY <1>1 DEF LogsInv, LoopLists, LoopPC, Explained
  <1>7. Forgotten'
    BY <1>1, <1>3 DEF LogsInv, Explained, Forgotten, Named
  <1> QED
    BY <1>4, <1>5, <1>6, <1>7 DEF LogsInv

LEMMA ManageStep == ASSUME LogsInv, ManageResult PROVE LogsInv'
  <1>t. /\ mem \in ResourceType /\ cr \in ResourceType /\ Honest(mem.status)
        /\ Honest(cr.status) /\ mishaps \in 0..MaxMishaps /\ result \in Results
        /\ queued \in BOOLEAN
    BY DEF LogsInv, TypeOK, Collected
  <1>1. /\ pc = "manage" /\ NoCycle
        /\ UNCHANGED <<cache, jobs, jobView, labelled, collected, requests>>
    BY DEF ManageResult, EndCycle, cluster
  <1>2. CASE /\ WriteStatus(result \in {"success", "successRequeue"})
             /\ EndCycle(result \in {"successRequeue", "errorRequeue"})
    <2>1. /\ cr' \in ResourceType /\ cr'.actions = cr.actions
          /\ cr'.status.finished = mem.status.finished
          /\ cr'.status.tracked = mem.status.tracked
          /\ cr'.status.ready = (result \in {"success", "successRequeue"})
          /\ mishaps' = mishaps
      <3>1. (result \in {"success", "successRequeue"}) \in BOOLEAN
        OBVIOUS
      <3> QED
        BY <1>2, <3>1, StatusWritten
    <2>2. queued' = (queued \/ result \in {"successRequeue", "errorRequeue"})
      BY <1>2 DEF EndCycle
    <2>3. Honest(cr.status)' /\ Named(cr)'
      BY <1>t, <1>1, <2>1, KnownKept DEF Honest, Named, LogsInv, Forgotten
    <2>4. ~queued' => \/ cache'.actions = <<>> \/ Outdated(cache.actions)'
                      \/ ~cr'.status.ready \/ "ActionComplete" \in cr'.status.finished
      <3> SUFFICES ASSUME ~queued', cr'.status.ready, cache'.actions # <<>>,
                          "ActionComplete" \notin cr'.status.finished
                   PROVE  Outdated(cache.actions)'
        OBVIOUS
      <3>1. ~queued /\ result = "success"
        BY <1>t, <2>1, <2>2
      <3>2. cache.actions = pending
        BY <1>1, <3>1 DEF LogsInv, Explained
      <3>3. Outdated(pending)
        BY <1>1, <2>1, <3>1, <3>2 DEF LogsInv, Explained
      <3> QED
        BY <1>1, <2>1, <3>2, <3>3 DEF Outdated
    <2>5. ~queued' /\ cache'.actions = <<>> => cr'.status.finished = {}
      <3> SUFFICES ASSUME ~queued', cache'.actions = <<>> PROVE cr'.status.finished = {}
        OBVIOUS
      <3>1. ~queued /\ result \in {"success", "error"}
        BY <1>t, <2>2 DEF Results
      <3>2. pending = <<>>
        BY <1>1, <3>1 DEF LogsInv, Explained
      <3> QED
        BY <1>1, <2>1, <3>1, <3>2 DEF LogsInv, Forgotten
    <2> QED
      BY <1>t, <1>1, <2>1, <2>2, <2>3, <2>4, <2>5, CycleOver
  <1>3. CASE WriteFails /\ EndCycle(TRUE)
    <2>1. cr' = cr /\ mishaps' \in 0..MaxMishaps /\ queued' = TRUE
      BY <1>t, <1>3, MishapType DEF WriteFails, EndCycle
    <2>2. Honest(cr.status)' /\ Named(cr)'
      BY <1>t, <1>1, <2>1, KnownKept DEF Honest, Named, LogsInv, Forgotten
    <2> QED
      BY <1>t, <1>1, <2>1, <2>2, CycleOver
  <1> QED
    BY <1>2, <1>3 DEF ManageResult

\* Every step of the reconcile loop keeps the invariant.
LEMMA ReconcileStep == ASSUME LogsInv, Reconcile PROVE LogsInv'
  <1>1. CASE removeActionPanics
    <2>1. /\ Restart /\ UNCHANGED <<cr, jobs, labelled, collected, requests>>
          /\ mishaps' \in 0..MaxMishaps
      BY <1>1 DEF removeActionPanics, LogsInv, TypeOK
    <2> QED
      BY <2>1, RestartStep
  <1> QED
    BY <1>1, FetchStep, RemoveStatusesStep, HandleActionsStep, CreatingSteps,
       ListNodesStep, WaitStep, WaitedStep, DeleteJobsStep, RemovalStep,
       UpdateStatusStep, ManageStep DEF Reconcile

-------------------------------------------------------------------------------
(* The environment *)

\* The informer catches up, and queues the resource when the list changed.
LEMMA CacheSyncStep == ASSUME LogsInv, CacheSync PROVE LogsInv'
  <1>1. /\ cache' = cr /\ queued' = (queued \/ cache.actions # cr.actions)
        /\ UNCHANGED <<cr, mem, current, pc, pending, index, nodeList, todo, result,
                       jobs, jobView, labelled, collected, requests, mishaps>>
    BY DEF CacheSync, cluster
  <1>2. TypeOK' /\ Lists' /\ Collected' /\ LoopLists'
    BY <1>1, KnownKept DEF LogsInv, TypeOK, Lists, Collected, Honest, LoopLists
  <1>3. Explained' /\ Forgotten'
    <2>1. ~queued' => ~queued /\ cache'.actions = cache.actions
      BY <1>1
    <2> QED
      BY <1>1, <2>1 DEF LogsInv, Explained, Outdated, Forgotten, Named
  <1> QED
    BY <1>2, <1>3 DEF LogsInv

\* Jobs, labels and events of owned objects: the lists are not touched.
LEMMA ClusterStep ==
    ASSUME LogsInv,
           UNCHANGED <<cr, cache, mem, current, pc, pending, index, nodeList, todo,
                       result, requests>>,
           queued' = TRUE \/ UNCHANGED queued, mishaps' \in 0..MaxMishaps,
           jobs' \in [Job -> JobState], jobView' \in [Job -> JobState],
           labelled' \subseteq Nodes, Known \subseteq Known',
           DOMAIN collected' \subseteq 1..MaxRequests,
           collected' \in [DOMAIN collected' -> SUBSET Job],
           \A j \in Job : jobs'[j] = "succeeded" \/ jobView'[j] = "succeeded"
                             => j \in Known'
    PROVE  LogsInv'
  <1>1. TypeOK' /\ Lists' /\ LoopLists'
    BY DEF LogsInv, TypeOK, Lists, LoopLists
  <1>2. Collected'
    BY DEF LogsInv, Collected, Honest
  <1>3. Explained' /\ Forgotten'
    BY DEF LogsInv, Explained, Outdated, Forgotten, Named
  <1> QED
    BY <1>1, <1>2, <1>3 DEF LogsInv

LEMMA JobStep ==
    ASSUME LogsInv, NEW j \in Job, JobViewSync(j) \/ JobSucceeds(j) \/ JobFails(j)
    PROVE  LogsInv'
  <1>t. /\ jobs \in [Job -> JobState] /\ jobView \in [Job -> JobState]
        /\ labelled \subseteq Nodes /\ mishaps \in 0..MaxMishaps
        /\ DOMAIN collected \subseteq 1..MaxRequests
        /\ collected \in [DOMAIN collected -> SUBSET Job]
        /\ \A i \in Job : jobs[i] = "succeeded" \/ jobView[i] = "succeeded" => i \in Known
    BY DEF LogsInv, TypeOK, Collected
  <1>1. /\ UNCHANGED <<cr, cache, mem, current, pc, pending, index, nodeList, todo,
                       result, requests, queued, labelled>>
        /\ mishaps' \in 0..MaxMishaps
    BY <1>t, MishapType DEF JobViewSync, JobSucceeds, JobFails, cycle
  <1>2. /\ jobs' \in [Job -> JobState] /\ jobView' \in [Job -> JobState]
        /\ DOMAIN collected' \subseteq 1..MaxRequests
        /\ collected' \in [DOMAIN collected' -> SUBSET Job] /\ Known \subseteq Known'
        /\ \A i \in Job : jobs'[i] = "succeeded" \/ jobView'[i] = "succeeded"
                             => i \in Known'
    <2>1. CASE JobViewSync(j)
      BY <1>t, <2>1, KnownKept DEF JobViewSync
    <2>2. CASE JobSucceeds(j)
      <3>1. /\ jobs' = [jobs EXCEPT ![j] = "succeeded"] /\ UNCHANGED jobView
            /\ collected' = [i \in DOMAIN collected |-> collected[i] \cup {j}]
        BY <2>2 DEF JobSucceeds
      <3>2. /\ DOMAIN collected' = DOMAIN collected
            /\ \A i \in DOMAIN collected : collected'[i] = collected[i] \cup {j}
        BY <3>1
      <3>3. Known \subseteq Known' /\ j \in Known'
        BY <3>2 DEF Known
      <3>4. collected' \in [DOMAIN collected' -> SUBSET Job]
        BY <1>t, <3>1, <3>2
      <3> QED
        BY <1>t, <3>1, <3>2, <3>3, <3>4 DEF JobState
    <2>3. CASE JobFails(j)
      BY <1>t, <2>3, KnownKept DEF JobFails, JobState
    <2> QED
      BY <2>1, <2>2, <2>3
  <1> QED
    BY <1>t, <1>1, <1>2, ClusterStep

\* The list at the API server changes, and the copies are not current.
LEMMA EditStep ==
    ASSUME LogsInv, EditFrame, current' = FALSE, NEW l,
           cr' = [cr EXCEPT !.actions = l], mishaps' \in 0..MaxMishaps,
           requests' \in {requests, requests + 1}, requests' \in 0..MaxRequests,
           Listing(l, requests'),
           ToSet(l) \subseteq ToSet(cr.actions) \cup {requests + 1},
           DOMAIN collected' \subseteq 1..MaxRequests,
           collected' \in [DOMAIN collected' -> SUBSET Job],
           Known' = Known \/ StartsAfresh
    PROVE  LogsInv'
  <1>f. UNCHANGED <<cache, mem, pc, queued, pending, index, nodeList, todo, result,
                    jobs, jobView, labelled>>
    BY DEF EditFrame
  <1>t. cr \in ResourceType /\ requests \in Nat /\ l \in Seq(1..MaxRequests)
    BY LimitsAssumption DEF LogsInv, TypeOK, Listing
  <1>1. cr' \in ResourceType /\ cr'.actions = l /\ cr'.status = cr.status
    BY <1>t, ResourceChanged
  <1>2. TypeOK'
    BY <1>f, <1>1 DEF LogsInv, TypeOK
  <1>3. Lists'
    BY <1>f, <1>t, <1>1, ListingLasts DEF LogsInv, Lists
  <1>4. Collected'
    <2>1. CASE Known' = Known
      BY <1>f, <1>1, <2>1 DEF LogsInv, Collected, Honest
    <2>2. CASE StartsAfresh
      <3>1. /\ pc \notin LoopPC
            /\ \A c \in {cr, cache, mem} : "waitForJobsToFinish" \notin c.status.finished
            /\ \A j \in Job : jobs[j] # "succeeded" /\ jobView[j] # "succeeded"
        BY <2>2 DEF LogsInv, LoopLists, StartsAfresh
      <3> QED
        BY <1>f, <1>1, <3>1 DEF Collected, Honest, LoopPC
    <2> QED
      BY <2>1, <2>2
  <1>7. LoopLists' /\ Forgotten'
    BY <1>f, <1>1 DEF LogsInv, LoopLists, Forgotten, Named
  <1>5. /\ Outdated(pending) => Outdated(pending)'
        /\ Outdated(cache.actions) => Outdated(cache.actions)'
    <2>1. requests + 1 \notin ToSet(pending) /\ requests + 1 \notin ToSet(cache.actions)
      BY <1>t, ListingLasts DEF LogsInv, Lists
    <2> QED
      BY <1>f, <1>1, <2>1 DEF Outdated
  <1>6. Explained'
    BY <1>f, <1>1, <1>5 DEF LogsInv, Explained
  <1> QED
    BY <1>2, <1>3, <1>4, <1>6, <1>7 DEF LogsInv

LEMMA UserStep == ASSUME LogsInv, RequestAction \/ CancelAction PROVE LogsInv'
  <1>t. /\ cr \in ResourceType /\ requests \in 0..MaxRequests /\ MaxRequests \in Nat
        /\ mishaps \in 0..MaxMishaps /\ Listing(cr.actions, requests) /\ requests \in Nat
        /\ DOMAIN collected \subseteq 1..MaxRequests
        /\ collected \in [DOMAIN collected -> SUBSET Job]
    BY LimitsAssumption DEF LogsInv, TypeOK, Lists
  <1>1. CASE RequestAction
    <2>1. /\ requests < MaxRequests /\ requests' = requests + 1 /\ EditFrame
          /\ current' = FALSE /\ UNCHANGED mishaps
          /\ cr' = [cr EXCEPT !.actions = Append(cr.actions, requests + 1)]
      BY <1>1 DEF RequestAction
    <2>2. /\ Listing(Append(cr.actions, requests + 1), requests')
          /\ ToSet(Append(cr.actions, requests + 1))
                = ToSet(cr.actions) \cup {requests + 1}
      BY <1>t, <2>1, ListingAppended
    <2>3. requests' \in 0..MaxRequests
      BY <1>t, <2>1
    <2>4. /\ DOMAIN collected' \subseteq 1..MaxRequests
          /\ collected' \in [DOMAIN collected' -> SUBSET Job]
          /\ UNCHANGED collected \/ StartsAfresh
      <3>1. CASE StartsAfresh
        <4>1. collected' = [i \in DOMAIN collected \cup {requests + 1} |->
                               IF i = requests + 1 THEN {} ELSE collected[i]]
          BY <1>1, <3>1 DEF RequestAction
        <4>2. requests + 1 \in 1..MaxRequests
          BY <1>t, <2>1
        <4> QED
          BY <1>t, <3>1, <4>1, <4>2
      <3>2. CASE ~StartsAfresh
        BY <1>t, <1>1, <3>2 DEF RequestAction
      <3> QED
        BY <3>1, <3>2
    <2> QED
      BY <1>t, <2>1, <2>2, <2>3, <2>4, KnownKept, EditStep
  <1>2. CASE CancelAction
    <2>1. PICK i \in 1..Len(cr.actions) : cr' = [cr EXCEPT !.actions = RemoveAt(cr.actions, i)]
      BY <1>2 DEF CancelAction
    <2>2. /\ UNCHANGED <<requests, collected>> /\ EditFrame /\ current' = FALSE
          /\ mishaps' \in 0..MaxMishaps
      BY <1>t, <1>2, MishapType DEF CancelAction
    <2>3. /\ Listing(RemoveAt(cr.actions, i), requests')
          /\ ToSet(RemoveAt(cr.actions, i)) \subseteq ToSet(cr.actions)
      BY <1>t, <2>2, ListingRemoved
    <2> QED
      BY <1>t, <2>1, <2>2, <2>3, KnownKept, EditStep
  <1> QED
    BY <1>1, <1>2

LEMMA EnvironmentStep == ASSUME LogsInv, Environment PROVE LogsInv'
  <1>t. /\ jobs \in [Job -> JobState] /\ jobView \in [Job -> JobState]
        /\ labelled \subseteq Nodes /\ mishaps \in 0..MaxMishaps
        /\ DOMAIN collected \subseteq 1..MaxRequests
        /\ collected \in [DOMAIN collected -> SUBSET Job]
        /\ \A i \in Job : jobs[i] = "succeeded" \/ jobView[i] = "succeeded" => i \in Known
    BY DEF LogsInv, TypeOK, Collected
  <1>1. CASE OwnedObjectEvent \/ \E n \in Nodes : LabelNode(n)
    <2>1. /\ UNCHANGED <<cr, cache, mem, current, pc, pending, index, nodeList, todo,
                         result, requests, jobs, jobView, collected>>
          /\ queued' = TRUE \/ UNCHANGED queued
          /\ mishaps' \in 0..MaxMishaps /\ labelled' \subseteq Nodes
      BY <1>t, <1>1, MishapType DEF OwnedObjectEvent, LabelNode, cycle, cluster
    <2> QED
      BY <1>t, <2>1, KnownKept, ClusterStep
  <1>2. CASE Crash
    BY <1>t, <1>2, MishapType, RestartStep DEF Crash
  <1> QED
    BY <1>1, <1>2, CacheSyncStep, JobStep, UserStep DEF Environment

LEMMA NextLogs == LogsInv /\ [Next]_vars => LogsInv'
  <1> SUFFICES ASSUME LogsInv, [Next]_vars PROVE LogsInv'
    OBVIOUS
  <1>1. CASE UNCHANGED vars
    BY <1>1, KnownKept DEF vars, cycle, cluster, LogsInv, TypeOK, Lists, Collected,
       Honest, LoopLists, Explained, Outdated, Forgotten, Named
  <1> QED
    BY <1>1, ReconcileStep, EnvironmentStep DEF Next

-------------------------------------------------------------------------------
(* The theorems *)

\* The inductive invariant holds in every reachable state.
LEMMA LogsInvariant == Spec => []LogsInv
  BY InitLogs, NextLogs, PTL DEF Spec

\* handleActions and handleCollectLogs keep every variable in its type; in
\* particular the index of the loop never leaves the list by more than one.
THEOREM LogsTypeCorrectness == Spec => []TypeOK
  <1>1. LogsInv => TypeOK
    BY DEF LogsInv
  <1> QED
    BY <1>1, LogsInvariant, PTL

\* An entry left in the list when the operator rests is explained by the status.
THEOREM PendingEntriesAreExplained == Spec => []PendingIsExplained
  <1>1. LogsInv => PendingIsExplained
    BY DEF LogsInv, Explained, Outdated, PendingIsExplained
  <1> QED
    BY <1>1, LogsInvariant, PTL

\* An operator at rest over an empty list has no task recorded that the next
\* request could take over.
THEOREM RecordsAreForgotten == Spec => []TasksAreForgotten
  <1>1. LogsInv => TasksAreForgotten
    BY DEF LogsInv, Forgotten, TasksAreForgotten
  <1> QED
    BY <1>1, LogsInvariant, PTL

\* The wait ends only over logs collected since the last request that started
\* afresh, however stale the cached jobs are.
THEOREM WaitIsSound == Spec => WaitedMeansCollected
  <1>1. LogsInv /\ [Next]_vars
           => [pc = "waitForJobsToFinish" /\ ~Finished(pc) /\ pc' = "DeleteJobs"
               => \A i \in DOMAIN collected :
                     ClusterJobs \cup nodeList \subseteq collected[i]]_vars
    <2> SUFFICES ASSUME LogsInv, Next, pc = "waitForJobsToFinish", ~Finished(pc),
                        pc' = "DeleteJobs"
                 PROVE  \A i \in DOMAIN collected :
                           ClusterJobs \cup nodeList \subseteq collected[i]
      OBVIOUS
    <2>1. AllJobsFinished
      BY DEF Next, Reconcile, Environment, ReconcileFetch, removeFinishedActionStatuses,
         handleActions, runCollectDBJob, runCollectConfigMapsJob, CreateJobs,
         getAllNVMeshClusterNodes, createCollectLogsJobs, waitForJobToFinish,
         deleteCollectLogJobs, removeAction, removeActionPanics, UpdateStatus,
         ManageResult, Continue, End, CacheSync, OwnedObjectEvent, JobViewSync,
         JobSucceeds, JobFails, LabelNode, RequestAction, CancelAction, Crash,
         Restart, NoCycle, EditFrame, cycle
    <2> QED
      BY <2>1 DEF AllJobsFinished, LogsInv, Collected, Known
  <1> QED
    BY <1>1, LogsInvariant, PTL DEF Spec, WaitedMeansCollected

\* What a removal from the list of the API server may be: the last step of
\* handleActions, by a copy that is current.
LEMMA RemovalIsChecked ==
    ASSUME LogsInv, Next, pc = "removeAction", pc' # pc, cr'.actions # cr.actions
    PROVE  current
  BY DEF Next, Reconcile, Environment, ReconcileFetch, removeFinishedActionStatuses,
     handleActions, runCollectDBJob, runCollectConfigMapsJob, CreateJobs,
     getAllNVMeshClusterNodes, createCollectLogsJobs, waitForJobToFinish,
     AllJobsFinished, deleteCollectLogJobs, removeAction, removeActionPanics,
     UpdateStatus, ManageResult, Continue, End, CacheSync, OwnedObjectEvent,
     JobViewSync, JobSucceeds, JobFails, LabelNode, RequestAction, CancelAction,
     Crash, Restart, NoCycle, EditFrame, cycle

\* An entry whose request started afresh leaves the list through handleActions
\* only when the database and the config maps were collected since.
THEOREM RemovalIsSound == Spec => RemovedMeansCollected
  <1>1. LogsInv /\ [Next]_vars
           => [pc = "removeAction" /\ pc' # pc
               => \A i \in (ToSet(cr.actions) \ ToSet(cr'.actions)) \cap DOMAIN collected :
                     ClusterJobs \subseteq collected[i]]_vars
    BY DEF LogsInv, Collected, Honest, Known
  <1> QED
    BY <1>1, LogsInvariant, PTL DEF Spec, RemovedMeansCollected

\* The removal of a finished entry takes no other away that was added since.
THEOREM RequestsSurvive == Spec => NewRequestsSurvive
  <1>1. LogsInv /\ [Next]_vars
           => [pc = "removeAction" /\ pc' # pc
               => ToSet(cr.actions) \ ToSet(cr'.actions) \subseteq ToSet(pending)]_vars
    <2> SUFFICES ASSUME LogsInv, Next, pc = "removeAction", pc' # pc
                 PROVE  ToSet(cr.actions) \ ToSet(cr'.actions) \subseteq ToSet(pending)
      OBVIOUS
    <2>1. CASE cr'.actions = cr.actions
      BY <2>1
    <2>2. CASE cr'.actions # cr.actions
      <3>1. current
        BY <2>2, RemovalIsChecked
      <3> QED
        BY <3>1 DEF LogsInv, LoopLists, LoopPC
    <2> QED
      BY <2>1, <2>2
  <1> QED
    BY <1>1, LogsInvariant, PTL DEF Spec, NewRequestsSurvive
================================================================================
