----------------------- MODULE RayServiceSteps_proofs ------------------------
(***************************************************************************)
(* What a step of the RayService controller or of its environment can do:  *)
(* it keeps the types; to the status it does one of a few things           *)
(* (StatusStep), and to each RayCluster (ClusterStep).  So the names in a  *)
(* status stay in order, and no RayCluster that the stored status names is *)
(* deleted.                                                                *)
(***************************************************************************)
EXTENDS RayServicePass_proofs

------------------------------------------------------------------------------
\* Types are kept.

\* The cleanup that comes first, and the writes that may follow it.
LEMMA WritesTyped ==
    ASSUME TypeOK, NEW o \in Object, NEW requeue \in BOOLEAN,
           Writes(o, requeue) \/ Returns(requeue)
    PROVE  TypeOK'
<1>1. /\ Deleted(clusters, Expired) \in [Names -> Cluster]
      /\ Marked \in [Names -> {"none", "scheduled", "due"}]
      /\ cleanUpServeConfigCache \in [Names -> 0..2]
  BY DeletedTyped, CleanupTyped DEF TypeOK
<1>2. /\ clusters' = Deleted(clusters, Expired) /\ marks' = Marked
      /\ configs' = cleanUpServeConfigCache
      /\ UNCHANGED <<strategy, edits, headSvc, serveSvc, gateway, route, cache, clusterCache,
                     serve, names>>
      /\ rs' \in {o, rs} /\ queued' \in BOOLEAN
      /\ UNCHANGED faults \/ Fault("write")
  BY Zenon DEF Writes, Returns, cleanUpRayClusterInstance, user, traffic, NoFault
<1>3. faults' \in 0..MaxFaults
  BY <1>2, RayServiceAssumption DEF Fault, TypeOK
<1>4. (DOMAIN route \subseteq Names /\ \A n \in DOMAIN route : route[n] \in Percent)'
  BY <1>2 DEF TypeOK
<1> QED
  BY <1>1, <1>2, <1>3, <1>4 DEF TypeOK

\* The steps of the RayClusters, of Ray and of the informers keep the types.
LEMMA WorldTyped ==
    ASSUME TypeOK, NEW n \in Names,
           \/ Works(n) \/ HeadLost(n) \/ GarbageCollected(n)
           \/ SyncCluster(n) \/ DeletionDelayPasses(n)
    PROVE  TypeOK'
<1>1. clusters[n] \in Cluster /\ serve[n] \in Serve
  BY DEF TypeOK
<1>2. \A c \in Cluster, h \in {"none", "pod", "ready"}, b \in BOOLEAN :
         [c EXCEPT !.head = h] \in Cluster /\ [c EXCEPT !.deleting = b] \in Cluster
  BY DEF Cluster
<1>3. [serve[n] EXCEPT !.apps = "running"] \in Serve
  BY <1>1 DEF Serve
<1>4. CASE Works(n) \/ HeadLost(n) \/ GarbageCollected(n)
  <2>1. UNCHANGED <<strategy, edits, rs, cache, clusterCache, configs, marks, queued, names,
                    headSvc, serveSvc, gateway, route>>
    BY <1>4 DEF Works, HeadStarts, HeadReady, AppsRun, ClusterDeleted, HeadLost,
                GarbageCollected, World, user, traffic
  <2>2. UNCHANGED faults \/ Fault("head")
    BY <1>4 DEF Works, HeadStarts, HeadReady, AppsRun, ClusterDeleted, HeadLost,
                GarbageCollected
  <2>3. faults' \in 0..MaxFaults
    BY <2>2, RayServiceAssumption DEF Fault, TypeOK
  <2>4. clusters' \in [Names -> Cluster]
    <3>1. /\ [clusters[n] EXCEPT !.head = "none"] \in Cluster
          /\ [clusters[n] EXCEPT !.head = "pod"] \in Cluster
          /\ [clusters[n] EXCEPT !.head = "ready"] \in Cluster
          /\ [clusters[n] EXCEPT !.deleting = TRUE] \in Cluster
      BY <1>1, <1>2, Zenon
    <3>2. UNCHANGED clusters \/ \E c \in Cluster : clusters' = [clusters EXCEPT ![n] = c]
      <4>1. CASE HeadStarts(n)
        BY <3>1, <4>1, Zenon DEF HeadStarts
      <4>2. CASE HeadReady(n)
        BY <3>1, <4>2, Zenon DEF HeadReady
      <4>3. CASE HeadLost(n)
        BY <3>1, <4>3, Zenon DEF HeadLost
      <4>4. CASE AppsRun(n) \/ ClusterDeleted(n) \/ GarbageCollected(n)
        BY <3>1, <4>4, NoClusterTyped, Zenon DEF AppsRun, ClusterDeleted, GarbageCollected
      <4> QED
        BY <1>4, <4>1, <4>2, <4>3, <4>4 DEF Works
    <3> QED
      BY <3>2 DEF TypeOK
  <2>5. serve' \in [Names -> Serve]
    <3>1. \/ UNCHANGED serve
          \/ serve' = [serve EXCEPT ![n] = NoServe]
          \/ serve' = [serve EXCEPT ![n] = [serve[n] EXCEPT !.apps = "running"]]
      BY <1>4 DEF Works, HeadStarts, HeadReady, AppsRun, ClusterDeleted, HeadLost,
                  GarbageCollected
    <3> QED
      BY <1>3, <3>1, NoClusterTyped DEF TypeOK
  <2> QED
    BY <2>1, <2>3, <2>4, <2>5 DEF TypeOK
<1>5. CASE SyncCluster(n)
  BY <1>5 DEF SyncCluster, user, traffic, TypeOK
<1>6. CASE DeletionDelayPasses(n)
  BY <1>6 DEF DeletionDelayPasses, user, traffic, TypeOK
<1> QED
  BY <1>4, <1>5, <1>6

\* So do the early returns of Reconcile.
LEMMA ReconcileTyped ==
    ASSUME TypeOK, Reconcile, ~Proceed
    PROVE  TypeOK'
<1>1. rs \in Object /\ rs.st \in Status /\ clusters \in [Names -> Cluster] /\ cache.goal \in Goal
  BY DEF TypeOK, Object
<1>2. /\ [rs EXCEPT !.exists = FALSE, !.finalizer = FALSE] \in Object
      /\ [rs EXCEPT !.finalizer = TRUE] \in Object
  BY <1>1, Zenon DEF Object
<1>3. /\ [rs EXCEPT !.st.ready = "ValidationFailed"] \in Object
      /\ [rs EXCEPT !.st = Suspending(@)] \in Object
      /\ [rs EXCEPT !.st = Suspended(@)] \in Object
  BY <1>1, StatusTyped, ObjectTyped
<1>4. CASE \/ RemoveFinalizer \/ AddFinalizer \/ ValidationFails \/ StartSuspending
           \/ CompleteSuspend
  BY <1>2, <1>3, <1>4, WritesTyped, Zenon DEF RemoveFinalizer, AddFinalizer, ValidationFails,
     StartSuspending, CompleteSuspend
<1>5. CASE AwaitClusters \/ StaySuspended \/ ResumeFails \/ TimedOut
  <2>1. PICK requeue \in BOOLEAN : Returns(requeue)
    BY <1>5, Zenon DEF AwaitClusters, StaySuspended, ResumeFails, TimedOut
  <2> QED
    BY <1>1, <2>1, WritesTyped
<1>6. CASE NotFound
  BY <1>6, Zenon DEF NotFound, user, traffic, TypeOK
<1>7. /\ \A S : Deleted(clusters, S) \in [Names -> Cluster]
      /\ Marked \in [Names -> {"none", "scheduled", "due"}]
      /\ cleanUpServeConfigCache \in [Names -> 0..2]
  BY <1>1, DeletedTyped, CleanupTyped
<1>8. CASE CleanUpFails
  <2>1. clusters' \in [Names -> Cluster] /\ configs' \in [Names -> 0..2]
    BY <1>7, <1>8 DEF CleanUpFails
  <2> QED
    BY <1>8, <2>1 DEF CleanUpFails, user, traffic, TypeOK
<1>9. CASE deleteRayServiceOwnedResources
  <2>1. /\ clusters' \in [Names -> Cluster] /\ configs' \in [Names -> 0..2]
        /\ marks' \in [Names -> {"none", "scheduled", "due"}] /\ queued' = TRUE
    BY <1>7, <1>9 DEF deleteRayServiceOwnedResources, cleanUpRayClusterInstance
  <2>2. UNCHANGED <<strategy, edits, rs, cache, clusterCache, serve, names>>
    BY <1>9 DEF deleteRayServiceOwnedResources, user
  <2>3. CASE headSvc' = 0 /\ serveSvc' = 0 /\ gateway' = "absent" /\ route' = <<>> /\ NoFault
    BY <2>1, <2>2, <2>3, NamesFact DEF NoFault, TypeOK
  <2>4. CASE Fault("api") /\ UNCHANGED traffic
    <3>1. faults' \in 0..MaxFaults
      BY <2>4, RayServiceAssumption DEF Fault, TypeOK
    <3> QED
      BY <2>1, <2>2, <2>4, <3>1, Zenon DEF traffic, TypeOK
  <2> QED
    BY <1>9, <2>3, <2>4 DEF deleteRayServiceOwnedResources
<1>10. CASE createRayClusterInstance
  <2> DEFINE n == cache.st.pending.name
             cs == Deleted(clusters, Expired)
             c == [exists |-> TRUE, deleting |-> FALSE, goal |-> cache.goal, head |-> "none"]
  <2>1. /\ configs' = cleanUpServeConfigCache /\ queued' = TRUE /\ marks' = Marked
        /\ UNCHANGED <<strategy, edits, headSvc, serveSvc, gateway, route, rs, cache,
                       clusterCache, serve, names>>
    BY <1>10, Zenon DEF createRayClusterInstance, cleanUpRayClusterInstance, user, traffic
  <2>2. /\ clusters' \in {cs, [cs EXCEPT ![n] = c]}
        /\ UNCHANGED faults \/ Fault("api")
    BY <1>10 DEF createRayClusterInstance, NoFault
  <2>3. c \in Cluster
    BY <1>1 DEF Cluster
  <2>4. cs \in [Names -> Cluster]
    BY <1>7
  <2> HIDE DEF cs, c
  <2>5. clusters' \in [Names -> Cluster]
    BY <2>2, <2>3, <2>4
  <2>6. faults' \in 0..MaxFaults
    BY <2>2, RayServiceAssumption DEF Fault, TypeOK
  <2> QED
    BY <1>7, <2>1, <2>5, <2>6, Zenon DEF TypeOK
<1>11. CASE UpdateConflicts
  <2>1. /\ configs' = cleanUpServeConfigCache /\ queued' = TRUE /\ marks' = Marked
        /\ UNCHANGED <<strategy, edits, headSvc, serveSvc, gateway, route, cache,
                       clusterCache, serve, names, faults>>
    BY <1>11 DEF UpdateConflicts, Proceeds, cleanUpRayClusterInstance, user, traffic
  <2>2. clusters' \in [Names -> Cluster]
    BY <1>1, <1>7, <1>11, WithGoalTyped DEF UpdateConflicts
  <2>3. \E st \in Status : rs' = [rs EXCEPT !.st = st]
    BY <1>1, <1>11, StartTyped DEF UpdateConflicts
  <2>4. rs' \in Object
    BY <1>1, <2>3, ObjectTyped
  <2> QED
    BY <1>7, <2>1, <2>2, <2>4, Zenon DEF TypeOK
<1> QED
  BY <1>4, <1>5, <1>6, <1>8, <1>9, <1>10, <1>11 DEF Reconcile

\* A status that is stored gives away at most one new name.
LEMMA StoresTyped ==
    ASSUME TypeOK, NEW st \in Loose, Stores(st)
    PROVE  rs' \in Object /\ rs'.st = st /\ names' \in 0..MaxNames /\ st \in Status
<1>1. st \in Status /\ rs' = [rs EXCEPT !.st = st]
  BY LooseStatus DEF Stores
<1>2. st.pending.name \in 0..MaxNames
  BY <1>1 DEF Status, ServiceStatus
<1> QED
  BY <1>1, <1>2, ObjectTyped DEF TypeOK, Stores

\* A pass keeps the types, wherever it stops.
LEMMA PassTyped ==
    ASSUME TypeOK, Proceed
    PROVE  TypeOK'
<1>1. /\ Proceeds /\ Scalable
      /\ queued' = TRUE /\ UNCHANGED <<user, cache, clusterCache>>
      /\ UNCHANGED faults \/ Fault("api")
  BY ProceedPasses
<1>2. PICK k, w : k \in 0..6 /\ Worked(w) /\ Pass(k, w)
  BY ProceedPasses
<1> DEFINE weights == createHTTPRoute(w.st, "pending" \in w.ready)
<1>3. /\ clusters' = WithGoal(Deleted(clusters, Expired), InPlace)
      /\ serve' = w.serve /\ configs' = w.configs
      /\ gateway' \in {gateway, "created"}
      /\ headSvc' \in {headSvc, Target(w)} /\ serveSvc' \in {serveSvc, Target(w)}
  BY <1>2 DEF Pass
<1>4. /\ route' = route \/ (IsIncrementalUpgradeEnabled /\ route' = weights)
      /\ \/ rs = cache /\ calculateStatus(w, weights)
         \/ /\ rs' = [rs EXCEPT !.st = IF cache.st.susp = "suspended" THEN Start ELSE @]
            /\ UNCHANGED names
  BY <1>2 DEF Pass
<1> HIDE DEF weights
<1>5. /\ rs \in Object /\ rs.st \in Status /\ clusters \in [Names -> Cluster]
      /\ cache.goal \in Goal
  BY DEF TypeOK, Object
<1>6. clusters' \in [Names -> Cluster]
  BY <1>3, <1>5, DeletedTyped, WithGoalTyped
<1>7. serve' \in [Names -> Serve] /\ configs' \in [Names -> 0..2]
  BY <1>2, <1>3 DEF Worked, Work
<1>8. Target(w) \in 0..MaxNames
  BY <1>2 DEF Target, Worked, Work, Status, ServiceStatus
<1>9. DOMAIN route' \subseteq Names /\ \A n \in DOMAIN route' : route'[n] \in Percent
  <2>1. CASE route' = route
    BY <2>1 DEF TypeOK
  <2>2. CASE IsIncrementalUpgradeEnabled /\ route' = weights
    <3>1. Sound(strategy)
      BY <1>1, <2>2 DEF Scalable
    <3> QED
      BY <1>2, <2>2, <3>1, WeightsShape, Zenon DEF weights
  <2> QED
    BY <1>4, <2>1, <2>2
<1>10. rs' \in Object /\ names' \in 0..MaxNames
  <2>1. CASE calculateStatus(w, weights)
    <3>1. PICK s1, s2, s3, pen, s4, st :
             Stages(w, weights, s1, s2, s3, pen, s4, st) /\ Stores(st)
      BY <2>1, CalculateStages
    <3>2. st \in Loose
      BY <1>1, <1>2, <3>1, StageShapes, Zenon DEF weights, StageFacts
    <3> QED
      BY <3>1, <3>2, StoresTyped
  <2>2. CASE /\ rs' = [rs EXCEPT !.st = IF cache.st.susp = "suspended" THEN Start ELSE @]
             /\ UNCHANGED names
    BY <1>5, <2>2, StartTyped, ObjectTyped DEF TypeOK
  <2> QED
    BY <1>4, <2>1, <2>2
<1>11. faults' \in 0..MaxFaults
  BY <1>1, RayServiceAssumption DEF Fault, TypeOK
<1>12. marks' \in [Names -> {"none", "scheduled", "due"}]
  BY <1>1, CleanupTyped DEF Proceeds, cleanUpRayClusterInstance
<1>13. (DOMAIN route \subseteq Names /\ \A n \in DOMAIN route : route[n] \in Percent)'
  BY <1>9
<1> QED
  BY <1>1, <1>3, <1>6, <1>7, <1>8, <1>10, <1>11, <1>12, <1>13, Zenon DEF TypeOK, user

\* What time changes: not the names, the capacities or the traffic.
SameButTime(o, r) ==
    /\ r \in Object /\ r.exists = o.exists /\ r.deleting = o.deleting
    /\ r.finalizer = o.finalizer
    /\ r.st.active.name = o.st.active.name /\ r.st.pending.name = o.st.pending.name
    /\ SameUpgrade(r.st, o.st) /\ r.st.susp = o.st.susp /\ r.st.upgrade = o.st.upgrade
    /\ (r.st.ready = "Timeout") = (o.st.ready = "Timeout")

\* The interval between two moves of traffic passes and nothing else changes.
LEMMA AgedShape ==
    ASSUME NEW o \in Object
    PROVE  SameButTime(o, Aged(o)) /\ Aged(o) \in Object
<1> DEFINE a == [o.st.active EXCEPT !.recent = FALSE]
           p == [o.st.pending EXCEPT !.recent = FALSE]
           s == [o.st EXCEPT !.active = a, !.pending = p]
<1>1. o.st \in Status
  BY DEF Object
<1>2. /\ a \in ServiceStatus /\ a.name = o.st.active.name /\ a.tc = o.st.active.tc
      /\ a.traffic = o.st.active.traffic
      /\ p \in ServiceStatus /\ p.name = o.st.pending.name /\ p.tc = o.st.pending.tc
      /\ p.traffic = o.st.pending.traffic
  BY <1>1, Zenon DEF Status, ServiceStatus
<1>3. Aged(o) = [o EXCEPT !.st = s]
  BY <1>1, Zenon DEF Aged, Object, Status
<1> HIDE DEF a, p
<1>4. /\ s \in Status /\ s.active = a /\ s.pending = p /\ s.susp = o.st.susp
      /\ s.upgrade = o.st.upgrade /\ s.rollback = o.st.rollback /\ s.ready = o.st.ready
  BY <1>1, <1>2, Zenon DEF Status
<1> HIDE DEF s
<1> QED
  BY <1>2, <1>3, <1>4, ObjectTyped DEF SameButTime, SameUpgrade

\* The initializing timeout expires and nothing else changes.
LEMMA LateShape ==
    ASSUME NEW o \in Object
    PROVE  SameButTime(o, Late(o)) /\ Late(o) \in Object
<1> DEFINE s == [o.st EXCEPT !.ready = IF @ = "Initializing" THEN "Expired" ELSE @]
<1>1. o.st \in Status
  BY DEF Object
<1>2. Late(o) = [o EXCEPT !.st = s]
  BY DEF Late
<1>3. /\ s \in Status /\ s.active = o.st.active /\ s.pending = o.st.pending
      /\ s.susp = o.st.susp /\ s.upgrade = o.st.upgrade /\ s.rollback = o.st.rollback
      /\ (s.ready = "Timeout") = (o.st.ready = "Timeout")
  BY <1>1 DEF Status
<1> HIDE DEF s
<1> QED
  BY <1>2, <1>3, ObjectTyped DEF SameButTime, SameUpgrade

\* Time keeps the types.
LEMMA TimeTyped ==
    ASSUME TypeOK, IntervalPasses \/ InitializingExpires
    PROVE  TypeOK'
<1>1. \A o \in Object : Aged(o) \in Object /\ Late(o) \in Object
  BY AgedShape, LateShape
<1>2. rs' \in Object /\ cache' \in Object
  BY <1>1 DEF IntervalPasses, InitializingExpires, Ages, TypeOK
<1>3. UNCHANGED <<strategy, edits, headSvc, serveSvc, gateway, route, clusters, clusterCache,
                  serve, configs, marks, queued, names, faults>>
  BY DEF IntervalPasses, InitializingExpires, Ages, user, traffic
<1> QED
  BY <1>2, <1>3 DEF TypeOK

\* So do the edits of the user.
LEMMA EditsTyped ==
    ASSUME TypeOK, Edits
    PROVE  TypeOK'
<1>1. /\ UNCHANGED <<strategy, headSvc, serveSvc, gateway, route, cache, clusterCache, serve,
                     configs, marks, queued, names, faults>>
      /\ edits < MaxEdits /\ edits' = edits + 1
  BY DEF Edits, EditGoal, EditGroups, EditConfig, EditSuspend, EditDelete, EditDrop, Edit,
         traffic
<1>2. edits' \in 0..MaxEdits
  BY <1>1, RayServiceAssumption DEF TypeOK
<1>3. rs' \in Object
  <2>1. rs \in Object
    BY DEF TypeOK
  <2>2. CASE EditGoal
    BY <2>1, <2>2 DEF EditGoal, Object, Goal
  <2>3. CASE EditGroups
    BY <2>1, <2>3 DEF EditGroups, Object, Goal
  <2>4. CASE EditConfig
    BY <2>1, <2>4 DEF EditConfig, Object
  <2>5. CASE EditSuspend
    BY <2>1, <2>5, Zenon DEF EditSuspend, Object
  <2>6. CASE EditDelete
    BY <2>1, <2>6, Zenon DEF EditDelete, Object
  <2> QED
    BY <2>1, <2>2, <2>3, <2>4, <2>5, <2>6 DEF Edits, EditDrop
<1>4. clusters' \in [Names -> Cluster]
  <2>1. CASE \E n \in Names : EditDrop(n)
    <3>1. PICK n \in Names : clusters' = [clusters EXCEPT ![n].deleting = TRUE]
      BY <2>1, Zenon DEF EditDrop
    <3>2. clusters[n] \in Cluster => [clusters[n] EXCEPT !.deleting = TRUE] \in Cluster
      BY Zenon DEF Cluster
    <3>3. clusters \in [Names -> Cluster]
      BY DEF TypeOK
    <3> QED
      BY <3>1, <3>2, <3>3
  <2>2. CASE UNCHANGED clusters
    BY <2>2 DEF TypeOK
  <2> QED
    BY <2>1, <2>2 DEF Edits, EditGoal, EditGroups, EditConfig, EditSuspend, EditDelete
<1> QED
  BY <1>1, <1>2, <1>3, <1>4, Zenon DEF TypeOK

\* The initial state is well typed.
LEMMA TypeInit == Init => TypeOK
<1> SUFFICES ASSUME Init PROVE TypeOK
  OBVIOUS
<1>1. NoStatus \in Status
  BY NoServiceFact DEF NoStatus, Status
<1>2. rs \in Object
  BY <1>1, NoClusterTyped DEF Init, Object
<1> QED
  BY <1>2, NoClusterTyped, RayServiceAssumption DEF Init, TypeOK

\* Every step keeps the types.
LEMMA TypeStep == TypeOK /\ [Next]_vars => TypeOK'
<1> SUFFICES ASSUME TypeOK, [Next]_vars PROVE TypeOK'
  OBVIOUS
<1>1. CASE Reconcile
  BY <1>1, ReconcileTyped, PassTyped
<1>2. CASE \E n \in Names : Works(n) \/ HeadLost(n) \/ GarbageCollected(n) \/ SyncCluster(n)
                            \/ DeletionDelayPasses(n)
  BY <1>2, WorldTyped
<1>3. CASE GatewayReady
  BY <1>3 DEF GatewayReady, World, user, TypeOK
<1>4. CASE SyncService
  BY <1>4 DEF SyncService, user, traffic, TypeOK
<1>5. CASE OperatorRestarts
  <2>1. faults' \in 0..MaxFaults
    BY <1>5, RayServiceAssumption DEF OperatorRestarts, Fault, TypeOK
  <2> QED
    BY <1>5, <2>1 DEF OperatorRestarts, user, traffic, TypeOK
<1>6. CASE IntervalPasses \/ InitializingExpires
  BY <1>6, TimeTyped
<1>7. CASE Edits
  BY <1>7, EditsTyped
<1>8. CASE UNCHANGED vars
  BY <1>8 DEF vars, TypeOK
<1> QED
  BY <1>1, <1>2, <1>3, <1>4, <1>5, <1>6, <1>7, <1>8 DEF Next, Sync, Time

\* Every value keeps its type; in particular capacities and weights stay percentages, and
\* the HTTPRoute never names a RayCluster that was not named (createHTTPRoute).
THEOREM TypeCorrect == Spec => []TypeOK
<1> QED
  BY TypeInit, TypeStep, PTL DEF Spec

------------------------------------------------------------------------------
\* What a step does to the status.

\* Nothing; the cache may catch up.
Quiet ==
    /\ rs'.st = rs.st /\ names' = names
    /\ cache' = cache \/ (cache' = rs /\ rs' = rs)
    /\ rs.deleting => rs'.deleting
    /\ rs'.exists = rs.exists \/ rs'.deleting

\* Time passes.
Timed == names' = names /\ SameButTime(rs, rs') /\ SameButTime(cache, cache')

\* A status is written, from an up to date cache.
Writable == rs = cache /\ cache' = cache /\ ~rs.deleting
Written ==
    /\ Writable /\ names' = names
    /\ \E st \in Status :
         /\ rs' = [rs EXCEPT !.st = st]
         /\ \/ ~validateRayService /\ st = [rs.st EXCEPT !.ready = "ValidationFailed"]
            \/ st = Suspending(rs.st)
            \/ rs.st.susp = "suspending" /\ st = Suspended(rs.st)
            \/ rs.st.susp = "suspended" /\ st = Resumed(rs.st)

\* A whole pass is made.
PassedWith(w, weights, s1, s2, s3, pen, s4, st) ==
    /\ Worked(w) /\ weights = createHTTPRoute(w.st, "pending" \in w.ready)
    /\ Stages(w, weights, s1, s2, s3, pen, s4, st) /\ Stores(st)
    /\ route' = IF IsIncrementalUpgradeEnabled /\ Active.exists THEN weights ELSE route
    /\ w.ready # {} => headSvc' = Target(w) /\ serveSvc' = Target(w)
Passed ==
    /\ Writable /\ Proceeds /\ Scalable /\ UNCHANGED clusterCache
    /\ \E w, weights, s1, s2, s3, pen, s4, st : PassedWith(w, weights, s1, s2, s3, pen, s4, st)

\* The object changes only by a write, and only if the cache showed its latest version.
LEMMA WritesEffect ==
    ASSUME NEW o, NEW requeue, Writes(o, requeue) \/ Returns(requeue)
    PROVE  /\ UNCHANGED <<strategy, cache, names>>
           /\ rs' = rs \/ (rs = cache /\ rs' = o)
BY DEF Writes, Returns, user

\* A step that leaves the object alone is quiet, whether or not the informer catches up.
LEMMA QuietWhenUnchanged ==
    ASSUME rs' = rs, names' = names, cache' \in {cache, rs}
    PROVE  Quiet
BY DEF Quiet

\* Reconcile leaves the status alone, writes one of the four statuses of its early returns,
\* or makes a whole pass; the latter two from an up to date cache.
LEMMA ReconcileStatus ==
    ASSUME TypeOK, Reconcile
    PROVE  UNCHANGED strategy /\ (Quiet \/ Written \/ Passed)
<1>1. rs \in Object /\ rs.st \in Status
  BY DEF TypeOK, Object
<1>2. CASE RemoveFinalizer
  <2>1. /\ UNCHANGED <<strategy, cache, names>>
        /\ rs' = rs \/ (rs = cache /\ rs' = [rs EXCEPT !.exists = FALSE, !.finalizer = FALSE])
    BY <1>2, WritesEffect, Zenon DEF RemoveFinalizer
  <2>2. cache.deleting
    BY <1>2 DEF RemoveFinalizer
  <2> QED
    BY <1>1, <2>1, <2>2, Zenon DEF Quiet, Object
<1>3. CASE AddFinalizer
  <2>1. /\ UNCHANGED <<strategy, cache, names>>
        /\ rs' = rs \/ rs' = [rs EXCEPT !.finalizer = TRUE]
    BY <1>3, WritesEffect, Zenon DEF AddFinalizer
  <2> QED
    BY <1>1, <2>1 DEF Quiet, Object
<1>4. CASE ValidationFails
  <2>1. /\ UNCHANGED <<strategy, cache, names>>
        /\ rs' = rs \/ (rs = cache /\ rs' = [rs EXCEPT !.st.ready = "ValidationFailed"])
    BY <1>4, WritesEffect, Zenon DEF ValidationFails
  <2>2. ~cache.deleting /\ ~validateRayService
    BY <1>4 DEF ValidationFails, Live
  <2>3. [rs EXCEPT !.st.ready = "ValidationFailed"]
           = [rs EXCEPT !.st = [rs.st EXCEPT !.ready = "ValidationFailed"]]
    BY <1>1 DEF Object
  <2> QED
    BY <1>1, <2>1, <2>2, <2>3, StatusTyped, QuietWhenUnchanged, Zenon DEF Written, Writable
<1>5. CASE StartSuspending
  <2>1. /\ UNCHANGED <<strategy, cache, names>>
        /\ rs' = rs \/ (rs = cache /\ rs' = [rs EXCEPT !.st = Suspending(@)])
    BY <1>5, WritesEffect, Zenon DEF StartSuspending
  <2>2. ~cache.deleting
    BY <1>5 DEF StartSuspending, Serves, Live
  <2> QED
    BY <1>1, <2>1, <2>2, StatusTyped, QuietWhenUnchanged, Zenon DEF Written, Writable
<1>6. CASE CompleteSuspend
  <2>1. /\ UNCHANGED <<strategy, cache, names>>
        /\ rs' = rs \/ (rs = cache /\ rs' = [rs EXCEPT !.st = Suspended(@)])
    BY <1>6, WritesEffect, Zenon DEF CompleteSuspend
  <2>2. ~cache.deleting /\ cache.st.susp = "suspending"
    BY <1>6 DEF CompleteSuspend, Serves, Live
  <2> QED
    BY <1>1, <2>1, <2>2, StatusTyped, QuietWhenUnchanged, Zenon DEF Written, Writable
<1>7. CASE AwaitClusters \/ StaySuspended \/ ResumeFails \/ TimedOut
  <2>1. UNCHANGED <<strategy, rs, cache, names>>
    BY <1>7 DEF AwaitClusters, StaySuspended, ResumeFails, TimedOut, Returns, user
  <2> QED
    BY <2>1, QuietWhenUnchanged
<1>8. CASE NotFound \/ CleanUpFails \/ deleteRayServiceOwnedResources \/ createRayClusterInstance
  <2>1. UNCHANGED <<strategy, rs, cache, names>>
    BY <1>8 DEF NotFound, CleanUpFails, deleteRayServiceOwnedResources,
                createRayClusterInstance, user
  <2> QED
    BY <2>1, QuietWhenUnchanged
<1>9. ASSUME Proceeds, UNCHANGED <<cache, names>>,
             rs' = [rs EXCEPT !.st = IF cache.st.susp = "suspended" THEN Start ELSE @]
      PROVE  Quiet \/ Written
  <2>1. ~cache.deleting
    BY <1>9 DEF Proceeds, Operative, Serves, Live
  <2>2. CASE cache.st.susp = "suspended"
    <3>1. rs = cache /\ Start = Resumed(rs.st)
      BY <1>9, <2>2 DEF Proceeds, Start
    <3> QED
      BY <1>1, <1>9, <2>1, <2>2, <3>1, StatusTyped, Zenon DEF Written, Writable
  <2>3. CASE cache.st.susp # "suspended"
    <3>1. rs' = rs
      BY <1>1, <1>9, <2>3 DEF Object
    <3> QED
      BY <1>9, <3>1, QuietWhenUnchanged
  <2> QED
    BY <2>2, <2>3
<1>10. CASE UpdateConflicts
  BY <1>9, <1>10 DEF UpdateConflicts, user
<1>11. CASE Proceed
  <2>1. /\ Proceeds /\ Scalable /\ UNCHANGED <<strategy, cache, clusterCache>>
    BY <1>11, ProceedPasses DEF user
  <2>2. PICK k, w : k \in 0..6 /\ Worked(w) /\ Pass(k, w)
    BY <1>11, ProceedPasses
  <2> DEFINE weights == createHTTPRoute(w.st, "pending" \in w.ready)
  <2>3. CASE ~(k = 6 /\ rs = cache)
    BY <1>9, <2>1, <2>2, <2>3 DEF Pass
  <2>4. CASE k = 6 /\ rs = cache
    <3>1. /\ calculateStatus(w, weights)
          /\ route' = IF IsIncrementalUpgradeEnabled /\ Active.exists THEN weights ELSE route
          /\ w.ready # {} => headSvc' = Target(w) /\ serveSvc' = Target(w)
      BY <2>2, <2>4 DEF Pass
    <3>2. ~cache.deleting
      BY <2>1 DEF Proceeds, Operative, Serves, Live
    <3> HIDE DEF weights
    <3>3. PICK s1, s2, s3, pen, s4, st :
             Stages(w, weights, s1, s2, s3, pen, s4, st) /\ Stores(st)
      BY <3>1, CalculateStages
    <3>4. PassedWith(w, weights, s1, s2, s3, pen, s4, st)
      BY <2>2, <3>1, <3>3 DEF PassedWith, weights
    <3> QED
      BY <2>1, <2>4, <3>2, <3>4 DEF Passed, Writable
  <2> QED
    BY <2>1, <2>3, <2>4
<1> QED
  BY <1>2, <1>3, <1>4, <1>5, <1>6, <1>7, <1>8, <1>10, <1>11, Zenon DEF Reconcile

\* No other step writes a status.
LEMMA StatusStep ==
    ASSUME TypeOK, [Next]_vars
    PROVE  UNCHANGED strategy /\ (Quiet \/ Timed \/ Written \/ Passed)
<1>1. rs \in Object /\ cache \in Object
  BY DEF TypeOK
<1>2. CASE Reconcile
  BY <1>2, ReconcileStatus
<1>3. CASE IntervalPasses
  BY <1>1, <1>3, AgedShape DEF IntervalPasses, Ages, Timed, user
<1>4. CASE InitializingExpires
  BY <1>1, <1>4, LateShape DEF InitializingExpires, Ages, Timed, user
<1>5. CASE Edits
  <2>1. UNCHANGED <<strategy, cache, names>> /\ ~rs.deleting
    BY <1>5 DEF Edits, EditGoal, EditGroups, EditConfig, EditSuspend, EditDelete, EditDrop, Edit
  <2>2. \/ rs'.st = rs.st /\ rs'.exists = rs.exists
        \/ rs'.st = rs.st /\ rs'.deleting
    BY <1>1, <1>5, Zenon DEF Edits, EditGoal, EditGroups, EditConfig, EditSuspend, EditDelete,
                      EditDrop, Object
  <2> QED
    BY <2>1, <2>2 DEF Quiet
<1>6. CASE \/ \E n \in Names : \/ SyncCluster(n) \/ DeletionDelayPasses(n) \/ Works(n)
                               \/ HeadLost(n) \/ GarbageCollected(n)
           \/ SyncService \/ GatewayReady \/ OperatorRestarts \/ UNCHANGED vars
  <2>1. UNCHANGED <<strategy, rs, names>> /\ cache' \in {cache, rs}
    BY <1>6 DEF SyncCluster, DeletionDelayPasses, Works, HeadStarts, HeadReady, AppsRun,
                ClusterDeleted, HeadLost, GarbageCollected, SyncService, GatewayReady,
                OperatorRestarts, World, user, vars
  <2> QED
    BY <2>1, QuietWhenUnchanged
<1> QED
  BY <1>2, <1>3, <1>4, <1>5, <1>6 DEF Next, Sync, Time

------------------------------------------------------------------------------
\* What a step does to a RayCluster.

\* It stays.
Kept(n) ==
    clusters'[n].exists = clusters[n].exists /\ clusters'[n].deleting = clusters[n].deleting

\* The operator deletes it, because of what the caches show.
Condemned(n) ==
    /\ clusters'[n].exists = clusters[n].exists /\ clusters[n].exists /\ clusterCache[n].exists
    /\ cache.deleting \/ n \notin Named(cache.st) \/ cache.st.susp = "suspending"

\* Others do.
Collected(n) ==
    /\ clusters'[n].exists = clusters[n].exists /\ clusters[n].exists
    /\ ~rs.exists \/ (~IsIncrementalUpgradeEnabled /\ edits' # edits)

\* It is created, as the cached status asks for.
Created(n) ==
    /\ n = cache.st.pending.name /\ cache.st.susp = "no" /\ UpToDate
    /\ ~clusterCache[n].exists /\ ~clusters[n].exists
    /\ ~clusters'[n].deleting

ClusterStep(n) ==
    \/ Kept(n) \/ Condemned(n) \/ Collected(n) \/ Created(n)
    \/ clusters[n].deleting /\ clusters'[n] = NoCluster

\* The cleanup and the suspension delete what the cached status condemns.
LEMMA CleanupStep ==
    ASSUME TypeOK, NEW n \in Names, NEW cs, NEW S, cs = Deleted(clusters, S),
           \/ S \subseteq Expired
           \/ cache.st.susp = "suspending" /\ S = {m \in Names : clusterCache[m].exists},
           clusters'[n].exists = cs[n].exists, clusters'[n].deleting = cs[n].deleting
    PROVE  Kept(n) \/ Condemned(n)
<1>1. /\ cs[n].exists = clusters[n].exists
      /\ n \notin S \/ ~clusters[n].exists => cs[n] = clusters[n]
  BY DeletedTyped DEF TypeOK
<1>2. n \in S => /\ clusterCache[n].exists
                 /\ \/ cache.deleting \/ n \notin Named(cache.st) \/ cache.st.susp = "suspending"
  BY DEF Expired, Dangling
<1> QED
  BY <1>1, <1>2 DEF Kept, Condemned

\* Reconcile deletes and creates RayClusters only as ClusterStep says.
LEMMA ReconcileClusters ==
    ASSUME TypeOK, Reconcile, NEW n \in Names
    PROVE  ClusterStep(n) /\ UNCHANGED <<clusterCache, edits>>
<1>1. UNCHANGED <<clusterCache, edits>>
  BY Zenon DEF Reconcile, NotFound, CleanUpFails, RemoveFinalizer, AwaitClusters, AddFinalizer,
     ValidationFails, StartSuspending, StaySuspended, ResumeFails,
     deleteRayServiceOwnedResources, CompleteSuspend, TimedOut, createRayClusterInstance,
     UpdateConflicts, Proceed, Writes, Returns, user
<1>2. ASSUME NEW S, clusters' = Deleted(clusters, S),
             \/ S \subseteq Expired
             \/ cache.st.susp = "suspending" /\ S = {m \in Names : clusterCache[m].exists}
      PROVE  Kept(n) \/ Condemned(n)
  BY <1>2, CleanupStep
<1>3. CASE NotFound
  BY <1>1, <1>3 DEF NotFound, Kept, ClusterStep
<1>4. CASE CleanUpFails
  <2>1. PICK S \in SUBSET Expired : clusters' = Deleted(clusters, S)
    BY <1>4 DEF CleanUpFails
  <2> QED
    BY <1>1, <1>2, <2>1 DEF ClusterStep
<1>5. CASE \/ RemoveFinalizer \/ AwaitClusters \/ AddFinalizer \/ ValidationFails
           \/ StartSuspending \/ StaySuspended \/ ResumeFails \/ CompleteSuspend \/ TimedOut
  <2>1. clusters' = Deleted(clusters, Expired)
    BY <1>5 DEF RemoveFinalizer, AwaitClusters, AddFinalizer, ValidationFails,
       StartSuspending, StaySuspended, ResumeFails, CompleteSuspend, TimedOut, Writes, Returns
  <2> QED
    BY <1>1, <1>2, <2>1, Zenon DEF ClusterStep
<1>6. CASE deleteRayServiceOwnedResources
  BY <1>1, <1>2, <1>6, Zenon DEF deleteRayServiceOwnedResources, ClusterStep
<1>7. CASE createRayClusterInstance
  <2> DEFINE m == cache.st.pending.name
             cs == Deleted(clusters, Expired)
             c == [exists |-> TRUE, deleting |-> FALSE, goal |-> cache.goal, head |-> "none"]
  <2>1. /\ clusters' = cs \/ (~cs[m].exists /\ clusters' = [cs EXCEPT ![m] = c])
        /\ ~clusterCache[m].exists
    BY <1>7 DEF createRayClusterInstance
  <2>2. cache.st.susp = "no" /\ UpToDate
    BY <1>7 DEF createRayClusterInstance, Steady, cleanUpRayClusterInstance, Takes
  <2>3. cs \in [Names -> Cluster] /\ cs[n].exists = clusters[n].exists
    BY DeletedTyped DEF TypeOK
  <2>4. CASE clusters' = cs
    BY <1>1, <1>2, <2>4, Zenon DEF ClusterStep
  <2>5. CASE ~cs[m].exists /\ clusters' = [cs EXCEPT ![m] = c] /\ n = m
    <3>1. clusters'[n] = c
      BY <2>3, <2>5, Zenon
    <3> QED
      BY <1>1, <2>1, <2>2, <2>3, <2>5, <3>1, Zenon DEF ClusterStep, Created
  <2>6. CASE clusters' = [cs EXCEPT ![m] = c] /\ n # m
    <3>1. clusters'[n] = cs[n]
      BY <2>3, <2>6
    <3> QED
      BY <1>1, <3>1, CleanupStep DEF ClusterStep
  <2> QED
    BY <2>1, <2>4, <2>5, <2>6, Zenon
<1>8. ASSUME NEW S, clusters' = WithGoal(Deleted(clusters, Expired), S)
      PROVE  ClusterStep(n)
  <2>1. cache.goal \in Goal /\ Deleted(clusters, Expired) \in [Names -> Cluster]
    BY DeletedTyped DEF TypeOK, Object
  <2> DEFINE cs == Deleted(clusters, Expired)
  <2> HIDE DEF cs
  <2>2. clusters'[n].exists = cs[n].exists /\ clusters'[n].deleting = cs[n].deleting
    BY <1>8, <2>1, WithGoalTyped DEF cs
  <2> QED
    BY <2>2, CleanupStep DEF ClusterStep, cs
<1>9. CASE UpdateConflicts
  BY <1>1, <1>8, <1>9 DEF UpdateConflicts
<1>10. CASE Proceed
  <2>1. \E k \in 0..6 : \E w : Pass(k, w)
    BY <1>10, ProceedPasses
  <2> QED
    BY <1>1, <1>8, <2>1 DEF Pass
<1> QED
  BY <1>3, <1>4, <1>5, <1>6, <1>7, <1>9, <1>10, Zenon DEF Reconcile

\* So does every step, and the informer copies what is there.
LEMMA ClustersStep ==
    ASSUME TypeOK, [Next]_vars, NEW n \in Names
    PROVE  /\ ClusterStep(n)
           /\ clusterCache'[n] \in {clusterCache[n], clusters[n]}
           /\ clusterCache'[n] # clusterCache[n] => Kept(n)
<1>1. clusters \in [Names -> Cluster] /\ clusterCache \in [Names -> Cluster]
  BY DEF TypeOK
<1>2. CASE Reconcile
  BY <1>2, ReconcileClusters
<1>3. CASE UNCHANGED <<clusters, clusterCache>>
  BY <1>3 DEF ClusterStep, Kept
<1>4. ASSUME NEW m \in Names, SyncCluster(m)
      PROVE  /\ ClusterStep(n) /\ clusterCache'[n] \in {clusterCache[n], clusters[n]} /\ Kept(n)
  BY <1>1, <1>4 DEF SyncCluster, ClusterStep, Kept
<1>5. ASSUME NEW m \in Names, Works(m) \/ HeadLost(m)
      PROVE  ClusterStep(n) /\ UNCHANGED clusterCache
  <2>1. UNCHANGED clusterCache
    BY <1>5 DEF Works, HeadStarts, HeadReady, AppsRun, ClusterDeleted, HeadLost, World
  <2>2. CASE HeadStarts(m) \/ HeadReady(m) \/ AppsRun(m)
    <3>1. clusters[n] \in Cluster /\ clusters[m] \in Cluster
      BY <1>1
    <3>2. Kept(n)
      BY <1>1, <2>2, <3>1 DEF HeadStarts, HeadReady, AppsRun, Kept, Cluster
    <3> QED
      BY <2>1, <3>2 DEF ClusterStep
  <2>3. CASE ClusterDeleted(m)
    BY <1>1, <2>1, <2>3 DEF ClusterDeleted, Kept, ClusterStep
  <2>4. CASE HeadLost(m)
    <3>1. clusters[n] \in Cluster /\ clusters[m] \in Cluster
      BY <1>1
    <3>2. Kept(n)
      BY <1>1, <2>4, <3>1 DEF HeadLost, Kept, Cluster
    <3> QED
      BY <2>1, <3>2 DEF ClusterStep
  <2> QED
    BY <1>5, <2>2, <2>3, <2>4 DEF Works
<1>6. ASSUME NEW m \in Names, GarbageCollected(m) \/ EditDrop(m)
      PROVE  ClusterStep(n) /\ UNCHANGED clusterCache
  <2>1. /\ UNCHANGED clusterCache /\ clusters[m].exists
        /\ clusters' = [clusters EXCEPT ![m].deleting = TRUE]
        /\ ~rs.exists \/ (~IsIncrementalUpgradeEnabled /\ edits' # edits)
    BY <1>6 DEF GarbageCollected, EditDrop, Edit, World, TypeOK
  <2>2. clusters[n] \in Cluster /\ clusters[m] \in Cluster
    BY <1>1
  <2>3. clusters'[n].exists = clusters[n].exists /\ (n # m => clusters'[n] = clusters[n])
    BY <1>1, <2>1, <2>2 DEF Cluster
  <2> QED
    BY <2>1, <2>3, Zenon DEF ClusterStep, Kept, Collected
<1>7. CASE Edits
  <2>1. UNCHANGED <<clusters, clusterCache>> \/ \E m \in Names : EditDrop(m)
    BY <1>7 DEF Edits, EditGoal, EditGroups, EditConfig, EditSuspend, EditDelete, Edit
  <2> QED
    BY <1>3, <1>6, <2>1
<1>8. CASE \/ \E m \in Names : DeletionDelayPasses(m)
           \/ SyncService \/ IntervalPasses \/ InitializingExpires \/ GatewayReady
           \/ OperatorRestarts \/ UNCHANGED vars
  <2>1. UNCHANGED <<clusters, clusterCache>>
    BY <1>8 DEF DeletionDelayPasses, SyncService, IntervalPasses, InitializingExpires, Ages,
                GatewayReady, World, OperatorRestarts, vars
  <2> QED
    BY <1>3, <2>1, Zenon
<1> QED
  BY <1>2, <1>4, <1>5, <1>6, <1>7, <1>8, Zenon DEF Next, Sync, Time

------------------------------------------------------------------------------
\* The names in a status, and the RayClusters that have them.

\* A status names nothing while suspended, two RayClusters exactly during an upgrade, and
\* none twice.
Keeps(st) ==
    /\ st.susp # "no" => /\ st.active.name = 0 /\ st.pending.name = 0
                         /\ st.pending.tc = -1 /\ st.pending.traffic = -1 /\ ~st.rollback
    /\ st.upgrade = "True" <=> st.active.name # 0 /\ st.pending.name # 0
    /\ st.active.name # 0 => st.active.name # st.pending.name

\* The cache never knows of a deletion before it happens.
Behind == (cache.deleting => rs.deleting) /\ (~rs.exists => rs.deleting)

\* A name is given once; and of the RayClusters the stored status names, those that may
\* exist are also named by the cached one, from which the cleanup decides.
Counted == Named(rs.st) \subseteq 0..names /\ Named(cache.st) \subseteq 0..names
Unborn == \A n \in Names : n > names =>
             ~clusters[n].exists /\ ~clusters[n].deleting /\ ~clusterCache[n].exists
Recognised == \A n \in Names : n \in Named(rs.st) =>
                 n \in Named(cache.st) \/ (~clusters[n].exists /\ ~clusterCache[n].exists)

NameInv ==
    TypeOK /\ Behind /\ Keeps(rs.st) /\ Keeps(cache.st) /\ Counted /\ Unborn /\ Recognised

\* A new RayService names no RayCluster.
LEMMA NameInit == Init => NameInv
<1> SUFFICES ASSUME Init PROVE NameInv
  OBVIOUS
<1>1. rs.st.active = NoService /\ rs.st.pending = NoService /\ rs.st.susp = "no"
      /\ rs.st.upgrade = "none" /\ cache = rs
  BY DEF Init, NoStatus
<1>2. Keeps(rs.st) /\ Keeps(cache.st)
  BY <1>1, NoServiceFact DEF Keeps
<1>3. Named(rs.st) = {0} /\ Named(cache.st) = {0}
  BY <1>1, NoServiceFact DEF Named
<1>4. \A n \in Names : n # 0
  BY NamesFact
<1> QED
  BY <1>2, <1>3, <1>4, TypeInit DEF Init, NameInv, Behind, Counted, Unborn, Recognised, NoCluster

\* The statuses of the early returns keep the names or forget them all.
LEMMA WrittenShape ==
    ASSUME TypeOK, Written
    PROVE  /\ rs'.st \in Status /\ rs'.exists = rs.exists /\ rs'.deleting = rs.deleting
           /\ \/ /\ ~validateRayService /\ rs'.st = [rs.st EXCEPT !.ready = "ValidationFailed"]
                 /\ rs'.st.active = rs.st.active /\ rs'.st.pending = rs.st.pending
                 /\ rs'.st.susp = rs.st.susp /\ rs'.st.rollback = rs.st.rollback
                 /\ rs'.st.upgrade = rs.st.upgrade
              \/ /\ rs'.st = Suspending(rs.st) /\ rs'.st.susp = "suspending"
                 /\ rs'.st.active = NoService /\ rs'.st.pending = NoService
                 /\ ~rs'.st.rollback /\ rs'.st.upgrade = "False"
              \/ /\ rs.st.susp = "suspending" /\ rs'.st.susp = "suspended"
                 /\ rs'.st.active = rs.st.active /\ rs'.st.pending = rs.st.pending
                 /\ ~rs'.st.rollback /\ rs'.st.upgrade = "False"
              \/ /\ rs.st.susp = "suspended" /\ rs'.st.susp = "no"
                 /\ rs'.st.active = rs.st.active /\ rs'.st.pending = rs.st.pending
                 /\ rs'.st.rollback = rs.st.rollback /\ rs'.st.upgrade = "Initializing"
                 /\ rs'.st.ready = "Initializing"
<1>1. rs \in Object /\ rs.st \in Status
  BY DEF TypeOK, Object
<1>2. PICK st \in Status :
         /\ rs' = [rs EXCEPT !.st = st]
         /\ \/ ~validateRayService /\ st = [rs.st EXCEPT !.ready = "ValidationFailed"]
            \/ st = Suspending(rs.st)
            \/ rs.st.susp = "suspending" /\ st = Suspended(rs.st)
            \/ rs.st.susp = "suspended" /\ st = Resumed(rs.st)
  BY DEF Written
<1>3. rs'.st = st /\ rs'.exists = rs.exists /\ rs'.deleting = rs.deleting
  BY <1>1, <1>2, ObjectTyped
<1>4. CASE ~validateRayService /\ st = [rs.st EXCEPT !.ready = "ValidationFailed"]
  BY <1>1, <1>3, <1>4 DEF Status
<1>5. CASE st = Suspending(rs.st)
  BY <1>1, <1>3, <1>5 DEF Status, Suspending
<1>6. CASE rs.st.susp = "suspending" /\ st = Suspended(rs.st)
  BY <1>1, <1>3, <1>6 DEF Status, Suspended
<1>7. CASE rs.st.susp = "suspended" /\ st = Resumed(rs.st)
  BY <1>1, <1>3, <1>7 DEF Status, Resumed
<1> QED
  BY <1>2, <1>4, <1>5, <1>6, <1>7, Zenon

\* A whole pass keeps the names, promotes the pending one, forgets some or adds a new one.
LEMMA PassedShape ==
    ASSUME TypeOK, Passed, Keeps(rs.st), Counted
    PROVE  /\ rs'.st \in Status /\ rs'.exists = rs.exists /\ rs'.deleting = rs.deleting
           /\ rs'.st.susp = "no"
           /\ rs'.st.active.name \in {0, rs.st.active.name, rs.st.pending.name}
           /\ rs'.st.pending.name \in {0, rs.st.pending.name, names + 1}
           /\ rs'.st.active.name # 0 => rs'.st.active.name # rs'.st.pending.name
           /\ rs'.st.upgrade = "True" <=> rs'.st.active.name # 0 /\ rs'.st.pending.name # 0
           /\ names' = IF rs'.st.pending.name > names THEN rs'.st.pending.name ELSE names
<1>1. PICK w, weights, s1, s2, s3, pen, s4, st : PassedWith(w, weights, s1, s2, s3, pen, s4, st)
  BY DEF Passed
<1>2. /\ rs = cache /\ Scalable /\ Proceeds
  BY DEF Passed, Writable
<1>3. /\ Start.active = rs.st.active /\ Start.pending = rs.st.pending /\ Start.susp = "no"
  BY <1>2, StartTyped DEF Proceeds, Operative
<1>4. st \in Loose /\ st.susp = "no"
  BY <1>1, <1>2, <1>3, StageShapes, Zenon DEF PassedWith, StageFacts
<1>5. /\ rs' \in Object /\ rs'.st = st /\ st \in Status
  BY <1>1, <1>4, StoresTyped, Zenon DEF PassedWith
<1>6. rs'.exists = rs.exists /\ rs'.deleting = rs.deleting
  BY <1>1, <1>5, ObjectTyped DEF PassedWith, Stores, TypeOK
<1>7. /\ Named(Start) \subseteq 0..names
      /\ Start.active.name # 0 => Start.active.name # Start.pending.name
  BY <1>3 DEF Counted, Keeps, Named
<1>8. /\ st.active.name \in {0, Start.active.name, Start.pending.name}
      /\ st.pending.name \in {0, Start.pending.name, names + 1}
      /\ st.active.name # 0 => st.active.name # st.pending.name
      /\ st.upgrade = "True" <=> st.active.name # 0 /\ st.pending.name # 0
  <2>1. NamesTo(w, s1, st)
    BY <1>1, <1>2, <1>7, PassNames, Zenon DEF PassedWith
  <2> QED
    BY <2>1, Zenon DEF NamesTo
<1> QED
  BY <1>1, <1>3, <1>4, <1>5, <1>6, <1>8 DEF PassedWith, Stores

\* The status keeps these facts about the names in it.
LEMMA NamesStep ==
    ASSUME NameInv, [Next]_vars
    PROVE  Behind' /\ Keeps(rs.st)' /\ Keeps(cache.st)' /\ Counted'
<1>1. rs.st \in Status /\ cache.st \in Status /\ names \in Nat
  BY NamesFact DEF NameInv, TypeOK, Object
<1>2. /\ TypeOK /\ Behind /\ Keeps(rs.st) /\ Keeps(cache.st) /\ Counted
  BY Zenon DEF NameInv
<1>3. CASE Quiet
  BY <1>2, <1>3, Zenon DEF Quiet, Behind, Counted, Keeps, Named
<1>4. CASE Timed
  <2>1. /\ names' = names /\ SameButTime(rs, rs') /\ SameButTime(cache, cache')
    BY <1>4 DEF Timed
  <2>2. Behind' /\ Counted'
    BY <1>2, <2>1, Zenon DEF Behind, Counted, Named, SameButTime
  <2>3. Keeps(rs.st)' /\ Keeps(cache.st)'
    BY <1>2, <2>1, SMTT(20) DEF Keeps, SameButTime, SameUpgrade
  <2> QED
    BY <2>2, <2>3
<1>5. CASE Written
  <2>1. rs = cache /\ cache' = cache /\ names' = names
    BY <1>5 DEF Written, Writable
  <2>2. Keeps(rs.st)'
    BY <1>2, <1>5, WrittenShape, NoServiceFact, Zenon DEF Keeps
  <2>3. Named(rs'.st) \subseteq Named(rs.st) \cup {0}
    BY <1>2, <1>5, WrittenShape, NoServiceFact DEF Named
  <2>4. Behind'
    BY <1>2, <1>5, <2>1, WrittenShape, Zenon DEF Behind
  <2> QED
    BY <1>1, <1>2, <2>1, <2>2, <2>3, <2>4 DEF Counted, Keeps
<1>6. CASE Passed
  <2>1. rs = cache /\ cache' = cache
    BY <1>6, Zenon DEF Passed, Writable
  <2>2. Keeps(rs.st)'
    BY <1>2, <1>6, PassedShape, Zenon DEF Keeps
  <2>3. names' \in Nat /\ names <= names' /\ Named(rs'.st) \subseteq 0..names'
    <3>1. Named(rs.st) \subseteq 0..names
      BY <1>2 DEF Counted
    <3> QED
      BY <1>1, <1>2, <1>6, <3>1, PassedShape DEF Named
  <2>4. Behind'
    BY <1>2, <1>6, <2>1, PassedShape DEF Behind
  <2> QED
    BY <1>1, <1>2, <2>1, <2>2, <2>3, <2>4 DEF Counted, Keeps
<1> QED
  BY <1>2, <1>3, <1>4, <1>5, <1>6, StatusStep, Zenon

\* A name that is new in the stored status was never used, and is given from an up to date
\* cache only.
LEMMA NamesGrow ==
    ASSUME NameInv, [Next]_vars
    PROVE  /\ names' >= names
           /\ \A n \in Named(rs'.st) : n \in Named(rs.st) \cup {0} \/ n = names + 1
           /\ Named(cache'.st) \in {Named(cache.st), Named(rs.st)}
           /\ (\E n \in Named(rs'.st) : n \notin Named(rs.st) \cup {0}) => rs = cache
           /\ Named(cache'.st) = Named(cache.st) \/ rs' = cache'
<1>1. names \in Nat /\ rs.st \in Status
  BY NamesFact DEF NameInv, TypeOK, Object
<1>2. /\ TypeOK /\ Keeps(rs.st) /\ Counted
  BY DEF NameInv
<1>3. CASE Quiet
  BY <1>1, <1>3 DEF Quiet, Named
<1>4. CASE Timed
  BY <1>1, <1>4 DEF Timed, SameButTime, Named
<1>5. CASE Written
  <2>1. rs = cache /\ cache' = cache /\ names' = names
    BY <1>5, Zenon DEF Written, Writable
  <2>2. Named(rs'.st) \subseteq Named(rs.st) \cup {0}
    BY <1>2, <1>5, WrittenShape, NoServiceFact, Zenon DEF Named
  <2> QED
    BY <1>1, <2>1, <2>2
<1>6. CASE Passed
  <2>1. rs = cache /\ cache' = cache
    BY <1>6, Zenon DEF Passed, Writable
  <2>2. Named(rs'.st) \subseteq Named(rs.st) \cup {0, names + 1}
    BY <1>2, <1>6, PassedShape DEF Named
  <2>3. names' >= names
    <3>1. names' = IF rs'.st.pending.name > names THEN rs'.st.pending.name ELSE names
      BY <1>2, <1>6, PassedShape, Zenon
    <3>2. rs'.st.pending.name \in Nat
      BY <1>2, <1>6, PassedShape, NamesFact DEF Status, ServiceStatus
    <3> QED
      BY <1>1, <3>1, <3>2
  <2> QED
    BY <1>1, <2>1, <2>2, <2>3, Zenon
<1> QED
  BY <1>2, <1>3, <1>4, <1>5, <1>6, StatusStep, Zenon

\* Every step keeps NameInv: Recognised, because a conflict refuses a name computed from an
\* old status.
LEMMA NameStep ==
    ASSUME NameInv, [Next]_vars
    PROVE  NameInv'
<1>1. /\ TypeOK /\ Unborn /\ Recognised /\ Counted /\ names \in Nat
  BY NamesFact DEF NameInv, TypeOK
<1>2. ASSUME NEW n \in Names, n > names'
      PROVE  ~clusters'[n].exists /\ ~clusters'[n].deleting /\ ~clusterCache'[n].exists
  <2>1. n > names /\ n \in Nat /\ n # 0
    <3>1. names' \in Nat /\ n \in Nat /\ n # 0
      BY <1>1, TypeStep, NamesFact DEF TypeOK
    <3> QED
      BY <1>1, <1>2, <3>1, NamesGrow
  <2>2. ~clusters[n].exists /\ ~clusters[n].deleting /\ ~clusterCache[n].exists
    BY <1>1, <2>1 DEF Unborn
  <2>3. n \notin Named(cache.st)
    BY <1>1, <2>1 DEF Counted
  <2> QED
    BY <1>1, <2>2, <2>3, ClustersStep, Zenon
       DEF ClusterStep, Kept, Condemned, Collected, Created, Named
<1>3. ASSUME NEW n \in Names, n \in Named(rs'.st), n \notin Named(cache'.st)
      PROVE  ~clusters'[n].exists /\ ~clusterCache'[n].exists
  <2>1. n # 0 /\ n \in Nat
    BY NamesFact
  <2>2. n \notin Named(cache.st) /\ Named(cache'.st) = Named(cache.st)
    BY <1>3, NamesGrow
  <2>3. ~clusters[n].exists /\ ~clusterCache[n].exists
    <3>1. CASE n \in Named(rs.st)
      BY <1>1, <2>2, <3>1, Zenon DEF Recognised
    <3>2. CASE n \notin Named(rs.st)
      BY <1>1, <1>3, <2>1, <3>2, NamesGrow DEF Unborn
    <3> QED
      BY <3>1, <3>2
  <2> QED
    BY <1>1, <2>2, <2>3, ClustersStep
       DEF ClusterStep, Kept, Condemned, Collected, Created, Named, NoCluster
<1> QED
  BY <1>1, <1>2, <1>3, NamesStep, TypeStep, Zenon DEF NameInv, Unborn, Recognised

\* However stale the caches are, a status names no RayCluster before its name was given,
\* none twice and none while suspended, and of those that the stored status names the
\* cached one, from which cleanUpRayClusterInstance decides, misses only such as do not
\* exist (reconcileRayCluster, calculateStatus, handleSuspend).
THEOREM NamesKept == Spec => []NameInv
<1>1. NameInv /\ [Next]_vars => NameInv'
  BY NameStep
<1> QED
  BY <1>1, NameInit, PTL DEF Spec

\* Whatever the caches show and however a reconcile is cut short, the cleanup and the
\* suspension delete no RayCluster that the stored status of a live RayService names
\* (cleanUpRayClusterInstance, deleteRayServiceOwnedResources).
THEOREM NamedAlwaysSpared == Spec => NamedSpared
<1>1. ASSUME NameInv, [Next]_vars, NEW n \in Names, Deletes(n)
      PROVE  n \notin Named(rs.st) \/ rs.deleting
  <2> SUFFICES ASSUME n \in Named(rs.st), ~rs.deleting PROVE FALSE
    OBVIOUS
  <2>1. /\ clusters[n].exists /\ ~clusters[n].deleting /\ clusters'[n].deleting
        /\ edits' = edits
    BY <1>1 DEF Deletes
  <2>2. ClusterStep(n)
    BY <1>1, ClustersStep DEF NameInv
  <2>3. ~Kept(n) /\ ~Created(n)
    BY <2>1, Zenon DEF Kept, Created
  <2>4. ~Collected(n)
    BY <1>1, <2>1, Zenon DEF Collected, NameInv, Behind
  <2>5. n # 0
    BY NamesFact
  <2>6. n \in Named(cache.st)
    BY <1>1, <2>1, Zenon DEF NameInv, Recognised
  <2>7. ~Condemned(n)
    BY <1>1, <2>5, <2>6 DEF Condemned, NameInv, Behind, Keeps, Named
  <2> QED
    BY <2>1, <2>2, <2>3, <2>4, <2>7 DEF ClusterStep
<1>2. NameInv /\ [Next]_vars =>
        [\A n \in Names : Deletes(n) => n \notin Named(rs.st) \/ rs.deleting]_vars
  BY <1>1
<1> QED
  BY <1>2, NamesKept, PTL DEF Spec, NamedSpared

==============================================================================
