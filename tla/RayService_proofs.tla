-------------------------- MODULE RayService_proofs --------------------------
(***************************************************************************)
(* The RayService controller implements the incremental upgrade of         *)
(* RayServiceUpgrade, a suspended RayService is empty, and the HTTPRoute   *)
(* always accounts for all of the traffic.                                 *)
(***************************************************************************)
EXTENDS RayServiceInvariant_proofs

------------------------------------------------------------------------------
\* The refinement.

\* The mapping, and what it makes of the options, the serving RayCluster and the upgrade.
MOptions == IF Incremental THEN strategy ELSE [step |-> 0, surge |-> 0]
MServing == IF Incremental THEN rs.st.active.name ELSE 0
MUpgrade == IF Incremental /\ rs.st.active.name # 0 THEN U(rs.st) ELSE Fresh

\* The instance has its own copy of the arithmetic of RayServiceTraffic.
LEMMA SameArithmetic ==
    /\ Upgrade!Fresh = Fresh
    /\ \A o : Upgrade!ValidateClusterUpgradeOptions(o) = ValidateClusterUpgradeOptions(o)
    /\ \A v : Upgrade!IsIncrementalUpgradeComplete(v) = IsIncrementalUpgradeComplete(v)
    /\ \A v, h : Upgrade!shouldCompleteIncrementalRollback(v, h)
                   = shouldCompleteIncrementalRollback(v, h)
<1>1. Upgrade!Fresh = Fresh
  BY DEF Upgrade!Fresh, Fresh
<1>2. \A o : Upgrade!ValidateClusterUpgradeOptions(o) = ValidateClusterUpgradeOptions(o)
  BY DEF Upgrade!ValidateClusterUpgradeOptions, ValidateClusterUpgradeOptions,
         Upgrade!Percent, Percent
<1>3. \A v : Upgrade!IsIncrementalUpgradeComplete(v) = IsIncrementalUpgradeComplete(v)
  BY DEF Upgrade!IsIncrementalUpgradeComplete, IsIncrementalUpgradeComplete
<1>4. \A v, h : Upgrade!shouldCompleteIncrementalRollback(v, h)
                  = shouldCompleteIncrementalRollback(v, h)
  BY DEF Upgrade!shouldCompleteIncrementalRollback, shouldCompleteIncrementalRollback
<1> QED
  BY <1>1, <1>2, <1>3, <1>4

\* The abstract upgrade scales by the same arithmetic as the controller.
LEMMA SameScaling ==
    ASSUME NEW o, NEW v, NEW who
    PROVE  Upgrade!reconcileServeTargetCapacity(o, v, who) = reconcileServeTargetCapacity(o, v, who)
BY DEF Upgrade!reconcileServeTargetCapacity, reconcileServeTargetCapacity, Upgrade!Sized, Sized,
       Upgrade!Most, Most, Upgrade!Least, Least

\* It moves traffic by the same arithmetic.
LEMMA SameMove ==
    ASSUME NEW o, NEW v, NEW ready, NEW due
    PROVE  Upgrade!calculateTrafficRoutedPercent(o, v, ready, due)
              = calculateTrafficRoutedPercent(o, v, ready, due)
BY DEF Upgrade!calculateTrafficRoutedPercent, calculateTrafficRoutedPercent,
       Upgrade!Split, Split, Upgrade!Least, Least

\* So a pass of the abstract upgrade is one of the controller.
LEMMA SameShift ==
    ASSUME Incremental, NEW v, NEW b, NEW x, NEW y, NEW ready, NEW due
    PROVE  Upgrade!Moved(Upgrade!Rolled(v, b), x, y, ready, due) = Shift(v, b, x, y, ready, due)
<1>1. \A q, who, does : Upgrade!Scaled(q, who, does) = Resize(q, who, does)
  BY SameScaling DEF Upgrade!Scaled, Resize
<1>2. Upgrade!Rolled(v, b) = Turned(v, b)
  BY DEF Upgrade!Rolled, Turned
<1> QED
  BY <1>1, <1>2, SameMove, Zenon DEF Upgrade!Moved, Shift

\* A new RayService is an upgrade that has not begun.
LEMMA UpgradeInit == Init => Upgrade!UInit
<1> SUFFICES ASSUME Init PROVE Upgrade!UInit
  OBVIOUS
<1>1. rs.st.active.name = 0
  BY NoServiceFact, Zenon DEF Init, NoStatus
<1>2. ValidateClusterUpgradeOptions(MOptions)
  BY DEF MOptions, Incremental, validateRayService, ValidateClusterUpgradeOptions, Percent
<1> QED
  BY <1>1, <1>2, SameArithmetic, Zenon DEF Upgrade!UInit, MOptions

\* A step that changes nothing the upgrade shows is a stuttering step.
LEMMA MappedStutter ==
    ASSUME MOptions' = MOptions, MServing' = MServing, MUpgrade' = MUpgrade
    PROVE  UNCHANGED Upgrade!uvars
BY DEF Upgrade!uvars, MOptions, MServing, MUpgrade

\* One that leaves no active RayCluster abandons the upgrade.
LEMMA MappedAbandon ==
    ASSUME MOptions' = MOptions, MServing' = 0, MUpgrade' = Fresh
    PROVE  Upgrade!UNext
<1>1. Upgrade!Abandon
  BY SameArithmetic DEF Upgrade!Abandon, MServing, MUpgrade
<1> QED
  BY <1>1 DEF Upgrade!UNext, MOptions

\* One that makes a RayCluster the first active one begins it.
LEMMA MappedBegin ==
    ASSUME MOptions' = MOptions, MServing = 0, MServing' # 0, MUpgrade' = Fresh
    PROVE  Upgrade!UNext
<1>1. Upgrade!Begin
  BY SameArithmetic DEF Upgrade!Begin, MServing, MUpgrade
<1> QED
  BY <1>1 DEF Upgrade!UNext, MOptions

\* One that turns, scales and moves advances it.
LEMMA MappedAdvance ==
    ASSUME Incremental, MOptions' = MOptions, MServing # 0, MServing' = MServing,
           NEW b \in BOOLEAN, NEW x \in BOOLEAN, NEW y \in BOOLEAN, NEW ready \in BOOLEAN,
           NEW due \in BOOLEAN, MUpgrade' = Shift(MUpgrade, b, x, y, ready, due)
    PROVE  Upgrade!UNext
<1>1. MUpgrade' = Upgrade!Moved(Upgrade!Rolled(MUpgrade, b), x, y, ready, due)
  BY SameShift
<1>2. Upgrade!Advance
  BY <1>1 DEF Upgrade!Advance, MServing, MUpgrade
<1> QED
  BY <1>2 DEF Upgrade!UNext, MOptions

\* What a pass computes on its way is what the abstract one may compute.
LEMMA MappedPass ==
    ASSUME Incremental, NEW v, \E b, x, y, ready, due \in BOOLEAN :
              v = Shift(MUpgrade, b, x, y, ready, due)
    PROVE  v \in Upgrade!Passes(MUpgrade)
<1>1. PICK b, x, y, ready, due \in BOOLEAN : v = Shift(MUpgrade, b, x, y, ready, due)
  OBVIOUS
<1>2. v = Upgrade!Moved(Upgrade!Rolled(MUpgrade, b), x, y, ready, due)
  BY <1>1, SameShift
<1> QED
  BY <1>2, SMTT(20) DEF Upgrade!Passes

\* A promotion after everything has moved is one of the upgrade.
LEMMA MappedPromote ==
    ASSUME MOptions' = MOptions, MServing # 0, MServing' \notin {0, MServing},
           NEW v \in Upgrade!Passes(MUpgrade), ~v.rb, IsIncrementalUpgradeComplete(v),
           MUpgrade' = Fresh
    PROVE  Upgrade!UNext
<1>1. Upgrade!Promote
  BY SameArithmetic DEF Upgrade!Promote, MServing, MUpgrade
<1> QED
  BY <1>1 DEF Upgrade!UNext, MOptions

\* The end of a rollback is one of the upgrade.
LEMMA MappedRestore ==
    ASSUME MOptions' = MOptions, MServing # 0, MServing' = MServing,
           NEW v \in Upgrade!Passes(MUpgrade), v.rb, NEW healthy \in BOOLEAN,
           shouldCompleteIncrementalRollback(v, healthy), MUpgrade' = Fresh
    PROVE  Upgrade!UNext
<1>1. Upgrade!Restore
  BY SameArithmetic DEF Upgrade!Restore, MServing, MUpgrade
<1> QED
  BY <1>1 DEF Upgrade!UNext, MOptions

\* Every step of the controller is a step of the upgrade, or none of its business.
LEMMA UpgradeStep ==
    ASSUME IInv, [Next]_vars
    PROVE  Upgrade!UNext \/ UNCHANGED Upgrade!uvars
<1>1. /\ TypeOK /\ TypeOK' /\ strategy' = strategy
  BY StatusStep, TypeStep DEF IInv, NameInv
<1>2. /\ Incremental' <=> Incremental
  BY <1>1 DEF Incremental, IsIncrementalUpgradeEnabled, validateRayService
<1>3. MOptions' = MOptions
  BY <1>1, <1>2 DEF MOptions
<1>4. CASE ~Incremental
  BY <1>2, <1>3, <1>4, MappedStutter DEF MServing, MUpgrade
<1>5. CASE Incremental
  <2>1. /\ MServing = rs.st.active.name /\ MServing' = rs'.st.active.name
    BY <1>2, <1>5, Zenon DEF MServing
  <2>2. /\ MUpgrade = IF rs.st.active.name # 0 THEN U(rs.st) ELSE Fresh
        /\ MUpgrade' = IF rs'.st.active.name # 0 THEN U(rs'.st) ELSE Fresh
    BY <1>2, <1>5, Zenon DEF MUpgrade, U, Deref, Fresh
  <2>3. CASE Quiet
    BY <1>3, <2>1, <2>2, <2>3, MappedStutter DEF Quiet
  <2>4. CASE Timed
    <3>1. /\ rs'.st.active.name = rs.st.active.name /\ U(rs'.st) = U(rs.st)
      BY <1>1, <2>4, SameUpgradeU DEF Timed, SameButTime, TypeOK, Object
    <3> QED
      BY <1>3, <2>1, <2>2, <3>1, MappedStutter
  <2>5. CASE Written
    <3>1. rs'.st.active.name = 0
      BY <1>1, <1>5, <2>5, WrittenShape, NoServiceFact DEF Incremental, IInv, NameInv, Keeps
    <3> QED
      BY <1>3, <2>1, <2>2, <3>1, MappedAbandon
  <2>6. CASE Passed
    <3>1. Outcome
      BY <1>5, <2>6, PassOutcome, Zenon
    <3>2. CASE rs'.st.active.name = 0
      BY <1>3, <2>1, <2>2, <3>2, MappedAbandon, Zenon
    <3>3. CASE rs.st.active.name = 0 /\ rs'.st.active.name # 0 /\ U(rs'.st) = Fresh
      BY <1>3, <2>1, <2>2, <3>3, MappedBegin
    <3>4. CASE /\ rs.st.active.name # 0 /\ rs'.st.active.name = rs.st.active.name
               /\ U(rs.st) = Fresh /\ U(rs'.st) = Fresh
      BY <1>3, <2>1, <2>2, <3>4, MappedStutter
    <3>5. ASSUME rs.st.active.name # 0, rs'.st.active.name # 0, NEW v,
                 \E b, x, y, ready, due \in BOOLEAN : v = Shift(U(rs.st), b, x, y, ready, due),
                 \/ rs'.st.active.name = rs.st.active.name /\ U(rs'.st) = v
                 \/ /\ rs'.st.active.name # rs.st.active.name /\ U(rs'.st) = Fresh
                    /\ ~v.rb /\ IsIncrementalUpgradeComplete(v)
                 \/ /\ rs'.st.active.name = rs.st.active.name /\ U(rs'.st) = Fresh /\ v.rb
                    /\ \E healthy \in BOOLEAN : shouldCompleteIncrementalRollback(v, healthy)
          PROVE  Upgrade!UNext
      <4>1. /\ MServing # 0 /\ MUpgrade = U(rs.st) /\ MUpgrade' = U(rs'.st)
        BY <2>1, <2>2, <3>5, Zenon
      <4>2. v \in Upgrade!Passes(MUpgrade)
        BY <1>5, <3>5, <4>1, MappedPass
      <4>3. CASE rs'.st.active.name = rs.st.active.name /\ U(rs'.st) = v
        BY <1>3, <1>5, <2>1, <3>5, <4>1, <4>3, MappedAdvance
      <4>4. CASE /\ rs'.st.active.name # rs.st.active.name /\ U(rs'.st) = Fresh
                 /\ ~v.rb /\ IsIncrementalUpgradeComplete(v)
        BY <1>3, <2>1, <3>5, <4>1, <4>2, <4>4, MappedPromote, Zenon
      <4>5. CASE /\ rs'.st.active.name = rs.st.active.name /\ U(rs'.st) = Fresh /\ v.rb
                 /\ \E healthy \in BOOLEAN : shouldCompleteIncrementalRollback(v, healthy)
        BY <1>3, <2>1, <4>1, <4>2, <4>5, MappedRestore
      <4> QED
        BY <3>5, <4>3, <4>4, <4>5, Zenon
    <3> QED
      BY <3>1, <3>2, <3>3, <3>4, <3>5, Zenon DEF Outcome
  <2> QED
    BY <1>1, <2>3, <2>4, <2>5, <2>6, StatusStep
<1> QED
  BY <1>4, <1>5

\* The RayService controller implements the incremental upgrade of RayServiceUpgrade: every
\* reconcile, however it is cut short and however old the caches are, moves the capacity
\* and the traffic in the status by what one surge and one step allow, and replaces the
\* active RayCluster only when everything has moved.
THEOREM RefinesUpgrade == Spec => ImplementsUpgrade
<1>1. IInv /\ [Next]_vars => [Upgrade!UNext]_(Upgrade!uvars)
  BY UpgradeStep
<1> QED
  BY <1>1, UpgradeInit, Invariant, PTL DEF Spec, ImplementsUpgrade, Upgrade!USpec

------------------------------------------------------------------------------
\* Suspension.

\* A reconcile that goes past handleSuspend, from the latest status, leaves one that is
\* not suspended.
LEMMA GoesOn ==
    ASSUME TypeOK, rs = cache, Proceed \/ UpdateConflicts
    PROVE  rs'.st.susp = "no"
<1>1. rs \in Object /\ rs.st \in Status
  BY Zenon DEF TypeOK, Object
<1>2. Proceeds
  BY DEF Proceed, UpdateConflicts
<1>3. Start \in Status /\ Start.susp = "no"
  BY <1>2, StartTyped, Zenon DEF Proceeds, Operative
<1>4. ASSUME rs' = [rs EXCEPT !.st = IF cache.st.susp = "suspended" THEN Start ELSE @]
      PROVE  rs'.st.susp = "no"
  BY <1>1, <1>3, <1>4 DEF Object, Start
<1>5. CASE UpdateConflicts
  BY <1>4, <1>5 DEF UpdateConflicts
<1>6. CASE Proceed
  <2>1. PICK k, w : k \in 0..6 /\ Worked(w) /\ Pass(k, w)
    BY <1>6, ProceedPasses
  <2>2. Scalable
    BY <1>6, ProceedPasses
  <2> DEFINE weights == createHTTPRoute(w.st, "pending" \in w.ready)
  <2>3. CASE k # 6
    BY <1>4, <2>1, <2>3, Zenon DEF Pass
  <2>4. CASE k = 6
    <3>1. calculateStatus(w, weights)
      BY <2>1, <2>4, Zenon DEF Pass
    <3> HIDE DEF weights
    <3>2. PICK s1, s2, s3, pen, s4, st :
             Stages(w, weights, s1, s2, s3, pen, s4, st) /\ Stores(st)
      BY <3>1, CalculateStages, Zenon
    <3>3. st \in Loose /\ st.susp = "no"
      BY <1>3, <2>1, <2>2, <3>2, StageShapes, Zenon DEF weights, StageFacts
    <3> QED
      BY <3>2, <3>3, StoresTyped, Zenon
  <2> QED
    BY <2>3, <2>4
<1> QED
  BY <1>5, <1>6, Zenon

\* Only reconciles touch the Services and the HTTPRoute.
LEMMA OutsideTraffic ==
    ASSUME [Next]_vars, ~Reconcile
    PROVE  UNCHANGED <<headSvc, serveSvc, route>>
<1>1. CASE Sync \/ Time \/ InitializingExpires \/ UNCHANGED vars
  BY <1>1, Zenon DEF vars, traffic, Sync, SyncService, SyncCluster, Time, DeletionDelayPasses,
     IntervalPasses, InitializingExpires, Ages
<1>2. CASE Edits
  BY <1>2, Zenon DEF traffic, Edits, Edit, EditGoal, EditGroups, EditConfig, EditSuspend,
     EditDelete, EditDrop
<1>3. CASE (\E n \in Names : Works(n) \/ HeadLost(n) \/ GarbageCollected(n))
           \/ GatewayReady \/ OperatorRestarts
  BY <1>3, Zenon DEF World, traffic, Works, HeadStarts, HeadReady, AppsRun, ClusterDeleted,
     HeadLost, GarbageCollected, GatewayReady, OperatorRestarts
<1> QED
  BY <1>1, <1>2, <1>3, Zenon DEF Next

\* What is not a pass leaves the HTTPRoute, or deletes it.
LEMMA RouteLeft ==
    ASSUME [Next]_vars, ~Proceed
    PROVE  route' \in {route, <<>>}
<1>1. CASE Reconcile
  <2>1. CASE NotFound \/ CleanUpFails \/ RemoveFinalizer \/ AwaitClusters \/ AddFinalizer
             \/ ValidationFails \/ StartSuspending \/ StaySuspended
    BY <2>1, Zenon DEF NotFound, CleanUpFails, RemoveFinalizer, AwaitClusters, AddFinalizer,
       ValidationFails, StartSuspending, StaySuspended, Writes, Returns, traffic
  <2>2. CASE ResumeFails \/ deleteRayServiceOwnedResources \/ CompleteSuspend \/ TimedOut
             \/ createRayClusterInstance \/ UpdateConflicts
    BY <2>2, Zenon DEF ResumeFails, deleteRayServiceOwnedResources, CompleteSuspend, TimedOut,
       createRayClusterInstance, UpdateConflicts, Writes, Returns, traffic
  <2> QED
    BY <1>1, <2>1, <2>2, Zenon DEF Reconcile
<1>2. CASE ~Reconcile
  <2>1. route' = route
    BY <1>2, OutsideTraffic, Zenon
  <2> QED
    BY <2>1, Zenon
<1> QED
  BY <1>1, <1>2, Zenon

\* Without an incremental upgrade there is never an HTTPRoute.
NoRoute == ~IsIncrementalUpgradeEnabled => route = <<>>

\* Only a pass of an incremental upgrade creates an HTTPRoute.
LEMMA RouteStep ==
    ASSUME TypeOK, NoRoute, [Next]_vars
    PROVE  NoRoute'
<1>1. IsIncrementalUpgradeEnabled' = IsIncrementalUpgradeEnabled
  BY StatusStep DEF IsIncrementalUpgradeEnabled
<1>2. SUFFICES ASSUME ~IsIncrementalUpgradeEnabled PROVE route' \in {route, <<>>}
  BY <1>1 DEF NoRoute
<1>3. CASE Proceed
  <2>1. \E k \in 0..6 : \E w : Pass(k, w)
    BY <1>3, ProceedPasses, Zenon
  <2> QED
    BY <1>2, <2>1 DEF Pass
<1> QED
  BY <1>3, RouteLeft, Zenon

\* What may happen while the status says that the RayService is suspended, or so that
\* it does.
LEMMA SuspendedStep ==
    ASSUME TypeOK, Prompt, [Next]_vars, rs'.st.susp = "suspended"
    PROVE  UNCHANGED <<headSvc, serveSvc, route>> /\ (rs.st.susp = "suspended" \/ CompleteSuspend)
<1>1. rs \in Object /\ rs.st \in Status
  BY DEF TypeOK, Object
<1>2. ASSUME UpToDate PROVE rs = cache
  BY <1>2 DEF UpToDate
<1>3. ~Proceed /\ ~UpdateConflicts
  <2>1. ASSUME Proceed \/ UpdateConflicts PROVE FALSE
    <3>1. UpToDate
      BY <2>1, Zenon DEF Proceed, UpdateConflicts, Proceeds, cleanUpRayClusterInstance, Takes
    <3> QED
      BY <1>2, <2>1, <3>1, GoesOn, Zenon
  <2> QED
    BY <2>1
<1>4. CASE NotFound \/ CleanUpFails \/ AwaitClusters \/ StaySuspended \/ ResumeFails \/ TimedOut
  BY <1>4 DEF NotFound, CleanUpFails, AwaitClusters, StaySuspended, ResumeFails, TimedOut,
     Returns, traffic
<1>5. CASE RemoveFinalizer \/ AddFinalizer \/ ValidationFails
  <2>1. UNCHANGED <<headSvc, serveSvc, route>>
    BY <1>5 DEF RemoveFinalizer, AddFinalizer, ValidationFails, Writes, traffic
  <2>2. \/ rs' = rs
        \/ rs' = [rs EXCEPT !.exists = FALSE, !.finalizer = FALSE]
        \/ rs' = [rs EXCEPT !.finalizer = TRUE]
        \/ rs' = [rs EXCEPT !.st.ready = "ValidationFailed"]
    BY <1>5 DEF RemoveFinalizer, AddFinalizer, ValidationFails, Writes
  <2>3. rs'.st.susp = rs.st.susp
    BY <1>1, <2>2, Zenon DEF Object, Status
  <2> QED
    BY <2>1, <2>3, Zenon
<1>6. CASE StartSuspending
  <2>1. UNCHANGED <<headSvc, serveSvc, route>>
    BY <1>6 DEF StartSuspending, Writes, traffic
  <2>2. rs' = rs \/ rs' = [rs EXCEPT !.st = Suspending(@)]
    BY <1>6 DEF StartSuspending, Writes
  <2>3. CASE rs' = [rs EXCEPT !.st = Suspending(@)]
    BY <1>1, <2>3, Zenon DEF Object, Status, Suspending
  <2> QED
    BY <2>1, <2>2, <2>3, Zenon
<1>7. CASE CompleteSuspend
  BY <1>7 DEF CompleteSuspend, Writes, traffic
<1>8. CASE deleteRayServiceOwnedResources \/ createRayClusterInstance
  <2>1. UpToDate /\ rs' = rs /\ cache.st.susp # "suspended"
    BY <1>8 DEF deleteRayServiceOwnedResources, createRayClusterInstance, Steady,
       cleanUpRayClusterInstance, Takes
  <2> QED
    BY <1>2, <2>1
<1>9. CASE ~Reconcile
  <2>1. UNCHANGED <<headSvc, serveSvc, route>>
    BY <1>9, OutsideTraffic, Zenon
  <2>2. CASE Edits
    <3>1. rs'.st = rs.st
      BY <1>1, <2>2, Zenon DEF Edits, EditGoal, EditGroups, EditConfig, EditSuspend, EditDelete,
         EditDrop, Object
    <3> QED
      BY <2>1, <3>1, Zenon
  <2>3. CASE IntervalPasses \/ InitializingExpires
    <3>1. rs' = Aged(rs) \/ rs' = Late(rs)
      BY <2>3, Zenon DEF IntervalPasses, InitializingExpires, Ages
    <3>2. SameButTime(rs, rs')
      BY <1>1, <3>1, AgedShape, LateShape, Zenon
    <3> QED
      BY <2>1, <3>2, Zenon DEF SameButTime
  <2>4. CASE ~Edits /\ ~IntervalPasses /\ ~InitializingExpires
    BY <1>9, <2>1, <2>4 DEF Next, vars, Sync, SyncService, SyncCluster, Time, DeletionDelayPasses,
       World, Works, HeadStarts, HeadReady, AppsRun, ClusterDeleted,
       HeadLost, GarbageCollected, GatewayReady, OperatorRestarts
  <2> QED
    BY <2>1, <2>2, <2>3, <2>4
<1> QED
  BY <1>3, <1>4, <1>5, <1>6, <1>7, <1>8, <1>9 DEF Reconcile

\* When reconciles see what was last stored, Suspended is stored only when nothing is left
\* and nothing is created until it is taken back.
LEMMA EmptyStep ==
    ASSUME TypeOK, Prompt, NoRoute, SuspendedHoldsNothing, [Next]_vars
    PROVE  SuspendedHoldsNothing'
<1> SUFFICES ASSUME rs'.st.susp = "suspended"
             PROVE  /\ headSvc' = 0 /\ serveSvc' = 0 /\ route' = <<>>
                    /\ \A n \in Names : ~clusters'[n].exists
  BY DEF SuspendedHoldsNothing
<1>1. UNCHANGED <<headSvc, serveSvc, route>> /\ (rs.st.susp = "suspended" \/ CompleteSuspend)
  BY SuspendedStep
<1>2. CASE CompleteSuspend
  <2>1. /\ AllDeleted /\ UpToDate /\ cache.st.susp = "suspending"
    BY <1>2 DEF CompleteSuspend, Writes, cleanUpRayClusterInstance, Takes
  <2>2. headSvc = 0 /\ serveSvc = 0 /\ route = <<>> /\ \A n \in Names : ~clusters[n].exists
    BY <2>1 DEF AllDeleted, UpToDate, NoRoute
  <2>3. ASSUME NEW n \in Names PROVE ~clusters'[n].exists
    <3>1. ClusterStep(n)
      BY ClustersStep, Zenon
    <3> QED
      BY <2>1, <2>2, <3>1, SMTT(20) DEF ClusterStep, Kept, Condemned, Collected, Created, NoCluster
  <2> QED
    BY <1>1, <2>2, <2>3, Zenon
<1>3. CASE rs.st.susp = "suspended"
  <2>1. headSvc = 0 /\ serveSvc = 0 /\ route = <<>> /\ \A n \in Names : ~clusters[n].exists
    BY <1>3 DEF SuspendedHoldsNothing
  <2>2. ASSUME NEW n \in Names PROVE ~clusters'[n].exists
    <3>1. ClusterStep(n)
      BY ClustersStep, Zenon
    <3> QED
      BY <1>3, <2>1, <3>1
         DEF ClusterStep, Kept, Condemned, Collected, Created, NoCluster, UpToDate
  <2> QED
    BY <1>1, <2>1, <2>2, Zenon
<1> QED
  BY <1>1, <1>2, <1>3

\* When reconciles see what was last stored, a RayService that says it is suspended has
\* nothing left that runs, through faults, restarts and edits (handleSuspend,
\* deleteRayServiceOwnedResources).  Behind a cache that lags it may not hold.
THEOREM SuspendedIsEmpty == Prompt => (Spec => []SuspendedHoldsNothing)
<1> SUFFICES ASSUME Prompt PROVE Spec => []SuspendedHoldsNothing
  OBVIOUS
<1> DEFINE Inv == TypeOK /\ NoRoute /\ SuspendedHoldsNothing
<1>1. Init => Inv
  BY TypeInit DEF Init, NoRoute, SuspendedHoldsNothing, NoStatus
<1>2. Inv /\ [Next]_vars => Inv'
  BY TypeStep, RouteStep, EmptyStep
<1> QED
  BY <1>1, <1>2, PTL DEF Spec

------------------------------------------------------------------------------
\* The HTTPRoute, whose weights a pass computes from a status that may be old.

\* The HTTPRoute has the RayClusters for backends that the pass has found.
LEMMA Backends ==
    ASSUME TypeOK, NEW w, Worked(w), Active.exists, NEW ready,
           NEW weights, weights = createHTTPRoute(w.st, ready)
    PROVE  DOMAIN weights = {Start.active.name} \cup
                            (IF Pending.exists THEN {Start.pending.name} ELSE {})
<1>1. w.st.active.name = Start.active.name /\ w.st.pending.name = Start.pending.name
  BY UntouchedWork, Zenon DEF Worked, Same
<1> QED
  BY <1>1 DEF createHTTPRoute

\* What a pass routes from a status that describes an upgrade that can be reached is all of
\* the traffic.
LEMMA WeightsSum ==
    ASSUME TypeOK, Sound(strategy), IsIncrementalUpgradeEnabled, Keeps(cache.st),
           Progress(cache.st), Proceeds, Active.exists, NEW w, Worked(w),
           NEW weights, weights = createHTTPRoute(w.st, "pending" \in w.ready)
    PROVE  Complete(weights)
<1> DEFINE pr == ("pending" \in w.ready)
           v == Routing(w.st, pr)
           a == Start.active.name
           p == Start.pending.name
<1>1. /\ Start \in Status /\ cache.st \in Status /\ w.st \in Status
      /\ Start.active = cache.st.active /\ Start.pending = cache.st.pending
      /\ Start.rollback = cache.st.rollback
  BY StartTyped, Zenon DEF TypeOK, Object, Worked, Work
<1>2. a \in Names /\ a # 0 /\ (a # p)
  BY <1>1, SeenTyped, NamesFact, Zenon DEF Keeps
<1>3. U(Start) = U(cache.st)
  BY <1>1, SameUpgradeU, Zenon DEF SameUpgrade
<1>4. Splits(U(Start)) /\ (p = 0 => U(Start) = Fresh)
  BY <1>1, <1>2, <1>3, Zenon DEF Progress, Good
<1>5. U(w.st) \in Upgrades /\ U(w.st).ta = U(Start).ta /\ U(w.st).tp = U(Start).tp
  <2>1. /\ w.st.active.traffic = Start.active.traffic /\ w.st.pending.traffic = Start.pending.traffic
    BY UntouchedWork, Zenon DEF Worked, Same
  <2> QED
    BY <1>1, <2>1, UpgradeTyped
<1>6. Splits(v)
  <2>1. Splits(U(w.st))
    BY <1>4, <1>5, Zenon DEF Splits
  <2> QED
    BY <2>1, MoveSplits, Zenon DEF Routing
<1>7. weights[a] = v.ta /\ (Pending.exists => weights[p] = v.tp)
  BY <1>2, WeightsShape, Zenon
<1>8. CASE p = 0
  <2>1. ~Pending.exists
    BY <1>8, SeenTyped, NamesFact
  <2>2. DOMAIN weights = {a}
    BY <2>1, Backends, Zenon
  <2>3. Untouched.st = Start
    BY <2>1, UntouchedWork, Zenon DEF reconcileRollbackState
  <2>4. w.st = Start /\ ~pr
    BY <1>8, <2>1, <2>3, Zenon DEF Worked, Named
  <2>5. U(Start) = Fresh /\ Start.rollback = FALSE
    BY <1>1, <1>4, <1>8, UpgradeTyped, FreshGood
  <2>6. v = Fresh
    BY <2>4, <2>5, FreshGood, Zenon DEF Routing, calculateTrafficRoutedPercent
  <2>7. weights[a] = 100
    BY <1>7, <2>6, FreshGood, Zenon
  <2>8. a \in DOMAIN weights /\ DOMAIN weights = {a, a}
    BY <2>2
  <2> HIDE DEF a, p
  <2> QED
    BY <2>7, <2>8, Zenon DEF Complete
<1>9. CASE p # 0
  <2>1. Pending.exists
    BY <1>9, SeenTyped DEF Seen, Proceeds
  <2>2. DOMAIN weights = {a, p}
    <3>1. DOMAIN weights = {a} \cup {p}
      BY <2>1, Backends, Zenon
    <3> HIDE DEF a, p
    <3> QED
      BY <3>1
  <2>3. weights[a] = 100 - weights[p]
    <3> HIDE DEF v
    <3> QED
      BY <1>6, <1>7, <2>1, SMTT(20) DEF Splits, Upgrades, Percent
  <2>4. a \in DOMAIN weights /\ p \in DOMAIN weights
    BY <2>2
  <2> HIDE DEF a, p
  <2>5. weights[a] = IF a = p THEN 100 ELSE 100 - weights[p]
    BY <1>2, <2>3, Zenon
  <2> QED
    BY <2>2, <2>4, <2>5, Zenon DEF Complete
<1> QED
  BY <1>8, <1>9, Zenon

\* Every step keeps the HTTPRoute complete.
LEMMA RoutedStep ==
    ASSUME IInv, Incremental => Progress(cache.st), AllRouted, [Next]_vars
    PROVE  AllRouted'
<1>1. TypeOK /\ Keeps(cache.st)
  BY DEF IInv, NameInv
<1>2. CASE Proceed
  <2>1. /\ Proceeds /\ Scalable
    BY <1>1, <1>2, ProceedPasses
  <2>2. PICK k, w : k \in 0..6 /\ Worked(w) /\ Pass(k, w)
    BY <1>1, <1>2, ProceedPasses
  <2> DEFINE weights == createHTTPRoute(w.st, "pending" \in w.ready)
  <2>3. \/ route' = route
        \/ IsIncrementalUpgradeEnabled /\ Active.exists /\ route' = weights
    BY <2>2 DEF Pass
  <2>4. CASE route' = route
    BY <2>4 DEF AllRouted
  <2>5. CASE IsIncrementalUpgradeEnabled /\ Active.exists /\ route' = weights
    <3>1. Sound(strategy) /\ Incremental
      BY <2>1, <2>5, Zenon DEF Scalable, Proceeds, Operative, Serves, Incremental
    <3> HIDE DEF weights
    <3>2. Complete(weights)
      BY <1>1, <2>1, <2>2, <2>5, <3>1, WeightsSum DEF weights
    <3> QED
      BY <2>5, <3>2, Zenon DEF AllRouted
  <2> QED
    BY <2>3, <2>4, <2>5, Zenon
<1>3. CASE ~Proceed
  <2>1. route' \in {route, <<>>}
    BY <1>3, RouteLeft, Zenon
  <2> QED
    BY <2>1 DEF AllRouted
<1> QED
  BY <1>2, <1>3

\* The cached status, too, always describes an upgrade that can be reached.
LEMMA CachedProgressStep ==
    ASSUME IInv, Incremental, Progress(cache.st), [Next]_vars
    PROVE  Progress(cache.st)'
<1>1. /\ TypeOK /\ TypeOK' /\ strategy' = strategy /\ Progress(rs.st)
  BY StatusStep, TypeStep, Zenon DEF IInv, NameInv
<1>2. SUFFICES Progress(cache'.st)
  BY <1>1 DEF Progress, Good
<1>3. CASE Quiet \/ Written \/ Passed
  BY <1>1, <1>3, Zenon DEF Quiet, Written, Passed, Writable
<1>4. CASE Timed
  <2>1. SameButTime(cache, cache')
    BY <1>4 DEF Timed
  <2>2. U(cache'.st) = U(cache.st)
    BY <1>1, <2>1, SameUpgradeU, Zenon DEF SameButTime, TypeOK, Object
  <2> QED
    BY <1>1, <2>1, <2>2, Zenon DEF Progress, Idle, SameButTime, SameUpgrade
<1> QED
  BY <1>1, <1>3, <1>4, StatusStep, Zenon

\* The HTTPRoute always gives away exactly all of the traffic, whatever status its weights
\* were computed from, for all step sizes and surges (createHTTPRoute).
THEOREM RouteComplete == Spec => []AllRouted
<1> DEFINE Inv == IInv /\ (Incremental => Progress(cache.st)) /\ AllRouted
<1>1. Init => Inv
  <2> SUFFICES ASSUME Init PROVE Inv
    OBVIOUS
  <2>1. IInv
    BY IInvInit
  <2>2. cache = rs /\ route = <<>>
    BY DEF Init
  <2> QED
    BY <2>1, <2>2 DEF IInv, AllRouted
<1>2. Inv /\ [Next]_vars => Inv'
  <2> SUFFICES ASSUME Inv, [Next]_vars PROVE Inv'
    OBVIOUS
  <2>1. IInv' /\ AllRouted'
    BY IInvStep, RoutedStep
  <2>2. strategy' = strategy
    BY StatusStep DEF IInv, NameInv
  <2>3. Incremental' <=> Incremental
    BY <2>2 DEF Incremental, IsIncrementalUpgradeEnabled, validateRayService
  <2> QED
    BY <2>1, <2>3, CachedProgressStep, Zenon
<1> QED
  BY <1>1, <1>2, PTL DEF Spec

==============================================================================
