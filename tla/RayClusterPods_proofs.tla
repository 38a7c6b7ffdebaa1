------------------------ MODULE RayClusterPods_proofs ------------------------
(***************************************************************************)
(* The safety of RayClusterPods for every set of names and groups, every   *)
(* replica range and every bound.                                          *)
(***************************************************************************)
EXTENDS RayClusterPods, FiniteSetTheorems, TLAPS

-----------------------------------------------------------------------------
(* Types of the operators the actions are built from.                       *)

\* Creating and deleting keeps the API server's map well formed.
LEMMA PodsAfterType ==
    ASSUME TypeOK, NEW C, NEW D
    PROVE  PodsAfter(C, D) \in [Pods -> PodObject \cup {NoPod}]
<1>1. NewPod \in PodObject
  BY Zenon DEF TypeOK, NewPod, PodObject, Phases, Hashes, RayCluster,
         GenerateHashWithoutReplicasAndWorkersToDelete
<1>2. ASSUME NEW p \in Pods, pods[p] # NoPod
      PROVE  [pods[p] EXCEPT !.deleting = TRUE] \in PodObject
  BY <1>2, Zenon DEF TypeOK, PodObject
<1> QED BY <1>1, <1>2 DEF PodsAfter, TypeOK

\* So does deleteAllPods.
LEMMA deleteAllPodsType ==
    ASSUME TypeOK, NEW S
    PROVE  deleteAllPods(S) \in [Pods -> PodObject \cup {NoPod}]
BY PodsAfterType DEF deleteAllPods, TypeOK

\* Dropping and recording expectations keeps them well formed.
LEMMA ExpectationsType ==
    ASSUME TypeOK, NEW S, NEW C, NEW D, NEW exp \in [Pods -> Actions]
    PROVE  /\ Dropped(S) \in [Pods -> Actions]
           /\ ExpectScalePods(exp, C, D) \in [Pods -> Actions]
BY DEF TypeOK, Dropped, ExpectScalePods, Actions

\* calculateStatus returns a RayCluster and touches none of its spec.
LEMMA calculateStatusType ==
    ASSUME TypeOK, NEW c \in RayCluster
    PROVE  calculateStatus(c) \in RayCluster
<1>1. State(c) \in {"", "ready", "suspended"}
  BY Zenon DEF State, RayCluster
<1>2. Provisioned(c) \in BOOLEAN
  BY Zenon DEF Provisioned, RayCluster, CheckAllPodsRunning
<1> QED BY <1>1, <1>2, Zenon DEF calculateStatus, RayCluster

\* An edit gives another spec, and leaves the conditions alone.
LEMMA EditedType ==
    ASSUME TypeOK, NEW kind \in EditKinds, NEW c \in Edited(kind)
    PROVE  /\ c \in RayCluster
           /\ c.suspending = cr.suspending /\ c.suspended = cr.suspended
           /\ c.provisioned = cr.provisioned
<1>1. kind \in EditKind
  BY ConfigAssumption
<1>2. CASE kind = "replicas"
  <2>1. Edited(kind) = {[cr EXCEPT !.replicas[g] = n] :
            g \in WorkerGroups, n \in ReplicaCounts}
    BY <1>2 DEF Edited
  <2>2. PICK g \in WorkerGroups, n \in ReplicaCounts :
            c = [cr EXCEPT !.replicas[g] = n]
    BY <2>1
  <2> QED BY <2>2, Zenon DEF TypeOK, RayCluster
<1>3. CASE kind = "suspend"
  <2>1. Edited(kind) = {[cr EXCEPT !.suspend = ~cr.suspend]}
    BY <1>3 DEF Edited
  <2>2. c = [cr EXCEPT !.suspend = ~cr.suspend]
    BY <2>1
  <2> QED BY <2>2, Zenon DEF TypeOK, RayCluster
<1>4. CASE kind = "groupSuspend"
  <2>1. Edited(kind) = {[cr EXCEPT !.groupSuspend[g] = ~cr.groupSuspend[g]] :
            g \in WorkerGroups}
    BY <1>4 DEF Edited
  <2>2. PICK g \in WorkerGroups :
            c = [cr EXCEPT !.groupSuspend[g] = ~cr.groupSuspend[g]]
    BY <2>1
  <2> QED BY <2>2, Zenon DEF TypeOK, RayCluster
<1>5. CASE kind = "toDelete"
  <2>1. Edited(kind) = {[cr EXCEPT !.toDelete = D] : D \in SUBSET
            {p \in Pods : GroupOf[p] # HeadGroup /\ pods[p] # NoPod}}
    BY <1>5 DEF Edited
  <2>2. PICK D \in SUBSET Pods : c = [cr EXCEPT !.toDelete = D]
    BY <2>1
  <2> QED BY <2>2, Zenon DEF TypeOK, RayCluster
<1>6. CASE kind = "template"
  <2>1. Edited(kind) = {[cr EXCEPT !.template = t] : t \in Templates}
    BY <1>6 DEF Edited
  <2>2. PICK t \in Templates : c = [cr EXCEPT !.template = t]
    BY <2>1
  <2> QED BY <2>2, Zenon DEF TypeOK, RayCluster
<1> QED BY <1>1, <1>2, <1>3, <1>4, <1>5, <1>6 DEF EditKind

-----------------------------------------------------------------------------
(* Type correctness.                                                        *)

\* The initial states are well typed.
LEMMA TypeInit == Init => TypeOK
<1> SUFFICES ASSUME Init PROVE TypeOK
  OBVIOUS
<1>1. cr \in RayCluster /\ crCache \in RayCluster /\ inst \in RayCluster
  BY Zenon DEF Init
<1>2. /\ pods \in [Pods -> PodObject \cup {NoPod}]
      /\ cache \in [Pods -> PodObject \cup {NoPod}]
      /\ expectations \in [Pods -> Actions]
  <2>1. /\ pods = [p \in Pods |-> NoPod] /\ cache = pods
        /\ expectations = [p \in Pods |-> "none"]
    BY Zenon DEF Init
  <2> QED BY <2>1 DEF Actions
<1>3. edits \in 0..MaxEdits /\ faults \in 0..MaxFaults
  <2>1. edits = 0 /\ faults = 0
    BY Zenon DEF Init
  <2> QED BY <2>1, ConfigAssumption
<1> QED BY <1>1, <1>2, <1>3, Zenon DEF Init, TypeOK, Groups

\* The steps of the reconciler keep the types.
LEMMA TypeReconcile == TypeOK /\ Reconcile => TypeOK'
<1> SUFFICES ASSUME TypeOK, Reconcile PROVE TypeOK'
  OBVIOUS
<1> USE DEF store, crs, local, budget
<1>1. CASE Begin
  BY <1>1 DEF Begin, TypeOK
<1>2. CASE ReconcileFuncFails
  BY <1>2 DEF ReconcileFuncFails, TypeOK
<1>3. CASE DeletePodsOfSuspending
  BY <1>3, deleteAllPodsType DEF DeletePodsOfSuspending, TypeOK
<1>4. CASE SkipPodsOfSuspended
  BY <1>4 DEF SkipPodsOfSuspended, TypeOK
<1>5. CASE RecreatePods
  BY <1>5, deleteAllPodsType, ExpectationsType DEF RecreatePods, TypeOK
<1>6. CASE ListHeads
  BY <1>6 DEF ListHeads, TypeOK, Listed, PodsOf, Unhealthy
<1>7. CASE HeadNotSatisfied
  BY <1>7, ExpectationsType, Zenon
     DEF HeadNotSatisfied, IsNotSatisfied, HeadEnds, TypeOK
<1>8. CASE KeepHead
  BY <1>8, ExpectationsType, Zenon DEF KeepHead, HeadEnds, TypeOK
<1>9. CASE DeleteHead
  BY <1>9, ExpectationsType, PodsAfterType DEF DeleteHead, HeadEnds, TypeOK
<1>10. CASE SkipHead
  BY <1>10, ExpectationsType, Zenon DEF SkipHead, HeadEnds, TypeOK
<1>11. CASE TooManyHeads
  BY <1>11, ExpectationsType DEF TooManyHeads, HeadEnds, TypeOK
<1>12. CASE createHeadPod
  <2>1. PICK p \in HeadNames :
            /\ pods' = PodsAfter({p}, {})
            /\ expectations' =
                    ExpectScalePods(Dropped(PodsOf(HeadGroup)), {p}, {})
    BY <1>12 DEF createHeadPod
  <2> QED BY <1>12, <2>1, ExpectationsType, PodsAfterType, Zenon
          DEF createHeadPod, HeadEnds, TypeOK
<1>13. CASE CreateHeadFails
  BY <1>13, ExpectationsType DEF CreateHeadFails, HeadEnds, TypeOK
<1>14. CASE GroupNotSatisfied
  BY <1>14, ExpectationsType DEF GroupNotSatisfied, IsNotSatisfied, TypeOK
<1>15. CASE GroupSatisfied
  BY <1>15, ExpectationsType DEF GroupSatisfied, TypeOK, Groups
<1>16. CASE WorkersDone
  BY <1>16 DEF WorkersDone, TypeOK
<1>17. CASE DeletePodsOfSuspendedGroup
  BY <1>17, deleteAllPodsType, Zenon
     DEF DeletePodsOfSuspendedGroup, GroupEnds, TypeOK, Groups
<1>18. CASE DeleteGroupFails
  BY <1>18 DEF DeleteGroupFails, GroupEnds, TypeOK, Groups
<1>19. CASE DeleteUnhealthyWorkers
  BY <1>19, ExpectationsType, PodsAfterType
     DEF DeleteUnhealthyWorkers, GroupEnds, TypeOK, Groups
<1>20. CASE WorkersToDeleteFails
  BY <1>20, ExpectationsType, PodsAfterType
     DEF WorkersToDeleteFails, GroupEnds, TypeOK, Groups
<1>21. CASE ScaleGroupUp
  <2>1. PICK C :
            /\ pods' = PodsAfter(C, DeletedWorkers)
            /\ expectations' = ExpectScalePods(expectations, C, DeletedWorkers)
            /\ GroupEnds(FALSE) \/ GroupEnds(TRUE)
    BY <1>21, Zenon DEF ScaleGroupUp
  <2>2. /\ pods' \in [Pods -> PodObject \cup {NoPod}]
        /\ expectations' \in [Pods -> Actions]
    BY <2>1, ExpectationsType, PodsAfterType DEF TypeOK
  <2> QED BY <2>1, <2>2, Zenon DEF GroupEnds, TypeOK, Groups
<1>22. CASE KeepGroup
  BY <1>22, ExpectationsType, PodsAfterType, Zenon
     DEF KeepGroup, GroupEnds, TypeOK, Groups
<1>23. CASE ScaleGroupDown
  <2>1. PICK D :
            /\ pods' = PodsAfter({}, D \cup DeletedWorkers)
            /\ expectations' =
                    ExpectScalePods(expectations, {}, D \cup DeletedWorkers)
            /\ GroupEnds(FALSE) \/ GroupEnds(TRUE)
    BY <1>23, Zenon DEF ScaleGroupDown
  <2>2. /\ pods' \in [Pods -> PodObject \cup {NoPod}]
        /\ expectations' \in [Pods -> Actions]
    BY <2>1, ExpectationsType, PodsAfterType DEF TypeOK
  <2> QED BY <2>1, <2>2, Zenon DEF GroupEnds, TypeOK, Groups
<1>24. CASE updateRayClusterStatus
  BY <1>24, calculateStatusType, Zenon DEF updateRayClusterStatus, TypeOK
<1>25. CASE StatusNotUpdated
  BY <1>25, Zenon DEF StatusNotUpdated, TypeOK
<1> QED
  BY <1>1, <1>2, <1>3, <1>4, <1>5, <1>6, <1>7, <1>8, <1>9, <1>10, <1>11,
     <1>12, <1>13, <1>14, <1>15, <1>16, <1>17, <1>18, <1>19, <1>20, <1>21,
     <1>22, <1>23, <1>24, <1>25 DEF Reconcile, ReconcilePods

\* So do the informers, the kubelet, the users and the faults.
LEMMA TypeAround == TypeOK /\ (Informers \/ Environment) => TypeOK'
<1> SUFFICES ASSUME TypeOK, Informers \/ Environment PROVE TypeOK'
  OBVIOUS
<1> USE DEF store, crs, local, budget
<1>1. ASSUME NEW S \in SyncSets, SyncPods(S) PROVE TypeOK'
  BY <1>1 DEF SyncPods, TypeOK
<1>2. CASE SyncRayCluster
  BY <1>2 DEF SyncRayCluster, TypeOK
<1>3. ASSUME NEW p \in Pods, ExpectationTimeout(p) PROVE TypeOK'
  BY <1>3 DEF ExpectationTimeout, TypeOK, Actions
<1>4. ASSUME NEW p \in Pods, PodRuns(p) PROVE TypeOK'
  <2>1. [pods[p] EXCEPT !.phase = "Running"] \in PodObject
    BY <1>4 DEF PodRuns, TypeOK, PodObject, Phases
  <2> QED BY <1>4, <2>1 DEF PodRuns, TypeOK
<1>5. ASSUME NEW p \in Pods, PodGone(p) PROVE TypeOK'
  BY <1>5 DEF PodGone, TypeOK
<1>6. CASE PodFails
  <2>1. PICK p \in Pods : /\ pods[p] # NoPod
                          /\ pods' = [pods EXCEPT ![p].phase = "Failed"]
    BY <1>6, Zenon DEF PodFails
  <2>2. [pods[p] EXCEPT !.phase = "Failed"] \in PodObject
    BY <2>1 DEF TypeOK, PodObject, Phases
  <2>3. faults' \in 0..MaxFaults
    BY <1>6, ConfigAssumption DEF PodFails, Fault, TypeOK
  <2> QED BY <1>6, <2>1, <2>2, <2>3 DEF PodFails, TypeOK
<1>7. CASE PodEvicted
  <2>1. PICK p \in Pods : /\ pods[p] # NoPod
                          /\ pods' = [pods EXCEPT ![p].deleting = TRUE]
    BY <1>7, Zenon DEF PodEvicted
  <2>2. [pods[p] EXCEPT !.deleting = TRUE] \in PodObject
    BY <2>1, Zenon DEF TypeOK, PodObject
  <2>3. faults' \in 0..MaxFaults
    BY <1>7, ConfigAssumption DEF PodEvicted, Fault, TypeOK
  <2> QED BY <1>7, <2>1, <2>2, <2>3, Zenon DEF PodEvicted, TypeOK
<1>8. CASE OperatorRestarts
  <2>1. faults' \in 0..MaxFaults
    BY <1>8, ConfigAssumption DEF OperatorRestarts, Fault, TypeOK
  <2> QED BY <1>8, <2>1, Zenon DEF OperatorRestarts, TypeOK, Actions, Groups
<1>9. CASE EditRayCluster
  <2>1. cr' \in RayCluster
    BY <1>9, EditedType DEF EditRayCluster
  <2>2. edits' \in 0..MaxEdits
    BY <1>9, ConfigAssumption DEF EditRayCluster, TypeOK
  <2> QED BY <1>9, <2>1, <2>2, Zenon DEF EditRayCluster, TypeOK
<1> QED BY <1>1, <1>2, <1>3, <1>4, <1>5, <1>6, <1>7, <1>8, <1>9
        DEF Informers, Environment

\* Every reachable state is well typed.
THEOREM TypeCorrect == Spec => []TypeOK
<1>1. TypeOK /\ UNCHANGED vars => TypeOK'
  BY DEF TypeOK, vars, store, crs, local, budget
<1>2. TypeOK /\ [Next]_vars => TypeOK'
  BY <1>1, TypeReconcile, TypeAround DEF Next
<1> QED BY TypeInit, <1>2, PTL DEF Spec

-----------------------------------------------------------------------------
(* What a step does to the running Pods.  Only two actions add one; every   *)
(* other step is calm: no Pod starts to run, none leaves the cache while it *)
(* runs, and the creations of those the cache does not show stay expected.  *)

Quiet == ~SlowInformer /\ ~Recreate

Calm ==
    /\ Active(Pods)' \subseteq Active(Pods)
    /\ \A p \in Pods : Unseen(p)' =>
            /\ Unseen(p)
            /\ expectations[p] = "create" => expectations'[p] = "create"

\* A Pod that runs after PodsAfter(C, D) is new or ran before, undeleted.
LEMMA ActiveAfter ==
    ASSUME TypeOK, NEW C, NEW D, pods' = PodsAfter(C, D)
    PROVE  Active(Pods)' \subseteq (Active(Pods) \ D) \cup C
<1> SUFFICES ASSUME NEW p \in Pods, pods'[p] # NoPod, ~pods'[p].deleting,
                    p \notin C
             PROVE  pods[p] # NoPod /\ ~pods[p].deleting /\ p \notin D
  BY DEF Active
<1>1. pods'[p] = IF p \in D /\ pods[p] # NoPod
                 THEN [pods[p] EXCEPT !.deleting = TRUE] ELSE pods[p]
  BY DEF PodsAfter
<1>2. CASE p \in D /\ pods[p] # NoPod
  <2>1. pods[p] \in PodObject
    BY <1>2 DEF TypeOK
  <2> QED BY <1>1, <1>2, <2>1 DEF PodObject
<1> QED BY <1>1, <1>2

\* A Pod is unseen when it runs and the cache does not show it, before a step
\* as after it.
LEMMA UnseenDef ==
    ASSUME NEW p \in Pods
    PROVE  /\ Unseen(p) <=> p \in Active(Pods) /\ cache[p] = NoPod
           /\ Unseen(p)' <=> p \in Active(Pods)' /\ cache'[p] = NoPod
BY DEF Unseen, Active

\* Deleting the Pods of D, with their deletions expected or the satisfied
\* items of S dropped, is calm.
LEMMA DeletingIsCalm ==
    ASSUME TypeOK, NEW D, NEW S \in SUBSET Pods,
           pods' = PodsAfter({}, D), cache' = cache,
           \A p \in S : isPodScaled(p),
           \/ expectations' = expectations
           \/ expectations' = Dropped(S)
           \/ expectations' = ExpectScalePods(expectations, {}, D)
           \/ expectations' = ExpectScalePods(Dropped(S), {}, D)
    PROVE  Calm
<1>1. Active(Pods)' \subseteq Active(Pods) \ D
  BY ActiveAfter
<1>2. ASSUME NEW p \in Pods, Unseen(p)', expectations[p] = "create"
      PROVE  expectations'[p] = "create"
  <2>1. p \notin D /\ cache[p] = NoPod
    BY <1>1, <1>2, UnseenDef
  <2>2. p \notin S
    BY <1>2, <2>1 DEF isPodScaled
  <2> QED BY <1>2, <2>1, <2>2 DEF Dropped, ExpectScalePods
<1> QED BY <1>1, <1>2, UnseenDef DEF Calm

\* A step that changes neither Pods nor cache is calm, even if it drops the
\* satisfied items of S.
LEMMA KeepingIsCalm ==
    ASSUME TypeOK, NEW S \in SUBSET Pods, \A p \in S : isPodScaled(p),
           pods' = pods, cache' = cache,
           expectations' = expectations \/ expectations' = Dropped(S)
    PROVE  Calm
<1>1. Active(Pods)' = Active(Pods)
  BY DEF Active
<1>2. ASSUME NEW p \in Pods, Unseen(p)', expectations[p] = "create"
      PROVE  expectations'[p] = "create"
  <2>1. cache[p] = NoPod
    BY <1>2, UnseenDef
  <2>2. p \notin S
    BY <1>2, <2>1 DEF isPodScaled
  <2> QED BY <1>2, <2>2 DEF Dropped
<1> QED BY <1>1, <1>2, UnseenDef DEF Calm

\* deleteAllPods is calm, whether the cache lets it delete or not.
LEMMA deleteAllPodsIsCalm ==
    ASSUME TypeOK, NEW S, pods' = deleteAllPods(S), cache' = cache,
           expectations' = expectations
    PROVE  Calm
<1>1. CASE pods' = PodsAfter({}, S)
  BY <1>1, DeletingIsCalm, {} \in SUBSET Pods
<1>2. CASE pods' = pods
  BY <1>2, KeepingIsCalm, {} \in SUBSET Pods, Zenon
<1> QED BY <1>1, <1>2 DEF deleteAllPods

\* Every step of the reconciler but the two that create Pods is calm.
LEMMA ReconcileIsCalm ==
    ASSUME TypeOK, Quiet, Reconcile, ~createHeadPod, ~ScaleGroupUp
    PROVE  Calm
<1> USE DEF store, crs, local, budget
<1>0. {} \in SUBSET Pods
  OBVIOUS
<1>1. CASE \/ Begin \/ ReconcileFuncFails \/ SkipPodsOfSuspended \/ ListHeads
           \/ WorkersDone \/ updateRayClusterStatus \/ StatusNotUpdated
  BY <1>0, <1>1, KeepingIsCalm, Zenon
     DEF Begin, ReconcileFuncFails, SkipPodsOfSuspended, ListHeads,
         WorkersDone, updateRayClusterStatus, StatusNotUpdated
<1>2. CASE DeletePodsOfSuspending
  BY <1>2, deleteAllPodsIsCalm DEF DeletePodsOfSuspending
<1>3. CASE RecreatePods
  BY <1>3 DEF RecreatePods, Quiet
<1>4. CASE HeadNotSatisfied
  BY <1>4, KeepingIsCalm DEF HeadNotSatisfied, HeadEnds, IsNotSatisfied, PodsOf
<1>5. CASE KeepHead \/ SkipHead \/ TooManyHeads \/ CreateHeadFails
  <2>1. /\ pods' = pods /\ cache' = cache /\ IsSatisfied(HeadGroup)
        /\ expectations' = Dropped(PodsOf(HeadGroup))
    BY <1>5 DEF KeepHead, SkipHead, TooManyHeads, CreateHeadFails, HeadEnds,
                HeadSatisfied, MayCreateHead
  <2> QED BY <2>1, KeepingIsCalm DEF IsSatisfied, PodsOf
<1>6. CASE DeleteHead
  <2>1. PICK D : /\ pods' = PodsAfter({}, D)
                 /\ expectations' =
                        ExpectScalePods(Dropped(PodsOf(HeadGroup)), {}, D)
    BY <1>6 DEF DeleteHead
  <2>2. cache' = cache /\ IsSatisfied(HeadGroup)
    BY <1>6 DEF DeleteHead, HeadEnds, HeadSatisfied
  <2> QED BY <2>1, <2>2, DeletingIsCalm DEF IsSatisfied, PodsOf
<1>7. CASE GroupNotSatisfied
  BY <1>7, KeepingIsCalm DEF GroupNotSatisfied, IsNotSatisfied, PodsOf
<1>8. CASE GroupSatisfied
  BY <1>8, KeepingIsCalm DEF GroupSatisfied, IsSatisfied, PodsOf
<1>9. CASE DeletePodsOfSuspendedGroup
  BY <1>9, deleteAllPodsIsCalm DEF DeletePodsOfSuspendedGroup, GroupEnds
<1>10. CASE DeleteGroupFails
  BY <1>0, <1>10, KeepingIsCalm DEF DeleteGroupFails, GroupEnds
<1>11. CASE DeleteUnhealthyWorkers
  BY <1>0, <1>11, DeletingIsCalm DEF DeleteUnhealthyWorkers, GroupEnds
<1>12. CASE WorkersToDeleteFails
  BY <1>0, <1>12, DeletingIsCalm DEF WorkersToDeleteFails, GroupEnds
<1>13. CASE KeepGroup
  BY <1>0, <1>13, DeletingIsCalm DEF KeepGroup, GroupEnds
<1>14. CASE ScaleGroupDown
  <2>1. PICK D :
            /\ pods' = PodsAfter({}, D \cup DeletedWorkers)
            /\ expectations' =
                    ExpectScalePods(expectations, {}, D \cup DeletedWorkers)
            /\ cache' = cache
    BY <1>14, Zenon DEF ScaleGroupDown, GroupEnds
  <2> QED BY <1>0, <2>1, DeletingIsCalm
<1> QED
  BY <1>1, <1>2, <1>3, <1>4, <1>5, <1>6, <1>7, <1>8, <1>9, <1>10, <1>11,
     <1>12, <1>13, <1>14 DEF Reconcile, ReconcilePods

\* A change of one Pod that starts none is calm.
LEMMA OnePodIsCalm ==
    ASSUME TypeOK, NEW q \in Pods, NEW x, pods' = [pods EXCEPT ![q] = x],
           x = NoPod \/ x.deleting \/ q \in Active(Pods),
           UNCHANGED <<cache, expectations>>
    PROVE  Calm
<1>1. Active(Pods)' \subseteq Active(Pods)
  BY DEF Active, TypeOK
<1> QED BY <1>1, UnseenDef DEF Calm

\* The informers, the kubelet, the users and the faults start no Pods.
LEMMA AroundIsCalm ==
    ASSUME TypeOK, Quiet, Informers \/ Environment
    PROVE  Calm
<1> USE DEF store, crs, local, budget
<1>1. ASSUME NEW S \in SyncSets, SyncPods(S) PROVE Calm
  <2>1. Active(Pods)' = Active(Pods)
    BY <1>1 DEF SyncPods, Active
  <2>2. ASSUME NEW p \in Pods, Unseen(p)' PROVE Unseen(p)
    BY <1>1, <2>1, <2>2, UnseenDef DEF SyncPods, Active
  <2> QED BY <1>1, <2>1, <2>2, Zenon DEF SyncPods, Calm
<1>2. CASE SyncRayCluster \/ EditRayCluster
  BY <1>2, KeepingIsCalm, {} \in SUBSET Pods, Zenon DEF SyncRayCluster, EditRayCluster
<1>3. ASSUME NEW q \in Pods, ExpectationTimeout(q) PROVE Calm
  <2>1. Active(Pods)' = Active(Pods)
    BY <1>3, Zenon DEF ExpectationTimeout, Active
  <2>2. pods[q] = NoPod
    BY <1>3, Zenon DEF ExpectationTimeout, Quiet
  <2>3. ~Unseen(q)
    BY <2>2 DEF Unseen, Active
  <2>4. ASSUME NEW p \in Pods, Unseen(p)' PROVE Unseen(p)
    BY <1>3, <2>1, <2>4, UnseenDef DEF ExpectationTimeout
  <2> QED BY <1>3, <2>1, <2>3, <2>4 DEF ExpectationTimeout, Calm, TypeOK
<1>4. ASSUME NEW q \in Pods, PodRuns(q) PROVE Calm
  <2>1. pods[q] \in PodObject
    BY <1>4 DEF PodRuns, TypeOK
  <2>2. [pods[q] EXCEPT !.phase = "Running"].deleting = pods[q].deleting
    BY <2>1 DEF PodObject
  <2>3. [pods[q] EXCEPT !.phase = "Running"].deleting \/ q \in Active(Pods)
    BY <1>4, <2>1, <2>2 DEF PodRuns, Active, PodObject
  <2> QED BY <1>4, <2>3, OnePodIsCalm, Zenon DEF PodRuns
<1>5. ASSUME NEW q \in Pods, PodGone(q) PROVE Calm
  BY <1>5, OnePodIsCalm, Zenon DEF PodGone
<1>6. CASE PodFails
  <2>1. PICK q \in Pods : /\ pods[q] # NoPod
                          /\ pods' = [pods EXCEPT ![q].phase = "Failed"]
    BY <1>6, Zenon DEF PodFails
  <2>2. pods[q] \in PodObject
    BY <2>1 DEF TypeOK
  <2>3. [pods[q] EXCEPT !.phase = "Failed"].deleting \/ q \in Active(Pods)
    BY <2>1, <2>2 DEF PodObject, Active
  <2> QED BY <1>6, <2>1, <2>3, OnePodIsCalm, Zenon DEF PodFails
<1>7. CASE PodEvicted
  <2>1. PICK q \in Pods : /\ pods[q] # NoPod
                          /\ pods' = [pods EXCEPT ![q].deleting = TRUE]
    BY <1>7, Zenon DEF PodEvicted
  <2>2. [pods[q] EXCEPT !.deleting = TRUE].deleting
    BY <2>1 DEF TypeOK, PodObject
  <2> QED BY <1>7, <2>1, <2>2, OnePodIsCalm, Zenon DEF PodEvicted
<1>8. CASE OperatorRestarts
  <2>1. Active(Pods)' = Active(Pods)
    BY <1>8 DEF OperatorRestarts, Active
  <2>2. ASSUME NEW p \in Pods PROVE ~Unseen(p)'
    BY <1>8, <2>1, UnseenDef DEF OperatorRestarts, Active
  <2> QED BY <2>1, <2>2 DEF Calm
<1> QED BY <1>1, <1>2, <1>3, <1>4, <1>5, <1>6, <1>7, <1>8
        DEF Informers, Environment

\* The two that create Pods expect their creation.
LEMMA CreatingIsExpected ==
    ASSUME TypeOK, NEW C \in SUBSET Pods, NEW D, NEW S \in SUBSET Pods,
           \A p \in S : isPodScaled(p),
           pods' = PodsAfter(C, D), cache' = cache,
           \/ expectations' = ExpectScalePods(expectations, C, D)
           \/ expectations' = ExpectScalePods(Dropped(S), C, D)
    PROVE  \A p \in Pods : Unseen(p)' =>
                \/ p \in C /\ expectations'[p] = "create"
                \/ /\ Unseen(p)
                   /\ expectations[p] = "create" => expectations'[p] = "create"
<1> SUFFICES ASSUME NEW p \in Pods, Unseen(p)', p \notin C
             PROVE  /\ Unseen(p)
                    /\ expectations[p] = "create" => expectations'[p] = "create"
  BY DEF ExpectScalePods
<1>1. p \in Active(Pods) /\ p \notin D /\ cache[p] = NoPod
  BY ActiveAfter, UnseenDef
<1>2. expectations[p] = "create" => p \notin S
  BY <1>1 DEF isPodScaled
<1> QED BY <1>1, <1>2, UnseenDef DEF ExpectScalePods, Dropped

\* Every running Pod that the cache does not show is expected.
THEOREM UnseenExpected == Spec => []UnseenPodsExpected
<1>1. Init => UnseenPodsExpected
  BY Zenon DEF Init, UnseenPodsExpected, Unseen, Active
<1>2. ASSUME TypeOK, UnseenPodsExpected, [Next]_vars
      PROVE  UnseenPodsExpected'
  <2> SUFFICES ASSUME Quiet, NEW p \in Pods, Unseen(p)'
               PROVE  expectations'[p] = "create"
    BY DEF UnseenPodsExpected, Quiet
  <2>0. \A q \in Pods : Unseen(q) => expectations[q] = "create"
    BY <1>2 DEF UnseenPodsExpected, Quiet
  <2>1. CASE Calm
    BY <2>0, <2>1 DEF Calm
  <2>2. CASE createHeadPod
    <3>1. PICK q \in HeadNames :
            /\ pods' = PodsAfter({q}, {})
            /\ expectations' =
                    ExpectScalePods(Dropped(PodsOf(HeadGroup)), {q}, {})
      BY <2>2 DEF createHeadPod
    <3>2. /\ cache' = cache /\ {q} \in SUBSET Pods
          /\ PodsOf(HeadGroup) \in SUBSET Pods
          /\ \A r \in PodsOf(HeadGroup) : isPodScaled(r)
      BY <2>2, <3>1, Zenon DEF createHeadPod, HeadEnds, MayCreateHead, HeadSatisfied,
                   IsSatisfied, PodsOf, HeadNames
    <3> QED BY <1>2, <2>0, <3>1, <3>2, CreatingIsExpected, Zenon
  <2>3. CASE ScaleGroupUp
    <3>1. PICK C \in SUBSET PodsOf(group) :
            /\ pods' = PodsAfter(C, DeletedWorkers)
            /\ expectations' = ExpectScalePods(expectations, C, DeletedWorkers)
            /\ cache' = cache
      BY <2>3 DEF ScaleGroupUp, GroupEnds
    <3>2. C \in SUBSET Pods /\ {} \in SUBSET Pods
      BY <3>1 DEF PodsOf
    <3> QED BY <1>2, <2>0, <3>1, <3>2, CreatingIsExpected, Zenon
  <2>4. CASE UNCHANGED vars
    BY <2>0, <2>4, KeepingIsCalm, {} \in SUBSET Pods, <1>2, <2>1, Zenon
       DEF vars, store
  <2> QED BY <1>2, <2>1, <2>2, <2>3, <2>4, ReconcileIsCalm, AroundIsCalm
          DEF Next
<1> QED BY TypeCorrect, <1>1, <1>2, PTL DEF Spec

-----------------------------------------------------------------------------
(* How many Pods run.                                                       *)

\* Sets of Pods are finite, and a subset has no more elements.
LEMMA PodSets ==
    ASSUME NEW S \in SUBSET Pods
    PROVE  /\ IsFiniteSet(S) /\ Cardinality(S) \in Nat
           /\ \A T \in SUBSET S : /\ IsFiniteSet(T) /\ Cardinality(T) \in Nat
                                  /\ Cardinality(T) <= Cardinality(S)
<1>1. IsFiniteSet(S)
  BY ConfigAssumption, FS_Subset
<1> QED BY <1>1, FS_Subset, FS_CardinalityType

\* GetWorkerGroupDesiredReplicas clamps to maxReplicas.
LEMMA DesiredBounded ==
    ASSUME NEW c \in RayCluster, NEW g \in WorkerGroups
    PROVE  /\ GetWorkerGroupDesiredReplicas(c, g) \in Nat
           /\ GetWorkerGroupDesiredReplicas(c, g) <= MaxReplicas
<1>1. /\ MinReplicas \in Nat /\ MaxReplicas \in Nat
      /\ MinReplicas <= MaxReplicas
  BY ConfigAssumption
<1>2. c.replicas[g] \in Nat
  BY ConfigAssumption, Zenon DEF RayCluster
<1> QED BY <1>1, <1>2 DEF GetWorkerGroupDesiredReplicas

\* A calm step lets no group grow.
LEMMA CalmShrinks ==
    ASSUME Calm, NEW g
    PROVE  Active(PodsOf(g))' \subseteq Active(PodsOf(g))
BY DEF Calm, Active, PodsOf

\* Scaling a group up whose Pods are all seen ends at most at maxReplicas.
LEMMA ScaleUpBounded ==
    ASSUME TypeOK, ScaleGroupUp, group \in WorkerGroups,
           \A p \in PodsOf(group) : ~Unseen(p),
           NEW g \in WorkerGroups, g = group
    PROVE  Cardinality(Active(PodsOf(g))') <= MaxReplicas
<1>1. PICK C \in SUBSET PodsOf(group) :
        /\ pods' = PodsAfter(C, DeletedWorkers)
        /\ Cardinality(C) = Diff \/ Cardinality(C) < Diff
  BY Zenon DEF ScaleGroupUp
<1>2. Active(PodsOf(g))' \subseteq RunningPods \cup C
  <2> SUFFICES ASSUME NEW p \in PodsOf(g), p \in Active(Pods)', p \notin C
               PROVE  p \in RunningPods
    BY DEF Active, PodsOf
  <2>1. p \in Active(Pods) /\ p \notin DeletedWorkers
    BY <1>1, ActiveAfter
  <2>2. cache[p] # NoPod
    BY <2>1, UnseenDef DEF PodsOf
  <2> QED BY <2>1, <2>2 DEF RunningPods, Listed
<1>3. RunningPods \in SUBSET Pods /\ C \in SUBSET Pods
  BY <1>1 DEF RunningPods, Listed, PodsOf
<1>4. /\ IsFiniteSet(RunningPods) /\ IsFiniteSet(C)
      /\ Cardinality(RunningPods) \in Nat /\ Cardinality(C) \in Nat
  BY <1>3, PodSets
<1>5. Cardinality(RunningPods \cup C) <= Cardinality(RunningPods) + Cardinality(C)
  <2>1. Cardinality(RunningPods \cap C) \in Nat
    BY <1>3, PodSets
  <2>2. Cardinality(RunningPods \cup C) = Cardinality(RunningPods)
            + Cardinality(C) - Cardinality(RunningPods \cap C)
    BY <1>4, FS_Union
  <2> QED BY <1>4, <2>1, <2>2
<1>6. Cardinality(Active(PodsOf(g))') <= Cardinality(RunningPods \cup C)
  BY <1>2, <1>3, PodSets
<1>7. /\ GetWorkerGroupDesiredReplicas(inst, group) \in Nat
      /\ GetWorkerGroupDesiredReplicas(inst, group) <= MaxReplicas
  BY DesiredBounded DEF TypeOK
<1>8. /\ Cardinality(RunningPods \cup C) \in Nat
      /\ Cardinality(Active(PodsOf(g))') \in Nat
  BY <1>2, <1>3, PodSets
<1> QED BY <1>1, <1>4, <1>5, <1>6, <1>7, <1>8, ConfigAssumption DEF Diff

\* The bounds and what they rest on, one induction for all.
BoundsInv == ActsOnWhatItSees /\ WorkersBounded /\ AtMostTwoHeads

\* The head Pods that the next ListHeads would miss.
UnseenHeads == {p \in PodsOf(HeadGroup) : Unseen(p)}

\* Initially no Pod runs.
LEMMA BoundsInit == Init => BoundsInv
<1> SUFFICES ASSUME Init PROVE BoundsInv
  OBVIOUS
<1>1. \A S \in SUBSET Pods : Active(S) = {}
  BY Zenon DEF Init, Active
<1>2. \A p \in Pods : ~Unseen(p)
  BY <1>1, UnseenDef
<1>3. pc = "idle"
  BY Zenon DEF Init
<1>4. \A g : Active(PodsOf(g)) = {}
  BY <1>1 DEF PodsOf
<1>5. UnseenHeads = {}
  BY <1>2 DEF UnseenHeads, PodsOf
<1>6. Cardinality({}) = 0
  BY FS_EmptySet
<1> QED BY <1>3, <1>4, <1>5, <1>6, ConfigAssumption
        DEF BoundsInv, ActsOnWhatItSees, WorkersBounded, AtMostTwoHeads,
            UnseenHeads

\* Where a reconcile is when it acts on a group, or on the head.
LEMMA WhereItActs ==
    ASSUME [Next]_vars
    PROVE  /\ pc' = "group" /\ ~GroupSatisfied =>
                /\ pc = "group" /\ group' = group
                /\ ~createHeadPod /\ ~ScaleGroupUp
           /\ pc' = "head" /\ ~ListHeads =>
                /\ pc = "head" /\ headList' = headList
                /\ ~createHeadPod /\ ~ScaleGroupUp
<1> USE DEF store, crs, local, budget
<1>1. CASE Reconcile
  BY <1>1, Zenon DEF Reconcile, ReconcilePods, Begin, ReconcileFuncFails,
     DeletePodsOfSuspending, SkipPodsOfSuspended, RecreatePods,
     HeadNotSatisfied, KeepHead, DeleteHead, SkipHead, TooManyHeads,
     createHeadPod, CreateHeadFails, HeadEnds, GroupNotSatisfied, WorkersDone,
     DeletePodsOfSuspendedGroup, DeleteGroupFails, DeleteUnhealthyWorkers,
     WorkersToDeleteFails, ScaleGroupUp, KeepGroup, ScaleGroupDown, GroupEnds,
     updateRayClusterStatus, StatusNotUpdated, ListHeads, GroupSatisfied
<1>2. CASE Informers \/ Environment
  BY <1>2 DEF Informers, Environment, SyncPods, SyncRayCluster,
     ExpectationTimeout, PodRuns, PodGone, PodFails, PodEvicted,
     OperatorRestarts, EditRayCluster, createHeadPod, ScaleGroupUp, HeadEnds,
     GroupEnds
<1>3. CASE UNCHANGED vars
  BY <1>3, Zenon DEF vars, createHeadPod, ScaleGroupUp, HeadEnds, GroupEnds
<1> QED BY <1>1, <1>2, <1>3 DEF Next

\* Any other step is calm.
LEMMA OtherStepsCalm ==
    ASSUME TypeOK, Quiet, [Next]_vars, ~createHeadPod, ~ScaleGroupUp
    PROVE  Calm
<1>1. CASE UNCHANGED vars
  BY <1>1, KeepingIsCalm, {} \in SUBSET Pods, Zenon DEF vars, store
<1> QED BY <1>1, ReconcileIsCalm, AroundIsCalm DEF Next

\* Scaling a group up changes no other group.
LEMMA ScaleUpElsewhere ==
    ASSUME TypeOK, ScaleGroupUp, NEW g, g # group
    PROVE  /\ Active(PodsOf(g))' \subseteq Active(PodsOf(g))
           /\ \A p \in PodsOf(g) : Unseen(p)' => Unseen(p)
<1>1. PICK C \in SUBSET PodsOf(group) :
        pods' = PodsAfter(C, DeletedWorkers) /\ cache' = cache
  BY DEF ScaleGroupUp, GroupEnds
<1>2. C \cap PodsOf(g) = {}
  BY <1>1 DEF PodsOf
<1>3. Active(PodsOf(g))' \subseteq Active(PodsOf(g))
  BY <1>1, <1>2, ActiveAfter, Zenon DEF Active, PodsOf
<1> QED BY <1>1, <1>2, <1>3, UnseenDef, ActiveAfter, Zenon DEF PodsOf

\* Creating the head Pod adds it to the head group and to no other.
LEMMA createHeadPodAdds ==
    ASSUME TypeOK, createHeadPod
    PROVE  \E q \in PodsOf(HeadGroup) :
                /\ Active(Pods)' \subseteq Active(Pods) \cup {q}
                /\ \A p \in Pods : Unseen(p)' => p = q \/ Unseen(p)
<1>1. PICK q \in HeadNames : pods' = PodsAfter({q}, {}) /\ cache' = cache
  BY DEF createHeadPod, HeadEnds
<1>2. q \in PodsOf(HeadGroup)
  BY DEF HeadNames
<1>3. Active(Pods)' \subseteq Active(Pods) \cup {q}
  BY <1>1, ActiveAfter
<1>4. \A p \in Pods : Unseen(p)' => p = q \/ Unseen(p)
  BY <1>1, <1>3, UnseenDef
<1> QED BY <1>2, <1>3, <1>4

\* A group whose expectations are satisfied is seen completely.
LEMMA SatisfiedIsSeen ==
    ASSUME Quiet, UnseenPodsExpected, NEW g, IsSatisfied(g)
    PROVE  \A p \in PodsOf(g) : ~Unseen(p)
<1> SUFFICES ASSUME NEW p \in PodsOf(g), Unseen(p) PROVE FALSE
  OBVIOUS
<1>1. p \in Pods /\ expectations[p] = "create" /\ cache[p] = NoPod
  BY DEF PodsOf, UnseenPodsExpected, Quiet, Unseen
<1> QED BY <1>1 DEF IsSatisfied, isPodScaled

\* reconcilePods goes on acting on what it sees.
LEMMA ActsOnWhatItSeesStep ==
    ASSUME TypeOK, UnseenPodsExpected, BoundsInv, [Next]_vars
    PROVE  ActsOnWhatItSees'
<1> SUFFICES ASSUME Quiet PROVE ActsOnWhatItSees'
  BY DEF ActsOnWhatItSees, Quiet
<1>0. /\ pc = "group" => /\ group \in WorkerGroups
                         /\ \A p \in PodsOf(group) : ~Unseen(p)
      /\ Cardinality(UnseenHeads) <= 1
      /\ pc = "head" /\ headList = {} =>
                Cardinality(Active(PodsOf(HeadGroup))) <= 1
  BY DEF BoundsInv, ActsOnWhatItSees, UnseenHeads, Quiet
<1>1. ASSUME pc' = "group"
      PROVE  group' \in WorkerGroups /\ \A p \in PodsOf(group') : ~Unseen(p)'
  <2>1. CASE GroupSatisfied
    <3>1. PICK g \in todo : IsSatisfied(g) /\ group' = g
      BY <2>1 DEF GroupSatisfied
    <3>2. g \in WorkerGroups /\ \A p \in PodsOf(g) : ~Unseen(p)
      BY <3>1, SatisfiedIsSeen DEF TypeOK
    <3>3. ~createHeadPod /\ ~ScaleGroupUp
      BY <2>1 DEF GroupSatisfied, createHeadPod, ScaleGroupUp, HeadEnds,
                  GroupEnds
    <3> QED BY <3>1, <3>2, <3>3, OtherStepsCalm DEF Calm, PodsOf
  <2>2. CASE ~GroupSatisfied
    <3>1. /\ pc = "group" /\ group' = group
          /\ ~createHeadPod /\ ~ScaleGroupUp
      BY <1>1, <2>2, WhereItActs
    <3> QED BY <1>0, <3>1, OtherStepsCalm, Zenon DEF Calm, PodsOf
  <2> QED BY <2>1, <2>2
<1>2. Cardinality(UnseenHeads') <= 1
  <2>0. UnseenHeads \in SUBSET Pods /\ UnseenHeads' \in SUBSET Pods
    BY DEF UnseenHeads, PodsOf
  <2>1. ASSUME UnseenHeads' \subseteq UnseenHeads
        PROVE  Cardinality(UnseenHeads') <= 1
    <3>1. /\ Cardinality(UnseenHeads') <= Cardinality(UnseenHeads)
          /\ Cardinality(UnseenHeads') \in Nat
          /\ Cardinality(UnseenHeads) \in Nat
      BY <2>0, <2>1, PodSets
    <3> QED BY <1>0, <3>1
  <2>2. CASE createHeadPod
    <3>1. PICK q \in PodsOf(HeadGroup) :
            \A p \in Pods : Unseen(p)' => p = q \/ Unseen(p)
      BY <2>2, createHeadPodAdds
    <3>2. \A p \in PodsOf(HeadGroup) : ~Unseen(p)
      BY <2>2, SatisfiedIsSeen DEF createHeadPod, MayCreateHead, HeadSatisfied
    <3>3. UnseenHeads' \subseteq {q}
      BY <3>1, <3>2 DEF UnseenHeads, PodsOf
    <3>4. {q} \in SUBSET Pods /\ Cardinality({q}) = 1
      BY <3>1, FS_Singleton DEF PodsOf
    <3>5. Cardinality(UnseenHeads') <= Cardinality({q})
      BY <3>3, <3>4, PodSets
    <3> QED BY <3>4, <3>5
  <2>3. CASE ScaleGroupUp
    <3>1. HeadGroup # group
      BY <1>0, <2>3, ConfigAssumption, Zenon DEF ScaleGroupUp, NoneUnhealthy
    <3> QED BY <2>1, <2>3, <3>1, ScaleUpElsewhere DEF UnseenHeads
  <2>4. CASE ~createHeadPod /\ ~ScaleGroupUp
    BY <2>1, <2>4, OtherStepsCalm DEF Calm, UnseenHeads, PodsOf
  <2> QED BY <2>2, <2>3, <2>4
<1>3. ASSUME pc' = "head", headList' = {}
      PROVE  Cardinality(Active(PodsOf(HeadGroup))') <= 1
  <2>0. /\ Active(PodsOf(HeadGroup)) \in SUBSET Pods
        /\ UnseenHeads \in SUBSET Pods
    BY DEF Active, PodsOf, UnseenHeads
  <2>1. ~createHeadPod /\ ~ScaleGroupUp
    BY <1>3, WhereItActs, Zenon DEF ListHeads, createHeadPod, ScaleGroupUp, HeadEnds,
       GroupEnds
  <2>2. Active(PodsOf(HeadGroup))' \subseteq Active(PodsOf(HeadGroup))
    BY <2>1, OtherStepsCalm, CalmShrinks
  <2>3. Cardinality(Active(PodsOf(HeadGroup))) <= 1
    <3>1. CASE ListHeads
      <4>1. Listed(PodsOf(HeadGroup)) = {}
        BY <1>3, <3>1 DEF ListHeads
      <4>2. Active(PodsOf(HeadGroup)) \subseteq UnseenHeads
        BY <4>1, UnseenDef, Zenon DEF Active, UnseenHeads, Listed, PodsOf
      <4>3. /\ Cardinality(Active(PodsOf(HeadGroup))) <= Cardinality(UnseenHeads)
            /\ Cardinality(Active(PodsOf(HeadGroup))) \in Nat
            /\ Cardinality(UnseenHeads) \in Nat
        BY <2>0, <4>2, PodSets
      <4> QED BY <1>0, <4>3
    <3>2. CASE ~ListHeads
      BY <1>0, <1>3, <3>2, WhereItActs
    <3> QED BY <3>1, <3>2
  <2>4. /\ Cardinality(Active(PodsOf(HeadGroup))') <=
                Cardinality(Active(PodsOf(HeadGroup)))
        /\ Cardinality(Active(PodsOf(HeadGroup))') \in Nat
        /\ Cardinality(Active(PodsOf(HeadGroup))) \in Nat
    BY <2>0, <2>2, PodSets
  <2> QED BY <2>3, <2>4
<1> QED BY <1>1, <1>2, <1>3 DEF ActsOnWhatItSees, UnseenHeads, PodsOf

\* Every step preserves the bounds.
LEMMA BoundsStep ==
    ASSUME TypeOK, UnseenPodsExpected, BoundsInv, [Next]_vars
    PROVE  BoundsInv'
<1>1. ActsOnWhatItSees'
  BY ActsOnWhatItSeesStep
<1>2. \A g : Active(PodsOf(g)) \in SUBSET Pods
  BY DEF Active, PodsOf
<1>3. ASSUME NEW g, NEW n \in Nat, Cardinality(Active(PodsOf(g))) <= n,
             Active(PodsOf(g))' \subseteq Active(PodsOf(g))
      PROVE  Cardinality(Active(PodsOf(g))') <= n
  <2>1. /\ Cardinality(Active(PodsOf(g))') <= Cardinality(Active(PodsOf(g)))
        /\ Cardinality(Active(PodsOf(g))') \in Nat
        /\ Cardinality(Active(PodsOf(g))) \in Nat
    BY <1>2, <1>3, PodSets
  <2> QED BY <1>3, <2>1
<1>4. ASSUME Quiet, NEW g \in WorkerGroups
      PROVE  Cardinality(Active(PodsOf(g))') <= MaxReplicas
  <2>0. Cardinality(Active(PodsOf(g))) <= MaxReplicas /\ MaxReplicas \in Nat
    BY <1>4, ConfigAssumption DEF BoundsInv, WorkersBounded, Quiet
  <2>1. CASE createHeadPod
    <3>1. g # HeadGroup
      BY ConfigAssumption
    <3>2. Active(PodsOf(g))' \subseteq Active(PodsOf(g))
      BY <2>1, <3>1, createHeadPodAdds DEF Active, PodsOf
    <3> QED BY <1>3, <2>0, <3>2
  <2>2. CASE ScaleGroupUp /\ g # group
    BY <1>3, <2>0, <2>2, ScaleUpElsewhere
  <2>3. CASE ScaleGroupUp /\ g = group
    <3>1. \A p \in PodsOf(group) : ~Unseen(p)
      BY <1>4, <2>3 DEF BoundsInv, ActsOnWhatItSees, Quiet, ScaleGroupUp,
         NoneUnhealthy
    <3> QED BY <2>3, <3>1, ScaleUpBounded
  <2>4. CASE ~createHeadPod /\ ~ScaleGroupUp
    BY <1>3, <1>4, <2>0, <2>4, OtherStepsCalm, CalmShrinks
  <2> QED BY <2>1, <2>2, <2>3, <2>4
<1>5. ASSUME Quiet
      PROVE  Cardinality(Active(PodsOf(HeadGroup))') <= 2
  <2>0. Cardinality(Active(PodsOf(HeadGroup))) <= 2
    BY <1>5 DEF BoundsInv, AtMostTwoHeads, Quiet
  <2>1. CASE createHeadPod
    <3>1. PICK q \in PodsOf(HeadGroup) :
            Active(Pods)' \subseteq Active(Pods) \cup {q}
      BY <2>1, createHeadPodAdds
    <3>2. Active(PodsOf(HeadGroup))' \subseteq
            Active(PodsOf(HeadGroup)) \cup {q}
      BY <3>1 DEF Active, PodsOf
    <3>3. Cardinality(Active(PodsOf(HeadGroup))) <= 1
      BY <1>5, <2>1 DEF BoundsInv, ActsOnWhatItSees, Quiet, createHeadPod,
         MayCreateHead, HeadSatisfied
    <3>4. /\ IsFiniteSet(Active(PodsOf(HeadGroup)))
          /\ Cardinality(Active(PodsOf(HeadGroup))) \in Nat
      BY <1>2, PodSets
    <3>5. Cardinality(Active(PodsOf(HeadGroup)) \cup {q}) <=
            Cardinality(Active(PodsOf(HeadGroup))) + 1
      <4>1. Cardinality(Active(PodsOf(HeadGroup)) \cup {q}) =
                IF q \in Active(PodsOf(HeadGroup))
                THEN Cardinality(Active(PodsOf(HeadGroup)))
                ELSE Cardinality(Active(PodsOf(HeadGroup))) + 1
        BY <3>4, FS_AddElement, Zenon
      <4> QED BY <3>4, <4>1
    <3>6. Active(PodsOf(HeadGroup)) \cup {q} \in SUBSET Pods
      BY <1>2, <3>1, Zenon DEF PodsOf
    <3>7. /\ Cardinality(Active(PodsOf(HeadGroup))') <=
                Cardinality(Active(PodsOf(HeadGroup)) \cup {q})
          /\ Cardinality(Active(PodsOf(HeadGroup))') \in Nat
          /\ Cardinality(Active(PodsOf(HeadGroup)) \cup {q}) \in Nat
      BY <3>2, <3>6, PodSets
    <3> QED BY <3>3, <3>4, <3>5, <3>7
  <2>2. CASE ScaleGroupUp
    <3>1. HeadGroup # group
      BY <1>5, <2>2, ConfigAssumption, Zenon
         DEF ScaleGroupUp, NoneUnhealthy, BoundsInv, ActsOnWhatItSees, Quiet
    <3> QED BY <1>3, <2>0, <2>2, <3>1, ScaleUpElsewhere
  <2>3. CASE ~createHeadPod /\ ~ScaleGroupUp
    BY <1>3, <1>5, <2>0, <2>3, OtherStepsCalm, CalmShrinks
  <2> QED BY <2>1, <2>2, <2>3
<1> QED BY <1>1, <1>4, <1>5
        DEF BoundsInv, WorkersBounded, AtMostTwoHeads, Quiet, PodsOf

\* No worker group ever runs more Pods than maxReplicas.
THEOREM WorkersBoundedAlways == Spec => []WorkersBounded
<1>1. BoundsInv => WorkersBounded
  BY DEF BoundsInv
<1> QED BY TypeCorrect, UnseenExpected, BoundsInit, BoundsStep, <1>1, PTL
        DEF Spec

\* Never more than two head Pods run.
THEOREM AtMostTwoHeadsAlways == Spec => []AtMostTwoHeads
<1>1. BoundsInv => AtMostTwoHeads
  BY DEF BoundsInv
<1> QED BY TypeCorrect, UnseenExpected, BoundsInit, BoundsStep, <1>1, PTL
        DEF Spec

\* What a reconcile acts on is what it has seen: a worker group's running Pods are all in
\* the list it is sized from, and at most one head Pod is not (reconcilePods asks
\* IsSatisfied before it lists a group, and lists the head Pods before it asks).
THEOREM ActsOnWhatItSeesAlways == Spec => []ActsOnWhatItSees
<1>1. BoundsInv => ActsOnWhatItSees
  BY DEF BoundsInv
<1> QED BY TypeCorrect, UnseenExpected, BoundsInit, BoundsStep, <1>1, PTL
        DEF Spec


-----------------------------------------------------------------------------
(* Scaling in, when nothing but the reconciler and workersToDelete removes  *)
(* Pods.                                                                    *)

Undisturbed ==
    Quiet /\ FaultKinds = {} /\ EditKinds \cap {"suspend", "groupSuspend"} = {}

Plain(c) ==
    /\ ~c.suspend /\ ~c.suspending /\ ~c.suspended
    /\ \A g \in WorkerGroups : ~c.groupSuspend[g]

\* A Pod that is being deleted has been seen, and one that is listed although it does not
\* run any more is expected to go.
Settled(p) ==
    /\ pods[p] # NoPod /\ pods[p].deleting => cache[p] # NoPod
    /\ cache[p] # NoPod /\ p \notin Active(Pods) => expectations[p] = "delete"

Workers == Pods \ PodsOf(HeadGroup)

\* The inductive invariant: no suspension, no failed Pod, every worker Pod settled, and
\* none of the group at hand expected to go.
ScaleInv ==
    /\ Plain(cr) /\ Plain(crCache) /\ Plain(inst)
    /\ \A p \in Pods : /\ pods[p] # NoPod => pods[p].phase # "Failed"
                       /\ cache[p] # NoPod => cache[p].phase # "Failed"
    /\ headBad = {}
    /\ \A p \in Workers : Settled(p)
    /\ pc = "group" => \A p \in PodsOf(group) : expectations[p] # "delete"

\* The value of each Pod after PodsAfter(C, D).
LEMMA PodAfter ==
    ASSUME TypeOK, NEW C, NEW D, pods' = PodsAfter(C, D), NEW p \in Pods
    PROVE  /\ p \in C => pods'[p] = NewPod
           /\ p \notin C /\ p \in D /\ pods[p] # NoPod =>
                /\ pods'[p] # NoPod /\ pods'[p].deleting
                /\ pods'[p].phase = pods[p].phase
           /\ p \notin C /\ (p \notin D \/ pods[p] = NoPod) => pods'[p] = pods[p]
<1>1. pods'[p] = IF p \in C THEN NewPod
                 ELSE IF p \in D /\ pods[p] # NoPod
                 THEN [pods[p] EXCEPT !.deleting = TRUE] ELSE pods[p]
  BY DEF PodsAfter
<1>2. ASSUME pods[p] # NoPod
      PROVE  /\ [pods[p] EXCEPT !.deleting = TRUE] \in PodObject
             /\ [pods[p] EXCEPT !.deleting = TRUE].deleting
             /\ [pods[p] EXCEPT !.deleting = TRUE].phase = pods[p].phase
  BY <1>2, Zenon DEF TypeOK, PodObject
<1> QED BY <1>1, <1>2, NoPodAssumption, Zenon

\* A new Pod is neither failed nor being deleted.
LEMMA NewPodFact == TypeOK => /\ NewPod # NoPod /\ ~NewPod.deleting
                              /\ NewPod.phase # "Failed"
<1> SUFFICES ASSUME TypeOK PROVE /\ NewPod # NoPod /\ ~NewPod.deleting
                                 /\ NewPod.phase # "Failed"
  OBVIOUS
<1>1. NewPod \in PodObject
  BY Zenon DEF TypeOK, NewPod, PodObject, Phases, Hashes, RayCluster,
         GenerateHashWithoutReplicasAndWorkersToDelete
<1> QED BY <1>1, NoPodAssumption, Zenon DEF NewPod

\* Creating the Pods of C and deleting those of D, which have been seen, with both
\* expected, settles everything.
LEMMA ScalingSettles ==
    ASSUME TypeOK, NEW C, NEW D, NEW p \in Pods, Settled(p),
           pods' = PodsAfter(C, D), cache' = cache,
           expectations' = ExpectScalePods(expectations, C, D),
           p \in C => cache[p] = NoPod,
           p \in D /\ pods[p] # NoPod => cache[p] # NoPod
    PROVE  Settled(p)'
<1>1. expectations'[p] = IF p \in C THEN "create"
                         ELSE IF p \in D THEN "delete" ELSE expectations[p]
  BY DEF ExpectScalePods
<1>2. CASE p \in C
  BY <1>2, PodAfter, NewPodFact, Zenon DEF Settled
<1>3. CASE p \notin C /\ p \in D /\ pods[p] # NoPod
  BY <1>1, <1>3, PodAfter, Zenon DEF Settled
<1>4. CASE p \notin C /\ (p \notin D \/ pods[p] = NoPod)
  <2>1. pods'[p] = pods[p]
    BY <1>4, PodAfter, Zenon
  <2>2. p \in Active(Pods)' <=> p \in Active(Pods)
    BY <2>1, Zenon DEF Active
  <2> QED BY <1>1, <1>4, <2>1, <2>2, Zenon DEF Settled
<1> QED BY <1>2, <1>3, <1>4, Zenon

\* A step that changes neither a Pod nor its cached copy, and drops its expectation only if
\* it is fulfilled, leaves it settled.
LEMMA DroppingSettles ==
    ASSUME TypeOK, NEW p \in Pods, Settled(p), pods'[p] = pods[p], cache'[p] = cache[p],
           \/ expectations'[p] = expectations[p]
           \/ isPodScaled(p)
           \/ expectations[p] # "delete"
    PROVE  Settled(p)'
<1>1. p \in Active(Pods)' <=> p \in Active(Pods)
  BY DEF Active
<1> QED BY <1>1 DEF Settled, isPodScaled

\* It holds initially.
LEMMA ScaleInit == Init => ScaleInv
<1> SUFFICES ASSUME Init PROVE ScaleInv
  OBVIOUS
<1>1. Plain(cr) /\ crCache = cr /\ inst = cr /\ headBad = {} /\ pc = "idle"
  BY Zenon DEF Init, Plain
<1>2. \A p \in Pods : pods[p] = NoPod /\ cache[p] = NoPod
  BY Zenon DEF Init
<1>3. \A p \in Workers : Settled(p)
  BY <1>2 DEF Settled, Workers
<1> QED BY <1>1, <1>2, <1>3, Zenon DEF ScaleInv

\* No edit and no status brings a suspension about.
LEMMA PlainStep ==
    ASSUME TypeOK, Undisturbed, Plain(cr), Plain(crCache), Plain(inst), [Next]_vars
    PROVE  Plain(cr)' /\ Plain(crCache)' /\ Plain(inst)'
<1> USE DEF store, crs, local, budget
<1>1. CASE updateRayClusterStatus
  <2>1. cr' = calculateStatus(inst) /\ inst \in RayCluster /\ UNCHANGED <<crCache, inst>>
    BY <1>1 DEF updateRayClusterStatus, TypeOK
  <2>2. cr' = [[inst EXCEPT !.provisioned = Provisioned(inst),
                            !.suspending = inst.suspend] EXCEPT !.state = State(inst)]
    BY <2>1 DEF calculateStatus, Plain
  <2>3. /\ cr'.suspend = inst.suspend /\ cr'.suspending = inst.suspend
        /\ cr'.suspended = inst.suspended /\ cr'.groupSuspend = inst.groupSuspend
    BY <2>1, <2>2, Zenon DEF RayCluster
  <2> QED BY <2>1, <2>3, Zenon DEF Plain
<1>2. CASE EditRayCluster
  <2>1. PICK kind \in EditKinds : cr' \in Edited(kind)
    BY <1>2 DEF EditRayCluster
  <2>2. kind \in {"replicas", "toDelete", "template"}
    BY <2>1, ConfigAssumption DEF Undisturbed, EditKind
  <2>3. /\ cr'.suspend = cr.suspend /\ cr'.suspending = cr.suspending
        /\ cr'.suspended = cr.suspended /\ cr'.groupSuspend = cr.groupSuspend
    <3>1. CASE kind = "replicas"
      <4>1. PICK g \in WorkerGroups, n \in ReplicaCounts : cr' = [cr EXCEPT !.replicas[g] = n]
        BY <2>1, <3>1 DEF Edited
      <4> QED BY <4>1, Zenon DEF TypeOK, RayCluster
    <3>2. CASE kind = "toDelete"
      <4>1. PICK D : cr' = [cr EXCEPT !.toDelete = D]
        BY <2>1, <3>2 DEF Edited
      <4> QED BY <4>1, Zenon DEF TypeOK, RayCluster
    <3>3. CASE kind = "template"
      <4>1. PICK t : cr' = [cr EXCEPT !.template = t]
        BY <2>1, <3>3 DEF Edited
      <4> QED BY <4>1, Zenon DEF TypeOK, RayCluster
    <3> QED BY <2>2, <3>1, <3>2, <3>3
  <2> QED BY <1>2, <2>3, Zenon DEF EditRayCluster, Plain
<1>3. CASE Begin \/ SyncRayCluster
  BY <1>3, Zenon DEF Begin, SyncRayCluster, Plain
<1>4. CASE PodFails \/ PodEvicted \/ OperatorRestarts
  BY <1>4 DEF PodFails, PodEvicted, OperatorRestarts, Fault, Undisturbed
<1>5. CASE ReconcilePods \/ StatusNotUpdated
  <2>1. UNCHANGED <<cr, crCache, inst>>
    BY <1>5, Zenon DEF ReconcilePods, ReconcileFuncFails, DeletePodsOfSuspending,
       SkipPodsOfSuspended, RecreatePods, ListHeads, HeadNotSatisfied, KeepHead, DeleteHead,
       SkipHead, TooManyHeads, createHeadPod, CreateHeadFails, HeadEnds, GroupNotSatisfied,
       GroupSatisfied, WorkersDone, DeletePodsOfSuspendedGroup, DeleteGroupFails,
       DeleteUnhealthyWorkers, WorkersToDeleteFails, ScaleGroupUp, KeepGroup, ScaleGroupDown,
       GroupEnds, StatusNotUpdated
  <2> QED BY <2>1, Zenon DEF Plain
<1>6. CASE UNCHANGED <<cr, crCache, inst>>
  BY <1>6, Zenon DEF Plain
<1> QED BY <1>1, <1>2, <1>3, <1>4, <1>5, <1>6
        DEF Next, Reconcile, Informers, Environment, SyncPods, ExpectationTimeout, PodRuns,
            PodGone, vars

\* Deletions, creations, and what the steps outside of the reconciler do to a Pod.
LEMMA PodsStep ==
    ASSUME TypeOK, Undisturbed, ScaleInv, [Next]_vars
    PROVE  \/ \E C, D : pods' = PodsAfter(C, D)
           \/ UNCHANGED pods
           \/ \E q \in Pods : PodRuns(q) \/ PodGone(q)
<1> USE DEF store, crs, local, budget
<1>1. ASSUME NEW S, pods' = deleteAllPods(S)
      PROVE  UNCHANGED pods \/ \E C, D : pods' = PodsAfter(C, D)
  BY <1>1 DEF deleteAllPods
<1>2. CASE ReconcilePods
  <2>1. CASE \/ ReconcileFuncFails \/ SkipPodsOfSuspended \/ ListHeads
             \/ HeadNotSatisfied \/ KeepHead \/ SkipHead \/ TooManyHeads
             \/ CreateHeadFails \/ GroupNotSatisfied \/ GroupSatisfied
             \/ WorkersDone \/ DeleteGroupFails
    BY <2>1, Zenon DEF ReconcileFuncFails, SkipPodsOfSuspended, ListHeads,
       HeadNotSatisfied, KeepHead, SkipHead, TooManyHeads, CreateHeadFails,
       GroupNotSatisfied, GroupSatisfied, WorkersDone, DeleteGroupFails
  <2>2. CASE DeletePodsOfSuspending \/ RecreatePods \/ DeletePodsOfSuspendedGroup
    BY <1>1, <2>2, Zenon DEF DeletePodsOfSuspending, RecreatePods, DeletePodsOfSuspendedGroup
  <2>3. CASE \/ DeleteHead \/ createHeadPod \/ DeleteUnhealthyWorkers
             \/ WorkersToDeleteFails \/ KeepGroup \/ ScaleGroupDown \/ ScaleGroupUp
    BY <2>3, Zenon DEF DeleteHead, createHeadPod, DeleteUnhealthyWorkers,
       WorkersToDeleteFails, KeepGroup, ScaleGroupDown, ScaleGroupUp
  <2> QED BY <1>2, <2>1, <2>2, <2>3 DEF ReconcilePods
<1>3. CASE PodFails \/ PodEvicted \/ OperatorRestarts
  BY <1>3 DEF PodFails, PodEvicted, OperatorRestarts, Fault, Undisturbed
<1> QED BY <1>2, <1>3, Zenon
        DEF Next, Reconcile, Begin, updateRayClusterStatus, StatusNotUpdated, Informers,
            Environment, SyncPods, SyncRayCluster, ExpectationTimeout, EditRayCluster, vars

Healthy ==
    \A p \in Pods : /\ pods[p] # NoPod => pods[p].phase # "Failed"
                    /\ cache[p] # NoPod => cache[p].phase # "Failed"

\* While no Pod fails none is unhealthy.
LEMMA HealthyStep ==
    ASSUME TypeOK, Undisturbed, ScaleInv, [Next]_vars
    PROVE  Healthy'
<1>0. Healthy
  BY DEF ScaleInv, Healthy
<1>1. \A p \in Pods : pods'[p] # NoPod => pods'[p].phase # "Failed"
  <2> SUFFICES ASSUME NEW p \in Pods, pods'[p] # NoPod PROVE pods'[p].phase # "Failed"
    OBVIOUS
  <2>1. CASE \E C, D : pods' = PodsAfter(C, D)
    BY <1>0, <2>1, PodAfter, NewPodFact, Zenon DEF Healthy
  <2>2. CASE UNCHANGED pods
    BY <1>0, <2>2 DEF Healthy
  <2>3. CASE \E q \in Pods : PodRuns(q)
    <3>1. PICK q \in Pods : PodRuns(q)
      BY <2>3
    <3>2. pods' = [pods EXCEPT ![q] = [pods[q] EXCEPT !.phase = "Running"]] /\ pods[q] # NoPod
      BY <3>1 DEF PodRuns
    <3>3. [pods[q] EXCEPT !.phase = "Running"].phase = "Running"
      BY <3>2 DEF TypeOK, PodObject
    <3> QED BY <1>0, <3>2, <3>3 DEF Healthy, TypeOK
  <2>4. CASE \E q \in Pods : PodGone(q)
    BY <1>0, <2>4 DEF Healthy, PodGone, TypeOK
  <2> QED BY <2>1, <2>2, <2>3, <2>4, PodsStep
<1>2. \A p \in Pods : cache'[p] \in {cache[p], pods[p]}
  <2> USE DEF store, crs, local, budget
  <2>1. CASE \E S \in SyncSets : SyncPods(S)
    BY <2>1, Zenon DEF SyncPods
  <2>2. CASE PodFails \/ PodEvicted \/ OperatorRestarts
    BY <2>2 DEF PodFails, PodEvicted, OperatorRestarts, Fault, Undisturbed
  <2>3. CASE Reconcile
    BY <2>3, Zenon DEF Reconcile, Begin, updateRayClusterStatus, StatusNotUpdated,
       ReconcilePods, ReconcileFuncFails, DeletePodsOfSuspending,
       SkipPodsOfSuspended, RecreatePods, ListHeads, HeadNotSatisfied, KeepHead, DeleteHead,
       SkipHead, TooManyHeads, createHeadPod, CreateHeadFails, HeadEnds, GroupNotSatisfied,
       GroupSatisfied, WorkersDone, DeletePodsOfSuspendedGroup, DeleteGroupFails,
       DeleteUnhealthyWorkers, WorkersToDeleteFails, ScaleGroupUp, KeepGroup, ScaleGroupDown,
       GroupEnds
  <2> QED BY <2>1, <2>2, <2>3
          DEF Next, Informers, Environment, SyncRayCluster, ExpectationTimeout, PodRuns,
              PodGone, EditRayCluster, vars
<1> QED BY <1>0, <1>1, <1>2, Zenon DEF Healthy

\* What a reconcile removes from a group it has seen: a Pod that exists is in the cache.
LEMMA SeenBeforeRemoved ==
    ASSUME TypeOK, Undisturbed, ScaleInv, BoundsInv, pc = "group"
    PROVE  /\ group \in WorkerGroups /\ PodsOf(group) \subseteq Workers
           /\ \A p \in PodsOf(group) : pods[p] # NoPod => cache[p] # NoPod
           /\ Listed(PodsOf(group)) \subseteq Active(PodsOf(group))
<1>1. group \in WorkerGroups /\ \A p \in PodsOf(group) : ~Unseen(p)
  BY DEF Undisturbed, Quiet, BoundsInv, ActsOnWhatItSees
<1>2. PodsOf(group) \subseteq Workers
  BY <1>1, ConfigAssumption DEF PodsOf, Workers
<1>3. \A p \in PodsOf(group) : pods[p] # NoPod => cache[p] # NoPod
  BY <1>1, <1>2, UnseenDef, Zenon DEF ScaleInv, Settled, Active, PodsOf
<1>4. Listed(PodsOf(group)) \subseteq Active(PodsOf(group))
  BY <1>2, Zenon DEF ScaleInv, Settled, Listed, Active, PodsOf
<1> QED BY <1>1, <1>2, <1>3, <1>4, Zenon

\* Every step leaves every worker Pod settled.
LEMMA SettledStep ==
    ASSUME TypeOK, Undisturbed, ScaleInv, BoundsInv, [Next]_vars, NEW p \in Workers
    PROVE  Settled(p)'
<1> USE DEF store, crs, local, budget
<1>0. /\ p \in Pods /\ p \notin PodsOf(HeadGroup) /\ Settled(p)
      /\ Plain(inst) /\ headBad = {} /\ ~Recreate
      /\ \A g : Unhealthy(g) = {}
  BY Zenon DEF Workers, ScaleInv, Undisturbed, Quiet, Unhealthy, Listed, shouldDeletePod, PodsOf
<1>1. CASE \/ Begin \/ ReconcileFuncFails \/ SkipPodsOfSuspended \/ ListHeads \/ WorkersDone
           \/ updateRayClusterStatus \/ StatusNotUpdated \/ SyncRayCluster \/ EditRayCluster
           \/ DeleteGroupFails \/ UNCHANGED vars
  <2>1. UNCHANGED <<pods, cache, expectations>>
    BY <1>1, Zenon DEF Begin, ReconcileFuncFails, SkipPodsOfSuspended, ListHeads, WorkersDone,
       updateRayClusterStatus, StatusNotUpdated, SyncRayCluster, EditRayCluster,
       DeleteGroupFails, GroupEnds, vars
  <2> QED BY <1>0, <2>1, DroppingSettles, Zenon
<1>2. CASE \/ DeletePodsOfSuspending \/ RecreatePods \/ DeleteHead \/ DeletePodsOfSuspendedGroup
           \/ DeleteUnhealthyWorkers \/ PodFails \/ PodEvicted \/ OperatorRestarts
  BY <1>0, <1>2, SeenBeforeRemoved, Zenon DEF DeletePodsOfSuspending, RecreatePods, DeleteHead,
     DeletePodsOfSuspendedGroup, DeleteUnhealthyWorkers, PodFails, PodEvicted,
     OperatorRestarts, Fault, Undisturbed, Plain
<1>3. CASE \/ HeadNotSatisfied \/ KeepHead \/ SkipHead \/ TooManyHeads \/ CreateHeadFails
           \/ createHeadPod
  <2>1. cache' = cache /\ expectations'[p] = expectations[p]
    BY <1>0, <1>3, Zenon DEF HeadNotSatisfied, KeepHead, SkipHead, TooManyHeads, CreateHeadFails,
       createHeadPod, HeadNames, HeadEnds, IsNotSatisfied, Dropped, ExpectScalePods
  <2>2. pods'[p] = pods[p]
    BY <1>0, <1>3, Zenon DEF HeadNotSatisfied, KeepHead, SkipHead, TooManyHeads, CreateHeadFails,
       createHeadPod, HeadNames, PodsAfter
  <2> QED BY <1>0, <2>1, <2>2, DroppingSettles, Zenon
<1>4. CASE GroupNotSatisfied \/ GroupSatisfied
  <2>1. UNCHANGED <<pods, cache>>
    BY <1>4 DEF GroupNotSatisfied, GroupSatisfied
  <2>2. expectations'[p] = expectations[p] \/ isPodScaled(p)
    BY <1>0, <1>4, Zenon DEF GroupNotSatisfied, GroupSatisfied, IsNotSatisfied, IsSatisfied, Dropped
  <2> QED BY <1>0, <2>1, <2>2, DroppingSettles, Zenon
<1>5. CASE WorkersToDeleteFails \/ ScaleGroupUp \/ KeepGroup \/ ScaleGroupDown
  <2>1. pc = "group" /\ cache' = cache
    BY <1>5, Zenon DEF WorkersToDeleteFails, ScaleGroupUp, KeepGroup, ScaleGroupDown, NoneUnhealthy,
       GroupEnds
  <2>2. \E C, D : /\ pods' = PodsAfter(C, D)
                  /\ expectations' = ExpectScalePods(expectations, C, D)
                  /\ \A q \in C : cache[q] = NoPod
                  /\ D \subseteq PodsOf(group)
    <3>1. DeletedWorkers \subseteq PodsOf(group) /\ RunningPods \subseteq PodsOf(group)
      BY DEF DeletedWorkers, WorkersToDelete, RunningPods, Listed
    <3>2. CASE WorkersToDeleteFails
      BY <3>1, <3>2 DEF WorkersToDeleteFails
    <3>3. CASE ScaleGroupUp
      BY <3>1, <3>3, Zenon DEF ScaleGroupUp, Fresh
    <3>4. CASE KeepGroup
      BY <3>1, <3>4 DEF KeepGroup
    <3>5. CASE ScaleGroupDown
      <4>1. PICK D \in SUBSET RunningPods :
              /\ pods' = PodsAfter({}, D \cup DeletedWorkers)
              /\ expectations' = ExpectScalePods(expectations, {}, D \cup DeletedWorkers)
        BY <3>5, Zenon DEF ScaleGroupDown
      <4>2. D \cup DeletedWorkers \subseteq PodsOf(group)
        BY <3>1, <4>1
      <4> QED BY <4>1, <4>2
    <3> QED BY <1>5, <3>2, <3>3, <3>4, <3>5
  <2> QED BY <1>0, <2>1, <2>2, SeenBeforeRemoved, ScalingSettles, Zenon
<1>6. CASE \E S \in SyncSets : SyncPods(S)
  <2>1. /\ UNCHANGED <<pods, expectations>>
        /\ cache'[p] = pods[p] \/ cache'[p] = cache[p]
    BY <1>0, <1>6, Zenon DEF SyncPods
  <2>2. p \in Active(Pods)' <=> p \in Active(Pods)
    BY <2>1 DEF Active
  <2>3. CASE cache'[p] = pods[p]
    BY <1>0, <2>1, <2>2, <2>3, Zenon DEF Settled, Active
  <2>4. CASE cache'[p] = cache[p]
    BY <1>0, <2>1, <2>4, DroppingSettles, Zenon
  <2> QED BY <2>1, <2>3, <2>4, Zenon
<1>7. CASE \E q \in Pods : ExpectationTimeout(q)
  <2>1. PICK q \in Pods : ExpectationTimeout(q)
    BY <1>7
  <2>2. CASE p = q
    BY <1>0, <2>1, <2>2, DroppingSettles, Zenon DEF ExpectationTimeout
  <2>3. CASE p # q
    BY <1>0, <2>1, <2>3, DroppingSettles, Zenon DEF ExpectationTimeout, TypeOK
  <2> QED BY <2>2, <2>3
<1>8. CASE \E q \in Pods : PodRuns(q) \/ PodGone(q)
  <2>1. PICK q \in Pods : PodRuns(q) \/ PodGone(q)
    BY <1>8
  <2>2. UNCHANGED <<cache, expectations>>
    BY <2>1 DEF PodRuns, PodGone
  <2>3. CASE p # q
    <3>1. pods'[p] = pods[p]
      BY <1>0, <2>1, <2>3 DEF PodRuns, PodGone, TypeOK
    <3> QED BY <1>0, <2>2, <3>1, DroppingSettles, Zenon
  <2>4. CASE p = q /\ PodGone(q)
    BY <1>0, <2>2, <2>4 DEF PodGone, Settled, Active, TypeOK
  <2>5. CASE p = q /\ PodRuns(q)
    <3>1. pods'[p] = [pods[p] EXCEPT !.phase = "Running"] /\ pods[p] \in PodObject
      BY <1>0, <2>5 DEF PodRuns, TypeOK
    <3>2. pods'[p] \in PodObject /\ pods'[p].deleting = pods[p].deleting
      BY <3>1 DEF PodObject, Phases
    <3>3. pods'[p] # NoPod /\ pods[p] # NoPod
      BY <3>1, <3>2, NoPodAssumption
    <3> QED BY <1>0, <2>2, <3>2, <3>3, Zenon DEF Settled, Active
  <2> QED BY <2>1, <2>3, <2>4, <2>5
<1> QED BY <1>1, <1>2, <1>3, <1>4, <1>5, <1>6, <1>7, <1>8
        DEF Next, Reconcile, ReconcilePods, Informers, Environment

\* Every step preserves ScaleInv.
LEMMA ScaleStep ==
    ASSUME TypeOK, Undisturbed, ScaleInv, BoundsInv, [Next]_vars
    PROVE  ScaleInv'
<1> USE DEF store, crs, local, budget
<1>1. Plain(cr)' /\ Plain(crCache)' /\ Plain(inst)'
  BY PlainStep, Zenon DEF ScaleInv
<1>2. Healthy'
  BY HealthyStep
<1>3. headBad' = {}
  <2>1. Unhealthy(HeadGroup) = {} /\ headBad = {}
    BY Zenon DEF ScaleInv, Unhealthy, Listed, shouldDeletePod, PodsOf
  <2>2. CASE Reconcile
    BY <2>1, <2>2, Zenon DEF Reconcile, Begin, updateRayClusterStatus, StatusNotUpdated,
       ReconcilePods, ReconcileFuncFails, DeletePodsOfSuspending,
       SkipPodsOfSuspended, RecreatePods, ListHeads, HeadNotSatisfied, KeepHead, DeleteHead,
       SkipHead, TooManyHeads, createHeadPod, CreateHeadFails, HeadEnds, GroupNotSatisfied,
       GroupSatisfied, WorkersDone, DeletePodsOfSuspendedGroup, DeleteGroupFails,
       DeleteUnhealthyWorkers, WorkersToDeleteFails, ScaleGroupUp, KeepGroup, ScaleGroupDown,
       GroupEnds
  <2> QED BY <2>1, <2>2, Zenon
          DEF Next, Informers, Environment, SyncPods, SyncRayCluster, ExpectationTimeout,
              PodRuns, PodGone, PodFails, PodEvicted, OperatorRestarts, EditRayCluster, vars
<1>4. \A p \in Workers : Settled(p)'
  BY SettledStep
<1>5. ASSUME pc' = "group", NEW p \in PodsOf(group')
      PROVE  expectations'[p] # "delete"
  <2>1. CASE GroupSatisfied
    BY <1>5, <2>1, Zenon DEF GroupSatisfied, Dropped, PodsOf
  <2>2. CASE ~GroupSatisfied
    <3>1. pc = "group" /\ group' = group
      BY <1>5, <2>2, WhereItActs
    <3>2. expectations[p] # "delete" /\ p \in Pods
      BY <1>5, <3>1, Zenon DEF ScaleInv, PodsOf
    <3>3. ~Reconcile
      BY <1>5, <2>2, <3>1, Zenon DEF Reconcile, Begin, updateRayClusterStatus, StatusNotUpdated,
         ReconcilePods, ReconcileFuncFails, DeletePodsOfSuspending, SkipPodsOfSuspended,
         RecreatePods, ListHeads, HeadNotSatisfied, KeepHead, DeleteHead, SkipHead,
         TooManyHeads, createHeadPod, CreateHeadFails, HeadSatisfied, MayCreateHead,
         GroupNotSatisfied, WorkersDone, DeletePodsOfSuspendedGroup, DeleteGroupFails,
         DeleteUnhealthyWorkers, WorkersToDeleteFails, ScaleGroupUp, KeepGroup,
         ScaleGroupDown, GroupEnds, HeadEnds
    <3>4. UNCHANGED expectations \/ \E q \in Pods : ExpectationTimeout(q)
      BY <1>5, <3>3, Zenon DEF Next, Informers, Environment, SyncPods, SyncRayCluster, PodRuns, PodGone,
         PodFails, PodEvicted, OperatorRestarts, EditRayCluster, vars
    <3> QED BY <3>2, <3>4, Zenon DEF ExpectationTimeout, TypeOK
  <2> QED BY <2>1, <2>2
<1> QED BY <1>1, <1>2, <1>3, <1>4, <1>5, Zenon DEF ScaleInv, Healthy, Workers, PodsOf

\* Scaling in stops at the desired number: what ScaleGroupDown removes is chosen from Pods
\* that all run.
LEMMA ScaleDownStops ==
    ASSUME TypeOK, Undisturbed, ScaleInv, BoundsInv, ScaleGroupDown,
           NEW g \in WorkerGroups, g = group
    PROVE  Cardinality(Active(PodsOf(g))') >= GetWorkerGroupDesiredReplicas(inst, g)
<1>0. Listed(PodsOf(g)) \subseteq Active(PodsOf(g))
  BY SeenBeforeRemoved, Zenon DEF ScaleGroupDown, NoneUnhealthy
<1>1. PICK D \in SUBSET RunningPods :
        /\ pods' = PodsAfter({}, D \cup DeletedWorkers)
        /\ Cardinality(D) = -Diff \/ Cardinality(D) < -Diff
  BY Zenon DEF ScaleGroupDown
<1>2. RunningPods \in SUBSET Pods
  BY Zenon DEF RunningPods, Listed, PodsOf
<1>3. RunningPods \ D \subseteq Active(PodsOf(g))'
  <2> SUFFICES ASSUME NEW p \in RunningPods, p \notin D
               PROVE  p \in Active(PodsOf(g))'
    OBVIOUS
  <2>1. p \in PodsOf(g) /\ p \in Pods /\ p \in Active(PodsOf(g)) /\ p \notin DeletedWorkers
    <3>1. p \in Listed(PodsOf(g)) /\ p \notin DeletedWorkers
      BY DEF RunningPods
    <3> QED BY <1>0, <3>1, Zenon DEF Listed, PodsOf
  <2>2. pods'[p] = pods[p]
    <3>1. p \notin D \cup DeletedWorkers
      BY <2>1
    <3> QED BY <1>1, <2>1, <3>1, PodAfter
  <2> QED BY <2>1, <2>2, Zenon DEF Active
<1>4. /\ IsFiniteSet(RunningPods) /\ Cardinality(RunningPods) \in Nat
      /\ Cardinality(D) \in Nat
  BY <1>1, <1>2, PodSets
<1>5. /\ Cardinality(RunningPods \ D) = Cardinality(RunningPods) - Cardinality(D)
      /\ Cardinality(RunningPods \ D) \in Nat
  <2>1. RunningPods \cap D = D
    BY <1>1
  <2>2. Cardinality(RunningPods \ D) =
            Cardinality(RunningPods) - Cardinality(RunningPods \cap D)
    BY <1>4, FS_Difference
  <2>3. Cardinality(RunningPods \ D) \in Nat
    BY <1>2, PodSets
  <2> QED BY <2>1, <2>2, <2>3
<1>6. /\ Cardinality(Active(PodsOf(g))') \in Nat
      /\ Cardinality(RunningPods \ D) <= Cardinality(Active(PodsOf(g))')
  <2>1. Active(PodsOf(g))' \in SUBSET Pods
    BY DEF Active, PodsOf
  <2> QED BY <1>3, <2>1, PodSets
<1>7. GetWorkerGroupDesiredReplicas(inst, g) \in Nat
  BY DesiredBounded DEF TypeOK
<1>8. Diff = GetWorkerGroupDesiredReplicas(inst, g) - Cardinality(RunningPods)
  BY DEF Diff
<1> QED BY <1>1, <1>4, <1>5, <1>6, <1>7, <1>8

\* While nothing else deletes Pods (no suspension, no Recreate, no fault, no informer that
\* outlives the expectations), scaling a worker group in never takes it below the number it
\* is scaled to: reconcilePods does not repeat a deletion that the cache does not show yet
\* on another Pod, because it waits until every expected deletion has been seen.
THEOREM ScaleInAlwaysStops == Undisturbed => (Spec => ScaleInStopsAtDesired)
<1> SUFFICES ASSUME Undisturbed PROVE Spec => ScaleInStopsAtDesired
  OBVIOUS
<1>1. TypeOK /\ ScaleInv /\ BoundsInv /\ [Next]_vars =>
        [\A g \in WorkerGroups :
            (pc = "group" /\ group = g /\ FaultKinds = {}) =>
                \/ Cardinality(Active(PodsOf(g))') >=
                        GetWorkerGroupDesiredReplicas(inst, g)
                \/ Active(PodsOf(g)) \ inst.toDelete \subseteq
                        Active(PodsOf(g))']_vars
  <2> SUFFICES ASSUME TypeOK, ScaleInv, BoundsInv, [Next]_vars,
                      NEW g \in WorkerGroups, pc = "group", group = g
               PROVE  \/ Cardinality(Active(PodsOf(g))') >=
                            GetWorkerGroupDesiredReplicas(inst, g)
                      \/ Active(PodsOf(g)) \ inst.toDelete \subseteq
                            Active(PodsOf(g))'
    BY Zenon
  <2> USE DEF store, crs, local, budget
  <2>0. Plain(inst) /\ Unhealthy(group) = {}
    BY Zenon DEF ScaleInv, Unhealthy, Listed, shouldDeletePod, PodsOf
  <2>1. CASE ScaleGroupDown
    BY <2>1, ScaleDownStops, Zenon
  <2>2. CASE WorkersToDeleteFails \/ ScaleGroupUp \/ KeepGroup
    <3>1. DeletedWorkers \subseteq inst.toDelete
      BY Zenon DEF DeletedWorkers, WorkersToDelete
    <3>2. \E C, D : pods' = PodsAfter(C, D) /\ D \subseteq inst.toDelete
      BY <2>2, <3>1, Zenon DEF WorkersToDeleteFails, ScaleGroupUp, KeepGroup
    <3>3. PICK C, D : pods' = PodsAfter(C, D) /\ D \subseteq inst.toDelete
      BY <3>2, Zenon
    <3>4. ASSUME NEW p \in Pods, p \notin D, pods[p] # NoPod, ~pods[p].deleting
          PROVE  pods'[p] # NoPod /\ ~pods'[p].deleting
      BY <3>3, <3>4, PodAfter, NewPodFact, Zenon
    <3> QED BY <3>3, <3>4, Zenon DEF Active, PodsOf
  <2>3. CASE \E q \in Pods : PodRuns(q) \/ PodGone(q)
    <3>1. PICK q \in Pods : PodRuns(q) \/ PodGone(q)
      BY <2>3
    <3>2. CASE PodGone(q)
      BY <3>2, Zenon DEF PodGone, Active, PodsOf, TypeOK
    <3>3. CASE PodRuns(q)
      <4>1. pods' = [pods EXCEPT ![q] = [pods[q] EXCEPT !.phase = "Running"]] /\ pods[q] \in PodObject
        BY <3>3 DEF PodRuns, TypeOK
      <4>2. /\ [pods[q] EXCEPT !.phase = "Running"] \in PodObject
            /\ [pods[q] EXCEPT !.phase = "Running"].deleting = pods[q].deleting
        BY <4>1 DEF PodObject, Phases
      <4> QED BY <4>1, <4>2, NoPodAssumption DEF Active, PodsOf, TypeOK
    <3> QED BY <3>1, <3>2, <3>3, Zenon
  <2>4. CASE UNCHANGED pods
    BY <2>4, Zenon DEF Active
  <2>5. CASE DeletePodsOfSuspendedGroup \/ DeleteUnhealthyWorkers
    BY <2>0, <2>5, Zenon DEF DeletePodsOfSuspendedGroup, DeleteUnhealthyWorkers, Plain
  <2>6. CASE PodFails \/ PodEvicted \/ OperatorRestarts
    BY <2>6 DEF PodFails, PodEvicted, OperatorRestarts, Fault, Undisturbed
  <2>7. \/ ScaleGroupDown \/ WorkersToDeleteFails \/ ScaleGroupUp \/ KeepGroup
        \/ DeletePodsOfSuspendedGroup \/ DeleteUnhealthyWorkers
        \/ UNCHANGED pods \/ ~Reconcile
    BY Zenon DEF Reconcile, ReconcilePods, Begin, updateRayClusterStatus, StatusNotUpdated,
       ReconcileFuncFails, DeletePodsOfSuspending, SkipPodsOfSuspended, RecreatePods,
       ListHeads, HeadNotSatisfied, KeepHead, DeleteHead, SkipHead, TooManyHeads,
       createHeadPod, CreateHeadFails, HeadSatisfied, MayCreateHead, GroupNotSatisfied,
       GroupSatisfied, WorkersDone, DeleteGroupFails
  <2>8. ~Reconcile => \/ UNCHANGED pods \/ \E q \in Pods : PodRuns(q) \/ PodGone(q)
                      \/ PodFails \/ PodEvicted \/ OperatorRestarts
    BY Zenon DEF Next, Informers, Environment, SyncPods, SyncRayCluster, ExpectationTimeout,
       EditRayCluster, vars
  <2> QED BY <2>1, <2>2, <2>3, <2>4, <2>5, <2>6, <2>7, <2>8, Zenon
<1>2. TypeOK /\ UnseenPodsExpected /\ ScaleInv /\ BoundsInv /\ [Next]_vars => ScaleInv'
  BY ScaleStep
<1>3. TypeOK /\ UnseenPodsExpected /\ BoundsInv /\ [Next]_vars => BoundsInv'
  BY BoundsStep
<1> QED BY <1>1, <1>2, <1>3, TypeCorrect, UnseenExpected, BoundsInit, ScaleInit, PTL
        DEF Spec, ScaleInStopsAtDesired

-----------------------------------------------------------------------------
(* What the resourceVersion check of updateRayClusterStatus buys when a      *)
(* RayCluster is suspended and resumed: the conditions stay consistent, and  *)
(* no reconcile, however old its instance, creates a Pod.                    *)

\* An instance for which reconcilePods does not reach the head Pod.
Held(c) == c.suspending \/ c.suspended \/ c.suspend

\* The inductive invariant.  A fresh instance is the stored one; once
\* Suspending is stored the cached instance, and one that a reconcile still
\* works on, say suspend at least.  It rests on this: Suspending is stored by
\* a reconcile whose instance says suspend and is still the latest.
SuspendInv ==
    /\ crFresh => crCache = cr
    /\ instFresh => crFresh /\ inst = cr
    /\ cr.suspending \/ cr.suspended =>
        /\ Held(crCache)
        /\ pc \in {"pods", "head", "workers", "group"} => Held(inst)
    /\ pc \in {"head", "workers", "group"} => ~Held(inst)
    /\ SuspendedConditions

\* It holds initially.
LEMMA SuspendInit == Init => SuspendInv
BY Zenon DEF Init, SuspendInv, SuspendedConditions

\* What calculateStatus makes of the conditions of an instance.
LEMMA calculateStatusConditions ==
    ASSUME TypeOK, NEW c \in RayCluster, NEW d, d = calculateStatus(c),
           c.suspended => ~c.suspending /\ ~c.provisioned
    PROVE  /\ d.suspended => ~d.suspending /\ ~d.provisioned
           /\ d.suspending \/ d.suspended => Held(c)
<1> DEFINE Kept == [c EXCEPT !.provisioned = Provisioned(c)]
<1>1. CASE c.suspending /\ Listed(Pods) = {}
  <2>1. d = [[c EXCEPT !.provisioned = FALSE, !.suspending = FALSE,
                       !.suspended = TRUE] EXCEPT !.state = State(c)]
    BY <1>1 DEF calculateStatus
  <2> QED BY <1>1, <2>1, Zenon DEF RayCluster, Held
<1>2. CASE c.suspending /\ Listed(Pods) # {}
  <2>1. d = [Kept EXCEPT !.state = State(c)]
    BY <1>2, Zenon DEF calculateStatus
  <2> QED BY <1>2, <2>1, Zenon DEF RayCluster, Held
<1>3. CASE ~c.suspending /\ c.suspended
  <2>1. d = [[c EXCEPT !.provisioned = Provisioned(c),
                       !.suspended = c.suspend] EXCEPT !.state = State(c)]
    BY <1>3 DEF calculateStatus
  <2>2. Provisioned(c) = FALSE
    BY <1>3, Zenon DEF Provisioned, RayCluster
  <2> QED BY <1>3, <2>1, <2>2, Zenon DEF RayCluster, Held
<1>4. CASE ~c.suspending /\ ~c.suspended
  <2>1. d = [[c EXCEPT !.provisioned = Provisioned(c),
                       !.suspending = c.suspend] EXCEPT !.state = State(c)]
    BY <1>4 DEF calculateStatus
  <2> QED BY <1>4, <2>1, Zenon DEF RayCluster, Held
<1> QED BY <1>1, <1>2, <1>3, <1>4, Zenon

\* Only createHeadPod and createWorkerPod (in ScaleGroupUp) create Pods.
LEMMA OnlyTheseCreate ==
    ASSUME TypeOK, [Next]_vars, NEW p \in Pods, Created(p),
           ~createHeadPod, ~ScaleGroupUp
    PROVE  FALSE
<1> USE DEF store, crs, local, budget
<1>1. ASSUME NEW D, pods' = PodsAfter({}, D) PROVE FALSE
  BY <1>1 DEF PodsAfter, Created
<1>2. ASSUME NEW S, pods' = deleteAllPods(S) PROVE FALSE
  BY <1>1, <1>2 DEF deleteAllPods, Created
<1>3. pods' # pods
  BY DEF Created
<1>4. ASSUME NEW q \in Pods, NEW x, pods[q] # NoPod,
             pods' = [pods EXCEPT ![q] = x]
      PROVE  FALSE
  BY <1>4 DEF Created, TypeOK
<1>5. CASE UNCHANGED vars
  BY <1>3, <1>5 DEF vars
<1>6. CASE Begin \/ updateRayClusterStatus \/ StatusNotUpdated
  BY <1>3, <1>6, Zenon DEF Begin, updateRayClusterStatus, StatusNotUpdated
<1>7. CASE ReconcilePods
  <2>1. CASE \/ ReconcileFuncFails \/ SkipPodsOfSuspended \/ ListHeads
             \/ HeadNotSatisfied \/ KeepHead \/ SkipHead \/ TooManyHeads
             \/ CreateHeadFails \/ GroupNotSatisfied \/ GroupSatisfied
             \/ WorkersDone \/ DeleteGroupFails
    BY <1>3, <2>1, Zenon DEF ReconcileFuncFails, SkipPodsOfSuspended, ListHeads,
       HeadNotSatisfied, KeepHead, SkipHead, TooManyHeads, CreateHeadFails,
       GroupNotSatisfied, GroupSatisfied, WorkersDone, DeleteGroupFails
  <2>2. CASE DeletePodsOfSuspending \/ RecreatePods \/ DeletePodsOfSuspendedGroup
    BY <1>2, <2>2, Zenon DEF DeletePodsOfSuspending, RecreatePods,
       DeletePodsOfSuspendedGroup
  <2>3. CASE \/ DeleteHead \/ DeleteUnhealthyWorkers \/ WorkersToDeleteFails
             \/ KeepGroup \/ ScaleGroupDown
    BY <1>1, <2>3, Zenon DEF DeleteHead, DeleteUnhealthyWorkers,
       WorkersToDeleteFails, KeepGroup, ScaleGroupDown
  <2> QED BY <1>7, <2>1, <2>2, <2>3 DEF ReconcilePods
<1>8. CASE Informers
  BY <1>3, <1>8, Zenon DEF Informers, SyncPods, SyncRayCluster, ExpectationTimeout
<1>9. CASE Environment
  <2>1. CASE OperatorRestarts \/ EditRayCluster
    BY <1>3, <2>1 DEF OperatorRestarts, EditRayCluster
  <2>2. ASSUME NEW q \in Pods, PodRuns(q) \/ PodGone(q) PROVE FALSE
    BY <1>4, <2>2 DEF PodRuns, PodGone
  <2>3. CASE PodFails \/ PodEvicted
    BY <1>4, <2>3 DEF PodFails, PodEvicted
  <2> QED BY <1>9, <2>1, <2>2, <2>3 DEF Environment
<1> QED BY <1>5, <1>6, <1>7, <1>8, <1>9 DEF Next, Reconcile

\* A step that leaves the instances alone preserves SuspendInv, if it gets
\* past the suspension only from a part of reconcilePods that did.
LEMMA InstancesKept ==
    ASSUME SuspendInv, UNCHANGED <<crs, inst, instFresh>>,
           \/ pc' \in {pc, "idle", "status"}
           \/ /\ pc' \in {"head", "workers", "group"} /\ ~Held(inst)
              /\ pc \in {"pods", "head", "workers", "group"}
    PROVE  SuspendInv'
BY Zenon DEF SuspendInv, SuspendedConditions, Held, crs

\* Every step preserves SuspendInv.
LEMMA SuspendStep ==
    ASSUME TypeOK, SuspendInv, [Next]_vars
    PROVE  SuspendInv'
<1> USE DEF store, crs, local, budget
<1>1. CASE UNCHANGED vars
  BY <1>1, InstancesKept DEF vars
<1>2. CASE Begin
  BY <1>2, Zenon DEF Begin, SuspendInv, SuspendedConditions, Held
<1>3. CASE ReconcilePods
  <2>1. CASE \/ ReconcileFuncFails \/ DeletePodsOfSuspending
             \/ SkipPodsOfSuspended \/ RecreatePods \/ WorkersDone
             \/ GroupNotSatisfied
    BY <2>1, InstancesKept, Zenon DEF ReconcileFuncFails, DeletePodsOfSuspending,
       SkipPodsOfSuspended, RecreatePods, WorkersDone, GroupNotSatisfied
  <2>2. CASE ListHeads
    BY <2>2, InstancesKept DEF ListHeads, NotSuspending, Held
  <2>3. CASE \/ HeadNotSatisfied \/ KeepHead \/ DeleteHead \/ SkipHead
             \/ TooManyHeads \/ createHeadPod \/ CreateHeadFails
    <3>1. /\ pc = "head" /\ pc' \in {"workers", "status"}
          /\ UNCHANGED <<crs, inst, instFresh>>
      BY <2>3, Zenon DEF HeadNotSatisfied, KeepHead, DeleteHead, SkipHead,
         TooManyHeads, createHeadPod, CreateHeadFails, HeadEnds,
         HeadSatisfied, MayCreateHead
    <3> QED BY <3>1, InstancesKept, Zenon DEF SuspendInv
  <2>4. CASE GroupSatisfied
    BY <2>4, InstancesKept, Zenon DEF GroupSatisfied, SuspendInv
  <2>5. CASE \/ DeletePodsOfSuspendedGroup \/ DeleteGroupFails
             \/ DeleteUnhealthyWorkers \/ WorkersToDeleteFails
             \/ ScaleGroupUp \/ KeepGroup \/ ScaleGroupDown
    <3>1. /\ pc = "group" /\ pc' \in {"workers", "status"}
          /\ UNCHANGED <<crs, inst, instFresh>>
      BY <2>5, Zenon DEF DeletePodsOfSuspendedGroup, DeleteGroupFails,
         DeleteUnhealthyWorkers, WorkersToDeleteFails, ScaleGroupUp,
         KeepGroup, ScaleGroupDown, GroupEnds, NoneUnhealthy
    <3> QED BY <3>1, InstancesKept, Zenon DEF SuspendInv
  <2> QED BY <1>3, <2>1, <2>2, <2>3, <2>4, <2>5 DEF ReconcilePods
<1>4. CASE updateRayClusterStatus
  <2>1. /\ inst = cr /\ crCache = cr /\ cr' = calculateStatus(inst)
        /\ inst \in RayCluster
        /\ inst.suspended => ~inst.suspending /\ ~inst.provisioned
    BY <1>4, Zenon DEF updateRayClusterStatus, SuspendInv, SuspendedConditions, TypeOK
  <2>2. /\ cr'.suspended => ~cr'.suspending /\ ~cr'.provisioned
        /\ cr'.suspending \/ cr'.suspended => Held(inst)
    BY <2>1, calculateStatusConditions
  <2>3. /\ crFresh' = FALSE /\ instFresh' = FALSE /\ pc' = "idle"
        /\ crCache' = inst
    BY <1>4, <2>1 DEF updateRayClusterStatus
  <2> QED BY <2>2, <2>3, Zenon DEF SuspendInv, SuspendedConditions, Held
<1>5. CASE StatusNotUpdated
  BY <1>5, InstancesKept DEF StatusNotUpdated
<1>6. CASE Informers
  <2>1. CASE SyncRayCluster
    BY <2>1, Zenon DEF SyncRayCluster, SuspendInv, SuspendedConditions, Held
  <2>2. CASE ~SyncRayCluster
    BY <1>6, <2>2, InstancesKept, Zenon DEF Informers, SyncPods, ExpectationTimeout
  <2> QED BY <2>1, <2>2
<1>7. CASE Environment
  <2>1. CASE OperatorRestarts
    BY <2>1, Zenon DEF OperatorRestarts, SuspendInv, SuspendedConditions, Held
  <2>2. CASE EditRayCluster
    <3>1. PICK kind \in EditKinds : cr' \in Edited(kind)
      BY <2>2 DEF EditRayCluster
    <3>2. /\ cr'.suspending = cr.suspending /\ cr'.suspended = cr.suspended
          /\ cr'.provisioned = cr.provisioned
      BY <3>1, EditedType
    <3> QED BY <2>2, <3>2, Zenon
            DEF EditRayCluster, SuspendInv, SuspendedConditions, Held
  <2>3. CASE ~OperatorRestarts /\ ~EditRayCluster
    BY <1>7, <2>3, InstancesKept
       DEF Environment, PodRuns, PodGone, PodFails, PodEvicted
  <2> QED BY <2>1, <2>2, <2>3
<1> QED BY <1>1, <1>2, <1>3, <1>4, <1>5, <1>6, <1>7 DEF Next, Reconcile

\* Suspended never comes with Suspending or Provisioned, whatever the order in
\* which the user, the reconciler and the informer move.
THEOREM SuspendedConditionsAlways == Spec => []SuspendedConditions
<1>1. SuspendInv => SuspendedConditions
  BY DEF SuspendInv
<1> QED BY TypeCorrect, SuspendInit, SuspendStep, <1>1, PTL DEF Spec

\* While Suspending or Suspended is stored no reconcile creates a Pod.
THEOREM NothingCreatedWhileSuspended == Spec => NoPodCreatedWhileSuspended
<1>1. ASSUME TypeOK, SuspendInv, [Next]_vars
      PROVE  [\A p \in Pods : Created(p) =>
                    ~cr.suspending /\ ~cr.suspended]_vars
  <2> SUFFICES ASSUME NEW p \in Pods, Created(p)
               PROVE  ~cr.suspending /\ ~cr.suspended
    OBVIOUS
  <2>1. createHeadPod \/ ScaleGroupUp
    BY <1>1, OnlyTheseCreate
  <2>2. pc \in {"head", "group"}
    BY <2>1, Zenon DEF createHeadPod, MayCreateHead, HeadSatisfied, ScaleGroupUp,
       NoneUnhealthy
  <2> QED BY <1>1, <2>2 DEF SuspendInv
<1> QED BY TypeCorrect, SuspendInit, SuspendStep, <1>1, PTL
        DEF Spec, NoPodCreatedWhileSuspended

=============================================================================
