--------------------------- MODULE RayClusterPods ---------------------------
(***************************************************************************)
(* The pods of one RayCluster: the API server's copy of them, the          *)
(* operator's informer cache that lags behind it, the in-memory scale      *)
(* expectations that bridge the lag, and RayClusterReconciler.Reconcile,   *)
(* whose reads come from the cache and whose writes go to the API server.  *)
(*                                                                         *)
(* One reconcile is several actions, cut where the code reads something    *)
(* that it uses after another read: the instance (Begin), the head Pods    *)
(* (ListHeads), the expectations of the head and of each worker group, the *)
(* Pods of a group, and the Pods the status is computed from.              *)
(***************************************************************************)
EXTENDS Integers, FiniteSets

CONSTANTS
    HeadGroup,              \* expectations.HeadGroup
    WorkerGroups,           \* names of spec.workerGroupSpecs
    Pods,                   \* Pod names
    GroupOf,                \* the group a name belongs to (its prefix)
    NoPod,                  \* what a Get of a name without object returns
    Templates,              \* what else a spec holds: the pod templates
    ReplicaCounts,          \* the replicas a spec may ask for
    MinReplicas,            \* minReplicas of every worker group
    MaxReplicas,            \* maxReplicas of every worker group
    DeterministicHeadName,  \* ENABLE_DETERMINISTIC_HEAD_POD_NAME
    RandomPodDelete,        \* no autoscaler, or ENABLE_RANDOM_POD_DELETE
    SkipHeadRestart,        \* ray.io/disable-provisioned-head-restart
    Recreate,               \* spec.upgradeStrategy.type = Recreate
    SlowInformer,           \* the Pod informer may lag > ExpectationsTimeout
    AnyOrder,               \* the informer may show changes out of order
    APIErrors,              \* a request to the API server may fail
    EditKinds,              \* the spec fields a user edits
    FaultKinds,             \* the disturbances that happen
    MaxEdits,               \* bound on the number of edits
    MaxFaults               \* bound on the number of disturbances

Groups == WorkerGroups \cup {HeadGroup}
Phases == {"Pending", "Running", "Failed"}
Actions == {"none", "create", "expired", "delete"}
EditKind == {"replicas", "suspend", "groupSuspend", "toDelete", "template"}
FaultKind == {"fail", "evict", "restart"}
Flags == {DeterministicHeadName, RandomPodDelete, SkipHeadRestart, Recreate,
          SlowInformer, AnyOrder, APIErrors}

\* The configuration is a possible one: finitely many names, each of one
\* group, and minReplicas <= maxReplicas, which validation.go enforces.
ASSUME ConfigAssumption ==
    /\ IsFiniteSet(Pods) /\ IsFiniteSet(WorkerGroups)
    /\ HeadGroup \notin WorkerGroups
    /\ GroupOf \in [Pods -> Groups]
    /\ MinReplicas \in Nat /\ MaxReplicas \in Nat
    /\ MinReplicas <= MaxReplicas /\ ReplicaCounts \subseteq Nat
    /\ Flags \subseteq BOOLEAN
    /\ EditKinds \subseteq EditKind /\ FaultKinds \subseteq FaultKind
    /\ MaxEdits \in Nat /\ MaxFaults \in Nat

\* hash is that of the spec a Pod was made from; the code keeps it, as an
\* annotation, on the head Pod only and reads it there.
Hashes == Templates \X [WorkerGroups -> BOOLEAN]
PodObject == [phase : Phases, deleting : BOOLEAN, hash : Hashes]

\* A Pod that does not exist is told apart from every Pod object.
ASSUME NoPodAssumption == NoPod \notin PodObject

VARIABLES
    pods,           \* the API server: name -> Pod object or NoPod
    cache,          \* the informer's copy of pods
    expectations,   \* name -> pending ScaleAction
    cr,             \* the RayCluster in the API server: spec and status
    crCache,        \* the informer's copy of cr
    crFresh,        \* crCache carries cr's resourceVersion
    pc,             \* where the reconcile is
    inst,           \* the instance this reconcile read
    instFresh,      \* inst carries cr's resourceVersion
    headList,       \* the head Pods this reconcile listed
    headBad,        \* those of them that shouldDeletePod selects
    todo,           \* worker groups left to this reconcile
    group,          \* the worker group at hand
    reconcileErr,   \* some reconcile function returned an error
    edits, faults   \* edits and disturbances so far

store == <<pods, cache, expectations>>
crs == <<cr, crCache, crFresh>>
local == <<inst, instFresh, headList, headBad, todo, group, reconcileErr>>
budget == <<edits, faults>>
vars == <<store, crs, pc, local, budget>>

RayCluster ==
    [suspend : BOOLEAN, replicas : [WorkerGroups -> ReplicaCounts],
     groupSuspend : [WorkerGroups -> BOOLEAN], toDelete : SUBSET Pods,
     template : Templates, suspending : BOOLEAN, suspended : BOOLEAN,
     provisioned : BOOLEAN, state : {"", "ready", "suspended"}]

TypeOK ==
    /\ pods \in [Pods -> PodObject \cup {NoPod}]
    /\ cache \in [Pods -> PodObject \cup {NoPod}]
    /\ expectations \in [Pods -> Actions]
    /\ cr \in RayCluster /\ crCache \in RayCluster /\ inst \in RayCluster
    /\ crFresh \in BOOLEAN /\ instFresh \in BOOLEAN
    /\ pc \in {"idle", "pods", "head", "workers", "group", "status"}
    /\ headList \subseteq Pods /\ headBad \subseteq headList
    /\ todo \subseteq WorkerGroups /\ group \in Groups
    /\ reconcileErr \in BOOLEAN
    /\ edits \in 0..MaxEdits /\ faults \in 0..MaxFaults

-----------------------------------------------------------------------------
(* Reading the stores.                                                      *)

PodsOf(g) == {p \in Pods : GroupOf[p] = g}

\* What r.List returns for the Pods of S: the cached ones.
Listed(S) == {p \in S : cache[p] # NoPod}

\* The Pods of S that exist and are not being deleted.
Active(S) == {p \in S : pods[p] # NoPod /\ ~pods[p].deleting}

shouldDeletePod(pod) == pod.phase = "Failed"

\* Slip: the list is not restricted to the group.
Unhealthy_OfAnyGroup(g) == {p \in Listed(Pods) : shouldDeletePod(cache[p])}

Unhealthy(g) == {p \in Listed(PodsOf(g)) : shouldDeletePod(cache[p])}

\* Slip: replicas above maxReplicas are taken as they are.
GetWorkerGroupDesiredReplicas_NoMax(c, g) ==
    IF c.groupSuspend[g] THEN 0
    ELSE IF c.replicas[g] < MinReplicas THEN MinReplicas ELSE c.replicas[g]

GetWorkerGroupDesiredReplicas(c, g) ==
    IF c.groupSuspend[g] THEN 0
    ELSE IF c.replicas[g] < MinReplicas THEN MinReplicas
    ELSE IF c.replicas[g] > MaxReplicas THEN MaxReplicas
    ELSE c.replicas[g]

CalculateDesiredReplicas(c) ==
    Cardinality({gi \in WorkerGroups \X (1..MaxReplicas) :
                    gi[2] <= GetWorkerGroupDesiredReplicas(c, gi[1])})

\* Of the fields that change here, the hash leaves out replicas and
\* workersToDelete.  suspend is in it too, and is FALSE whenever it is taken.
GenerateHashWithoutReplicasAndWorkersToDelete(c) ==
    <<c.template, c.groupSuspend>>

CheckAllPodsRunning ==
    /\ Listed(Pods) # {}
    /\ \A p \in Listed(Pods) : cache[p].phase = "Running"

-----------------------------------------------------------------------------
(* Writing them.  A name is only given to a new Pod when nothing remembers  *)
(* it, which is what the random suffix of generateName amounts to.          *)

Fresh(p) ==
    /\ pods[p] = NoPod /\ cache[p] = NoPod /\ expectations[p] = "none"
    /\ p \notin cr.toDelete \cup crCache.toDelete \cup inst.toDelete

NewPod ==
    [phase |-> "Pending", deleting |-> FALSE,
     hash |-> GenerateHashWithoutReplicasAndWorkersToDelete(inst)]

\* The API server's Pods when those of C have been created and those of D
\* deleted.  Delete sets the deletionTimestamp; the object goes later.
PodsAfter(C, D) ==
    [p \in Pods |-> IF p \in C THEN NewPod
                    ELSE IF p \in D /\ pods[p] # NoPod
                    THEN [pods[p] EXCEPT !.deleting = TRUE] ELSE pods[p]]

\* DeleteAllOf selects by label in the API server, but runs only when the
\* cache shows a Pod that is not being deleted yet.
deleteAllPods(S) ==
    IF \E p \in Listed(S) : ~cache[p].deleting THEN PodsAfter({}, S) ELSE pods

-----------------------------------------------------------------------------
(* Scale expectations.                                                      *)

\* Slip: a creation counts as seen at once.
isPodScaled_CreateAtOnce(p) ==
    expectations[p] = "delete" => cache[p] = NoPod

isPodScaled(p) ==
    \/ expectations[p] \in {"none", "expired"}
    \/ expectations[p] = "create" /\ cache[p] # NoPod
    \/ expectations[p] = "delete" /\ cache[p] = NoPod

IsSatisfied(g) == \A p \in PodsOf(g) : isPodScaled(p)

\* The expectations left when IsSatisfied has dropped those of S.
Dropped(S) == [p \in Pods |-> IF p \in S THEN "none" ELSE expectations[p]]

\* Slip: all items of the group are dropped, scaled or not.
IsNotSatisfied_DropsAll(g) ==
    ~IsSatisfied(g) /\ expectations' = Dropped(PodsOf(g))

\* IsSatisfied stops at the first item that is not scaled, and the order of
\* the items is arbitrary: any of the scaled ones may have been dropped.
IsNotSatisfied(g) ==
    /\ ~IsSatisfied(g)
    /\ \E S \in SUBSET {p \in PodsOf(g) : isPodScaled(p)} :
            expectations' = Dropped(S)

\* Slips: deletions, or creations, are not expected.
ExpectScalePods_NoDelete(exp, C, D) ==
    [p \in Pods |-> IF p \in C THEN "create" ELSE exp[p]]

ExpectScalePods_NoCreate(exp, C, D) ==
    [p \in Pods |-> IF p \in D THEN "delete" ELSE exp[p]]

\* ExpectScalePod for the creation of each of C and the deletion of each of D.
ExpectScalePods(exp, C, D) ==
    [p \in Pods |-> IF p \in C THEN "create"
                    ELSE IF p \in D THEN "delete" ELSE exp[p]]

-----------------------------------------------------------------------------
(* Reconcile: reading the instance, and the ways reconcilePods ends early.  *)

Init ==
    /\ pods = [p \in Pods |-> NoPod] /\ cache = pods
    /\ expectations = [p \in Pods |-> "none"]
    /\ cr \in {c \in RayCluster :
                /\ ~c.suspending /\ ~c.suspended /\ ~c.provisioned
                /\ c.state = "" /\ c.toDelete = {} /\ ~c.suspend
                /\ \A g \in WorkerGroups : ~c.groupSuspend[g]}
    /\ crCache = cr /\ crFresh = TRUE
    /\ pc = "idle" /\ inst = cr /\ instFresh = TRUE
    /\ headList = {} /\ headBad = {} /\ todo = {} /\ group = HeadGroup
    /\ reconcileErr = FALSE
    /\ edits = 0 /\ faults = 0

Begin ==
    /\ pc = "idle"
    /\ inst' = crCache /\ instFresh' = crFresh
    /\ pc' = "pods"
    /\ UNCHANGED <<store, crs, headList, headBad, todo, group, reconcileErr,
                   budget>>

\* A reconcile function before reconcilePods fails, or a request at the
\* start of reconcilePods does: the loop breaks.
ReconcileFuncFails ==
    /\ pc = "pods" /\ APIErrors
    /\ pc' = "status" /\ reconcileErr' = TRUE
    /\ UNCHANGED <<store, crs, inst, instFresh, headList, headBad, todo,
                   group, budget>>

\* Slip: a suspension is dropped when the user resumes meanwhile.
DeletePodsOfSuspending_IfStillWanted ==
    /\ pc = "pods" /\ inst.suspending
    /\ pods' = IF inst.suspend THEN deleteAllPods(Pods) ELSE pods
    /\ pc' = "status"
    /\ UNCHANGED <<cache, expectations, crs, local, budget>>

DeletePodsOfSuspending ==
    /\ pc = "pods" /\ inst.suspending
    /\ pods' = deleteAllPods(Pods)
    /\ pc' = "status"
    /\ UNCHANGED <<cache, expectations, crs, local, budget>>

SkipPodsOfSuspended ==
    /\ pc = "pods" /\ ~inst.suspending
    /\ inst.suspended \/ inst.suspend
    /\ pc' = "status"
    /\ UNCHANGED <<store, crs, local, budget>>

NotSuspending == ~inst.suspending /\ ~inst.suspended /\ ~inst.suspend

\* Slip: only the head Pods are deleted.
RecreatePods_HeadsOnly ==
    /\ pc = "pods" /\ NotSuspending
    /\ Recreate
    /\ \E p \in Listed(PodsOf(HeadGroup)) :
            cache[p].hash # GenerateHashWithoutReplicasAndWorkersToDelete(inst)
    /\ pods' = deleteAllPods(PodsOf(HeadGroup))
    /\ expectations' = Dropped(Pods)
    /\ pc' = "status"
    /\ UNCHANGED <<cache, crs, local, budget>>

\* shouldRecreatePodsForUpgrade looks at the first head Pod of the list.
RecreatePods ==
    /\ pc = "pods" /\ NotSuspending
    /\ Recreate
    /\ \E p \in Listed(PodsOf(HeadGroup)) :
            cache[p].hash # GenerateHashWithoutReplicasAndWorkersToDelete(inst)
    /\ pods' = deleteAllPods(Pods)
    /\ expectations' = Dropped(Pods)
    /\ pc' = "status"
    /\ UNCHANGED <<cache, crs, local, budget>>

ListHeads ==
    /\ pc = "pods" /\ NotSuspending
    /\ \/ ~Recreate
       \/ Listed(PodsOf(HeadGroup)) = {}
       \/ \E p \in Listed(PodsOf(HeadGroup)) :
            cache[p].hash = GenerateHashWithoutReplicasAndWorkersToDelete(inst)
    /\ headList' = Listed(PodsOf(HeadGroup))
    /\ headBad' = Unhealthy(HeadGroup)
    /\ pc' = "head"
    /\ UNCHANGED <<store, crs, inst, instFresh, todo, group, reconcileErr,
                   budget>>

-----------------------------------------------------------------------------
(* reconcilePods: the head Pod.  headList may be older than the cache that  *)
(* IsSatisfied reads.                                                       *)

\* The head part goes on to the worker groups, or returns early.
HeadEnds(next, err) ==
    /\ pc' = next /\ reconcileErr' = err
    /\ todo' = IF next = "workers" THEN WorkerGroups ELSE {}
    /\ headList' = {} /\ headBad' = {}
    /\ UNCHANGED <<cache, crs, inst, instFresh, group, budget>>

HeadNotSatisfied ==
    /\ pc = "head" /\ IsNotSatisfied(HeadGroup)
    /\ UNCHANGED pods
    /\ HeadEnds("workers", FALSE)

HeadSatisfied == pc = "head" /\ IsSatisfied(HeadGroup)

KeepHead ==
    /\ HeadSatisfied
    /\ Cardinality(headList) = 1 /\ headBad = {}
    /\ expectations' = Dropped(PodsOf(HeadGroup)) /\ UNCHANGED pods
    /\ HeadEnds("workers", FALSE)

\* Delete of a Pod that is gone already is an error here, NotFound included.
DeleteHead ==
    /\ HeadSatisfied
    /\ Cardinality(headList) = 1 /\ headBad # {}
    /\ \E D \in {{}, headBad} :
        /\ D = {} => APIErrors \/ \E p \in headBad : pods[p] = NoPod
        /\ \A p \in D : pods[p] # NoPod
        /\ pods' = PodsAfter({}, D)
        /\ expectations' =
                ExpectScalePods(Dropped(PodsOf(HeadGroup)), {}, D)
    /\ HeadEnds("status", TRUE)

SkipHead ==
    /\ HeadSatisfied
    /\ headList = {} /\ inst.provisioned /\ SkipHeadRestart
    /\ expectations' = Dropped(PodsOf(HeadGroup)) /\ UNCHANGED pods
    /\ HeadEnds("status", FALSE)

TooManyHeads ==
    /\ HeadSatisfied
    /\ Cardinality(headList) > 1
    /\ expectations' = Dropped(PodsOf(HeadGroup)) /\ UNCHANGED pods
    /\ HeadEnds("status", TRUE)

MayCreateHead ==
    HeadSatisfied /\ headList = {} /\ ~(inst.provisioned /\ SkipHeadRestart)

\* With a deterministic name the API server refuses a second head Pod.
HeadNames ==
    {p \in PodsOf(HeadGroup) :
        IF DeterministicHeadName THEN pods[p] = NoPod ELSE Fresh(p)}

createHeadPod ==
    /\ MayCreateHead
    /\ \E p \in HeadNames :
        /\ pods' = PodsAfter({p}, {})
        /\ expectations' =
                ExpectScalePods(Dropped(PodsOf(HeadGroup)), {p}, {})
    /\ HeadEnds("workers", FALSE)

\* Create fails: AlreadyExists, a quota (which is also how a model with few
\* names ends), or any other API error.
CreateHeadFails ==
    /\ MayCreateHead
    /\ APIErrors \/ HeadNames = {}
    /\ expectations' = Dropped(PodsOf(HeadGroup)) /\ UNCHANGED pods
    /\ HeadEnds("status", TRUE)

-----------------------------------------------------------------------------
(* reconcilePods: the worker groups.                                        *)

GroupNotSatisfied ==
    /\ pc = "workers"
    /\ \E g \in todo : IsNotSatisfied(g) /\ todo' = todo \ {g}
    /\ UNCHANGED <<pods, cache, crs, pc, inst, instFresh, headList, headBad,
                   group, reconcileErr, budget>>

GroupSatisfied ==
    /\ pc = "workers"
    /\ \E g \in todo :
        /\ IsSatisfied(g)
        /\ expectations' = Dropped(PodsOf(g))
        /\ group' = g /\ todo' = todo \ {g}
    /\ pc' = "group"
    /\ UNCHANGED <<pods, cache, crs, inst, instFresh, headList, headBad,
                   reconcileErr, budget>>

WorkersDone ==
    /\ pc = "workers" /\ todo = {}
    /\ pc' = "status"
    /\ UNCHANGED <<store, crs, local, budget>>

\* A group's part goes on to the next group, or returns an error.
GroupEnds(err) ==
    /\ pc' = IF err THEN "status" ELSE "workers"
    /\ reconcileErr' = err
    /\ todo' = IF err THEN {} ELSE todo
    /\ group' = HeadGroup
    /\ UNCHANGED <<cache, crs, inst, instFresh, headList, headBad, budget>>

DeletePodsOfSuspendedGroup ==
    /\ pc = "group" /\ inst.groupSuspend[group]
    /\ pods' = deleteAllPods(PodsOf(group))
    /\ UNCHANGED expectations
    /\ GroupEnds(FALSE)

DeleteGroupFails ==
    /\ pc = "group" /\ inst.groupSuspend[group] /\ APIErrors
    /\ UNCHANGED <<pods, expectations>>
    /\ GroupEnds(TRUE)

\* Every unhealthy Pod is deleted, up to the first Delete that fails, as it
\* does for a Pod that is gone already.  Both ways the reconcile ends here.
DeleteUnhealthyWorkers ==
    /\ pc = "group" /\ ~inst.groupSuspend[group]
    /\ Unhealthy(group) # {}
    /\ \E D \in SUBSET {p \in Unhealthy(group) : pods[p] # NoPod} :
        /\ \/ D = Unhealthy(group)
           \/ APIErrors
           \/ \E p \in Unhealthy(group) : pods[p] = NoPod
        /\ pods' = PodsAfter({}, D)
        /\ expectations' = ExpectScalePods(expectations, {}, D)
    /\ GroupEnds(TRUE)

NoneUnhealthy ==
    /\ pc = "group" /\ ~inst.groupSuspend[group]
    /\ Unhealthy(group) = {}

\* The names of scaleStrategy.workersToDelete that the group is given, and
\* those of them whose Delete finds a Pod.
WorkersToDelete == inst.toDelete \cap PodsOf(group)
DeletedWorkers == {p \in WorkersToDelete : pods[p] # NoPod}

WorkersToDeleteFails ==
    /\ NoneUnhealthy /\ APIErrors
    /\ \E D \in SUBSET DeletedWorkers :
        /\ D # WorkersToDelete
        /\ pods' = PodsAfter({}, D)
        /\ expectations' = ExpectScalePods(expectations, {}, D)
    /\ GroupEnds(TRUE)

\* Pods that are being deleted, as far as the cache tells, count as running.
RunningPods == Listed(PodsOf(group)) \ DeletedWorkers
Diff == GetWorkerGroupDesiredReplicas(inst, group) - Cardinality(RunningPods)

ScaleGroupUp ==
    /\ NoneUnhealthy /\ Diff > 0
    /\ LET names == {p \in PodsOf(group) : Fresh(p)} IN
       \E C \in SUBSET names :
        /\ \/ Cardinality(C) = Diff /\ GroupEnds(FALSE)
           \/ /\ Cardinality(C) < Diff
              /\ APIErrors \/ C = names
              /\ GroupEnds(TRUE)
        /\ pods' = PodsAfter(C, DeletedWorkers)
        /\ expectations' = ExpectScalePods(expectations, C, DeletedWorkers)

KeepGroup ==
    /\ NoneUnhealthy
    /\ Diff = 0 \/ (Diff < 0 /\ ~RandomPodDelete)
    /\ pods' = PodsAfter({}, DeletedWorkers)
    /\ expectations' = ExpectScalePods(expectations, {}, DeletedWorkers)
    /\ GroupEnds(FALSE)

ScaleGroupDown ==
    /\ NoneUnhealthy
    /\ Diff < 0 /\ RandomPodDelete
    /\ \E D \in SUBSET RunningPods :
        /\ \/ Cardinality(D) = -Diff /\ GroupEnds(FALSE)
           \/ Cardinality(D) < -Diff /\ APIErrors /\ GroupEnds(TRUE)
        /\ pods' = PodsAfter({}, D \cup DeletedWorkers)
        /\ expectations' =
                ExpectScalePods(expectations, {}, D \cup DeletedWorkers)

-----------------------------------------------------------------------------
(* The status, computed from the cached Pods and written if inst is the     *)
(* latest version of the RayCluster; otherwise the update conflicts.        *)

Provisioned(c) ==
    IF c.provisioned \/ (c.suspended /\ ~c.suspending)
    THEN c.provisioned ELSE CheckAllPodsRunning

State(c) ==
    IF c.suspend /\ Listed(Pods) = {} THEN "suspended"
    ELSE IF /\ ~reconcileErr /\ CheckAllPodsRunning
            /\ Cardinality(Listed(Pods)) = CalculateDesiredReplicas(c) + 1
    THEN "ready" ELSE c.state

\* Slip: Suspended is set and Provisioned kept.
calculateStatus_KeepsProvisioned(c) ==
    [c EXCEPT !.suspending = IF c.suspending THEN Listed(Pods) # {}
                             ELSE ~c.suspended /\ c.suspend,
              !.suspended = IF c.suspending THEN Listed(Pods) = {}
                            ELSE c.suspended /\ c.suspend,
              !.provisioned = Provisioned(c), !.state = State(c)]

\* The conditions (and state) that calculateStatus gives the instance c.
calculateStatus(c) ==
    [(CASE c.suspending /\ Listed(Pods) = {} ->
            [c EXCEPT !.provisioned = FALSE, !.suspending = FALSE,
                      !.suspended = TRUE]
        [] c.suspending /\ Listed(Pods) # {} ->
            [c EXCEPT !.provisioned = Provisioned(c)]
        [] ~c.suspending /\ c.suspended ->
            [c EXCEPT !.provisioned = Provisioned(c), !.suspended = c.suspend]
        [] OTHER ->
            [c EXCEPT !.provisioned = Provisioned(c), !.suspending = c.suspend])
     EXCEPT !.state = State(c)]

\* Slip: the status is written without the resourceVersion that was read.
updateRayClusterStatus_NoConflict ==
    /\ pc = "status" /\ pc' = "idle"
    /\ Cardinality(Listed(PodsOf(HeadGroup))) <= 1
    /\ cr' = calculateStatus(inst) /\ crFresh' = FALSE /\ instFresh' = FALSE
    /\ reconcileErr' = FALSE
    /\ UNCHANGED <<store, crCache, inst, headList, headBad, todo, group,
                   budget>>

updateRayClusterStatus ==
    /\ pc = "status" /\ pc' = "idle"
    /\ Cardinality(Listed(PodsOf(HeadGroup))) <= 1
    /\ instFresh
    /\ cr' = calculateStatus(inst) /\ crFresh' = FALSE /\ instFresh' = FALSE
    /\ reconcileErr' = FALSE
    /\ UNCHANGED <<store, crCache, inst, headList, headBad, todo, group,
                   budget>>

\* No update: nothing differs, more than one head Pod is listed or another
\* part of the status cannot be computed, or the update fails.
StatusNotUpdated ==
    /\ pc = "status" /\ pc' = "idle"
    /\ \/ calculateStatus(inst) = inst
       \/ Cardinality(Listed(PodsOf(HeadGroup))) > 1
       \/ ~instFresh
       \/ APIErrors
    /\ reconcileErr' = FALSE
    /\ UNCHANGED <<store, crs, inst, instFresh, headList, headBad, todo, group,
                   budget>>

-----------------------------------------------------------------------------
(* Everything around the reconciler.                                        *)

\* The Pod informer catches up with the Pods of S: all of them, or (which
\* allows more than the order of its events does) any one.
SyncSets == IF AnyOrder THEN {{p} : p \in Pods} ELSE {Pods}

SyncPods(S) ==
    /\ \E p \in S : cache[p] # pods[p]
    /\ cache' = [p \in Pods |-> IF p \in S THEN pods[p] ELSE cache[p]]
    /\ UNCHANGED <<pods, expectations, crs, pc, local, budget>>

SyncRayCluster ==
    /\ ~crFresh
    /\ crCache' = cr /\ crFresh' = TRUE
    /\ UNCHANGED <<store, cr, pc, local, budget>>

\* Slip: expectations have no timeout.
ExpectationTimeout_Never(p) ==
    /\ expectations[p] = "expired" /\ cache[p] = NoPod
    /\ expectations' = [expectations EXCEPT ![p] = "none"]
    /\ UNCHANGED <<pods, cache, crs, pc, local, budget>>

\* ExpectationsTimeout passes.  Unless the informer is slow, a Pod that it
\* still does not show by then does not exist any more.
ExpectationTimeout(p) ==
    /\ expectations[p] = "create" /\ cache[p] = NoPod
    /\ SlowInformer \/ pods[p] = NoPod
    /\ expectations' = [expectations EXCEPT ![p] = "expired"]
    /\ UNCHANGED <<pods, cache, crs, pc, local, budget>>

PodRuns(p) ==
    /\ pods[p] # NoPod /\ pods[p].phase = "Pending"
    /\ pods' = [pods EXCEPT ![p].phase = "Running"]
    /\ UNCHANGED <<cache, expectations, crs, pc, local, budget>>

PodGone(p) ==
    /\ pods[p] # NoPod /\ pods[p].deleting
    /\ pods' = [pods EXCEPT ![p] = NoPod]
    /\ UNCHANGED <<cache, expectations, crs, pc, local, budget>>

Fault(kind) == kind \in FaultKinds /\ faults < MaxFaults /\ faults' = faults + 1

PodFails ==
    /\ Fault("fail")
    /\ \E p \in Pods :
        /\ pods[p] # NoPod /\ pods[p].phase # "Failed"
        /\ pods' = [pods EXCEPT ![p].phase = "Failed"]
    /\ UNCHANGED <<cache, expectations, crs, pc, local, edits>>

\* Someone else deletes a Pod: a user, a node drain.
PodEvicted ==
    /\ Fault("evict")
    /\ \E p \in Pods :
        /\ pods[p] # NoPod /\ ~pods[p].deleting
        /\ pods' = [pods EXCEPT ![p].deleting = TRUE]
    /\ UNCHANGED <<cache, expectations, crs, pc, local, edits>>

\* The operator restarts: expectations are lost, the caches are listed anew.
OperatorRestarts ==
    /\ Fault("restart")
    /\ cache' = pods /\ expectations' = [p \in Pods |-> "none"]
    /\ crCache' = cr /\ crFresh' = TRUE
    /\ pc' = "idle" /\ inst' = cr /\ instFresh' = TRUE
    /\ headList' = {} /\ headBad' = {} /\ todo' = {} /\ group' = HeadGroup
    /\ reconcileErr' = FALSE
    /\ UNCHANGED <<pods, cr, edits>>

\* A user (or the autoscaler, for replicas and workersToDelete) edits the spec.
Edited(kind) ==
    CASE kind = "replicas" ->
            {[cr EXCEPT !.replicas[g] = n] :
                g \in WorkerGroups, n \in ReplicaCounts}
      [] kind = "suspend" -> {[cr EXCEPT !.suspend = ~cr.suspend]}
      [] kind = "groupSuspend" ->
            {[cr EXCEPT !.groupSuspend[g] = ~cr.groupSuspend[g]] :
                g \in WorkerGroups}
      [] kind = "toDelete" ->
            {[cr EXCEPT !.toDelete = D] : D \in SUBSET
                {p \in Pods : GroupOf[p] # HeadGroup /\ pods[p] # NoPod}}
      [] kind = "template" -> {[cr EXCEPT !.template = t] : t \in Templates}

EditRayCluster ==
    /\ edits < MaxEdits /\ edits' = edits + 1
    /\ \E kind \in EditKinds : cr' \in Edited(kind) \ {cr}
    /\ crFresh' = FALSE /\ instFresh' = FALSE
    /\ UNCHANGED <<store, crCache, pc, inst, headList, headBad, todo, group,
                   reconcileErr, faults>>

-----------------------------------------------------------------------------

ReconcilePods ==
    \/ ReconcileFuncFails \/ DeletePodsOfSuspending \/ SkipPodsOfSuspended
    \/ RecreatePods \/ ListHeads
    \/ HeadNotSatisfied \/ KeepHead \/ DeleteHead \/ SkipHead \/ TooManyHeads
    \/ createHeadPod \/ CreateHeadFails
    \/ GroupNotSatisfied \/ GroupSatisfied \/ WorkersDone
    \/ DeletePodsOfSuspendedGroup \/ DeleteGroupFails
    \/ DeleteUnhealthyWorkers \/ WorkersToDeleteFails
    \/ ScaleGroupUp \/ KeepGroup \/ ScaleGroupDown

Reconcile ==
    Begin \/ ReconcilePods \/ updateRayClusterStatus \/ StatusNotUpdated

Informers ==
    \/ \E S \in SyncSets : SyncPods(S)
    \/ SyncRayCluster
    \/ \E p \in Pods : ExpectationTimeout(p)

Environment ==
    \/ \E p \in Pods : PodRuns(p) \/ PodGone(p)
    \/ PodFails \/ PodEvicted \/ OperatorRestarts
    \/ EditRayCluster

Next == Reconcile \/ Informers \/ Environment

Spec == Init /\ [][Next]_vars

\* The work queue keeps calling Reconcile (every reconcile is requeued), the
\* watches deliver, the clock advances, and the kubelet starts Pods and
\* removes those that are being deleted.
Fairness ==
    /\ WF_vars(Reconcile)
    /\ WF_vars(SyncRayCluster)
    /\ \A S \in SyncSets : WF_vars(SyncPods(S))
    /\ \A p \in Pods : WF_vars(ExpectationTimeout(p))
    /\ \A p \in Pods : WF_vars(PodRuns(p)) /\ WF_vars(PodGone(p))

FairSpec == Spec /\ Fairness

-----------------------------------------------------------------------------
(* Safety.                                                                  *)

Created(p) == pods[p] = NoPod /\ pods'[p] # NoPod
Unseen(p) == p \in Active({p}) /\ cache[p] = NoPod

\* Every Pod that runs and that the cache does not show is expected, so that
\* the part of reconcilePods it concerns waits: what the cache and the
\* expectations say together is never too little.  (Recreate forgets the
\* expectations, and a slow informer outlives them.)
UnseenPodsExpected ==
    ~SlowInformer /\ ~Recreate =>
        \A p \in Pods : Unseen(p) => expectations[p] = "create"

\* However the informer lags, requests fail, Pods vanish and the operator
\* restarts, a worker group never holds more running Pods than maxReplicas.
WorkersBounded ==
    ~SlowInformer /\ ~Recreate =>
        \A g \in WorkerGroups : Cardinality(Active(PodsOf(g))) <= MaxReplicas

\* reconcilePods lists the head Pods before it asks whether the head's
\* expectations are satisfied; the answer can be about a newer cache.  That
\* costs at most one head Pod too many.
AtMostTwoHeads ==
    ~SlowInformer /\ ~Recreate =>
        Cardinality(Active(PodsOf(HeadGroup))) <= 2

\* Why the two bounds hold.  When reconcilePods acts on a worker group it has
\* seen all the group's running Pods, whatever changes after IsSatisfied.
\* When it acts on the head Pod it may have missed one: an empty list was
\* taken while at most one head Pod was running, and at most one is unseen.
ActsOnWhatItSees ==
    ~SlowInformer /\ ~Recreate =>
        /\ pc = "group" => /\ group \in WorkerGroups
                           /\ \A p \in PodsOf(group) : ~Unseen(p)
        /\ Cardinality({p \in PodsOf(HeadGroup) : Unseen(p)}) <= 1
        /\ pc = "head" /\ headList = {} =>
                Cardinality(Active(PodsOf(HeadGroup))) <= 1

\* Suspended excludes Suspending, and a suspended RayCluster is not reported
\* as provisioned: whoever waits for the condition waits for its new Pods.
SuspendedConditions ==
    cr.suspended => ~cr.suspending /\ ~cr.provisioned

\* From the moment Suspending is persisted until Suspended is withdrawn, no
\* Pod is created, whatever spec.suspend says by then and however old the
\* instance is that a reconcile works on.
NoPodCreatedWhileSuspended ==
    [][\A p \in Pods : Created(p) =>
            ~cr.suspending /\ ~cr.suspended]_vars

\* While nothing else deletes Pods or loses the expectations, scaling a
\* group in never takes it below the number it is scaled to: a deletion that
\* the cache does not show yet is not repeated on another Pod.
ScaleInStopsAtDesired ==
    [][\A g \in WorkerGroups :
        (pc = "group" /\ group = g /\ FaultKinds = {}) =>
            \/ Cardinality(Active(PodsOf(g))') >=
                    GetWorkerGroupDesiredReplicas(inst, g)
            \/ Active(PodsOf(g)) \ inst.toDelete \subseteq
                    Active(PodsOf(g))']_vars

-----------------------------------------------------------------------------
(* Liveness, under FairSpec.                                                *)

\* Once the edits and the disturbances are over the Pods become, and stay,
\* what the spec asks for.
AsDesired ==
    /\ \A g \in WorkerGroups : Cardinality(Active(PodsOf(g))) =
            GetWorkerGroupDesiredReplicas(cr, g)
    /\ Cardinality(Active(PodsOf(HeadGroup))) = 1

ConvergesToDesired == <>[]AsDesired

\* A suspension that has begun ends with the RayCluster suspended, even if
\* the user resumes it meanwhile.
SuspensionCompletes == cr.suspending ~> cr.suspended

\* A template edit reaches every Pod: in the end all run the latest spec.  (Not
\* if the head Pod is lost: only that tells the spec the other Pods were made from.)
UpgradeCompletes ==
    <>[](faults > 0 \/ \A p \in Active(Pods) :
        pods[p].hash = GenerateHashWithoutReplicasAndWorkersToDelete(cr))

-----------------------------------------------------------------------------
(* What the repository says, and the run that expects a violation refutes.  *)

\* "A suspended RayCluster will have head pods and worker pods deleted": a
\* suspend that is not taken back is carried out.
SuspendIsHonoured == cr.suspend ~> (cr.suspended \/ ~cr.suspend)

=============================================================================
