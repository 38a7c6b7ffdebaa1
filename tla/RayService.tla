------------------------------ MODULE RayService ------------------------------
(***************************************************************************)
(* The RayService controller: it keeps a RayCluster serving, replaces it   *)
(* by a new one when the cluster spec changes (at once, or by moving       *)
(* capacity and traffic step by step), rolls such an upgrade back, suspends*)
(* and resumes, times out an initialization and deletes the RayClusters    *)
(* its status no longer names.                                             *)
(*                                                                         *)
(* rs is the RayService at the API server and cache the informer's copy;   *)
(* likewise clusters and clusterCache for the RayClusters, which are named *)
(* by the order of their creation (0 is no name).  A status is stored only *)
(* if it was computed from the latest object; otherwise it is a conflict   *)
(* and the key is reconciled again.                                        *)
(***************************************************************************)
EXTENDS RayServiceTraffic, FiniteSets

CONSTANTS Strategies,   \* the upgrade strategies of the instance
          Bases, First, \* the cluster specs a user may ask for, and the first of them
          MaxNames,     \* RayClusters ever named
          EditKinds,    \* what a user may do
          FaultKinds,   \* what may fail
          MaxEdits, MaxFaults, MaxUpsets,   \* how often, and both together
          Prompt        \* are the caches up to date when a reconcile starts?

Strategy == [type : {"None", "NewCluster", "NewClusterWithIncrementalUpgrade"},
             step : 0..1000, surge : 0..1000, timeout : BOOLEAN]

ASSUME RayServiceAssumption ==
    /\ Strategies \subseteq Strategy /\ Prompt \in BOOLEAN
    /\ First \in Bases
    /\ MaxNames \in Nat /\ MaxEdits \in Nat /\ MaxFaults \in Nat /\ MaxUpsets \in Nat

VARIABLES
    strategy,       \* spec.upgradeStrategy and the initializing-timeout annotation
    rs, cache,      \* the RayService
    clusters, clusterCache,
    serve,          \* what Ray Serve runs on each RayCluster
    configs,        \* ServeConfigs: the config last submitted to each, in memory
    marks,          \* RayClusterDeletionTimestamps, in memory
    headSvc, serveSvc,   \* the RayCluster each of the two Services selects
    gateway, route, \* the Gateway and the weights of the HTTPRoute
    queued,         \* the key is in the work queue or will be put there
    names, edits, faults

user == <<strategy, edits>>
traffic == <<headSvc, serveSvc, gateway, route>>
vars == <<strategy, rs, cache, clusters, clusterCache, serve, configs, marks,
          headSvc, serveSvc, gateway, route, queued, names, edits, faults>>

Names == 1..MaxNames

\* RayServiceStatus, of the active or the pending RayCluster; -1 is a nil pointer.
NoService == [name |-> 0, tc |-> -1, traffic |-> -1, recent |-> FALSE]
ServiceStatus == [name : 0..MaxNames, tc : Percent \cup {-1}, traffic : Percent \cup {-1},
                  recent : BOOLEAN]

\* RayServiceStatuses: the conditions by their reasons.  Expired is Initializing for
\* longer than the timeout.
Status == [active : ServiceStatus, pending : ServiceStatus,
           susp : {"no", "suspending", "suspended"},
           upgrade : {"none", "Initializing", "True", "False", "Unknown"},
           rollback : BOOLEAN,
           ready : {"none", "Initializing", "Expired", "True", "Zero", "Timeout",
                    "ValidationFailed", "Suspend"}]
NoStatus == [active |-> NoService, pending |-> NoService, susp |-> "no", upgrade |-> "none",
             rollback |-> FALSE, ready |-> "none"]

\* A cluster spec: groups is the number of worker groups appended to base.
Goal == [base : Bases, groups : 0..1]
Object == [exists : BOOLEAN, deleting : BOOLEAN, finalizer : BOOLEAN, goal : Goal,
           config : 1..2, suspend : BOOLEAN, st : Status]

\* head: has the RayCluster a head Pod, and is it ready?
Cluster == [exists : BOOLEAN, deleting : BOOLEAN, goal : Goal,
            head : {"none", "pod", "ready"}]
FirstGoal == [base |-> First, groups |-> 0]
NoCluster == [exists |-> FALSE, deleting |-> FALSE, goal |-> FirstGoal, head |-> "none"]

Serve == [apps : {"none", "deploying", "running"}, config : 0..2, tc : Percent]
NoServe == [apps |-> "none", config |-> 0, tc |-> 100]

Init ==
    /\ strategy \in Strategies
    /\ rs = [exists |-> TRUE, deleting |-> FALSE, finalizer |-> FALSE, goal |-> FirstGoal,
             config |-> 1, suspend |-> FALSE, st |-> NoStatus]
    /\ cache = rs
    /\ clusters = [n \in Names |-> NoCluster] /\ clusterCache = clusters
    /\ serve = [n \in Names |-> NoServe]
    /\ configs = [n \in Names |-> 0]
    /\ marks = [n \in Names |-> "none"]
    /\ headSvc = 0 /\ serveSvc = 0
    /\ gateway = "absent" /\ route = <<>>
    /\ queued = TRUE
    /\ names = 0 /\ edits = 0 /\ faults = 0

IsIncrementalUpgradeEnabled == strategy.type = "NewClusterWithIncrementalUpgrade"
validateRayService == IsIncrementalUpgradeEnabled => ValidateClusterUpgradeOptions(strategy)

Upsets == edits + faults < MaxUpsets
Fault(kind) == kind \in FaultKinds /\ faults < MaxFaults /\ Upsets /\ faults' = faults + 1
NoFault == UNCHANGED faults

------------------------------------------------------------------------------
\* Every reconcile begins with the cleanup of RayClusters and cached configs.

Named(st) == {st.active.name, st.pending.name}

\* Slip: the pending RayCluster is not spared.
Dangling_Pending ==
    {n \in Names : clusterCache[n].exists /\ (cache.deleting \/ n # cache.st.active.name)}

Dangling ==
    {n \in Names : clusterCache[n].exists /\ (cache.deleting \/ n \notin Named(cache.st))}
Expired == {n \in Dangling : cache.deleting \/ marks[n] = "due"}

\* The RayClusters after the deletions, or after those of some of them.
Deleted(cs, S) == [n \in Names |->
    IF n \in S /\ cs[n].exists THEN [cs[n] EXCEPT !.deleting = TRUE] ELSE cs[n]]
Marked == [n \in Names |->
    IF n \in Dangling \ Expired /\ marks[n] = "none" THEN "scheduled" ELSE marks[n]]
cleanUpServeConfigCache == [n \in Names |-> IF n \in Named(cache.st) THEN configs[n] ELSE 0]

UpToDate ==
    Prompt => /\ cache = rs
              /\ \A n \in Names : clusters[n].exists => clusterCache[n].exists

Takes == queued /\ UpToDate

\* Reconcile gets past the cleanup.
cleanUpRayClusterInstance ==
    /\ Takes /\ cache.exists
    /\ \A n \in Expired : clusters[n].exists
    /\ marks' = Marked

NotFound ==
    /\ Takes /\ ~cache.exists
    /\ queued' = FALSE
    /\ UNCHANGED <<user, traffic, rs, cache, clusters, clusterCache, serve, configs, marks,
                   names, faults>>

\* A RayCluster the cache still shows is gone: Delete fails, after some others.
CleanUpFails ==
    /\ Takes /\ cache.exists
    /\ \E n \in Expired : ~clusters[n].exists
    /\ \E S \in SUBSET Expired : clusters' = Deleted(clusters, S)
    /\ configs' = cleanUpServeConfigCache
    /\ queued' = TRUE
    /\ UNCHANGED <<user, traffic, rs, cache, clusterCache, serve, marks, names, faults>>

\* The steps that only write the RayService, after the cleanup.  The write o is
\* stored, or refused because the cache is behind, or lost.
Writes(o, requeue) ==
    /\ cleanUpRayClusterInstance
    /\ clusters' = Deleted(clusters, Expired)
    /\ configs' = cleanUpServeConfigCache
    /\ \/ rs = cache /\ rs' = o /\ queued' = requeue /\ NoFault
       \/ rs # cache /\ queued' = TRUE /\ UNCHANGED <<rs, faults>>
       \/ Fault("write") /\ queued' = TRUE /\ UNCHANGED rs
    /\ UNCHANGED <<user, traffic, cache, clusterCache, serve, names>>

\* Nothing is written; requeue or not.
Returns(requeue) ==
    /\ cleanUpRayClusterInstance
    /\ clusters' = Deleted(clusters, Expired)
    /\ configs' = cleanUpServeConfigCache
    /\ queued' = requeue
    /\ UNCHANGED <<user, traffic, rs, cache, clusterCache, serve, names, faults>>

RemoveFinalizer ==
    /\ cache.deleting /\ Dangling = {}
    /\ Writes([rs EXCEPT !.exists = FALSE, !.finalizer = FALSE], FALSE)
AwaitClusters == cache.deleting /\ Dangling # {} /\ Returns(TRUE)

AddFinalizer ==
    /\ ~cache.deleting /\ ~cache.finalizer
    /\ Writes([rs EXCEPT !.finalizer = TRUE], TRUE)

\* A reconcile of a RayService neither deleted nor without its finalizer.
Live == Takes /\ cache.finalizer /\ ~cache.deleting

ValidationFails ==
    /\ ~validateRayService /\ Live
    /\ Writes([rs EXCEPT !.st.ready = "ValidationFailed"], FALSE)

------------------------------------------------------------------------------
\* handleSuspend.

Suspending(st) == [st EXCEPT !.active = NoService, !.pending = NoService,
    !.susp = "suspending", !.upgrade = "False", !.rollback = FALSE, !.ready = "Suspend"]
Suspended(st) == [st EXCEPT !.susp = "suspended", !.upgrade = "False", !.rollback = FALSE,
    !.ready = "Suspend"]
Resumed(st) == [st EXCEPT !.susp = "no", !.upgrade = "Initializing", !.ready = "Initializing"]

Serves == Live /\ validateRayService

StartSuspending ==
    /\ cache.suspend /\ cache.st.susp = "no" /\ Serves
    /\ Writes([rs EXCEPT !.st = Suspending(@)], TRUE)

StaySuspended == cache.suspend /\ cache.st.susp = "suspended" /\ Serves /\ Returns(FALSE)

\* Suspended again runs, but the write that says so fails: nothing else is done.
ResumeFails ==
    /\ cache.st.susp = "suspended" /\ ~cache.suspend /\ Serves
    /\ rs # cache
    /\ Returns(TRUE)

\* Slip: the Services are forgotten.
AllDeleted_ClustersOnly == \A n \in Names : ~clusterCache[n].exists

AllDeleted ==
    /\ \A n \in Names : ~clusterCache[n].exists
    /\ headSvc = 0 /\ serveSvc = 0
    /\ IsIncrementalUpgradeEnabled => gateway = "absent" /\ route = <<>>

\* Everything is deleted in order; a call may fail after the RayClusters.
deleteRayServiceOwnedResources ==
    /\ cache.st.susp = "suspending" /\ Serves /\ ~AllDeleted
    /\ cleanUpRayClusterInstance
    /\ clusters' = Deleted(clusters, {n \in Names : clusterCache[n].exists})
    /\ configs' = cleanUpServeConfigCache
    /\ queued' = TRUE
    /\ \/ headSvc' = 0 /\ serveSvc' = 0 /\ gateway' = "absent" /\ route' = <<>> /\ NoFault
       \/ Fault("api") /\ UNCHANGED traffic
    /\ UNCHANGED <<user, rs, cache, clusterCache, serve, names>>

CompleteSuspend ==
    /\ cache.st.susp = "suspending" /\ Serves /\ AllDeleted
    /\ Writes([rs EXCEPT !.st = Suspended(@)], TRUE)

\* The suspend machine does not own the reconcile.
Operative == ~cache.suspend /\ cache.st.susp # "suspending" /\ Serves

isInitializingTimeout == cache.st.susp = "no" /\ cache.st.ready = "Timeout"
TimedOut == isInitializingTimeout /\ Operative /\ Returns(Dangling # {})

------------------------------------------------------------------------------
\* reconcileRayCluster and what the rest of Reconcile decides on.

\* The RayCluster a status names, as the cache shows it.
Seen(n) == IF n = 0 THEN NoCluster ELSE clusterCache[n]

\* Is the RayCluster what the spec asks for; partially: but for appended groups?
isClusterSpecHashEqual(c, partial) ==
    IF partial THEN c.goal.base = cache.goal.base /\ cache.goal.groups >= c.goal.groups
               ELSE c.goal = cache.goal

shouldUpdateCluster(st, c, isActiveCluster) ==
    /\ c.exists
    /\ isActiveCluster => st.upgrade # "True"
    /\ ~isClusterSpecHashEqual(c, FALSE)
    /\ isClusterSpecHashEqual(c, TRUE)

isZeroDowntimeUpgradeEnabled == strategy.type # "None"

shouldPrepareNewCluster(st, act, pen, isPendingClusterServing) ==
    LET c == IF pen.exists THEN pen ELSE act IN
    /\ ~isPendingClusterServing /\ ~st.rollback
    /\ \/ ~act.exists /\ ~pen.exists
       \/ /\ ~isClusterSpecHashEqual(c, FALSE) /\ ~isClusterSpecHashEqual(c, TRUE)
          /\ isZeroDowntimeUpgradeEnabled

Steady == Operative /\ cache.st.susp = "no" /\ ~isInitializingTimeout

\* The pending RayCluster is created. It has no head Pod yet (or the cache was
\* behind, and the creation is refused), so the reconcile ends with an error.
createRayClusterInstance ==
    /\ LET n == cache.st.pending.name IN
       /\ n # 0 /\ ~clusterCache[n].exists /\ Steady
       /\ cleanUpRayClusterInstance
       /\ LET cs == Deleted(clusters, Expired) IN
          \/ /\ NoFault
             /\ clusters' = IF cs[n].exists THEN cs
                            ELSE [cs EXCEPT ![n] = [exists |-> TRUE, deleting |-> FALSE,
                                                    goal |-> cache.goal, head |-> "none"]]
          \/ Fault("api") /\ clusters' = cs
    /\ configs' = cleanUpServeConfigCache
    /\ queued' = TRUE
    /\ UNCHANGED <<user, traffic, rs, cache, clusterCache, serve, names>>

\* The status this reconcile starts from: a resumed one goes on in the same pass.
Start == IF cache.st.susp = "suspended" THEN Resumed(cache.st) ELSE cache.st

Updated(c, isActiveCluster) ==
    IF shouldUpdateCluster(Start, c, isActiveCluster) THEN [c EXCEPT !.goal = cache.goal] ELSE c
Active == Updated(Seen(Start.active.name), TRUE)
Pending == Updated(Seen(Start.pending.name), FALSE)

\* The named RayClusters that are updated in place.
InPlace == {n \in Named(Start) \ {0} : shouldUpdateCluster(Start, Seen(n), n = Start.active.name)}
Stale == {n \in InPlace : clusters[n] # clusterCache[n]}

Proceeds ==
    /\ Operative /\ (cache.st.susp = "suspended" => rs = cache) /\ ~isInitializingTimeout
    /\ cleanUpRayClusterInstance
    /\ Start.pending.name # 0 => clusterCache[Start.pending.name].exists

WithGoal(cs, S) == [n \in Names |-> IF n \in S THEN [cs[n] EXCEPT !.goal = cache.goal] ELSE cs[n]]

\* An update is refused; that of the active RayCluster, if any, comes first.
UpdateConflicts ==
    /\ Proceeds /\ Stale # {}
    /\ clusters' = WithGoal(Deleted(clusters, Expired),
                            (InPlace \ Stale) \cap {Start.active.name})
    /\ configs' = cleanUpServeConfigCache
    /\ queued' = TRUE
    /\ rs' = [rs EXCEPT !.st = IF cache.st.susp = "suspended" THEN Start ELSE @]
    /\ UNCHANGED <<user, traffic, cache, clusterCache, serve, names, faults>>

\* Slip: only the spec of the original RayCluster is recognised.
reconcileRollbackState_Original(st, act, pen) ==
    IF IsIncrementalUpgradeEnabled /\ st.upgrade = "True" /\ act.exists /\ pen.exists
    THEN [st EXCEPT !.rollback = act.goal = cache.goal]
    ELSE st

\* The upgrade goes on only if the spec asks for the pending RayCluster.
reconcileRollbackState(st, act, pen) ==
    IF IsIncrementalUpgradeEnabled /\ st.upgrade = "True" /\ act.exists /\ pen.exists
    THEN [st EXCEPT !.rollback = act.goal = cache.goal \/ pen.goal # cache.goal]
    ELSE st

------------------------------------------------------------------------------
\* Ray Serve on one of the two RayClusters (who).  w is the work of this pass:
\* the status in memory, the effects so far, which of the two is ready, and
\* whether a call failed.

Deref(x, default) == IF x = -1 THEN default ELSE x

\* The upgrade as the status describes it.
U(st) == [a |-> Deref(st.active.tc, 100), p |-> Deref(st.pending.tc, 0),
          ta |-> Deref(st.active.traffic, 100), tp |-> Deref(st.pending.traffic, 0),
          rb |-> st.rollback]

\* Ray Serve redeploys when the config changes, and scales when the capacity does.
Submit(s, config, tc) ==
    [apps |-> IF s.apps # "none" /\ s.config = config THEN s.apps ELSE "deploying",
     config |-> config, tc |-> tc]

skipConfigUpdate(st, who) ==
    /\ IsIncrementalUpgradeEnabled
    /\ IF who = "active" THEN st.upgrade = "True" /\ ~st.rollback ELSE st.rollback

checkIfNeedSubmitServeApplications(w, n) ==
    w.configs[n] = 0 \/ w.serve[n].apps = "none" \/ w.configs[n] # cache.config

updateServeDeployment(w, n, who) ==
    LET tc == IF IsIncrementalUpgradeEnabled THEN Deref(w.st[who].tc, 100) ELSE 100
    IN [w EXCEPT !.serve[n] = Submit(@, cache.config, tc), !.configs[n] = cache.config]

Scales(st) ==
    /\ IsIncrementalUpgradeEnabled /\ st.upgrade = "True"
    /\ st.active.name # 0 /\ st.pending.name # 0
    /\ gateway = "ready" /\ route # <<>>
    /\ \/ -1 \in {st.active.tc, st.active.traffic, st.pending.tc, st.pending.traffic}
       \/ checkIfNeedTargetCapacityUpdate(U(st))

\* The capacity is scaled with the config last submitted, if the operator knows it.
applyServeTargetCapacity(w, n, who) ==
    LET u == U(w.st)
        v == IF w.st.rollback /\ w.st.active.traffic = -1 THEN u
             ELSE reconcileServeTargetCapacity(strategy, u, who)
        st == [w.st EXCEPT !.active.tc = v.a, !.pending.tc = v.p]
        config == IF w.configs[n] = 0 THEN cache.config ELSE w.configs[n]
    IN IF u = v THEN [w EXCEPT !.st = st]
       ELSE [w EXCEPT !.st = st, !.serve[n] = Submit(@, config, st[who].tc)]

\* reconcileServe leaves a RayCluster alone until its head Pod is ready.
Alone(w, c) == w.err \/ ~c.exists \/ c.head # "ready"

\* reconcileServe, as far as the config: it is submitted, and the applications are ready
\* if they ran before.
reconcileServe(w, n, c, who) ==
    IF Alone(w, c) THEN w
    ELSE IF clusters[n].head # "ready" THEN [w EXCEPT !.err = TRUE]
    ELSE LET w1 == IF checkIfNeedSubmitServeApplications(w, n) /\ ~skipConfigUpdate(w.st, who)
                   THEN updateServeDeployment(w, n, who) ELSE w
         IN [w1 EXCEPT !.ready = IF w.serve[n].apps = "running" THEN @ \cup {who} ELSE @]

\* The rest of it.
reconcileCapacity(w, n, c, who) ==
    IF ~Alone(w, c) /\ Scales(w.st) THEN applyServeTargetCapacity(w, n, who) ELSE w

\* Before anything is done to Ray Serve.
Untouched == [st |-> reconcileRollbackState(Start, Active, Pending), serve |-> serve,
              configs |-> cleanUpServeConfigCache, ready |-> {}, err |-> FALSE]

\* Ray Serve is also reconciled on the active RayCluster, after the pending one: if it is
\* alone (and is not about to be replaced) or if the upgrade is incremental.
ServesActive(w) ==
    IF Pending.exists THEN IsIncrementalUpgradeEnabled
    ELSE ~shouldPrepareNewCluster(w.st, Active, NoCluster, FALSE)

\* Slip: the pending RayCluster gets the weight it had.
createHTTPRoute_Behind(st, ready) ==
    LET due == IF st.rollback THEN ~st.active.recent ELSE ~st.pending.recent
        v == calculateTrafficRoutedPercent(strategy, U(st), ready, due)
        backends == {st.active.name} \cup (IF Pending.exists THEN {st.pending.name} ELSE {})
    IN IF Active.exists THEN [n \in backends |-> IF n = st.active.name THEN v.ta ELSE U(st).tp]
       ELSE <<>>

\* The weights the HTTPRoute gets; none without an active RayCluster.
createHTTPRoute(st, ready) ==
    LET due == IF st.rollback THEN ~st.active.recent ELSE ~st.pending.recent
        v == calculateTrafficRoutedPercent(strategy, U(st), ready, due)
        backends == {st.active.name} \cup (IF Pending.exists THEN {st.pending.name} ELSE {})
    IN IF Active.exists THEN [n \in backends |-> IF n = st.active.name THEN v.ta ELSE v.tp]
       ELSE <<>>

\* The RayCluster the two Services are made to select, if one is ready.
Target(w) ==
    IF "pending" \in w.ready /\ ~(IsIncrementalUpgradeEnabled /\ w.st.upgrade = "True")
    THEN w.st.pending.name ELSE w.st.active.name

\* There is no active RayCluster to point them at: a nil dereference.
Panics(w) == w.ready # {} /\ Target(w) = w.st.active.name /\ ~Active.exists

------------------------------------------------------------------------------
\* calculateStatus.

GetWeightsFromHTTPRoute(weights, s, default) ==
    IF s.name \in DOMAIN weights THEN weights[s.name] ELSE default

\* The traffic is what the HTTPRoute says, and if it changed it has just changed.
Routed(s, weights) ==
    LET w == GetWeightsFromHTTPRoute(weights, s, s.traffic)
    IN [s EXCEPT !.traffic = w, !.recent = @ \/ w # s.traffic]

\* Slip: an upgrade is over when the pending RayCluster has all of the capacity.
Promotes_Early(st, svc) ==
    IF ~IsIncrementalUpgradeEnabled THEN st.active.name # svc
    ELSE IF st.upgrade = "True" THEN ~st.rollback /\ Pending.exists /\ U(st).p = 100
    ELSE st.active.name = 0 /\ st.pending.name # 0

Promotes(st, svc) ==
    IF ~IsIncrementalUpgradeEnabled THEN st.active.name # svc
    ELSE IF st.upgrade = "True"
         THEN ~st.rollback /\ Pending.exists /\ IsIncrementalUpgradeComplete(U(st))
         ELSE st.active.name = 0 /\ st.pending.name # 0

reconcilePromotionAndServingStatus(st, svc) ==
    IF Promotes(st, svc) THEN [st EXCEPT !.active = st.pending, !.pending = NoService] ELSE st

RollbackCompletes(st) ==
    /\ st.rollback /\ st.active.tc # -1 /\ st.active.traffic # -1
    /\ LET healthy == Pending.exists /\ Pending.head = "ready" IN
       /\ shouldCompleteIncrementalRollback(U(st), healthy)
       /\ healthy => st.pending.tc # -1 /\ st.pending.traffic # -1

Prepared(st) ==
    [st EXCEPT !.pending = [name |-> names + 1, traffic |-> -1, recent |-> FALSE, tc |->
        IF ~IsIncrementalUpgradeEnabled THEN -1
        ELSE IF st.active.name # 0 THEN 0
        ELSE IF st.active.tc = -1 THEN 100 ELSE -1]]

\* A Serve endpoint is ready on RayCluster n.
Endpoint(n) == n # 0 /\ clusters[n].head = "ready" /\ serve[n].apps = "running"

markFailedOnInitializingTimeout(st) ==
    IF strategy.timeout /\ st.ready = "Expired"
    THEN [st EXCEPT !.ready = "Timeout", !.active.name = 0, !.pending.name = 0]
    ELSE st

calculateConditions(st, endpoints) ==
    LET first == IF st.ready = "none" /\ st.upgrade = "none"
                 THEN [st EXCEPT !.ready = "Initializing", !.upgrade = "Initializing"] ELSE st
        ready == IF endpoints THEN [first EXCEPT !.ready = "True"]
                 ELSE IF first.ready = "True" THEN [first EXCEPT !.ready = "Zero"]
                 ELSE markFailedOnInitializingTimeout(first)
    IN [ready EXCEPT !.upgrade = IF ready.active.name # 0
                                 THEN IF ready.pending.name # 0 THEN "True" ELSE "False"
                                 ELSE IF @ = "Initializing" THEN @ ELSE "Unknown"]

RolledBack(st) ==
    IF RollbackCompletes(st)
    THEN [st EXCEPT !.pending = NoService, !.rollback = FALSE, !.upgrade = "False"] ELSE st

\* The Serve endpoints that count: those of the active RayCluster, and in an
\* incremental upgrade those of the pending one.
Endpoints(w, pen) ==
    LET svc == IF w.ready # {} THEN Target(w) ELSE serveSvc IN
    \/ Endpoint(IF IsIncrementalUpgradeEnabled /\ Active.exists THEN Start.active.name ELSE svc)
    \/ IsIncrementalUpgradeEnabled /\ pen.exists /\ Endpoint(Start.pending.name)

\* The stages of the status at the end of the pass w: the weights in the HTTPRoute are
\* copied to it; the pending RayCluster may be promoted; a rollback may be over, and no
\* RayCluster is pending then; and a new one may be prepared.
Reweighed(w, weights) ==
    IF w.ready # {} /\ IsIncrementalUpgradeEnabled
    THEN [w.st EXCEPT !.active = Routed(@, weights),
                      !.pending = IF Pending.exists THEN Routed(@, weights) ELSE @]
    ELSE w.st
AfterPromotion(w, st) ==
    IF w.ready # {} THEN reconcilePromotionAndServingStatus(st, Target(w)) ELSE st
StillPending(st) == IF RollbackCompletes(st) THEN NoCluster ELSE Pending
AfterPreparation(w, st, pen, name) ==
    IF shouldPrepareNewCluster(st, Active, pen, w.ready # {} /\ Target(w) = name)
    THEN Prepared(st) ELSE st

\* The status is stored, unless it names more RayClusters than the instance has.
Stores(st) ==
    /\ st.pending.name <= MaxNames
    /\ rs' = [rs EXCEPT !.st = st]
    /\ names' = IF st.pending.name > names THEN st.pending.name ELSE names

calculateStatus(w, weights) ==
    \E st1 \in {Reweighed(w, weights)} :
    \E st2 \in {AfterPromotion(w, st1)} :
    \E st3 \in {RolledBack(st2)} :
    \E pen \in {StillPending(st2)} :
    \E st4 \in {AfterPreparation(w, st3, pen, st1.pending.name)} :
    \E st \in {calculateConditions(st4, Endpoints(w, pen))} : Stores(st)

------------------------------------------------------------------------------
\* The rest of Reconcile.  Its writes come in stages: 0 the RayClusters, 1 and 2 Ray
\* Serve on the pending and on the active one, 3 the HTTPRoute, 4 and 5 the head and
\* the serve Service, 6 the status.

\* The stage the pass stops after, if no call fails that could have succeeded.
Reaches(p, w) ==
    IF \E c \in {Active, Pending} : c.exists /\ c.head = "none" THEN 0  \* updateHeadPodServeLabel
    ELSE IF p.err THEN 0
    ELSE IF w.err THEN 1
    ELSE IF IsIncrementalUpgradeEnabled /\ gateway = "absent" THEN 2    \* it is created
    ELSE IF Panics(w) THEN 3
    ELSE 6

\* The pass up to stage k, after Ray Serve has been left as w.
Pass(k, w) ==
    \E weights \in {createHTTPRoute(w.st, "pending" \in w.ready)} :
       /\ clusters' = WithGoal(Deleted(clusters, Expired), InPlace)
       /\ serve' = w.serve /\ configs' = w.configs
       /\ gateway' = IF k >= 2 /\ IsIncrementalUpgradeEnabled /\ gateway = "absent"
                     THEN "created" ELSE gateway
       /\ route' = IF k >= 3 /\ IsIncrementalUpgradeEnabled /\ Active.exists
                   THEN weights ELSE route
       /\ headSvc' = IF k >= 4 /\ w.ready # {} THEN Target(w) ELSE headSvc
       /\ serveSvc' = IF k >= 5 /\ w.ready # {} THEN Target(w) ELSE serveSvc
       /\ IF k = 6 /\ rs = cache THEN calculateStatus(w, weights)
          ELSE /\ rs' = [rs EXCEPT !.st = IF cache.st.susp = "suspended" THEN Start ELSE @]
               /\ UNCHANGED names

\* Ray Serve is reached on neither, on the pending one (p) or on both (w).
PassUpTo(k, p, w) == \E v \in {CASE k = 0 -> Untouched [] k = 1 -> p [] k > 1 -> w} : Pass(k, v)

Proceed ==
    /\ Proceeds /\ Stale = {}
    /\ queued' = TRUE
    /\ UNCHANGED <<user, cache, clusterCache>>
    /\ \E p1 \in {reconcileServe(Untouched, Start.pending.name, Pending, "pending")} :
       \E p \in {reconcileCapacity(p1, Start.pending.name, Pending, "pending")} :
       \E a \in {IF ServesActive(p) THEN Active ELSE NoCluster} :
       \E w1 \in {reconcileServe(p, Start.active.name, a, "active")} :
       \E w \in {reconcileCapacity(w1, Start.active.name, a, "active")} :
          \/ PassUpTo(Reaches(p, w), p, w) /\ NoFault
          \/ Fault("api") /\ \E k \in 0..(Reaches(p, w) - 1) : PassUpTo(k, p, w)

Reconcile ==
    \/ NotFound \/ CleanUpFails \/ RemoveFinalizer \/ AwaitClusters \/ AddFinalizer
    \/ ValidationFails \/ StartSuspending \/ StaySuspended \/ ResumeFails
    \/ deleteRayServiceOwnedResources \/ CompleteSuspend \/ TimedOut
    \/ createRayClusterInstance \/ UpdateConflicts \/ Proceed

------------------------------------------------------------------------------
\* The informers, and the rest of the world.

SpecOf(o) == <<o.exists, o.deleting, o.goal, o.config, o.suspend>>

\* A change of the spec queues the key, one of the status does not.
SyncService ==
    /\ cache # rs
    /\ cache' = rs
    /\ queued' = (queued \/ SpecOf(cache) # SpecOf(rs))
    /\ UNCHANGED <<user, traffic, rs, clusters, clusterCache, serve, configs, marks, names,
                   faults>>
SyncCluster(n) ==
    /\ clusterCache[n] # clusters[n]
    /\ clusterCache' = [clusterCache EXCEPT ![n] = clusters[n]]
    /\ queued' = TRUE
    /\ UNCHANGED <<user, traffic, rs, cache, clusters, serve, configs, marks, names, faults>>

\* The RayCluster controller and Ray.
World == UNCHANGED <<user, rs, cache, clusterCache, configs, marks, queued, names>>

HeadStarts(n) ==
    /\ clusters[n].exists /\ ~clusters[n].deleting /\ clusters[n].head = "none"
    /\ clusters' = [clusters EXCEPT ![n].head = "pod"]
    /\ World /\ UNCHANGED <<traffic, serve, faults>>
HeadReady(n) ==
    /\ clusters[n].exists /\ ~clusters[n].deleting /\ clusters[n].head = "pod"
    /\ clusters' = [clusters EXCEPT ![n].head = "ready"]
    /\ World /\ UNCHANGED <<traffic, serve, faults>>
AppsRun(n) ==
    /\ clusters[n].head = "ready" /\ serve[n].apps = "deploying"
    /\ serve' = [serve EXCEPT ![n].apps = "running"]
    /\ World /\ UNCHANGED <<traffic, clusters, faults>>

\* The head crashes: Ray Serve starts from nothing once there is a new one.
HeadLost(n) ==
    /\ clusters[n].head = "ready" /\ Fault("head")
    /\ \E h \in {"none", "pod"} : clusters' = [clusters EXCEPT ![n].head = h]
    /\ serve' = [serve EXCEPT ![n] = NoServe]
    /\ World /\ UNCHANGED traffic
ClusterDeleted(n) ==
    /\ clusters[n].deleting
    /\ clusters' = [clusters EXCEPT ![n] = NoCluster]
    /\ serve' = [serve EXCEPT ![n] = NoServe]
    /\ World /\ UNCHANGED <<traffic, faults>>
GatewayReady ==
    /\ gateway = "created" /\ gateway' = "ready"
    /\ World /\ UNCHANGED <<headSvc, serveSvc, route, clusters, serve, faults>>

\* Its dependents follow a RayService that is gone.
GarbageCollected(n) ==
    /\ ~rs.exists /\ clusters[n].exists /\ ~clusters[n].deleting
    /\ clusters' = [clusters EXCEPT ![n].deleting = TRUE]
    /\ World /\ UNCHANGED <<traffic, serve, faults>>

\* What the operator holds in memory is lost.
OperatorRestarts ==
    /\ Fault("restart")
    /\ configs' = [n \in Names |-> 0] /\ marks' = [n \in Names |-> "none"]
    /\ queued' = TRUE
    /\ UNCHANGED <<user, traffic, rs, cache, clusters, clusterCache, serve, names>>

------------------------------------------------------------------------------
\* Time.

DeletionDelayPasses(n) ==
    /\ marks[n] = "scheduled" /\ marks' = [marks EXCEPT ![n] = "due"]
    /\ UNCHANGED <<user, traffic, rs, cache, clusters, clusterCache, serve, configs, queued,
                   names, faults>>

\* Time shows in the stored object and in the cached one, which are now o and c.
Ages(o, c) ==
    /\ <<o, c>> # <<rs, cache>>
    /\ rs' = o /\ cache' = c
    /\ UNCHANGED <<user, traffic, clusters, clusterCache, serve, configs, marks, queued, names,
                   faults>>
Aged(o) == [o EXCEPT !.st.active.recent = FALSE, !.st.pending.recent = FALSE]
IntervalPasses == Ages(Aged(rs), Aged(cache))
Late(o) == [o EXCEPT !.st.ready = IF @ = "Initializing" THEN "Expired" ELSE @]
InitializingExpires == strategy.timeout /\ Ages(Late(rs), Late(cache))

\* The user.
Edit(kind) ==
    /\ edits < MaxEdits /\ Upsets /\ kind \in EditKinds /\ edits' = edits + 1
    /\ rs.exists /\ ~rs.deleting
    /\ UNCHANGED <<strategy, traffic, cache, clusterCache, serve, configs, marks, queued, names,
                   faults>>
EditGoal ==
    /\ Edit("goal") /\ UNCHANGED clusters
    /\ \E b \in Bases \ {rs.goal.base} : rs' = [rs EXCEPT !.goal.base = b]
EditGroups ==
    /\ Edit("groups") /\ UNCHANGED clusters
    /\ rs' = [rs EXCEPT !.goal.groups = 1 - @]
EditConfig ==
    /\ Edit("config") /\ UNCHANGED clusters
    /\ rs' = [rs EXCEPT !.config = 3 - @]
EditSuspend ==
    /\ Edit("suspend") /\ UNCHANGED clusters
    /\ rs' = [rs EXCEPT !.suspend = ~@]
EditDelete ==
    /\ Edit("delete") /\ UNCHANGED clusters
    /\ rs' = [rs EXCEPT !.deleting = TRUE, !.exists = rs.finalizer]

\* Someone deletes a RayCluster behind the operator's back (in an incremental upgrade
\* every later pass would end in a nil dereference, see Panics).
EditDrop(n) ==
    /\ Edit("drop") /\ UNCHANGED rs /\ ~IsIncrementalUpgradeEnabled
    /\ n \in Named(rs.st) /\ clusters[n].exists /\ ~clusters[n].deleting
    /\ clusters' = [clusters EXCEPT ![n].deleting = TRUE]

Sync == SyncService \/ \E n \in Names : SyncCluster(n)
Works(n) == HeadStarts(n) \/ HeadReady(n) \/ AppsRun(n) \/ ClusterDeleted(n)
Time == (\E n \in Names : DeletionDelayPasses(n)) \/ IntervalPasses
Edits ==
    \/ EditGoal \/ EditGroups \/ EditConfig \/ EditSuspend \/ EditDelete
    \/ \E n \in Names : EditDrop(n)

Next ==
    \/ Reconcile \/ Sync \/ Time \/ InitializingExpires \/ Edits
    \/ \E n \in Names : Works(n) \/ HeadLost(n) \/ GarbageCollected(n)
    \/ GatewayReady \/ OperatorRestarts

Spec == Init /\ [][Next]_vars

\* The work queue serves its keys, the informers catch up, RayClusters and Ray do
\* what they are asked for, and time passes.
FairSpec ==
    /\ Spec
    /\ WF_vars(Reconcile) /\ WF_vars(Sync) /\ WF_vars(Time) /\ WF_vars(GatewayReady)
    /\ WF_vars(\E n \in Names : Works(n))

------------------------------------------------------------------------------
\* Properties.

TypeOK ==
    /\ strategy \in Strategies
    /\ rs \in Object /\ cache \in Object
    /\ clusters \in [Names -> Cluster] /\ clusterCache \in [Names -> Cluster]
    /\ serve \in [Names -> Serve]
    /\ configs \in [Names -> 0..2]
    /\ marks \in [Names -> {"none", "scheduled", "due"}]
    /\ headSvc \in 0..MaxNames /\ serveSvc \in 0..MaxNames
    /\ gateway \in {"absent", "created", "ready"}
    /\ DOMAIN route \subseteq Names /\ \A n \in DOMAIN route : route[n] \in Percent
    /\ queued \in BOOLEAN
    /\ names \in 0..MaxNames /\ edits \in 0..MaxEdits /\ faults \in 0..MaxFaults

\* A RayCluster the operator starts to delete in this step.
Deletes(n) ==
    clusters[n].exists /\ ~clusters[n].deleting /\ clusters'[n].deleting /\ edits' = edits

\* However stale the caches are, the operator never deletes a RayCluster that the
\* stored status of a live RayService names as active or pending
\* (cleanUpRayClusterInstance decides from the cached status and from timestamps
\* that outlive the RayClusters).
NamedSpared == [][\A n \in Names : Deletes(n) => n \notin Named(rs.st) \/ rs.deleting]_vars

\* The active RayCluster is replaced only by one that can take over: in a blue/green
\* upgrade, or as the first, it serves and both Services select it; in an incremental
\* one the HTTPRoute already sends every request to it and none to the old one
\* (reconcilePromotionAndServingStatus, which looks at the status only).
PromotionIsSafe ==
    [][LET n == rs'.st.active.name  old == rs.st.active.name IN n \notin {0, old} =>
         IF IsIncrementalUpgradeEnabled /\ old # 0
         THEN route'[n] = 100 /\ route'[old] = 0
         ELSE Endpoint(n) /\ headSvc' = n /\ serveSvc' = n]_vars

\* The incremental upgrade the status describes, if that is the strategy.
Incremental == IsIncrementalUpgradeEnabled /\ validateRayService
Upgrade == INSTANCE RayServiceUpgrade WITH
    options <- IF Incremental THEN strategy ELSE [step |-> 0, surge |-> 0],
    serving <- IF Incremental THEN rs.st.active.name ELSE 0,
    u <- IF Incremental /\ rs.st.active.name # 0 THEN U(rs.st) ELSE Fresh

\* The controller implements the upgrade: capacity and traffic move as RayServiceUpgrade
\* allows, and the active RayCluster changes only when everything has moved.
ImplementsUpgrade == Upgrade!USpec

\* The RayService is meant to serve, and RayCluster n gets its requests.
Serving == rs.exists /\ ~rs.deleting /\ rs.st.susp = "no" /\ rs.st.ready # "Timeout"
Carries(n) == IF IsIncrementalUpgradeEnabled THEN n \in DOMAIN route /\ route[n] > 0
              ELSE n = serveSvc

\* The operator never deletes the RayCluster that requests still go to (the Services
\* and the HTTPRoute are moved by one call, the status that spares a RayCluster from
\* cleanUpRayClusterInstance is written by another).
ServingSpared == [][\A n \in Names : Deletes(n) => ~Carries(n) \/ ~Serving]_vars

\* Nor in an upgrade, when there is an active RayCluster that could still serve.
ZeroDowntime ==
    [][\A n \in Names : Deletes(n) /\ Serving /\ rs.st.active.name # 0 => ~Carries(n)]_vars

\* One backend gets all of the traffic, or two share it.
Complete(weights) ==
    \E a, p \in DOMAIN weights :
        /\ DOMAIN weights = {a, p}
        /\ weights[a] = IF a = p THEN 100 ELSE 100 - weights[p]

\* The weights of the HTTPRoute add up to 100, so that no request is lost (createHTTPRoute
\* computes them from the cached status, which an earlier pass copied from the HTTPRoute).
AllRouted == route # <<>> => Complete(route)

\* No RayCluster gets a larger share of the traffic than the capacity Ray Serve really
\* has on it (calculateTrafficRoutedPercent and reconcileServeTargetCapacity each trust
\* the status to say what the other did).
TrafficFits == \A n \in DOMAIN route : serve[n].apps # "none" => route[n] <= serve[n].tc

\* A RayService that says it is suspended has no RayCluster, no Service and no route
\* left (deleteRayServiceOwnedResources looks for the RayClusters in the cache).
SuspendedHoldsNothing ==
    rs.st.susp = "suspended" => /\ headSvc = 0 /\ serveSvc = 0 /\ route = <<>>
                                /\ \A n \in Names : ~clusters[n].exists

\* A rollback that is over has given the active RayCluster all of its capacity back
\* (shouldCompleteIncrementalRollback decides it from the status).
RollbackRestores ==
    [][LET n == rs.st.active.name IN
         rs.st.rollback /\ ~rs'.st.rollback /\ rs'.st.pending.name = 0
         /\ n # 0 /\ rs'.st.active.name = n => serve'[n].tc = 100]_vars

\* What the user asked for last: nothing at all, nothing that runs, or one RayCluster
\* as the spec describes it, alone, serving the config at full capacity.
Converged ==
    \/ ~rs.exists /\ \A n \in Names : ~clusters[n].exists
    \/ rs.suspend /\ rs.st.susp = "suspended"
    \/ /\ ~rs.suspend /\ rs.st.active.name # 0 /\ rs.st.pending.name = 0
       /\ LET n == rs.st.active.name IN
          /\ Endpoint(n) /\ serve[n].config = rs.config /\ serve[n].tc = 100
          /\ clusters[n].goal = rs.goal /\ serveSvc = n
          /\ \A m \in Names : clusters[m].exists => m = n

\* Once the user and the faults stop, the RayService gets where the user asked it to be,
\* through upgrades, rollbacks and suspensions, and stays there (no requeue is missing
\* and no two steps of Reconcile wait for each other).
Converges == <>[]Converged

==============================================================================
