------------------------------- MODULE RayJob -------------------------------
(***************************************************************************)
(* One RayJob: RayJobReconciler.Reconcile drives JobDeploymentStatus from  *)
(* New to Complete or Failed, through a RayCluster, a submitter and a Ray  *)
(* job that live on their own, with retries, deadlines, suspension and the *)
(* deletion policies.                                                      *)
(*                                                                         *)
(* A reconcile is one step.  It reads the RayJob, the RayClusters and the  *)
(* submitter from caches that lag, so that whatever happens between its    *)
(* reads and its writes is the case of a cache that does not show it yet.  *)
(* It changes RayClusters, submitter and Ray job first and the status last;*)
(* the status is lost if the RayJob has changed since the version it read, *)
(* or if the operator stops in between.                                    *)
(*                                                                         *)
(* Time is the set of the deadlines that have passed, and the age of a     *)
(* finished RayJob.  The batch scheduler is not configured.                *)
(***************************************************************************)
EXTENDS Integers, FiniteSets

CONSTANTS
    Specs,          \* the RayJob specs a behaviour may start with
    MaxNames,       \* bound on the number of RayCluster names generated
    MaxAge,         \* bound on the time since EndTime
    Prompt,         \* caches show what a reconcile created before the next one
    MaxEdits,       \* bound on what users do to the RayJob and its RayCluster
    MaxFaults       \* bound on stops of the operator and losses of the head

NoName == 0
Owned == 1..MaxNames            \* names from GenerateRayClusterName
Selected == MaxNames + 1        \* the RayCluster that clusterSelector names
Names == 1..Selected
Modes == {"K8sJobMode", "HTTPMode", "InteractiveMode", "SidecarMode"}
Policies == {"DeleteNone", "DeleteWorkers", "DeleteCluster", "DeleteSelf"}
Deadlines == {"active", "preRunning", "grace", "check", "submitter"}
Phases == {"New", "Initializing", "Waiting", "Running", "Suspending", "Suspended",
           "Retrying", "Complete", "Failed", "ValidationFailed"}
Reasons == {"", "AppFailed", "SubmissionFailed", "DeadlineExceeded",
            "PreRunningDeadlineExceeded", "JobStatusCheckTimeoutExceeded",
            "GracePeriodExceeded", "ValidationFailed"}
Verdicts == {"SUCCEEDED", "FAILED", "STOPPED"}
JobStatuses == {"", "RUNNING"} \cup Verdicts    \* RUNNING also for PENDING

IsJobTerminal(js) == js \in Verdicts
IsJobDeploymentTerminal(phase) == phase \in {"Complete", "Failed"}

Rule == [policy : Policies, on : {"SUCCEEDED", "FAILED", "Failed"}, ttl : 0..MaxAge]

\* deletion is the strategy: none, legacy (onSuccess, onFailure) or rules.
Spec_ == [mode : Modes, selector : BOOLEAN, backoff : 0..MaxNames,
          active : BOOLEAN, preRunning : BOOLEAN, shutdown : BOOLEAN, ttl : 0..MaxAge,
          deletion : {"none", "legacy", "rules"}, rules : SUBSET Rule,
          onSuccess : Policies, onFailure : Policies]

ASSUME RayJobAssumption ==
    /\ MaxNames \in Nat \ {0} /\ MaxAge \in Nat /\ Prompt \in BOOLEAN
    /\ MaxEdits \in Nat /\ MaxFaults \in Nat
    /\ Specs \subseteq Spec_

VARIABLES
    spec,                       \* the part of RayJob.Spec that is not edited
    job, cache,                 \* the RayJob: API server, informer
    clusters, clusterCache,     \* the RayClusters by name
    submitter, submitterCache,  \* the submitter: a Kubernetes Job or a sidecar
    ray,                        \* the Ray job in each RayCluster
    svc,                        \* the RayCluster the head service of the RayJob selects
    late,                       \* the deadlines that have passed
    age,                        \* the time since EndTime
    queued, timer,              \* the work queue
    names,                      \* how many names have been recorded
    won,                        \* RayClusters whose Ray job has succeeded
    resumed,                    \* how often the RayJob has been resumed
    edits, faults

caches == <<cache, clusterCache, submitterCache>>
world == <<clusters, submitter, ray, svc>>
history == <<names, won, resumed>>
vars == <<spec, job, caches, world, late, age, queued, timer, history, edits, faults>>

Status == [jds : Phases, js : JobStatuses, name : 0..Selected, reason : Reasons,
           failed : Nat, succeeded : Nat, checkFailing : BOOLEAN]
Object == [exists : BOOLEAN, deleting : BOOLEAN, finalizer : BOOLEAN,
           suspend : BOOLEAN, jobId : BOOLEAN, st : Status]
Cluster == [state : {"absent", "pending", "ready"}, deleting : BOOLEAN, suspended : BOOLEAN]
Submitter == [of : 0..Selected, phase : {"absent", "active", "complete", "failed"},
              deleting : BOOLEAN]

Absent == [state |-> "absent", deleting |-> FALSE, suspended |-> FALSE]
NoSubmitter == [of |-> NoName, phase |-> "absent", deleting |-> FALSE]
NoTimer == MaxAge + 1

\* The variables keep the types of the Go declarations.
TypeOK ==
    /\ spec \in Specs /\ job \in Object /\ cache \in Object
    /\ clusters \in [Names -> Cluster] /\ clusterCache \in [Names -> Cluster]
    /\ submitter \in Submitter /\ submitterCache \in Submitter
    /\ ray \in [Names -> JobStatuses] /\ svc \in 0..Selected
    /\ late \subseteq Deadlines /\ age \in 0..MaxAge
    /\ queued \in BOOLEAN /\ timer \in 0..NoTimer
    /\ names \in 0..MaxNames /\ won \subseteq Names /\ resumed \in Nat
    /\ edits \in 0..MaxEdits /\ faults \in 0..MaxFaults

Init ==
    /\ spec \in Specs
    /\ \E s \in BOOLEAN :
         job = [exists |-> TRUE, deleting |-> FALSE, finalizer |-> FALSE,
                suspend |-> s, jobId |-> FALSE,
                st |-> [jds |-> "New", js |-> "", name |-> NoName, reason |-> "",
                        failed |-> 0, succeeded |-> 0, checkFailing |-> FALSE]]
    /\ cache = job
    /\ \E s \in {"absent", "ready"} :
         clusters = [n \in Names |-> IF n = Selected /\ spec.selector
                                     THEN [Absent EXCEPT !.state = s] ELSE Absent]
    /\ clusterCache = clusters
    /\ submitter = NoSubmitter /\ submitterCache = NoSubmitter
    /\ ray = [n \in Names |-> ""] /\ svc = NoName
    /\ late = {} /\ age = 0 /\ queued = TRUE /\ timer = NoTimer
    /\ names = 0 /\ won = {} /\ resumed = 0 /\ edits = 0 /\ faults = 0

-----------------------------------------------------------------------------
(* The validation that precedes every reconcile.                           *)

validateTTLConsistency(rules) ==
    LET impact == [DeleteNone |-> 0, DeleteWorkers |-> 1, DeleteCluster |-> 2, DeleteSelf |-> 3]
    IN \A r, s \in rules :
         r.on = s.on /\ 0 < impact[r.policy] /\ impact[r.policy] < impact[s.policy]
            => r.ttl <= s.ttl

validateDeletionRules ==
    /\ spec.selector =>
         \A r \in spec.rules : r.policy \notin {"DeleteCluster", "DeleteWorkers"}
    /\ \A r, s \in spec.rules : r.on = s.on /\ r.policy = s.policy => r = s
    /\ validateTTLConsistency(spec.rules)

validateLegacyDeletionPolicies ==
    LET chosen == {spec.onSuccess, spec.onFailure} IN
    /\ spec.selector => chosen \cap {"DeleteCluster", "DeleteWorkers"} = {}
    /\ spec.shutdown => "DeleteNone" \notin chosen

validateDeletionConfiguration ==
    /\ ~spec.shutdown => spec.ttl = 0
    /\ spec.deletion = "legacy" => validateLegacyDeletionPolicies
    /\ spec.deletion = "rules" => ~spec.shutdown /\ spec.rules # {} /\ validateDeletionRules

ValidateRayJobSpec(o) ==
    /\ o.suspend => spec.shutdown /\ ~spec.selector
    /\ validateDeletionConfiguration
    /\ spec.selector => spec.mode # "SidecarMode" /\ spec.backoff = 0
    /\ spec.mode = "InteractiveMode" => spec.backoff = 0

ValidateRayJobStatus(o) == o.st.jds = "Waiting" => spec.mode = "InteractiveMode"

Valid(o) == ValidateRayJobSpec(o) /\ ValidateRayJobStatus(o)

-----------------------------------------------------------------------------
(* What every branch of Reconcile ends with.                               *)

Requeue == queued' = TRUE /\ UNCHANGED timer
Done == queued' = FALSE /\ UNCHANGED timer
RequeueAt(t) == queued' = FALSE /\ timer' = IF t < timer THEN t ELSE timer

Fault == faults < MaxFaults /\ faults' = faults + 1

\* StartTime, RayJobStatusInfo, JobStatusCheckFailureStartTime and the new
\* submitter start their deadlines afresh.
Rearmed(old, new) ==
    {d \in Deadlines :
        \/ d \in {"active", "preRunning"} /\ old.jds = "New" /\ new.jds = "Initializing"
        \/ d = "grace" /\ ~IsJobTerminal(new.js)
        \/ d = "check" /\ ~new.checkFailing}

\* The API server takes the object if it is made from the current version.
Stored(o) ==
    /\ cache = job /\ job' = o
    /\ late' = late \ Rearmed(job.st, o.st)
    /\ age' = IF IsJobDeploymentTerminal(o.st.jds) /\ o.st # job.st THEN 0 ELSE age
    /\ names' = IF o.st.name \in Owned /\ o.st.name > names THEN o.st.name ELSE names
    /\ resumed' = IF job.st.jds = "Suspended" /\ o.st.jds = "New" THEN resumed + 1 ELSE resumed
    /\ UNCHANGED <<won, faults>>

Lost ==
    /\ \/ cache # job /\ UNCHANGED faults
       \/ Fault
    /\ UNCHANGED <<job, late, age, history>>

updateRayJobStatus(st) == Stored([cache EXCEPT !.st = st]) \/ Lost

\* Slip: one attempt more.
checkBackoffLimitAndUpdateStatusIfNeeded_OneMore(st) ==
    LET f == IF st.jds = "Failed" THEN st.failed + 1 ELSE st.failed
        s == IF st.jds = "Complete" /\ st.js = "SUCCEEDED"
             THEN st.succeeded + 1 ELSE st.succeeded
        retry == /\ st.jds = "Failed" /\ f <= spec.backoff + 1
                 /\ st.reason \notin {"DeadlineExceeded", "JobStatusCheckTimeoutExceeded"}
    IN [st EXCEPT !.failed = f, !.succeeded = s, !.jds = IF retry THEN "Retrying" ELSE @]

checkBackoffLimitAndUpdateStatusIfNeeded(st) ==
    LET f == IF st.jds = "Failed" THEN st.failed + 1 ELSE st.failed
        s == IF st.jds = "Complete" /\ st.js = "SUCCEEDED"
             THEN st.succeeded + 1 ELSE st.succeeded
        retry == /\ st.jds = "Failed" /\ f < spec.backoff + 1
                 /\ st.reason \notin {"DeadlineExceeded", "JobStatusCheckTimeoutExceeded"}
    IN [st EXCEPT !.failed = f, !.succeeded = s, !.jds = IF retry THEN "Retrying" ELSE @]

Finish(st) ==
    /\ updateRayJobStatus(checkBackoffLimitAndUpdateStatusIfNeeded(st))
    /\ Requeue

NothingStored == UNCHANGED <<job, late, age, history, faults>>

-----------------------------------------------------------------------------
(* RayClusters and the submitter, as Reconcile reads and changes them.     *)

Exists(c) == c.state # "absent"
HasSubmitter == spec.mode \in {"K8sJobMode", "SidecarMode"}
name == cache.st.name
Finished(s) == s.phase \in {"complete", "failed"}

\* The Get finds the RayCluster in the cache, or the Create succeeds.
getOrCreateRayClusterInstance ==
    \/ Exists(clusterCache[name]) /\ UNCHANGED clusters
    \/ /\ ~Exists(clusterCache[name]) /\ ~spec.selector /\ ~Exists(clusters[name])
       /\ clusters' = [clusters EXCEPT ![name] = [Absent EXCEPT !.state = "pending"]]

\* It is not found and is not to be created, or the name is taken.
RayClusterNotFound ==
    ~Exists(clusterCache[name]) /\ (spec.selector \/ Exists(clusters[name]))

\* The Kubernetes Job is in the cache, or the Create succeeds.
createK8sJobIfNeed ==
    \/ submitterCache.phase # "absent" /\ UNCHANGED submitter
    \/ /\ submitterCache.phase = "absent" /\ submitter.phase = "absent"
       /\ submitter' = [of |-> name, phase |-> "active", deleting |-> FALSE]

K8sJobExists == submitterCache.phase = "absent" /\ submitter.phase # "absent"

isClusterDeleted == spec.selector \/ name = NoName \/ ~Exists(clusterCache[name])

\* Slip: a RayCluster that is not ready yet is spared.
DeletesCluster_Ready ==
    ~isClusterDeleted /\ ~clusterCache[name].deleting /\ clusterCache[name].state = "ready"

\* Delete of an object that is being deleted has no effect, of one that is gone
\* it is an error.
DeletesCluster == ~isClusterDeleted /\ ~clusterCache[name].deleting

deleteClusterResources ==
    clusters' = IF DeletesCluster /\ Exists(clusters[name])
                THEN [clusters EXCEPT ![name].deleting = TRUE] ELSE clusters

DeleteClusterFails == DeletesCluster /\ ~Exists(clusters[name])

isJobDeleted == spec.mode \in {"HTTPMode", "SidecarMode"} \/ submitterCache.phase = "absent"

deleteSubmitterJob ==
    submitter' = IF ~isJobDeleted /\ ~submitterCache.deleting /\ submitter.phase # "absent"
                 THEN [submitter EXCEPT !.deleting = TRUE] ELSE submitter

-----------------------------------------------------------------------------
(* Reconcile, branch by branch.                                            *)

SeesItsCreations ==
    /\ \A n \in Owned : Exists(clusters[n]) => Exists(clusterCache[n])
    /\ submitter.phase # "absent" => submitterCache.phase # "absent"

Takes == queued /\ (Prompt => SeesItsCreations)

Reconciles(phases) ==
    /\ cache.st.jds \in phases
    /\ Takes /\ cache.exists /\ ~cache.deleting /\ Valid(cache)
    /\ UNCHANGED <<spec, caches, edits>>

NotFound ==
    /\ Takes /\ ~cache.exists /\ Done
    /\ UNCHANGED <<spec, caches, edits, world>> /\ NothingStored

\* StopJob is tried unless the Ray job is over; the finalizer goes either way.
StopJobAndRemoveFinalizer ==
    /\ Takes /\ cache.exists /\ cache.deleting
    /\ \/ UNCHANGED ray
       \/ /\ ~IsJobTerminal(cache.st.js) /\ name # NoName
          /\ clusters[name].state = "ready" /\ ray[name] = "RUNNING"
          /\ ray' = [ray EXCEPT ![name] = "STOPPED"]
    /\ Stored([cache EXCEPT !.exists = FALSE, !.finalizer = FALSE]) \/ Lost
    /\ Requeue
    /\ UNCHANGED <<spec, caches, edits, clusters, submitter, svc>>

FailValidation ==
    /\ Takes /\ cache.exists /\ ~cache.deleting /\ ~Valid(cache)
    /\ updateRayJobStatus([cache.st EXCEPT !.jds = "ValidationFailed",
                                           !.reason = "ValidationFailed"])
    /\ queued' = (job'.st.jds # "ValidationFailed") /\ UNCHANGED timer
    /\ UNCHANGED <<spec, caches, edits, world>>

\* GenerateRayClusterName: the suffix is random.
GenerateRayClusterName == names + 1

initRayJobStatusIfNeed ==
    [cache.st EXCEPT !.jds = "Initializing",
                     !.name = IF spec.selector THEN Selected ELSE GenerateRayClusterName]

\* Bound: no more than MaxNames names.
Initialize ==
    /\ Reconciles({"New"})
    /\ cache.suspend \/ spec.selector \/ names < MaxNames
    /\ LET st == IF cache.suspend THEN [cache.st EXCEPT !.jds = "Suspended"]
                                  ELSE initRayJobStatusIfNeed
       IN \/ Stored([cache EXCEPT !.finalizer = TRUE,
                                  !.st = checkBackoffLimitAndUpdateStatusIfNeeded(st)])
          \/ Lost
          \/ /\ Fault /\ cache = job      \* stops after the finalizer is stored
             /\ job' = [job EXCEPT !.finalizer = TRUE]
             /\ UNCHANGED <<late, age, history>>
    /\ Requeue /\ UNCHANGED world

updateStatusToSuspendingIfNeeded ==
    /\ Reconciles({"Initializing", "Running"}) /\ cache.suspend
    /\ Finish([cache.st EXCEPT !.jds = "Suspending"])
    /\ UNCHANGED world

Fails(st, why) == [st EXCEPT !.jds = "Failed", !.reason = why]

\* Slip: the deadline is checked until the Ray job runs.
PastActive_Initializing ==
    spec.active /\ "active" \in late /\ cache.st.jds = "Initializing"

PastActive == spec.active /\ "active" \in late
PastPreRunning == spec.preRunning /\ "preRunning" \in late

checkActiveDeadlineAndUpdateStatusIfNeeded ==
    /\ Reconciles({"Initializing", "Running"}) /\ ~cache.suspend /\ PastActive
    /\ Finish(Fails(cache.st, "DeadlineExceeded"))
    /\ UNCHANGED world

checkPreRunningDeadlineAndUpdateStatusIfNeeded ==
    /\ \/ Reconciles({"Initializing"}) /\ ~cache.suspend /\ ~PastActive
       \/ Reconciles({"Waiting"})
    /\ PastPreRunning
    /\ Finish(Fails(cache.st, "PreRunningDeadlineExceeded"))
    /\ UNCHANGED world

Initializes ==
    Reconciles({"Initializing"}) /\ ~cache.suspend /\ ~PastActive /\ ~PastPreRunning

\* Create fails, or the selected RayCluster does not exist.
InitializingFails ==
    /\ Initializes
    /\ \/ RayClusterNotFound
       \/ /\ clusterCache[name].state = "ready"
          /\ spec.mode = "K8sJobMode" /\ K8sJobExists
    /\ Requeue /\ NothingStored /\ UNCHANGED world

WaitForRayCluster ==
    /\ Initializes
    /\ clusterCache[name].state # "ready" /\ getOrCreateRayClusterInstance
    /\ Finish(cache.st)
    /\ UNCHANGED <<submitter, ray, svc>>

Submit ==
    /\ Initializes
    /\ clusterCache[name].state = "ready"
    /\ \/ /\ spec.mode = "InteractiveMode" /\ UNCHANGED submitter
          /\ Finish([cache.st EXCEPT !.jds = "Waiting"])
       \/ /\ spec.mode # "InteractiveMode"
          /\ spec.mode = "K8sJobMode" => createK8sJobIfNeed
          /\ spec.mode # "K8sJobMode" => UNCHANGED submitter
          /\ Finish([cache.st EXCEPT !.jds = "Running"])
    /\ UNCHANGED <<clusters, ray, svc>>

\* Waiting looks at the pre-running deadline and at spec.jobId only.
WaitForJobId ==
    /\ Reconciles({"Waiting"}) /\ ~PastPreRunning
    /\ \/ ~cache.jobId /\ Requeue /\ NothingStored
       \/ cache.jobId /\ Finish([cache.st EXCEPT !.jds = "Running"])
    /\ UNCHANGED world

Runs == Reconciles({"Running"}) /\ ~cache.suspend /\ ~PastActive

\* Slip: the grace period waits for the submitter, too.
PastGrace_NeedsSubmitter ==
    /\ IsJobTerminal(cache.st.js) /\ "grace" \in late
    /\ HasSubmitter => Finished(submitterCache)

PastGrace == IsJobTerminal(cache.st.js) /\ "grace" \in late
PastCheck == cache.st.checkFailing /\ "check" \in late

checkTransitionGracePeriodAndUpdateStatusIfNeeded ==
    /\ Runs /\ PastGrace
    /\ Finish([cache.st EXCEPT !.jds = IF cache.st.js = "FAILED"
                                       THEN "Failed" ELSE "Complete",
                               !.reason = "GracePeriodExceeded"])
    /\ UNCHANGED world

checkJobStatusCheckTimeoutAndUpdateStatusIfNeeded ==
    /\ Runs /\ ~PastGrace /\ PastCheck
    /\ Finish(Fails(cache.st, "JobStatusCheckTimeoutExceeded"))
    /\ UNCHANGED world

RunningFails ==
    /\ Runs /\ ~PastGrace /\ ~PastCheck /\ RayClusterNotFound
    /\ Requeue /\ NothingStored /\ UNCHANGED world

\* Slip: an existing service is left alone.
reconcileServices_OnlyCreates ==
    svc' = IF spec.selector \/ svc # NoName THEN svc ELSE name

reconcileServices == svc' = IF spec.selector THEN svc ELSE name

\* The RayCluster and the service are there: the submitter comes next.
Watches ==
    /\ Runs /\ ~PastGrace /\ ~PastCheck
    /\ getOrCreateRayClusterInstance /\ reconcileServices
    /\ UNCHANGED submitter

PastSubmitter == HasSubmitter /\ Finished(submitterCache) /\ "submitter" \in late

\* The Kubernetes Job is not found: an error.
SubmitterNotFound ==
    /\ Watches /\ spec.mode = "K8sJobMode" /\ submitterCache.phase = "absent"
    /\ Requeue /\ NothingStored /\ UNCHANGED ray

checkSubmitterFinishedTimeoutAndUpdateStatusIfNeeded ==
    /\ Watches /\ PastSubmitter
    /\ Finish([Fails(cache.st, "GracePeriodExceeded") EXCEPT !.js = "FAILED"])
    /\ UNCHANGED ray

\* The submitter has failed, or the head Pod of a sidecar is gone.
SubmitterFailed ==
    HasSubmitter /\ \/ submitterCache.phase = "failed"
                    \/ spec.mode = "SidecarMode" /\ submitterCache.phase = "absent"

checkSubmitterAndUpdateStatusIfNeeded ==
    /\ Watches /\ SubmitterFailed /\ ~PastSubmitter
    /\ Finish(Fails(cache.st, IF cache.st.js = "FAILED" \/ submitterCache.phase = "absent"
                              THEN "AppFailed" ELSE "SubmissionFailed"))
    /\ UNCHANGED ray

\* The dashboard is asked about the Ray job.
GetJobInfo ==
    /\ Watches /\ ~PastSubmitter
    /\ HasSubmitter => submitterCache.phase \in {"active", "complete"}

Found == clusters[name].state = "ready" /\ ray[name] # ""
Missing == clusters[name].state = "ready" /\ ray[name] = ""

\* Slip: the verdict is taken for the deployment status.
StatusFrom_OneStatus(info) ==
    LET over == IsJobTerminal(info) /\ (HasSubmitter => Finished(submitterCache))
    IN [cache.st EXCEPT !.js = info, !.checkFailing = FALSE,
                        !.jds = IF over THEN info ELSE "Running",
                        !.reason = IF over /\ info = "FAILED" THEN "AppFailed" ELSE ""]

StatusFrom(info) ==
    LET over == IsJobTerminal(info) /\ (HasSubmitter => Finished(submitterCache))
    IN [cache.st EXCEPT !.js = info, !.checkFailing = FALSE,
                        !.jds = IF ~over THEN "Running"
                                ELSE IF info = "FAILED" THEN "Failed" ELSE "Complete",
                        !.reason = IF over /\ info = "FAILED" THEN "AppFailed" ELSE ""]

JobInfoFound ==
    /\ GetJobInfo /\ Found
    /\ Finish(StatusFrom(ray[name]))
    /\ UNCHANGED ray

\* HTTPMode submits; the reply may be an error, the Ray job being there or not.
reconcileHTTPModeJobNotFound ==
    /\ GetJobInfo /\ Missing /\ spec.mode = "HTTPMode"
    /\ \E ok, taken \in BOOLEAN :
         /\ ok => taken
         /\ ray' = IF taken THEN [ray EXCEPT ![name] = "RUNNING"] ELSE ray
         /\ Finish([cache.st EXCEPT !.checkFailing = ~ok])

JobNotFound ==
    /\ GetJobInfo /\ Missing /\ spec.mode # "HTTPMode"
    /\ IF HasSubmitter /\ Finished(submitterCache)
       THEN Finish(Fails(cache.st, "AppFailed"))
       ELSE Requeue /\ NothingStored
    /\ UNCHANGED ray

recordJobStatusCheckFailure ==
    /\ GetJobInfo
    /\ Finish([cache.st EXCEPT !.checkFailing = TRUE])
    /\ UNCHANGED ray

\* Slips: the former verdict stays; one of the two is enough.
Released_KeepsVerdict ==
    [cache.st EXCEPT !.name = NoName, !.reason = "", !.checkFailing = FALSE,
                     !.jds = IF @ = "Suspending" THEN "Suspended" ELSE "New"]

Released ==
    [cache.st EXCEPT !.name = NoName, !.reason = "", !.checkFailing = FALSE, !.js = "",
                     !.jds = IF @ = "Suspending" THEN "Suspended" ELSE "New"]

AllDeleted_ClusterOnly == isClusterDeleted

AllDeleted == isClusterDeleted /\ isJobDeleted

Release ==
    /\ Reconciles({"Suspending", "Retrying"})
    /\ deleteClusterResources
    /\ \/ /\ ~DeleteClusterFails /\ deleteSubmitterJob
          /\ \/ AllDeleted /\ Finish(Released)
             \/ ~AllDeleted /\ Requeue /\ NothingStored
       \/ /\ DeleteClusterFails \/ faults < MaxFaults
          /\ faults' = IF DeleteClusterFails THEN faults ELSE faults + 1
          /\ Requeue /\ UNCHANGED <<submitter, job, late, age, history>>
    /\ UNCHANGED <<ray, svc>>

Resume ==
    /\ Reconciles({"Suspended"}) /\ ~cache.suspend
    /\ Finish([cache.st EXCEPT !.js = "", !.jds = "New"])
    /\ UNCHANGED world

StaySuspended ==
    /\ Reconciles({"Suspended"}) /\ cache.suspend
    /\ Done /\ NothingStored /\ UNCHANGED world

\* A spec that is valid again does not leave ValidationFailed.
UnknownStatus ==
    /\ Reconciles({"ValidationFailed"})
    /\ Requeue /\ NothingStored /\ UNCHANGED world

-----------------------------------------------------------------------------
(* The deletion policies of a finished RayJob.                             *)

Finishes == Reconciles({"Complete", "Failed"}) /\ UNCHANGED <<submitter, ray, svc>>

isDeletionRuleMatched(r, st) == r.on \in {st.js, st.jds}

isDeletionActionCompleted(policy) ==
    CASE policy = "DeleteNone" -> TRUE
      [] policy = "DeleteSelf" -> FALSE
      [] policy = "DeleteCluster" ->
            ~Exists(clusterCache[name]) \/ clusterCache[name].deleting
      [] policy = "DeleteWorkers" ->
            \/ ~Exists(clusterCache[name]) \/ clusterCache[name].deleting
            \/ clusterCache[name].suspended

selectMostImpactfulRule(rules) ==
    LET impact == [DeleteSelf |-> 4, DeleteCluster |-> 3, DeleteWorkers |-> 2, DeleteNone |-> 1]
    IN CHOOSE r \in rules : \A s \in rules : impact[r.policy] >= impact[s.policy]

\* What the policy does, and whether the request fails.
executeDeletionPolicy(policy) ==
    CASE policy = "DeleteNone" -> UNCHANGED <<clusters, job>>
      [] policy = "DeleteCluster" -> deleteClusterResources /\ UNCHANGED job
      [] policy = "DeleteWorkers" ->
            /\ clusters' = IF Exists(clusters[name]) /\ clusterCache[name] = clusters[name]
                           THEN [clusters EXCEPT ![name].suspended = TRUE] ELSE clusters
            /\ UNCHANGED job
      [] policy = "DeleteSelf" ->
            /\ job' = IF job.exists THEN [job EXCEPT !.deleting = TRUE] ELSE job
            /\ UNCHANGED clusters

PolicyFails(policy) ==
    \/ policy = "DeleteCluster" /\ DeleteClusterFails
    \/ policy = "DeleteWorkers" /\ (~Exists(clusterCache[name])
                                    \/ clusterCache[name] # clusters[name])
    \/ policy = "DeleteSelf" /\ ~job.exists

\* The error wins over the requeue for the next rule.
Executes(policy, next) ==
    /\ executeDeletionPolicy(policy)
    /\ IF PolicyFails(policy) THEN Requeue ELSE next
    /\ UNCHANGED <<late, age, history, faults>>

NothingToDelete ==
    /\ Finishes
    /\ \/ spec.selector
       \/ spec.deletion = "none" /\ ~spec.shutdown
       \/ spec.deletion = "legacy" /\ cache.st.js \notin {"SUCCEEDED", "FAILED"}
    /\ Done /\ NothingStored /\ UNCHANGED clusters

matched == {r \in spec.rules : isDeletionRuleMatched(r, cache.st)}
pending == {r \in matched : age < r.ttl}
overdue == {r \in matched \ pending : ~isDeletionActionCompleted(r.policy)}

\* Slip: after an action nothing is requeued.
RequeueForNext_Never == Done

RequeueForNext ==
    IF pending = {} THEN Done
    ELSE RequeueAt((CHOOSE r \in pending : \A s \in pending : r.ttl <= s.ttl).ttl)

handleDeletionRules ==
    /\ Finishes /\ ~spec.selector /\ spec.deletion = "rules"
    /\ IF overdue = {}
       THEN RequeueForNext /\ NothingStored /\ UNCHANGED clusters
       ELSE Executes(selectMostImpactfulRule(overdue).policy, RequeueForNext)

\* onSuccess or onFailure, after ttlSecondsAfterFinished.
handleLegacyDeletionPolicy ==
    /\ Finishes /\ ~spec.selector /\ spec.deletion = "legacy"
    /\ cache.st.js \in {"SUCCEEDED", "FAILED"}
    /\ LET policy == IF cache.st.js = "SUCCEEDED" THEN spec.onSuccess ELSE spec.onFailure
       IN IF policy # "DeleteNone" /\ age < spec.ttl
          THEN RequeueAt(spec.ttl) /\ NothingStored /\ UNCHANGED clusters
          ELSE Executes(policy, Done)

\* DELETE_RAYJOB_CR_AFTER_JOB_FINISHES is not set.
handleShutdownAfterJobFinishes ==
    /\ Finishes /\ ~spec.selector /\ spec.deletion = "none" /\ spec.shutdown
    /\ IF age < spec.ttl
       THEN RequeueAt(spec.ttl) /\ NothingStored /\ UNCHANGED clusters
       ELSE Executes("DeleteCluster", Done)

-----------------------------------------------------------------------------
(* The rest of the world.                                                  *)

Reconcile ==
    \/ NotFound \/ StopJobAndRemoveFinalizer \/ FailValidation \/ Initialize
    \/ updateStatusToSuspendingIfNeeded
    \/ checkActiveDeadlineAndUpdateStatusIfNeeded
    \/ checkPreRunningDeadlineAndUpdateStatusIfNeeded
    \/ InitializingFails \/ WaitForRayCluster \/ Submit \/ WaitForJobId
    \/ checkTransitionGracePeriodAndUpdateStatusIfNeeded
    \/ checkJobStatusCheckTimeoutAndUpdateStatusIfNeeded
    \/ RunningFails \/ SubmitterNotFound
    \/ checkSubmitterFinishedTimeoutAndUpdateStatusIfNeeded
    \/ checkSubmitterAndUpdateStatusIfNeeded
    \/ JobInfoFound \/ reconcileHTTPModeJobNotFound \/ JobNotFound
    \/ recordJobStatusCheckFailure
    \/ Release \/ Resume \/ StaySuspended \/ UnknownStatus
    \/ NothingToDelete \/ handleDeletionRules \/ handleLegacyDeletionPolicy
    \/ handleShutdownAfterJobFinishes

SyncJob ==
    /\ cache # job /\ cache' = job /\ queued' = TRUE
    /\ UNCHANGED <<spec, job, clusterCache, submitterCache, world, late, age, timer,
                   history, edits, faults>>

\* Events of RayClusters that the RayJob does not own do not reach the queue.
SyncCluster(n) ==
    /\ clusterCache[n] # clusters[n]
    /\ clusterCache' = [clusterCache EXCEPT ![n] = clusters[n]]
    /\ queued' = (queued \/ n \in Owned)
    /\ UNCHANGED <<spec, job, cache, submitterCache, world, late, age, timer,
                   history, edits, faults>>

SyncSubmitter ==
    /\ submitterCache # submitter /\ submitterCache' = submitter
    /\ queued' = (queued \/ spec.mode = "K8sJobMode")
    /\ UNCHANGED <<spec, job, cache, clusterCache, world, late, age, timer,
                   history, edits, faults>>

World == UNCHANGED <<spec, job, caches, svc, age, queued, timer, names, resumed>>

\* The head Pod runs, its sidecar with it: the operator's cache of Pods is the
\* one that the ready state was computed from.
ClusterReady(n) ==
    /\ clusters[n].state = "pending"
    /\ clusters' = [clusters EXCEPT ![n].state = "ready"]
    /\ IF spec.mode = "SidecarMode"
       THEN /\ submitter' = [of |-> n, phase |-> "active", deleting |-> FALSE]
            /\ submitterCache' = submitter'
            /\ late' = late \ {"submitter"}
       ELSE UNCHANGED <<submitter, submitterCache, late>>
    /\ UNCHANGED <<spec, job, cache, clusterCache, ray, svc, age, queued, timer,
                   history, edits, faults>>

WithoutSidecar(n) ==
    submitter' = IF spec.mode = "SidecarMode" /\ submitter.of = n THEN NoSubmitter
                 ELSE submitter

ClusterDeleted(n) ==
    /\ Exists(clusters[n]) /\ clusters[n].deleting
    /\ clusters' = [clusters EXCEPT ![n] = Absent]
    /\ ray' = [ray EXCEPT ![n] = ""] /\ WithoutSidecar(n)
    /\ World /\ UNCHANGED <<late, won, edits, faults>>

SubmitterDeleted ==
    /\ submitter.deleting /\ submitter' = NoSubmitter
    /\ late' = late \ {"submitter"}
    /\ World /\ UNCHANGED <<clusters, ray, won, edits, faults>>

SubmitterSubmits ==
    /\ submitter.phase = "active" /\ clusters[submitter.of].state = "ready"
    /\ ray[submitter.of] = ""
    /\ ray' = [ray EXCEPT ![submitter.of] = "RUNNING"]
    /\ World /\ UNCHANGED <<clusters, submitter, late, won, edits, faults>>

SubmitterEnds ==
    /\ submitter.phase = "active"
    /\ \E p \in {"complete", "failed"} : submitter' = [submitter EXCEPT !.phase = p]
    /\ World /\ UNCHANGED <<clusters, ray, late, won, edits, faults>>

RayJobEnds(n) ==
    /\ ray[n] = "RUNNING" /\ clusters[n].state = "ready"
    /\ \E v \in Verdicts : /\ ray' = [ray EXCEPT ![n] = v]
                           /\ won' = IF v = "SUCCEEDED" THEN won \cup {n} ELSE won
    /\ World /\ UNCHANGED <<clusters, submitter, late, edits, faults>>

\* The head Pod is replaced and the Ray job forgotten.
HeadLost(n) ==
    /\ clusters[n].state = "ready" /\ ray[n] # "" /\ Fault
    /\ ray' = [ray EXCEPT ![n] = ""] /\ WithoutSidecar(n)
    /\ World /\ UNCHANGED <<clusters, late, won, edits>>

OperatorRestarts ==
    /\ Fault
    /\ cache' = job /\ clusterCache' = clusters /\ submitterCache' = submitter
    /\ queued' = TRUE /\ timer' = NoTimer
    /\ UNCHANGED <<spec, job, world, late, age, history, edits>>

Armed(d) ==
    CASE d = "active" -> spec.active /\ job.st.jds \in {"Initializing", "Waiting", "Running"}
      [] d = "preRunning" -> spec.preRunning /\ job.st.jds \in {"Initializing", "Waiting"}
      [] d = "grace" -> job.st.jds = "Running" /\ IsJobTerminal(job.st.js)
      [] d = "check" -> job.st.jds = "Running" /\ job.st.checkFailing
      [] d = "submitter" -> job.st.jds = "Running" /\ Finished(submitter)

DeadlinePasses(d) ==
    /\ job.exists /\ d \notin late /\ Armed(d) /\ late' = late \cup {d}
    /\ World /\ UNCHANGED <<clusters, submitter, ray, won, edits, faults>>

\* Time is followed up to the last time to live.
Ages ==
    /\ IsJobDeploymentTerminal(job.st.jds) /\ job.exists
    /\ age < spec.ttl \/ \E r \in spec.rules : age < r.ttl
    /\ age' = age + 1
    /\ queued' = (queued \/ timer <= age')
    /\ timer' = IF timer <= age' THEN NoTimer ELSE timer
    /\ UNCHANGED <<spec, job, caches, world, late, history, edits, faults>>

\* The garbage collector follows the owner references.
GarbageCollected ==
    /\ ~job.exists
    /\ \/ \E n \in Owned : /\ Exists(clusters[n]) /\ ~clusters[n].deleting
                           /\ clusters' = [clusters EXCEPT ![n].deleting = TRUE]
                           /\ UNCHANGED submitter
       \/ /\ spec.mode = "K8sJobMode" /\ submitter.phase # "absent" /\ ~submitter.deleting
          /\ submitter' = [submitter EXCEPT !.deleting = TRUE] /\ UNCHANGED clusters
    /\ World /\ UNCHANGED <<ray, late, won, edits, faults>>

Edit == edits < MaxEdits /\ edits' = edits + 1

EditSuspend ==
    /\ Edit /\ job.exists /\ job' = [job EXCEPT !.suspend = ~@]
    /\ UNCHANGED <<spec, caches, world, late, age, queued, timer, history, faults>>

\* Without the finalizer the RayJob is gone at once.
EditDelete ==
    /\ Edit /\ job.exists /\ ~job.deleting
    /\ job' = [job EXCEPT !.deleting = TRUE, !.exists = job.finalizer]
    /\ UNCHANGED <<spec, caches, world, late, age, queued, timer, history, faults>>

\* Any RayCluster, the selected one included, and the Kubernetes Job.
EditDrop ==
    /\ Edit
    /\ \/ \E n \in Names : /\ Exists(clusters[n]) /\ ~clusters[n].deleting
                           /\ clusters' = [clusters EXCEPT ![n].deleting = TRUE]
                           /\ UNCHANGED submitter
       \/ /\ spec.mode = "K8sJobMode" /\ submitter.phase # "absent" /\ ~submitter.deleting
          /\ submitter' = [submitter EXCEPT !.deleting = TRUE] /\ UNCHANGED clusters
    /\ World /\ UNCHANGED <<ray, late, won, faults>>

\* In InteractiveMode the user submits the Ray job, then tells its id.
UserSubmits ==
    /\ spec.mode = "InteractiveMode" /\ job.exists /\ ~job.jobId
    /\ job.st.jds = "Waiting" /\ clusters[job.st.name].state = "ready"
    /\ ray' = [ray EXCEPT ![job.st.name] = "RUNNING"]
    /\ job' = [job EXCEPT !.jobId = TRUE]
    /\ UNCHANGED <<spec, caches, clusters, submitter, svc, late, age, queued, timer,
                   history, edits, faults>>

Sync == SyncJob \/ SyncSubmitter \/ \E n \in Names : SyncCluster(n)
Deletion == SubmitterDeleted \/ GarbageCollected \/ \E n \in Names : ClusterDeleted(n)
Time == Ages \/ \E d \in Deadlines : DeadlinePasses(d)

Next ==
    \/ Reconcile \/ Sync \/ Deletion \/ Time
    \/ SubmitterSubmits \/ SubmitterEnds \/ UserSubmits
    \/ \E n \in Names : ClusterReady(n) \/ RayJobEnds(n) \/ HeadLost(n)
    \/ OperatorRestarts \/ EditSuspend \/ EditDelete \/ EditDrop

Spec == Init /\ [][Next]_vars

\* Workers take the key, watches deliver, deletions end and time passes.
\* Nothing else is promised: neither that a RayCluster becomes ready nor that a
\* Ray job ends.
FairSpec ==
    /\ Spec /\ WF_vars(Reconcile) /\ WF_vars(Sync)
    /\ WF_vars(Deletion) /\ WF_vars(Time)

-----------------------------------------------------------------------------

\* RayJob implements RayJobLifecycle: whatever the caches show, the status moves
\* only along its steps, and resources are held only in the states that allow it.
\* A RayJob that is deleted leaves the life cycle; the collector frees the rest.
Held == \/ \E n \in Owned : Exists(clusters[n])
        \/ submitter.phase # "absent"

Lifecycle == INSTANCE RayJobLifecycle
                 WITH backoff <- spec.backoff, phase <- job.st.jds,
                      live <- Held, failures <- job.st.failed

ImplementsLifecycle == Lifecycle!LSpec

\* The RayCluster and the submitter that exist are those of the attempt that the
\* status records: the Suspending and Retrying branches forget a name only once
\* everything under it is gone, and a new attempt starts from nothing.
NothingLeftBehind ==
    /\ \A n \in Owned : Exists(clusters[n]) => n = job.st.name
    /\ submitter.phase # "absent" => submitter.of = job.st.name

\* A RayJob fails at most backoffLimit + 1 times, and makes a new RayCluster for
\* its first attempt, for each failure and for each resumption only.
RetriesBounded ==
    /\ job.st.failed <= spec.backoff + 1
    /\ names <= job.st.failed + resumed + 1

\* JobStatus SUCCEEDED is the verdict of a Ray job of the current attempt, never
\* one that an earlier attempt left in the status.
SuccessIsReal == job.st.js = "SUCCEEDED" => job.st.name \in won

\* Once the RayJob has reported on its Ray job, its head service selects the
\* RayCluster of that attempt.
ServiceFollowsAttempt ==
    job.st.js # "" /\ ~spec.selector => svc = job.st.name

\* Whatever the caches show and whenever the operator stops, a RayJob with an
\* active deadline comes to rest: finished, rejected, suspended as asked, or gone.
\* (In Waiting only the pre-running deadline counts.)
Settles ==
    spec.active /\ (spec.mode = "InteractiveMode" => spec.preRunning) =>
        <>[](\/ ~job.exists
             \/ job.st.jds \in {"Complete", "Failed", "ValidationFailed"}
             \/ job.st.jds = "Suspended" /\ job.suspend)

\* A verdict that the status records ends the attempt, even if the submitter never
\* ends and no deadline is set: the grace period sees to it.  (Only a RayCluster
\* made anew under the same name takes the verdict back.)
VerdictEndsAttempt ==
    job.st.jds = "Running" /\ IsJobTerminal(job.st.js) ~>
        job.st.jds # "Running" \/ ~IsJobTerminal(job.st.js) \/ ~job.exists

\* A suspension that has begun is completed: the RayCluster and the submitter are
\* asked to go until both are gone, whatever they were doing.
SuspendingCompletes ==
    job.st.jds = "Suspending" ~> job.st.jds = "Suspended" \/ ~job.exists

\* The policies that apply to a finished RayJob.
Demanded(policy) ==
    /\ IsJobDeploymentTerminal(job.st.jds) /\ ~spec.selector
    /\ \/ spec.deletion = "none" /\ spec.shutdown /\ policy = "DeleteCluster"
       \/ /\ spec.deletion = "rules"
          /\ \E r \in spec.rules : r.policy = policy /\ isDeletionRuleMatched(r, job.st)
       \/ /\ spec.deletion = "legacy"
          /\ \/ job.st.js = "SUCCEEDED" /\ spec.onSuccess = policy
             \/ job.st.js = "FAILED" /\ spec.onFailure = policy

\* Every deletion that the policies ask for happens in the end, although each
\* reconcile carries out one of them and most requests for another are implicit.
CleansUp ==
    <>[](\/ job.st.jds = "ValidationFailed"
         \/ /\ Demanded("DeleteCluster") => \A n \in Owned : ~Exists(clusters[n])
            /\ Demanded("DeleteWorkers") =>
                 \A n \in Owned : Exists(clusters[n]) => clusters[n].suspended
            /\ Demanded("DeleteSelf") => ~job.exists)

=============================================================================
