----------------------------- MODULE RayJob_proofs -----------------------------
(***************************************************************************)
(* What the status of a RayJob says is true, for every spec, every number  *)
(* of names, edits and faults, and however far the caches lag.             *)
(*                                                                         *)
(* A status is stored only over the version it was computed from, so every *)
(* step either leaves the status alone or is one of seven kinds of step of *)
(* the current status (StatusStep).  The first part shows that, action by  *)
(* action; the second that these steps preserve the invariant; the third   *)
(* is about what a RayJob creates and that it implements RayJobLifecycle.  *)
(***************************************************************************)
EXTENDS RayJob, TLAPS, WellFoundedInduction

Working == {"Initializing", "Waiting", "Running"}

\* The parts of the state the invariant speaks about have their types.
Typed ==
    /\ spec \in Spec_ /\ job \in Object /\ cache \in Object
    /\ ray \in [Names -> JobStatuses] /\ names \in Nat /\ resumed \in Nat

\* The history that goes with a stored status.
Recorded(new) ==
    /\ cache = job /\ job' \in Object /\ job'.st = new /\ new \in Status
    /\ names' = IF new.name \in Owned /\ new.name > names THEN new.name ELSE names
    /\ resumed' = IF job.st.jds = "Suspended" /\ new.jds = "New" THEN resumed + 1 ELSE resumed
Unrecorded ==
    job' \in Object /\ job'.st = job.st /\ names' = names /\ resumed' = resumed

\* The kinds of steps from the status st to the status new.
Kept(st, new) == new.name = st.name /\ new.failed = st.failed
Begins(st, new) ==
    /\ st.jds = "New" /\ new.jds = "Initializing"
    /\ new.js = st.js /\ new.failed = st.failed
    /\ new.name \in Names /\ (new.name \in Owned => new.name = names + 1)
    /\ ~spec.selector => new.name # Selected
Parks(st, new) ==
    st.jds = "New" /\ new.jds = "Suspended" /\ new.js = st.js /\ Kept(st, new)
Learns(st, new) ==
    \/ new.js = st.js
    \/ /\ svc' = IF spec.selector THEN svc ELSE st.name
       /\ new.js = "FAILED" \/ (st.jds = "Running" /\ new.js = ray[st.name])
Goes(from, to) ==
    \/ to = from
    \/ from = "Initializing" /\ to \in {"Waiting", "Running", "Suspending"}
    \/ from = "Waiting" /\ to = "Running"
    \/ from = "Running" /\ to \in {"Suspending", "Complete"}
Works(st, new) ==
    /\ st.jds \in Working /\ Goes(st.jds, new.jds)
    /\ new.jds = "Suspending" => UNCHANGED <<clusters, submitter>>
    /\ Learns(st, new) /\ Kept(st, new)
Fails1(st, new) ==
    /\ st.jds \in Working /\ new.jds \in {"Failed", "Retrying"}
    /\ Learns(st, new) /\ new.name = st.name
    /\ new.failed = st.failed + 1 /\ (new.jds = "Retrying" => new.failed <= spec.backoff)
Releases(st, new) ==
    /\ st.jds \in {"Suspending", "Retrying"} /\ Takes /\ AllDeleted
    /\ new.jds = IF st.jds = "Suspending" THEN "Suspended" ELSE "New"
    /\ new.name = NoName /\ new.js = "" /\ new.failed = st.failed
Resumes(st, new) ==
    st.jds = "Suspended" /\ new.jds = "New" /\ new.js = "" /\ Kept(st, new)
Rejects(st, new) ==
    /\ new.jds = "ValidationFailed" /\ new.js = st.js /\ Kept(st, new)
    /\ UNCHANGED <<clusters, submitter>>

StatusStep(st, new) ==
    \/ new = st
    \/ Begins(st, new) \/ Parks(st, new) \/ Works(st, new) \/ Fails1(st, new)
    \/ Releases(st, new) \/ Resumes(st, new) \/ Rejects(st, new)

Effect == Unrecorded \/ \E new : Recorded(new) /\ StatusStep(job.st, new)

------------------------------------------------------------------------------
\* Constants.
LEMMA NamesFact ==
    /\ MaxNames \in Nat /\ Selected \in Nat /\ Owned \subseteq Names
    /\ Names \subseteq 0..Selected /\ Selected \in Names /\ Selected \notin Owned
    /\ NoName \notin Names /\ NoName \in 0..Selected
BY RayJobAssumption DEF Selected, Owned, Names, NoName

\* The retry decision (checkBackoffLimitAndUpdateStatusIfNeeded): a status that is not
\* Failed keeps everything but the number of successes; one that is counts one failure
\* more and is tried again only below the limit.
LEMMA BackoffStep ==
    ASSUME NEW st \in Status, spec.backoff \in Nat,
           NEW new, new = checkBackoffLimitAndUpdateStatusIfNeeded(st)
    PROVE  /\ new \in Status /\ new.name = st.name /\ new.js = st.js
           /\ st.jds # "Failed" => new.jds = st.jds /\ new.failed = st.failed
           /\ st.jds = "Failed" =>
                /\ new.jds \in {"Failed", "Retrying"} /\ new.failed = st.failed + 1
                /\ new.jds = "Retrying" => new.failed <= spec.backoff
<1>1. st.failed + 1 \in Nat /\ st.succeeded + 1 \in Nat
  BY DEF Status
<1>2. CASE st.jds = "Failed"
  <2> DEFINE f == st.failed + 1
             jds == IF /\ f < spec.backoff + 1
                       /\ st.reason \notin {"DeadlineExceeded", "JobStatusCheckTimeoutExceeded"}
                    THEN "Retrying" ELSE st.jds
  <2>1. new = [st EXCEPT !.failed = f, !.succeeded = st.succeeded, !.jds = jds]
    BY <1>2 DEF checkBackoffLimitAndUpdateStatusIfNeeded
  <2>2. jds \in {"Failed", "Retrying"} /\ (jds = "Retrying" => f <= spec.backoff) /\ f \in Nat
    BY <1>1, <1>2
  <2> HIDE DEF f, jds
  <2>3. /\ new \in Status /\ new.name = st.name /\ new.js = st.js
        /\ new.jds = jds /\ new.failed = f
    BY <2>1, <2>2, Zenon DEF Status, Phases
  <2> QED
    BY <1>2, <2>2, <2>3 DEF f
<1>3. CASE st.jds # "Failed" /\ st.jds = "Complete" /\ st.js = "SUCCEEDED"
  BY <1>1, <1>3, Zenon DEF checkBackoffLimitAndUpdateStatusIfNeeded, Status, Phases
<1>4. CASE st.jds # "Failed" /\ ~(st.jds = "Complete" /\ st.js = "SUCCEEDED")
  BY <1>1, <1>4, Zenon DEF checkBackoffLimitAndUpdateStatusIfNeeded, Status, Phases
<1> QED
  BY <1>2, <1>3, <1>4

\* A status is stored over the version it was computed from, or not at all
\* (updateRayJobStatus).
LEMMA UpdateStep ==
    ASSUME Typed, NEW st \in Status, updateRayJobStatus(st)
    PROVE  Recorded(st) \/ Unrecorded
BY DEF updateRayJobStatus, Stored, Lost, Recorded, Unrecorded, Object, history, Typed

\* Both together (the end of Reconcile).
LEMMA FinishStep ==
    ASSUME Typed, NEW st \in Status, Finish(st)
    PROVE  \/ Unrecorded
           \/ \E new : /\ Recorded(new) /\ new.name = st.name /\ new.js = st.js
                       /\ st.jds # "Failed" => new.jds = st.jds /\ new.failed = st.failed
                       /\ st.jds = "Failed" =>
                            /\ new.jds \in {"Failed", "Retrying"} /\ new.failed = st.failed + 1
                            /\ new.jds = "Retrying" => new.failed <= spec.backoff
<1>1. spec.backoff \in Nat
  BY NamesFact DEF Typed, Spec_
<1> DEFINE new == checkBackoffLimitAndUpdateStatusIfNeeded(st)
<1>2. /\ new \in Status /\ new.name = st.name /\ new.js = st.js
      /\ st.jds # "Failed" => new.jds = st.jds /\ new.failed = st.failed
      /\ st.jds = "Failed" =>
            /\ new.jds \in {"Failed", "Retrying"} /\ new.failed = st.failed + 1
            /\ new.jds = "Retrying" => new.failed <= spec.backoff
  BY <1>1, BackoffStep
<1>3. updateRayJobStatus(new)
  BY DEF Finish
<1> HIDE DEF new
<1>4. Recorded(new) \/ Unrecorded
  BY <1>2, <1>3, UpdateStep
<1> QED
  BY <1>2, <1>4

\* The status of a working RayJob with another phase, verdict or reason.
LEMMA WorkStep ==
    ASSUME Typed, cache.st.jds \in Working, NEW st \in Status, Finish(st),
           Learns(cache.st, st), Kept(cache.st, st),
           st.jds = "Failed" \/ Goes(cache.st.jds, st.jds),
           st.jds = "Suspending" => UNCHANGED <<clusters, submitter>>
    PROVE  Effect
<1>1. ASSUME NEW new, Recorded(new), new.name = st.name, new.js = st.js,
             st.jds # "Failed" => new.jds = st.jds /\ new.failed = st.failed,
             st.jds = "Failed" =>
                /\ new.jds \in {"Failed", "Retrying"} /\ new.failed = st.failed + 1
                /\ new.jds = "Retrying" => new.failed <= spec.backoff
      PROVE  StatusStep(job.st, new)
  <2>1. job = cache
    BY <1>1 DEF Recorded
  <2>2. Learns(job.st, new) /\ new.name = job.st.name /\ st.failed = job.st.failed
    BY <1>1, <2>1 DEF Learns, Kept
  <2>3. CASE st.jds = "Failed"
    BY <1>1, <2>1, <2>2, <2>3 DEF StatusStep, Fails1
  <2>4. CASE st.jds # "Failed"
    BY <1>1, <2>1, <2>2, <2>4 DEF StatusStep, Works, Kept
  <2> QED
    BY <2>3, <2>4
<1> QED
  BY <1>1, FinishStep DEF Effect

\* The status of a RayJob that does not fail in this step.
LEMMA FinishesAs ==
    ASSUME Typed, NEW x \in Status, Finish(x), x.jds # "Failed",
           \A new : /\ new.jds = x.jds /\ new.js = x.js /\ new.name = x.name
                    /\ new.failed = x.failed
                    => StatusStep(cache.st, new)
    PROVE  Effect
<1>1. CASE Unrecorded
  BY <1>1 DEF Effect
<1>2. CASE ~Unrecorded
  <2>1. PICK new : /\ Recorded(new) /\ new.name = x.name /\ new.js = x.js
                   /\ new.jds = x.jds /\ new.failed = x.failed
    BY <1>2, FinishStep
  <2>2. StatusStep(cache.st, new) /\ cache = job
    BY <2>1 DEF Recorded
  <2> QED
    BY <2>1, <2>2 DEF Effect
<1> QED
  BY <1>1, <1>2

\* The rule that handleDeletionRules applies is one of the overdue ones.
LEMMA MostImpactful ==
    ASSUME NEW rules, rules # {}, \A r \in rules : r.policy \in Policies
    PROVE  selectMostImpactfulRule(rules) \in rules
<1> DEFINE impact == [DeleteSelf |-> 4, DeleteCluster |-> 3, DeleteWorkers |-> 2, DeleteNone |-> 1]
<1>1. \E r \in rules : \A s \in rules : impact[r.policy] >= impact[s.policy]
  <2> DEFINE Has(p) == \E r \in rules : r.policy = p
  <2>1. CASE Has("DeleteSelf")
    BY <2>1 DEF Policies
  <2>2. CASE ~Has("DeleteSelf") /\ Has("DeleteCluster")
    BY <2>2 DEF Policies
  <2>3. CASE ~Has("DeleteSelf") /\ ~Has("DeleteCluster") /\ Has("DeleteWorkers")
    BY <2>3 DEF Policies
  <2>4. CASE ~Has("DeleteSelf") /\ ~Has("DeleteCluster") /\ ~Has("DeleteWorkers")
    BY <2>4 DEF Policies
  <2> QED
    BY <2>1, <2>2, <2>3, <2>4
<1> QED
  BY <1>1 DEF selectMostImpactfulRule

\* Every branch of Reconcile has the effect of one of the seven steps on the current
\* status, or none.
LEMMA ReconcileEffect ==
    ASSUME Typed, job.st.jds \in Working => job.st.name \in Names, Reconcile
    PROVE  Effect
<1> DEFINE st == cache.st
<1>st. st \in Status
  BY DEF Typed, Object
<1>un. ASSUME NothingStored PROVE Effect
  BY <1>un DEF NothingStored, history, Effect, Unrecorded, Typed
<1>wo. ASSUME st.jds \in Working, NEW x \in Status, Finish(x),
              x.jds = "Failed" \/ Goes(st.jds, x.jds),
              x.jds = "Suspending" => UNCHANGED <<clusters, submitter>>,
              x.name = st.name, x.failed = st.failed, x.js = st.js
       PROVE  Effect
  BY <1>wo, WorkStep DEF Learns, Kept
<1>jd. ASSUME st.jds \in Working, NEW jds \in Phases, Goes(st.jds, jds),
              jds = "Suspending" => UNCHANGED <<clusters, submitter>>,
              Finish([st EXCEPT !.jds = jds])
       PROVE  Effect
  <2> DEFINE x == [st EXCEPT !.jds = jds]
  <2>1. x \in Status /\ x.jds = jds /\ x.name = st.name /\ x.failed = st.failed /\ x.js = st.js
    BY <1>st, <1>jd DEF Status
  <2> HIDE DEF x
  <2> QED
    BY <1>wo, <1>jd, <2>1, Zenon DEF x
<1>fa. ASSUME st.jds \in Working, NEW why \in Reasons, Finish(Fails(st, why))
       PROVE  Effect
  <2> DEFINE x == Fails(st, why)
  <2>1. x \in Status /\ x.jds = "Failed" /\ x.name = st.name /\ x.failed = st.failed /\ x.js = st.js
    BY <1>st, Zenon DEF Status, Phases, Fails
  <2> HIDE DEF x
  <2> QED
    BY <1>wo, <1>fa, <2>1 DEF x
<1>re. \A x \in {"", "AppFailed", "SubmissionFailed", "DeadlineExceeded",
                 "PreRunningDeadlineExceeded", "JobStatusCheckTimeoutExceeded",
                 "GracePeriodExceeded"} : x \in Reasons
  BY Zenon DEF Reasons
<1>1. CASE NotFound
  BY <1>1, <1>un DEF NotFound
<1>2. CASE StopJobAndRemoveFinalizer
  <2>1. CASE Lost
    BY <2>1 DEF Lost, Effect, Unrecorded, history, Typed
  <2>2. CASE Stored([cache EXCEPT !.exists = FALSE, !.finalizer = FALSE])
    <3> DEFINE o == [cache EXCEPT !.exists = FALSE, !.finalizer = FALSE]
    <3>1. o \in Object /\ o.st = st
      BY Zenon DEF Typed, Object
    <3> HIDE DEF o
    <3>2. Recorded(job.st)
      BY <1>st, <2>2, <3>1 DEF o, Stored, Recorded
    <3> QED
      BY <3>2 DEF Effect, StatusStep
  <2> QED
    BY <1>2, <2>1, <2>2 DEF StopJobAndRemoveFinalizer
<1>3. CASE FailValidation
  <2> DEFINE x == [st EXCEPT !.jds = "ValidationFailed", !.reason = "ValidationFailed"]
  <2>1. /\ x \in Status /\ x.jds = "ValidationFailed" /\ x.js = st.js
        /\ x.name = st.name /\ x.failed = st.failed
    BY <1>st, Zenon DEF Status, Phases, Reasons
  <2>2. updateRayJobStatus(x) /\ UNCHANGED <<clusters, submitter>>
    BY <1>3 DEF FailValidation, world
  <2> HIDE DEF x
  <2> QED
    BY <2>1, <2>2, UpdateStep DEF Effect, StatusStep, Rejects, Kept, Recorded
<1>4. CASE Initialize
  <2> DEFINE x == IF cache.suspend THEN [st EXCEPT !.jds = "Suspended"]
                                   ELSE initRayJobStatusIfNeed
             y == checkBackoffLimitAndUpdateStatusIfNeeded(x)
  <2>1. st.jds = "New" /\ (cache.suspend \/ spec.selector \/ names < MaxNames)
    BY <1>4 DEF Initialize, Reconciles
  <2>2. /\ x \in Status /\ x.js = st.js /\ x.failed = st.failed
        /\ \/ x.jds = "Suspended" /\ x.name = st.name
           \/ /\ x.jds = "Initializing" /\ x.name \in Names
              /\ x.name \in Owned => x.name = names + 1
              /\ ~spec.selector => x.name # Selected
    <3>1. CASE cache.suspend
      BY <1>st, <3>1 DEF Status, Phases
    <3>2. CASE ~cache.suspend
      <4> DEFINE n == IF spec.selector THEN Selected ELSE names + 1
      <4>1. /\ n \in Names /\ n \in 0..Selected /\ (n \in Owned => n = names + 1)
            /\ ~spec.selector => n # Selected
        BY <2>1, <3>2, RayJobAssumption DEF Selected, Owned, Names, Typed
      <4>2. x = [st EXCEPT !.jds = "Initializing", !.name = n]
        BY <3>2 DEF initRayJobStatusIfNeed, GenerateRayClusterName
      <4> HIDE DEF n
      <4> QED
        BY <1>st, <4>1, <4>2, Zenon DEF Status, Phases
    <3> QED
      BY <3>1, <3>2
  <2>3. y \in Status /\ y.name = x.name /\ y.js = x.js /\ y.jds = x.jds /\ y.failed = x.failed
    <3>1. spec.backoff \in Nat
      BY NamesFact DEF Typed, Spec_
    <3> HIDE DEF x
    <3> QED
      BY <2>2, <3>1, BackoffStep
  <2>4. \/ Stored([cache EXCEPT !.finalizer = TRUE, !.st = y])
        \/ Lost
        \/ job' = [job EXCEPT !.finalizer = TRUE] /\ UNCHANGED history
    BY <1>4 DEF Initialize
  <2> HIDE DEF x, y
  <2>5. CASE Stored([cache EXCEPT !.finalizer = TRUE, !.st = y])
    <3> DEFINE o == [cache EXCEPT !.finalizer = TRUE, !.st = y]
    <3>1. o \in Object /\ o.st = y
      BY <2>3, Zenon DEF Typed, Object
    <3> HIDE DEF o
    <3>2. Recorded(y)
      BY <2>3, <2>5, <3>1 DEF o, Stored, Recorded
    <3> QED
      BY <2>1, <2>2, <2>3, <3>2 DEF Effect, StatusStep, Begins, Parks, Kept, Recorded
  <2>6. CASE Lost
    BY <2>6 DEF Lost, Effect, Unrecorded, history, Typed
  <2>7. CASE job' = [job EXCEPT !.finalizer = TRUE] /\ UNCHANGED history
    BY <2>7, Zenon DEF Effect, Unrecorded, history, Typed, Object
  <2> QED
    BY <2>4, <2>5, <2>6, <2>7
<1>5. CASE updateStatusToSuspendingIfNeeded
  BY <1>5, <1>jd DEF updateStatusToSuspendingIfNeeded, world, Reconciles, Working, Goes, Phases
<1>6. CASE checkActiveDeadlineAndUpdateStatusIfNeeded
  BY <1>6, <1>fa, <1>re, Zenon DEF checkActiveDeadlineAndUpdateStatusIfNeeded, Reconciles, Working
<1>7. CASE checkPreRunningDeadlineAndUpdateStatusIfNeeded
  BY <1>7, <1>fa, <1>re, Zenon DEF checkPreRunningDeadlineAndUpdateStatusIfNeeded, Reconciles, Working
<1>8. CASE InitializingFails
  BY <1>8, <1>un DEF InitializingFails
<1>9. CASE WaitForRayCluster
  BY <1>9, <1>st, <1>wo DEF WaitForRayCluster, Initializes, Reconciles, Working, Goes
<1>10. CASE Submit
  BY <1>10, <1>jd DEF Submit, Initializes, Reconciles, Working, Goes, Phases
<1>11. CASE WaitForJobId
  BY <1>11, <1>jd, <1>un DEF WaitForJobId, Reconciles, Working, Goes, Phases
<1>12. CASE checkTransitionGracePeriodAndUpdateStatusIfNeeded
  <2> DEFINE x == [st EXCEPT !.jds = IF st.js = "FAILED" THEN "Failed" ELSE "Complete",
                             !.reason = "GracePeriodExceeded"]
  <2>1. Finish(x) /\ st.jds = "Running"
    BY <1>12 DEF checkTransitionGracePeriodAndUpdateStatusIfNeeded, Runs, Reconciles
  <2>2. /\ x \in Status /\ x.jds \in {"Failed", "Complete"}
        /\ x.name = st.name /\ x.failed = st.failed /\ x.js = st.js
    BY <1>st, <1>re, Zenon DEF Status, Phases
  <2> HIDE DEF x
  <2> QED
    BY <1>wo, <2>1, <2>2 DEF Working, Goes
<1>13. CASE checkJobStatusCheckTimeoutAndUpdateStatusIfNeeded
  BY <1>13, <1>fa, <1>re, Zenon DEF checkJobStatusCheckTimeoutAndUpdateStatusIfNeeded, Runs,
     Reconciles, Working
<1>14. CASE RunningFails
  BY <1>14, <1>un DEF RunningFails
<1>15. CASE SubmitterNotFound
  BY <1>15, <1>un DEF SubmitterNotFound
<1>16. CASE checkSubmitterFinishedTimeoutAndUpdateStatusIfNeeded
  <2> DEFINE x == [Fails(st, "GracePeriodExceeded") EXCEPT !.js = "FAILED"]
  <2>1. Finish(x) /\ st.jds = "Running" /\ svc' = IF spec.selector THEN svc ELSE st.name
    BY <1>16 DEF checkSubmitterFinishedTimeoutAndUpdateStatusIfNeeded, Watches, Runs, Reconciles,
                 reconcileServices, name
  <2>2. Fails(st, "GracePeriodExceeded") \in Status
    BY <1>st, <1>re, Zenon DEF Status, Phases, Fails
  <2>3. /\ x \in Status /\ x.jds = "Failed" /\ x.js = "FAILED"
        /\ x.name = st.name /\ x.failed = st.failed
    BY <1>st, <2>2, Zenon DEF Status, JobStatuses, Verdicts, Fails
  <2> HIDE DEF x
  <2> QED
    BY <2>1, <2>3, WorkStep DEF Learns, Kept, Working
<1>17. CASE checkSubmitterAndUpdateStatusIfNeeded
  BY <1>17, <1>fa, <1>re, Zenon DEF checkSubmitterAndUpdateStatusIfNeeded, Watches, Runs,
     Reconciles, Working
<1>18. CASE JobInfoFound
  <2>1. /\ Finish(StatusFrom(ray[st.name])) /\ st.jds = "Running"
        /\ svc' = IF spec.selector THEN svc ELSE st.name
    BY <1>18 DEF JobInfoFound, GetJobInfo, Watches, Runs, Reconciles, reconcileServices, name
  <2>2. CASE cache # job
    BY <2>1, <2>2 DEF Finish, updateRayJobStatus, Stored, Lost, Effect, Unrecorded, history,
                        Typed
  <2>3. CASE cache = job
    <3> DEFINE info == ray[st.name]
               x == StatusFrom(info)
    <3>1. info \in JobStatuses
      BY <2>1, <2>3 DEF Typed, Working
    <3>2. /\ x \in Status /\ x.jds \in {"Running", "Failed", "Complete"} /\ x.js = info
          /\ x.name = st.name /\ x.failed = st.failed
      <4> HIDE DEF info
      <4> QED
        BY <1>st, <1>re, <3>1, Zenon DEF StatusFrom, Status, Phases
    <3> HIDE DEF x
    <3> QED
      BY <2>1, <2>3, <3>2, WorkStep DEF x, Learns, Kept, Working, Goes
  <2> QED
    BY <2>2, <2>3
<1>19. CASE reconcileHTTPModeJobNotFound
  <2>1. PICK ok \in BOOLEAN : Finish([st EXCEPT !.checkFailing = ~ok])
    BY <1>19 DEF reconcileHTTPModeJobNotFound
  <2> DEFINE x == [st EXCEPT !.checkFailing = ~ok]
  <2>2. x \in Status /\ x.jds = st.jds /\ x.name = st.name /\ x.failed = st.failed /\ x.js = st.js
    BY <1>st, Zenon DEF Status
  <2>3. st.jds = "Running"
    BY <1>19 DEF reconcileHTTPModeJobNotFound, GetJobInfo, Watches, Runs, Reconciles
  <2> HIDE DEF x
  <2> QED
    BY <1>wo, <2>1, <2>2, <2>3, Zenon DEF x, Working, Goes
<1>20. CASE JobNotFound
  BY <1>20, <1>fa, <1>re, <1>un, Zenon DEF JobNotFound, GetJobInfo, Watches, Runs, Reconciles, Working
<1>21. CASE recordJobStatusCheckFailure
  <2> DEFINE x == [st EXCEPT !.checkFailing = TRUE]
  <2>1. Finish(x) /\ st.jds = "Running"
    BY <1>21 DEF recordJobStatusCheckFailure, GetJobInfo, Watches, Runs, Reconciles
  <2>2. x \in Status /\ x.jds = st.jds /\ x.name = st.name /\ x.failed = st.failed /\ x.js = st.js
    BY <1>st, Zenon DEF Status
  <2> HIDE DEF x
  <2> QED
    BY <1>wo, <2>1, <2>2 DEF Working, Goes
<1>22. CASE Release
  <2>1. (AllDeleted /\ Finish(Released)) \/ NothingStored \/ UNCHANGED <<job, history>>
    BY <1>22 DEF Release
  <2>2. CASE UNCHANGED <<job, history>>
    BY <2>2 DEF Effect, Unrecorded, history, Typed
  <2>3. CASE AllDeleted /\ Finish(Released)
    <3>1. st.jds \in {"Suspending", "Retrying"} /\ Takes
      BY <1>22 DEF Release, Reconciles
    <3>2. /\ Released \in Status /\ Released.name = NoName /\ Released.js = ""
          /\ Released.failed = st.failed
          /\ Released.jds = IF st.jds = "Suspending" THEN "Suspended" ELSE "New"
      BY <1>st, <1>re, NamesFact, Zenon DEF Released, Status, Phases, JobStatuses
    <3> QED
      BY <2>3, <3>1, <3>2, FinishesAs, Zenon DEF StatusStep, Releases
  <2> QED
    BY <1>un, <2>1, <2>2, <2>3
<1>23. CASE Resume
  <2> DEFINE x == [st EXCEPT !.js = "", !.jds = "New"]
  <2>1. Finish(x) /\ st.jds = "Suspended"
    BY <1>23 DEF Resume, Reconciles
  <2>2. x \in Status /\ x.jds = "New" /\ x.name = st.name /\ x.failed = st.failed /\ x.js = ""
    BY <1>st, Zenon DEF Status, Phases, JobStatuses
  <2> HIDE DEF x
  <2> QED
    BY <2>1, <2>2, FinishesAs, Zenon DEF StatusStep, Resumes, Kept
<1>24. CASE StaySuspended
  BY <1>24, <1>un DEF StaySuspended
<1>25. CASE UnknownStatus
  BY <1>25, <1>un DEF UnknownStatus
<1>26. CASE NothingToDelete
  BY <1>26, <1>un DEF NothingToDelete
<1>ex. ASSUME NEW policy, executeDeletionPolicy(policy), policy \in Policies, UNCHANGED history
       PROVE  Effect
  BY <1>ex, Zenon DEF executeDeletionPolicy, Policies, Effect, Unrecorded, history, Typed, Object
<1>27. CASE handleDeletionRules
  <2>1. CASE overdue = {}
    BY <1>27, <1>un, <2>1 DEF handleDeletionRules
  <2>2. CASE overdue # {}
    <3>1. \A r \in overdue : r.policy \in Policies
      BY DEF overdue, matched, Typed, Spec_, Rule
    <3>2. selectMostImpactfulRule(overdue).policy \in Policies
      BY <2>2, <3>1, MostImpactful
    <3> QED
      BY <1>27, <1>ex, <2>2, <3>2 DEF handleDeletionRules, Executes
  <2> QED
    BY <2>1, <2>2
<1>28. CASE handleLegacyDeletionPolicy
  BY <1>28, <1>ex, <1>un DEF handleLegacyDeletionPolicy, Executes, Typed, Spec_
<1>29. CASE handleShutdownAfterJobFinishes
  BY <1>29, <1>ex, <1>un DEF handleShutdownAfterJobFinishes, Executes, Policies
<1> QED
  BY <1>1, <1>2, <1>3, <1>4, <1>5, <1>6, <1>7, <1>8, <1>9, <1>10, <1>11, <1>12, <1>13, <1>14,
     <1>15, <1>16, <1>17, <1>18, <1>19, <1>20, <1>21, <1>22, <1>23, <1>24, <1>25, <1>26,
     <1>27, <1>28, <1>29 DEF Reconcile

------------------------------------------------------------------------------
(* What every step leaves alone.                                           *)

RayFrame ==
    /\ won \subseteq won' /\ ray' \in [Names -> JobStatuses]
    /\ \A n \in Names : ray'[n] = "SUCCEEDED" => ray[n] = "SUCCEEDED" \/ n \in won'
SvcFrame == svc' = svc \/ svc' = IF spec.selector THEN svc ELSE cache.st.name
CacheFrame == cache' = cache \/ (cache' = job /\ job' = job)

\* Reconcile never makes a Ray job succeed, and sets the service to the RayCluster
\* that its cached status names.
LEMMA ReconcileFrame ==
    ASSUME Typed, Reconcile
    PROVE  spec' = spec /\ RayFrame /\ SvcFrame /\ CacheFrame
<1>1. UNCHANGED <<spec, caches>>
  BY Zenon DEF Reconcile, NotFound, StopJobAndRemoveFinalizer, FailValidation, Initialize,
     updateStatusToSuspendingIfNeeded, checkActiveDeadlineAndUpdateStatusIfNeeded,
     checkPreRunningDeadlineAndUpdateStatusIfNeeded, Initializes, InitializingFails,
     WaitForRayCluster, Submit, WaitForJobId, Runs,
     checkTransitionGracePeriodAndUpdateStatusIfNeeded,
     checkJobStatusCheckTimeoutAndUpdateStatusIfNeeded, RunningFails, Watches,
     SubmitterNotFound, checkSubmitterFinishedTimeoutAndUpdateStatusIfNeeded,
     checkSubmitterAndUpdateStatusIfNeeded, GetJobInfo, JobInfoFound,
     reconcileHTTPModeJobNotFound, JobNotFound, recordJobStatusCheckFailure, Release, Resume,
     StaySuspended, UnknownStatus, Finishes, NothingToDelete, handleDeletionRules,
     handleLegacyDeletionPolicy, handleShutdownAfterJobFinishes, Reconciles
<1>2. UNCHANGED won
  <2>1. \A x : Finish(x) => UNCHANGED won
    BY DEF Finish, updateRayJobStatus, Stored, Lost, history
  <2>2. NothingStored => UNCHANGED won
    BY DEF NothingStored, history
  <2> QED
    BY <2>1, <2>2, Zenon DEF Reconcile, NotFound, StopJobAndRemoveFinalizer, FailValidation, Initialize,
     updateStatusToSuspendingIfNeeded, checkActiveDeadlineAndUpdateStatusIfNeeded,
     checkPreRunningDeadlineAndUpdateStatusIfNeeded, InitializingFails,
     WaitForRayCluster, Submit, WaitForJobId,
     checkTransitionGracePeriodAndUpdateStatusIfNeeded,
     checkJobStatusCheckTimeoutAndUpdateStatusIfNeeded, RunningFails,
     SubmitterNotFound, checkSubmitterFinishedTimeoutAndUpdateStatusIfNeeded,
     checkSubmitterAndUpdateStatusIfNeeded, JobInfoFound,
     reconcileHTTPModeJobNotFound, JobNotFound, recordJobStatusCheckFailure, Release, Resume,
     StaySuspended, UnknownStatus, NothingToDelete, handleDeletionRules,
     handleLegacyDeletionPolicy, handleShutdownAfterJobFinishes, Executes, updateRayJobStatus,
     Stored, Lost, history
<1>3. \/ UNCHANGED ray
      \/ \E v \in {"STOPPED", "RUNNING"} : ray' = [ray EXCEPT ![name] = v]
  BY Zenon DEF Reconcile, NotFound, StopJobAndRemoveFinalizer, FailValidation, Initialize,
     updateStatusToSuspendingIfNeeded, checkActiveDeadlineAndUpdateStatusIfNeeded,
     checkPreRunningDeadlineAndUpdateStatusIfNeeded, InitializingFails,
     WaitForRayCluster, Submit, WaitForJobId,
     checkTransitionGracePeriodAndUpdateStatusIfNeeded,
     checkJobStatusCheckTimeoutAndUpdateStatusIfNeeded, RunningFails,
     SubmitterNotFound, checkSubmitterFinishedTimeoutAndUpdateStatusIfNeeded,
     checkSubmitterAndUpdateStatusIfNeeded, JobInfoFound,
     reconcileHTTPModeJobNotFound, JobNotFound, recordJobStatusCheckFailure, Release, Resume,
     StaySuspended, UnknownStatus, Finishes, NothingToDelete, handleDeletionRules,
     handleLegacyDeletionPolicy, handleShutdownAfterJobFinishes, world
<1>4. svc' = svc \/ svc' = IF spec.selector THEN svc ELSE cache.st.name
  BY Zenon DEF Reconcile, NotFound, StopJobAndRemoveFinalizer, FailValidation, Initialize,
     updateStatusToSuspendingIfNeeded, checkActiveDeadlineAndUpdateStatusIfNeeded,
     checkPreRunningDeadlineAndUpdateStatusIfNeeded, InitializingFails,
     WaitForRayCluster, Submit, WaitForJobId,
     checkTransitionGracePeriodAndUpdateStatusIfNeeded,
     checkJobStatusCheckTimeoutAndUpdateStatusIfNeeded, RunningFails, Watches,
     SubmitterNotFound, checkSubmitterFinishedTimeoutAndUpdateStatusIfNeeded,
     checkSubmitterAndUpdateStatusIfNeeded, GetJobInfo, JobInfoFound,
     reconcileHTTPModeJobNotFound, JobNotFound, recordJobStatusCheckFailure, Release, Resume,
     StaySuspended, UnknownStatus, Finishes, NothingToDelete, handleDeletionRules,
     handleLegacyDeletionPolicy, handleShutdownAfterJobFinishes, world, reconcileServices, name
<1>5. RayFrame
  <2>1. \A v \in {"STOPPED", "RUNNING"} : v \in JobStatuses /\ v # "SUCCEEDED"
    BY Zenon DEF JobStatuses, Verdicts
  <2> QED
    BY <1>2, <1>3, <2>1 DEF RayFrame, Typed
<1> QED
  BY <1>1, <1>4, <1>5 DEF caches, SvcFrame, CacheFrame

\* The steps of everyone else leave the status alone, and a Ray job that they make
\* succeed is recorded.
LEMMA WorldFrame ==
    ASSUME Typed, Next, ~Reconcile
    PROVE  Unrecorded /\ spec' = spec /\ RayFrame /\ svc' = svc /\ CacheFrame
<1>js. \A v \in {"", "RUNNING"} \cup Verdicts : v \in JobStatuses
  BY Zenon DEF JobStatuses
<1>un. ASSUME UNCHANGED <<job, names, resumed>> PROVE Unrecorded
  BY <1>un DEF Unrecorded, Typed
<1>ra. ASSUME UNCHANGED <<ray, won>> PROVE RayFrame
  BY <1>ra DEF RayFrame, Typed
<1>rs. ASSUME NEW n, NEW v \in {"", "RUNNING"}, ray' = [ray EXCEPT ![n] = v], UNCHANGED won
       PROVE  RayFrame
  BY <1>rs, <1>js, Zenon DEF RayFrame, Typed
<1>1. CASE Sync
  BY <1>1, <1>un, <1>ra DEF Sync, SyncJob, SyncSubmitter, SyncCluster, CacheFrame, caches, world,
     history
<1>2. CASE Deletion
  BY <1>2, <1>un, <1>ra, <1>rs, Zenon DEF Deletion, SubmitterDeleted, GarbageCollected, ClusterDeleted,
     World, CacheFrame, caches
<1>3. CASE Time
  BY <1>3, <1>un, <1>ra DEF Time, Ages, DeadlinePasses, World, CacheFrame, caches, world, history
<1>4. CASE SubmitterSubmits \/ SubmitterEnds
  BY <1>4, <1>un, <1>ra, <1>rs, Zenon DEF SubmitterSubmits, SubmitterEnds, World, CacheFrame, caches
<1>5. CASE UserSubmits
  <2>1. Unrecorded
    BY <1>5, Zenon DEF UserSubmits, Unrecorded, Typed, Object, history
  <2> QED
    BY <1>5, <1>rs, <2>1, Zenon DEF UserSubmits, CacheFrame, caches, history
<1>6. CASE \E n \in Names : ClusterReady(n)
  BY <1>6, <1>un, <1>ra DEF ClusterReady, CacheFrame, history
<1>7. CASE \E n \in Names : RayJobEnds(n)
  <2>1. PICK n \in Names, v \in Verdicts :
            /\ ray' = [ray EXCEPT ![n] = v]
            /\ won' = IF v = "SUCCEEDED" THEN won \cup {n} ELSE won
    BY <1>7, Zenon DEF RayJobEnds
  <2>2. RayFrame
    BY <2>1, <1>js, Zenon DEF RayFrame, Typed
  <2> QED
    BY <1>7, <1>un, <2>2, Zenon DEF RayJobEnds, World, CacheFrame, caches
<1>8. CASE \E n \in Names : HeadLost(n)
  BY <1>8, <1>un, <1>rs, Zenon DEF HeadLost, World, CacheFrame, caches
<1>9. CASE OperatorRestarts
  BY <1>9, <1>un, <1>ra DEF OperatorRestarts, CacheFrame, world, history
<1>10. CASE EditSuspend
  <2>1. Unrecorded
    BY <1>10, Zenon DEF EditSuspend, Unrecorded, Typed, Object, history
  <2> QED
    BY <1>10, <1>ra, <2>1 DEF EditSuspend, CacheFrame, caches, world, history
<1>11. CASE EditDelete
  <2>1. Unrecorded
    BY <1>11, Zenon DEF EditDelete, Unrecorded, Typed, Object, history
  <2> QED
    BY <1>11, <1>ra, <2>1 DEF EditDelete, CacheFrame, caches, world, history
<1>12. CASE EditDrop
  BY <1>12, <1>un, <1>ra DEF EditDrop, World, CacheFrame, caches
<1> QED
  BY <1>1, <1>2, <1>3, <1>4, <1>5, <1>6, <1>7, <1>8, <1>9, <1>10, <1>11, <1>12 DEF Next

------------------------------------------------------------------------------
(* The invariant.                                                          *)

\* A name that is recorded counts, and a new one is made for the first attempt, after a
\* failure and after a resumption only: while New and Retrying none is in use.
NamesCounted ==
    /\ job.st.name \in Owned => job.st.name <= names
    /\ names <= job.st.failed + resumed + 1
    /\ job.st.jds \in {"New", "Retrying"} => names <= job.st.failed + resumed

\* Only the last failure may exceed the limit, and it is final.
FailuresBounded ==
    /\ job.st.failed <= spec.backoff + 1
    /\ job.st.jds \notin {"Failed", "ValidationFailed"} => job.st.failed <= spec.backoff

AttemptNamed ==
    /\ job.st.jds \in Working => job.st.name \in Names
    /\ job.st.jds = "New" => job.st.js = ""

WinsRecorded ==
    /\ job.st.js = "SUCCEEDED" => job.st.name \in won
    /\ \A n \in Names : ray[n] = "SUCCEEDED" => n \in won

\* A cache that lags behind a RayJob with a Ray job knows its RayCluster.
ServiceCurrent ==
    job.st.js # "" /\ ~spec.selector => svc = job.st.name /\ cache.st.name = job.st.name

IInv == Typed /\ NamesCounted /\ FailuresBounded /\ AttemptNamed /\ WinsRecorded /\ ServiceCurrent

\* It holds of a new RayJob.
LEMMA Initially == Init => IInv
<1> SUFFICES ASSUME Init PROVE IInv
  OBVIOUS
<1>1. spec \in Spec_
  BY RayJobAssumption, Zenon DEF Init
<1>2. PICK s \in BOOLEAN :
         job = [exists |-> TRUE, deleting |-> FALSE, finalizer |-> FALSE,
                suspend |-> s, jobId |-> FALSE,
                st |-> [jds |-> "New", js |-> "", name |-> NoName, reason |-> "",
                        failed |-> 0, succeeded |-> 0, checkFailing |-> FALSE]]
  BY Zenon DEF Init
<1>3. job.st.jds = "New" /\ job.st.js = "" /\ job.st.name = NoName /\ job.st.failed = 0
  BY <1>2, Zenon
<1>4. job \in Object
  BY <1>2, NamesFact, Zenon DEF Object, Status, Phases, JobStatuses, Reasons
<1>5. Typed
  BY <1>1, <1>4, Zenon DEF Init, Typed, JobStatuses
<1>6. spec.backoff \in Nat
  BY <1>1, NamesFact DEF Spec_
<1>7. NamesCounted /\ FailuresBounded
  <2>1. names = 0 /\ resumed = 0 /\ NoName \notin Owned
    BY NamesFact, Zenon DEF Init
  <2>2. 0 <= 0 + 0 + 1 /\ 0 <= 0 + 0 /\ 0 <= spec.backoff /\ 0 <= spec.backoff + 1
    BY <1>6
  <2>3. NamesCounted
    BY <1>3, <2>1, <2>2, Zenon DEF NamesCounted
  <2>4. FailuresBounded
    BY <1>3, <2>2, Zenon DEF FailuresBounded
  <2> QED
    BY <2>3, <2>4
<1>8. AttemptNamed /\ WinsRecorded /\ ServiceCurrent
  BY <1>3, Zenon DEF Init, AttemptNamed, WinsRecorded, ServiceCurrent, Working
<1> QED
  BY <1>5, <1>7, <1>8 DEF IInv

\* What Next does, in the terms of the invariant.
LEMMA NextEffect ==
    ASSUME IInv, [Next]_vars
    PROVE  Effect /\ spec' = spec /\ RayFrame /\ SvcFrame /\ CacheFrame
<1>1. CASE Reconcile
  BY <1>1, ReconcileEffect, ReconcileFrame, Zenon DEF IInv, AttemptNamed
<1>2. CASE Next /\ ~Reconcile
  BY <1>2, WorldFrame DEF IInv, Effect, SvcFrame
<1>3. CASE UNCHANGED vars
  BY <1>3 DEF vars, world, caches, history, IInv, Typed, Effect, Unrecorded, RayFrame, SvcFrame,
     CacheFrame
<1> QED
  BY <1>1, <1>2, <1>3

\* Every step preserves the invariant.
LEMMA Inductive == IInv /\ [Next]_vars => IInv'
<1> SUFFICES ASSUME IInv, [Next]_vars PROVE IInv'
  OBVIOUS
<1>1. Effect /\ spec' = spec /\ RayFrame /\ SvcFrame /\ CacheFrame
  BY NextEffect
<1>2. job.st \in Status /\ spec.backoff \in Nat /\ names \in Nat /\ resumed \in Nat
  BY NamesFact DEF IInv, Typed, Object, Spec_
<1>3. CASE Unrecorded
  <2>1. Typed'
    BY <1>1, <1>3 DEF IInv, Typed, Unrecorded, RayFrame, CacheFrame
  <2>2. NamesCounted' /\ FailuresBounded' /\ AttemptNamed'
    BY <1>1, <1>3, Zenon DEF IInv, NamesCounted, FailuresBounded, AttemptNamed, Unrecorded
  <2>3. WinsRecorded'
    BY <1>1, <1>3 DEF IInv, WinsRecorded, Unrecorded, RayFrame
  <2>4. ServiceCurrent'
    BY <1>1, <1>3, Zenon DEF IInv, ServiceCurrent, Unrecorded, SvcFrame, CacheFrame
  <2> QED
    BY <2>1, <2>2, <2>3, <2>4 DEF IInv
<1>4. CASE \E new : Recorded(new) /\ StatusStep(job.st, new)
  <2>1. PICK new : Recorded(new) /\ StatusStep(job.st, new)
    BY <1>4
  <2> DEFINE st == job.st
  <2>st. /\ st.failed \in Nat /\ new.failed \in Nat /\ cache = job
         /\ job' \in Object /\ job'.st = new
    BY <1>2, <2>1 DEF Recorded, Status
  <2>2. Typed'
    <3>1. names' \in Nat /\ resumed' \in Nat
      BY <1>2, <2>1, NamesFact DEF Recorded, Owned
    <3> QED
      BY <1>1, <2>st, <3>1 DEF IInv, Typed, RayFrame, CacheFrame
  <2>3. NamesCounted'
    <3> DEFINE f == st.failed
               g == new.failed
    <3>1. /\ names <= f + resumed + 1
          /\ st.jds \in {"New", "Retrying"} => names <= f + resumed
          /\ st.name \in Owned => st.name <= names
      BY DEF IInv, NamesCounted
    <3>2. SUFFICES /\ new.name \in Owned => new.name <= names'
                   /\ names' <= g + resumed' + 1
                   /\ new.jds \in {"New", "Retrying"} => names' <= g + resumed'
      BY <2>st DEF NamesCounted
    <3>3. CASE Begins(st, new)
      <4>1. /\ names' = IF new.name \in Owned THEN names + 1 ELSE names
            /\ new.name \in Owned => new.name = names + 1
            /\ resumed' = resumed /\ g = f /\ st.jds = "New" /\ new.jds = "Initializing"
        BY <1>2, <2>1, <3>3 DEF Recorded, Begins
      <4> QED
        BY <1>2, <2>st, <3>1, <4>1
    <3>4. CASE ~Begins(st, new)
      <4>1. new.name = st.name \/ new.name = NoName
        BY <2>1, <3>4, Zenon DEF StatusStep, Parks, Works, Goes, Fails1, Releases, Resumes, Rejects, Kept
      <4>2. names' = names /\ (new.name \in Owned => new.name <= names')
        BY <1>2, <2>1, <3>1, <4>1, NamesFact DEF Recorded, Owned
      <4>3. resumed' \in {resumed, resumed + 1} /\ g \in {f, f + 1}
        BY <2>1, <3>4, Zenon DEF Recorded, StatusStep, Parks, Works, Goes, Fails1, Releases, Resumes, Rejects, Kept
      <4>4. new.jds \in {"New", "Retrying"} =>
               st.jds \in {"New", "Retrying"} \/ resumed' = resumed + 1 \/ g = f + 1
        BY <2>1, <3>4, Zenon DEF Recorded, StatusStep, Parks, Works, Goes, Fails1, Releases, Resumes, Rejects,
           Working
      <4> HIDE DEF f, g
      <4>5. f \in Nat
        BY <2>st DEF f
      <4> QED
        BY <1>2, <3>1, <4>2, <4>3, <4>4, <4>5
    <3> QED
      BY <3>3, <3>4
  <2>4. FailuresBounded'
    <3> DEFINE f == st.failed
               g == new.failed
               b == spec.backoff
    <3>1. f <= b + 1 /\ (st.jds \notin {"Failed", "ValidationFailed"} => f <= b)
      BY DEF IInv, FailuresBounded
    <3>2. SUFFICES g <= b + 1 /\ (new.jds \notin {"Failed", "ValidationFailed"} => g <= b)
      BY <1>1, <2>st DEF FailuresBounded
    <3>3. CASE Fails1(st, new)
      <4>1. g = f + 1 /\ (new.jds = "Retrying" => g <= b) /\ new.jds \in {"Failed", "Retrying"}
        BY <3>3 DEF Fails1
      <4>2. f <= b
        BY <3>1, <3>3 DEF Fails1, Working
      <4> HIDE DEF f, g, b
      <4>3. f \in Nat /\ b \in Nat
        BY <1>2, <2>st DEF f, b
      <4> QED
        BY <4>1, <4>2, <4>3
    <3>4. CASE ~Fails1(st, new)
      <4>1. g = f
        BY <2>1, <3>4, Zenon DEF StatusStep, Begins, Parks, Works, Goes, Releases, Resumes, Rejects, Kept
      <4>2. new.jds \notin {"Failed", "ValidationFailed"} =>
                st.jds \notin {"Failed", "ValidationFailed"}
        BY <2>1, <3>4, Zenon DEF StatusStep, Begins, Parks, Works, Goes, Releases, Resumes, Rejects, Working
      <4> QED
        BY <3>1, <4>1, <4>2
    <3> QED
      BY <3>3, <3>4
  <2>5. AttemptNamed'
    BY <2>1, <2>st, Zenon DEF IInv, AttemptNamed, StatusStep, Begins, Parks, Works, Goes, Fails1,
       Releases, Resumes, Rejects, Kept, Working
  <2>6. WinsRecorded'
    <3>1. new.js = "SUCCEEDED" => new.name \in won
      BY <2>1, <2>st, Zenon DEF IInv, AttemptNamed, WinsRecorded, StatusStep, Begins, Parks, Works, Goes, Fails1,
         Releases, Resumes, Rejects, Kept, Learns, Working
    <3> QED
      BY <1>1, <2>st, <3>1 DEF IInv, WinsRecorded, RayFrame
  <2>7. ServiceCurrent'
    <3>1. cache'.st.name = st.name
      BY <1>1, <2>st DEF CacheFrame
    <3>2. CASE new.js = ""
      BY <2>st, <3>2, Zenon DEF ServiceCurrent
    <3>3. CASE new.js # ""
      <4>1. /\ new.name = st.name
            /\ \/ st.js # ""
               \/ svc' = IF spec.selector THEN svc ELSE st.name
        BY <2>1, <3>3, Zenon DEF IInv, AttemptNamed, StatusStep, Begins, Parks, Works, Goes, Fails1,
           Releases, Resumes, Rejects, Kept, Learns
      <4> QED
        BY <1>1, <2>st, <3>1, <4>1, Zenon DEF IInv, ServiceCurrent, SvcFrame
    <3> QED
      BY <3>2, <3>3, Zenon
  <2> QED
    BY <2>2, <2>3, <2>4, <2>5, <2>6, <2>7 DEF IInv
<1> QED
  BY <1>1, <1>3, <1>4 DEF Effect

\* The invariant holds throughout.
LEMMA Invariant == Spec => []IInv
BY Initially, Inductive, PTL DEF Spec

\* However far the caches lag and whenever the operator stops, a RayJob fails at most
\* backoffLimit + 1 times, and records a new RayCluster name for its first attempt, for
\* each failure and for each resumption only (checkBackoffLimitAndUpdateStatusIfNeeded,
\* initRayJobStatusIfNeed and the Suspending and Retrying branch).
THEOREM RetriesAreBounded == Spec => []RetriesBounded
<1>1. IInv => RetriesBounded
  BY DEF IInv, NamesCounted, FailuresBounded, RetriesBounded
<1> QED
  BY <1>1, Invariant, PTL

\* JobStatus SUCCEEDED is a verdict of a Ray job of the RayCluster that the status names:
\* a retry or a resumption never inherits one (the status of the Ray job is read from that
\* RayCluster only, and released with it).
THEOREM SuccessIsTrue == Spec => []SuccessIsReal
<1>1. IInv => SuccessIsReal
  BY DEF IInv, WinsRecorded, SuccessIsReal
<1> QED
  BY <1>1, Invariant, PTL

\* The head service of a RayJob that has reported on its Ray job selects the RayCluster
\* of that attempt: reconcileServices precedes every report, and a later reconcile that
\* works from a stale cache does not point the service back to an earlier attempt.
THEOREM ServiceIsCurrent == Spec => []ServiceFollowsAttempt
<1>1. IInv => ServiceFollowsAttempt
  BY Zenon DEF IInv, ServiceCurrent, ServiceFollowsAttempt
<1> QED
  BY <1>1, Invariant, PTL

------------------------------------------------------------------------------
(* RayJob implements RayJobLifecycle, and leaves nothing behind, provided  *)
(* that the caches show what a reconcile has created before the next one   *)
(* (Prompt).  Each step is now also classified by what it does to the      *)
(* RayClusters and the submitter (Resources), and an invariant ties that   *)
(* to the status: whatever exists belongs to the attempt that the status   *)
(* names.                                                                  *)

Idle == {"New", "Suspended"}

RTyped == clusters \in [Names -> Cluster] /\ submitter \in Submitter

\* A cache that shows a working RayJob lags behind by no more than the end of the attempt.
Lag ==
    /\ cache.st.jds \in Working => cache.st.name = job.st.name /\ job.st.jds \notin Idle
    /\ ~spec.selector => job.st.name # Selected

ClustersOwned ==
    /\ \A n \in Owned : Exists(clusters[n]) =>
            n = job.st.name /\ job.st.jds \notin Idle /\ ~spec.selector
    /\ \A n \in Names : clusters[n].state = "pending" => n \in Owned

SubmitterOwned ==
    submitter.phase # "absent" =>
        /\ submitter.of = job.st.name /\ job.st.jds \notin Idle /\ HasSubmitter
        /\ spec.mode = "SidecarMode" => submitter.of \in Owned /\ Exists(clusters[submitter.of])

RInv == IInv /\ RTyped /\ Lag /\ ClustersOwned /\ SubmitterOwned

------------------------------------------------------------------------------
(* What a step does to the RayClusters and the submitter.                  *)

\* A RayCluster appears only under the name that the cached status of a working RayJob has.
ClusterStep ==
    /\ clusters' \in [Names -> Cluster]
    /\ \A n \in Owned : Exists(clusters'[n]) =>
           Exists(clusters[n]) \/ (n = name /\ cache.st.jds \in Working /\ ~spec.selector)
    /\ \A n \in Names : clusters'[n].state = "pending" =>
           clusters[n].state = "pending" \/ (n = name /\ cache.st.jds \in Working /\ ~spec.selector)

\* A submitter appears for a working RayJob, or as the sidecar of a RayCluster, and a
\* sidecar goes with its RayCluster.
SubmitterStep ==
    /\ submitter' \in Submitter
    /\ submitter'.phase # "absent" =>
        /\ \/ submitter.phase # "absent" /\ submitter'.of = submitter.of
           \/ spec.mode = "K8sJobMode" /\ submitter'.of = name /\ cache.st.jds \in Working
           \/ spec.mode = "SidecarMode" /\ submitter'.of \in Owned /\ Exists(clusters[submitter'.of])
        /\ spec.mode = "SidecarMode" => Exists(clusters'[submitter'.of])

\* Reconcile itself removes nothing: deletion is a request.
Keeps ==
    /\ \A n \in Owned : Exists(clusters[n]) => Exists(clusters'[n])
    /\ submitter.phase # "absent" => submitter'.phase # "absent"

\* getOrCreateRayClusterInstance.
LEMMA CreateStep ==
    ASSUME RTyped, getOrCreateRayClusterInstance, cache.st.jds \in Working
    PROVE  /\ ClusterStep /\ \A n \in Owned : Exists(clusters[n]) => Exists(clusters'[n])
<1>1. CASE UNCHANGED clusters
  BY <1>1 DEF RTyped, ClusterStep
<1>2. CASE /\ ~spec.selector
           /\ clusters' = [clusters EXCEPT ![name] = [Absent EXCEPT !.state = "pending"]]
  <2>1. [Absent EXCEPT !.state = "pending"] \in Cluster
    BY Zenon DEF Absent, Cluster
  <2>2. [Absent EXCEPT !.state = "pending"].state = "pending"
    BY DEF Absent
  <2> QED
    BY <1>2, <2>1, <2>2, NamesFact, Zenon DEF RTyped, ClusterStep, Exists
<1> QED
  BY <1>1, <1>2 DEF getOrCreateRayClusterInstance

\* A request for deletion or for suspension removes nothing.
LEMMA MarkStep ==
    ASSUME RTyped, NEW n,
           \/ UNCHANGED clusters
           \/ clusters' = [clusters EXCEPT ![n].deleting = TRUE]
           \/ clusters' = [clusters EXCEPT ![n].suspended = TRUE]
    PROVE  ClusterStep /\ \A k \in Owned : Exists(clusters[k]) => Exists(clusters'[k])
<1>0. \A c \in Cluster : /\ [c EXCEPT !.deleting = TRUE] \in Cluster
                          /\ [c EXCEPT !.deleting = TRUE].state = c.state
                          /\ [c EXCEPT !.suspended = TRUE] \in Cluster
                          /\ [c EXCEPT !.suspended = TRUE].state = c.state
  BY Zenon DEF Cluster
<1>1. clusters' \in [Names -> Cluster] /\ \A k \in Names : clusters'[k].state = clusters[k].state
  <2>1. CASE UNCHANGED clusters
    BY <2>1 DEF RTyped
  <2>2. CASE clusters' = [clusters EXCEPT ![n] = [clusters[n] EXCEPT !.deleting = TRUE]]
    BY <1>0, <2>2, Zenon DEF RTyped
  <2>3. CASE clusters' = [clusters EXCEPT ![n] = [clusters[n] EXCEPT !.suspended = TRUE]]
    BY <1>0, <2>3, Zenon DEF RTyped
  <2> QED
    BY <2>1, <2>2, <2>3
<1> QED
  BY <1>1, NamesFact DEF ClusterStep, Exists

\* The branches of Reconcile.
LEMMA ReconcileResources ==
    ASSUME IInv, RTyped, SubmitterOwned, Reconcile
    PROVE  ClusterStep /\ SubmitterStep /\ Keeps
<1>cl. ASSUME UNCHANGED clusters
       PROVE  ClusterStep /\ \A n \in Owned : Exists(clusters[n]) => Exists(clusters'[n])
  BY <1>cl, MarkStep
<1>su. ASSUME UNCHANGED submitter, \A n \in Owned : Exists(clusters[n]) => Exists(clusters'[n])
       PROVE  SubmitterStep /\ (submitter.phase # "absent" => submitter'.phase # "absent")
  BY <1>su DEF RTyped, SubmitterStep, SubmitterOwned
<1>un. ASSUME UNCHANGED <<clusters, submitter>> PROVE ClusterStep /\ SubmitterStep /\ Keeps
  BY <1>un, <1>cl, <1>su DEF Keeps
<1>cr. ASSUME getOrCreateRayClusterInstance, cache.st.jds \in Working, UNCHANGED submitter
       PROVE  ClusterStep /\ SubmitterStep /\ Keeps
  BY <1>cr, <1>su, CreateStep DEF Keeps
<1>wa. ASSUME Watches PROVE ClusterStep /\ SubmitterStep /\ Keeps
  BY <1>wa, <1>cr DEF Watches, Runs, Reconciles, Working
<1>de. ASSUME deleteClusterResources
       PROVE  ClusterStep /\ \A n \in Owned : Exists(clusters[n]) => Exists(clusters'[n])
  BY <1>de, MarkStep, Zenon DEF deleteClusterResources
<1>1. CASE NotFound \/ StopJobAndRemoveFinalizer \/ FailValidation \/ Initialize
  BY <1>1, <1>un DEF NotFound, StopJobAndRemoveFinalizer, FailValidation, Initialize, world
<1>2. CASE \/ updateStatusToSuspendingIfNeeded
           \/ checkActiveDeadlineAndUpdateStatusIfNeeded
           \/ checkPreRunningDeadlineAndUpdateStatusIfNeeded
           \/ InitializingFails \/ WaitForJobId
           \/ checkTransitionGracePeriodAndUpdateStatusIfNeeded
           \/ checkJobStatusCheckTimeoutAndUpdateStatusIfNeeded
           \/ RunningFails \/ Resume \/ StaySuspended \/ UnknownStatus
  BY <1>2, <1>un DEF updateStatusToSuspendingIfNeeded, checkActiveDeadlineAndUpdateStatusIfNeeded,
     checkPreRunningDeadlineAndUpdateStatusIfNeeded, InitializingFails, WaitForJobId,
     checkTransitionGracePeriodAndUpdateStatusIfNeeded,
     checkJobStatusCheckTimeoutAndUpdateStatusIfNeeded, RunningFails, Resume, StaySuspended,
     UnknownStatus, world
<1>3. CASE WaitForRayCluster
  BY <1>3, <1>cr DEF WaitForRayCluster, Initializes, Reconciles, Working
<1>4. CASE Submit
  <2>1. UNCHANGED clusters /\ cache.st.jds \in Working
    BY <1>4 DEF Submit, Initializes, Reconciles, Working
  <2>2. CASE UNCHANGED submitter
    BY <1>un, <2>1, <2>2
  <2>3. CASE ~UNCHANGED submitter
    <3>1. /\ spec.mode = "K8sJobMode"
          /\ submitter' = [of |-> name, phase |-> "active", deleting |-> FALSE]
      BY <1>4, <2>3 DEF Submit, createK8sJobIfNeed
    <3>2. name \in 0..Selected
      BY DEF IInv, Typed, Object, Status, name
    <3>3. SubmitterStep /\ submitter'.phase # "absent"
      BY <2>1, <3>1, <3>2 DEF SubmitterStep, Submitter
    <3> QED
      BY <1>cl, <2>1, <3>3 DEF Keeps
  <2> QED
    BY <2>2, <2>3
<1>5. CASE \/ SubmitterNotFound \/ checkSubmitterFinishedTimeoutAndUpdateStatusIfNeeded
           \/ checkSubmitterAndUpdateStatusIfNeeded \/ JobInfoFound
           \/ reconcileHTTPModeJobNotFound \/ JobNotFound \/ recordJobStatusCheckFailure
  BY <1>5, <1>wa DEF SubmitterNotFound, checkSubmitterFinishedTimeoutAndUpdateStatusIfNeeded,
     checkSubmitterAndUpdateStatusIfNeeded, JobInfoFound, reconcileHTTPModeJobNotFound,
     JobNotFound, recordJobStatusCheckFailure, GetJobInfo
<1>6. CASE Release
  <2>1. deleteClusterResources /\ (deleteSubmitterJob \/ UNCHANGED submitter)
    BY <1>6 DEF Release
  <2>2. CASE UNCHANGED submitter
    BY <1>de, <1>su, <2>1, <2>2 DEF Keeps
  <2>3. CASE ~UNCHANGED submitter
    <3>1. submitter' = [submitter EXCEPT !.deleting = TRUE]
      BY <2>1, <2>3 DEF deleteSubmitterJob
    <3>2. submitter' \in Submitter /\ submitter'.of = submitter.of /\ submitter'.phase = submitter.phase
      BY <3>1, Zenon DEF RTyped, Submitter
    <3> QED
      BY <1>de, <2>1, <3>2 DEF Keeps, SubmitterStep, SubmitterOwned
  <2> QED
    BY <2>2, <2>3
<1>ex. ASSUME NEW policy \in Policies, executeDeletionPolicy(policy), UNCHANGED submitter
       PROVE  ClusterStep /\ SubmitterStep /\ Keeps
  <2>1. \/ UNCHANGED clusters \/ deleteClusterResources
        \/ clusters' = [clusters EXCEPT ![name].suspended = TRUE]
    BY <1>ex, Zenon DEF executeDeletionPolicy, Policies
  <2> QED
    BY <1>ex, <1>de, <1>su, <2>1, MarkStep DEF Keeps
<1>7. CASE NothingToDelete
  BY <1>7, <1>un DEF NothingToDelete, Finishes
<1>8. CASE handleDeletionRules
  <2>1. CASE overdue = {}
    BY <1>8, <1>un, <2>1 DEF handleDeletionRules, Finishes
  <2>2. CASE overdue # {}
    <3>1. \A r \in overdue : r.policy \in Policies
      BY DEF overdue, matched, IInv, Typed, Spec_, Rule
    <3>2. selectMostImpactfulRule(overdue).policy \in Policies
      BY <2>2, <3>1, MostImpactful
    <3> QED
      BY <1>8, <1>ex, <2>2, <3>2 DEF handleDeletionRules, Executes, Finishes
  <2> QED
    BY <2>1, <2>2
<1>9. CASE handleLegacyDeletionPolicy
  BY <1>9, <1>ex, <1>un DEF handleLegacyDeletionPolicy, Executes, Finishes, IInv, Typed, Spec_
<1>10. CASE handleShutdownAfterJobFinishes
  BY <1>10, <1>ex, <1>un DEF handleShutdownAfterJobFinishes, Executes, Finishes, Policies
<1> QED
  BY <1>1, <1>2, <1>3, <1>4, <1>5, <1>6, <1>7, <1>8, <1>9, <1>10 DEF Reconcile

\* Everyone else.
LEMMA WorldResources ==
    ASSUME IInv, RTyped, ClustersOwned, SubmitterOwned, Next, ~Reconcile
    PROVE  ClusterStep /\ SubmitterStep
<1>su. ASSUME UNCHANGED submitter, \A n \in Owned : Exists(clusters[n]) => Exists(clusters'[n])
       PROVE  SubmitterStep
  BY <1>su DEF RTyped, SubmitterStep, SubmitterOwned
<1>un. ASSUME UNCHANGED <<clusters, submitter>> PROVE ClusterStep /\ SubmitterStep
  BY <1>un, <1>su, MarkStep
<1>ns. ASSUME submitter' = NoSubmitter PROVE SubmitterStep
  BY <1>ns, NamesFact DEF NoSubmitter, SubmitterStep, Submitter
<1>sf. ASSUME UNCHANGED clusters, submitter' \in Submitter, submitter'.of = submitter.of,
              submitter.phase # "absent"
       PROVE  SubmitterStep
  BY <1>sf DEF SubmitterStep, SubmitterOwned
<1>ma. ASSUME NEW n \in Names, clusters' = [clusters EXCEPT ![n].deleting = TRUE],
              UNCHANGED submitter
       PROVE  ClusterStep /\ SubmitterStep
  BY <1>ma, <1>su, MarkStep, Zenon
<1>1. CASE \/ Sync \/ Time \/ SubmitterSubmits \/ UserSubmits \/ OperatorRestarts
           \/ EditSuspend \/ EditDelete \/ \E n \in Names : RayJobEnds(n)
  BY <1>1, <1>un, Zenon DEF Sync, SyncJob, SyncSubmitter, SyncCluster, Time, Ages, DeadlinePasses,
     SubmitterSubmits, UserSubmits, OperatorRestarts, EditSuspend, EditDelete, RayJobEnds, world
<1>2. CASE SubmitterDeleted
  BY <1>2, <1>ns, MarkStep DEF SubmitterDeleted
<1>3. CASE SubmitterEnds
  <2>1. PICK p \in {"complete", "failed"} : submitter' = [submitter EXCEPT !.phase = p]
    BY <1>3 DEF SubmitterEnds
  <2>2. submitter' \in Submitter /\ submitter'.of = submitter.of
    BY <2>1 DEF RTyped, Submitter
  <2> QED
    BY <1>3, <1>sf, <2>2, MarkStep DEF SubmitterEnds
<1>4. CASE GarbageCollected
  <2>1. CASE UNCHANGED submitter
    BY <1>4, <1>ma, <1>un, <2>1, NamesFact DEF GarbageCollected
  <2>2. CASE ~UNCHANGED submitter
    <3>1. /\ submitter' = [submitter EXCEPT !.deleting = TRUE] /\ UNCHANGED clusters
          /\ submitter.phase # "absent"
      BY <1>4, <2>2 DEF GarbageCollected
    <3>2. submitter' \in Submitter /\ submitter'.of = submitter.of
      BY <3>1, Zenon DEF RTyped, Submitter
    <3> QED
      BY <1>sf, <3>1, <3>2, MarkStep
  <2> QED
    BY <2>1, <2>2
<1>wo. ASSUME NEW n \in Names, WithoutSidecar(n), \A k \in Owned \ {n} : clusters'[k] = clusters[k]
       PROVE  SubmitterStep
  <2>1. CASE submitter' = NoSubmitter
    BY <1>ns, <2>1
  <2>2. CASE submitter' = submitter /\ ~(spec.mode = "SidecarMode" /\ submitter.of = n)
    BY <1>wo, <2>2 DEF SubmitterStep, SubmitterOwned, RTyped
  <2> QED
    BY <1>wo, <2>1, <2>2 DEF WithoutSidecar
<1>5. CASE \E n \in Names : ClusterDeleted(n)
  <2>1. PICK n \in Names : ClusterDeleted(n)
    BY <1>5
  <2>2. clusters' = [clusters EXCEPT ![n] = Absent] /\ WithoutSidecar(n)
    BY <2>1, Zenon DEF ClusterDeleted
  <2>3. Absent \in Cluster /\ Absent.state = "absent"
    BY DEF Absent, Cluster
  <2>4. ClusterStep
    BY <2>2, <2>3, NamesFact DEF ClusterStep, RTyped, Exists
  <2> QED
    BY <1>wo, <2>2, <2>4, NamesFact DEF RTyped
<1>6. CASE \E n \in Names : HeadLost(n)
  BY <1>6, <1>wo, MarkStep, Zenon DEF HeadLost
<1>7. CASE \E n \in Names : ClusterReady(n)
  <2>1. PICK n \in Names : ClusterReady(n)
    BY <1>7
  <2>2. /\ n \in Owned /\ Exists(clusters[n])
        /\ clusters' = [clusters EXCEPT ![n] = [clusters[n] EXCEPT !.state = "ready"]]
    BY <2>1 DEF ClusterReady, ClustersOwned, Exists
  <2>3. [clusters[n] EXCEPT !.state = "ready"] \in Cluster
        /\ [clusters[n] EXCEPT !.state = "ready"].state = "ready"
    BY DEF RTyped, Cluster
  <2>4. ClusterStep /\ \A k \in Owned : Exists(clusters[k]) => Exists(clusters'[k])
    BY <2>2, <2>3, NamesFact DEF ClusterStep, RTyped, Exists
  <2>5. CASE UNCHANGED submitter
    BY <1>su, <2>4, <2>5
  <2>6. CASE /\ spec.mode = "SidecarMode"
             /\ submitter' = [of |-> n, phase |-> "active", deleting |-> FALSE]
    <3>1. n \in 0..Selected
      BY NamesFact
    <3> QED
      BY <2>2, <2>4, <2>6, <3>1 DEF SubmitterStep, Submitter
  <2> QED
    BY <2>1, <2>4, <2>5, <2>6 DEF ClusterReady
<1>8. CASE EditDrop
  <2>1. CASE UNCHANGED submitter
    <3>1. \/ UNCHANGED clusters
          \/ \E n \in Names : clusters' = [clusters EXCEPT ![n].deleting = TRUE]
      BY <1>8 DEF EditDrop
    <3> QED
      BY <1>ma, <1>un, <2>1, <3>1
  <2>2. CASE ~UNCHANGED submitter
    <3>1. /\ submitter' = [submitter EXCEPT !.deleting = TRUE] /\ UNCHANGED clusters
          /\ submitter.phase # "absent"
      BY <1>8, <2>2 DEF EditDrop
    <3>2. submitter' \in Submitter /\ submitter'.of = submitter.of
      BY <3>1, Zenon DEF RTyped, Submitter
    <3> QED
      BY <1>sf, <3>1, <3>2, MarkStep
  <2> QED
    BY <2>1, <2>2
<1> QED
  BY <1>1, <1>2, <1>3, <1>4, <1>5, <1>6, <1>7, <1>8 DEF Next, Deletion

------------------------------------------------------------------------------
(* The invariant.                                                          *)

\* Nothing exists when a suspension or a retry forgets its attempt: what exists is in the
\* caches, and the branch waits until the caches show nothing.
LEMMA ReleasedHoldsNothing ==
    ASSUME Prompt, RInv, Takes, AllDeleted, cache = job
    PROVE  ~Held
<1>1. SeesItsCreations
  BY DEF Takes
<1>2. \A n \in Owned : ~Exists(clusters[n])
  BY <1>1, NamesFact DEF RInv, ClustersOwned, SeesItsCreations, AllDeleted, isClusterDeleted, name
<1>3. submitter.phase = "absent"
  BY <1>1, <1>2 DEF RInv, SubmitterOwned, SeesItsCreations, AllDeleted, isJobDeleted, HasSubmitter
<1> QED
  BY <1>2, <1>3 DEF Held

\* A step that forgets no attempt keeps the name.
LEMMA NameKept ==
    ASSUME Prompt, RInv, Effect, Held \/ cache.st.jds \in Working, job.st.jds \notin Idle
    PROVE  job'.st.name = job.st.name /\ job'.st.jds \notin Idle
<1>1. CASE Unrecorded
  BY <1>1 DEF Unrecorded
<1>2. CASE \E new : Recorded(new) /\ StatusStep(job.st, new)
  <2>1. PICK new : Recorded(new) /\ StatusStep(job.st, new)
    BY <1>2
  <2>2. cache = job /\ job'.st = new
    BY <2>1 DEF Recorded
  <2>3. ~Releases(job.st, new)
    BY <2>2, ReleasedHoldsNothing, Zenon DEF Releases, Working
  <2> QED
    BY <2>1, <2>2, <2>3, Zenon DEF StatusStep, Begins, Parks, Works, Goes, Fails1, Resumes, Rejects, Kept,
       Idle, Working
<1> QED
  BY <1>1, <1>2, Zenon DEF Effect

\* It holds of a new RayJob.
LEMMA ResourcesInitially == Init => RInv
<1> SUFFICES ASSUME Init PROVE RInv
  OBVIOUS
<1>1. IInv
  BY Initially
<1>2. job.st.name = NoName /\ cache = job /\ job.st.jds = "New"
  <2>1. PICK s \in BOOLEAN :
         job = [exists |-> TRUE, deleting |-> FALSE, finalizer |-> FALSE,
                suspend |-> s, jobId |-> FALSE,
                st |-> [jds |-> "New", js |-> "", name |-> NoName, reason |-> "",
                        failed |-> 0, succeeded |-> 0, checkFailing |-> FALSE]]
    BY Zenon DEF Init
  <2> QED
    BY <2>1, Zenon DEF Init
<1>3. /\ \A s \in {"absent", "ready"} : /\ [Absent EXCEPT !.state = s] \in Cluster
                                        /\ [Absent EXCEPT !.state = s].state = s
      /\ Absent \in Cluster /\ Absent.state = "absent"
  BY Zenon DEF Absent, Cluster
<1>4. PICK s \in {"absent", "ready"} :
         clusters = [n \in Names |-> IF n = Selected /\ spec.selector
                                     THEN [Absent EXCEPT !.state = s] ELSE Absent]
  BY Zenon DEF Init
<1>5. clusters \in [Names -> Cluster] /\ ClustersOwned
  BY <1>3, <1>4, NamesFact DEF ClustersOwned, Exists
<1>6. submitter \in Submitter /\ SubmitterOwned
  BY NamesFact, Zenon DEF Init, NoSubmitter, Submitter, SubmitterOwned
<1> QED
  BY <1>1, <1>2, <1>5, <1>6, NamesFact DEF RInv, RTyped, Lag, Working

\* Every step preserves it.
LEMMA ResourcesInductive == Prompt /\ RInv /\ [Next]_vars => RInv'
<1> SUFFICES ASSUME Prompt, RInv, [Next]_vars PROVE RInv'
  OBVIOUS
<1>1. IInv'
  BY Inductive DEF RInv
<1>2. Effect /\ spec' = spec /\ CacheFrame
  BY NextEffect DEF RInv
<1>3. ClusterStep /\ SubmitterStep
  <2>1. CASE Reconcile
    BY <2>1, ReconcileResources DEF RInv
  <2>2. CASE Next /\ ~Reconcile
    BY <2>2, WorldResources DEF RInv
  <2>3. CASE UNCHANGED vars
    BY <2>3, Zenon DEF vars, world, RInv, RTyped, ClusterStep, SubmitterStep, SubmitterOwned
  <2> QED
    BY <2>1, <2>2, <2>3
<1>4. RTyped'
  BY <1>3, Zenon DEF ClusterStep, SubmitterStep, RTyped
<1>5. Lag'
  <2>1. CASE Unrecorded
    BY <1>2, <2>1 DEF Unrecorded, CacheFrame, RInv, Lag, Working, Idle
  <2>2. CASE \E new : Recorded(new) /\ StatusStep(job.st, new)
    <3>1. PICK new : Recorded(new) /\ StatusStep(job.st, new)
      BY <2>2
    <3>2. cache = job /\ job'.st = new /\ cache'.st = cache.st
      BY <1>2, <3>1, Zenon DEF Recorded, CacheFrame
    <3>3. cache.st.jds \in Working => new.name = cache.st.name /\ new.jds \notin Idle
      BY <3>1, <3>2, Zenon DEF StatusStep, Begins, Parks, Works, Goes, Fails1, Releases, Resumes, Rejects,
         Kept, Idle, Working
    <3>4. ~spec.selector => new.name # Selected
      BY <3>1, NamesFact, Zenon DEF RInv, Lag, StatusStep, Begins, Parks, Works, Fails1, Releases, Resumes,
         Rejects, Kept
    <3> QED
      BY <1>2, <3>2, <3>3, <3>4, Zenon DEF Lag
  <2> QED
    BY <1>2, <2>1, <2>2 DEF Effect
<1>6. ClustersOwned'
  <2>1. ASSUME NEW n \in Owned, Exists(clusters'[n])
        PROVE  n = job'.st.name /\ job'.st.jds \notin Idle /\ ~spec.selector
    <3>1. CASE Exists(clusters[n])
      <4>1. Held /\ n = job.st.name /\ job.st.jds \notin Idle /\ ~spec.selector
        BY <3>1 DEF Held, RInv, ClustersOwned
      <4> QED
        BY <1>2, <4>1, NameKept
    <3>2. CASE n = name /\ cache.st.jds \in Working /\ ~spec.selector
      <4>1. n = job.st.name /\ job.st.jds \notin Idle
        BY <3>2 DEF RInv, Lag, name
      <4> QED
        BY <1>2, <3>2, <4>1, NameKept
    <3> QED
      BY <1>3, <2>1, <3>1, <3>2 DEF ClusterStep
  <2>2. ASSUME NEW n \in Names, clusters'[n].state = "pending" PROVE n \in Owned
    <3>1. CASE clusters[n].state = "pending"
      BY <3>1 DEF RInv, ClustersOwned
    <3>2. CASE n = name /\ cache.st.jds \in Working /\ ~spec.selector
      <4>1. n # Selected
        BY <3>2 DEF RInv, Lag, name
      <4> QED
        BY <4>1, RayJobAssumption DEF Names, Owned, Selected
    <3> QED
      BY <1>3, <2>2, <3>1, <3>2 DEF ClusterStep
  <2> QED
    BY <1>2, <2>1, <2>2, Zenon DEF ClustersOwned, Exists
<1>7. SubmitterOwned'
  <2>1. SUFFICES ASSUME submitter'.phase # "absent"
                 PROVE  /\ submitter'.of = job'.st.name /\ job'.st.jds \notin Idle /\ HasSubmitter
                        /\ spec.mode = "SidecarMode" =>
                               submitter'.of \in Owned /\ Exists(clusters'[submitter'.of])
    BY <1>2 DEF SubmitterOwned, HasSubmitter, Exists
  <2>2. spec.mode = "SidecarMode" => Exists(clusters'[submitter'.of])
    BY <1>3, <2>1 DEF SubmitterStep
  <2>3. CASE submitter.phase # "absent" /\ submitter'.of = submitter.of
    <3>1. Held /\ submitter.of = job.st.name /\ job.st.jds \notin Idle
      BY <2>3 DEF Held, RInv, SubmitterOwned
    <3> QED
      BY <1>2, <2>2, <2>3, <3>1, NameKept, Zenon DEF RInv, SubmitterOwned
  <2>4. CASE spec.mode = "K8sJobMode" /\ submitter'.of = name /\ cache.st.jds \in Working
    <3>1. name = job.st.name /\ job.st.jds \notin Idle
      BY <2>4 DEF RInv, Lag, name
    <3> QED
      BY <1>2, <2>4, <3>1, NameKept DEF HasSubmitter
  <2>5. CASE spec.mode = "SidecarMode" /\ submitter'.of \in Owned /\ Exists(clusters[submitter'.of])
    <3>1. Held /\ submitter'.of = job.st.name /\ job.st.jds \notin Idle
      BY <2>5 DEF Held, RInv, ClustersOwned
    <3> QED
      BY <1>2, <2>2, <2>5, <3>1, NameKept DEF HasSubmitter
  <2> QED
    BY <1>3, <2>1, <2>3, <2>4, <2>5, Zenon DEF SubmitterStep
<1> QED
  BY <1>1, <1>4, <1>5, <1>6, <1>7 DEF RInv

\* The invariant holds throughout.
LEMMA ResourcesInvariant == Prompt => (Spec => []RInv)
<1>1. Prompt /\ RInv /\ [Next]_vars => RInv'
  BY ResourcesInductive
<1>2. Init => RInv
  BY ResourcesInitially
<1> SUFFICES ASSUME Prompt PROVE Spec => []RInv
  OBVIOUS
<1>3. RInv /\ [Next]_vars => RInv'
  BY <1>1
<1> QED
  BY <1>2, <1>3, PTL DEF Spec

\* Where the caches show what a reconcile has created before the next one, every
\* RayCluster and submitter that exists belongs to the attempt that the status names:
\* the Suspending and Retrying branches forget none, whenever the operator stops.
THEOREM NothingIsLeftBehind == Prompt => (Spec => []NothingLeftBehind)
<1> SUFFICES ASSUME Prompt PROVE Spec => []NothingLeftBehind
  OBVIOUS
<1>1. RInv => NothingLeftBehind
  BY DEF RInv, ClustersOwned, SubmitterOwned, NothingLeftBehind
<1>2. Spec => []RInv
  BY ResourcesInvariant
<1> QED
  BY <1>1, <1>2, PTL

------------------------------------------------------------------------------
(* The refinement.                                                         *)

\* Every step of RayJob is a step of RayJobLifecycle or changes nothing that it shows.
LEMMA LifecycleStep ==
    ASSUME Prompt, RInv, RInv', [Next]_vars
    PROVE  [Lifecycle!LNext]_(Lifecycle!lifecycle)
<1>1. Effect /\ spec' = spec
  BY NextEffect DEF RInv
<1>2. CASE /\ job'.st.jds = job.st.jds /\ job'.st.failed = job.st.failed
  <2>1. Held' => job'.st.jds \notin Idle
    BY DEF RInv, ClustersOwned, SubmitterOwned, Held
  <2>2. Lifecycle!Hold \/ Lifecycle!Free
    BY <1>1, <1>2, <2>1 DEF Lifecycle!Hold, Lifecycle!Free, Lifecycle!Idle, Idle
  <2> QED
    BY <2>2 DEF Lifecycle!LNext
<1>3. CASE job'.st # job.st
  <2>0. Held \in BOOLEAN /\ Held' \in BOOLEAN
    BY DEF Held
  <2>1. Reconcile
    <3>1. ~Unrecorded
      BY <1>3 DEF Unrecorded
    <3> QED
      BY <3>1, <1>3, WorldFrame DEF RInv, IInv, vars
  <2>2. ClusterStep /\ SubmitterStep /\ Keeps
    BY <2>1, ReconcileResources DEF RInv
  <2>3. PICK new : Recorded(new) /\ StatusStep(job.st, new)
    BY <1>1, <1>3 DEF Effect, Unrecorded
  <2> DEFINE st == job.st
  <2>4. cache = job /\ job'.st = new /\ new # st
    BY <1>3, <2>3 DEF Recorded
  <2>5. Held => Held'
    BY <2>2 DEF Keeps, Held, Exists
  <2>6. st.jds \notin Working /\ ~Held => ~Held'
    <3> SUFFICES ASSUME st.jds \notin Working, ~Held PROVE ~Held'
      OBVIOUS
    <3>1. \A n \in Owned : ~Exists(clusters'[n])
      BY <2>2, <2>4, Zenon DEF ClusterStep, Held
    <3>2. submitter'.phase = "absent"
      BY <2>2, <2>4 DEF SubmitterStep, Held
    <3> QED
      BY <3>1, <3>2 DEF Held, Exists
  <2>7. st.jds \in Idle => ~Held
    BY Zenon DEF RInv, ClustersOwned, SubmitterOwned, Held
  <2>8. spec'.backoff = spec.backoff /\ job'.st.jds = new.jds /\ job'.st.failed = new.failed
    BY <1>1, <2>4
  <2>9. CASE Begins(st, new) \/ Parks(st, new)
    <3>1. Held' = Held
      <4>1. ~Held /\ ~Held'
        BY <2>6, <2>7, <2>9 DEF Begins, Parks, Idle, Working
      <4> QED
        BY <2>0, <4>1
    <3>2. Lifecycle!Start
      BY <2>8, <2>9, <3>1 DEF Lifecycle!Start, Lifecycle!Moves, Begins, Parks, Kept
    <3> QED
      BY <3>2 DEF Lifecycle!LNext
  <2>10. CASE Works(st, new)
    <3>1. CASE new.jds = st.jds
      BY <1>2, <2>8, <2>10, <3>1 DEF Works, Kept
    <3>2. CASE new.jds = "Suspending"
      <4>1. Held' = Held
        BY <2>10, <3>2, Zenon DEF Works, Held, Exists
      <4>2. Lifecycle!Suspend
        BY <2>8, <2>10, <3>2, <4>1, Zenon DEF Lifecycle!Suspend, Lifecycle!Moves, Works, Goes, Kept, Working
      <4> QED
        BY <4>2 DEF Lifecycle!LNext
    <3>3. CASE new.jds # st.jds /\ new.jds # "Suspending"
      <4>1. Held' \in {Held, TRUE}
        BY <2>5, Zenon DEF Held
      <4>2. Lifecycle!Advance \/ Lifecycle!Succeed
        BY <2>8, <2>10, <3>3, <4>1, Zenon DEF Lifecycle!Advance, Lifecycle!Succeed, Lifecycle!Works,
           Lifecycle!Active, Works, Goes, Kept, Working
      <4> QED
        BY <4>2 DEF Lifecycle!LNext
    <3> QED
      BY <3>1, <3>2, <3>3
  <2>11. CASE Fails1(st, new)
    <3>1. Held' \in {Held, TRUE}
      BY <2>5 DEF Held
    <3>2. new.failed <= IF new.jds = "Retrying" THEN spec.backoff ELSE spec.backoff + 1
      BY <1>1, <2>8, <2>11, Zenon DEF RInv, IInv, FailuresBounded, Fails1
    <3>3. Lifecycle!Fail
      BY <2>8, <2>11, <3>1, <3>2, Zenon DEF Lifecycle!Fail, Lifecycle!Works, Lifecycle!Active, Fails1,
         Working
    <3> QED
      BY <3>3 DEF Lifecycle!LNext
  <2>12. CASE Releases(st, new)
    <3>1. ~Held
      BY <2>4, <2>12, ReleasedHoldsNothing, Zenon DEF Releases
    <3>2. ~Held'
      BY <2>6, <2>12, <3>1, Zenon DEF Releases, Working
    <3>3. Held' = Held
      BY <2>0, <3>1, <3>2
    <3>4. Lifecycle!Leave
      BY <2>8, <2>12, <3>1, <3>3, Zenon DEF Lifecycle!Leave, Lifecycle!Moves, Releases
    <3> QED
      BY <3>4 DEF Lifecycle!LNext
  <2>13. CASE Resumes(st, new)
    <3>1. Held' = Held
      <4>1. ~Held /\ ~Held'
        BY <2>6, <2>7, <2>13, Zenon DEF Resumes, Idle, Working
      <4> QED
        BY <2>0, <4>1
    <3>2. Lifecycle!Resume
      BY <2>8, <2>13, <3>1, Zenon DEF Lifecycle!Resume, Lifecycle!Moves, Resumes, Kept
    <3> QED
      BY <3>2 DEF Lifecycle!LNext
  <2>14. CASE Rejects(st, new)
    <3>1. Held' = Held
      BY <2>14 DEF Rejects, Held, Exists
    <3>2. Lifecycle!Reject
      BY <2>8, <2>14, <3>1 DEF Lifecycle!Reject, Rejects, Kept
    <3> QED
      BY <3>2 DEF Lifecycle!LNext
  <2> QED
    BY <2>3, <2>4, <2>9, <2>10, <2>11, <2>12, <2>13, <2>14, Zenon DEF StatusStep
<1> QED
  BY <1>2, <1>3

\* The life cycle that RayJobLifecycle promises to whoever watches the status is the one
\* that the reconciler implements: which state follows which, when resources may be held,
\* and how often the RayJob may fail.
THEOREM LifecycleImplemented == Prompt => (Spec => ImplementsLifecycle)
<1> SUFFICES ASSUME Prompt PROVE Spec => ImplementsLifecycle
  OBVIOUS
<1>1. Init => Lifecycle!LInit
  <2> SUFFICES ASSUME Init PROVE Lifecycle!LInit
    OBVIOUS
  <2>1. RInv
    BY ResourcesInitially
  <2>2. job.st.jds = "New" /\ job.st.failed = 0
    <3>1. PICK s \in BOOLEAN :
           job = [exists |-> TRUE, deleting |-> FALSE, finalizer |-> FALSE,
                  suspend |-> s, jobId |-> FALSE,
                  st |-> [jds |-> "New", js |-> "", name |-> NoName, reason |-> "",
                          failed |-> 0, succeeded |-> 0, checkFailing |-> FALSE]]
      BY Zenon DEF Init
    <3> QED
      BY <3>1, Zenon
  <2>3. spec.backoff \in Nat
    BY <2>1, NamesFact DEF RInv, IInv, Typed, Spec_
  <2>4. ~Held
    BY <2>1, <2>2 DEF RInv, ClustersOwned, SubmitterOwned, Held, Idle
  <2> QED
    BY <2>2, <2>3, <2>4 DEF Lifecycle!LInit, Lifecycle!Idle
<1>2. Spec => []RInv
  BY ResourcesInvariant
<1>3. RInv /\ RInv' /\ [Next]_vars => [Lifecycle!LNext]_(Lifecycle!lifecycle)
  BY LifecycleStep
<1> QED
  BY <1>1, <1>2, <1>3, PTL DEF Spec, ImplementsLifecycle, Lifecycle!LSpec

\* Whoever reads New or Suspended in the status may rely on it: no RayCluster and no
\* submitter of the RayJob is left.  It follows from the life cycle alone.
THEOREM IdleMeansNothingHeld == Prompt => (Spec => []Lifecycle!IdleHoldsNothing)
<1> SUFFICES ASSUME Prompt PROVE Spec => []Lifecycle!IdleHoldsNothing
  OBVIOUS
<1>1. Spec => Lifecycle!LSpec
  BY LifecycleImplemented DEF ImplementsLifecycle
<1>2. Lifecycle!LInit => Lifecycle!IdleHoldsNothing
  BY DEF Lifecycle!LInit, Lifecycle!IdleHoldsNothing
<1>3. Lifecycle!IdleHoldsNothing /\ [Lifecycle!LNext]_(Lifecycle!lifecycle)
        => Lifecycle!IdleHoldsNothing'
  <2> SUFFICES ASSUME Lifecycle!IdleHoldsNothing, [Lifecycle!LNext]_(Lifecycle!lifecycle)
               PROVE  Lifecycle!IdleHoldsNothing'
    OBVIOUS
  <2>1. CASE UNCHANGED Lifecycle!lifecycle
    BY <2>1 DEF Lifecycle!IdleHoldsNothing, Lifecycle!lifecycle
  <2>2. CASE Lifecycle!LNext
    <3> USE DEF Lifecycle!IdleHoldsNothing, Lifecycle!Idle, Lifecycle!Moves
    <3>1. CASE Lifecycle!Start
      BY <3>1 DEF Lifecycle!Start
    <3>2. CASE \/ Lifecycle!Advance \/ Lifecycle!Succeed \/ Lifecycle!Fail
      BY <3>2, Zenon DEF Lifecycle!Advance, Lifecycle!Succeed, Lifecycle!Fail, Lifecycle!Works
    <3>3. CASE Lifecycle!Suspend \/ Lifecycle!Leave \/ Lifecycle!Resume \/ Lifecycle!Reject
      BY <3>3, Zenon DEF Lifecycle!Suspend, Lifecycle!Leave, Lifecycle!Resume, Lifecycle!Reject
    <3>4. CASE Lifecycle!Hold \/ Lifecycle!Free
      BY <3>4 DEF Lifecycle!Hold, Lifecycle!Free
    <3> QED
      BY <2>2, <3>1, <3>2, <3>3, <3>4 DEF Lifecycle!LNext
  <2> QED
    BY <2>1, <2>2
<1> QED
  BY <1>1, <1>2, <1>3, PTL DEF Lifecycle!LSpec


------------------------------------------------------------------------------
(* Types, with or without prompt caches.                                   *)

\* The least-number principle, from the well-foundedness of < on the naturals.
LEMMA LeastNatural ==
    ASSUME NEW T, T \subseteq Nat, T # {}
    PROVE  \E x \in T : \A y \in T : x <= y
<1> DEFINE R == {ss \in Nat \X Nat : ss[1] < ss[2]}
<1>1. IsWellFoundedOn(R, Nat)
  BY NatLessThanWellFounded DEF OpToRel
<1> HIDE DEF R
<1>2. \E x \in T : \A y \in T : ~ (<<y, x>> \in R)
  BY <1>1, WFMin, Zenon
<1>3. \A x, y \in Nat : ~ (<<y, x>> \in R) => x <= y
  BY DEF R
<1> QED
  BY <1>2, <1>3, Zenon

\* What a reconcile stores and counts, and what it leaves in the work queue.
Books ==
    /\ late' \subseteq Deadlines /\ age' \in 0..MaxAge /\ names' \in 0..MaxNames
    /\ won' \subseteq Names /\ faults' \in 0..MaxFaults
Queue == queued' \in BOOLEAN /\ timer' \in 0..NoTimer
Things == clusters' \in [Names -> Cluster] /\ submitter' \in Submitter /\ svc' \in 0..Selected

\* The requeue for the next deletion rule asks for a time to live of one of the rules:
\* there is a rule whose time comes first (handleDeletionRules).
LEMMA NextRule ==
    ASSUME TypeOK, RequeueForNext
    PROVE  Queue
<1>0. timer \in 0..NoTimer /\ MaxAge \in Nat /\ NoTimer = MaxAge + 1
  BY RayJobAssumption DEF TypeOK, NoTimer
<1>1. CASE pending = {}
  BY <1>0, <1>1, Zenon DEF RequeueForNext, Done, Queue
<1>2. CASE pending # {}
  <2> DEFINE T == {r.ttl : r \in pending}
  <2>1. \A r \in pending : r.ttl \in 0..MaxAge
    BY RayJobAssumption DEF TypeOK, pending, matched, Spec_, Rule
  <2>2. T \subseteq Nat /\ T # {}
    BY <1>0, <1>2, <2>1
  <2>3. \E x \in T : \A y \in T : x <= y
    <3> HIDE DEF T
    <3> QED
      BY <2>2, LeastNatural, Zenon
  <2>4. \E r \in pending : \A s \in pending : r.ttl <= s.ttl
    <3>1. PICK x \in T : \A y \in T : x <= y
      BY <2>3
    <3>2. PICK r \in pending : r.ttl = x
      BY <3>1
    <3>3. \A s \in pending : s.ttl \in T
      OBVIOUS
    <3> HIDE DEF T
    <3>4. \A s \in pending : r.ttl <= s.ttl
      BY <3>1, <3>2, <3>3
    <3> QED
      BY <3>4
  <2> DEFINE first == CHOOSE r \in pending : \A s \in pending : r.ttl <= s.ttl
  <2>5. first \in pending
    BY <2>4
  <2>6. RequeueAt(first.ttl)
    BY <1>2 DEF RequeueForNext
  <2> HIDE DEF first
  <2>7. first.ttl \in 0..MaxAge
    BY <2>1, <2>5
  <2>8. queued' = FALSE /\ timer' = IF first.ttl < timer THEN first.ttl ELSE timer
    BY <2>6 DEF RequeueAt
  <2>9. timer' \in 0..NoTimer
    BY <1>0, <2>7, <2>8
  <2> QED
    BY <2>8, <2>9, Zenon DEF Queue
<1> QED
  BY <1>1, <1>2

\* A status write, taken or lost, keeps the books in bounds: the ages restart, deadlines
\* are only disarmed, and a recorded name is one of those that may be generated.
LEMMA BooksKept ==
    ASSUME TypeOK,
           \/ \E o : Stored(o) \/ Lost \/ NothingStored
           \/ Fault /\ UNCHANGED <<late, age, history>>
    PROVE  Books
<1>0. /\ MaxNames \in Nat /\ MaxAge \in Nat /\ MaxFaults \in Nat /\ Owned = 1..MaxNames
      /\ names \in 0..MaxNames /\ age \in 0..MaxAge /\ faults \in 0..MaxFaults
      /\ late \subseteq Deadlines /\ won \subseteq Names
  BY RayJobAssumption DEF TypeOK, Owned
<1>1. CASE \E o : Stored(o)
  <2>1. PICK o : Stored(o)
    BY <1>1
  <2>2. late' \subseteq Deadlines /\ age' \in 0..MaxAge /\ won' \subseteq Names /\ faults' \in 0..MaxFaults
    BY <1>0, <2>1 DEF Stored
  <2>3. names' = IF o.st.name \in Owned /\ o.st.name > names THEN o.st.name ELSE names
    BY <2>1, Zenon DEF Stored
  <2>4. names' \in 0..MaxNames
    BY <1>0, <2>3
  <2> QED
    BY <2>2, <2>4 DEF Books
<1>2. CASE Lost \/ NothingStored \/ (Fault /\ UNCHANGED <<late, age, history>>)
  BY <1>0, <1>2 DEF Lost, NothingStored, Fault, history, Books
<1> QED
  BY <1>1, <1>2

\* What a reconcile does to the RayClusters, the submitter and the service keeps their types.
LEMMA PassThings ==
    ASSUME IInv, TypeOK, Reconcile
    PROVE  Things
<1>0. /\ clusters \in [Names -> Cluster] /\ submitter \in Submitter /\ svc \in 0..Selected
      /\ name \in 0..Selected /\ RTyped
  BY DEF TypeOK, RTyped, Object, Status, name
<1>un. ASSUME UNCHANGED world PROVE Things
  BY <1>0, <1>un DEF world, Things
<1>cr. ASSUME getOrCreateRayClusterInstance, cache.st.jds \in Working
       PROVE  clusters' \in [Names -> Cluster]
  BY <1>0, <1>cr, CreateStep DEF ClusterStep
<1>de. ASSUME deleteClusterResources PROVE clusters' \in [Names -> Cluster]
  BY <1>0, <1>de, MarkStep, Zenon DEF deleteClusterResources, ClusterStep
<1>wa. ASSUME Watches PROVE Things
  <2>1. clusters' \in [Names -> Cluster]
    BY <1>wa, <1>cr DEF Watches, Runs, Reconciles, Working
  <2> QED
    BY <1>0, <1>wa, <2>1 DEF Watches, reconcileServices, Things
<1>1. CASE NotFound \/ StopJobAndRemoveFinalizer \/ FailValidation \/ Initialize
  BY <1>0, <1>1 DEF NotFound, StopJobAndRemoveFinalizer, FailValidation, Initialize, world, Things
<1>2. CASE \/ updateStatusToSuspendingIfNeeded
           \/ checkActiveDeadlineAndUpdateStatusIfNeeded
           \/ checkPreRunningDeadlineAndUpdateStatusIfNeeded
           \/ InitializingFails \/ WaitForJobId
           \/ checkTransitionGracePeriodAndUpdateStatusIfNeeded
           \/ checkJobStatusCheckTimeoutAndUpdateStatusIfNeeded
           \/ RunningFails \/ Resume \/ StaySuspended \/ UnknownStatus
  BY <1>2, <1>un DEF updateStatusToSuspendingIfNeeded, checkActiveDeadlineAndUpdateStatusIfNeeded,
     checkPreRunningDeadlineAndUpdateStatusIfNeeded, InitializingFails, WaitForJobId,
     checkTransitionGracePeriodAndUpdateStatusIfNeeded,
     checkJobStatusCheckTimeoutAndUpdateStatusIfNeeded, RunningFails, Resume, StaySuspended,
     UnknownStatus
<1>3. CASE WaitForRayCluster
  <2>1. clusters' \in [Names -> Cluster]
    BY <1>3, <1>cr DEF WaitForRayCluster, Initializes, Reconciles, Working
  <2> QED
    BY <1>0, <1>3, <2>1 DEF WaitForRayCluster, Things
<1>4. CASE Submit
  <2>1. \/ UNCHANGED submitter
        \/ submitter' = [of |-> name, phase |-> "active", deleting |-> FALSE]
    BY <1>4 DEF Submit, createK8sJobIfNeed
  <2>2. submitter' \in Submitter
    <3>1. \A n \in 0..Selected :
              [of |-> n, phase |-> "active", deleting |-> FALSE] \in Submitter
      BY DEF Submitter
    <3> QED
      BY <1>0, <2>1, <3>1
  <2>3. UNCHANGED <<clusters, svc>>
    BY <1>4 DEF Submit
  <2> QED
    BY <1>0, <2>2, <2>3 DEF Things
<1>5. CASE \/ SubmitterNotFound \/ checkSubmitterFinishedTimeoutAndUpdateStatusIfNeeded
           \/ checkSubmitterAndUpdateStatusIfNeeded \/ JobInfoFound
           \/ reconcileHTTPModeJobNotFound \/ JobNotFound \/ recordJobStatusCheckFailure
  BY <1>5, <1>wa DEF SubmitterNotFound, checkSubmitterFinishedTimeoutAndUpdateStatusIfNeeded,
     checkSubmitterAndUpdateStatusIfNeeded, JobInfoFound, reconcileHTTPModeJobNotFound,
     JobNotFound, recordJobStatusCheckFailure, GetJobInfo
<1>6. CASE Release
  <2>1. \/ UNCHANGED submitter
        \/ submitter' = [submitter EXCEPT !.deleting = TRUE]
    BY <1>6 DEF Release, deleteSubmitterJob
  <2>2. submitter' \in Submitter
    BY <1>0, <2>1, Zenon DEF Submitter
  <2>3. clusters' \in [Names -> Cluster] /\ UNCHANGED svc
    BY <1>6, <1>de DEF Release
  <2> QED
    BY <1>0, <2>2, <2>3 DEF Things
<1>ex. ASSUME NEW policy \in Policies, executeDeletionPolicy(policy)
       PROVE  clusters' \in [Names -> Cluster]
  <2>1. \/ UNCHANGED clusters \/ deleteClusterResources
        \/ clusters' = [clusters EXCEPT ![name].suspended = TRUE]
    BY <1>ex, Zenon DEF executeDeletionPolicy, Policies
  <2> QED
    BY <1>0, <1>de, <2>1, MarkStep DEF ClusterStep
<1>fi. ASSUME Finishes, clusters' \in [Names -> Cluster] PROVE Things
  BY <1>0, <1>fi DEF Finishes, Things
<1>7. CASE NothingToDelete
  BY <1>0, <1>7, <1>fi DEF NothingToDelete
<1>8. CASE handleDeletionRules
  <2>1. CASE overdue = {}
    BY <1>0, <1>8, <1>fi, <2>1 DEF handleDeletionRules
  <2>2. CASE overdue # {}
    <3>1. \A r \in overdue : r.policy \in Policies
      BY DEF overdue, matched, IInv, Typed, Spec_, Rule
    <3>2. selectMostImpactfulRule(overdue).policy \in Policies
      BY <2>2, <3>1, MostImpactful
    <3> QED
      BY <1>8, <1>ex, <1>fi, <2>2, <3>2 DEF handleDeletionRules, Executes
  <2> QED
    BY <2>1, <2>2
<1>9. CASE handleLegacyDeletionPolicy
  BY <1>0, <1>9, <1>ex, <1>fi, Zenon DEF handleLegacyDeletionPolicy, Executes, IInv, Typed, Spec_
<1>10. CASE handleShutdownAfterJobFinishes
  BY <1>0, <1>10, <1>ex, <1>fi DEF handleShutdownAfterJobFinishes, Executes, Policies
<1> QED
  BY <1>1, <1>2, <1>3, <1>4, <1>5, <1>6, <1>7, <1>8, <1>9, <1>10 DEF Reconcile

\* Every branch of Reconcile ends with a status write or without one, and with the key
\* requeued, dropped, or requeued for the time to live of the spec or of a rule.
LEMMA PassBooks ==
    ASSUME IInv, TypeOK, Reconcile
    PROVE  Books /\ Queue
<1>0. timer \in 0..NoTimer /\ MaxAge \in Nat /\ NoTimer = MaxAge + 1 /\ spec.ttl \in 0..MaxAge
  BY RayJobAssumption, Zenon DEF TypeOK, NoTimer, IInv, Typed, Spec_
<1>re. Requeue \/ Done => Queue
  BY <1>0, Zenon DEF Requeue, Done, Queue
<1>at. RequeueAt(spec.ttl) => Queue
  <2>1. ASSUME RequeueAt(spec.ttl) PROVE queued' = FALSE /\ timer' \in 0..NoTimer
    BY <1>0, <2>1 DEF RequeueAt
  <2> QED
    BY <2>1 DEF Queue
<1>no. NothingStored \/ Lost => Books
  BY BooksKept
<1>st. \A o : Stored(o) => Books
  BY BooksKept
<1>fi. \A st : Finish(st) => Books /\ Queue
  BY <1>re, <1>no, <1>st DEF Finish, updateRayJobStatus
<1>1. CASE NotFound
  BY <1>1, <1>re, <1>no DEF NotFound
<1>2. CASE StopJobAndRemoveFinalizer
  BY <1>2, <1>re, <1>no, <1>st DEF StopJobAndRemoveFinalizer
<1>3. CASE FailValidation
  <2>1. Books
    BY <1>3, <1>no, <1>st DEF FailValidation, updateRayJobStatus
  <2>2. Queue
    BY <1>0, <1>3 DEF FailValidation, Queue
  <2> QED
    BY <2>1, <2>2
<1>4. CASE Initialize
  <2>1. \/ \E o : Stored(o)
        \/ Lost
        \/ Fault /\ UNCHANGED <<late, age, history>>
    BY <1>4 DEF Initialize
  <2>2. Books
    BY <2>1, BooksKept
  <2> QED
    BY <1>4, <1>re, <2>2 DEF Initialize
<1>5. CASE \/ updateStatusToSuspendingIfNeeded
           \/ checkActiveDeadlineAndUpdateStatusIfNeeded
           \/ checkPreRunningDeadlineAndUpdateStatusIfNeeded
           \/ checkTransitionGracePeriodAndUpdateStatusIfNeeded
           \/ checkJobStatusCheckTimeoutAndUpdateStatusIfNeeded
           \/ WaitForRayCluster \/ Submit \/ Resume
           \/ checkSubmitterFinishedTimeoutAndUpdateStatusIfNeeded
           \/ checkSubmitterAndUpdateStatusIfNeeded \/ JobInfoFound
           \/ reconcileHTTPModeJobNotFound \/ recordJobStatusCheckFailure
  BY <1>5, <1>fi, Zenon DEF updateStatusToSuspendingIfNeeded,
     checkActiveDeadlineAndUpdateStatusIfNeeded, checkPreRunningDeadlineAndUpdateStatusIfNeeded,
     checkTransitionGracePeriodAndUpdateStatusIfNeeded,
     checkJobStatusCheckTimeoutAndUpdateStatusIfNeeded, WaitForRayCluster, Submit, Resume,
     checkSubmitterFinishedTimeoutAndUpdateStatusIfNeeded, checkSubmitterAndUpdateStatusIfNeeded,
     JobInfoFound, reconcileHTTPModeJobNotFound, recordJobStatusCheckFailure
<1>6. CASE InitializingFails \/ RunningFails \/ SubmitterNotFound \/ StaySuspended \/ UnknownStatus
  BY <1>6, <1>re, <1>no DEF InitializingFails, RunningFails, SubmitterNotFound, StaySuspended,
     UnknownStatus
<1>7. CASE WaitForJobId
  BY <1>7, <1>fi, <1>re, <1>no, Zenon DEF WaitForJobId
<1>8. CASE JobNotFound
  BY <1>8, <1>fi, <1>re, <1>no, Zenon DEF JobNotFound
<1>9. CASE Release
  <2>1. \/ Finish(Released)
        \/ Requeue /\ NothingStored
        \/ Requeue /\ UNCHANGED <<late, age, history>> /\ (UNCHANGED faults \/ Fault)
    BY <1>9 DEF Release, Fault
  <2>2. UNCHANGED <<late, age, history>> /\ UNCHANGED faults => Books
    BY RayJobAssumption, Zenon DEF TypeOK, history, Books
  <2>3. UNCHANGED <<late, age, history>> /\ Fault => Books
    BY BooksKept
  <2> QED
    BY <2>1, <2>2, <2>3, <1>fi, <1>re, <1>no, Zenon
<1>10. CASE NothingToDelete
  BY <1>10, <1>re, <1>no DEF NothingToDelete
<1>11. UNCHANGED <<late, age, history, faults>> => Books
  BY RayJobAssumption, Zenon DEF TypeOK, history, Books
<1>12. CASE handleDeletionRules
  BY <1>12, <1>11, <1>re, <1>no, NextRule, Zenon DEF handleDeletionRules, Executes
<1>13. CASE handleLegacyDeletionPolicy
  BY <1>13, <1>11, <1>re, <1>at, <1>no, Zenon DEF handleLegacyDeletionPolicy, Executes
<1>14. CASE handleShutdownAfterJobFinishes
  BY <1>14, <1>11, <1>re, <1>at, <1>no, Zenon DEF handleShutdownAfterJobFinishes, Executes
<1> QED
  BY <1>1, <1>2, <1>3, <1>4, <1>5, <1>6, <1>7, <1>8, <1>9, <1>10, <1>12, <1>13, <1>14 DEF Reconcile

\* What everyone else changes keeps its type, too.
LEMMA WorldTypes ==
    ASSUME IInv, TypeOK, Next, ~Reconcile
    PROVE  /\ Things /\ Books /\ Queue /\ edits' \in 0..MaxEdits
           /\ clusterCache' \in [Names -> Cluster] /\ submitterCache' \in Submitter
<1>0. /\ clusters \in [Names -> Cluster] /\ submitter \in Submitter /\ svc \in 0..Selected
      /\ clusterCache \in [Names -> Cluster] /\ submitterCache \in Submitter /\ RTyped
  BY DEF TypeOK, RTyped
<1>1. /\ MaxAge \in Nat /\ MaxFaults \in Nat /\ MaxEdits \in Nat /\ NoTimer = MaxAge + 1
      /\ age \in 0..MaxAge /\ faults \in 0..MaxFaults /\ edits \in 0..MaxEdits
      /\ timer \in 0..NoTimer /\ queued \in BOOLEAN /\ names \in 0..MaxNames
      /\ late \subseteq Deadlines /\ won \subseteq Names
  BY RayJobAssumption, Zenon DEF TypeOK, NoTimer
<1>ns. NoSubmitter \in Submitter
  BY NamesFact DEF NoSubmitter, Submitter
<1>ab. Absent \in Cluster
  BY DEF Absent, Cluster
<1>ma. ASSUME NEW n \in Names, clusters' = [clusters EXCEPT ![n].deleting = TRUE]
       PROVE  clusters' \in [Names -> Cluster]
  BY <1>0, <1>ma, MarkStep, Zenon DEF ClusterStep
<1>sd. [submitter EXCEPT !.deleting = TRUE] \in Submitter
  BY <1>0, Zenon DEF Submitter
<1>wo. ASSUME NEW n, WithoutSidecar(n) PROVE submitter' \in Submitter
  BY <1>0, <1>ns, <1>wo DEF WithoutSidecar
<1>th. ASSUME UNCHANGED world PROVE Things
  BY <1>0, <1>th DEF world, Things
<1>un. ASSUME UNCHANGED <<late, age, names, won, faults>> PROVE Books
  BY <1>1, <1>un DEF Books
<1>qu. ASSUME queued' \in BOOLEAN, timer' \in {timer, NoTimer} PROVE Queue
  BY <1>1, <1>qu DEF Queue
<1>ca. UNCHANGED caches =>
           clusterCache' \in [Names -> Cluster] /\ submitterCache' \in Submitter
  BY <1>0 DEF caches
<1>2. CASE SyncJob \/ SyncSubmitter
  BY <1>0, <1>1, <1>2, <1>th, <1>un, <1>qu, Zenon DEF SyncJob, SyncSubmitter, history
<1>3. CASE \E n \in Names : SyncCluster(n)
  <2>1. PICK n \in Names : SyncCluster(n)
    BY <1>3
  <2>2. clusterCache' \in [Names -> Cluster] /\ submitterCache' \in Submitter
    BY <1>0, <2>1 DEF SyncCluster
  <2>3. queued' \in BOOLEAN
    BY <2>1 DEF SyncCluster
  <2> QED
    BY <1>1, <1>th, <1>un, <1>qu, <2>1, <2>2, <2>3 DEF SyncCluster, history
<1>4. CASE SubmitterDeleted
  <2>1. Things
    BY <1>0, <1>ns, <1>4 DEF SubmitterDeleted, World, Things
  <2>2. Books
    BY <1>1, <1>4 DEF SubmitterDeleted, World, Books
  <2> QED
    BY <1>1, <1>4, <1>qu, <1>ca, <2>1, <2>2 DEF SubmitterDeleted, World
<1>5. CASE GarbageCollected \/ EditDrop
  <2>1. clusters' \in [Names -> Cluster] /\ submitter' \in Submitter
    BY <1>0, <1>5, <1>ma, <1>sd, NamesFact, Zenon DEF GarbageCollected, EditDrop
  <2>2. World /\ UNCHANGED <<late, won, faults>>
    BY <1>5 DEF GarbageCollected, EditDrop
  <2>3. edits' \in 0..MaxEdits
    BY <1>1, <1>5 DEF GarbageCollected, EditDrop, Edit
  <2>4. Things
    BY <1>0, <2>1, <2>2 DEF World, Things
  <2> QED
    BY <1>1, <1>un, <1>qu, <1>ca, <2>2, <2>3, <2>4 DEF World
<1>6. CASE \E n \in Names : ClusterDeleted(n) \/ HeadLost(n)
  <2>1. PICK n \in Names : ClusterDeleted(n) \/ HeadLost(n)
    BY <1>6
  <2>2. clusters' \in [Names -> Cluster] /\ submitter' \in Submitter
    BY <1>0, <1>ab, <1>wo, <2>1, Zenon DEF ClusterDeleted, HeadLost
  <2>3. World /\ UNCHANGED <<late, won, edits>>
    BY <2>1, Zenon DEF ClusterDeleted, HeadLost
  <2>4. faults' \in 0..MaxFaults
    <3>1. UNCHANGED faults \/ (faults < MaxFaults /\ faults' = faults + 1)
      BY <2>1, Zenon DEF ClusterDeleted, HeadLost, Fault
    <3> QED
      BY <1>1, <3>1
  <2>5. Things
    BY <1>0, <2>2, <2>3 DEF World, Things
  <2>6. Books
    BY <1>1, <2>3, <2>4 DEF World, Books
  <2> QED
    BY <1>1, <1>qu, <1>ca, <2>3, <2>5, <2>6 DEF World
<1>7. CASE Ages
  <2>1. age < MaxAge
    <3>1. spec.ttl \in 0..MaxAge /\ \A r \in spec.rules : r.ttl \in 0..MaxAge
      BY DEF IInv, Typed, Spec_, Rule
    <3> QED
      BY <1>1, <1>7, <3>1 DEF Ages
  <2>2. age' = age + 1 /\ UNCHANGED <<late, names, won, faults>>
    BY <1>7, Zenon DEF Ages, history
  <2>6. age' \in 0..MaxAge
    BY <1>1, <2>1, <2>2
  <2>7. Books
    BY <1>1, <2>2, <2>6 DEF Books
  <2>3. queued' \in BOOLEAN /\ timer' \in {timer, NoTimer}
    BY <1>7 DEF Ages
  <2> QED
    BY <1>1, <1>7, <1>th, <1>qu, <1>ca, <2>7, <2>3, Zenon DEF Ages
<1>8. CASE \E d \in Deadlines : DeadlinePasses(d)
  <2>1. Books
    BY <1>1, <1>8 DEF DeadlinePasses, World, Books
  <2>2. Things
    BY <1>0, <1>8 DEF DeadlinePasses, World, Things
  <2> QED
    BY <1>1, <1>8, <1>qu, <1>ca, <2>1, <2>2 DEF DeadlinePasses, World
<1>9. CASE SubmitterSubmits
  BY <1>1, <1>9, <1>th, <1>un, <1>qu, <1>ca, <1>0, Zenon DEF SubmitterSubmits, World, Things
<1>10. CASE SubmitterEnds
  <2>1. \A p \in {"complete", "failed"} : [submitter EXCEPT !.phase = p] \in Submitter
    BY <1>0 DEF Submitter
  <2>2. Things
    BY <1>0, <1>10, <2>1 DEF SubmitterEnds, World, Things
  <2> QED
    BY <1>1, <1>10, <1>un, <1>qu, <1>ca, <2>2 DEF SubmitterEnds, World
<1>11. CASE UserSubmits
  <2>1. Things
    BY <1>0, <1>11 DEF UserSubmits, Things
  <2> QED
    BY <1>1, <1>11, <1>un, <1>qu, <1>ca, <2>1 DEF UserSubmits, history
<1>12. CASE \E n \in Names : ClusterReady(n)
  <2>1. PICK n \in Names : ClusterReady(n)
    BY <1>12
  <2>2. \A c \in Cluster : [c EXCEPT !.state = "ready"] \in Cluster
    BY DEF Cluster
  <2>3. clusters' \in [Names -> Cluster]
    BY <1>0, <2>1, <2>2 DEF ClusterReady
  <2>4. [of |-> n, phase |-> "active", deleting |-> FALSE] \in Submitter
    BY NamesFact DEF Submitter
  <2>5. /\ submitter' \in Submitter /\ submitterCache' \in Submitter
        /\ late' \subseteq Deadlines
    BY <1>0, <1>1, <2>1, <2>4, Zenon DEF ClusterReady
  <2>6. Things /\ clusterCache' \in [Names -> Cluster]
    BY <1>0, <2>1, <2>3, <2>5 DEF ClusterReady, Things
  <2>7. Books
    BY <1>1, <2>1, <2>5 DEF ClusterReady, history, Books
  <2> QED
    BY <1>1, <1>qu, <2>1, <2>5, <2>6, <2>7 DEF ClusterReady
<1>13. CASE \E n \in Names : RayJobEnds(n)
  <2>1. PICK n \in Names : RayJobEnds(n)
    BY <1>13
  <2>2. Books
    BY <1>1, <2>1, Zenon DEF RayJobEnds, World, Books
  <2>3. Things
    BY <1>0, <2>1 DEF RayJobEnds, World, Things
  <2> QED
    BY <1>1, <1>qu, <1>ca, <2>1, <2>2, <2>3, Zenon DEF RayJobEnds, World
<1>14. CASE OperatorRestarts
  <2>1. Books
    BY <1>1, <1>14 DEF OperatorRestarts, Fault, history, Books
  <2> QED
    BY <1>0, <1>1, <1>14, <1>th, <1>qu, <2>1 DEF OperatorRestarts
<1>15. CASE EditSuspend \/ EditDelete
  <2>1. edits' \in 0..MaxEdits
    BY <1>1, <1>15 DEF EditSuspend, EditDelete, Edit
  <2> QED
    BY <1>1, <1>15, <1>th, <1>un, <1>qu, <1>ca, <2>1 DEF EditSuspend, EditDelete, history
<1> QED
  BY <1>2, <1>3, <1>4, <1>5, <1>6, <1>7, <1>8, <1>9, <1>10, <1>11, <1>12, <1>13, <1>14, <1>15
     DEF Next, Sync, Deletion, Time

\* The variables of a RayJob keep the types of the Go declarations and the bounds of the
\* model, with prompt caches or without: no branch of Reconcile stores a status, names a
\* RayCluster or sets a timer outside of them.
THEOREM RayJobTypeCorrect == Spec => []TypeOK
<1>1. Init => TypeOK
  <2> SUFFICES ASSUME Init PROVE TypeOK
    OBVIOUS
  <2>1. PICK s \in {"absent", "ready"} :
           clusters = [n \in Names |-> IF n = Selected /\ spec.selector
                                       THEN [Absent EXCEPT !.state = s] ELSE Absent]
    BY Zenon DEF Init
  <2>2. [Absent EXCEPT !.state = s] \in Cluster /\ Absent \in Cluster
    BY Zenon DEF Absent, Cluster
  <2>3. clusters \in [Names -> Cluster]
    BY <2>1, <2>2
  <2>4. NoSubmitter \in Submitter
    BY NamesFact DEF NoSubmitter, Submitter
  <2>5. job \in Object /\ ray \in [Names -> JobStatuses]
    BY Initially DEF IInv, Typed
  <2>6. /\ svc = NoName /\ age = 0 /\ timer = NoTimer /\ names = 0 /\ resumed = 0
        /\ edits = 0 /\ faults = 0
    BY Zenon DEF Init
  <2>7. /\ svc \in 0..Selected /\ age \in 0..MaxAge /\ timer \in 0..NoTimer
        /\ names \in 0..MaxNames /\ resumed \in Nat
        /\ edits \in 0..MaxEdits /\ faults \in 0..MaxFaults
    BY <2>6, NamesFact, RayJobAssumption DEF NoTimer
  <2>8. /\ spec \in Specs /\ cache = job /\ clusterCache = clusters
        /\ submitter = NoSubmitter /\ submitterCache = NoSubmitter
        /\ late = {} /\ queued = TRUE /\ won = {}
    BY Zenon DEF Init
  <2> QED
    BY <2>3, <2>4, <2>5, <2>7, <2>8 DEF TypeOK
<1>2. IInv /\ IInv' /\ TypeOK /\ [Next]_vars => TypeOK'
  <2> SUFFICES ASSUME IInv, IInv', TypeOK, [Next]_vars PROVE TypeOK'
    OBVIOUS
  <2>1. job' \in Object /\ cache' \in Object /\ ray' \in [Names -> JobStatuses] /\ resumed' \in Nat
    BY DEF IInv, Typed
  <2>2. spec' = spec
    BY NextEffect
  <2>3. CASE Reconcile
    <3>1. Things /\ Books /\ Queue
      BY <2>3, PassThings, PassBooks
    <3>2. UNCHANGED <<caches, edits>>
      BY <2>3, Zenon DEF Reconcile, NotFound, StopJobAndRemoveFinalizer, FailValidation, Initialize,
         updateStatusToSuspendingIfNeeded, checkActiveDeadlineAndUpdateStatusIfNeeded,
         checkPreRunningDeadlineAndUpdateStatusIfNeeded, Initializes, InitializingFails,
         WaitForRayCluster, Submit, WaitForJobId, Runs,
         checkTransitionGracePeriodAndUpdateStatusIfNeeded,
         checkJobStatusCheckTimeoutAndUpdateStatusIfNeeded, RunningFails, Watches,
         SubmitterNotFound, checkSubmitterFinishedTimeoutAndUpdateStatusIfNeeded,
         checkSubmitterAndUpdateStatusIfNeeded, GetJobInfo, JobInfoFound,
         reconcileHTTPModeJobNotFound, JobNotFound, recordJobStatusCheckFailure, Release, Resume,
         StaySuspended, UnknownStatus, Finishes, NothingToDelete, handleDeletionRules,
         handleLegacyDeletionPolicy, handleShutdownAfterJobFinishes, Reconciles
    <3>3. /\ clusterCache' \in [Names -> Cluster] /\ submitterCache' \in Submitter
          /\ edits' \in 0..MaxEdits
      BY <3>2 DEF caches, TypeOK
    <3> QED
      BY <2>1, <2>2, <3>1, <3>3, Zenon DEF Things, Books, Queue, TypeOK
  <2>4. CASE Next /\ ~Reconcile
    <3>1. /\ Things /\ Books /\ Queue /\ edits' \in 0..MaxEdits
          /\ clusterCache' \in [Names -> Cluster] /\ submitterCache' \in Submitter
      BY <2>4, WorldTypes
    <3> QED
      BY <2>1, <2>2, <3>1, Zenon DEF Things, Books, Queue, TypeOK
  <2>5. CASE UNCHANGED vars
    BY <2>5, Zenon DEF vars, caches, world, history, TypeOK
  <2> QED
    BY <2>3, <2>4, <2>5
<1> QED
  BY <1>1, <1>2, Invariant, PTL DEF Spec

==============================================================================
