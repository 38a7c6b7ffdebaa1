----------------------------- MODULE RayCronJob -----------------------------
(***************************************************************************)
(* One RayCronJob: RayCronJobReconciler.Reconcile creates a RayJob for     *)
(* each tick of the schedule and records the tick in LastScheduleTime.     *)
(* Between the two the operator may stop, the status update may conflict   *)
(* with an edit, and the cache may still show the former LastScheduleTime. *)
(*                                                                         *)
(* What makes Reconcile run again is part of the model: the key enters the *)
(* work queue by a watch event, by a timer (RequeueAfter > 0) or by an     *)
(* error.  A reconcile that finds its next tick in the past returns a      *)
(* negative RequeueAfter, which sets no timer.                             *)
(***************************************************************************)
EXTENDS Integers, Sequences

CONSTANTS
    Horizon,        \* bound on the clock
    NextTick,       \* schedule.Next of the cron library, as a function
    Minute,         \* how many units of the clock make a minute
    MaxEdits,       \* bound on the number of edits
    MaxFaults       \* bound on the number of disturbances

Times == 0..Horizon
Ticks == {t \in 1..Horizon : \E u \in Times : NextTick[u] = t}
NoTimer == Horizon + 2

\* schedule.Next(t) is after t, and no tick lies between; Horizon + 1 stands
\* for every tick after the horizon.  A schedule "@every d" counts from its
\* argument, but Reconcile only applies it to the creation time and to former
\* ticks, where it agrees with a schedule that has a tick every d.
ASSUME ScheduleAssumption ==
    /\ Horizon \in Nat /\ Minute \in Nat \ {0}
    /\ MaxEdits \in Nat /\ MaxFaults \in Nat
    /\ NextTick \in [Times -> 1..(Horizon + 1)]
    /\ \A t \in Times : NextTick[t] > t
    /\ \A t, u \in Times : t <= u /\ u < NextTick[t] => NextTick[u] = NextTick[t]

VARIABLES
    clock,
    cron,           \* the RayCronJob in the API server
    cronCache,      \* the informer's copy of it
    watch,          \* the versions written since, not delivered yet
    jobs,           \* names of the RayJobs that exist
    runs,           \* tick -> how many RayJobs have been created for it
    gone,           \* names of RayJobs that have been deleted
    pc, inst, instFresh, now,   \* the reconcile: place, instance, time read
    queued,         \* the key is in the work queue
    timer,          \* when the queue adds it by itself
    edits, faults   \* edits and disturbances so far

crons == <<cron, cronCache, watch>>
rayJobs == <<jobs, runs, gone>>
local == <<inst, instFresh, now>>
queue == <<queued, timer>>
budget == <<edits, faults>>
vars == <<clock, crons, rayJobs, pc, local, queue, budget>>

\* LastScheduleTime, or the creation time (0) before the first tick.
Cron == [last : Times, suspend : BOOLEAN]

\* Slip: the name is made from the time of the creation.
getRayJobName_ByClock(t) == clock

getRayJobName(t) == t \div Minute

\* The variables keep the types the Go declarations and the work queue give them.
TypeOK ==
    /\ clock \in Times /\ now \in Times
    /\ cron \in Cron /\ cronCache \in Cron /\ inst \in Cron
    /\ watch \in Seq(Cron) /\ instFresh \in BOOLEAN /\ queued \in BOOLEAN
    /\ runs \in [Ticks -> Nat] /\ jobs \subseteq Times /\ gone \subseteq Times
    /\ pc \in {"idle", "schedule", "status"}
    /\ timer \in 1..(Horizon + 2)
    /\ edits \in 0..MaxEdits /\ faults \in 0..MaxFaults

-----------------------------------------------------------------------------

Init ==
    /\ clock = 0 /\ now = 0
    /\ cron = [last |-> 0, suspend |-> FALSE] /\ cronCache = cron /\ watch = <<>>
    /\ jobs = {} /\ gone = {} /\ runs = [t \in Ticks |-> 0]
    /\ pc = "idle" /\ inst = cron /\ instFresh = TRUE
    /\ queued = TRUE /\ timer = NoTimer
    /\ edits = 0 /\ faults = 0

Earlier(t, u) == IF t < u THEN t ELSE u

Fault == faults < MaxFaults /\ faults' = faults + 1

Begin ==
    /\ pc = "idle" /\ queued /\ queued' = FALSE
    /\ inst' = cronCache /\ instFresh' = (watch = <<>>) /\ now' = clock
    /\ pc' = "schedule"
    /\ UNCHANGED <<clock, crons, rayJobs, timer, budget>>

SkipSuspended ==
    /\ pc = "schedule" /\ inst.suspend
    /\ pc' = "idle"
    /\ UNCHANGED <<clock, crons, rayJobs, local, queue, budget>>

scheduleTime == NextTick[inst.last]

\* Slip: nothing brings the key back.
NotDue_NoRequeue ==
    /\ pc = "schedule" /\ ~inst.suspend /\ scheduleTime > now
    /\ pc' = "idle"
    /\ UNCHANGED <<clock, crons, rayJobs, local, queue, budget>>

NotDue ==
    /\ pc = "schedule" /\ ~inst.suspend /\ scheduleTime > now
    /\ timer' = Earlier(timer, scheduleTime)
    /\ pc' = "idle"
    /\ UNCHANGED <<clock, crons, rayJobs, local, queued, budget>>

Due == pc = "schedule" /\ ~inst.suspend /\ scheduleTime <= now

\* The API server creates the RayJob of the tick, unless the name is taken.
Created ==
    LET name == getRayJobName(scheduleTime) IN
    /\ name \notin jobs
    /\ jobs' = jobs \cup {name}
    /\ runs' = [runs EXCEPT ![scheduleTime] = @ + 1]
    /\ UNCHANGED gone

AlreadyExists ==
    getRayJobName(scheduleTime) \in jobs /\ UNCHANGED rayJobs

CreateRayJob ==
    /\ Due
    /\ Created \/ AlreadyExists
    /\ pc' = "status"
    /\ UNCHANGED <<clock, crons, local, queue, budget>>

\* Slip: the error is logged and the reconcile goes on.
CreateFails_GoesOn ==
    /\ Due /\ Fault
    /\ Created \/ UNCHANGED rayJobs
    /\ pc' = "status"
    /\ UNCHANGED <<clock, crons, local, queue, edits>>

\* Create returns another error, having taken effect or not.
CreateFails ==
    /\ Due /\ Fault
    /\ Created \/ UNCHANGED rayJobs
    /\ pc' = "idle" /\ queued' = TRUE
    /\ UNCHANGED <<clock, crons, local, timer, edits>>

\* Status().Update stores LastScheduleTime and with it a new version.
Recorded(t) ==
    /\ cron' = [cron EXCEPT !.last = t]
    /\ watch' = Append(watch, cron')
    /\ instFresh' = FALSE

\* Only a positive RequeueAfter sets the timer.
RequeueAfterUpdate ==
    timer' = IF NextTick[scheduleTime] > now
             THEN Earlier(timer, NextTick[scheduleTime]) ELSE timer

\* Slips: the time of the reconcile is recorded; the next tick is recorded.
updateRayCronJobStatus_Now ==
    /\ pc = "status" /\ instFresh
    /\ Recorded(now)
    /\ RequeueAfterUpdate
    /\ pc' = "idle"
    /\ UNCHANGED <<clock, cronCache, rayJobs, inst, now, queued, budget>>

updateRayCronJobStatus_NextTick ==
    /\ pc = "status" /\ instFresh
    /\ Recorded(NextTick[scheduleTime])
    /\ RequeueAfterUpdate
    /\ pc' = "idle"
    /\ UNCHANGED <<clock, cronCache, rayJobs, inst, now, queued, budget>>

updateRayCronJobStatus ==
    /\ pc = "status" /\ instFresh
    /\ Recorded(scheduleTime)
    /\ RequeueAfterUpdate
    /\ pc' = "idle"
    /\ UNCHANGED <<clock, cronCache, rayJobs, inst, now, queued, budget>>

StatusConflicts ==
    /\ pc = "status" /\ ~instFresh
    /\ pc' = "idle" /\ queued' = TRUE
    /\ UNCHANGED <<clock, crons, rayJobs, local, timer, budget>>

\* The update returns another error, having taken effect or not.
StatusFails ==
    /\ pc = "status" /\ Fault
    /\ \/ instFresh /\ Recorded(scheduleTime)
       \/ UNCHANGED <<cron, watch, instFresh>>
    /\ pc' = "idle" /\ queued' = TRUE
    /\ UNCHANGED <<clock, cronCache, rayJobs, inst, now, timer, edits>>

-----------------------------------------------------------------------------

SyncRayCronJob ==
    /\ watch # <<>>
    /\ cronCache' = Head(watch) /\ watch' = Tail(watch) /\ queued' = TRUE
    /\ UNCHANGED <<clock, cron, rayJobs, pc, local, timer, budget>>

ClockTicks ==
    /\ clock < Horizon /\ clock' = clock + 1
    /\ UNCHANGED <<crons, rayJobs, pc, local, queue, budget>>

TimerFires ==
    /\ timer <= clock
    /\ timer' = NoTimer /\ queued' = TRUE
    /\ UNCHANGED <<clock, crons, rayJobs, pc, local, budget>>

OperatorRestarts ==
    /\ Fault
    /\ cronCache' = cron /\ watch' = <<>>
    /\ pc' = "idle" /\ inst' = cron /\ instFresh' = TRUE /\ now' = clock
    /\ queued' = TRUE /\ timer' = NoTimer
    /\ UNCHANGED <<clock, cron, rayJobs, edits>>

\* A RayJob is deleted: by a user, or after its time to live.
RayJobDeleted ==
    /\ Fault
    /\ \E name \in jobs : jobs' = jobs \ {name} /\ gone' = gone \cup {name}
    /\ UNCHANGED <<clock, crons, runs, pc, local, queue, edits>>

EditSuspend ==
    /\ edits < MaxEdits /\ edits' = edits + 1
    /\ cron' = [cron EXCEPT !.suspend = ~cron.suspend]
    /\ watch' = Append(watch, cron') /\ instFresh' = FALSE
    /\ UNCHANGED <<clock, cronCache, rayJobs, pc, inst, now, queue, faults>>

Reconcile ==
    \/ Begin \/ SkipSuspended \/ NotDue \/ CreateRayJob \/ CreateFails
    \/ updateRayCronJobStatus \/ StatusConflicts \/ StatusFails

Environment ==
    \/ SyncRayCronJob \/ ClockTicks \/ TimerFires
    \/ OperatorRestarts \/ RayJobDeleted \/ EditSuspend

Next == Reconcile \/ Environment

Spec == Init /\ [][Next]_vars

\* The worker takes keys from the queue, watches deliver, time passes.
FairSpec ==
    /\ Spec /\ WF_vars(Reconcile) /\ WF_vars(SyncRayCronJob)
    /\ WF_vars(ClockTicks) /\ WF_vars(TimerFires)

-----------------------------------------------------------------------------

\* No two ticks share a RayJob name: true of the five-field schedules, whose
\* ticks are whole minutes.
NamesDiffer ==
    \A t, u \in Ticks : getRayJobName(t) = getRayJobName(u) => t = u

\* A tick that is scheduled again (after a restart, a conflict, a lost reply or
\* from an old cache) starts no second RayJob while its first one exists.
OneRayJobPerTick ==
    \A t \in Ticks : runs[t] > 1 => getRayJobName(t) \in gone

\* LastScheduleTime passes no tick that has not been given its RayJob.
EveryTickScheduled ==
    NamesDiffer => \A t \in Ticks : t <= cron.last => runs[t] >= 1

\* LastScheduleTime moves from a tick to the next one: however old the instance
\* of a reconcile and however late it runs, it neither goes back nor skips one.
AdvancesTickByTick ==
    [][cron'.last \in {cron.last, NextTick[cron.last]}]_vars

\* Unless it ends suspended, the RayCronJob catches up with every tick, those
\* missed while it was suspended or the operator was down included.
CatchesUp ==
    NamesDiffer =>
        <>[]cron.suspend \/ \A t \in Ticks : <>(runs[t] >= 1)

=============================================================================
