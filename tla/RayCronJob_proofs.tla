-------------------------- MODULE RayCronJob_proofs --------------------------
(***************************************************************************)
(* For every schedule, horizon and number of edits and disturbances: the   *)
(* types, and that LastScheduleTime moves tick by tick, past ticks with    *)
(* their RayJob, and that no tick has two RayJobs.                         *)
(***************************************************************************)
EXTENDS RayCronJob, TLAPS

\* What is queued for the watch ends with the stored version, the cache is
\* current when nothing is queued, and a fresh instance is the stored version:
\* the status update of Reconcile builds on the LastScheduleTime it replaces.
FreshInv ==
    /\ watch = <<>> => cronCache = cron
    /\ watch # <<>> => watch[Len(watch)] = cron
    /\ instFresh => inst = cron

\* A RayJob that exists was made for a tick, and a tick with a RayJob has it
\* under its name, unless that was deleted; a tick has a second one only then.
JobsInv ==
    /\ \A name \in jobs : \E t \in Ticks : name = getRayJobName(t) /\ runs[t] >= 1
    /\ \A t \in Ticks : runs[t] >= 1 => getRayJobName(t) \in jobs \cup gone
    /\ \A t \in Ticks : runs[t] > 1 => getRayJobName(t) \in gone

\* When Reconcile is about to record a tick, the tick has its RayJob.
RecordInv ==
    pc = "status" =>
        /\ scheduleTime \in Ticks
        /\ NamesDiffer => runs[scheduleTime] >= 1

CronInv == TypeOK /\ FreshInv /\ JobsInv /\ RecordInv /\ EveryTickScheduled

-----------------------------------------------------------------------------

\* A name that getRayJobName gives to a tick is a number up to the horizon.
LEMMA NameType ==
    ASSUME NEW t \in Ticks
    PROVE  getRayJobName(t) \in Times
  <1>1. t \in Nat /\ t <= Horizon /\ Horizon \in Nat /\ Minute \in Nat /\ Minute >= 1
    BY ScheduleAssumption DEF Ticks
  <1>2. t \div Minute \in Nat /\ t \div Minute <= t
    BY <1>1, Z3
  <1> QED  BY <1>1, <1>2 DEF getRayJobName, Times

\* Between a time and its schedule.Next there is no tick.
LEMMA NoTickBetween ==
    ASSUME NEW last \in Times, NEW t \in Ticks, t <= NextTick[last]
    PROVE  t <= last \/ t = NextTick[last]
  <1>1. PICK u \in Times : NextTick[u] = t
    BY DEF Ticks
  <1>2. t \in Int /\ u \in Int /\ last \in Int /\ NextTick[last] \in Int
    BY ScheduleAssumption DEF Ticks, Times
  <1>3. CASE u >= last
    BY <1>1, <1>2, <1>3, ScheduleAssumption
  <1>4. CASE u < last
    BY <1>1, <1>2, <1>4, ScheduleAssumption
  <1> QED  BY <1>2, <1>3, <1>4

\* A tick that is due lies within the horizon.
LEMMA DueTick ==
    ASSUME TypeOK, Due
    PROVE  scheduleTime \in Ticks
  BY ScheduleAssumption DEF TypeOK, Due, scheduleTime, Ticks, Times, Cron

\* The initial state satisfies the invariant.
LEMMA CronInit == Init => CronInv
  <1> SUFFICES ASSUME Init PROVE CronInv
    OBVIOUS
  <1> USE ScheduleAssumption DEF Init
  <1>1. TypeOK
    BY DEF TypeOK, Cron, Times, Ticks, NoTimer
  <1>2. FreshInv /\ RecordInv
    BY DEF FreshInv, RecordInv
  <1>3. JobsInv
    BY DEF JobsInv
  <1>4. EveryTickScheduled
    BY DEF EveryTickScheduled, Ticks
  <1> QED  BY <1>1, <1>2, <1>3, <1>4 DEF CronInv

-----------------------------------------------------------------------------
\* Create leaves the RayJobs in order: it adds one for the tick at hand, whose
\* name was free.
LEMMA CreatedKeeps ==
    ASSUME CronInv, Due, Created
    PROVE  /\ JobsInv' /\ gone' = gone
           /\ runs' \in [Ticks -> Nat] /\ jobs' \subseteq Times
           /\ \A t \in Ticks : runs'[t] >= runs[t]
           /\ runs'[scheduleTime] >= 1
  <1> DEFINE st == scheduleTime
             name == getRayJobName(st)
  <1>1. st \in Ticks /\ name \in Times
    BY DueTick, NameType DEF CronInv
  <1>2. /\ name \notin jobs /\ jobs' = jobs \cup {name} /\ gone' = gone
        /\ runs' = [runs EXCEPT ![st] = @ + 1]
    BY DEF Created
  <1>3. runs \in [Ticks -> Nat] /\ jobs \subseteq Times
    BY DEF CronInv, TypeOK
  <1>4. /\ runs' \in [Ticks -> Nat] /\ runs'[st] = runs[st] + 1
        /\ \A t \in Ticks : t # st => runs'[t] = runs[t]
    BY <1>1, <1>2, <1>3
  <1>5. \A n \in jobs' : \E t \in Ticks : n = getRayJobName(t) /\ runs'[t] >= 1
    BY <1>1, <1>2, <1>3, <1>4 DEF CronInv, JobsInv
  <1>6. \A t \in Ticks : runs'[t] >= 1 => getRayJobName(t) \in jobs' \cup gone'
    BY <1>1, <1>2, <1>3, <1>4 DEF CronInv, JobsInv
  <1>7. \A t \in Ticks : runs'[t] > 1 => getRayJobName(t) \in gone'
    BY <1>1, <1>2, <1>3, <1>4 DEF CronInv, JobsInv
  <1>8. JobsInv'
    BY <1>5, <1>6, <1>7 DEF JobsInv, getRayJobName
  <1> QED  BY <1>1, <1>2, <1>3, <1>4, <1>8

\* AlreadyExists is an answer about the tick at hand when names differ.
LEMMA TakenScheduled ==
    ASSUME CronInv, Due, AlreadyExists, NamesDiffer
    PROVE  runs[scheduleTime] >= 1
  <1>1. scheduleTime \in Ticks
    BY DueTick DEF CronInv
  <1>2. PICK t \in Ticks : getRayJobName(scheduleTime) = getRayJobName(t) /\ runs[t] >= 1
    BY DEF AlreadyExists, CronInv, JobsInv
  <1> QED  BY <1>1, <1>2 DEF NamesDiffer

\* Recording a tick that has its RayJob, on a fresh instance, keeps what
\* relates the stored version to its copies, and passes no tick without RayJob.
LEMMA RecordedKeeps ==
    ASSUME CronInv, pc = "status", instFresh, Recorded(scheduleTime),
           UNCHANGED <<cronCache, runs, inst>>
    PROVE  /\ FreshInv' /\ EveryTickScheduled'
           /\ cron' \in Cron /\ watch' \in Seq(Cron) /\ instFresh' \in BOOLEAN
           /\ cron'.last = NextTick[cron.last]
  <1>1. inst = cron /\ scheduleTime \in Ticks /\ cron \in Cron /\ watch \in Seq(Cron)
    BY DEF CronInv, FreshInv, RecordInv, TypeOK
  <1>2. cron.last \in Times /\ scheduleTime = NextTick[cron.last]
    BY <1>1 DEF Cron, scheduleTime
  <1>3. scheduleTime \in Times /\ scheduleTime > cron.last
    BY <1>1, <1>2, ScheduleAssumption DEF Ticks, Times
  <1>4. cron' \in Cron /\ cron'.last = scheduleTime
    BY <1>1, <1>3 DEF Recorded, Cron
  <1>5. /\ watch' \in Seq(Cron) /\ watch' # <<>> /\ watch'[Len(watch')] = cron'
        /\ instFresh' = FALSE
    BY <1>1, <1>4 DEF Recorded
  <1>6. FreshInv'
    BY <1>5 DEF FreshInv
  <1>7. EveryTickScheduled'
    <2> SUFFICES ASSUME NamesDiffer, NEW t \in Ticks, t <= scheduleTime
                 PROVE  runs[t] >= 1
      BY <1>4 DEF EveryTickScheduled, NamesDiffer, getRayJobName
    <2>1. t <= cron.last \/ t = scheduleTime
      BY <1>2, NoTickBetween
    <2> QED  BY <2>1 DEF CronInv, EveryTickScheduled, RecordInv
  <1>8. cron'.last = NextTick[cron.last]
    BY <1>2, <1>4
  <1> QED  BY <1>4, <1>5, <1>6, <1>7, <1>8, Zenon

-----------------------------------------------------------------------------

\* Every step keeps the invariant.
LEMMA CronStep == CronInv /\ [Next]_vars => CronInv'
  <1> SUFFICES ASSUME CronInv, [Next]_vars PROVE CronInv'
    OBVIOUS
  <1>N. Horizon \in Nat /\ MaxEdits \in Nat /\ MaxFaults \in Nat
    BY ScheduleAssumption
  <1>T. /\ TypeOK /\ FreshInv /\ JobsInv /\ RecordInv /\ EveryTickScheduled
    BY DEF CronInv
  <1>1. CASE Begin
    BY <1>T, <1>1, Zenon DEF Begin, CronInv, TypeOK, FreshInv, JobsInv, RecordInv, EveryTickScheduled,
       crons, rayJobs, budget, NamesDiffer, getRayJobName
  <1>2. CASE SkipSuspended
    BY <1>T, <1>2 DEF SkipSuspended, CronInv, TypeOK, FreshInv, JobsInv, RecordInv,
       EveryTickScheduled, crons, rayJobs, local, queue, budget, NamesDiffer, getRayJobName
  <1>3. CASE NotDue
    <2>1. timer' \in 1..(Horizon + 2)
      <3>1. inst.last \in Times /\ timer \in 1..(Horizon + 2)
        BY <1>T DEF TypeOK, Cron
      <3>2. scheduleTime \in 1..(Horizon + 1)
        BY <3>1, ScheduleAssumption DEF scheduleTime
      <3>3. timer' = timer \/ timer' = scheduleTime
        BY <1>3 DEF NotDue, Earlier
      <3> QED  BY <1>N, <3>1, <3>2, <3>3
    <2> QED  BY <1>T, <1>3, <2>1 DEF NotDue, CronInv, TypeOK, FreshInv, JobsInv, RecordInv,
       EveryTickScheduled, crons, rayJobs, local, budget, NamesDiffer, getRayJobName
  <1>4. CASE CreateRayJob
    <2>1. Due /\ pc' = "status" /\ UNCHANGED <<clock, crons, local, queue, budget>>
      BY <1>4 DEF CreateRayJob
    <2>2. scheduleTime \in Ticks /\ scheduleTime' = scheduleTime
      BY <1>T, <2>1, DueTick DEF scheduleTime, local
    <2>3. /\ JobsInv' /\ runs' \in [Ticks -> Nat] /\ jobs' \subseteq Times /\ gone' \subseteq Times
          /\ \A t \in Ticks : runs'[t] >= runs[t]
          /\ NamesDiffer => runs'[scheduleTime] >= 1
      <3>1. CASE Created
        BY <1>T, <2>1, <3>1, CreatedKeeps DEF TypeOK
      <3>2. CASE AlreadyExists
        BY <1>T, <2>1, <3>2, TakenScheduled DEF TypeOK, JobsInv, AlreadyExists, rayJobs,
           getRayJobName
      <3> QED  BY <1>4, <3>1, <3>2 DEF CreateRayJob
    <2>4. TypeOK'
      BY <1>T, <2>1, <2>3 DEF TypeOK, crons, local, queue, budget
    <2>5. FreshInv'
      BY <1>T, <2>1 DEF FreshInv, crons, local
    <2>6. RecordInv'
      BY <2>2, <2>3 DEF RecordInv, NamesDiffer, getRayJobName
    <2>7. EveryTickScheduled'
      BY <1>T, <2>1, <2>3 DEF EveryTickScheduled, crons, NamesDiffer, getRayJobName, TypeOK
    <2> QED  BY <2>3, <2>4, <2>5, <2>6, <2>7 DEF CronInv
  <1>5. CASE CreateFails
    <2>1. /\ Due /\ pc' = "idle" /\ queued' = TRUE /\ faults' \in 0..MaxFaults
          /\ UNCHANGED <<clock, crons, local, timer, edits>>
      BY <1>N, <1>T, <1>5 DEF CreateFails, Fault, TypeOK
    <2>3. /\ JobsInv' /\ runs' \in [Ticks -> Nat] /\ jobs' \subseteq Times /\ gone' \subseteq Times
          /\ \A t \in Ticks : runs'[t] >= runs[t]
      <3>1. CASE Created
        BY <1>T, <2>1, <3>1, CreatedKeeps DEF TypeOK
      <3>2. CASE UNCHANGED rayJobs
        BY <1>T, <3>2 DEF TypeOK, JobsInv, rayJobs, getRayJobName
      <3> QED  BY <1>5, <3>1, <3>2 DEF CreateFails
    <2>4. TypeOK'
      BY <1>T, <2>1, <2>3 DEF TypeOK, crons, local
    <2>5. FreshInv' /\ RecordInv'
      BY <1>T, <2>1 DEF FreshInv, RecordInv, crons, local
    <2>7. EveryTickScheduled'
      BY <1>T, <2>1, <2>3 DEF EveryTickScheduled, crons, NamesDiffer, getRayJobName, TypeOK
    <2> QED  BY <2>3, <2>4, <2>5, <2>7 DEF CronInv
  <1>6. CASE updateRayCronJobStatus
    <2>1. /\ pc = "status" /\ instFresh /\ Recorded(scheduleTime) /\ pc' = "idle"
          /\ UNCHANGED <<clock, cronCache, rayJobs, inst, now, queued, budget>>
      BY <1>6 DEF updateRayCronJobStatus
    <2>2. /\ FreshInv' /\ EveryTickScheduled'
          /\ cron' \in Cron /\ watch' \in Seq(Cron) /\ instFresh' \in BOOLEAN
      BY <2>1, RecordedKeeps DEF rayJobs
    <2>3. timer' \in 1..(Horizon + 2)
      <3>1. scheduleTime \in Times
        BY <1>N, <1>T, <2>1 DEF RecordInv, Ticks, Times
      <3> QED  BY <1>N, <1>T, <1>6, <3>1, ScheduleAssumption DEF updateRayCronJobStatus, RequeueAfterUpdate, TypeOK,
             Earlier, Times
    <2>4. TypeOK'
      BY <1>T, <2>1, <2>2, <2>3 DEF TypeOK, rayJobs, budget
    <2>5. JobsInv' /\ RecordInv'
      BY <1>T, <2>1 DEF JobsInv, RecordInv, rayJobs, getRayJobName
    <2> QED  BY <2>2, <2>4, <2>5 DEF CronInv
  <1>7. CASE StatusConflicts
    BY <1>T, <1>7 DEF StatusConflicts, CronInv, TypeOK, FreshInv, JobsInv, RecordInv,
       EveryTickScheduled, crons, rayJobs, local, budget, NamesDiffer, getRayJobName
  <1>8. CASE StatusFails
    <2>1. /\ pc = "status" /\ pc' = "idle" /\ queued' = TRUE /\ faults' \in 0..MaxFaults
          /\ UNCHANGED <<clock, cronCache, rayJobs, inst, now, timer, edits>>
      BY <1>N, <1>T, <1>8 DEF StatusFails, Fault, TypeOK
    <2>2. /\ FreshInv' /\ EveryTickScheduled'
          /\ cron' \in Cron /\ watch' \in Seq(Cron) /\ instFresh' \in BOOLEAN
      <3>1. CASE instFresh /\ Recorded(scheduleTime)
        BY <2>1, <3>1, RecordedKeeps DEF rayJobs
      <3>2. CASE UNCHANGED <<cron, watch, instFresh>>
        BY <1>T, <2>1, <3>2 DEF FreshInv, EveryTickScheduled, TypeOK, rayJobs, NamesDiffer,
           getRayJobName
      <3> QED  BY <1>8, <3>1, <3>2 DEF StatusFails
    <2>4. TypeOK'
      BY <1>T, <2>1, <2>2 DEF TypeOK, rayJobs
    <2>5. JobsInv' /\ RecordInv'
      BY <1>T, <2>1 DEF JobsInv, RecordInv, rayJobs, getRayJobName
    <2> QED  BY <2>2, <2>4, <2>5 DEF CronInv
  <1>9. CASE SyncRayCronJob
    <2>1. watch \in Seq(Cron) /\ watch # <<>>
      BY <1>T, <1>9 DEF SyncRayCronJob, TypeOK
    <2>2. cronCache' \in Cron /\ watch' \in Seq(Cron)
      BY <2>1, <1>9 DEF SyncRayCronJob
    <2>3. FreshInv'
      <3>1. watch' = Tail(watch) /\ cronCache' = watch[1] /\ cron' = cron
        BY <2>1, <1>9 DEF SyncRayCronJob
      <3>2. Len(watch) \in Nat \ {0} /\ Len(watch') = Len(watch) - 1
        BY <2>1, <3>1
      <3>3. watch[Len(watch)] = cron
        BY <1>T, <2>1 DEF FreshInv
      <3>4. watch' = <<>> => cronCache' = cron'
        <4>1. watch' = <<>> => Len(watch) = 1
          BY <3>2
        <4> QED  BY <4>1, <3>1, <3>3
      <3>5. watch' # <<>> => watch'[Len(watch')] = cron'
        <4>1. watch' # <<>> => Len(watch') >= 1
          BY <2>2, <3>2
        <4>2. Len(watch') >= 1 => watch'[Len(watch')] = watch[Len(watch') + 1]
          BY <2>1, <3>1, <3>2
        <4> QED  BY <4>1, <4>2, <3>1, <3>2, <3>3
      <3>6. instFresh' => inst' = cron'
        BY <1>T, <1>9 DEF SyncRayCronJob, FreshInv, local
      <3> QED  BY <3>4, <3>5, <3>6 DEF FreshInv
    <2> QED  BY <1>T, <1>9, <2>2, <2>3 DEF SyncRayCronJob, CronInv, TypeOK, JobsInv, RecordInv,
       EveryTickScheduled, rayJobs, local, budget, NamesDiffer, getRayJobName, scheduleTime
  <1>10. CASE ClockTicks
    <2>1. clock' \in Times
      BY <1>N, <1>T, <1>10 DEF ClockTicks, TypeOK, Times
    <2> QED  BY <1>T, <1>10, <2>1 DEF ClockTicks, CronInv, TypeOK, FreshInv, JobsInv, RecordInv,
       EveryTickScheduled, crons, rayJobs, local, queue, budget, NamesDiffer, getRayJobName,
       scheduleTime
  <1>11. CASE TimerFires
    BY <1>N, <1>T, <1>11 DEF TimerFires, CronInv, TypeOK, FreshInv, JobsInv, RecordInv, NoTimer,
       EveryTickScheduled, crons, rayJobs, local, budget, NamesDiffer, getRayJobName,
       scheduleTime
  <1>12. CASE OperatorRestarts
    <2>1. faults' \in 0..MaxFaults /\ timer' \in 1..(Horizon + 2)
      BY <1>N, <1>T, <1>12 DEF OperatorRestarts, Fault, NoTimer, TypeOK
    <2> QED  BY <1>T, <1>12, <2>1 DEF OperatorRestarts, CronInv, TypeOK, FreshInv, JobsInv,
       RecordInv, EveryTickScheduled, rayJobs, NamesDiffer, getRayJobName
  <1>13. CASE RayJobDeleted
    <2>1. PICK name \in jobs : jobs' = jobs \ {name} /\ gone' = gone \cup {name}
      BY <1>13 DEF RayJobDeleted
    <2>2. /\ faults' \in 0..MaxFaults /\ runs' = runs
          /\ UNCHANGED <<clock, crons, pc, local, queue, edits>>
      BY <1>N, <1>T, <1>13 DEF RayJobDeleted, Fault, TypeOK
    <2>3. TypeOK'
      BY <1>T, <2>1, <2>2 DEF TypeOK, crons, local, queue
    <2>4. JobsInv'
      BY <1>T, <2>1, <2>2 DEF JobsInv, getRayJobName
    <2>5. FreshInv' /\ RecordInv' /\ EveryTickScheduled'
      BY <1>T, <2>2 DEF FreshInv, RecordInv, EveryTickScheduled, crons, local, scheduleTime,
         NamesDiffer, getRayJobName
    <2> QED  BY <2>3, <2>4, <2>5 DEF CronInv
  <1>14. CASE EditSuspend
    <2>1. cron' \in Cron /\ cron'.last = cron.last /\ edits' \in 0..MaxEdits
      <3>1. cron \in Cron /\ cron' = [cron EXCEPT !.suspend = ~cron.suspend]
        BY <1>T, <1>14 DEF EditSuspend, TypeOK
      <3>2. cron' \in Cron /\ cron'.last = cron.last
        BY <3>1, Zenon DEF Cron
      <3>3. edits \in 0..MaxEdits /\ edits < MaxEdits /\ edits' = edits + 1
        BY <1>T, <1>14 DEF EditSuspend, TypeOK
      <3>4. edits' \in 0..MaxEdits
        BY <1>N, <3>3
      <3> QED  BY <3>2, <3>4
    <2>2. watch' \in Seq(Cron) /\ watch' # <<>> /\ watch'[Len(watch')] = cron'
      <3>1. watch \in Seq(Cron) /\ watch' = Append(watch, cron')
        BY <1>T, <1>14 DEF EditSuspend, TypeOK
      <3> QED  BY <2>1, <3>1
    <2>3. FreshInv'
      BY <1>14, <2>2 DEF EditSuspend, FreshInv
    <2> QED  BY <1>T, <1>14, <2>1, <2>2, <2>3, Zenon DEF EditSuspend, CronInv, TypeOK, JobsInv, RecordInv,
       EveryTickScheduled, rayJobs, queue, NamesDiffer, getRayJobName, scheduleTime
  <1>15. CASE UNCHANGED vars
    BY <1>T, <1>15 DEF vars, CronInv, TypeOK, FreshInv, JobsInv, RecordInv, EveryTickScheduled,
       crons, rayJobs, local, queue, budget, NamesDiffer, getRayJobName, scheduleTime
  <1> QED  BY <1>1, <1>2, <1>3, <1>4, <1>5, <1>6, <1>7, <1>8, <1>9, <1>10, <1>11, <1>12,
               <1>13, <1>14, <1>15 DEF Next, Reconcile, Environment

\* CronInv holds throughout.
LEMMA CronInvAlways == Spec => []CronInv
  BY CronInit, CronStep, PTL DEF Spec

\* The types hold throughout, for every schedule.
THEOREM CronTypeCorrect == Spec => []TypeOK
  <1>1. CronInv => TypeOK
    BY DEF CronInv
  <1> QED  BY <1>1, CronInvAlways, PTL

\* Reconcile starts no second RayJob for a tick while the first one exists,
\* whatever is repeated after restarts, conflicts, lost replies and old reads.
THEOREM OneRayJobPerTickAlways == Spec => []OneRayJobPerTick
  <1>1. CronInv => OneRayJobPerTick
    BY DEF CronInv, JobsInv, OneRayJobPerTick
  <1> QED  BY <1>1, CronInvAlways, PTL

\* LastScheduleTime passes no tick without a RayJob, if no two ticks fall into
\* the same minute.
THEOREM EveryTickScheduledAlways == Spec => []EveryTickScheduled
  <1>1. CronInv => EveryTickScheduled
    BY DEF CronInv
  <1> QED  BY <1>1, CronInvAlways, PTL

\* LastScheduleTime only moves to the next tick: what Reconcile records follows
\* the value it replaces.  The proof takes it from the conflict of old instances.
THEOREM AdvancesTickByTickAlways == Spec => AdvancesTickByTick
  <1> DEFINE A == cron'.last \in {cron.last, NextTick[cron.last]}
  <1>1. CronInv /\ [Next]_vars => [A]_vars
    <2> SUFFICES ASSUME CronInv, Next PROVE A
      OBVIOUS
    <2>1. CASE updateRayCronJobStatus
      BY <2>1, RecordedKeeps DEF updateRayCronJobStatus, rayJobs
    <2>2. CASE StatusFails
      <3>1. CASE instFresh /\ Recorded(scheduleTime)
        BY <2>2, <3>1, RecordedKeeps DEF StatusFails, rayJobs
      <3> QED  BY <2>2, <3>1 DEF StatusFails
    <2>3. CASE EditSuspend
      BY <2>3 DEF EditSuspend, CronInv, TypeOK, Cron
    <2>4. CASE UNCHANGED cron
      BY <2>4
    <2> QED
      BY <2>1, <2>2, <2>3, <2>4 DEF Next, Reconcile, Environment, Begin, SkipSuspended, NotDue,
         CreateRayJob, CreateFails, StatusConflicts, SyncRayCronJob, ClockTicks, TimerFires,
         OperatorRestarts, RayJobDeleted, crons
  <1> QED  BY <1>1, CronInvAlways, PTL DEF Spec, AdvancesTickByTick

=============================================================================
