--------------------------- MODULE RayJobLifecycle ---------------------------
(***************************************************************************)
(* What the states of a RayJob promise to whoever watches its status:      *)
(* which state may follow which, when compute resources may be held, and   *)
(* how often the RayJob may fail.  RayJob implements it.                   *)
(***************************************************************************)
EXTENDS Integers

VARIABLES
    backoff,            \* spec.backoffLimit, which does not change
    phase,              \* status.jobDeploymentStatus
    live,               \* a RayCluster or a submitter of the RayJob exists
    failures            \* status.failed

lifecycle == <<backoff, phase, live, failures>>

Idle == {"New", "Suspended"}
Active == {"Initializing", "Waiting", "Running"}

LInit == backoff \in Nat /\ phase \in Idle /\ ~live /\ failures = 0

Moves(from, to) ==
    phase \in from /\ phase' \in to /\ UNCHANGED <<backoff, live, failures>>

\* An attempt starts, or the RayJob is suspended before it has begun one.
Start == Moves({"New"}, {"Initializing", "Suspended"})

\* A step of an active RayJob may also acquire resources: a submitter, or a
\* RayCluster in the place of one that somebody deleted.
Works(to) ==
    phase \in Active /\ phase' \in to /\ live' \in {live, TRUE} /\ UNCHANGED backoff

Advance ==
    /\ Works({"Waiting", "Running"}) /\ phase # "Running" /\ UNCHANGED failures
    /\ phase = "Waiting" => phase' = "Running"

Succeed == Works({"Complete"}) /\ phase = "Running" /\ UNCHANGED failures

\* A failed attempt is repeated while the limit allows it.
Fail ==
    /\ Works({"Failed", "Retrying"}) /\ failures' = failures + 1
    /\ failures' <= IF phase' = "Retrying" THEN backoff ELSE backoff + 1

Suspend == Moves({"Initializing", "Running"}, {"Suspending"})

\* Only an attempt that holds nothing any more is left.
Leave ==
    /\ ~live
    /\ Moves({"Suspending"}, {"Suspended"}) \/ Moves({"Retrying"}, {"New"})

Resume == Moves({"Suspended"}, {"New"})

Reject == phase' = "ValidationFailed" /\ UNCHANGED <<backoff, live, failures>>

\* Resources appear in a state that names them, and go in any.
Hold == phase \notin Idle /\ live' /\ UNCHANGED <<backoff, phase, failures>>
Free == ~live' /\ UNCHANGED <<backoff, phase, failures>>

LNext ==
    \/ Start \/ Advance \/ Succeed \/ Fail
    \/ Suspend \/ Leave \/ Resume \/ Reject \/ Hold \/ Free

LSpec == LInit /\ [][LNext]_lifecycle

\* Nothing is held in New and in Suspended: the states that say that the RayCluster and the
\* submitter are gone (the Suspending and Retrying branches of Reconcile).
IdleHoldsNothing == phase \in Idle => ~live

==============================================================================
