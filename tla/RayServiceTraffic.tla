-------------------------- MODULE RayServiceTraffic --------------------------
(***************************************************************************)
(* The arithmetic of an incremental upgrade (NewClusterWithIncremental-    *)
(* Upgrade): how much target_capacity the active and the pending RayCluster*)
(* have, and how much traffic the HTTPRoute gives each.                    *)
(*                                                                         *)
(* u is the upgrade: capacities a and p, traffic ta and tp, in percent, and*)
(* rb if it is being rolled back.  o holds stepSizePercent and             *)
(* maxSurgePercent.                                                        *)
(***************************************************************************)
EXTENDS Integers

Percent == 0..100
Upgrades == [a : Percent, p : Percent, ta : Percent, tp : Percent, rb : BOOLEAN]
Options == [step : Percent, surge : Percent]

\* All capacity and all traffic are with the active RayCluster.
Fresh == [a |-> 100, p |-> 0, ta |-> 100, tp |-> 0, rb |-> FALSE]

ValidateClusterUpgradeOptions(o) == o.step \in Percent /\ o.surge \in Percent /\ o.step <= o.surge

Least(x, y) == IF x < y THEN x ELSE y
Most(x, y) == IF x > y THEN x ELSE y

\* The two have capacities a and p.
Sized(u, a, p) == [a |-> a, p |-> p, ta |-> u.ta, tp |-> u.tp, rb |-> u.rb]
\* The active RayCluster gets ta of the traffic, the pending one the rest.
Split(u, ta) == [a |-> u.a, p |-> u.p, ta |-> ta, tp |-> 100 - ta, rb |-> u.rb]

\* Slip: the upgrade has scaled once the side that gains has everything.
checkIfNeedTargetCapacityUpdate_Gained(u) == IF u.rb THEN u.a # 100 ELSE u.p # 100

\* Is there anything left to scale?
checkIfNeedTargetCapacityUpdate(u) ==
    IF u.rb THEN u.a # 100 \/ u.p # 0 ELSE u.a # 0 \/ u.p # 100

\* Slip: capacities are not kept between 0 and 100.
reconcileServeTargetCapacity_Unclamped(o, u, who) ==
    LET over == u.a + u.p > 100
        follows == IF u.rb THEN u.a = u.ta ELSE u.p = u.tp
    IN CASE follows /\ u.rb /\ over /\ who = "pending" -> [u EXCEPT !.p = @ - o.surge]
         [] follows /\ u.rb /\ ~over /\ who = "active" -> [u EXCEPT !.a = @ + o.surge]
         [] follows /\ ~u.rb /\ over /\ who = "active" -> [u EXCEPT !.a = @ - o.surge]
         [] follows /\ ~u.rb /\ ~over /\ who = "pending" -> [u EXCEPT !.p = @ + o.surge]
         [] OTHER -> u

\* One of the two is scaled by the surge, once the traffic has followed the
\* capacity: in an upgrade the pending one grows and then the active one
\* shrinks, in a rollback the other way round.
reconcileServeTargetCapacity(o, u, who) ==
    LET over == u.a + u.p > 100
        follows == IF u.rb THEN u.a = u.ta ELSE u.p = u.tp
    IN CASE follows /\ u.rb /\ over /\ who = "pending" ->
              Sized(u, u.a, Most(0, u.p - o.surge))
         [] follows /\ u.rb /\ ~over /\ who = "active" ->
              Sized(u, Least(100, u.a + o.surge), u.p)
         [] follows /\ ~u.rb /\ over /\ who = "active" ->
              Sized(u, Most(0, u.a - o.surge), u.p)
         [] follows /\ ~u.rb /\ ~over /\ who = "pending" ->
              Sized(u, u.a, Least(100, u.p + o.surge))
         [] OTHER -> u

\* Slip: the capacity does not bound the traffic.
calculateTrafficRoutedPercent_Unbounded(o, u, ready, due) ==
    IF ~due THEN u
    ELSE IF u.rb
         THEN LET w == Least(100, u.ta + o.step)
              IN IF u.ta = u.a THEN u ELSE Split(u, w)
         ELSE LET w == Least(100, u.tp + o.step)
              IN IF u.tp = u.p \/ ~ready THEN u ELSE Split(u, 100 - w)

\* When the interval has passed, a step of traffic moves to the side that gains,
\* as far as its capacity allows; in an upgrade only if the pending one is ready.
calculateTrafficRoutedPercent(o, u, ready, due) ==
    IF ~due THEN u
    ELSE IF u.rb
         THEN LET w == Least(Least(100, u.ta + o.step), u.a)
              IN IF u.ta = u.a THEN u ELSE Split(u, w)
         ELSE LET w == Least(Least(100, u.tp + o.step), u.p)
              IN IF u.tp = u.p \/ ~ready THEN u ELSE Split(u, 100 - w)

IsIncrementalUpgradeComplete(u) == u.a = 0 /\ u.tp = 100

shouldCompleteIncrementalRollback(u, healthy) ==
    /\ u.a = 100 /\ u.ta = 100
    /\ ~healthy \/ (u.p = 0 /\ u.tp = 0)

==============================================================================
