--------------------------- MODULE RayServiceUpgrade ---------------------------
(***************************************************************************)
(* What an incremental upgrade promises: which RayCluster is the active    *)
(* one, and how capacity and traffic move between it and the pending one.  *)
(* The RayService controller implements this specification.                *)
(***************************************************************************)
EXTENDS RayServiceTraffic

VARIABLES options,  \* stepSizePercent and maxSurgePercent
          serving,  \* the name of the active RayCluster, 0 if there is none
          u         \* the upgrade

uvars == <<options, serving, u>>

UInit == ValidateClusterUpgradeOptions(options) /\ serving = 0 /\ u = Fresh

\* What one reconcile may make of the upgrade: it decides whether to roll back, it
\* may scale the pending one, then the active one, and then it may move traffic.
\* Any part is left out when a RayCluster cannot be reached or a write is lost.
Rolled(v, b) == [v EXCEPT !.rb = b]
Scaled(v, who, does) == IF does THEN reconcileServeTargetCapacity(options, v, who) ELSE v
Moved(v, x, y, ready, due) ==
    calculateTrafficRoutedPercent(options, Scaled(Scaled(v, "pending", x), "active", y),
                                  ready, due)
Passes(v) == {Moved(Rolled(v, b), x, y, ready, due) :
                  b \in BOOLEAN, x \in BOOLEAN, y \in BOOLEAN, ready \in BOOLEAN,
                  due \in BOOLEAN}

\* The first RayCluster serves at once.
Begin == serving = 0 /\ serving' # 0 /\ u' = Fresh

Advance ==
    /\ serving # 0 /\ UNCHANGED serving
    /\ \E b, x, y, ready, due \in BOOLEAN : u' = Moved(Rolled(u, b), x, y, ready, due)

\* The pending RayCluster takes over when everything has moved to it.
Promote ==
    /\ serving # 0 /\ serving' \notin {0, serving}
    /\ \E v \in Passes(u) : ~v.rb /\ IsIncrementalUpgradeComplete(v)
    /\ u' = Fresh

\* A rollback is over when everything is back.
Restore ==
    /\ serving # 0 /\ UNCHANGED serving
    /\ \E v \in Passes(u), healthy \in BOOLEAN :
          v.rb /\ shouldCompleteIncrementalRollback(v, healthy)
    /\ u' = Fresh

\* Suspended, timed out or deleted: nothing serves.
Abandon == serving' = 0 /\ u' = Fresh

UNext == (Begin \/ Advance \/ Promote \/ Restore \/ Abandon) /\ UNCHANGED options

USpec == UInit /\ [][UNext]_uvars

\* No rollback ever starts.
UForward == UInit /\ [][UNext /\ ~u'.rb]_uvars

\* Some number of surges is exactly everything.
Even == options.surge \in {1, 2, 4, 5, 10, 20, 25, 50, 100}

------------------------------------------------------------------------------
\* Every request goes to one of the two (calculateTrafficRoutedPercent).
Conserved == u \in Upgrades /\ u.ta + u.tp = 100

\* Neither gets more traffic than it has capacity for, and together they have all
\* of the capacity (calculateTrafficRoutedPercent bounds only the side that gains,
\* reconcileServeTargetCapacity takes capacity from the other).
Fits == u.ta <= u.a /\ u.tp <= u.p /\ u.a + u.p >= 100

==============================================================================
