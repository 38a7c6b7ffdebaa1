---------------------------- MODULE MC_RayCronJob ----------------------------
(* Schedules for TLC: a tick every Every units of the clock.                *)
EXTENDS RayCronJob

CONSTANT Every

MCNextTick ==
    [t \in Times |-> LET n == (t \div Every + 1) * Every
                     IN IF n <= Horizon THEN n ELSE Horizon + 1]

=============================================================================
