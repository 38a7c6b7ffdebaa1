---------------------------- MODULE MC_RayService ----------------------------
EXTENDS RayService, TLC

Strat(type, x, y, t) == [type |-> type, step |-> x, surge |-> y, timeout |-> t]
Stepwise(x, y) == Strat("NewClusterWithIncrementalUpgrade", x, y, FALSE)

MCStrategies ==
    {Strat("None", 0, 0, TRUE), Strat("NewCluster", 0, 0, FALSE),
     Stepwise(50, 60), Stepwise(60, 50)}

MCEnding == {Strat("NewCluster", 0, 0, FALSE), Stepwise(30, 50)}

MCBlueGreen == {Strat("NewCluster", 0, 0, FALSE)}
MCStepwise == {Stepwise(50, 50)}

\* The specs a user may change to are interchangeable.
OtherBases == Permutations(Bases \ {First})
==============================================================================
