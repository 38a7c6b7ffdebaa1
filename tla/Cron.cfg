\* A schedule in whole minutes, with two edits and two disturbances.
SPECIFICATION FairSpec
CONSTANTS
    Horizon = 6
    Every = 2
    Minute = 2
    NextTick <- MCNextTick
    MaxEdits = 2
    MaxFaults = 2
INVARIANTS TypeOK OneRayJobPerTick EveryTickScheduled
PROPERTIES AdvancesTickByTick CatchesUp
CHECK_DEADLOCK FALSE
