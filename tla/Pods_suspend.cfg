\* Suspending and resuming.
SPECIFICATION FairSpec
CONSTANTS
    h1 = h1  h2 = h2  h3 = h3  w1 = w1  w2 = w2  w3 = w3
    HeadGroup = "headgroup"
    WorkerGroups = {"wg"}
    Pods = {h1, w1}
    GroupOf <- MCGroupOf
    NoPod = NoPod
    Templates = {"t"}
    ReplicaCounts = {1}
    MinReplicas = 0
    MaxReplicas = 1
    DeterministicHeadName = TRUE
    RandomPodDelete = TRUE
    SkipHeadRestart = FALSE
    Recreate = FALSE
    SlowInformer = FALSE
    AnyOrder = TRUE
    APIErrors = FALSE
    EditKinds = {"suspend"}
    FaultKinds = {"restart"}
    MaxEdits = 2
    MaxFaults = 1
INVARIANTS SuspendedConditions
PROPERTIES NoPodCreatedWhileSuspended SuspensionCompletes
