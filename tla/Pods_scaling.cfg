\* A group scaled up and in while requests may fail.
SPECIFICATION Spec
CONSTANTS
    h1 = h1  h2 = h2  h3 = h3  w1 = w1  w2 = w2  w3 = w3
    HeadGroup = "headgroup"
    WorkerGroups = {"wg"}
    Pods = {h1, w1, w2, w3}
    GroupOf <- MCGroupOf
    NoPod = NoPod
    Templates = {"t"}
    ReplicaCounts = {0, 1, 2, 3}
    MinReplicas = 0
    MaxReplicas = 2
    DeterministicHeadName = TRUE
    RandomPodDelete = TRUE
    SkipHeadRestart = FALSE
    Recreate = FALSE
    SlowInformer = FALSE
    AnyOrder = TRUE
    APIErrors = TRUE
    EditKinds = {"replicas", "toDelete"}
    FaultKinds = {}
    MaxEdits = 1
    MaxFaults = 0
SYMMETRY MCSymmetry
INVARIANTS WorkersBounded
PROPERTIES ScaleInStopsAtDesired
