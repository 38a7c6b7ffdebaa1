\* API errors, lost Pods and operator restarts; the head Pod has random names.
SPECIFICATION Spec
CONSTANTS
    h1 = h1  h2 = h2  h3 = h3  w1 = w1  w2 = w2  w3 = w3
    HeadGroup = "headgroup"
    WorkerGroups = {"wg"}
    Pods = {h1, h2, h3, w1}
    GroupOf <- MCGroupOf
    NoPod = NoPod
    Templates = {"t"}
    ReplicaCounts = {0, 1}
    MinReplicas = 0
    MaxReplicas = 1
    DeterministicHeadName = FALSE
    RandomPodDelete = TRUE
    SkipHeadRestart = TRUE
    Recreate = FALSE
    SlowInformer = FALSE
    AnyOrder = TRUE
    APIErrors = TRUE
    EditKinds = {"groupSuspend"}
    FaultKinds = {"fail", "evict", "restart"}
    MaxEdits = 1
    MaxFaults = 1
SYMMETRY MCSymmetry
INVARIANTS TypeOK UnseenPodsExpected AtMostTwoHeads ActsOnWhatItSees
