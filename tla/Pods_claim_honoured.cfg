\* Suspend is never carried out.
SPECIFICATION FairSpec
CONSTANTS
    h1 = h1  h2 = h2  h3 = h3  w1 = w1  w2 = w2  w3 = w3
    HeadGroup = "headgroup"
    WorkerGroups = {}
    Pods = {h1, h2}
    GroupOf <- MCGroupOf
    NoPod = NoPod
    Templates = {"t"}
    ReplicaCounts = {0, 1, 2}
    MinReplicas = 0
    MaxReplicas = 1
    DeterministicHeadName = FALSE
    RandomPodDelete = TRUE
    SkipHeadRestart = FALSE
    Recreate = FALSE
    SlowInformer = FALSE
    AnyOrder = FALSE
    APIErrors = FALSE
    EditKinds = {"suspend"}
    FaultKinds = {}
    MaxEdits = 1
    MaxFaults = 0
PROPERTIES SuspendIsHonoured
