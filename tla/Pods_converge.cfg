\* The Pods become what the spec asks for, upgrades included.
SPECIFICATION FairSpec
CONSTANTS
    h1 = h1  h2 = h2  h3 = h3  w1 = w1  w2 = w2  w3 = w3
    HeadGroup = "headgroup"
    WorkerGroups = {"wg"}
    Pods = {h1, w1}
    GroupOf <- MCGroupOf
    NoPod = NoPod
    Templates = {"t1", "t2"}
    ReplicaCounts = {0, 1}
    MinReplicas = 0
    MaxReplicas = 1
    DeterministicHeadName = TRUE
    RandomPodDelete = TRUE
    SkipHeadRestart = FALSE
    Recreate = TRUE
    SlowInformer = FALSE
    AnyOrder = FALSE
    APIErrors = FALSE
    EditKinds = {"replicas", "template"}
    FaultKinds = {"evict", "fail", "restart"}
    MaxEdits = 1
    MaxFaults = 1
PROPERTIES  UpgradeCompletes
