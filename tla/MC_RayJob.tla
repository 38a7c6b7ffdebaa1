------------------------------ MODULE MC_RayJob ------------------------------
(* RayJob specs for TLC: every submission mode and every way of deleting.   *)
EXTENDS RayJob

Plain == [mode |-> "HTTPMode", selector |-> FALSE, backoff |-> 0, active |-> TRUE,
          preRunning |-> FALSE, shutdown |-> TRUE, ttl |-> 1, deletion |-> "none",
          rules |-> {}, onSuccess |-> "DeleteNone", onFailure |-> "DeleteNone"]

Staged == {[policy |-> "DeleteWorkers", on |-> "SUCCEEDED", ttl |-> 0],
           [policy |-> "DeleteCluster", on |-> "SUCCEEDED", ttl |-> 1],
           [policy |-> "DeleteSelf", on |-> "Failed", ttl |-> 1]}

MCSpecs ==
    {[Plain EXCEPT !.mode = "K8sJobMode", !.active = FALSE, !.ttl = 0],
     [Plain EXCEPT !.backoff = 1],
     [Plain EXCEPT !.mode = "SidecarMode", !.active = FALSE, !.deletion = "legacy",
                   !.onSuccess = "DeleteWorkers", !.onFailure = "DeleteCluster"],
     [Plain EXCEPT !.mode = "InteractiveMode", !.preRunning = TRUE],
     [Plain EXCEPT !.shutdown = FALSE, !.ttl = 0, !.deletion = "rules", !.rules = Staged]}

\* For liveness: every way of deleting, with an active deadline, and a
\* submitter on a selected RayCluster without one.
MCEnding ==
    {[Plain EXCEPT !.backoff = 1],
     [Plain EXCEPT !.mode = "K8sJobMode", !.selector = TRUE, !.active = FALSE],
     [Plain EXCEPT !.deletion = "legacy",
                   !.onSuccess = "DeleteWorkers", !.onFailure = "DeleteCluster"],
     [Plain EXCEPT !.mode = "InteractiveMode", !.preRunning = TRUE],
     [Plain EXCEPT !.shutdown = FALSE, !.ttl = 0, !.deletion = "rules", !.rules = Staged]}

==============================================================================
