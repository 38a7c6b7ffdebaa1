\* The spec changes again in the middle of an upgrade: a pass that has not seen the new
\* status moves the Services to the RayCluster that status has dropped.
SPECIFICATION Spec
CONSTANTS
  Strategies <- MCBlueGreen
  Bases = {g1, g2}
  First = g1
  MaxNames = 3
  EditKinds = {"goal"}
  FaultKinds = {}
  MaxEdits = 2
  MaxFaults = 0
  MaxUpsets = 2
  Prompt = FALSE
PROPERTIES ZeroDowntime
CHECK_DEADLOCK FALSE
