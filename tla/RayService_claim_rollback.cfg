\* The user takes an upgrade back while a pass scales the active RayCluster down: the
\* write that says so is refused.
SPECIFICATION Spec
CONSTANTS
  Strategies <- MCStepwise
  Bases = {g1, g2}
  First = g1
  MaxNames = 3
  EditKinds = {"goal"}
  FaultKinds = {}
  MaxEdits = 2
  MaxFaults = 0
  MaxUpsets = 2
  Prompt = FALSE
PROPERTIES RollbackRestores
CHECK_DEADLOCK FALSE
