\* Blue/green, incremental and no upgrades against caches that lag, with any two edits or
\* one edit and one fault.
SPECIFICATION Spec
CONSTANTS
  Strategies <- MCStrategies
  Bases = {g1, g2, g3}
  First = g1
  MaxNames = 3
  EditKinds = {"goal", "groups", "config", "suspend", "delete", "drop"}
  FaultKinds = {"api", "write", "restart", "head"}
  MaxEdits = 2
  MaxFaults = 1
  MaxUpsets = 2
  Prompt = FALSE
SYMMETRY OtherBases
INVARIANTS TypeOK AllRouted
PROPERTIES NamedSpared PromotionIsSafe ImplementsUpgrade
CHECK_DEADLOCK FALSE
