SPECIFICATION Spec
CONSTANTS
  None = None
  Nodes = {"n1"}
  Secrets = {"s1", "s2"}
  Confs <- ThreeConfs
  MaxWrites <- S1Twice
  Unlabelled = {"s1"}
  Cleared = TRUE
  MaxFaults = 1
  Triggers = 5
INVARIANTS
  DaemonHasItsConfig
  NoPodBehind
  ServingHasConnectors
  NothingLeft
  OperatorInv
  SettledIsCurrent
  CurrentInv
PROPERTIES
  RolloutKept
  DriversConverge
  OperatorSettles
CHECK_DEADLOCK FALSE
