SPECIFICATION Spec
CONSTANTS
  None = None
  Nodes = {"n1"}
  Secrets = {"s1"}
  Confs <- OneConf
  MaxWrites <- S1Twice
  Unlabelled = {"s1"}
  Cleared = FALSE
  MaxFaults = 0
  Triggers = 5
PROPERTIES
  UpdateApplied
CHECK_DEADLOCK FALSE
