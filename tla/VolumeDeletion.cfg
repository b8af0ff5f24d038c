SPECIFICATION Spec
CONSTANTS
  NoEntry = NoEntry
  NoCall = NoCall
  NoReq = NoReq
  NoJob = NoJob
  v1 = v1
  v2 = v2
  c1 = c1
  c2 = c2
  c3 = c3
  d1 = d1
  d2 = d2
  Volumes = {v1, v2}
  Claimed = {{v1, v2}}
  FilesetVols = {v1}
  Calls = {c1, c2}
  Drivers = {d1}
  Sizes <- Pair
  KB = 2
  FaultKinds = {"read", "refused", "lost", "poll", "jobfail", "timeout", "crash", "failover"}
  MaxFaults = 2
  AbsentDirOk = TRUE
  LateCreates = FALSE
SYMMETRY InterchangeableProcesses
INVARIANTS
  DeletionInv
PROPERTIES
  ContractKept
