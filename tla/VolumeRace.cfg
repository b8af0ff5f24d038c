SPECIFICATION Spec
CONSTANTS
  NoEntry = NoEntry
  NoCall = NoCall
  NoReq = NoReq
  NoJob = NoJob
  v1 = v1
  v2 = v2
  c1 = c1
  c2 = c2
  c3 = c3
  d1 = d1
  d2 = d2
  Volumes = {v1}
  Claimed = {{v1}}
  FilesetVols = {v1}
  Calls = {c1, c2}
  Drivers = {d1}
  Sizes <- Aligned
  KB = 2
  FaultKinds = {"timeout"}
  MaxFaults = 1
  AbsentDirOk = TRUE
  LateCreates = TRUE
SYMMETRY InterchangeableProcesses
INVARIANTS
  AtMostOneCreation
