SPECIFICATION Spec
CONSTANTS
  NoEntry = NoEntry
  NoCall = NoCall
  NoReq = NoReq
  NoJob = NoJob
  v1 = v1
  v2 = v2
  c1 = c1
  c2 = c2
  c3 = c3
  d1 = d1
  d2 = d2
  Volumes = {v1}
  Claimed = {{v1}}
  FilesetVols = {v1}
  Calls = {c1, c2, c3}
  Drivers = {d1, d2}
  Sizes <- Aligned
  KB = 2
  FaultKinds = {"read", "refused", "lost", "poll", "jobfail", "timeout", "crash", "failover"}
  MaxFaults = 3
  AbsentDirOk = TRUE
  LateCreates = TRUE
SYMMETRY InterchangeableProcesses
INVARIANTS
  TypeOK
  NoStaleEntry
  BoundIsComplete
  OwnFilesetRecognised
  IndInv
PROPERTIES
  NothingLost
