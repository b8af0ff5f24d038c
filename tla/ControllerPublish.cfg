SPECIFICATION FairSpec
CONSTANTS
  NoCall = NoCall
  NoReq = NoReq
  NoJob = NoJob
  pfs = pfs
  vfs = vfs
  n1 = n1
  c1 = c1
  c2 = c2
  Filesystems = {pfs, vfs}
  Primary = pfs
  Nodes = {n1}
  Calls = {c1, c2}
  Settings = {"yes", "no", "other"}
  FaultKinds = {"timeout", "detach", "rest", "lost", "jobfail", "unmount"}
  MaxFaults = 3
INVARIANTS
  AttachedIsMounted
  AttachInv
PROPERTIES
  AttachConverges
