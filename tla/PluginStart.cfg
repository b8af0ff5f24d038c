SPECIFICATION FairSpec
CONSTANTS
  NoJob = NoJob
  NoSlot = NoSlot
  NoLink = NoLink
  n1 = n1
  n2 = n2
  s1 = s1
  s2 = s2
  s3 = s3
  Drivers = {n1, n2}
  Slots = {s1, s2, s3}
  Remote = TRUE
  Elsewhere = {"elsewhere", "outside"}
  ValidLinks = {"default", "elsewhere"}
  FaultKinds = {"read", "refused", "lost", "crash", "jobfail"}
  MaxFaults = 2
INVARIANTS
  TypeOK
  UpIsReady
  UpIsVisible
  StartInv
PROPERTIES
  AllStart
