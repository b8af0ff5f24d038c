SPECIFICATION Spec
CONSTANTS
  Absent = Absent
  v1 = v1
  v2 = v2
  Volumes = {v1, v2}
  PrimaryCluster = "P"
  LocalFs <- TwoClusters
  Mounted <- NamesAtP
  BlockSize <- Blocks512
  Classes <- Offered
  MaxClasses = 2
  Primaries = {"fs1", "rfs"}
  Size <- Sizes2
  FilesetIds = {1, 2}
  ForeignQuotas = {3}
  Legacy = {v1}
  LegacyClass <- Defaults
  MaxFaults = 2
  WordSize = 65536
  MinInodes = 3
INVARIANTS
  LeadsToItsData
  GoneLeavesNothing
  PlacementInv
PROPERTIES
  DeletesOnlyItsOwn
  QuotaKept
