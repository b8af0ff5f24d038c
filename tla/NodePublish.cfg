SPECIFICATION FairSpec
CONSTANTS
  NoCall = NoCall
  NoTarget = NoTarget
  t1 = t1
  t2 = t2
  c1 = c1
  c2 = c2
  c3 = c3
  Targets = {t1, t2}
  Calls = {c1, c2, c3}
  FaultKinds = {"timeout", "republish", "command", "crash", "mount"}
  MaxFaults = 2
INVARIANTS
  TypeOK
  PublishedIsLinked
  GoneIsRemoved
  VolumeUntouched
  NodeInv
PROPERTIES
  PublishConverges
  UnpublishConverges
