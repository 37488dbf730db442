\* Two releases on one channel, one group of two versions, two cutovers in flight.
SPECIFICATION Spec
CONSTANTS
  c1 = c1
  c2 = c2
  r3 = r3
  Releases = {r1, r2}
  Channels = {c1}
  ChannelOf <- ChannelOfRelease
  Groups = {g1}
  PlanGroups <- AllGroups
  NVersions = 2
  Values = {a, b}
  Preparations = {p1, p2}
  MaxRevision = 5
  None = None
SYMMETRY PreparationSymmetry
CHECK_DEADLOCK FALSE
INVARIANTS
  TypeOK
  PreparationsGuarded
  ChannelServesOwner
  HeadsCutOver
PROPERTIES
  ServedStaysServed
  HeadVersionsCountChanges
