\* Whether a retired release stands in the way of a cutover: three cutovers one after another.
SPECIFICATION Spec
CONSTANTS
  c1 = c1
  c2 = c2
  r3 = r3
  Releases = {r1, r2}
  Channels = {c1}
  ChannelOf <- ChannelOfRelease
  Groups = {g1}
  PlanGroups <- AllGroups
  NVersions = 2
  Values = {a}
  Preparations = {p1, p2, p3}
  MaxRevision = 5
  None = None
SYMMETRY PreparationSymmetry
CONSTRAINT OneCutoverAtATime
CHECK_DEADLOCK FALSE
INVARIANTS
  CutoverNotTrapped
