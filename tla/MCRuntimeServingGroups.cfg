\* Refreshing one group of a served release whose plan spans two.
SPECIFICATION Spec
CONSTANTS
  c1 = c1
  c2 = c2
  r3 = r3
  Releases = {r1}
  Channels = {c1}
  ChannelOf <- ChannelOfRelease
  Groups = {g1, g2}
  PlanGroups <- AllGroups
  NVersions = 2
  Values = {a}
  Preparations = {p1}
  MaxRevision = 7
  None = None
CONSTRAINT OneCutoverAtATime
CHECK_DEADLOCK FALSE
INVARIANTS
  RefreshReplacesGroup
