\* One job, two workers, two stages, two attempts, fair scheduling; and the
\* other components that must come to an end.
SPECIFICATION SuiteSpec
CONSTANTS
  p1 = p1
  Jobs = {j1}
  Workers = {w1, w2}
  Projects = {p1}
  ProjectOf <- ProjectOfJob
  Outputs = {o1}
  NStages = 2
  MaxAttempts = 2
  LeaseTicks = 1
  MaxReplays = 0
  None = None
  ob_Workers = {v1}
  ob_Digests = {d1}
  dj_Workers = {u1}
  dj_Inputs = {i1}
  Slots = {h1}
  Size = 1
  Requests = {r1, r2}
  Garbage = Garbage
  Transactions = {"publish", "role", "cutover", "collect"}
CHECK_DEADLOCK FALSE
PROPERTIES
  JobsSettle
  CutoversSucceed
  WorkSettles
