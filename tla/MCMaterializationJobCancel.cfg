\* What becomes of a cancel request: one job, two workers, two stages, two attempts, fair scheduling.
SPECIFICATION FairSpec
CONSTANTS
  p1 = p1
  Jobs = {j1}
  Workers = {w1, w2}
  Projects = {p1}
  ProjectOf <- ProjectOfJob
  Outputs = {o1}
  NStages = 2
  MaxAttempts = 2
  LeaseTicks = 1
  MaxReplays = 0
  None = None
PROPERTIES
  CancelConverges
