\* One job contended by two workers, two stages, two attempts a cycle, one replay.
SPECIFICATION Spec
CONSTANTS
  p1 = p1
  Jobs = {j1}
  Workers = {w1, w2}
  Projects = {p1}
  ProjectOf <- ProjectOfJob
  Outputs = {o1, o2}
  NStages = 2
  MaxAttempts = 2
  LeaseTicks = 1
  MaxReplays = 1
  None = None
SYMMETRY WorkerSymmetry
INVARIANTS
  TypeOK
  OneOpenAttempt
  HolderViewCurrent
  CutoverIsFinal
  ResultIsActivated
  CheckpointsFenced
  RetryBudget
PROPERTIES
  LeaseEndsByHolder
  CheckpointsByHolder
  TerminalFrozen
