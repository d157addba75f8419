\* One process whose clock may step back while the process is replaced.
SPECIFICATION Spec
CONSTANTS
  Epoch = 3
  TimeCap = 5
  WorkerCap = 2
  SequenceCap = 2
  p1 = p1
  p2 = p2
  Instances = {p1}
  Callers = {c1, c2}
  WorkerOf <- DistinctWorkers
  ClockValues <- InRangeClock
  ClockMayStepBack = TRUE
  MayRestart = TRUE
  MaxIssued = 3
  Free = Free
  base = 3
SYMMETRY CallerSymmetry
INVARIANTS
  IdsUnique
CHECK_DEADLOCK FALSE
