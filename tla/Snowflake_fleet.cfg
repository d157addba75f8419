\* Two processes that are replaced now and then; clocks only move forward.
SPECIFICATION Spec
CONSTANTS
  Epoch = 3
  TimeCap = 5
  WorkerCap = 2
  SequenceCap = 2
  p1 = p1
  p2 = p2
  Instances = {p1, p2}
  Callers = {c1, c2}
  WorkerOf <- DistinctWorkers
  ClockValues <- InRangeClock
  ClockMayStepBack = FALSE
  MayRestart = TRUE
  MaxIssued = 3
  Free = Free
  base = 3
SYMMETRY CallerSymmetry
INVARIANTS
  IdsUnique
  IdsNameTheirOrigin
  CodesNameIds
PROPERTIES
  ImplementsIdSource
CHECK_DEADLOCK FALSE
