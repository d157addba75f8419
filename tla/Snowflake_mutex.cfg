\* One process, goroutines competing for its generator; the clock steps back.
SPECIFICATION FairSpec
CONSTANTS
  Epoch = 3
  TimeCap = 5
  WorkerCap = 2
  SequenceCap = 2
  p1 = p1
  p2 = p2
  Instances = {p1}
  Callers = {c1, c2, c3}
  WorkerOf <- DistinctWorkers
  ClockValues <- InRangeClock
  ClockMayStepBack = TRUE
  MayRestart = FALSE
  MaxIssued = 6
  Free = Free
  base = 3
INVARIANTS
  TypeOK
  IdsGrow
  IdsPositive
PROPERTIES
  EveryCallReturns
