\* Three clicks on two links, a process that starts, serves and stops in every way.
SPECIFICATION FairProcessSpec
CONSTANTS
  k1 = k1
  k2 = k2
  k3 = k3
  a = a
  b = b
  p1 = p1
  p2 = p2
  Clicks = {k1, k2, k3}
  CodeOf <- TwoAndOne
  Codes = {a, b}
  Partitions = {p1, p2}
  PartitionOf <- ByCode
  MaxBuffered = 2
  MaxConns = 1
  MayCrash = TRUE
  Unset = Unset
  Word = Word
  MaxWorkerID = 2
  Envs <- SomeEnvs
INVARIANTS
  TypeOK
  ClicksAccounted
  LinkClicksInOrder
  StopIsGraceful
  ServesAsConfigured
  FailedStartLeavesNothing
PROPERTIES
  ImplementsClickStream
  RedirectsAnswered
  StartEnds
  SignalEndsProcess
CHECK_DEADLOCK FALSE
