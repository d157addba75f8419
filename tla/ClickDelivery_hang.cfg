\* Nobody kills the process; a query may run for ever.
SPECIFICATION FairSpec
CONSTANTS
  k1 = k1
  k2 = k2
  k3 = k3
  a = a
  b = b
  p1 = p1
  p2 = p2
  Clicks = {k1, k2, k3}
  CodeOf <- TwoAndOne
  Codes = {a, b}
  Partitions = {p1, p2}
  PartitionOf <- ByCode
  MaxBuffered = 2
  MaxConns = 1
  MayCrash = FALSE
PROPERTY StopsByForce
CHECK_DEADLOCK FALSE
