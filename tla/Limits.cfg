SPECIFICATION Spec
CONSTANTS
  Clients = {c1, c2}
  Requests = {r1, r2}
  Threshold = 2
  SuccessMin = 3
  MaxSize = 1
  Unit = 2
  IdleMax = 2
  MaxBuckets = 1
  None = None
INVARIANTS
  TypeOK
  LimitHolds
PROPERTIES
  TripsOnStreak
  ClosesAfterSuccesses
  Recovers
