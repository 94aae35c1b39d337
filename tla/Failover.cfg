SPECIFICATION FairSpec
CONSTANTS
  a1 = a1
  a2 = a2
  a3 = a3
  r1 = r1
  r2 = r2
  Containers = {a1, a2, a3}
  Addresses = {a1, a2, a3}
  Requests = {r1, r2}
  BodyOf <- MCBodyOf
  HashOf <- MCHashOf
  WeightOf <- MCWeightOf
  InUse = {"RoundRobin", "Random", "IPHash", "LeastConn", "WeightedRoundRobin"}
  Order <- MCOrder
  EarlierFails = {2}
  MaxRetries = 2
  CounterMod = 6
  MaxFails = 4
  MaxDisturbed = 1
INVARIANTS
  TypeOK
  OncePerBackend
  FullBody
  ActiveAccounted
  RotationKept
PROPERTIES
  CommittedIsFinal
  RequestsEnd
