SPECIFICATION Spec
CONSTANTS
  c1 = c1
  c2 = c2
  c3 = c3
  k1 = k1
  a1 = a1
  a2 = a2
  k2 = k2
  Containers = {c1, c2, c3}
  Addresses = {a1, a2}
  Keys = {k1, k2}
  Requests = {r1}
  MayUse <- MCMayUse
  RouteOf <- MCRouteOf
  MaxPools = 3
  None = None
INVARIANT CachedChainIsCurrent
