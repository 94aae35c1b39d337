SPECIFICATION FairSpec
CONSTANTS
  c1 = c1
  c2 = c2
  k1 = k1
  i1 = i1
  Containers = {c1, c2}
  Keys = {k1}
  RouteOf <- MCRouteOf
  Labels <- MCLabels
  Published <- MCPublished
  AutoRemove = {c2}
  IPs = {i1, i2}
  Ports = {80, 8080}
  MaxChanges = 3
  MaxFaults = 1
  None = None
INVARIANTS
  TypeOK
  EventsSuffice
  EntriesFollowRegistry
PROPERTIES
  SyncRepairs
  RegistryConverges
  DirectoryConverges
\* A first Sync that fails ends discovery for good.
CHECK_DEADLOCK FALSE
