SPECIFICATION FairSpec
CONSTANTS
  a1 = a1
  a2 = a2
  Containers = {a1, a2}
  Addresses = {a1, a2}
  Checked = {a1}
  Tunings <- MCTunings
  DockerSays = {TRUE, FALSE}
  MaxProbes = 2
  MaxChecks = 2
  MaxCount = 2
  MaxFails = 3
INVARIANTS
  TypeOK
  MarkFollowsState
  ChecksConsistent
PROPERTIES
  RotationFollowsBackend
