SPECIFICATION Spec
CONSTANTS
  root = root
  a1 = a1
  a2 = a2
  ab = ab
  aba = aba
  ac = ac
  wide = wide
  wideA = wideA
  narrow = narrow
  Containers = {root, a1, a2, ab, aba, ac, wide, wideA, narrow}
  HostOf <- MCHostOf
  PathOf <- MCPathOf
  RequestHosts <- MCRequestHosts
  RequestPaths <- MCRequestPaths
  Chars <- MCChars
  None = None
INVARIANTS
  TypeOK
  MatchIsLongest
  RequestsFindTheirRoute
  TreesHoldTheTable
