SPECIFICATION Spec
CONSTANTS
  host = host
  alt = alt
  Names = {host, alt}
  RouteHost = host
  AltNames = {alt}
  Calls = {1}
  Asked = {host}
  None = None
INVARIANTS
  TypeOK
  FilesBelongTogether
  TokenInPlace
  ServedIsCurrent
PROPERTIES
  DueIsRenewed
  AskedIsServed
