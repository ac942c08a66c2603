\* Three servers that are paired with each other.
CONSTANTS
  a = a
  b = b
  c = c
  atA = atA
  atB = atB
  atC = atC
  oldA = oldA
  linkA = linkA
  linkB = linkB
  linkC = linkC
  r1 = r1
  c1 = c1
  Servers <- Three
  Endpoints <- ThreeEndpoints
  At <- ThreeAt
  Origins <- ThreeOrigins
  Self <- ThreeSelf
  Links <- ThreeLinks
  ExitOf <- ThreeExitOf
  Usable = {linkB, linkC}
  Requests = {r1}
  Codes = {c1}
  FirstPeers <- TwoExits
  MaxEvents = 4
  None = None
SPECIFICATION Spec
VIEW NamesOnly
PROPERTY
  OnlyTheNamedAreUnpaired
  WithdrawnCodeIsDead
CHECK_DEADLOCK FALSE
