\* A server whose panel was opened at another endpoint than its own.
CONSTANTS
  a = a
  b = b
  c = c
  atA = atA
  atB = atB
  atC = atC
  oldA = oldA
  linkA = linkA
  linkB = linkB
  linkC = linkC
  r1 = r1
  c1 = c1
  Servers <- Two
  Endpoints <- AliasEndpoints
  At <- AliasAt
  Origins <- AliasOrigins
  Self <- TwoSelf
  Links <- TwoLinks
  ExitOf <- TwoExitOf
  Usable = {linkA, linkB}
  Requests = {r1}
  Codes = {c1}
  FirstPeers <- Strangers
  MaxEvents = 3
  None = None
SPECIFICATION Spec
PROPERTY
  UnpairedIsForgotten
CHECK_DEADLOCK FALSE
