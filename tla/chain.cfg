\* Two servers and two requests at a time, each server the other's entry or exit.
CONSTANTS
  a = a
  b = b
  c = c
  atA = atA
  atB = atB
  atC = atC
  oldA = oldA
  linkA = linkA
  linkB = linkB
  linkC = linkC
  r1 = r1
  r2 = r2
  c1 = c1
  Servers <- Two
  Endpoints <- TwoEndpoints
  At <- TwoAt
  Origins <- TwoOrigins
  Self <- TwoSelf
  Links <- TwoLinks
  ExitOf <- TwoExitOf
  Usable = {linkB}
  Requests = {r1, r2}
  Codes = {c1}
  FirstPeers <- StrangersOrMutual
  MaxEvents = 3
  None = None
SPECIFICATION FairSpec
INVARIANT
  TypeOK
  PairingAgrees
  ExitFollowsPeers
PROPERTY
  RequestsAreAnswered
CHECK_DEADLOCK FALSE
