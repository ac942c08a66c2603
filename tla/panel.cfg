\* Two overlapping requests on a host with a public name.
CONSTANTS
  p1 = p1
  p2 = p2
  a1 = a1
  a2 = a2
  a3 = a3
  host = host
  local = local
  Handlers = {p1, p2}
  Recommended <- TwoProtocols
  Public = {host}
  Local = local
  Detected = {host}
  Keygen = {TRUE}
  Arrays = {a1, a2, a3}
  MaxLen = 2
  MaxEvents = 4
  FirstStates <- FreshOrEstablished
  None = None
  Unknown = Unknown
SPECIFICATION Spec
SYMMETRY Symmetry
VIEW View
INVARIANTS
  TypeOK
  UniqueProtocol
  LinkSound
  ConfigFollowsStore
  DiskHasStore
CHECK_DEADLOCK FALSE
