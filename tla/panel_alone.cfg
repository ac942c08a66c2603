\* One request at a time; starts on the state files of older versions.
CONSTANTS
  p1 = p1
  a1 = a1
  a2 = a2
  host = host
  local = local
  Handlers = {p1}
  Recommended <- RealityAndTrojan
  Public = {host}
  Local = local
  Detected = {host, local}
  Keygen = {TRUE, FALSE}
  Arrays = {a1, a2}
  MaxLen = 4
  MaxEvents = 4
  FirstStates <- FreshOrLegacy
  None = None
  Unknown = Unknown
SPECIFICATION Spec
SYMMETRY ArraySymmetry
VIEW View
INVARIANTS
  ConfigFollowsStore
  SubscriptionIsServed
PROPERTY
  StartStopsWhatCannotRun
CHECK_DEADLOCK FALSE
