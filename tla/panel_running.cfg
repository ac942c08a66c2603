\* One request at a time and restarts of the panel; the certificate may be given up.
CONSTANTS
  p1 = p1
  a1 = a1
  a2 = a2
  host = host
  local = local
  Handlers = {p1}
  Recommended <- RealityAndTrojan
  Public = {host}
  Local = local
  Detected = {host}
  Keygen = {TRUE}
  Arrays = {a1, a2}
  MaxLen = 4
  MaxEvents = 5
  FirstStates <- OnlyFresh
  None = None
  Unknown = Unknown
SPECIFICATION Spec
SYMMETRY ArraySymmetry
VIEW View
INVARIANT
  RunningIsServed
CHECK_DEADLOCK FALSE
