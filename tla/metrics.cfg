\* Two ports, a history of two entries, one viewer.
CONSTANTS
  p1 = p1
  p2 = p2
  v1 = v1
  Ports = {p1, p2}
  Countries = {"HK", "JP", "US"}
  Viewers = {v1}
  MaxHistory = 2
  MaxTicks = 3
  MaxEvents = 3
SPECIFICATION FairSpec
INVARIANTS
  TypeOK
  HistoryNeverOvercounts
  HistoryCoversWindow
PROPERTY
  NobodyWaitsForever
CHECK_DEADLOCK FALSE
