\* Two clicks at a time, one look at the status.
CONSTANTS
  p1 = p1
  p2 = p2
  v1 = v1
  Handlers <- TwoClicks
  Viewers <- OneViewer
  MaxPolls = 2
  MaxEvents = 3
SPECIFICATION FairSpec
INVARIANTS
  TypeOK
  OneUpgrade
PROPERTIES
  ReportIsTrue
  CompleteIsInstalled
  RunningIsShown
  UpgradeEnds
CHECK_DEADLOCK FALSE
