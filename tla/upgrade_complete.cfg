\* What the panel shows as complete.
CONSTANTS
  p1 = p1
  p2 = p2
  v1 = v1
  Handlers <- TwoClicks
  Viewers <- OneViewer
  MaxPolls = 2
  MaxEvents = 3
SPECIFICATION Spec
PROPERTY
  CompleteIsNew
CHECK_DEADLOCK FALSE
