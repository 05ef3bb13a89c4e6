\* Two windows, with a keyboard and a mouse.
SPECIFICATION InputSpec
CONSTANTS
  Lines = {0, 1, 12}
  DesktopWidth = 3
  DesktopHeight = 2
  NumChildren = 2
  Frames <- MCFrames
  Controls <- MCControls
  KeyBytes = {2, 30}
  ButtonBytes = {0, 1, 2}
  XBytes = {0, 4, 252}
  YBytes = {0, 127}
  MaxKeys = 2
INVARIANTS
  WaitingByteAnnounced
  FrontDragsWhileHeld
  KeysReachClicked
PROPERTY StaysInStep
