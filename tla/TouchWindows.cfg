CONSTANTS
  Outputs = {d1, d2}
  NoOutput = NoOutput
  Modes <- MCModes
  Turns <- MCTurns
  Scales <- MCScales
  Left <- MCLeft
  Inch <- MCInch
  Preferred = NoOutput
  ForcedClass = "none"
  ForcedScale = 0
  SafeArea <- MCSafeArea
  Windows = {w1}
  NoWindow = NoWindow
  Fingers = {f1}
  NoFinger = NoFinger
  Points <- MCPoints
  Grips = {"title", "close", "maximize", "minimize", "content", "corner"}
  ClientSizes <- MCClientSizes
  ClientRects <- MCClientRects
  Inputs = {"turn", "hotplug", "state", "client", "desktop", "close", "seat"}
  MaxInputs = 5
SPECIFICATION Spec
INVARIANT NoOrphanDrag
PROPERTIES TitleBarsStayInReach MaximizedFollowsScreen
CHECK_DEADLOCK FALSE
