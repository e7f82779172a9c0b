CONSTANTS
  Outputs = {d1}
  NoOutput = NoOutput
  Modes <- MCModes
  Turns <- MCTurns
  Scales <- MCScales
  Left <- MCLeft
  Inch <- MCInch
  Preferred = NoOutput
  ForcedClass = "none"
  ForcedScale = 0
  SafeArea <- MCSafeArea
  Windows = {w1}
  NoWindow = NoWindow
  Fingers = {f1}
  NoFinger = NoFinger
  Points <- MCLowPoints
  Grips = {"title"}
  ClientSizes <- MCClientSizes
  ClientRects <- MCClientRects
  Inputs = {"turn"}
  MaxInputs = 5
SPECIFICATION Spec
INVARIANTS TitleBarReachable
CHECK_DEADLOCK FALSE
