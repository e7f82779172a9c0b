SPECIFICATION TaskbarSpec
CONSTANTS
  MaxWindows = 2
  Apps <- MCApps
  Pins <- MCPins
  Matched <- MCMatched
  IdOf <- MCIdOf
CHECK_DEADLOCK FALSE
INVARIANT SingleItem
