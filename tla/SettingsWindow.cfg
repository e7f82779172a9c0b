SPECIFICATION WindowSpec
CONSTANTS
  Keys <- MCKeys
  Tabs <- MCTabs
  Finds <- MCFinds
  FromFile <- MCFromFile
  Fractions = {0, 47, 100}
  Lifts = "real"
INVARIANTS SelectionInRange LayoutFollowsMode
PROPERTY NumbersKeepSteps
