SPECIFICATION Spec
CONSTANTS
  Windows = {w1,w2,w3}
  NoWindow = none
  States = {"Normal", "Minimized"}
  Inputs = {"family", "zorder", "close"}
SYMMETRY AnyOrder
INVARIANT StackHoldsOpenWindows
PROPERTY ActivationLiftsFamily
CHECK_DEADLOCK FALSE
