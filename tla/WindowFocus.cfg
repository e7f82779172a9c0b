SPECIFICATION Spec
CONSTANTS
  Windows = {w1,w2,w3}
  NoWindow = none
  States = {"Normal", "Minimized", "Fullscreen"}
  Inputs = {"minimize", "state", "close", "drag"}
SYMMETRY AnyOrder
INVARIANTS FocusIsRegistryActive OneActiveFlag FocusCanBeHeld
PROPERTY FallbackIsTopmost
CHECK_DEADLOCK FALSE
