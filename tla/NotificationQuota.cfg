SPECIFICATION Spec
CONSTANTS
  Apps = {a}
  Kinds <- MixedKinds
  MaxPopups = 2
  MaxHistory = 1
  MaxActivePerApp = 2
  MaxIds = 3
  MaxPosts = 4
INVARIANT EvictedGo
CHECK_DEADLOCK FALSE
