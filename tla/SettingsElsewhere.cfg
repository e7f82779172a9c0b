SPECIFICATION Spec
CONSTANTS
  Keys <- MCKeys
  Changes <- MCChanges
  Edits <- MCEdits
  Customs <- MCCustoms
  MaxFaults = 2
INVARIANT OkSurvives
CHECK_DEADLOCK FALSE
