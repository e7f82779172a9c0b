SPECIFICATION Spec
CONSTANTS
  Keys <- MCKeys
  Changes <- MCChanges
  Edits <- MCEdits
  Customs <- MCCustoms
  MaxFaults = 2
INVARIANTS OkIsSaved ToldIsRead OwnFileLoads
PROPERTY ImplementsDurable
CHECK_DEADLOCK FALSE
