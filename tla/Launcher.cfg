SPECIFICATION Spec
CONSTANTS
  Locale <- MCLocale
  Desktop = "LinuxDroid"
  MatchOf <- MCMatchOf
  Places <- MCPlaces
  DirOf <- MCDirOf
  IdOf <- MCIdOf
  Nested <- MCNested
  Contents = {"absent", "locked", "hidden", "game", "settings"}
  FileOf <- MCFileOf
  Absent = "absent"
  Installed = {"game"}
  Builtin = "settings"
  Settings = "settings"
  MaxChanges = 2
  MaxQuery = 1
  Rank <- MCRank
  Columns = 1
CHECK_DEADLOCK FALSE
INVARIANTS CatalogFresh SelectionListed FailureLeavesNothing
PROPERTY LaunchReturns
