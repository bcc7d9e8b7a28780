SPECIFICATION Spec
CONSTANTS
  Seeds = {0, 1, 2, 3}
  Curated = {9}
  Edits = 1
  Judged <- MCJudged
  Files <- MCFiles
  Starts = {0, 1}
  Count = 2
  ScanLimit = 3
  MaxCalls = 3
  MaxCrashes = 1
INVARIANTS
  TypeOK
  SetIsFirstValid
  InstancesAreWhole
PROPERTIES
  PublishedStands
CHECK_DEADLOCK FALSE
