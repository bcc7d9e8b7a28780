SPECIFICATION Spec
CONSTANTS
  Waits = {1, 4}
  Horizon = 3
  Deadlines = {0, 2, 4}
  MaxTurns = 3
  MaxCalls = 2
  MaxRollouts = 2
  MaxRestarts = 1
INVARIANTS
  TypeOK
  RunsAreGraded
  RowsAreTheSteps
PROPERTIES
  RolloutEnds
CHECK_DEADLOCK FALSE
