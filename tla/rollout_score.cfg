SPECIFICATION Spec
CONSTANTS
  Waits = {1, 4}
  Horizon = 3
  Deadlines = {0}
  MaxTurns = 2
  MaxCalls = 2
  MaxRollouts = 1
  MaxRestarts = 0
INVARIANTS
  ScoreIsWritten
CHECK_DEADLOCK FALSE
