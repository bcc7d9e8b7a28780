SPECIFICATION EvalSpec
CONSTANTS
  Decisions <- SomeDecisions
  Tellings <- SomeTellings
  Emails <- OneTelling
  Horizon = 1
  MaxNow = 2
  MaxMoves = 4
  MaxScores = 2
INVARIANTS
  EvalTypeOK
  GradingStands
CHECK_DEADLOCK FALSE
