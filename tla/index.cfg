SPECIFICATION Spec
CONSTANTS
  a = a
  agent = agent
  ls = ls
  eval = eval
  ui = ui
  NoOne = NoOne
  Runs = {a}
  AgentRuns = {agent}
  Listers = {ls}
  Graders = {eval}
  Inspectors = {ui}
  MaxLog = 2
  MaxProcs = 2
INVARIANTS
  TypeOK
  RowsAreHonest
  AnswersAreWhole
