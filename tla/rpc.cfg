SPECIFICATION Spec
CONSTANTS
  c1 = c1
  c2 = c2
  launch = launch
  hiring = hiring
  ann = ann
  bob = bob
  task = task
  budget = budget
  Clients = {c1, c2}
  Scenarios = {launch, hiring}
  Edits = {task, budget}
  Partial = {budget}
  People = {ann, bob}
  Script <- MCScript
  Cast <- MCCast
  Guard <- MCGuard
  Delay <- MCDelay
  Waits <- MCWaits
  Targets = {1, 3}
  MaxLoads = 2
  MaxCalls = 3
INVARIANTS
  TypeOK
  TimelinePlaysOut
  LoadedWorldStands
PROPERTIES
  ClockIsKept
CHECK_DEADLOCK FALSE
