SPECIFICATION Spec
CONSTANTS
  ask = ask
  reply = reply
  script = script
  gated = gated
  Kinds = {ask, reply, script, gated}
  Handled = {reply, gated}
  FollowUps <- MCFollowUps
  Gates <- MCGates
  Timeline <- MCTimeline
  Calls = {ask}
  Durations = {0, 1, 2}
  Times = {0, 1, 2, 3, 4}
  Horizon = 2
  MaxSeq = 6
  MaxCommands = 4
  MaxAborts = 0
  MaxLoads = 1
INVARIANTS
  ResumeRestoresWorld

CHECK_DEADLOCK FALSE
