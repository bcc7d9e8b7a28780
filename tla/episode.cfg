SPECIFICATION FairSpec
CONSTANTS
  surfaced = surfaced
  hidden = hidden
  replan = replan
  shed = shed
  done = done
  blocked = blocked
  stuck = stuck
  holder = holder
  peer = peer
  channel = channel
  ask = ask
  chat = chat
  Slots <- MCSlots
  FloorDenied <- MCFloorDenied
  MoreDenied <- MCMoreDenied
  Unwalkable = {stuck}
  NPCs = {holder, peer}
  Others = {channel}
  Bodies = {ask, chat}
  Intent <- MCIntent
  Refs <- MCRefs
  Offers <- MCOffers
  Knowledge <- MCKnowledge
  Delay <- MCDelay
  Updates <- MCUpdates
  Timeline <- MCTimeline
  Waits <- MCWaits
  Meetings <- MCMeetings
  Horizons = {2, 4}
  Deadlines = {{}, {3}}
  Times <- MCTimes
  MaxSteps = 4
INVARIANTS
  TypeOK
  OnTime
  EffectsAreEarned
  ReplayAgrees
  RewardStands
  RefusalIsContained
PROPERTIES
  StepReturns
CHECK_DEADLOCK FALSE
