SPECIFICATION Spec
CONSTANTS
  plain = plain
  chain = chain
  handled = handled
  Kinds <- MCKinds
  Handled <- MCHandled
  Faulty <- MCFaulty
  FollowUps <- MCFollowUps
  Instants <- MCInstants
  MaxSeq = 3
INVARIANTS
  TypeOK
  ExactlyOnce
  NoOvertaking
  CausalOrder
PROPERTIES
  Implementation
