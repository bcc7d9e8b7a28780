SPECIFICATION ResolveSpec
CONSTANTS
  People <- MCPeople
  Agent = "org.pm_a"
  Nobody = "none"
  Dotted <- MCDotted
  Templates <- MCTemplates
  MaxTries = 3
INVARIANTS
  ResolveTypeOK
  InstanceIsPlayable
PROPERTIES
  ResolutionEnds
CHECK_DEADLOCK FALSE
