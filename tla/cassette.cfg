SPECIFICATION Spec
CONSTANTS
  c1 = c1
  c2 = c2
  c3 = c3
  k1 = k1
  k2 = k2
  yes = yes
  no = no
  Clients <- MCClients
  Keys <- MCKeys
  Outputs <- MCOutputs
  MaxLines = 3
SYMMETRY Symmetry
INVARIANTS
  TypeOK
  OneAnswer
  AnswersAreOnDisk
CHECK_DEADLOCK FALSE
