SPECIFICATION DreFairSpec
CONSTANTS
  Ports = {0}
  DreTime = 2
  Wrap = 8
  Lengths = {1, 4}
  LineRate = 4
  InitDre = 60
  Divisor = 2
  CE_max = 43
  MaxTurns = 2
INVARIANTS
  DreTypeOK
  EstimateInTable
PROPERTY ForgetsStart
