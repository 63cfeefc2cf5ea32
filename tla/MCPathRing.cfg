SPECIFICATION RingSpec
CONSTANTS
  Hosts = {0, 1}
  Paths = {p1, p2}
  ZeroPath = zero
  NoPath = none
INVARIANTS
  RingTypeOK
  LiveSlotsWritten
PROPERTY RefinesStack
