SPECIFICATION TorSpec
CONSTANTS
  Local = {0}
  Remote = {4, 5}
  DownPort <- MCDownPort
  DpPort <- MCDpPort
  Uplinks = {4, 5}
  Hops = {2, 3}
  CEs = {0, 10}
  Reports <- MCReports
  InitBest <- MCInitBest
  MaxInFlight = 1
  Depth = 1
  Crc8 <- MCCrc8
  Rests = {r}
  ZeroPath = zero
  NoPath = nopath
  NoPort = noport
INVARIANTS
  TorTypeOK
  PathsReachTheirHost
PROPERTY RemoteLeavesWithHeader
VIEW Registers
