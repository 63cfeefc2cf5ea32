SPECIFICATION NetSpec
CONSTANTS
  Local = {0}
  Remote = {4}
  DownPort <- MCDownPort
  DpPort <- MCDpPort
  Uplinks = {4, 5}
  Hops = {0, 1, 2}
  CEs = {0, 10}
  Reports <- MCReports
  InitBest <- MCInitBest
  MaxInFlight = 1
  Depth = 1
  Crc8 <- MCCrc8
  Rests = {r}
  ZeroPath = zero
  NoPath = nopath
  NoPort = noport
  MiddlePorts = {0, 1, 2}
  MiddleDpPort <- MCMiddleDpPort
  MiddleInitPort <- MCMiddleInitPort
  RackPorts <- MCRackPorts
  Cable <- MCCable
  TorCEs <- MCTorCEs
  MiddleCEs = {0}
  MaxNet = 2
INVARIANTS
  NetTypeOK
  PathsLeadToRack
  OneDetour
PROPERTIES
  HeaderOffOnlyOnWay
  ImplementsTor
VIEW Net
