SPECIFICATION SteadySpec
CONSTANTS
  Hosts = {4}
  Ports = {4, 5, 6}
  Hops = {2, 3}
  CEs = {0, 10, 13}
  Reports <- MCReports
  InitBest <- MCInitBest
  MaxInFlight = 2
  Steady <- MCSteady
  Depth = 2
  NoPath = nopath
PROPERTIES
  FindsLeastCongested
  SettlesOnLeastCongested
  StalePathsRunOut
