SPECIFICATION StartupSpec
CONSTANTS
  Hosts = {4}
  Uplinks = {4, 5}
  Hops = {2, 3}
  CEs = {0, 10}
  Reports <- MCReports
  InitBest <- MCInitBest
  MaxInFlight = 2
  Depth = 2
  NoPath = nopath
INVARIANTS
  StartupTypeOK
  EntriesLeadUp
PROPERTIES
  RoutesAreMarked
  NewPathsLeadUp
  StartupPathsRunOut
