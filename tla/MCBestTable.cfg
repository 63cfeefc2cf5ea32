SPECIFICATION OverlapSpec
CONSTANTS
  Hosts = {4}
  Ports = {4, 5}
  Hops = {2, 3}
  CEs = {0, 10, 12, 63}
  Reports <- MCReports
  InitBest <- MCInitBest
  MaxInFlight = 2
INVARIANTS
  BestTypeOK
  AcceptablePush
  EntryIsRecent
PROPERTIES
  AcceptableUsesGood
  RaisedOnlyByHolder
  StaysLeastCongested
