SPECIFICATION MCSpec
CONSTANTS
  Hosts = {0, 4}
  Ports = {0, 1, 2, 3}
  CEs = {0, 10, 12}
  InitPort <- MCInitPort
  RackPorts <- MCRackPorts
  DpPort <- MCDpPort
  NoPort = noport
  MaxInFlight = 2
INVARIANTS
  MiddleTypeOK
  TablesAreRecent
PROPERTIES
  HandedOnIsAcceptable
  CountedWhereAcksLook
  DataReachesRack
CONSTRAINT OneRackAnswers
VIEW Tables
