SPECIFICATION MCSpec
CONSTANTS
  MaxFibs = 2
  Destinations <- MCDestinations
  Gateways = {"g4", "g6"}
  GatewayFamily <- MCGatewayFamily
  Neighbours = {"a4", "a6"}
  NeighbourFamily <- MCNeighbourFamily
  Interfaces = {"em0", "em1"}
  Home <- MCHome
  Macs = {"mac"}
  MaxRoutes = 1
  MaxEntries = 2
  AskedFibs = {0, 1}
  Sorts <- MCSorts
  MaxTold = 1
  Spis = {1}
  Keys = {"k1", "k2", "odd"}
  KnownKeys = {"k1", "k2"}
  Directions = {"in", "other"}
  Endpoints <- MCEndpoints
  TunnelFibs = {1}
  Bases = {"epairlan"}
  KernelBases = {"epair0", "epair1"}
  Stations = {"ap1", "ap2"}
  Drivers <- MCDrivers
  MaxRoams = 2
INVARIANTS
  CommandsTypeOK
  AddedIsThere
  ShownAsTold
  IpsecAsTold
  HalvesTogether
  ReadingOfOneStation
PROPERTIES
  DeletesOnlyItsOwn
CHECK_DEADLOCK FALSE
