CONSTANTS
  ann = ann
  bob = bob
  cyd = cyd
  NoStation = NoStation
  Contestants <- MCContestants
  Stations <- MCStations
  Instants <- MCInstants
  MaxRequests = 4
  MaxVersion = 8
SPECIFICATION Spec
INVARIANTS HeadAgrees
PROPERTIES ImplementsDesk
CHECK_DEADLOCK FALSE
