CONSTANTS
  ann = ann
  bob = bob
  cyd = cyd
  jim = jim
  NoStation = NoStation
  Contestants <- ThreeContestants
  Stations <- NoStations
  Judges <- OneJudge
  Instants <- OneInstant
  MaxRequests = 3
  MaxRestarts = 1
SPECIFICATION FairSpec
INVARIANTS OneJobWhileAnyoneWaits LiveJobsServeWaiting SettledOnce
PROPERTIES JobsAreSettled
CHECK_DEADLOCK FALSE
