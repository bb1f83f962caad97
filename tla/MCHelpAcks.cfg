CONSTANTS
  ann = ann
  jim = jim
  kay = kay
  NoStation = NoStation
  NoVersion = NoVersion
  Contestants <- OneContestant
  Stations <- MCStations
  Judges <- TwoJudges
  Instants <- MCInstants
  MaxRequests = 2
  MaxRestarts = 1
SPECIFICATION FairSpec
INVARIANTS SameVersionSameQueue ConnectedAreUpToDate
PROPERTIES VersionedAckRemovesWhatTheJudgeSaw JudgesSeeTheQueue
CHECK_DEADLOCK FALSE
