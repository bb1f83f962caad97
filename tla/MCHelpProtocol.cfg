SPECIFICATION FairSpec
CONSTANTS
  MaxCalls = 3
  MaxFaults = 2
  MaxMoves = 4
INVARIANTS
  NeverMoreThanAsked
  SettledViewsAgree
PROPERTIES
  RequestsArrive
CHECK_DEADLOCK FALSE
