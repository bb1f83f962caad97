CONSTANTS
  NULL = NULL
  NoMessage = NoMessage
  NoEntry = NoEntry
  Messages <- MCMessages
  Durations <- MCDurations
  Deltas <- MCDeltas
  EarlierRows <- MCEarlierRows
  MaxVersion = 9
  MaxNow = 0
  MaxRing = 2
  MaxAttempts = 2
  MaxWrites = 2
  MaxAudits = 2
  MaxRestarts = 1
SPECIFICATION FairSpec
INVARIANTS RingBounded NothingForgotten NothingTwice SettledRowIsRecent
PROPERTIES DegradedClears RestartKeepsTheSettled
CHECK_DEADLOCK FALSE
