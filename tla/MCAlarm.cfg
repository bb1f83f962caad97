CONSTANTS
  NULL = NULL
  NoMessage = NoMessage
  Messages <- MCMessages
  Durations <- MCDurations
  Deltas <- MCDeltas
  Delays <- MCDelays
  Skews <- MCSkews
  Capacity = 4
  TrimWorst = 1
  MaxVersion = 3
  MaxNow = 6
  Quiet = 5
SPECIFICATION Spec
INVARIANTS OffsetIsSound RingsOnlyWhatItAwaited RingsOnce NotMissed
PROPERTIES ImplementsCountdown
CHECK_DEADLOCK FALSE
