CONSTANTS
  Capacity = 8
  TrimWorst = 2
  Delays <- MCDelays
  Skews <- MCSkews
SPECIFICATION Spec
INVARIANTS PlainUntilFull
CHECK_DEADLOCK FALSE
