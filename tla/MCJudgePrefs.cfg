CONSTANTS
  ann = ann
  p1 = p1
  p2 = p2
  t1 = t1
  t2 = t2
  None = None
  Days = 3
  Minutes = 4
  Judges <- OneJudge
  Contacts <- TwoContacts
  Tabs <- TwoTabs
  Owner <- OwnerTwo
  Choices <- SomeChoices
  MaxCodes = 2
  MaxOptOuts = 1
SPECIFICATION Spec
INVARIANTS ReachableIsConfirmed OptedOutHasAsked PendingHasItsCode QuietHoursAreWindows
SYMMETRY Sym
CHECK_DEADLOCK FALSE
