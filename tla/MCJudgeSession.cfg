CONSTANTS
  p1 = p1
  r1 = r1
  r2 = r2
  c1 = c1
  c2 = c2
  c3 = c3
  None = None
  Pages <- OnePage
  Rooms <- TwoRooms
  Access <- TwoRooms
  Conns <- ThreeConns
  Cap = 1
  MaxTickets = 2
  MaxFaults = 3
SPECIFICATION Spec
INVARIANTS OneSocket TimersAreTracked AlwaysUnderWay
PROPERTIES StoreFollowsRoom EventuallyConnected
CHECK_DEADLOCK FALSE
