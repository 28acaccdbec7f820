SPECIFICATION Spec
CONSTANTS
  DelayOpen = FALSE
  PassiveTcpEstablishment = TRUE
  InitialHoldTime = 90
  OpenHoldTimes <- MCHoldTimes
  EventTypes <- MCEvents
  WatcherCap = 5
  Conns = {c1}
  FirstConn = c1
  NoConn = NoConn
  PeerMessages <- MCHandshake
  MaxMessages = 2
  MaxElapses = 0
  MaxRoutes = 0
  InboxCap = 2
CHECK_DEADLOCK FALSE
INVARIANTS
  NoTaskDies
