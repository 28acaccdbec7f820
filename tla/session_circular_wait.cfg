SPECIFICATION Spec
CONSTANTS
  DelayOpen = FALSE
  PassiveTcpEstablishment = TRUE
  InitialHoldTime = 90
  OpenHoldTimes <- MCHoldTimes
  EventTypes <- MCEvents
  WatcherCap = 5
  Conns = {c1, c2}
  FirstConn = c1
  NoConn = NoConn
  PeerMessages <- MCHandshake
  MaxMessages = 1
  MaxElapses = 1
  MaxRoutes = 0
  InboxCap = 2
CHECK_DEADLOCK FALSE
INVARIANTS
  NoCircularWait
