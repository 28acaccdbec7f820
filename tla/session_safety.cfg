SPECIFICATION Spec
CONSTANTS
  DelayOpen = FALSE
  PassiveTcpEstablishment = TRUE
  InitialHoldTime = 90
  OpenHoldTimes <- MCHoldTimes
  EventTypes <- MCEvents
  WatcherCap = 2
  Conns = {c1, c2}
  FirstConn = c1
  NoConn = NoConn
  PeerMessages <- MCAnnouncing
  MaxMessages = 3
  MaxElapses = 1
  MaxRoutes = 1
  InboxCap = 1
CHECK_DEADLOCK FALSE
INVARIANTS
  SessionTypeOK
  NoLostWakeup
  EventsBounded
  HalvesAgree
  SessionOnOneConnection
  NoRetryTimerInSession
PROPERTIES
  EstablishedByItsOwnPeer
