SPECIFICATION FairSpec
CONSTANTS
  DelayOpen = FALSE
  PassiveTcpEstablishment = TRUE
  InitialHoldTime = 90
  OpenHoldTimes <- MCHoldTimes
  EventTypes <- MCEvents
  WatcherCap = 2
  Conns = {c1}
  FirstConn = c1
  NoConn = NoConn
  PeerMessages <- MCAnnouncing
  MaxMessages = 3
  MaxElapses = 1
  MaxRoutes = 0
  InboxCap = 1
CHECK_DEADLOCK FALSE
PROPERTIES
  EventsHandled
  ClosedSessionEnds
  DropIsTaken
