SPECIFICATION KeepalivesSpec
CONSTANTS
  DelayOpen = FALSE
  PassiveTcpEstablishment = TRUE
  InitialHoldTime = 5
  OpenHoldTimes <- MCHoldTimes
  EventTypes <- MCEvents
  KeepaliveTime = 2
  ConnectRetryTime = 2
  OpenHoldTime = 5
  MaxUnchecked = 2
  Receivable <- MCReceivable
  MaxQueue = 2
  Horizon = 8
INVARIANTS
  KeepalivesTypeOK
  PeerHearsUs
  SilentPeerDropped
  OnlyFailedAttemptsLeaveTimers
PROPERTIES
  LivePeerKept
  OnlyAFailedOpenStrands
