SPECIFICATION MessagesSpec
CONSTANTS
  Configs <- MCConfigs
  PeerOpens <- MCPeerOpens
  Reads <- MCReads
  Routes <- MCRoutes
  MaxSessions = 2
INVARIANTS
  MessagesTypeOK
  
  WithdrawnByFives
  PanicsOnly
  RefusedOnly
  OpensUnderstood
  WidthsAgree
  UpdatesAreStandard
  OpensAreStandard
CHECK_DEADLOCK FALSE
