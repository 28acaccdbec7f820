SPECIFICATION FairSpec
CONSTANTS
  n1 = n1
  n2 = n2
  Configured <- MCConfigured
  Strangers = {s1}
  Prefixes = {p1, p2}
  Networks = {p1}
  Local = Local
  Nobody = Nobody
  ChannelCap = 2
  MaxSends = 4
  MaxAccepts = 2
CHECK_DEADLOCK FALSE
INVARIANTS
  RibTypeOK
  NoStrandedMessage
  AnnouncementsArrive
PROPERTIES
  AppliedInOrder
  SenderUnblocks
  AppliedEventually
