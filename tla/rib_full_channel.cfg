SPECIFICATION Spec
CONSTANTS
  n1 = n1
  n2 = n2
  Configured <- MCOneConfigured
  Strangers = {}
  Prefixes = {p1, p2, p3}
  Networks = {p1, p2, p3}
  Local = Local
  Nobody = Nobody
  ChannelCap = 2
  MaxSends = 3
  MaxAccepts = 1
CHECK_DEADLOCK FALSE
INVARIANTS
  TableSendNeverStuck
