SPECIFICATION FramingSpec
CONSTANTS
  MarkerLen = 3
  MaxBody = 2
  MaxMessages = 4
CHECK_DEADLOCK FALSE

  
PROPERTIES
  ScanEnds
