SPECIFICATION FSMSpec
CONSTANTS
  DelayOpen = TRUE
  PassiveTcpEstablishment = FALSE
  InitialHoldTime = 90
  OpenHoldTimes <- MCHoldTimes
  EventTypes <- MCAllEvents
INVARIANTS
  FSMTypeOK
  CounterDiscipline
  SessionWatched
PROPERTIES
  EstablishedExitIsClean
  HoldTimeOnlyShrinks
