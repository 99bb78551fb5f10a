SPECIFICATION FairSpec
CONSTANTS
  Caller = {p, q}
  NoCaller = NoCaller
  WaitNodeSync = TRUE
  Throttling = TRUE
INVARIANTS
  OnlyForceKills
  NoOtherRoutinesExist
  InFlightIsReceived
PROPERTIES
  ForcedStopReturns
