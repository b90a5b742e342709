SPECIFICATION FairSpec
CONSTANTS
  ControlsEnabled = TRUE
  Window = 2
  MaxOut = 5
  MaxRestarts = 1
INVARIANTS TypeOK GoneMeansOffline RetainedIsLast
PROPERTIES AvailabilitySettles CommandsReachable ShutdownEnds
