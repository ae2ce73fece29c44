CONSTANTS
  Buses <- SomeBuses
  Kind <- Kinds
  Half = 256
  EC_MAXSLAVE = 6
  MaxFail = 1
  SyncDelay = 7
  Cycles = {0, 3, 4}
  Shifts <- SomeShifts
  MaxSync = 2
SPECIFICATION BringUpSpec
INVARIANTS ListIsSegment ReachesPreop MapsWhatSlaveMaps ClocksRight PulsesTogether
CHECK_DEADLOCK FALSE
