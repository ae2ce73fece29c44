SPECIFICATION FairMonitor
CONSTANTS
  N = 3
  Scenario <- CutsAndPower
INVARIANTS RightAddress TempIsTemporary
PROPERTIES Resumes AddressKept
