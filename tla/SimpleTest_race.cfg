SPECIFICATION FairSpec
CONSTANTS
  Byte = 16
  MaxRun = 2
  MaxLoss = 1
  MaxFault = 0
PROPERTIES Activated
