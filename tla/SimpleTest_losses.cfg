SPECIFICATION FairSpec
CONSTANTS
  Byte = 16
  MaxRun = 1
  MaxLoss = 7
  MaxFault = 1
INVARIANTS CtlCountsLosses CommandIsForState
PROPERTIES OperationHolds
