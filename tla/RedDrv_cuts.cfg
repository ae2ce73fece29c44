SPECIFICATION FairSpec
CONSTANTS
  NSlave = 3
  NIdx = 3
  MaxTries = 2
  MaxCut = 3
  MaxLoss = 1
INVARIANTS Serviced FullIsFull
PROPERTIES CallReturns
