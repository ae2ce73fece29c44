SPECIFICATION FairSpec
CONSTANTS
  START = 6
  EC_MAXSM = 2
  EC_MAXNAME = 2
  Devices <- Some
  Chunk = 4
  MaxWords = 44
  Alias = 1
  ToolWords = 10
  Val = {7}
  Retries = 1
  MaxFault = 3
  MaxLoss = 1
  MaxCalls = 2
  CanStop = TRUE
INVARIANTS  WriteIsDone OwnerRight
PROPERTY Returns
