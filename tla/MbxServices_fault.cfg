SPECIFICATION FairSpec
CONSTANTS
  Family = {"sdo","pdo","foe","soe","eoe","info"}
  SdoObj = {"a1", "b1"}
  Obj <- ObjDef
  Index <- IndexDef
  NParts <- NPartsDef
  Room <- RoomDef
  Error <- ErrorDef
  EC_MAXELIST = 2
  EC_MAXODLIST = 4
  MaxRounds = 3
  MaxCalls = 2
  FrameNos = 4
  MaxFrame = 1
  RxRoom = 6
  M = 2
  MaxCnt = 2
  MaxFault = 1
  WriteBackLost = TRUE
  Slow = TRUE
  CanDie = TRUE
INVARIANTS ReadIsRight WriteIsDone CallSucceeds FrameIsRight
PROPERTIES ErrorsInOrder CallReturnsIfAlive
