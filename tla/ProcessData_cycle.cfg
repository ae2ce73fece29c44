SPECIFICATION CycleSpec
VIEW CycleView
CONSTANTS
  NSlave = 3
  OutShape <- FewOut
  InShape <- FewIn
  MAXLRW = 4
  MAXSEG = 10
  MAXBUF = 8
  MaxBeside = 1
  MaxCycle = 3
  MaxLoss = 1
INVARIANTS Tiled WkcTells   Enabled
PROPERTY OutputsKept
