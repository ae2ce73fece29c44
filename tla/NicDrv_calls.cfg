CONSTANTS
  c1 = c1
  c2 = c2
  Caller = {c1, c2}
  NSeg = 0
  MaxBuf = 3
  NGen = 2
  MaxCopy = 1
  SendFail = FALSE
  Late = FALSE
  NoOne = NoOne
SPECIFICATION Spec
SYMMETRY Symmetry
 
PROPERTY ExchangeSpec
