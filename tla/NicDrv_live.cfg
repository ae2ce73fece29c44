CONSTANTS
  c1 = c1
  c2 = c2
  Caller = {c1}
  NSeg = 1
  MaxBuf = 2
  NGen = 1
  MaxCopy = 1
  SendFail = TRUE
  Late = FALSE
  NoOne = NoOne
SPECIFICATION FairSpec
PROPERTIES CallsReturn CyclesGoOn
VIEW Behaviour
