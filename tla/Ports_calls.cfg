CONSTANTS
  c1 = c1
  c2 = c2
  Caller = {c1, c2}
  NBuf = 2
  Packets = 3
  MaxTries = 2
  RedCalls = 1
  MaxFault = 2
  User = {c1, c2}
  MaxBuf = 2
  NGen = 2
  NoOne = NoOne
SPECIFICATION PortsSpec
SYMMETRY Symmetry
INVARIANTS PacketsKept NoneAbandoned OwnData MarksAreUsers
PROPERTY ExchangeSpec
