SPECIFICATION Spec
CONSTANTS
  CwndSize = 2
  CirBufSize = 3
  MaxPacketSize = 2
  Rwnds = {0, 1, 3}
  MaxTotal = 4
  MaxConnects = 2
PROPERTIES
  StartSeqIsFirstByte
CHECK_DEADLOCK FALSE
