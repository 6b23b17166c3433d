SPECIFICATION Spec
CONSTANTS
  CwndSize = 2
  CirBufSize = 3
  MaxPacketSize = 2
  Rwnds = {0, 1, 3}
  MaxTotal = 4
  MaxConnects = 2
INVARIANTS
  SendsInOrder
  SenderSleepsOnlyIdle
  NoFlowControlDeadlock
CHECK_DEADLOCK FALSE
