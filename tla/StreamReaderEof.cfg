SPECIFICATION Spec
CONSTANTS
  ReadWindow = 10
  PacketSizes = {4}
  ReadSizes = {4}
  StreamEnd = 8
  Starts = {0, 4, 8}
INVARIANTS
  EofNotStuck
CHECK_DEADLOCK FALSE
