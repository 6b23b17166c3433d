SPECIFICATION FairSpec
CONSTANTS
  ReadWindow = 10
  PacketSizes = {2, 4}
  ReadSizes = {1, 4}
  StreamEnd = 12
  Starts = {0, 4, 12}
INVARIANTS
  InOrderExactlyOnce
  DataNotStuck
PROPERTIES
  AllBytesArrive
CHECK_DEADLOCK FALSE
