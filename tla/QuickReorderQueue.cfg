SPECIFICATION FairSpec
CONSTANTS
  Sessions = {s1, s2}
  MaxSeqNum = 3
  Cap = 3
  Timeout = 2
  Off = Off
INVARIANTS
  OvertakenOnlyAfterWaiting
PROPERTIES
  EveryItemGetsOut
CHECK_DEADLOCK FALSE
