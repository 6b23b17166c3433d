SPECIFICATION Spec
CONSTANTS
  Sessions = {s1}
  MaxSeqNum = 4
  Cap = 4
  Timeout = 2
  Off = Off
INVARIANTS
  TurnIsTaken
CHECK_DEADLOCK FALSE
