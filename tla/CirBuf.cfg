SPECIFICATION FairSpec
CONSTANTS
  MaxSize = 3
  MaxData = 4
  MaxTotal = 6
INVARIANTS
  NoLostWakeup
PROPERTIES
  ImplementsOutputBuffer
