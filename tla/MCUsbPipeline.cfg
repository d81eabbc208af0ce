SPECIFICATION FairSpec
CONSTANTS
  Depth = 3
  MaxChunks = 5
  MaxSends = 2
CHECK_DEADLOCK FALSE
INVARIANTS
  UrbsSound
  DrainNeverWaits
  SuccessIsComplete
PROPERTIES
  SendEnds
