SPECIFICATION MCSpec
CONSTANTS
  MaxSends = 3
  MaxReopens = 1
  Transports = {"usbfs", "android", "tcp"}
  Plans <- MCPlans
  Retries = 1
  PitAttempts = 2
  PitUnits = 5
  ChunkUnits = 2
  MaxTorn = 1
CHECK_DEADLOCK FALSE
INVARIANTS
  ServiceSound
  WatchdogEnds
  OneSessionPerScreen
  PitIntact
  SessionSound
PROPERTIES
  FlashSettles
  SessionEnds
