SPECIFICATION FairSpec
CONSTANTS
  Transports = {"android"}
  Plans <- MCPlans
  Retries = 1
  PitAttempts = 2
  PitUnits = 5
  ChunkUnits = 2
  MaxTorn = 1
CHECK_DEADLOCK FALSE
PROPERTIES
  HandshakeTakesAnswer
