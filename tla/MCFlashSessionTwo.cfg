SPECIFICATION SessionSpec
CONSTANTS
  MaxSends = 3
  MaxReopens = 1
CHECK_DEADLOCK FALSE
INVARIANTS
  OneSession
