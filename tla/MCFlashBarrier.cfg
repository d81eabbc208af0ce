SPECIFICATION FairSpec
CONSTANTS
  Devices = {d1, d2}
  Coordinator = coordinator
  Shape <- MCShape
INVARIANTS
  Lockstep
  LeaseCoversReads
  ReportsAreTrue
PROPERTIES
  DevicesFollowProtocol
  FlashStepReturns
